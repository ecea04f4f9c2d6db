------------------------------ MODULE EfiLink ------------------------------
(***************************************************************************)
(* The doubly linked list of showhotkeys/efilink.c.                        *)
(*                                                                         *)
(* The list is a ring through its head; an entry carries its own links,    *)
(* and an entry taken out of the ring keeps those it had.  A function of   *)
(* the code that changes links is an operator from links to links; what    *)
(* its caller may do with it is an action.                                 *)
(***************************************************************************)
EXTENDS Naturals, Sequences

CONSTANTS ListHead, Entries

ASSUME HeadAssumption == ListHead \notin Entries

Nodes == Entries \cup {ListHead}

VARIABLES
    links,  \* [fwd, back]: the ForwardLink and the BackLink of every node
    order   \* history: the entries in the order the callers asked for

vars == <<links, order>>

----------------------------------------------------------------------------
InitializeListHead(l, h) ==
    [fwd |-> [l.fwd EXCEPT ![h] = h], back |-> [l.back EXCEPT ![h] = h]]

(* Seeded bug: the old first entry is not told of the new one.             *)
InsertHeadList_one_way(l, h, e) ==
    [fwd  |-> [l.fwd EXCEPT ![e] = l.fwd[h], ![h] = e],
     back |-> [l.back EXCEPT ![e] = h]]

InsertHeadList(l, h, e) ==
    [fwd  |-> [l.fwd EXCEPT ![e] = l.fwd[h], ![h] = e],
     back |-> [l.back EXCEPT ![e] = h, ![l.fwd[h]] = e]]

InsertTailList(l, h, e) ==
    [fwd  |-> [l.fwd EXCEPT ![e] = h, ![l.back[h]] = e],
     back |-> [l.back EXCEPT ![e] = l.back[h], ![h] = e]]

RemoveEntryList(l, e) ==
    [fwd  |-> [l.fwd EXCEPT ![l.back[e]] = l.fwd[e]],
     back |-> [l.back EXCEPT ![l.fwd[e]] = l.back[e]]]

(* Seeded bug: the link that leads backwards.                              *)
GetFirstNode_last(l, h) == l.back[h]
GetFirstNode(l, h) == l.fwd[h]
GetNextNode(l, n) == l.fwd[n]
GetPreviousNode(l, n) == l.back[n]
IsNull(h, n) == n = h
IsListEmpty(l, h) == l.fwd[h] = h
IsNodeAtEnd(l, h, n) == ~IsNull(h, n) /\ l.back[h] = n

(* Seeded bug: the step for adjacent entries is left out.                  *)
SwapListEntries_adjacent(l, first, second) ==
    IF first = second THEN l
    ELSE LET ptr  == l.fwd[first]
             out  == RemoveEntryList(l, first)
             over == InsertHeadList(out, second, first)
         IN InsertTailList(RemoveEntryList(over, second), ptr, second)

(* The code returns `second' in each of the four cases.                    *)
SwapListEntries(l, first, second) ==
    IF first = second THEN l
    ELSE LET ptr  == l.fwd[first]
             out  == RemoveEntryList(l, first)
             over == InsertHeadList(out, second, first)
         IN IF GetPreviousNode(out, ptr) = second THEN InsertTailList(out, second, first)
            ELSE IF ptr = second THEN over
            ELSE InsertTailList(RemoveEntryList(over, second), ptr, second)

----------------------------------------------------------------------------
(* A caller puts in an entry that is out, and takes out or swaps ones that *)
(* are in.                                                                 *)

Linked == {order[i] : i \in DOMAIN order}

Init ==
    /\ links = InitializeListHead(
                 [fwd |-> [n \in Nodes |-> n], back |-> [n \in Nodes |-> n]], ListHead)
    /\ order = <<>>

InsertHead(e) ==
    /\ e \in Entries \ Linked
    /\ links' = InsertHeadList(links, ListHead, e)
    /\ order' = <<e>> \o order

InsertTail(e) ==
    /\ e \in Entries \ Linked
    /\ links' = InsertTailList(links, ListHead, e)
    /\ order' = order \o <<e>>

TakeOut(i) ==
    /\ links' = RemoveEntryList(links, order[i])
    /\ order' = SubSeq(order, 1, i - 1) \o SubSeq(order, i + 1, Len(order))

Swap(i, j) ==
    /\ links' = SwapListEntries(links, order[i], order[j])
    /\ order' = [order EXCEPT ![i] = order[j], ![j] = order[i]]

Next ==
    \/ \E e \in Entries : InsertHead(e) \/ InsertTail(e)
    \/ \E i \in DOMAIN order : TakeOut(i) \/ \E j \in DOMAIN order : Swap(i, j)

Spec == Init /\ [][Next]_vars

----------------------------------------------------------------------------
(* The node at place i of the ring; the head is at both ends.              *)
At(i) == IF i \in DOMAIN order THEN order[i] ELSE ListHead

(* Forwards and backwards the links visit exactly the entries that were    *)
(* put in and not taken out, in the order asked for: also when the swapped *)
(* entries are neighbours, either way round, the first or the last.        *)
LinksFollowOrder ==
    \A i \in 0 .. Len(order) : /\ links.fwd[At(i)] = At(i + 1)
                               /\ links.back[At(i + 1)] = At(i)
=============================================================================
