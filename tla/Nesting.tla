------------------------------ MODULE Nesting ------------------------------
(***************************************************************************)
(* What decoding a BER document promises, whatever the bytecode and the    *)
(* way lengths are given: a cursor moves over the document, forward only;  *)
(* elements are opened where the cursor stands and closed in the reverse   *)
(* order; and whatever has been consumed is properly nested.               *)
(***************************************************************************)
EXTENDS Integers

CONSTANTS
    MaxDepth,   \* elements that can be open at a time
    Offsets     \* the places the cursor can be at

(* What is required of the two.                                            *)
Bounds == MaxDepth \in Nat /\ Offsets \subseteq Nat /\ 0 \in Offsets

VARIABLES
    cursor,     \* the offset reached
    depth,      \* the number of open elements
    open,       \* where the contents of each open element begin
    consumed    \* the [first, past) ranges of the elements behind the cursor

vars == <<cursor, depth, open, consumed>>

Init ==
    /\ cursor = 0 /\ depth = 0 /\ consumed = {}
    /\ open = [i \in 0 .. MaxDepth - 1 |-> 0]

Forward == cursor' \in Offsets /\ cursor' >= cursor

(* A header is read; its contents will be stepped over.                    *)
Header == Forward /\ UNCHANGED <<depth, open, consumed>>

(* A header is read and its contents are gone into.                        *)
Descend ==
    /\ depth < MaxDepth
    /\ Forward
    /\ open' = [open EXCEPT ![depth] = cursor'] /\ depth' = depth + 1
    /\ UNCHANGED consumed

(* Contents are stepped over.                                              *)
Consume ==
    /\ Forward
    /\ consumed' = consumed \cup {[first |-> cursor, past |-> cursor']}
    /\ UNCHANGED <<depth, open>>

(* The innermost open element ends.                                        *)
Close ==
    /\ depth > 0
    /\ Forward
    /\ consumed' = consumed \cup {[first |-> open[depth - 1], past |-> cursor']}
    /\ depth' = depth - 1
    /\ UNCHANGED open

Next == Header \/ Descend \/ Consume \/ Close

Spec == Init /\ [][Next]_vars

----------------------------------------------------------------------------
Apart(e, f) == e.past <= f.first \/ f.past <= e.first
Within(e, f) == f.first <= e.first /\ e.past <= f.past

(* Two elements that have been consumed lie apart, or one inside the other.*)
Nested == \A e, f \in consumed : Apart(e, f) \/ Within(e, f) \/ Within(f, e)

(* The open elements begin one inside the other, behind the cursor.        *)
OpenInOrder ==
    \A i \in 0 .. depth - 1 :
        open[i] <= cursor /\ \A j \in 0 .. i : open[j] <= open[i]

(* What has been consumed lies before or inside each open element.         *)
ConsumedAndOpen ==
    \A e \in consumed :
        /\ e.first <= e.past /\ e.past <= cursor
        /\ \A i \in 0 .. depth - 1 : e.past <= open[i] \/ open[i] <= e.first

TypeOK ==
    /\ cursor \in Nat /\ depth \in 0 .. MaxDepth
    /\ open \in [0 .. MaxDepth - 1 -> Nat]
    /\ consumed \in SUBSET [first : Nat, past : Nat]

(* Nested is not inductive on its own: the element that Close adds starts  *)
(* behind the cursor, and only the two parts on open elements tell that no *)
(* element consumed before reaches across its start.                       *)
Inv == TypeOK /\ OpenInOrder /\ ConsumedAndOpen /\ Nested
=============================================================================
