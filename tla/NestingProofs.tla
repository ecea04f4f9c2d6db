--------------------------- MODULE NestingProofs ---------------------------
(***************************************************************************)
(* Proper nesting is an invariant of Nesting for every depth.              *)
(***************************************************************************)
EXTENDS Nesting, TLAPS

(* At first nothing is open and nothing consumed.                          *)
LEMMA InitInv == Bounds /\ Init => Inv
BY DEF Bounds, Init, Inv, TypeOK, OpenInOrder, ConsumedAndOpen, Nested

(* To read a header disturbs nothing: the cursor only moves on.            *)
LEMMA HeaderInv == Bounds /\ Inv /\ Header => Inv'
<1> SUFFICES ASSUME Bounds, Inv, Header PROVE Inv'
  OBVIOUS
<1> USE DEF Bounds, Inv, Header, Forward
<1>1. TypeOK'
  BY DEF TypeOK
<1>2. OpenInOrder'
  BY DEF OpenInOrder, TypeOK
<1>3. ConsumedAndOpen'
  BY DEF ConsumedAndOpen, TypeOK
<1>4. Nested'
  BY DEF Nested, Apart, Within
<1> QED BY <1>1, <1>2, <1>3, <1>4

(* The element that is opened starts at the cursor, inside the others.     *)
LEMMA DescendInv == Bounds /\ Inv /\ Descend => Inv'
<1> SUFFICES ASSUME Bounds, Inv, Descend PROVE Inv'
  OBVIOUS
<1> USE DEF Bounds, Inv, Descend, Forward
<1>1. TypeOK'
  BY DEF TypeOK
<1>2. \A i \in 0 .. depth - 1 : open'[i] = open[i]
  BY DEF TypeOK
<1>3. open'[depth] = cursor'
  BY DEF TypeOK
<1>4. OpenInOrder'
  BY <1>1, <1>2, <1>3 DEF OpenInOrder, TypeOK
<1>5. ConsumedAndOpen'
  BY <1>1, <1>2, <1>3 DEF ConsumedAndOpen, TypeOK
<1>6. Nested'
  BY DEF Nested, Apart, Within
<1> QED BY <1>1, <1>4, <1>5, <1>6

(* An element that starts at s, with nothing consumed across s, and ends   *)
(* at the new cursor can join what has been consumed.                      *)
LEMMA Joins ==
    ASSUME Bounds, Inv, Forward, NEW s \in Nat, s <= cursor,
           \A e \in consumed : e.past <= s \/ s <= e.first,
           consumed' = consumed \cup {[first |-> s, past |-> cursor']}
    PROVE  Nested' /\ \A e \in consumed' : e.first <= e.past /\ e.past <= cursor'
<1> USE DEF Bounds
<1> DEFINE new == [first |-> s, past |-> cursor']
<1>1. new.first = s /\ new.past = cursor'
  OBVIOUS
<1>2. \A e \in consumed : /\ e.first \in Nat /\ e.past \in Nat
                         /\ e.first <= e.past /\ e.past <= cursor'
  BY DEF Inv, TypeOK, ConsumedAndOpen, Forward
<1> HIDE DEF new
<1>3. \A e \in consumed : Apart(e, new) \/ Within(e, new)
  BY <1>1, <1>2 DEF Apart, Within
<1>4. Within(new, new)
  BY <1>1 DEF Within, Forward, Inv, TypeOK
<1>5. consumed' = consumed \cup {new}
  BY DEF new
<1>6. \A e, f \in consumed' : Apart(e, f) \/ Within(e, f) \/ Within(f, e)
  <2> SUFFICES ASSUME NEW e \in consumed', NEW f \in consumed'
               PROVE  Apart(e, f) \/ Within(e, f) \/ Within(f, e)
    OBVIOUS
  <2>1. CASE e \in consumed /\ f \in consumed
    BY <2>1 DEF Inv, Nested
  <2>2. CASE e \in consumed /\ f = new
    BY <2>2, <1>3
  <2>3. CASE e = new /\ f \in consumed
    BY <2>3, <1>3 DEF Apart
  <2>4. CASE e = new /\ f = new
    BY <2>4, <1>4
  <2> QED BY <1>5, <2>1, <2>2, <2>3, <2>4
<1>7. Nested'
  BY <1>6 DEF Nested, Apart, Within
<1>8. s <= cursor' /\ cursor' \in Nat
  BY DEF Forward, Inv, TypeOK
<1> QED BY <1>1, <1>2, <1>5, <1>7, <1>8

(* What is consumed starts behind all that was, inside all that is open.   *)
LEMMA ConsumeInv == Bounds /\ Inv /\ Consume => Inv'
<1> SUFFICES ASSUME Bounds, Inv, Consume PROVE Inv'
  OBVIOUS
<1> USE DEF Bounds, Inv, Consume, Forward
<1>1. TypeOK'
  BY DEF TypeOK
<1>2. OpenInOrder'
  BY DEF OpenInOrder, TypeOK
<1>3. Nested' /\ \A e \in consumed' : e.first <= e.past /\ e.past <= cursor'
  BY Joins DEF TypeOK, ConsumedAndOpen
<1>4. ConsumedAndOpen'
  BY <1>3 DEF ConsumedAndOpen, OpenInOrder, TypeOK
<1> QED BY <1>1, <1>2, <1>3, <1>4

(* The innermost open element may be consumed up to the cursor.            *)
LEMMA CloseInv == Bounds /\ Inv /\ Close => Inv'
<1> SUFFICES ASSUME Bounds, Inv, Close PROVE Inv'
  OBVIOUS
<1> USE DEF Bounds, Inv, Close, Forward
<1>1. /\ depth - 1 \in 0 .. depth - 1 /\ depth - 1 \in 0 .. MaxDepth - 1
      /\ open[depth - 1] \in Nat /\ open[depth - 1] <= cursor
  BY DEF TypeOK, OpenInOrder
<1>2. TypeOK'
  BY <1>1 DEF TypeOK
<1>3. OpenInOrder'
  BY DEF OpenInOrder, TypeOK
<1>4. Nested' /\ \A e \in consumed' : e.first <= e.past /\ e.past <= cursor'
  <2>1. \A e \in consumed : e.past <= open[depth - 1] \/ open[depth - 1] <= e.first
    BY <1>1 DEF ConsumedAndOpen
  <2> QED BY <1>1, <2>1, Joins
<1>5. \A i \in 0 .. depth - 2 : open[i] <= open[depth - 1]
  BY <1>1 DEF OpenInOrder, TypeOK
<1>6. ConsumedAndOpen'
  BY <1>4, <1>5 DEF ConsumedAndOpen, TypeOK
<1> QED BY <1>2, <1>3, <1>4, <1>6

(* Whatever a decoder of this kind has consumed is properly nested.        *)
THEOREM AlwaysNested == ASSUME Bounds PROVE Spec => []Nested
<1>1. Inv /\ [Next]_vars => Inv'
  <2> SUFFICES ASSUME Inv, [Next]_vars PROVE Inv'
    OBVIOUS
  <2>1. CASE UNCHANGED vars
    BY <2>1 DEF vars, Inv, TypeOK, OpenInOrder, ConsumedAndOpen, Nested, Apart, Within
  <2> QED BY <2>1, HeaderInv, DescendInv, ConsumeInv, CloseInv DEF Next
<1>2. Inv => Nested
  BY DEF Inv
<1>3. Init => Inv
  BY InitInv
<1> QED BY <1>1, <1>2, <1>3, PTL DEF Spec
=============================================================================
