--------------------------- MODULE HotKeysProofs ---------------------------
(***************************************************************************)
(* The list of showhotkeys for a variable store of any size.               *)
(*                                                                         *)
(* Walk is what the links lead through; the lemmas of EfiLinkProofs say    *)
(* what the operations make of a ring laid out as a sequence.  WalkIs      *)
(* brings the two together, and from there on the proof is about           *)
(* sequences.                                                              *)
(***************************************************************************)
EXTENDS HotKeys, WellFoundedInduction, FiniteSetTheorems, SequenceTheorems, TLAPS

R == INSTANCE EfiLinkProofs WITH order <- Walk(links)

----------------------------------------------------------------------------
(* Induction over the natural numbers, from the least number that fails.   *)
LEMMA LeastElement ==
    ASSUME NEW S \in SUBSET Nat, S # {}
    PROVE  \E n \in S : \A m \in S : n <= m
<1>1. PICK less : IsWellFoundedOn(less, Nat) /\ \A m, n \in Nat : <<m, n>> \in less <=> m < n
  <2> DEFINE less == OpToRel(<, Nat)
  <2>1. IsWellFoundedOn(less, Nat)
    BY NatLessThanWellFounded
  <2>2. \A m, n \in Nat : <<m, n>> \in less <=> m < n
    BY DEF OpToRel
  <2> HIDE DEF less
  <2> QED
    BY <2>1, <2>2
<1>2. IsWellFoundedOn(less, Nat) /\ S \subseteq Nat
  BY <1>1
<1>3. PICK n \in S : \A m \in S : ~ (<<m, n>> \in less)
  <2>1. \E x \in S : \A y \in S : ~ (<<y, x>> \in less)
    BY <1>2, WFMin, Zenon
  <2> QED
    BY <2>1
<1>4. \A m \in S : ~ (m < n)
  BY <1>1, <1>2, <1>3
<1>5. \A m, k \in Nat : ~ (m < k) => k <= m
  OBVIOUS
<1> QED
  BY <1>2, <1>3, <1>4, <1>5

LEMMA Induct ==
    ASSUME NEW S, 0 \in S, \A n \in Nat : n \in S => n + 1 \in S
    PROVE  \A n \in Nat : n \in S
<1> DEFINE T == Nat \ S
<1>1. SUFFICES ASSUME T # {} PROVE FALSE
  OBVIOUS
<1>2. PICK n \in T : \A m \in T : n <= m
  BY <1>1, LeastElement
<1>3. n # 0 /\ n - 1 \in Nat /\ n - 1 \notin T
  BY <1>2
<1> QED
  BY <1>2, <1>3

----------------------------------------------------------------------------
(* What EfiLink assumes of the head.                                       *)
LEMMA HeadIsNoEntry == ListHead \notin Entries
  BY DEF ListHead, Entries

(* The list held in the links l is the sequence o.                         *)

ListOf(l, o) == o \in Seq(Entries) /\ R!Ring(l, Len(o), R!Laid(o))

LEMMA ListOfFacts ==
    ASSUME NEW l, NEW o, ListOf(l, o)
    PROVE  /\ o \in Seq(Entries) /\ Len(o) \in Nat /\ DOMAIN o = 1 .. Len(o)
           /\ \A i \in 1 .. Len(o) : o[i] \in Entries /\ o[i] # ListHead
           /\ \A i, j \in 1 .. Len(o) : o[i] = o[j] => i = j
           /\ l \in [fwd : [List!Nodes -> List!Nodes], back : [List!Nodes -> List!Nodes]]
           /\ l.fwd[ListHead] = IF Len(o) = 0 THEN ListHead ELSE o[1]
           /\ \A i \in 1 .. Len(o) : l.fwd[o[i]] = IF i = Len(o) THEN ListHead ELSE o[i + 1]
           /\ Len(o) <= MaxNames
<1> DEFINE n == Len(o)
           p == R!Laid(o)
<1>1. o \in Seq(Entries) /\ R!Ring(l, n, p)
  BY DEF ListOf
<1>2. n \in Nat /\ DOMAIN o = 1 .. n /\ \A i \in 1 .. n : o[i] \in Entries
  BY <1>1, LenProperties, ElementOfSeq
<1>3. /\ \A i \in 1 .. n : p[i] = o[i]
      /\ p[0] = ListHead /\ p[n + 1] = ListHead
  BY <1>1, HeadIsNoEntry, R!LaidType
<1>4. /\ l \in R!Links
      /\ \A i, j \in 0 .. n : p[i] = p[j] => i = j
      /\ \A i \in 0 .. n : l.fwd[p[i]] = p[i + 1]
  BY <1>1 DEF R!Ring
<1> HIDE DEF p, n
<1>5. \A i \in 1 .. n : o[i] # ListHead
  BY <1>2 DEF Entries, ListHead
<1>6. \A i, j \in 1 .. n : o[i] = o[j] => i = j
  BY <1>2, <1>3, <1>4
<1>7. l \in [fwd : [List!Nodes -> List!Nodes], back : [List!Nodes -> List!Nodes]]
  BY <1>4 DEF R!Links, R!Nodes, List!Nodes
<1>8. l.fwd[ListHead] = IF n = 0 THEN ListHead ELSE o[1]
  <2>1. l.fwd[p[0]] = p[0 + 1] /\ p[0] = ListHead
    BY <1>2, <1>3, <1>4
  <2>2. p[0 + 1] = IF n = 0 THEN ListHead ELSE o[1]
    BY <1>2, <1>3
  <2> QED
    BY <2>1, <2>2
<1>9. ASSUME NEW i \in 1 .. n
      PROVE  l.fwd[o[i]] = IF i = n THEN ListHead ELSE o[i + 1]
  <2>1. l.fwd[p[i]] = p[i + 1] /\ p[i] = o[i]
    BY <1>2, <1>3, <1>4
  <2>2. p[i + 1] = IF i = n THEN ListHead ELSE o[i + 1]
    BY <1>2, <1>3
  <2> QED
    BY <2>1, <2>2
<1>10. n <= MaxNames
  <2>1. MaxNames \in Nat
    BY ParametersAssumption
  <2>2. o \in Injection(1 .. n, Entries)
    <3>1. o \in [1 .. n -> Entries]
      BY <1>1, LenProperties DEF n
    <3> QED
      BY <1>2, <1>6, <3>1 DEF Injection, IsInjective
  <2>3. IsFiniteSet(Entries) /\ Cardinality(Entries) = MaxNames
    BY <2>1, FS_Interval DEF Entries
  <2>4. Cardinality(1 .. n) <= MaxNames
    BY <2>2, <2>3, FS_Injection
  <2>5. Cardinality(1 .. n) = n
    BY <1>2, FS_Interval
  <2> QED
    BY <2>4, <2>5
<1> QED
  BY <1>1, <1>2, <1>5, <1>6, <1>7, <1>8, <1>9, <1>10 DEF n

(* There is a walk along the ForwardLinks, of any length.                  *)
LEMMA WalkExists ==
    ASSUME NEW fwd \in [List!Nodes -> List!Nodes], NEW m \in Nat
    PROVE  \E f : f = [k \in 0 .. m |-> IF k = 0 THEN ListHead ELSE fwd[f[k - 1]]]
<1> DEFINE Along(f, n) == /\ f \in [0 .. n -> List!Nodes]
                          /\ f[0] = ListHead
                          /\ \A k \in 1 .. n : f[k] = fwd[f[k - 1]]
           S == {n \in Nat : \E f : Along(f, n)}
<1>1. 0 \in S
  <2> DEFINE f == [k \in 0 .. 0 |-> ListHead]
  <2>1. f \in [0 .. 0 -> List!Nodes] /\ f[0] = ListHead /\ 1 .. 0 = {}
    BY DEF List!Nodes
  <2>2. Along(f, 0)
    BY <2>1
  <2> QED
    BY <2>2
<1>2. ASSUME NEW n \in Nat, n \in S
      PROVE  n + 1 \in S
  <2>1. PICK f : Along(f, n)
    BY <1>2
  <2> DEFINE g == [k \in 0 .. n + 1 |-> IF k = n + 1 THEN fwd[f[n]] ELSE f[k]]
  <2>2. g \in [0 .. n + 1 -> List!Nodes] /\ g[n + 1] = fwd[f[n]] /\ \A k \in 0 .. n : g[k] = f[k]
    BY <2>1
  <2> HIDE DEF g
  <2>3. g[0] = ListHead
    BY <2>1, <2>2
  <2>4. ASSUME NEW k \in 1 .. n + 1
        PROVE  g[k] = fwd[g[k - 1]]
    <3>1. CASE k = n + 1
      <4>1. k - 1 = n /\ n \in 0 .. n
        BY <3>1
      <4> QED
        BY <2>2, <3>1, <4>1
    <3>2. CASE k # n + 1
      <4>1. k \in 1 .. n /\ k - 1 \in 0 .. n /\ k \in 0 .. n
        BY <3>2
      <4> QED
        BY <2>1, <2>2, <4>1
    <3> QED
      BY <3>1, <3>2
  <2>5. Along(g, n + 1)
    BY <2>2, <2>3, <2>4
  <2> QED
    BY <2>5
<1>3. m \in S
  <2> HIDE DEF S
  <2> QED
    BY <1>1, <1>2, Induct
<1>4. PICK f : Along(f, m)
  BY <1>3
<1>5. f = [k \in 0 .. m |-> IF k = 0 THEN ListHead ELSE fwd[f[k - 1]]]
  <2>1. f \in [0 .. m -> List!Nodes] /\ \A k \in 0 .. m : k = 0 \/ k \in 1 .. m
    BY <1>4
  <2>2. \A k \in 0 .. m : f[k] = IF k = 0 THEN ListHead ELSE fwd[f[k - 1]]
    BY <1>4, <2>1
  <2> QED
    BY <2>1, <2>2
<1> QED
  BY <1>5

(* The walk leads through the whole list and no further.                   *)
LEMMA WalkIs ==
    ASSUME NEW l, NEW o, ListOf(l, o)
    PROVE  Walk(l) = o
<1> DEFINE n == Len(o)
           M == MaxNames
           p == R!Laid(o)
<1>1. /\ o \in Seq(Entries) /\ n \in Nat /\ DOMAIN o = 1 .. n /\ n <= M /\ M \in Nat
      /\ l.fwd \in [List!Nodes -> List!Nodes]
      /\ \A i \in 1 .. n : o[i] # ListHead
  BY ListOfFacts, ParametersAssumption
<1>2. /\ p[0] = ListHead /\ p[n + 1] = ListHead
      /\ \A i \in 1 .. n : p[i] = o[i]
      /\ \A i \in 0 .. n : l.fwd[p[i]] = p[i + 1]
  BY <1>1, HeadIsNoEntry, R!LaidType DEF ListOf, R!Ring
<1> DEFINE Steps(f) == f = [k \in 0 .. M + 1 |-> IF k = 0 THEN ListHead ELSE l.fwd[f[k - 1]]]
           step == CHOOSE f : Steps(f)
           Size(k) == /\ k = M + 1 \/ step[k + 1] = ListHead
                      /\ \A m \in 1 .. k : step[m] # ListHead
           size == CHOOSE k \in 0 .. M + 1 : Size(k)
<1>3. Walk(l) = [k \in 1 .. size |-> step[k]]
  BY DEF Walk
<1>4. Steps(step)
  <2>1. \E f : Steps(f)
    <3>1. M + 1 \in Nat /\ l.fwd \in [List!Nodes -> List!Nodes]
      BY <1>1
    <3> QED
      BY <3>1, WalkExists, Zenon
  <2> HIDE DEF Steps
  <2> QED
    BY <2>1
<1> HIDE DEF n, M, p, step
<1>5. step[0] = ListHead /\ \A k \in 0 .. M : step[k + 1] = l.fwd[step[k]]
  <2>1. 0 \in 0 .. M + 1
    BY <1>1
  <2>2. ASSUME NEW k \in 0 .. M
        PROVE  k + 1 \in 0 .. M + 1 /\ k + 1 # 0 /\ (k + 1) - 1 = k
    BY <1>1
  <2> QED
    BY <1>4, <2>1, <2>2, ZenonT(30)
<1>6. \A k \in 0 .. n + 1 : step[k] = p[k]
  <2> DEFINE S == {k \in Nat : k <= n + 1 => step[k] = p[k]}
  <2>1. 0 \in S
    BY <1>2, <1>5
  <2>2. ASSUME NEW k \in Nat, k \in S
        PROVE  k + 1 \in S
    <3>1. CASE k + 1 <= n + 1
      <4>1. k \in 0 .. n /\ k \in 0 .. M /\ k <= n + 1
        BY <1>1, <3>1
      <4>2. step[k] = p[k]
        BY <2>2, <4>1
      <4> QED
        BY <1>2, <1>5, <4>1, <4>2
    <3>2. CASE ~ (k + 1 <= n + 1)
      BY <3>2
    <3> QED
      BY <3>1, <3>2
  <2>3. \A k \in Nat : k \in S
    <3> HIDE DEF S
    <3> QED
      BY <2>1, <2>2, Induct
  <2> QED
    BY <1>1, <2>3
<1>7. Size(n)
  <2>1. step[n + 1] = ListHead
    BY <1>1, <1>2, <1>6
  <2>2. \A m \in 1 .. n : step[m] # ListHead
    BY <1>1, <1>2, <1>6
  <2> QED
    BY <2>1, <2>2
<1>8. ASSUME NEW k \in 0 .. M + 1, Size(k)
      PROVE  k = n
  <2>1. CASE k < n
    <3>1. k + 1 \in 1 .. n /\ k # M + 1
      BY <1>1, <2>1
    <3>2. step[k + 1] # ListHead
      BY <1>1, <1>2, <1>6, <3>1
    <3> QED
      BY <1>8, <3>1, <3>2
  <2>2. CASE k > n
    <3>1. n + 1 \in 1 .. k /\ step[n + 1] = ListHead
      BY <1>1, <1>2, <1>6, <2>2
    <3> QED
      BY <1>8, <3>1
  <2> QED
    BY <1>1, <2>1, <2>2
<1>9. size = n
  <2>1. n \in 0 .. M + 1
    BY <1>1
  <2> HIDE DEF Size
  <2> QED
    BY <1>7, <1>8, <2>1
<1>10. Walk(l) = [k \in 1 .. n |-> o[k]]
  <2>1. \A k \in 1 .. n : step[k] = o[k]
    BY <1>1, <1>2, <1>6
  <2> QED
    BY <1>3, <1>9, <2>1
<1>11. o = [k \in 1 .. n |-> o[k]]
  BY <1>1, LenProperties DEF n
<1> QED
  BY <1>10, <1>11

----------------------------------------------------------------------------
(* What the three operations the program uses make of the list.            *)

LEMMA SameOperations ==
    /\ \A l, h, e : List!InsertHeadList(l, h, e) = R!InsertHeadList(l, h, e)
    /\ \A l, e : List!RemoveEntryList(l, e) = R!RemoveEntryList(l, e)
    /\ \A l, h, e : List!InsertTailList(l, h, e) = R!InsertTailList(l, h, e)
    /\ \A l, a, b : List!SwapListEntries(l, a, b) = R!SwapListEntries(l, a, b)
<1>1. \A l, h, e : List!InsertHeadList(l, h, e) = R!InsertHeadList(l, h, e)
  BY DEF List!InsertHeadList, R!InsertHeadList
<1>2. \A l, e : List!RemoveEntryList(l, e) = R!RemoveEntryList(l, e)
  BY DEF List!RemoveEntryList, R!RemoveEntryList
<1>3. \A l, h, e : List!InsertTailList(l, h, e) = R!InsertTailList(l, h, e)
  BY DEF List!InsertTailList, R!InsertTailList
<1>4. \A l, a, b : List!SwapListEntries(l, a, b) = R!SwapListEntries(l, a, b)
  BY <1>1, <1>2, <1>3
     DEF List!SwapListEntries, R!SwapListEntries, List!GetPreviousNode, R!GetPreviousNode
<1> QED
  BY <1>1, <1>2, <1>3, <1>4

LEMMA ListInsert ==
    ASSUME NEW l, NEW o, ListOf(l, o), NEW e \in Entries, \A i \in 1 .. Len(o) : o[i] # e
    PROVE  ListOf(List!InsertHeadList(l, ListHead, e), <<e>> \o o)
<1> DEFINE n == Len(o)
           p == R!Laid(o)
<1>1. o \in Seq(Entries) /\ n \in Nat /\ R!Ring(l, n, p)
  BY ListOfFacts DEF ListOf
<1>2. p[0] = ListHead /\ \A i \in 1 .. n : p[i] = o[i]
  BY <1>1, HeadIsNoEntry, R!LaidType
<1>3. e \in R!Nodes /\ \A i \in 0 .. n : p[i] # e
  BY <1>1, <1>2, HeadIsNoEntry DEF R!Nodes
<1> HIDE DEF p
<1>4. R!Ring(R!InsertHeadList(l, p[0], e), n + 1, R!Put(n, p, 0, e))
  <2>1. 0 \in 0 .. n
    BY <1>1
  <2> QED
    BY <1>1, <1>3, <2>1, HeadIsNoEntry, R!RingPut
<1>5. /\ <<e>> \o o \in Seq(Entries) /\ Len(<<e>> \o o) = n + 1
      /\ R!Laid(<<e>> \o o) = R!Put(n, p, 0, e)
  BY <1>1, HeadIsNoEntry, R!LaidHead DEF p
<1>6. R!Ring(List!InsertHeadList(l, ListHead, e), n + 1, R!Put(n, p, 0, e))
  BY <1>2, <1>4, SameOperations
<1> QED
  BY <1>5, <1>6 DEF ListOf

LEMMA ListRemove ==
    ASSUME NEW l, NEW o, ListOf(l, o), NEW k \in 1 .. Len(o)
    PROVE  ListOf(List!RemoveEntryList(l, o[k]), SubSeq(o, 1, k - 1) \o SubSeq(o, k + 1, Len(o)))
<1> DEFINE n == Len(o)
           p == R!Laid(o)
           t == SubSeq(o, 1, k - 1) \o SubSeq(o, k + 1, Len(o))
<1>1. o \in Seq(Entries) /\ n \in Nat /\ R!Ring(l, n, p)
  BY ListOfFacts DEF ListOf
<1>2. p[k] = o[k]
  BY <1>1, HeadIsNoEntry, R!LaidType
<1>3. R!Ring(R!RemoveEntryList(l, p[k]), n - 1, R!Cut(n, p, k))
  BY <1>1, HeadIsNoEntry, R!RingCut
<1>4. t \in Seq(Entries) /\ Len(t) = n - 1 /\ R!Laid(t) = R!Cut(n, p, k)
  BY <1>1, HeadIsNoEntry, R!LaidCut
<1> HIDE DEF p, t
<1>5. R!Ring(List!RemoveEntryList(l, o[k]), n - 1, R!Cut(n, p, k))
  BY <1>2, <1>3, SameOperations
<1>6. ListOf(List!RemoveEntryList(l, o[k]), t)
  BY <1>4, <1>5 DEF ListOf
<1> QED
  BY <1>6 DEF t

LEMMA ListSwap ==
    ASSUME NEW l, NEW o, ListOf(l, o), NEW i \in 1 .. Len(o), NEW j \in 1 .. Len(o), i # j
    PROVE  ListOf(List!SwapListEntries(l, o[i], o[j]), [o EXCEPT ![i] = o[j], ![j] = o[i]])
<1> DEFINE n == Len(o)
           p == R!Laid(o)
           t == [o EXCEPT ![i] = o[j], ![j] = o[i]]
<1>1. o \in Seq(Entries) /\ n \in Nat /\ R!Ring(l, n, p)
  BY ListOfFacts DEF ListOf
<1>2. p[i] = o[i] /\ p[j] = o[j]
  BY <1>1, HeadIsNoEntry, R!LaidType
<1>3. R!Ring(R!SwapListEntries(l, p[i], p[j]), n, R!Exchanged(n, p, i, j))
  BY <1>1, HeadIsNoEntry, R!RingSwap
<1>4. t \in Seq(Entries) /\ Len(t) = n /\ R!Laid(t) = R!Exchanged(n, p, i, j)
  BY <1>1, HeadIsNoEntry, R!LaidExchanged
<1> HIDE DEF p, t
<1>5. R!Ring(List!SwapListEntries(l, o[i], o[j]), n, R!Exchanged(n, p, i, j))
  BY <1>2, <1>3, SameOperations
<1>6. ListOf(List!SwapListEntries(l, o[i], o[j]), t)
  BY <1>4, <1>5 DEF ListOf
<1> QED
  BY <1>6 DEF t

(* The list as it is set up.                                               *)
LEMMA ListEmpty ==
    ListOf(List!InitializeListHead(
             [fwd |-> [n \in List!Nodes |-> n], back |-> [n \in List!Nodes |-> n]], ListHead), <<>>)
<1> DEFINE l == List!InitializeListHead(
             [fwd |-> [n \in List!Nodes |-> n], back |-> [n \in List!Nodes |-> n]], ListHead)
<1>1. /\ l = [fwd |-> [[n \in R!Nodes |-> n] EXCEPT ![ListHead] = ListHead],
              back |-> [[n \in R!Nodes |-> n] EXCEPT ![ListHead] = ListHead]]
      /\ ListHead \in R!Nodes
  BY DEF List!InitializeListHead, R!Nodes, List!Nodes
<1> HIDE DEF l
<1>2. l \in R!Links /\ l.fwd[ListHead] = ListHead /\ l.back[ListHead] = ListHead
  BY <1>1 DEF R!Links
<1>3. <<>> \in Seq(Entries) /\ Len(<<>>) = 0
  BY EmptySeq
<1>4. /\ R!Laid(<<>>) \in [0 .. 0 + 1 -> R!Nodes]
      /\ R!Laid(<<>>)[0] = ListHead /\ R!Laid(<<>>)[0 + 1] = ListHead
  BY <1>3, HeadIsNoEntry, R!LaidType
<1>5. R!Ring(l, 0, R!Laid(<<>>))
  BY <1>2, <1>4 DEF R!Ring
<1>6. ListOf(l, <<>>)
  BY <1>3, <1>5 DEF ListOf
<1> QED
  BY <1>6 DEF l

----------------------------------------------------------------------------
(* The inductive invariant.                                                *)

Listed == Walk(links)
Known == printed \o Listed
Number(i) == OptionNumber(catalogue[i])

(* The links are a list, and every variable has its type.                  *)
ShapeInv ==
    /\ catalogue \in Catalogues
    /\ TypeOK
    /\ ListOf(links, Listed)

(* The hot keys met so far are the entries printed and those on the list,  *)
(* each once; nothing is printed before the names are at an end.           *)
KnownInv ==
    /\ \A i, j \in DOMAIN Known : Known[i] = Known[j] => i = j
    /\ {Known[i] : i \in DOMAIN Known} = HotKeysUpTo(name)
    /\ at \notin {"print", "returned"} => printed = <<>>
    /\ at \in {"args", "support"} => name = 0

Ordered(s) ==
    \A i, j \in DOMAIN s : i < j =>
        IF NoSort = 1 THEN s[i] > s[j] ELSE CompareOptionNumbers(s[i], s[j]) # "greater"

(* In the middle of a sort: the new entry stands at place s of the list o, *)
(* nothing before it is greater, all from there to the place t that Node   *)
(* has reached are equal, and without it the list is sorted.               *)
Sorting(o, s, t) ==
    /\ PrevNode = o[s]
    /\ Node = IF t = Len(o) + 1 THEN ListHead ELSE o[t]
    /\ \A i \in 1 .. s - 1 : Number(o[i]) <= Number(o[s])
    /\ \A i \in s .. t - 1 : Number(o[i]) = Number(o[s])
    /\ \A i, j \in (1 .. Len(o)) \ {s} : i < j => Number(o[i]) <= Number(o[j])

OrderInv ==
    /\ at \in {"enumerate", "print"} => Ordered(Known)
    /\ at = "sort" => /\ NoSort = 0
                      /\ \E s \in 1 .. Len(Listed) : \E t \in s .. Len(Listed) + 1 :
                            Sorting(Listed, s, t)

Inv == ShapeInv /\ KnownInv /\ OrderInv

(* The names are at an end when the list is printed, and when the program  *)
(* returns from there nothing is left on the list.                         *)
DrainInv ==
    /\ at = "print" => status = "not_found" /\ name = Len(catalogue)
    /\ at = "returned" /\ status = "not_found" /\ name > 0 =>
         name = Len(catalogue) /\ Ordered(printed) /\ Listed = <<>>

----------------------------------------------------------------------------
LEMMA NumberIsNat ==
    ASSUME catalogue \in Catalogues, NEW i \in DOMAIN catalogue, IsHotKeyVariable(catalogue[i])
    PROVE  Number(i) \in Nat
<1>1. catalogue[i].digits \in [1 .. 4 -> 0 .. 16]
  BY ParametersAssumption DEF IsHotKeyVariable
<1> DEFINE d == catalogue[i].digits
<1>2. d[1] \in 0 .. 16 /\ d[2] \in 0 .. 16 /\ d[3] \in 0 .. 16 /\ d[4] \in 0 .. 16
  BY <1>1
<1>3. ASSUME NEW n \in Nat, NEW c \in 0 .. 16
      PROVE  WithDigit(n, c) \in Nat
  <2>1. \A x \in Nat : x % 2^16 \in Nat
    <3>1. 2^16 \in Nat \ {0}
      BY SMT
    <3> QED
      BY <3>1
  <2>2. n * 10 + (c % 10) \in Nat
    OBVIOUS
  <2> QED
    BY <2>1, <2>2 DEF WithDigit
<1>4. WithDigit(0, d[1]) \in Nat
  BY <1>2, <1>3
<1>5. WithDigit(WithDigit(0, d[1]), d[2]) \in Nat
  BY <1>2, <1>3, <1>4
<1>6. WithDigit(WithDigit(WithDigit(0, d[1]), d[2]), d[3]) \in Nat
  BY <1>2, <1>3, <1>5
<1>7. WithDigit(WithDigit(WithDigit(WithDigit(0, d[1]), d[2]), d[3]), d[4]) \in Nat
  BY <1>2, <1>3, <1>6
<1> QED
  BY <1>7 DEF Number, OptionNumber

LEMMA CompareIs ==
    ASSUME NEW i, NEW j, Number(i) \in Nat, Number(j) \in Nat
    PROVE  /\ CompareOptionNumbers(i, j) = "greater" <=> Number(i) > Number(j)
           /\ CompareOptionNumbers(i, j) = "less" <=> Number(i) < Number(j)
           /\ CompareOptionNumbers(i, j) = "equal" <=> Number(i) = Number(j)
  BY DEF CompareOptionNumbers, Number

LEMMA KnownFacts ==
    ASSUME ShapeInv
    PROVE  /\ printed \in Seq(Entries) /\ Len(printed) \in Nat /\ DOMAIN printed = 1 .. Len(printed)
           /\ Listed \in Seq(Entries) /\ Len(Listed) \in Nat /\ DOMAIN Listed = 1 .. Len(Listed)
           /\ Known \in Seq(Entries) /\ Len(Known) = Len(printed) + Len(Listed)
           /\ DOMAIN Known = 1 .. Len(printed) + Len(Listed)
           /\ \A i \in 1 .. Len(printed) : Known[i] = printed[i]
           /\ \A i \in 1 .. Len(Listed) : Known[Len(printed) + i] = Listed[i]
           /\ printed = <<>> => Known = Listed
           /\ Listed = <<>> => Known = printed
<1>1. printed \in Seq(Entries) /\ Listed \in Seq(Entries)
  BY DEF ShapeInv, TypeOK, ListOf
<1>2. /\ Len(printed) \in Nat /\ DOMAIN printed = 1 .. Len(printed)
      /\ Len(Listed) \in Nat /\ DOMAIN Listed = 1 .. Len(Listed)
  BY <1>1, LenProperties
<1>3. /\ Known \in Seq(Entries) /\ Len(Known) = Len(printed) + Len(Listed)
      /\ \A i \in 1 .. Len(printed) + Len(Listed) :
            Known[i] = IF i <= Len(printed) THEN printed[i] ELSE Listed[i - Len(printed)]
  BY <1>1, ConcatProperties DEF Known
<1>4. DOMAIN Known = 1 .. Len(printed) + Len(Listed)
  BY <1>3, LenProperties
<1>5. (printed = <<>> => Known = Listed) /\ (Listed = <<>> => Known = printed)
  BY <1>1, ConcatEmptySeq DEF Known
<1>6. \A i \in 1 .. Len(printed) : Known[i] = printed[i]
  BY <1>2, <1>3
<1>7. ASSUME NEW i \in 1 .. Len(Listed)
      PROVE  Known[Len(printed) + i] = Listed[i]
  <2>1. /\ Len(printed) + i \in 1 .. Len(printed) + Len(Listed)
        /\ ~ (Len(printed) + i <= Len(printed)) /\ (Len(printed) + i) - Len(printed) = i
    BY <1>2
  <2> QED
    BY <1>3, <2>1
<1> QED
  BY <1>1, <1>2, <1>3, <1>4, <1>5, <1>6, <1>7

(* Every entry known has a number.                                         *)
LEMMA KnownNumbers ==
    ASSUME ShapeInv, KnownInv
    PROVE  /\ \A i \in DOMAIN Known : Known[i] \in 1 .. name /\ Number(Known[i]) \in Nat
           /\ \A i \in DOMAIN Listed : Listed[i] \in 1 .. name /\ Number(Listed[i]) \in Nat
<1>1. name \in 0 .. Len(catalogue) /\ catalogue \in Catalogues
  BY DEF ShapeInv, TypeOK
<1>2. \A i \in HotKeysUpTo(name) : i \in 1 .. name /\ Number(i) \in Nat
  <2>1. SUFFICES ASSUME NEW i \in HotKeysUpTo(name)
                 PROVE  i \in 1 .. name /\ Number(i) \in Nat
    OBVIOUS
  <2>2. i \in 1 .. name /\ IsHotKeyVariable(catalogue[i])
    BY DEF HotKeysUpTo
  <2>3. i \in DOMAIN catalogue
    BY <1>1, <2>2, ParametersAssumption
  <2> QED
    BY <1>1, <2>2, <2>3, NumberIsNat
<1>3. \A i \in DOMAIN Known : Known[i] \in 1 .. name /\ Number(Known[i]) \in Nat
  BY <1>2 DEF KnownInv
<1>4. \A i \in DOMAIN Listed : \E k \in DOMAIN Known : Listed[i] = Known[k]
  BY KnownFacts, SMTT(30)
<1> QED
  BY <1>3, <1>4

----------------------------------------------------------------------------
LEMMA InvInit == Init => Inv
<1> SUFFICES ASSUME Init PROVE Inv
  OBVIOUS
<1>1. /\ at = "args" /\ name = 0 /\ printed = <<>> /\ catalogue \in Catalogues
      /\ Len(catalogue) \in Nat /\ CurSize \in Nat
  BY ParametersAssumption DEF Init
<1>2. ListOf(links, <<>>)
  BY ListEmpty DEF Init
<1>3. Listed = <<>>
  BY <1>2, WalkIs DEF Listed
<1>4. links \in [fwd : [List!Nodes -> List!Nodes], back : [List!Nodes -> List!Nodes]]
  BY <1>2, ListOfFacts
<1>5. printed \in Seq(Entries)
  BY <1>1, EmptySeq
<1>6. TypeOK
  <2>1. /\ status = "none" /\ Verbose = 0 /\ NoSort = 0
        /\ Node = ListHead /\ PrevNode = ListHead /\ ListHead \in List!Nodes
    BY DEF Init, List!Nodes
  <2> QED
    BY <1>1, <1>4, <1>5, <2>1 DEF TypeOK
<1>7. ShapeInv
  BY <1>1, <1>2, <1>3, <1>6 DEF ShapeInv
<1>8. DOMAIN Known = {} /\ HotKeysUpTo(0) = {}
  <2>1. Len(Listed) = 0 /\ Len(printed) = 0
    BY <1>1, <1>3, EmptySeq
  <2> QED
    BY <1>7, <2>1, KnownFacts DEF HotKeysUpTo
<1>9. KnownInv
  BY <1>1, <1>8 DEF KnownInv
<1>10. OrderInv
  BY <1>1 DEF OrderInv
<1> QED
  BY <1>7, <1>9, <1>10 DEF Inv

(* The list, the entries printed and the store are left alone.             *)
LEMMA ListUnchanged ==
    ASSUME Inv, UNCHANGED <<surroundings, list, printed>>
    PROVE  /\ Known' = Known /\ Listed' = Listed
           /\ catalogue' = catalogue /\ links' = links /\ printed' = printed
           /\ Node' = Node /\ PrevNode' = PrevNode
           /\ ListOf(links', Listed') /\ catalogue' \in Catalogues
<1>1. /\ catalogue' = catalogue /\ links' = links /\ printed' = printed
      /\ Node' = Node /\ PrevNode' = PrevNode
  BY DEF surroundings, list
<1>2. Listed' = Listed
  BY <1>1 DEF Listed
<1>3. Known' = Known
  BY <1>1, <1>2 DEF Known
<1>4. ListOf(links, Listed) /\ catalogue \in Catalogues
  BY DEF Inv, ShapeInv
<1> QED
  BY <1>1, <1>2, <1>3, <1>4

(* A step that ends the program before anything is printed, or goes on to  *)
(* the next part of it.                                                    *)
LEMMA OtherSteps ==
    ASSUME Inv, GetArgsFails \/ ParseArgs \/ GetSupport \/ NoMoreNames \/ EnumerationFails \/ Finish
    PROVE  Inv'
<1>1. UNCHANGED <<surroundings, list, printed>> /\ UNCHANGED <<name, CurSize>>
  BY DEF GetArgsFails, ParseArgs, GetSupport, NoMoreNames, EnumerationFails, Finish, buffer
<1>2. /\ Known' = Known /\ Listed' = Listed
      /\ catalogue' = catalogue /\ links' = links /\ printed' = printed
      /\ Node' = Node /\ PrevNode' = PrevNode
      /\ ListOf(links', Listed') /\ catalogue' \in Catalogues
  BY <1>1, ListUnchanged
<1>3. ShapeInv /\ KnownInv /\ OrderInv /\ TypeOK
  BY DEF Inv, ShapeInv
<1>4. \/ at' = "returned" /\ at \in {"args", "support", "enumerate"} /\ NoSort' = NoSort
      \/ at = "args" /\ at' = "support"
      \/ at = "support" /\ at' = "enumerate" /\ NoSort' = NoSort
      \/ at = "enumerate" /\ at' = "print" /\ NoSort' = NoSort
      \/ at = "print" /\ at' = "returned" /\ NoSort' = NoSort
  BY DEF GetArgsFails, ParseArgs, GetSupport, NoMoreNames, EnumerationFails, Finish, Return, options
<1>5. TypeOK'
  <2>1. /\ status' \in {"none", "success", "not_found", "error", "out_of_resources"}
        /\ Verbose' \in 0 .. 1 /\ NoSort' \in 0 .. 1
    <3>1. /\ status \in {"none", "success", "not_found", "error", "out_of_resources"}
          /\ Verbose \in 0 .. 1 /\ NoSort \in 0 .. 1
      BY <1>3 DEF TypeOK
    <3>2. CASE GetArgsFails
      BY <3>1, <3>2 DEF GetArgsFails, Return, options
    <3>3. CASE ParseArgs
      BY <3>1, <3>3 DEF ParseArgs, Return, options
    <3>4. CASE GetSupport
      BY <3>1, <3>4 DEF GetSupport, Return, options
    <3>5. CASE NoMoreNames
      BY <3>1, <3>5 DEF NoMoreNames, options
    <3>6. CASE EnumerationFails
      BY <3>1, <3>6 DEF EnumerationFails, Return, options
    <3>7. CASE Finish
      BY <3>1, <3>7 DEF Finish, Return, options
    <3> QED
      BY <3>2, <3>3, <3>4, <3>5, <3>6, <3>7
  <2> QED
    BY <1>1, <1>2, <1>3, <1>4, <2>1 DEF TypeOK, List!Nodes
<1>6. ShapeInv'
  BY <1>2, <1>5 DEF ShapeInv
<1>7. KnownInv'
  BY <1>1, <1>2, <1>3, <1>4 DEF KnownInv, HotKeysUpTo
<1>8. ASSUME NoSort' = NoSort, NEW s
      PROVE  Ordered(s) => Ordered(s)'
  BY <1>2, <1>8 DEF Ordered, CompareOptionNumbers
<1>9. OrderInv'
  <2>1. CASE at' = "returned" /\ at \in {"args", "support", "enumerate"} /\ NoSort' = NoSort
    BY <1>2, <1>3, <2>1 DEF OrderInv, KnownInv
  <2>2. CASE at = "args" /\ at' = "support"
    BY <2>2 DEF OrderInv
  <2>3. CASE at = "support" /\ at' = "enumerate" /\ NoSort' = NoSort
    <3>1. HotKeysUpTo(name) = {}
      BY <1>3, <2>3 DEF KnownInv, HotKeysUpTo
    <3>2. DOMAIN Known = {}
      BY <1>3, <3>1 DEF KnownInv
    <3>3. Ordered(Known)'
      BY <1>2, <3>2 DEF Ordered
    <3> QED
      BY <2>3, <3>3 DEF OrderInv
  <2>4. CASE at = "enumerate" /\ at' = "print" /\ NoSort' = NoSort
    BY <1>2, <1>3, <1>8, <2>4 DEF OrderInv
  <2>5. CASE at = "print" /\ at' = "returned" /\ NoSort' = NoSort
    BY <2>5 DEF OrderInv
  <2> QED
    BY <1>4, <2>1, <2>2, <2>3, <2>4, <2>5
<1> QED
  BY <1>6, <1>7, <1>9 DEF Inv

----------------------------------------------------------------------------
(* The next name, of a variable that is no hot key.                        *)
LEMMA PassedOver ==
    ASSUME Inv, NextName, ~ IsHotKeyVariable(catalogue[name + 1])
    PROVE  Inv' /\ links' = links
<1>1. /\ at = "enumerate" /\ name' = name + 1 /\ name < Len(catalogue) /\ NoSort' = NoSort
      /\ UNCHANGED <<surroundings, list, printed, at, status, Verbose>>
      /\ CurSize' = Grown(catalogue[name + 1].size)
  BY DEF NextName, options
<1>2. /\ Known' = Known /\ Listed' = Listed
      /\ catalogue' = catalogue /\ links' = links /\ printed' = printed
      /\ Node' = Node /\ PrevNode' = PrevNode
      /\ ListOf(links', Listed') /\ catalogue' \in Catalogues
  BY <1>1, ListUnchanged
<1>3. ShapeInv /\ KnownInv /\ OrderInv /\ TypeOK
  BY DEF Inv, ShapeInv
<1>4. /\ name \in Nat /\ name + 1 \in 1 .. Len(catalogue) /\ Len(catalogue) \in Nat
      /\ CurSize \in Nat /\ catalogue[name + 1].size \in Nat
  <2>1. /\ name \in 0 .. Len(catalogue) /\ catalogue \in Catalogues /\ CurSize \in Nat
        /\ Len(catalogue) \in Nat /\ DOMAIN catalogue = 1 .. Len(catalogue)
    BY <1>3, ParametersAssumption DEF TypeOK, ShapeInv
  <2>2. name + 1 \in DOMAIN catalogue
    BY <1>1, <2>1
  <2> QED
    BY <2>1, <2>2, ParametersAssumption
<1>5. TypeOK'
  <2>1. CurSize' \in Nat /\ catalogue[name + 1].size <= CurSize'
    BY <1>1, <1>4 DEF Grown
  <2> QED
    BY <1>1, <1>2, <1>3, <1>4, <2>1 DEF TypeOK, List!Nodes
<1>6. ShapeInv'
  BY <1>2, <1>5 DEF ShapeInv
<1>7. HotKeysUpTo(name)' = HotKeysUpTo(name)
  <2>1. \A i \in 1 .. name + 1 : i = name + 1 \/ i \in 1 .. name
    BY <1>4
  <2> QED
    BY <1>1, <1>2, <1>4, <2>1 DEF HotKeysUpTo
<1>8. KnownInv'
  BY <1>1, <1>2, <1>3, <1>7 DEF KnownInv
<1>9. OrderInv'
  BY <1>1, <1>2, <1>3 DEF OrderInv, Ordered, CompareOptionNumbers
<1> QED
  BY <1>2, <1>6, <1>8, <1>9 DEF Inv

(* The next name, of a hot key: its entry becomes the first of the list.   *)
LEMMA PutInFront ==
    ASSUME Inv, NextName, IsHotKeyVariable(catalogue[name + 1])
    PROVE  /\ Inv'
           /\ List!InsertHead(name + 1) /\ name + 1 \in Entries
<1> DEFINE e == name + 1
           n == Len(Listed)
           o == <<e>> \o Listed
<1>1. /\ at = "enumerate" /\ name' = e /\ name < Len(catalogue)
      /\ CurSize' = Grown(catalogue[e].size)
      /\ links' = List!InsertHeadList(links, ListHead, e)
      /\ catalogue' = catalogue /\ printed' = printed /\ status' = status
      /\ Verbose' = Verbose /\ NoSort' = NoSort
      /\ IF NoSort = 0
         THEN at' = "sort" /\ Node' = links'.fwd[ListHead] /\ PrevNode' = Node'
         ELSE at' = at /\ Node' = Node /\ PrevNode' = PrevNode
  BY DEF NextName, options, surroundings, List!GetFirstNode
<1>2. ShapeInv /\ KnownInv /\ OrderInv /\ TypeOK /\ ListOf(links, Listed)
  BY DEF Inv, ShapeInv
<1>3. /\ name \in Nat /\ e \in 1 .. Len(catalogue) /\ Len(catalogue) \in Nat
      /\ CurSize \in Nat /\ catalogue[e].size \in Nat /\ e \in Entries
      /\ catalogue \in Catalogues /\ DOMAIN catalogue = 1 .. Len(catalogue)
  <2>1. /\ name \in 0 .. Len(catalogue) /\ catalogue \in Catalogues /\ CurSize \in Nat
        /\ Len(catalogue) \in 0 .. MaxNames /\ DOMAIN catalogue = 1 .. Len(catalogue)
        /\ MaxNames \in Nat
    BY <1>2, ParametersAssumption DEF TypeOK, ShapeInv
  <2>2. e \in DOMAIN catalogue /\ e \in Entries
    BY <1>1, <2>1 DEF Entries
  <2> QED
    BY <2>1, <2>2, ParametersAssumption
<1>4. /\ printed = <<>> /\ Known = Listed
      /\ Listed \in Seq(Entries) /\ n \in Nat /\ DOMAIN Listed = 1 .. n
  BY <1>1, <1>2, KnownFacts DEF KnownInv
<1>5. \A i \in 1 .. n : Listed[i] \in 1 .. name /\ Number(Listed[i]) \in Nat /\ Listed[i] # e
  <2>1. \A i \in 1 .. n : Listed[i] \in 1 .. name /\ Number(Listed[i]) \in Nat
    BY <1>2, <1>4, KnownNumbers
  <2> QED
    BY <1>3, <2>1
<1>6. ListOf(links', o)
  BY <1>1, <1>2, <1>3, <1>5, ListInsert
<1>7. Listed' = o
  BY <1>6, WalkIs DEF Listed
<1>8. /\ o \in Seq(Entries) /\ Len(o) = n + 1 /\ DOMAIN o = 1 .. n + 1
      /\ o[1] = e /\ \A i \in 2 .. n + 1 : o[i] = Listed[i - 1]
  BY <1>3, <1>4
<1>9. /\ links' \in [fwd : [List!Nodes -> List!Nodes], back : [List!Nodes -> List!Nodes]]
      /\ links'.fwd[ListHead] = e
  <2>1. n + 1 # 0
    BY <1>4
  <2> QED
    BY <1>6, <1>8, <2>1, ListOfFacts
<1> HIDE DEF o, n
<1>10. TypeOK'
  <2>1. CurSize' \in Nat /\ catalogue[e].size <= CurSize'
    BY <1>1, <1>3 DEF Grown
  <2>2. Node' \in List!Nodes /\ PrevNode' \in List!Nodes
    BY <1>1, <1>2, <1>3, <1>9 DEF TypeOK, List!Nodes
  <2> QED
    BY <1>1, <1>2, <1>3, <1>9, <2>1, <2>2 DEF TypeOK
<1>11. ShapeInv'
  BY <1>1, <1>3, <1>6, <1>7, <1>10 DEF ShapeInv
<1>12. Known' = o
  BY <1>1, <1>4, <1>7, <1>11, KnownFacts, ConcatEmptySeq, <1>8 DEF Known
<1>13. KnownInv'
  <2>1. \A i \in 1 .. n + 1 : i = 1 \/ (i \in 2 .. n + 1 /\ i - 1 \in 1 .. n)
    BY <1>4
  <2>2. ASSUME NEW i \in 1 .. n + 1, NEW j \in 1 .. n + 1, o[i] = o[j]
        PROVE  i = j
    <3>1. CASE i = 1 \/ j = 1
      BY <1>5, <1>8, <2>1, <2>2, <3>1
    <3>2. CASE i # 1 /\ j # 1
      <4>1. Listed[i - 1] = Listed[j - 1] /\ i - 1 \in 1 .. n /\ j - 1 \in 1 .. n
        BY <1>8, <2>1, <2>2, <3>2
      <4>2. i - 1 = j - 1
        BY <1>2, <1>4, <4>1 DEF KnownInv
      <4> QED
        BY <1>4, <4>2
    <3> QED
      BY <3>1, <3>2
  <2>3. HotKeysUpTo(name)' = HotKeysUpTo(name) \cup {e}
    <3>1. \A i : i \in 1 .. e <=> (i \in 1 .. name \/ i = e)
      BY <1>3
    <3> QED
      BY <1>1, <3>1 DEF HotKeysUpTo
  <2>4. {o[i] : i \in 1 .. n + 1} = {Listed[i] : i \in 1 .. n} \cup {e}
    <3>1. \A i \in 1 .. n : i + 1 \in 2 .. n + 1 /\ (i + 1) - 1 = i /\ i + 1 \in 1 .. n + 1
      BY <1>4
    <3>2. \A i \in 1 .. n : Listed[i] = o[i + 1]
      BY <1>8, <3>1
    <3>3. 1 \in 1 .. n + 1
      BY <1>4
    <3> QED
      BY <1>8, <2>1, <3>1, <3>2, <3>3
  <2>5. {Known[i] : i \in DOMAIN Known}' = HotKeysUpTo(name)'
    <3>1. {Listed[i] : i \in 1 .. n} = HotKeysUpTo(name)
      BY <1>2, <1>4 DEF KnownInv
    <3>2. {Known[i] : i \in DOMAIN Known}' = {o[i] : i \in 1 .. n + 1}
      BY <1>8, <1>12
    <3> QED
      BY <2>3, <2>4, <3>1, <3>2
  <2>6. printed' = <<>> /\ at' \notin {"args", "support"}
    BY <1>1, <1>4
  <2> QED
    BY <1>8, <1>12, <2>2, <2>5, <2>6 DEF KnownInv
<1>14. Number(e) \in Nat
  BY <1>3, NumberIsNat
<1>15. \A i : Number(i)' = Number(i)
  BY <1>1 DEF Number
<1>16. ASSUME NoSort = 0
       PROVE  OrderInv'
  <2>1. at' = "sort" /\ NoSort' = 0 /\ Node' = e /\ PrevNode' = e
    BY <1>1, <1>9, <1>16
  <2>2. 1 \in 1 .. Len(o) /\ 1 \in 1 .. Len(o) + 1 /\ 1 # Len(o) + 1
    BY <1>4, <1>8
  <2>3. \A i \in 1 .. 1 - 1 : Number(o[i]) <= Number(o[1])
    OBVIOUS
  <2>4. ASSUME NEW i \in (1 .. Len(o)) \ {1}, NEW j \in (1 .. Len(o)) \ {1}, i < j
        PROVE  Number(o[i]) <= Number(o[j])
    <3>1. /\ i - 1 \in 1 .. n /\ j - 1 \in 1 .. n /\ i - 1 < j - 1
          /\ o[i] = Listed[i - 1] /\ o[j] = Listed[j - 1]
      BY <1>4, <1>8, <2>4
    <3>2. CompareOptionNumbers(Listed[i - 1], Listed[j - 1]) # "greater"
      BY <1>1, <1>2, <1>4, <1>16, <3>1, SMTT(30) DEF OrderInv, Ordered
    <3> QED
      BY <1>5, <3>1, <3>2, CompareIs
  <2>5. Sorting(Listed, 1, 1)'
    <3>1. PrevNode' = Listed'[1] /\ Node' = IF 1 = Len(Listed') + 1 THEN ListHead ELSE Listed'[1]
      BY <1>7, <1>8, <2>1, <2>2
    <3>2. /\ \A i \in 1 .. 1 - 1 : Number(Listed[i])' <= Number(Listed[1])'
          /\ \A i \in 1 .. 1 - 1 : Number(Listed[i])' = Number(Listed[1])'
      OBVIOUS
    <3>3. \A i, j \in (1 .. Len(Listed')) \ {1} :
            i < j => Number(Listed[i])' <= Number(Listed[j])'
      BY <1>1, <1>7, <2>4 DEF Number
    <3> QED
      BY <3>1, <3>2, <3>3 DEF Sorting
  <2>6. 1 \in 1 .. Len(Listed') /\ 1 \in 1 .. Len(Listed') + 1
    BY <1>7, <2>2
  <2> QED
    BY <2>1, <2>5, <2>6 DEF OrderInv
<1>17. ASSUME NoSort # 0
       PROVE  OrderInv'
  <2>1. at' = "enumerate" /\ NoSort' = 1 /\ NoSort = 1
    BY <1>1, <1>2, <1>17 DEF TypeOK
  <2>2. ASSUME NEW i \in 1 .. n + 1, NEW j \in 1 .. n + 1, i < j
        PROVE  o[i] > o[j]
    <3>1. j - 1 \in 1 .. n /\ o[j] = Listed[j - 1]
      BY <1>4, <1>8, <2>2
    <3>2. CASE i = 1
      BY <1>3, <1>5, <1>8, <3>1, <3>2
    <3>3. CASE i # 1
      <4>1. i - 1 \in 1 .. n /\ o[i] = Listed[i - 1] /\ i - 1 < j - 1
        BY <1>4, <1>8, <2>2, <3>3
      <4> QED
        BY <1>1, <1>2, <1>4, <2>1, <3>1, <4>1 DEF OrderInv, Ordered
    <3> QED
      BY <3>2, <3>3
  <2>3. Ordered(Known)'
    BY <1>8, <1>12, <2>1, <2>2 DEF Ordered
  <2> QED
    BY <2>1, <2>3 DEF OrderInv
<1>18. List!InsertHead(e)
  <2>1. e \notin List!Linked
    BY <1>4, <1>5 DEF List!Linked, Listed
  <2>2. Walk(links') = <<e>> \o Walk(links)
    BY <1>6, WalkIs DEF o, Listed
  <2> QED
    BY <1>1, <1>3, <2>1, <2>2 DEF List!InsertHead
<1> QED
  BY <1>3, <1>11, <1>13, <1>16, <1>17, <1>18 DEF Inv

----------------------------------------------------------------------------
(* One turn of the loop that moves the new entry to its place.             *)

LEMMA SortingFacts ==
    ASSUME Inv, at = "sort"
    PROVE  /\ printed = <<>> /\ Known = Listed /\ NoSort = 0
           /\ ListOf(links, Listed) /\ Len(Listed) \in Nat /\ DOMAIN Listed = 1 .. Len(Listed)
           /\ \A i \in 1 .. Len(Listed) :
                 Listed[i] \in Entries /\ Listed[i] # ListHead /\ Number(Listed[i]) \in Nat
           /\ \A i, j \in 1 .. Len(Listed) : Listed[i] = Listed[j] => i = j
           /\ \E s \in 1 .. Len(Listed) : \E t \in s .. Len(Listed) + 1 : Sorting(Listed, s, t)
<1>1. ShapeInv /\ KnownInv /\ OrderInv /\ ListOf(links, Listed)
  BY DEF Inv, ShapeInv
<1>2. printed = <<>> /\ Known = Listed
  BY <1>1, KnownFacts DEF KnownInv
<1>3. /\ Len(Listed) \in Nat /\ DOMAIN Listed = 1 .. Len(Listed)
      /\ \A i \in 1 .. Len(Listed) : Listed[i] \in Entries /\ Listed[i] # ListHead
      /\ \A i, j \in 1 .. Len(Listed) : Listed[i] = Listed[j] => i = j
  BY <1>1, ListOfFacts
<1>4. \A i \in 1 .. Len(Listed) : Number(Listed[i]) \in Nat
  BY <1>1, <1>3, KnownNumbers
<1> QED
  BY <1>1, <1>2, <1>3, <1>4 DEF OrderInv

(* Where the loop stops, the list is sorted.                               *)
LEMMA SortedNow ==
    ASSUME NEW o, NEW s \in 1 .. Len(o), NEW t \in s .. Len(o) + 1, Sorting(o, s, t),
           Len(o) \in Nat, DOMAIN o = 1 .. Len(o), NoSort = 0,
           \A i \in 1 .. Len(o) : Number(o[i]) \in Nat,
           t = Len(o) + 1 \/ (t \in 1 .. Len(o) /\ Number(o[s]) < Number(o[t]))
    PROVE  Ordered(o)
<1> DEFINE n == Len(o)
<1>1. /\ \A i \in 1 .. s - 1 : Number(o[i]) <= Number(o[s])
      /\ \A i \in s .. t - 1 : Number(o[i]) = Number(o[s])
      /\ \A i, j \in (1 .. n) \ {s} : i < j => Number(o[i]) <= Number(o[j])
  BY DEF Sorting
<1>2. ASSUME NEW i \in 1 .. n, NEW j \in 1 .. n, i < j
      PROVE  Number(o[i]) <= Number(o[j])
  <2>1. CASE i # s /\ j # s
    BY <1>1, <1>2, <2>1
  <2>2. CASE j = s
    BY <1>1, <1>2, <2>2
  <2>3. CASE i = s /\ j < t
    <3>1. j \in s .. t - 1 /\ Number(o[j]) = Number(o[s])
      BY <1>1, <1>2, <2>3
    <3> QED
      BY <2>3, <3>1
  <2>4. CASE i = s /\ j >= t
    <3>1. t \in 1 .. n /\ Number(o[s]) < Number(o[t])
      BY <1>2, <2>4
    <3>2. t # s
      BY <3>1
    <3>3. Number(o[t]) <= Number(o[j])
      <4>1. CASE j = t
        BY <3>1, <4>1
      <4>2. CASE j # t
        BY <1>1, <1>2, <2>4, <3>1, <3>2, <4>2
      <4> QED
        BY <4>1, <4>2
    <3>4. Number(o[s]) \in Nat /\ Number(o[t]) \in Nat /\ Number(o[j]) \in Nat
      BY <3>1
    <3> QED
      BY <2>4, <3>1, <3>3, <3>4
  <2> QED
    BY <2>1, <2>2, <2>3, <2>4
<1>3. ASSUME NEW i \in 1 .. n, NEW j \in 1 .. n, i < j
      PROVE  CompareOptionNumbers(o[i], o[j]) # "greater"
  BY <1>2, <1>3, CompareIs
<1> QED
  BY <1>3 DEF Ordered

(* The turn that exchanges the new entry with a smaller one: the two are   *)
(* neighbours, for those between them would be equal to the new entry.     *)
LEMMA SortExchange ==
    ASSUME Inv, Sort, Node # ListHead, CompareOptionNumbers(PrevNode, Node) = "greater"
    PROVE  /\ Inv'
           /\ \E i, j \in 1 .. Len(Listed) : List!Swap(i, j)
<1> DEFINE n == Len(Listed)
<1>1. /\ at = "sort" /\ at' = at
      /\ links' = List!SwapListEntries(links, PrevNode, Node)
      /\ Node' = links'.fwd[Node] /\ PrevNode' = PrevNode
      /\ catalogue' = catalogue /\ printed' = printed /\ status' = status
      /\ Verbose' = Verbose /\ NoSort' = NoSort /\ name' = name /\ CurSize' = CurSize
  <2>1. SortTurn /\ at = "sort" /\ UNCHANGED <<surroundings, options, buffer, PrevNode, printed, status>>
    BY DEF Sort, List!IsNull
  <2>2. /\ links' = List!SwapListEntries(links, PrevNode, Node)
        /\ Node' = List!GetNextNode(links', Node) /\ at' = at
    BY <2>1 DEF SortTurn
  <2> QED
    BY <2>1, <2>2 DEF surroundings, options, buffer, List!GetNextNode
<1>2. /\ printed = <<>> /\ Known = Listed /\ NoSort = 0
      /\ ListOf(links, Listed) /\ n \in Nat /\ DOMAIN Listed = 1 .. n
      /\ \A i \in 1 .. n : Listed[i] \in Entries /\ Listed[i] # ListHead /\ Number(Listed[i]) \in Nat
      /\ \A i, j \in 1 .. n : Listed[i] = Listed[j] => i = j
  BY <1>1, SortingFacts
<1>3. PICK s \in 1 .. n : \E t \in s .. n + 1 : Sorting(Listed, s, t)
  BY <1>1, SortingFacts
<1>4. PICK t \in s .. n + 1 : Sorting(Listed, s, t)
  BY <1>3
<1>5. /\ PrevNode = Listed[s]
      /\ Node = IF t = n + 1 THEN ListHead ELSE Listed[t]
      /\ \A i \in 1 .. s - 1 : Number(Listed[i]) <= Number(Listed[s])
      /\ \A i \in s .. t - 1 : Number(Listed[i]) = Number(Listed[s])
      /\ \A i, j \in (1 .. n) \ {s} : i < j => Number(Listed[i]) <= Number(Listed[j])
  BY <1>4 DEF Sorting
<1>6. t \in s .. n /\ t \in 1 .. n /\ Node = Listed[t]
  BY <1>2, <1>5
<1>7. Number(Listed[s]) > Number(Listed[t])
  BY <1>2, <1>5, <1>6, CompareIs
<1>8. t = s + 1
  <2>1. t # s
    BY <1>2, <1>7
  <2>2. SUFFICES ASSUME t > s + 1 PROVE FALSE
    BY <1>2, <1>6, <2>1
  <2>3. s + 1 \in (1 .. n) \ {s} /\ t \in (1 .. n) \ {s} /\ s + 1 < t /\ s + 1 \in s .. t - 1
    BY <1>2, <1>6, <2>2
  <2>4. Number(Listed[s + 1]) <= Number(Listed[t]) /\ Number(Listed[s + 1]) = Number(Listed[s])
    BY <1>5, <2>3
  <2>5. Number(Listed[s]) \in Nat /\ Number(Listed[t]) \in Nat
    BY <1>2, <1>6
  <2> QED
    BY <1>7, <2>4, <2>5
<1> DEFINE o == [Listed EXCEPT ![s] = Listed[t], ![t] = Listed[s]]
<1>9. ListOf(links', o)
  <2>1. s # t /\ s \in 1 .. Len(Listed) /\ t \in 1 .. Len(Listed)
    BY <1>2, <1>6, <1>8
  <2> QED
    BY <1>1, <1>2, <1>5, <1>6, <2>1, ListSwap
<1>10. Listed' = o /\ Walk(links') = o
  BY <1>9, WalkIs DEF Listed
<1>11. /\ o \in Seq(Entries) /\ Len(o) = n /\ DOMAIN o = 1 .. n
       /\ \A k \in 1 .. n : o[k] = IF k = t THEN Listed[s] ELSE IF k = s THEN Listed[t] ELSE Listed[k]
  <2>1. Listed \in Seq(Entries)
    BY <1>2 DEF ListOf
  <2>2. Listed \in [1 .. n -> Entries]
    BY <2>1, LenProperties
  <2>3. /\ DOMAIN o = 1 .. n
        /\ \A k \in 1 .. n : o[k] = IF k = t THEN Listed[s] ELSE IF k = s THEN Listed[t] ELSE Listed[k]
    BY <1>6, <2>2
  <2>4. o \in Seq(Entries)
    BY <1>9 DEF ListOf
  <2>5. Len(o) = n
    BY <1>2, <2>3, <2>4, LenProperties
  <2> QED
    BY <2>3, <2>4, <2>5
<1> HIDE DEF o
<1>12. List!Swap(s, t)
  <2>1. links' = List!SwapListEntries(links, Walk(links)[s], Walk(links)[t])
    BY <1>1, <1>5, <1>6 DEF Listed
  <2>2. Walk(links') = [Walk(links) EXCEPT ![s] = Walk(links)[t], ![t] = Walk(links)[s]]
    BY <1>10 DEF o, Listed
  <2> QED
    BY <2>1, <2>2 DEF List!Swap
<1>13. o[s] = Listed[t] /\ o[s + 1] = Listed[s] /\ Node' = o[s + 1]
  <2>1. o[s] = Listed[t] /\ o[t] = Listed[s]
    BY <1>6, <1>8, <1>11
  <2>2. links'.fwd[o[s]] = o[s + 1]
    BY <1>6, <1>8, <1>9, <1>11, ListOfFacts
  <2> QED
    BY <1>1, <1>6, <1>8, <2>1, <2>2
<1>14. ShapeInv'
  <2>1. links' \in [fwd : [List!Nodes -> List!Nodes], back : [List!Nodes -> List!Nodes]]
    BY <1>9, ListOfFacts
  <2>2. Node' \in List!Nodes
    BY <1>2, <1>13 DEF List!Nodes
  <2>3. TypeOK /\ catalogue \in Catalogues
    BY DEF Inv, ShapeInv
  <2>4. TypeOK'
    BY <1>1, <2>1, <2>2, <2>3 DEF TypeOK, List!Nodes
  <2> QED
    BY <1>1, <1>9, <1>10, <2>3, <2>4 DEF ShapeInv
<1>15. Known' = o /\ printed' = <<>>
  <2>1. printed' = <<>>
    BY <1>1, <1>2
  <2> QED
    BY <1>10, <1>11, <2>1, ConcatEmptySeq DEF Known
<1>16. KnownInv'
  <2>1. ASSUME NEW i \in 1 .. n, NEW j \in 1 .. n, o[i] = o[j]
        PROVE  i = j
    BY <1>2, <1>6, <1>11, <2>1
  <2>2. {o[i] : i \in 1 .. n} = {Listed[i] : i \in 1 .. n}
    BY <1>6, <1>11
  <2>3. {Listed[i] : i \in 1 .. n} = HotKeysUpTo(name)
    BY <1>2 DEF Inv, KnownInv
  <2>4. HotKeysUpTo(name)' = HotKeysUpTo(name)
    BY <1>1 DEF HotKeysUpTo
  <2>5. {Known[i] : i \in DOMAIN Known}' = HotKeysUpTo(name)'
    BY <1>11, <1>15, <2>2, <2>3, <2>4
  <2> QED
    BY <1>1, <1>11, <1>15, <2>1, <2>5 DEF KnownInv
<1>17. OrderInv'
  <2> DEFINE u == s + 1
  <2>1. u \in 1 .. n /\ u # n + 1
    BY <1>2, <1>6, <1>8
  <2>2. ASSUME NEW i \in 1 .. u - 1
        PROVE  Number(o[i]) <= Number(o[u])
    <3>1. CASE i = s
      BY <1>2, <1>6, <1>7, <1>13, <3>1
    <3>2. CASE i # s
      <4>1. i \in 1 .. s - 1 /\ o[i] = Listed[i]
        BY <1>2, <1>8, <1>11, <2>1, <3>2
      <4> QED
        BY <1>5, <1>13, <4>1
    <3> QED
      BY <3>1, <3>2
  <2>3. ASSUME NEW i \in (1 .. n) \ {u}, NEW j \in (1 .. n) \ {u}, i < j
        PROVE  Number(o[i]) <= Number(o[j])
    <3> DEFINE old(k) == IF k = s THEN s + 1 ELSE k
    <3>1. /\ old(i) \in (1 .. n) \ {s} /\ old(j) \in (1 .. n) \ {s} /\ old(i) < old(j)
          /\ o[i] = Listed[old(i)] /\ o[j] = Listed[old(j)]
      BY <1>2, <1>6, <1>8, <1>11, <2>1, <2>3
    <3> HIDE DEF old
    <3> QED
      BY <1>5, <3>1
  <2>4. Sorting(Listed, u, u)'
    <3>1. PrevNode' = Listed'[u] /\ Node' = IF u = Len(Listed') + 1 THEN ListHead ELSE Listed'[u]
      BY <1>1, <1>5, <1>10, <1>11, <1>13, <2>1
    <3>2. /\ \A i \in 1 .. u - 1 : Number(Listed[i])' <= Number(Listed[u])'
          /\ \A i, j \in (1 .. Len(Listed')) \ {u} :
                 i < j => Number(Listed[i])' <= Number(Listed[j])'
      BY <1>1, <1>10, <1>11, <2>2, <2>3 DEF Number
    <3>3. \A i \in u .. u - 1 : Number(Listed[i])' = Number(Listed[u])'
      OBVIOUS
    <3> QED
      BY <3>1, <3>2, <3>3 DEF Sorting
  <2>5. u \in 1 .. Len(Listed') /\ u \in u .. Len(Listed') + 1
    BY <1>10, <1>11, <2>1
  <2>6. at' = "sort" /\ NoSort' = 0
    BY <1>1, <1>2
  <2> HIDE DEF u
  <2> QED
    BY <2>4, <2>5, <2>6 DEF OrderInv
<1> QED
  BY <1>6, <1>12, <1>14, <1>16, <1>17 DEF Inv

(* The turns that leave the list alone: the loop ends, or Node goes on.    *)
LEMMA SortOn ==
    ASSUME Inv, Sort, Node = ListHead \/ CompareOptionNumbers(PrevNode, Node) # "greater"
    PROVE  Inv' /\ links' = links
<1> DEFINE n == Len(Listed)
<1>1. /\ at = "sort" /\ PrevNode' = PrevNode
      /\ catalogue' = catalogue /\ printed' = printed /\ status' = status
      /\ Verbose' = Verbose /\ NoSort' = NoSort /\ name' = name /\ CurSize' = CurSize
  BY DEF Sort, surroundings, options, buffer
<1>2. /\ printed = <<>> /\ Known = Listed /\ NoSort = 0
      /\ ListOf(links, Listed) /\ n \in Nat /\ DOMAIN Listed = 1 .. n
      /\ \A i \in 1 .. n : Listed[i] \in Entries /\ Listed[i] # ListHead /\ Number(Listed[i]) \in Nat
      /\ \A i, j \in 1 .. n : Listed[i] = Listed[j] => i = j
  BY <1>1, SortingFacts
<1>3. PICK s \in 1 .. n : \E t \in s .. n + 1 : Sorting(Listed, s, t)
  BY <1>1, SortingFacts
<1>4. PICK t \in s .. n + 1 : Sorting(Listed, s, t)
  BY <1>3
<1>5. /\ PrevNode = Listed[s]
      /\ Node = IF t = n + 1 THEN ListHead ELSE Listed[t]
      /\ \A i \in 1 .. s - 1 : Number(Listed[i]) <= Number(Listed[s])
      /\ \A i \in s .. t - 1 : Number(Listed[i]) = Number(Listed[s])
      /\ \A i, j \in (1 .. n) \ {s} : i < j => Number(Listed[i]) <= Number(Listed[j])
  BY <1>4 DEF Sorting
<1>6. Node # ListHead => t \in 1 .. n /\ Node = Listed[t]
  BY <1>2, <1>5
<1>7. \/ Node = ListHead /\ at' = "enumerate" /\ links' = links /\ Node' = Node
      \/ /\ Node # ListHead /\ Number(Listed[s]) < Number(Listed[t])
         /\ at' = "enumerate" /\ links' = links /\ Node' = Node
      \/ /\ Node # ListHead /\ Number(Listed[s]) = Number(Listed[t])
         /\ at' = "sort" /\ links' = links /\ Node' = links.fwd[Node]
  <2>1. CASE Node = ListHead
    BY <2>1 DEF Sort, List!IsNull
  <2>2. CASE Node # ListHead
    <3>1. SortTurn
      BY <2>2 DEF Sort, List!IsNull
    <3>2. t \in 1 .. n /\ Node = Listed[t] /\ Number(Listed[t]) \in Nat /\ Number(Listed[s]) \in Nat
      BY <1>2, <1>6, <2>2
    <3>3. CASE CompareOptionNumbers(PrevNode, Node) = "less"
      <4>1. at' = "enumerate" /\ links' = links /\ Node' = Node
        BY <3>1, <3>3 DEF SortTurn
      <4> QED
        BY <1>5, <2>2, <3>2, <3>3, <4>1, CompareIs
    <3>4. CASE CompareOptionNumbers(PrevNode, Node) = "equal"
      <4>1. at' = "sort" /\ links' = links /\ Node' = links.fwd[Node]
        BY <1>1, <3>1, <3>4 DEF SortTurn, List!GetNextNode
      <4> QED
        BY <1>5, <2>2, <3>2, <3>4, <4>1, CompareIs
    <3>5. CompareOptionNumbers(PrevNode, Node) \in {"less", "equal"}
      BY <2>2 DEF CompareOptionNumbers
    <3> QED
      BY <3>3, <3>4, <3>5
  <2> QED
    BY <2>1, <2>2
<1>8. links' = links
  BY <1>7
<1>9. Listed' = Listed /\ Known' = Known
  BY <1>1, <1>8 DEF Listed, Known
<1>10. ShapeInv'
  <2>1. ListOf(links', Listed')
    BY <1>2, <1>8, <1>9
  <2>2. TypeOK /\ catalogue \in Catalogues
    BY DEF Inv, ShapeInv
  <2>3. Node' \in List!Nodes
    <3>1. links.fwd[Node] \in List!Nodes
      BY <2>2 DEF TypeOK
    <3> QED
      BY <1>7, <2>2, <3>1 DEF TypeOK
  <2>4. TypeOK'
    BY <1>1, <1>7, <1>8, <2>2, <2>3 DEF TypeOK, List!Nodes
  <2> QED
    BY <1>1, <2>1, <2>2, <2>4 DEF ShapeInv
<1>11. KnownInv'
  <2>1. HotKeysUpTo(name)' = HotKeysUpTo(name)
    BY <1>1 DEF HotKeysUpTo
  <2>2. at' \in {"sort", "enumerate"}
    BY <1>7
  <2> QED
    BY <1>1, <1>2, <1>9, <2>1, <2>2 DEF Inv, KnownInv
<1>12. CASE at' = "enumerate"
  <2>1. t = n + 1 \/ (t \in 1 .. n /\ Number(Listed[s]) < Number(Listed[t]))
    BY <1>2, <1>5, <1>6, <1>7, <1>12
  <2>2. Ordered(Listed)
    BY <1>2, <1>4, <2>1, SortedNow
  <2>3. Ordered(Known)'
    BY <1>1, <1>2, <1>9, <2>2 DEF Ordered, CompareOptionNumbers
  <2>4. OrderInv'
    BY <1>12, <2>3 DEF OrderInv
  <2> QED
    BY <1>8, <1>10, <1>11, <2>4 DEF Inv
<1>13. CASE at' = "sort"
  <2>1. /\ Node # ListHead /\ Number(Listed[s]) = Number(Listed[t]) /\ Node' = links.fwd[Node]
        /\ t \in 1 .. n /\ Node = Listed[t]
    BY <1>6, <1>7, <1>13
  <2>2. Node' = IF t + 1 = n + 1 THEN ListHead ELSE Listed[t + 1]
    <3>0. ListOf(links, Listed)
      BY <1>2
    <3>1. \A i \in 1 .. Len(Listed) :
              links.fwd[Listed[i]] = IF i = Len(Listed) THEN ListHead ELSE Listed[i + 1]
      BY ONLY <3>0, ListOfFacts
    <3>2. links.fwd[Node] = IF t = n THEN ListHead ELSE Listed[t + 1]
      BY <2>1, <3>1
    <3>3. t + 1 = n + 1 <=> t = n
      <4>1. t \in 1 .. n /\ n \in Nat
        BY <1>2, <2>1, Zenon
      <4> QED
        BY ONLY <4>1
    <3> QED
      BY <2>1, <3>2, <3>3
  <2>3. \A i \in s .. (t + 1) - 1 : Number(Listed[i]) = Number(Listed[s])
    BY <1>5, <2>1
  <2>4. Sorting(Listed, s, t + 1)'
    <3>1. PrevNode' = Listed'[s] /\ Node' = IF t + 1 = Len(Listed') + 1 THEN ListHead ELSE Listed'[t + 1]
      BY <1>1, <1>5, <1>9, <2>2
    <3>2. /\ \A i \in 1 .. s - 1 : Number(Listed[i])' <= Number(Listed[s])'
          /\ \A i \in s .. (t + 1) - 1 : Number(Listed[i])' = Number(Listed[s])'
          /\ \A i, j \in (1 .. Len(Listed')) \ {s} :
                 i < j => Number(Listed[i])' <= Number(Listed[j])'
      BY <1>1, <1>5, <1>9, <2>3 DEF Number
    <3> QED
      BY <3>1, <3>2 DEF Sorting
  <2>5. s \in 1 .. Len(Listed') /\ t + 1 \in s .. Len(Listed') + 1
    BY <1>2, <1>9, <2>1
  <2>6. at' = "sort" /\ NoSort' = 0
    BY <1>1, <1>2, <1>13
  <2>7. OrderInv'
    BY <2>4, <2>5, <2>6 DEF OrderInv
  <2> QED
    BY <1>8, <1>10, <1>11, <2>7 DEF Inv
<1> QED
  BY <1>7, <1>12, <1>13

----------------------------------------------------------------------------
(* The first entry is printed and taken out.                               *)
LEMMA TakenOut ==
    ASSUME Inv, PrintFirst
    PROVE  Inv' /\ 1 \in 1 .. Len(Listed) /\ List!TakeOut(1)
<1> DEFINE n == Len(Listed)
           m == Len(printed)
           e == Listed[1]
           o == SubSeq(Listed, 1, 1 - 1) \o SubSeq(Listed, 1 + 1, Len(Listed))
<1>1. /\ at = "print" /\ at' = at /\ links.fwd[ListHead] # ListHead
      /\ Node' = links.fwd[ListHead] /\ PrevNode' = PrevNode
      /\ printed' = Append(printed, Node')
      /\ links' = List!RemoveEntryList(links, Node')
      /\ catalogue' = catalogue /\ status' = status /\ Verbose' = Verbose /\ NoSort' = NoSort
      /\ name' = name /\ CurSize' = CurSize
  BY DEF PrintFirst, Drained, surroundings, options, buffer, List!IsListEmpty, List!GetFirstNode
<1>2. ShapeInv /\ KnownInv /\ OrderInv /\ TypeOK /\ ListOf(links, Listed) /\ catalogue \in Catalogues
  BY DEF Inv, ShapeInv
<1>3. /\ Listed \in Seq(Entries) /\ n \in Nat /\ DOMAIN Listed = 1 .. n
      /\ 1 \in 1 .. n /\ e \in Entries /\ Node' = e
  <2>1. /\ Listed \in Seq(Entries) /\ n \in Nat /\ DOMAIN Listed = 1 .. n
        /\ links.fwd[ListHead] = IF n = 0 THEN ListHead ELSE e
        /\ \A i \in 1 .. n : Listed[i] \in Entries
    BY <1>2, ListOfFacts
  <2> QED
    BY <1>1, <2>1
<1>4. ListOf(links', o)
  BY <1>1, <1>2, <1>3, ListRemove
<1>5. Listed' = o /\ Walk(links') = o
  BY <1>4, WalkIs DEF Listed
<1>6. List!TakeOut(1)
  <2>1. links' = List!RemoveEntryList(links, Walk(links)[1])
    BY <1>1, <1>3 DEF Listed
  <2>2. Walk(links') = SubSeq(Walk(links), 1, 1 - 1) \o SubSeq(Walk(links), 1 + 1, Len(Walk(links)))
    BY <1>5 DEF Listed
  <2> QED
    BY <2>1, <2>2 DEF List!TakeOut
<1>7. /\ o \in Seq(Entries) /\ Len(o) = n - 1
      /\ \A i \in 1 .. n - 1 : o[i] = Listed[i + 1]
  <2>1. SubSeq(Listed, 1, 0) = <<>>
    BY <1>3, SubSeqEmpty
  <2> DEFINE b == SubSeq(Listed, 2, n)
  <2>2. /\ b \in Seq(Entries) /\ Len(b) = n - 1
        /\ \A i \in 1 .. n - 1 : b[i] = Listed[i + 1]
    <3>1. \A i \in 2 .. n : Listed[i] \in Entries
      BY <1>3, ElementOfSeq
    <3>2. /\ b \in Seq(Entries) /\ Len(b) = IF 2 <= n THEN n - 2 + 1 ELSE 0
          /\ \A i \in 1 .. n - 2 + 1 : b[i] = Listed[2 + i - 1]
      BY <1>3, <3>1, SubSeqProperties
    <3> QED
      BY <1>3, <3>2
  <2>3. o = b
    <3>1. o = <<>> \o b
      BY <2>1
    <3> QED
      BY <2>2, <3>1, ConcatEmptySeq
  <2> QED
    BY <2>2, <2>3
<1> HIDE DEF o
<1>8. /\ printed \in Seq(Entries) /\ m \in Nat
      /\ printed' \in Seq(Entries) /\ Len(printed') = m + 1
      /\ printed'[m + 1] = e /\ \A i \in 1 .. m : printed'[i] = printed[i]
  <2>1. printed \in Seq(Entries) /\ m \in Nat
    BY <1>2, KnownFacts
  <2> QED
    BY <1>1, <1>3, <2>1, AppendProperties
<1>9. ShapeInv'
  <2>1. links' \in [fwd : [List!Nodes -> List!Nodes], back : [List!Nodes -> List!Nodes]]
    BY <1>4, ListOfFacts
  <2>2. Node' \in List!Nodes
    BY <1>3 DEF List!Nodes
  <2>3. TypeOK'
    BY <1>1, <1>2, <1>8, <2>1, <2>2 DEF TypeOK, List!Nodes
  <2> QED
    BY <1>1, <1>2, <1>4, <1>5, <2>3 DEF ShapeInv
<1>10. Known' = Known
  <2> DEFINE k == Known'
  <2>1. /\ k \in Seq(Entries) /\ Len(k) = (m + 1) + (n - 1)
        /\ \A i \in 1 .. (m + 1) + (n - 1) :
               k[i] = IF i <= m + 1 THEN printed'[i] ELSE o[i - (m + 1)]
    <3>1. k = printed' \o o
      BY <1>5 DEF Known
    <3>2. /\ printed' \o o \in Seq(Entries)
          /\ Len(printed' \o o) = Len(printed') + Len(o)
          /\ \A i \in 1 .. Len(printed') + Len(o) :
                (printed' \o o)[i] = IF i <= Len(printed') THEN printed'[i] ELSE o[i - Len(printed')]
      BY <1>7, <1>8, ConcatProperties
    <3> HIDE DEF k
    <3> QED
      BY <1>7, <1>8, <3>1, <3>2
  <2>2. /\ Known \in Seq(Entries) /\ Len(Known) = m + n
        /\ \A i \in 1 .. m : Known[i] = printed[i]
        /\ \A i \in 1 .. n : Known[m + i] = Listed[i]
    BY <1>2, KnownFacts
  <2>3. (m + 1) + (n - 1) = m + n
    BY <1>3, <1>8
  <2>4. ASSUME NEW i \in 1 .. m + n
        PROVE  k[i] = Known[i]
    <3>1. CASE i <= m
      <4>1. i \in 1 .. m /\ i <= m + 1
        BY <1>8, <3>1
      <4>2. k[i] = printed'[i]
        BY <2>1, <2>3, <4>1
      <4> QED
        BY <1>8, <2>2, <4>1, <4>2
    <3>2. CASE i = m + 1
      <4>1. k[i] = printed'[m + 1]
        BY <1>8, <2>1, <2>3, <3>2, SMTT(30)
      <4>2. Known[i] = Listed[1]
        BY <1>3, <2>2, <3>2
      <4> QED
        BY <1>8, <4>1, <4>2
    <3>3. CASE i > m + 1
      <4>1. /\ i - (m + 1) \in 1 .. n - 1 /\ (i - (m + 1)) + 1 = i - m
            /\ i - m \in 1 .. n /\ m + (i - m) = i /\ ~ (i <= m + 1)
        BY <1>3, <1>8, <3>3
      <4>2. k[i] = o[i - (m + 1)]
        BY <2>1, <2>3, <4>1
      <4>3. o[i - (m + 1)] = Listed[i - m]
        BY <1>7, <4>1
      <4>4. Known[i] = Listed[i - m]
        BY <2>2, <4>1
      <4> QED
        BY <4>2, <4>3, <4>4
    <3> QED
      BY <1>3, <1>8, <3>1, <3>2, <3>3
  <2> HIDE DEF k
  <2>5. k = Known
    BY <2>1, <2>2, <2>3, <2>4, SeqEqual
  <2> QED
    BY <2>5 DEF k
<1>11. KnownInv'
  <2>1. HotKeysUpTo(name)' = HotKeysUpTo(name)
    BY <1>1 DEF HotKeysUpTo
  <2> QED
    BY <1>1, <1>2, <1>10, <2>1 DEF KnownInv
<1>12. OrderInv'
  <2>1. Ordered(Known)'
    BY <1>1, <1>2, <1>10 DEF OrderInv, Ordered, CompareOptionNumbers
  <2> QED
    BY <1>1, <2>1 DEF OrderInv
<1> QED
  BY <1>3, <1>6, <1>9, <1>11, <1>12 DEF Inv

----------------------------------------------------------------------------
(* Every step leaves the list alone or changes it as EfiLink's does.       *)
LEMMA InvNext ==
    ASSUME Inv, [Next]_vars
    PROVE  /\ Inv'
           /\ \/ links' = links
              \/ \E e \in Entries : List!InsertHead(e)
              \/ \E i, j \in 1 .. Len(Listed) : List!Swap(i, j)
              \/ 1 \in 1 .. Len(Listed) /\ List!TakeOut(1)
<1>1. CASE GetArgsFails \/ ParseArgs \/ GetSupport \/ NoMoreNames \/ EnumerationFails \/ Finish
  <2>1. links' = links
    BY <1>1 DEF GetArgsFails, ParseArgs, GetSupport, NoMoreNames, EnumerationFails, Finish, list
  <2> QED
    BY <1>1, <2>1, OtherSteps
<1>2. CASE NextName
  BY <1>2, PassedOver, PutInFront
<1>3. CASE Sort
  BY <1>3, SortExchange, SortOn
<1>4. CASE PrintFirst
  BY <1>4, TakenOut
<1>5. CASE UNCHANGED vars
  <2>1. /\ UNCHANGED <<surroundings, list, printed>>
        /\ at' = at /\ status' = status /\ name' = name /\ CurSize' = CurSize
        /\ Verbose' = Verbose /\ NoSort' = NoSort
    BY <1>5 DEF vars, options, buffer
  <2>2. /\ Known' = Known /\ Listed' = Listed
        /\ catalogue' = catalogue /\ links' = links /\ printed' = printed
        /\ Node' = Node /\ PrevNode' = PrevNode
        /\ ListOf(links', Listed') /\ catalogue' \in Catalogues
    BY <2>1, ListUnchanged
  <2>3. ShapeInv'
    BY <2>1, <2>2 DEF Inv, ShapeInv, TypeOK, List!Nodes
  <2>4. KnownInv'
    BY <2>1, <2>2 DEF Inv, KnownInv, HotKeysUpTo
  <2>5. OrderInv'
    BY <2>1, <2>2 DEF Inv, OrderInv, Ordered, CompareOptionNumbers, Sorting, Number
  <2> QED
    BY <2>2, <2>3, <2>4, <2>5 DEF Inv
<1> QED
  BY <1>1, <1>2, <1>3, <1>4, <1>5 DEF Next

LEMMA InvHolds == Spec => []Inv
<1>1. Inv /\ [Next]_vars => Inv'
  BY InvNext
<1> QED
  BY <1>1, InvInit, PTL DEF Spec

LEMMA DrainNext ==
    ASSUME Inv, DrainInv, [Next]_vars
    PROVE  DrainInv'
<1>1. ShapeInv /\ KnownInv /\ OrderInv
  BY DEF Inv
<1>2. CASE Finish
  <2>1. /\ at = "print" /\ at' = "returned" /\ status' = status /\ links.fwd[ListHead] = ListHead
        /\ UNCHANGED <<surroundings, list, printed, options, name>>
    BY <1>2 DEF Finish, Drained, List!IsListEmpty, Return, buffer
  <2>2. /\ catalogue' = catalogue /\ printed' = printed /\ Listed' = Listed
        /\ NoSort' = NoSort /\ name' = name
    BY <2>1, ListUnchanged DEF options
  <2>3. Listed = <<>>
    <3>1. Len(Listed) = 0
      BY <1>1, <2>1, ListOfFacts DEF ShapeInv
    <3> QED
      BY <1>1, <3>1, KnownFacts, EmptySeq
  <2>4. Known = printed
    BY <1>1, <2>3, KnownFacts
  <2>5. Ordered(printed)
    BY <1>1, <2>1, <2>4 DEF OrderInv
  <2>6. Ordered(printed)'
    BY <2>2, <2>5 DEF Ordered, CompareOptionNumbers
  <2> QED
    BY <2>1, <2>2, <2>3, <2>6 DEF DrainInv
<1>3. CASE GetArgsFails \/ ParseArgs \/ GetSupport
  <2>1. at \in {"args", "support"} /\ at' # "print" /\ name' = name
    BY <1>3 DEF GetArgsFails, ParseArgs, GetSupport, Return, buffer
  <2>2. name = 0
    BY <1>1, <2>1 DEF KnownInv
  <2> QED
    BY <2>1, <2>2 DEF DrainInv
<1>4. CASE NoMoreNames
  BY <1>4 DEF NoMoreNames, DrainInv, buffer, surroundings
<1>5. CASE EnumerationFails
  BY <1>5 DEF EnumerationFails, DrainInv, Return
<1>6. CASE NextName \/ Sort
  <2>1. CompareOptionNumbers(PrevNode, Node) \in {"greater", "less", "equal"}
    BY Zenon DEF CompareOptionNumbers
  <2>2. SortTurn /\ at = "sort" => at' \in {"enumerate", "sort"}
    BY <2>1 DEF SortTurn
  <2>3. at \in {"enumerate", "sort"} /\ at' \in {"enumerate", "sort"}
    BY <1>6, <2>2 DEF NextName, Sort
  <2> QED
    BY <2>3 DEF DrainInv
<1>7. CASE PrintFirst
  BY <1>7 DEF PrintFirst, DrainInv, buffer, surroundings
<1>8. CASE UNCHANGED vars
  <2>1. /\ UNCHANGED <<surroundings, list, printed>>
        /\ at' = at /\ status' = status /\ name' = name /\ NoSort' = NoSort
    BY <1>8 DEF vars, options, buffer
  <2>2. Listed' = Listed /\ catalogue' = catalogue /\ printed' = printed
    BY <2>1, ListUnchanged
  <2> QED
    BY <2>1, <2>2 DEF DrainInv, Ordered, CompareOptionNumbers
<1> QED
  BY <1>2, <1>3, <1>4, <1>5, <1>6, <1>7, <1>8 DEF Next

LEMMA DrainHolds == Spec => []DrainInv
<1>1. Init => DrainInv
  BY DEF Init, DrainInv
<1>2. Inv /\ DrainInv /\ [Next]_vars => DrainInv'
  BY DrainNext
<1> QED
  BY <1>1, <1>2, InvHolds, PTL DEF Spec

(* For any store and command line every variable keeps its type, and the   *)
(* name last enumerated fits the buffer it was read into.                  *)
THEOREM TypesKept == Spec => []TypeOK
<1>1. Inv => TypeOK
  BY DEF Inv, ShapeInv
<1> QED
  BY <1>1, InvHolds, PTL

(* The program puts entries in, takes them out and swaps them only as      *)
(* efilink.c allows it: the list of showhotkeys implements the abstract    *)
(* list of EfiLink, its order being what the links lead through.           *)
THEOREM ImplementsList == Spec => ListOperations
<1>1. Init => List!Init
  <2> SUFFICES ASSUME Init PROVE List!Init
    OBVIOUS
  <2>1. links = List!InitializeListHead(
                 [fwd |-> [n \in List!Nodes |-> n], back |-> [n \in List!Nodes |-> n]], ListHead)
    BY DEF Init
  <2>2. Walk(links) = <<>>
    BY <2>1, ListEmpty, WalkIs
  <2> QED
    BY <2>1, <2>2 DEF List!Init
<1>2. Inv /\ [Next]_vars => [List!Next]_(List!vars)
  <2> SUFFICES ASSUME Inv, [Next]_vars PROVE [List!Next]_(List!vars)
    OBVIOUS
  <2>1. DOMAIN Walk(links) = 1 .. Len(Listed)
    BY KnownFacts DEF Inv, Listed
  <2>2. CASE links' = links
    BY <2>2 DEF List!vars
  <2>3. CASE \E e \in Entries : List!InsertHead(e)
    BY <2>3 DEF List!Next
  <2>4. CASE \E i, j \in 1 .. Len(Listed) : List!Swap(i, j)
    BY <2>1, <2>4 DEF List!Next
  <2>5. CASE 1 \in 1 .. Len(Listed) /\ List!TakeOut(1)
    BY <2>1, <2>5 DEF List!Next
  <2> QED
    BY <2>2, <2>3, <2>4, <2>5, InvNext
<1> QED
  BY <1>1, <1>2, InvHolds, PTL DEF Spec, ListOperations, List!Spec

(* While names are read and while they are printed the list is sorted, by  *)
(* the one-entry insertion that SortTurn does in place.                    *)
THEOREM AlwaysSorted == Spec => []ListSorted
<1>1. Inv => ListSorted
  <2> SUFFICES ASSUME Inv, at \in {"enumerate", "print"}, NoSort = 0,
                      NEW i \in DOMAIN Listed, NEW j \in DOMAIN Listed, i < j
               PROVE  CompareOptionNumbers(Listed[i], Listed[j]) # "greater"
    BY DEF ListSorted, Listed
  <2>1. Ordered(Known)
    BY DEF Inv, OrderInv
  <2>2. /\ i \in 1 .. Len(Listed) /\ j \in 1 .. Len(Listed) /\ Len(printed) \in Nat
        /\ Len(Listed) \in Nat /\ DOMAIN Known = 1 .. Len(printed) + Len(Listed)
        /\ Known[Len(printed) + i] = Listed[i] /\ Known[Len(printed) + j] = Listed[j]
    BY KnownFacts DEF Inv
  <2>3. /\ Len(printed) + i \in DOMAIN Known /\ Len(printed) + j \in DOMAIN Known
        /\ Len(printed) + i < Len(printed) + j
    BY <2>2
  <2> QED
    BY <2>1, <2>2, <2>3 DEF Ordered
<1> QED
  BY <1>1, InvHolds, PTL

(* No hot key is lost from the list or met twice, at any moment, the       *)
(* middle of a sort and of the printing included.                          *)
THEOREM EachKeptOnce == Spec => []EachOnce
<1>1. Inv => EachOnce
  <2> SUFFICES ASSUME Inv PROVE EachOnce
    OBVIOUS
  <2>1. ShapeInv /\ KnownInv
    BY DEF Inv
  <2>2. {Known[i] : i \in DOMAIN Known} = HotKeysUpTo(name)
    BY <2>1 DEF KnownInv
  <2>3. Known \in Seq(Entries) /\ Len(Known) \in Nat /\ DOMAIN Known = 1 .. Len(Known)
    BY <2>1, KnownFacts, LenProperties
  <2>4. Known \in Bijection(1 .. Len(Known), HotKeysUpTo(name))
    <3>1. Known \in [1 .. Len(Known) -> HotKeysUpTo(name)]
      <4>1. Known \in [1 .. Len(Known) -> Entries]
        BY <2>3, LenProperties
      <4> QED
        BY <2>2, <2>3, <4>1
    <3>2. \A i, j \in 1 .. Len(Known) : Known[i] = Known[j] => i = j
      BY <2>1, <2>3 DEF KnownInv
    <3>3. \A e \in HotKeysUpTo(name) : \E i \in 1 .. Len(Known) : Known[i] = e
      BY <2>2, <2>3
    <3> QED
      BY <3>1, <3>2, <3>3 DEF Bijection, Injection, Surjection, IsInjective
  <2>5. Cardinality(HotKeysUpTo(name)) = Len(Known)
    BY <2>3, <2>4, FS_CountingElements DEF ExistsBijection
  <2> QED
    BY <2>2, <2>5 DEF EachOnce, Known, Listed
<1> QED
  BY <1>1, InvHolds, PTL

(* Every run that gets to the end of the names has printed every hot key   *)
(* of the store when it returns, in the order the options ask for.         *)
THEOREM AllPrinted == Spec => []PrintedAll
<1>1. Inv /\ DrainInv => PrintedAll
  <2> SUFFICES ASSUME Inv, DrainInv, at = "returned", status = "not_found", name > 0
               PROVE  /\ {printed[i] : i \in DOMAIN printed} = HotKeysUpTo(Len(catalogue))
                      /\ \A i, j \in DOMAIN printed : i < j =>
                            IF NoSort = 1 THEN printed[i] > printed[j]
                            ELSE CompareOptionNumbers(printed[i], printed[j]) # "greater"
    BY DEF PrintedAll
  <2>1. name = Len(catalogue) /\ Listed = <<>> /\ Ordered(printed)
    BY DEF DrainInv
  <2>2. Known = printed
    BY <2>1, KnownFacts DEF Inv
  <2> QED
    BY <2>1, <2>2 DEF Inv, KnownInv, Ordered
<1> QED
  BY <1>1, InvHolds, DrainHolds, PTL
=============================================================================
