--------------------------- MODULE EfiLinkProofs ---------------------------
(***************************************************************************)
(* What SwapListEntries and its fellows do to a list of any length.        *)
(*                                                                         *)
(* A ring is laid out as a function p on 0 .. n + 1: the head at both      *)
(* ends, between them the n entries, each once.  Putting an entry in and   *)
(* taking one out are lemmas about rings; an exchange is four of them in a *)
(* row, of which the code leaves some out for neighbours.                  *)
(***************************************************************************)
EXTENDS EfiLink, Integers, SequenceTheorems, TLAPS

Links == [fwd : [Nodes -> Nodes], back : [Nodes -> Nodes]]

Ring(l, n, p) ==
    /\ l \in Links
    /\ n \in Nat
    /\ p \in [0 .. n + 1 -> Nodes]
    /\ p[0] = ListHead /\ p[n + 1] = ListHead
    /\ \A i, j \in 0 .. n : p[i] = p[j] => i = j
    /\ \A i \in 0 .. n : l.fwd[p[i]] = p[i + 1] /\ l.back[p[i + 1]] = p[i]

(* The entry e behind place k.                                             *)
Put(n, p, k, e) ==
    [m \in 0 .. n + 2 |-> IF m <= k THEN p[m] ELSE IF m = k + 1 THEN e ELSE p[m - 1]]

(* All but place k.                                                        *)
Cut(n, p, k) == [m \in 0 .. n |-> IF m < k THEN p[m] ELSE p[m + 1]]

(* Places i and j exchanged.                                               *)
Exchanged(n, p, i, j) ==
    [m \in 0 .. n + 1 |-> IF m = i THEN p[j] ELSE IF m = j THEN p[i] ELSE p[m]]

----------------------------------------------------------------------------
(* An entry that is out, put in behind place k.                            *)
LEMMA RingPut ==
    ASSUME NEW l, NEW n, NEW p, Ring(l, n, p),
           NEW k \in 0 .. n, NEW e \in Nodes, \A i \in 0 .. n : p[i] # e
    PROVE  /\ Ring(InsertHeadList(l, p[k], e), n + 1, Put(n, p, k, e))
           /\ InsertTailList(l, p[k + 1], e) = InsertHeadList(l, p[k], e)
<1> DEFINE new == InsertHeadList(l, p[k], e)
           q == Put(n, p, k, e)
<1>1. /\ l \in Links /\ n \in Nat /\ p \in [0 .. n + 1 -> Nodes]
      /\ p[0] = ListHead /\ p[n + 1] = ListHead
      /\ \A i, j \in 0 .. n : p[i] = p[j] => i = j
      /\ \A i \in 0 .. n : l.fwd[p[i]] = p[i + 1] /\ l.back[p[i + 1]] = p[i]
  BY DEF Ring
<1>2. l.fwd \in [Nodes -> Nodes] /\ l.back \in [Nodes -> Nodes]
  BY <1>1 DEF Links
<1>3. /\ new.fwd = [l.fwd EXCEPT ![e] = p[k + 1], ![p[k]] = e]
      /\ new.back = [l.back EXCEPT ![e] = p[k], ![p[k + 1]] = e]
  BY <1>1 DEF InsertHeadList
<1>4. InsertTailList(l, p[k + 1], e) = new
  BY <1>1 DEF InsertHeadList, InsertTailList
<1>5. new \in Links
  BY <1>1, <1>2, SMTT(30) DEF InsertHeadList, Links
<1>6. \A i \in 0 .. n : p[i] \in Nodes /\ p[i + 1] \in Nodes
  BY <1>1
<1>7. /\ \A x \in Nodes : x # e /\ x # p[k] => new.fwd[x] = l.fwd[x]
      /\ \A x \in Nodes : x # e /\ x # p[k + 1] => new.back[x] = l.back[x]
      /\ new.fwd[p[k]] = e /\ new.back[p[k + 1]] = e
      /\ new.fwd[e] = p[k + 1] /\ new.back[e] = p[k]
  <2>1. p[k] # e /\ p[k + 1] # e
    BY <1>1
  <2> QED
    BY <1>2, <1>3, <1>6, <2>1
<1>8. /\ q \in [0 .. n + 2 -> Nodes]
      /\ \A i \in 0 .. k : q[i] = p[i]
      /\ q[k + 1] = e
      /\ \A i \in k + 2 .. n + 2 : q[i] = p[i - 1]
  BY <1>1 DEF Put
<1>9. q[0] = ListHead /\ q[n + 2] = ListHead
  BY <1>1, <1>8
<1>10. ASSUME NEW i \in 0 .. n + 1, NEW j \in 0 .. n + 1, q[i] = q[j]
       PROVE  i = j
  <2>1. CASE i = k + 1
    BY <1>1, <1>8, <1>10, <2>1, SMTT(30)
  <2>2. CASE j = k + 1
    BY <1>1, <1>8, <1>10, <2>2
  <2>3. CASE i # k + 1 /\ j # k + 1
    <3> DEFINE old(m) == IF m <= k THEN m ELSE m - 1
    <3>1. old(i) \in 0 .. n /\ old(j) \in 0 .. n /\ q[i] = p[old(i)] /\ q[j] = p[old(j)]
      BY <1>1, <1>8, <2>3
    <3> HIDE DEF old
    <3>2. p[old(i)] = p[old(j)]
      BY <1>10, <3>1, Zenon
    <3>3. \A a, b \in 0 .. n : p[a] = p[b] => a = b
      BY <1>1, Zenon
    <3>4. old(i) = old(j)
      BY ONLY <3>1, <3>2, <3>3, Zenon
    <3> QED
      BY <3>4, <2>3, <1>1 DEF old
  <2> QED
    BY <2>1, <2>2, <2>3
<1>11. ASSUME NEW i \in 0 .. n + 1
       PROVE  new.fwd[q[i]] = q[i + 1] /\ new.back[q[i + 1]] = q[i]
  <2>1. CASE i < k
    <3>1. q[i] = p[i] /\ q[i + 1] = p[i + 1] /\ i \in 0 .. n /\ i + 1 \in 0 .. n
      BY <1>1, <1>8, <2>1, SMTT(30)
    <3>2. p[i] # e /\ p[i] # p[k] /\ p[i + 1] # e /\ p[i + 1] # p[k + 1]
      <4>1. p[i + 1] # p[k + 1]
        <5>1. CASE k = n
          BY <1>1, <3>1, <5>1, <2>1
        <5>2. CASE k < n
          <6>1. k + 1 \in 0 .. n /\ i + 1 # k + 1
            BY <5>2, <2>1, <1>1
          <6> QED
            BY <1>1, <3>1, <6>1
        <5> QED
          BY <5>1, <5>2, <1>1
      <4> QED
        BY <1>1, <3>1, <2>1, <4>1
    <3> QED
      BY <1>1, <1>6, <1>7, <3>1, <3>2, SMTT(30)
  <2>2. CASE i = k
    BY <1>1, <1>7, <1>8, <2>2
  <2>3. CASE i = k + 1
    BY <1>1, <1>7, <1>8, <2>3
  <2>4. CASE i > k + 1
    <3>1. q[i] = p[i - 1] /\ q[i + 1] = p[i] /\ i - 1 \in 0 .. n /\ i - 1 > k
      BY <1>1, <1>8, <2>4
    <3>2. p[i - 1] # e /\ p[i - 1] # p[k]
      BY <1>1, <3>1
    <3>3. p[i] # e /\ p[i] # p[k + 1]
      <4>1. CASE i = n + 1
        BY <1>1, <2>4, <4>1
      <4>2. CASE i < n + 1
        <5>1. i \in 0 .. n /\ k + 1 \in 0 .. n /\ i # k + 1
          BY <4>2, <2>4, <1>1
        <5> QED
          BY <1>1, <5>1
      <4> QED
        BY <4>1, <4>2, <1>1
    <3>4. l.fwd[p[i - 1]] = p[i] /\ l.back[p[i]] = p[i - 1]
      BY <1>1, <3>1
    <3>5. p[i] \in Nodes /\ p[i - 1] \in Nodes
      BY <1>1, <2>4
    <3> QED
      BY <1>7, <3>1, <3>2, <3>3, <3>4, <3>5
  <2> QED
    BY <2>1, <2>2, <2>3, <2>4, <1>1
<1>12. Ring(new, n + 1, q)
  BY <1>1, <1>5, <1>8, <1>9, <1>10, <1>11 DEF Ring
<1> QED
  BY <1>4, <1>12

----------------------------------------------------------------------------
(* The entry at place k, taken out.                                        *)
LEMMA RingCut ==
    ASSUME NEW l, NEW n, NEW p, Ring(l, n, p), NEW k \in 1 .. n
    PROVE  /\ Ring(RemoveEntryList(l, p[k]), n - 1, Cut(n, p, k))
           /\ \A i \in 0 .. n - 1 : Cut(n, p, k)[i] # p[k]
<1> DEFINE new == RemoveEntryList(l, p[k])
           q == Cut(n, p, k)
<1>1. /\ l \in Links /\ n \in Nat /\ p \in [0 .. n + 1 -> Nodes]
      /\ p[0] = ListHead /\ p[n + 1] = ListHead
      /\ \A i, j \in 0 .. n : p[i] = p[j] => i = j
      /\ \A i \in 0 .. n : l.fwd[p[i]] = p[i + 1] /\ l.back[p[i + 1]] = p[i]
  BY DEF Ring
<1>2. l.fwd \in [Nodes -> Nodes] /\ l.back \in [Nodes -> Nodes]
  BY <1>1 DEF Links
<1>3. /\ k - 1 \in 0 .. n /\ k \in 0 .. n
      /\ p[k - 1] \in Nodes /\ p[k] \in Nodes /\ p[k + 1] \in Nodes
      /\ l.back[p[k]] = p[k - 1] /\ l.fwd[p[k]] = p[k + 1]
  <2>1. k - 1 \in 0 .. n /\ k \in 0 .. n /\ (k - 1) + 1 = k
    BY <1>1
  <2> QED
    BY <1>1, <2>1
<1>4. /\ new.fwd = [l.fwd EXCEPT ![p[k - 1]] = p[k + 1]]
      /\ new.back = [l.back EXCEPT ![p[k + 1]] = p[k - 1]]
  BY <1>3 DEF RemoveEntryList
<1>5. new \in Links
  BY <1>2, <1>3, <1>4 DEF RemoveEntryList, Links
<1>6. /\ q \in [0 .. n -> Nodes]
      /\ \A i \in 0 .. k - 1 : q[i] = p[i]
      /\ \A i \in k .. n : q[i] = p[i + 1]
  BY <1>1 DEF Cut
<1>7. q[0] = ListHead /\ q[n] = ListHead
  BY <1>1, <1>6
<1> DEFINE old(m) == IF m < k THEN m ELSE m + 1
<1>8. \A i \in 0 .. n - 1 : old(i) \in 0 .. n /\ old(i) # k /\ q[i] = p[old(i)]
  BY <1>1, <1>6
<1>9. \A i \in 0 .. n - 1 : q[i] # p[k]
  BY <1>1, <1>3, <1>8
<1>10. ASSUME NEW i \in 0 .. n - 1, NEW j \in 0 .. n - 1, q[i] = q[j]
       PROVE  i = j
  <2>1. old(i) = old(j)
    BY <1>1, <1>8, <1>10
  <2> QED
    BY <2>1, <1>1
<1>11. ASSUME NEW i \in 0 .. n - 1
       PROVE  new.fwd[q[i]] = q[i + 1] /\ new.back[q[i + 1]] = q[i]
  <2>1. CASE i = k - 1
    <3>1. q[i] = p[k - 1] /\ q[i + 1] = p[k + 1]
      BY <1>1, <1>6, <2>1
    <3> QED
      BY <1>2, <1>3, <1>4, <3>1
  <2>2. CASE i # k - 1
    <3>1. /\ old(i) \in 0 .. n /\ old(i) # k - 1 /\ old(i) # k
          /\ q[i] = p[old(i)] /\ q[i + 1] = p[old(i) + 1]
      BY <1>1, <1>6, <2>2, SMTT(30)
    <3>2. p[old(i)] # p[k - 1] /\ p[old(i)] \in Nodes /\ p[old(i) + 1] \in Nodes
      BY <1>1, <1>3, <3>1
    <3>3. p[old(i) + 1] # p[k + 1]
      <4>1. SUFFICES ASSUME p[old(i) + 1] = p[k + 1] PROVE FALSE
        OBVIOUS
      <4>2. l.back[p[old(i) + 1]] = p[old(i)] /\ l.back[p[k + 1]] = p[k]
        BY <1>1, <1>3, <3>1
      <4> QED
        BY <1>1, <1>3, <3>1, <4>1, <4>2
    <3>4. l.fwd[p[old(i)]] = p[old(i) + 1] /\ l.back[p[old(i) + 1]] = p[old(i)]
      BY <1>1, <3>1
    <3> HIDE DEF old
    <3> QED
      BY <1>2, <1>3, <1>4, <3>1, <3>2, <3>3, <3>4
  <2> QED
    BY <2>1, <2>2
<1>12. n - 1 \in Nat /\ (n - 1) + 1 = n
  BY <1>1
<1>13. Ring(new, n - 1, q)
  BY <1>5, <1>6, <1>7, <1>10, <1>11, <1>12 DEF Ring
<1> QED
  BY <1>9, <1>13

(* Of two places that are no neighbours, the first has been moved to the   *)
(* second's, and the second is put in at the first's.                      *)
LEMMA PutBack ==
    ASSUME NEW n \in Nat, NEW p \in [0 .. n + 1 -> Nodes], NEW f \in [0 .. n -> Nodes],
           NEW i \in 1 .. n, NEW j \in 1 .. n, i # j, j # i - 1, j # i + 1,
           \A a \in 0 .. n : f[a] = IF a = (IF j < i THEN j ELSE j - 1) THEN p[i]
                                    ELSE IF a < i THEN p[a] ELSE p[a + 1]
    PROVE  Put(n - 1, f, i - 1, p[j]) = Exchanged(n, p, i, j)
<1> DEFINE jj == IF j < i THEN j ELSE j - 1
           g == Put(n - 1, f, i - 1, p[j])
           e == Exchanged(n, p, i, j)
<1>1. /\ g \in [0 .. n + 1 -> Nodes]
      /\ \A a \in 0 .. i - 1 : g[a] = f[a]
      /\ g[i] = p[j]
      /\ \A a \in i + 1 .. n + 1 : g[a] = f[a - 1]
  BY DEF Put
<1>2. /\ e \in [0 .. n + 1 -> Nodes]
      /\ \A a \in 0 .. n + 1 : e[a] = IF a = i THEN p[j] ELSE IF a = j THEN p[i] ELSE p[a]
  BY DEF Exchanged
<1>3. \A a \in 0 .. n : f[a] = IF a = jj THEN p[i] ELSE IF a < i THEN p[a] ELSE p[a + 1]
  OBVIOUS
<1> HIDE DEF g, e
<1>4. ASSUME NEW a \in 0 .. n + 1
      PROVE  g[a] = e[a]
  <2>1. CASE a < i
    BY <1>1, <1>2, <1>3, <2>1
  <2>2. CASE a = i
    BY <1>1, <1>2, <2>2
  <2>3. CASE a > i
    <3>1. /\ g[a] = f[a - 1] /\ a - 1 \in 0 .. n
          /\ (a - 1) + 1 = a /\ ~ (a - 1 < i) /\ (a - 1 = jj <=> a = j)
      BY <1>1, <2>3
    <3>2. f[a - 1] = IF a = j THEN p[i] ELSE p[a]
      BY <1>3, <3>1
    <3> QED
      BY <1>2, <2>3, <3>1, <3>2
  <2> QED
    BY <2>1, <2>2, <2>3
<1>5. g = e
  BY <1>1, <1>2, <1>4
<1> QED
  BY <1>5 DEF g, e

(* SwapListEntries exchanges the two, whatever lies between them.          *)
LEMMA RingSwap ==
    ASSUME NEW l, NEW n, NEW p, Ring(l, n, p), NEW i \in 1 .. n, NEW j \in 1 .. n, i # j
    PROVE  Ring(SwapListEntries(l, p[i], p[j]), n, Exchanged(n, p, i, j))
<1> DEFINE first == p[i]
           second == p[j]
           out == RemoveEntryList(l, first)
           c == Cut(n, p, i)
           over == InsertHeadList(out, second, first)
           jj == IF j < i THEN j ELSE j - 1
           d == Put(n - 1, c, jj, first)
           gone == RemoveEntryList(over, second)
           f == Cut(n, d, jj)
<1>1. /\ n \in Nat /\ p \in [0 .. n + 1 -> Nodes]
      /\ \A a, b \in 0 .. n : p[a] = p[b] => a = b
      /\ \A a \in 0 .. n : l.fwd[p[a]] = p[a + 1]
  BY DEF Ring
<1>2. i \in 0 .. n /\ j \in 0 .. n /\ n - 1 \in Nat /\ (n - 1) + 1 = n /\ jj \in 1 .. n - 1
  BY <1>1
<1>3. /\ first \in Nodes /\ second \in Nodes /\ first # second
      /\ l.fwd[first] = p[i + 1]
  BY <1>1, <1>2
<1>4. Ring(out, n - 1, c) /\ \A a \in 0 .. n - 1 : c[a] # first
  BY RingCut
<1>5. /\ \A a \in 0 .. i - 1 : c[a] = p[a]
      /\ \A a \in i .. n : c[a] = p[a + 1]
  BY <1>1, <1>2, SMTT(30) DEF Cut
<1>6. second = c[jj]
  BY <1>1, <1>2, <1>5
<1>7. out.back[p[i + 1]] = p[i - 1]
  <2>1. i - 1 \in 0 .. n - 1 /\ (i - 1) + 1 = i /\ i \in i .. n
    BY <1>1
  <2>2. out.back[c[i]] = c[i - 1]
    BY <1>4, <2>1 DEF Ring
  <2>3. c[i] = p[i + 1] /\ c[i - 1] = p[i - 1]
    BY <1>1, <1>5, <2>1
  <2> QED
    BY <2>2, <2>3
<1>8. CASE j = i - 1
  <2>1. SwapListEntries(l, first, second) = InsertTailList(out, second, first)
    BY <1>3, <1>7, <1>8 DEF SwapListEntries, GetPreviousNode
  <2>2. second = c[(j - 1) + 1] /\ j - 1 \in 0 .. n - 1
    BY <1>1, <1>6, <1>8
  <2>3. Ring(InsertTailList(out, second, first), n, Put(n - 1, c, j - 1, first))
    BY <1>2, <1>3, <1>4, <2>2, RingPut
  <2>4. Put(n - 1, c, j - 1, first) = Exchanged(n, p, i, j)
    BY <1>1, <1>5, <1>8 DEF Put, Exchanged
  <2> QED
    BY <2>1, <2>3, <2>4
<1>9. CASE j # i - 1
  <2>1. out.back[p[i + 1]] # second
    BY <1>1, <1>2, <1>7, <1>9
  <2>2. Ring(over, n, d)
    <3>1. jj \in 0 .. n - 1
      BY <1>2
    <3> QED
      BY <1>2, <1>3, <1>4, <1>6, <3>1, RingPut
  <2>3. CASE j = i + 1
    <3>1. SwapListEntries(l, first, second) = over
      BY <1>3, <2>1, <2>3 DEF SwapListEntries, GetPreviousNode
    <3>2. d = Exchanged(n, p, i, j)
      BY <1>1, <1>2, <1>5, <2>3 DEF Put, Exchanged
    <3> QED
      BY <2>2, <3>1, <3>2
  <2>4. CASE j # i + 1
    <3>1. p[i + 1] # second
      <4>1. CASE i + 1 \in 0 .. n
        BY <1>1, <1>2, <2>4, <4>1
      <4>2. CASE i = n
        <5>1. p[n + 1] = p[0] /\ j # 0
          BY <1>1 DEF Ring
        <5> QED
          BY <1>1, <1>2, <4>2, <5>1
      <4> QED
        BY <1>1, <4>1, <4>2
    <3>2. SwapListEntries(l, first, second) = InsertTailList(gone, p[i + 1], second)
      BY <1>3, <2>1, <3>1 DEF SwapListEntries, GetPreviousNode
    <3>3. /\ \A a \in 0 .. jj : d[a] = c[a]
          /\ d[jj + 1] = first
          /\ \A a \in jj + 2 .. n + 1 : d[a] = c[a - 1]
      BY <1>1, <1>2 DEF Put
    <3>4. second = d[jj] /\ jj \in 1 .. n
      BY <1>2, <1>6, <3>3
    <3>5. Ring(gone, n - 1, f) /\ \A a \in 0 .. n - 1 : f[a] # second
      BY <2>2, <3>4, RingCut
    <3>6. /\ \A a \in 0 .. jj - 1 : f[a] = d[a]
          /\ \A a \in jj .. n : f[a] = d[a + 1]
      BY <1>1, <1>2, SMTT(30) DEF Cut
    <3>7. \A a \in 0 .. n :
            f[a] = IF a = jj THEN first ELSE IF a < i THEN p[a] ELSE p[a + 1]
      <4> SUFFICES ASSUME NEW a \in 0 .. n
                   PROVE  f[a] = IF a = jj THEN first ELSE IF a < i THEN p[a] ELSE p[a + 1]
        OBVIOUS
      <4>1. CASE a < jj
        BY <1>1, <1>2, <1>5, <3>3, <3>6, <4>1, SMTT(30)
      <4>2. CASE a = jj
        BY <1>1, <1>2, <3>3, <3>6, <4>2, SMTT(30)
      <4>3. CASE a > jj
        <5>1. f[a] = d[a + 1] /\ d[a + 1] = c[a] /\ c[a] = IF a < i THEN p[a] ELSE p[a + 1]
          BY <1>1, <1>2, <1>5, <3>3, <3>6, <4>3, SMTT(30)
        <5> QED
          BY <4>3, <5>1, <1>2
      <4> QED
        BY <1>2, <4>1, <4>2, <4>3
    <3>8. i - 1 \in 0 .. n - 1 /\ f[(i - 1) + 1] = p[i + 1]
      BY <1>1, <1>2, <1>9, <2>4, <3>7
    <3>9. Ring(InsertTailList(gone, p[i + 1], second), n, Put(n - 1, f, i - 1, second))
      BY <1>2, <1>3, <3>5, <3>8, RingPut
    <3>10. Put(n - 1, f, i - 1, second) = Exchanged(n, p, i, j)
      <4>1. f \in [0 .. n -> Nodes]
        BY <1>2, <3>5 DEF Ring
      <4> HIDE DEF f
      <4>2. \A a \in 0 .. n : f[a] = IF a = (IF j < i THEN j ELSE j - 1) THEN p[i]
                                     ELSE IF a < i THEN p[a] ELSE p[a + 1]
        BY <3>7
      <4>3. /\ n \in Nat /\ p \in [0 .. n + 1 -> Nodes]
            /\ i # j /\ j # i - 1 /\ j # i + 1
        BY <1>1, <1>9, <2>4
      <4> QED
        BY <4>1, <4>2, <4>3, PutBack
    <3> QED
      BY <3>2, <3>9, <3>10
  <2> QED
    BY <2>3, <2>4
<1> QED
  BY <1>8, <1>9

----------------------------------------------------------------------------
(* The invariant: the links are a ring laid out as the order says.         *)

Laid(o) == [i \in 0 .. Len(o) + 1 |-> IF i \in 1 .. Len(o) THEN o[i] ELSE ListHead]

IInv == order \in Seq(Entries) /\ Ring(links, Len(order), Laid(order))

LEMMA LaidType ==
    ASSUME NEW o \in Seq(Entries)
    PROVE  /\ Len(o) \in Nat /\ DOMAIN o = 1 .. Len(o) /\ \A i \in 1 .. Len(o) : o[i] \in Entries
           /\ Laid(o) \in [0 .. Len(o) + 1 -> Nodes]
           /\ \A i \in 1 .. Len(o) : Laid(o)[i] = o[i]
           /\ Laid(o)[0] = ListHead /\ Laid(o)[Len(o) + 1] = ListHead
<1>1. Len(o) \in Nat /\ DOMAIN o = 1 .. Len(o) /\ \A i \in 1 .. Len(o) : o[i] \in Entries
  BY LenProperties, ElementOfSeq
<1> DEFINE n == Len(o)
<1> HIDE DEF n
<1>2. Laid(o) = [i \in 0 .. n + 1 |-> IF i \in 1 .. n THEN o[i] ELSE ListHead]
  BY DEF Laid, n
<1>3. n \in Nat /\ \A i \in 1 .. n : o[i] \in Nodes
  BY <1>1 DEF n, Nodes
<1>4. ListHead \in Nodes
  BY DEF Nodes
<1>5. Laid(o) \in [0 .. n + 1 -> Nodes]
  BY <1>2, <1>3, <1>4
<1>6. \A i \in 1 .. n : Laid(o)[i] = o[i]
  BY <1>2, <1>3
<1>7. Laid(o)[0] = ListHead /\ Laid(o)[n + 1] = ListHead
  BY <1>2, <1>3
<1> QED
  BY <1>1, <1>5, <1>6, <1>7 DEF n

(* A layout is known by its entries.                                       *)
LEMMA LaidIs ==
    ASSUME NEW n \in Nat, NEW q \in [0 .. n + 1 -> Nodes], NEW o \in Seq(Entries), Len(o) = n,
           q[0] = ListHead, q[n + 1] = ListHead, \A i \in 1 .. n : q[i] = o[i]
    PROVE  Laid(o) = q
<1>1. \A i \in 0 .. n + 1 : i = 0 \/ i = n + 1 \/ i \in 1 .. n
  OBVIOUS
<1>2. /\ Laid(o) \in [0 .. n + 1 -> Nodes]
      /\ \A i \in 1 .. n : Laid(o)[i] = o[i]
      /\ Laid(o)[0] = ListHead /\ Laid(o)[n + 1] = ListHead
  BY LaidType
<1>3. \A i \in 0 .. n + 1 : Laid(o)[i] = q[i]
  BY <1>1, <1>2
<1> QED
  BY <1>2, <1>3

LEMMA LaidHead ==
    ASSUME NEW o \in Seq(Entries), NEW e \in Entries
    PROVE  /\ <<e>> \o o \in Seq(Entries) /\ Len(<<e>> \o o) = Len(o) + 1
           /\ Laid(<<e>> \o o) = Put(Len(o), Laid(o), 0, e)
<1> DEFINE n == Len(o)
           t == <<e>> \o o
           p == Laid(o)
           q == Put(n, p, 0, e)
<1>1. t \in Seq(Entries) /\ Len(t) = n + 1
      /\ t[1] = e /\ \A i \in 2 .. n + 1 : t[i] = o[i - 1]
  OBVIOUS
<1>2. /\ n \in Nat /\ p \in [0 .. n + 1 -> Nodes] /\ e \in Nodes
      /\ \A i \in 1 .. n : p[i] = o[i]
      /\ p[0] = ListHead /\ p[n + 1] = ListHead
  BY LaidType DEF Nodes
<1> HIDE DEF t, n, p
<1>3. /\ q \in [0 .. n + 2 -> Nodes] /\ q[0] = p[0] /\ q[1] = e
      /\ \A i \in 2 .. n + 2 : q[i] = p[i - 1]
  BY <1>2 DEF Put
<1> HIDE DEF q
<1>4. ASSUME NEW i \in 1 .. n + 1
      PROVE  q[i] = t[i]
  <2>1. CASE i = 1
    BY <1>1, <1>3, <2>1
  <2>2. CASE i # 1
    <3>1. i - 1 \in 1 .. n /\ i \in 2 .. n + 1 /\ i \in 2 .. n + 2
      BY <1>2, <2>2
    <3> QED
      BY <1>1, <1>2, <1>3, <3>1
  <2> QED
    BY <2>1, <2>2
<1>5. Laid(t) = q
  <2>1. q[0] = ListHead /\ q[(n + 1) + 1] = ListHead /\ (n + 1) + 1 = n + 2 /\ n + 1 \in Nat
    BY <1>2, <1>3
  <2> QED
    BY <1>1, <1>3, <1>4, <2>1, LaidIs
<1> QED
  BY <1>1, <1>5 DEF t, n, p, q

LEMMA LaidTail ==
    ASSUME NEW o \in Seq(Entries), NEW e \in Entries
    PROVE  /\ o \o <<e>> \in Seq(Entries) /\ Len(o \o <<e>>) = Len(o) + 1
           /\ Laid(o \o <<e>>) = Put(Len(o), Laid(o), Len(o), e)
<1> DEFINE n == Len(o)
           t == o \o <<e>>
           p == Laid(o)
           q == Put(n, p, n, e)
<1>1. t \in Seq(Entries) /\ Len(t) = n + 1
      /\ t[n + 1] = e /\ \A i \in 1 .. n : t[i] = o[i]
  OBVIOUS
<1>2. /\ n \in Nat /\ p \in [0 .. n + 1 -> Nodes] /\ e \in Nodes
      /\ \A i \in 1 .. n : p[i] = o[i]
      /\ p[0] = ListHead /\ p[n + 1] = ListHead
  BY LaidType DEF Nodes
<1> HIDE DEF t, n, p
<1>3. /\ q \in [0 .. n + 2 -> Nodes] /\ q[n + 1] = e /\ q[n + 2] = p[n + 1]
      /\ \A i \in 0 .. n : q[i] = p[i]
  BY <1>2 DEF Put
<1> HIDE DEF q
<1>4. \A i \in 1 .. n + 1 : q[i] = t[i]
  BY <1>1, <1>2, <1>3
<1>5. Laid(t) = q
  <2>1. q[0] = ListHead /\ q[(n + 1) + 1] = ListHead /\ (n + 1) + 1 = n + 2 /\ n + 1 \in Nat
    BY <1>2, <1>3
  <2> QED
    BY <1>1, <1>3, <1>4, <2>1, LaidIs
<1> QED
  BY <1>1, <1>5 DEF t, n, p, q

LEMMA LaidCut ==
    ASSUME NEW o \in Seq(Entries), NEW k \in 1 .. Len(o)
    PROVE  LET t == SubSeq(o, 1, k - 1) \o SubSeq(o, k + 1, Len(o)) IN
           t \in Seq(Entries) /\ Len(t) = Len(o) - 1 /\ Laid(t) = Cut(Len(o), Laid(o), k)
<1> DEFINE n == Len(o)
           a == SubSeq(o, 1, k - 1)
           b == SubSeq(o, k + 1, n)
           t == a \o b
           p == Laid(o)
           q == Cut(n, p, k)
<1>1. /\ n \in Nat /\ p \in [0 .. n + 1 -> Nodes] /\ k \in 1 .. n
      /\ \A i \in 1 .. n : p[i] = o[i] /\ o[i] \in Entries
      /\ p[0] = ListHead /\ p[n + 1] = ListHead
  BY LaidType
<1> HIDE DEF n, p
<1>2. a \in Seq(Entries) /\ Len(a) = k - 1 /\ \A i \in 1 .. k - 1 : a[i] = o[i]
  BY <1>1, SubSeqProperties
<1>3. b \in Seq(Entries) /\ Len(b) = n - k /\ \A i \in 1 .. n - k : b[i] = o[i + k]
  <2>1. b \in Seq(Entries) /\ Len(b) = IF k + 1 <= n THEN n - (k + 1) + 1 ELSE 0
    BY <1>1, SubSeqProperties
  <2>2. \A i \in 1 .. n - k : b[i] = o[i + k]
    BY <1>1
  <2> QED
    BY <1>1, <2>1, <2>2
<1> HIDE DEF a, b
<1>4. t \in Seq(Entries) /\ Len(t) = n - 1
      /\ \A i \in 1 .. n - 1 : t[i] = IF i < k THEN o[i] ELSE o[i + 1]
  <2>1. /\ t \in Seq(Entries) /\ Len(t) = (k - 1) + (n - k)
        /\ \A i \in 1 .. (k - 1) + (n - k) : t[i] = IF i <= k - 1 THEN a[i] ELSE b[i - (k - 1)]
    <3>1. /\ t \in Seq(Entries) /\ Len(t) = Len(a) + Len(b)
          /\ \A i \in 1 .. Len(a) + Len(b) : t[i] = IF i <= Len(a) THEN a[i] ELSE b[i - Len(a)]
      BY <1>2, <1>3, ConcatProperties
    <3> QED
      BY <1>2, <1>3, <3>1
  <2>2. (k - 1) + (n - k) = n - 1
    BY <1>1
  <2>3. ASSUME NEW i \in 1 .. n - 1
        PROVE  t[i] = IF i < k THEN o[i] ELSE o[i + 1]
    <3>1. CASE i < k
      BY <1>1, <1>2, <2>1, <2>2, <3>1
    <3>2. CASE ~ (i < k)
      <4>1. i - (k - 1) \in 1 .. n - k /\ (i - (k - 1)) + k = i + 1
        BY <1>1, <3>2
      <4> QED
        <5>1. b[i - (k - 1)] = o[i + 1]
          BY <1>3, <4>1
        <5>2. t[i] = b[i - (k - 1)]
          BY <1>1, <2>1, <2>2, <3>2
        <5> QED
          BY <3>2, <5>1, <5>2
    <3> QED
      BY <3>1, <3>2
  <2> QED
    BY <2>1, <2>2, <2>3
<1> HIDE DEF t
<1>5. /\ q \in [0 .. n -> Nodes]
      /\ \A i \in 0 .. k - 1 : q[i] = p[i]
      /\ \A i \in k .. n : q[i] = p[i + 1]
  BY <1>1 DEF Cut
<1> HIDE DEF q
<1>6. ASSUME NEW i \in 1 .. n - 1
      PROVE  q[i] = t[i]
  <2>1. CASE i < k
    <3>1. i \in 0 .. k - 1 /\ i \in 1 .. n
      BY <1>1, <2>1
    <3> QED
      BY <1>1, <1>4, <1>5, <2>1, <3>1
  <2>2. CASE ~ (i < k)
    <3>1. i \in k .. n /\ i + 1 \in 1 .. n
      BY <1>1, <2>2
    <3> QED
      BY <1>1, <1>4, <1>5, <2>2, <3>1
  <2> QED
    BY <2>1, <2>2
<1>7. Laid(t) = q
  <2>1. q[0] = ListHead /\ q[(n - 1) + 1] = ListHead /\ (n - 1) + 1 = n /\ n - 1 \in Nat
    BY <1>1, <1>5
  <2> QED
    BY <1>4, <1>5, <1>6, <2>1, LaidIs
<1> QED
  BY <1>4, <1>7 DEF t, n, p, q, a, b

LEMMA LaidExchanged ==
    ASSUME NEW o \in Seq(Entries), NEW i \in 1 .. Len(o), NEW j \in 1 .. Len(o)
    PROVE  LET t == [o EXCEPT ![i] = o[j], ![j] = o[i]] IN
           t \in Seq(Entries) /\ Len(t) = Len(o) /\ Laid(t) = Exchanged(Len(o), Laid(o), i, j)
<1> DEFINE n == Len(o)
           t == [o EXCEPT ![i] = o[j], ![j] = o[i]]
           p == Laid(o)
           q == Exchanged(n, p, i, j)
<1>1. /\ n \in Nat /\ p \in [0 .. n + 1 -> Nodes] /\ i \in 1 .. n /\ j \in 1 .. n
      /\ \A k \in 1 .. n : p[k] = o[k]
      /\ p[0] = ListHead /\ p[n + 1] = ListHead
  BY LaidType
<1>2. t \in Seq(Entries) /\ Len(t) = n
      /\ \A k \in 1 .. n : t[k] = IF k = j THEN o[i] ELSE IF k = i THEN o[j] ELSE o[k]
  OBVIOUS
<1> HIDE DEF t, n, p
<1>3. /\ q \in [0 .. n + 1 -> Nodes]
      /\ \A k \in 0 .. n + 1 : q[k] = IF k = i THEN p[j] ELSE IF k = j THEN p[i] ELSE p[k]
  BY <1>1 DEF Exchanged
<1> HIDE DEF q
<1>4. \A k \in 1 .. n : q[k] = t[k]
  BY <1>1, <1>2, <1>3, SMTT(30)
<1>5. q[0] = ListHead /\ q[n + 1] = ListHead
  BY <1>1, <1>3
<1>6. Laid(t) = q
  BY <1>1, <1>2, <1>3, <1>4, <1>5, LaidIs
<1> QED
  BY <1>2, <1>6 DEF t, n, p, q

----------------------------------------------------------------------------
LEMMA IInvInit == Init => IInv
<1> SUFFICES ASSUME Init PROVE IInv
  OBVIOUS
<1>1. order = <<>> /\ order \in Seq(Entries) /\ Len(order) = 0
  BY DEF Init
<1>2. /\ links = [fwd |-> [[n \in Nodes |-> n] EXCEPT ![ListHead] = ListHead],
                  back |-> [[n \in Nodes |-> n] EXCEPT ![ListHead] = ListHead]]
      /\ ListHead \in Nodes
  BY DEF Init, InitializeListHead, Nodes
<1>3. links \in Links /\ links.fwd[ListHead] = ListHead /\ links.back[ListHead] = ListHead
  BY <1>2 DEF Links
<1>4. /\ Laid(order) \in [0 .. 0 + 1 -> Nodes]
      /\ Laid(order)[0] = ListHead /\ Laid(order)[0 + 1] = ListHead
  BY <1>1, LaidType
<1>5. Ring(links, 0, Laid(order))
  BY <1>3, <1>4 DEF Ring
<1> QED
  BY <1>1, <1>5 DEF IInv

LEMMA IInvNext == IInv /\ [Next]_vars => IInv'
<1> SUFFICES ASSUME IInv, [Next]_vars PROVE IInv'
  OBVIOUS
<1> DEFINE n == Len(order)
           p == Laid(order)
<1>1. order \in Seq(Entries) /\ Ring(links, n, p)
  BY DEF IInv
<1>2. /\ n \in Nat /\ DOMAIN order = 1 .. n
      /\ p[0] = ListHead /\ p[n + 1] = ListHead
      /\ \A i \in 1 .. n : p[i] = order[i] /\ order[i] \in Entries
  BY <1>1, LaidType
<1>3. (n + 1) - 1 = n /\ (n - 1) + 1 = n
  BY <1>2
<1>4. ASSUME NEW e \in Entries, e \notin Linked
      PROVE  e \in Nodes /\ \A i \in 0 .. n : p[i] # e
  BY <1>2, <1>4, HeadAssumption DEF Linked, Nodes
<1>5. ASSUME NEW e \in Entries, InsertHead(e)
      PROVE  IInv'
  <2>1. /\ e \notin Linked /\ links' = InsertHeadList(links, p[0], e)
        /\ order' = <<e>> \o order /\ 0 \in 0 .. n
    BY <1>2, <1>5 DEF InsertHead
  <2>2. Ring(links', n + 1, Put(n, p, 0, e))
    BY <1>1, <1>4, <2>1, RingPut
  <2> QED
    BY <1>1, <2>1, <2>2, LaidHead DEF IInv
<1>6. ASSUME NEW e \in Entries, InsertTail(e)
      PROVE  IInv'
  <2>1. /\ e \notin Linked /\ links' = InsertTailList(links, p[n + 1], e)
        /\ order' = order \o <<e>> /\ n \in 0 .. n
    BY <1>2, <1>6 DEF InsertTail
  <2>2. Ring(links', n + 1, Put(n, p, n, e))
    BY <1>1, <1>4, <2>1, RingPut
  <2> QED
    BY <1>1, <2>1, <2>2, LaidTail DEF IInv
<1>7. ASSUME NEW i \in DOMAIN order, TakeOut(i)
      PROVE  IInv'
  <2>1. /\ i \in 1 .. n /\ links' = RemoveEntryList(links, p[i])
        /\ order' = SubSeq(order, 1, i - 1) \o SubSeq(order, i + 1, Len(order))
    BY <1>2, <1>7 DEF TakeOut
  <2>2. Ring(links', n - 1, Cut(n, p, i))
    BY <1>1, <2>1, RingCut
  <2> QED
    BY <1>1, <2>1, <2>2, LaidCut DEF IInv
<1>8. ASSUME NEW i \in DOMAIN order, NEW j \in DOMAIN order, Swap(i, j)
      PROVE  IInv'
  <2>1. /\ i \in 1 .. n /\ j \in 1 .. n /\ links' = SwapListEntries(links, p[i], p[j])
        /\ order' = [order EXCEPT ![i] = order[j], ![j] = order[i]]
    BY <1>2, <1>8 DEF Swap
  <2>2. CASE i = j
    <3>1. links' = links
      BY <2>1, <2>2 DEF SwapListEntries
    <3>2. order' = order
      BY <1>1, <2>1, <2>2
    <3> QED
      BY <1>1, <3>1, <3>2 DEF IInv
  <2>3. CASE i # j
    <3>1. Ring(links', n, Exchanged(n, p, i, j))
      BY <1>1, <2>1, <2>3, RingSwap
    <3> QED
      BY <1>1, <2>1, <3>1, LaidExchanged DEF IInv
  <2> QED
    BY <2>2, <2>3
<1>9. CASE UNCHANGED vars
  BY <1>9 DEF IInv, vars
<1> QED
  BY <1>5, <1>6, <1>7, <1>8, <1>9 DEF Next

LEMMA IInvImplies == IInv => LinksFollowOrder
<1> SUFFICES ASSUME IInv, NEW i \in 0 .. Len(order)
             PROVE  links.fwd[At(i)] = At(i + 1) /\ links.back[At(i + 1)] = At(i)
  BY DEF LinksFollowOrder
<1>1. order \in Seq(Entries) /\ Len(order) \in Nat /\ DOMAIN order = 1 .. Len(order)
  BY LaidType DEF IInv
<1>2. Laid(order)[i] = At(i) /\ Laid(order)[i + 1] = At(i + 1)
  BY <1>1 DEF Laid, At
<1>3. \A k \in 0 .. Len(order) :
        /\ links.fwd[Laid(order)[k]] = Laid(order)[k + 1]
        /\ links.back[Laid(order)[k + 1]] = Laid(order)[k]
  BY DEF IInv, Ring
<1> QED
  BY <1>2, <1>3

(* However many entries there are, and however often they are put in,      *)
(* taken out and exchanged, the links of efilink.c lead through them in    *)
(* the order asked for, forwards and backwards.                            *)
THEOREM LinksFollow == Spec => []LinksFollowOrder
<1>1. Spec => []IInv
  BY IInvInit, IInvNext, PTL DEF Spec
<1> QED
  BY <1>1, IInvImplies, PTL
=============================================================================
