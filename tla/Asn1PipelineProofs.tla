------------------------- MODULE Asn1PipelineProofs -------------------------
(***************************************************************************)
(* Theorems about Asn1Pipeline, for every set of grammars with any texts,  *)
(* and any documents: asn1_compiler keeps its types; its second pass does  *)
(* what its first did; the bytecode it writes is laid out as the decoder   *)
(* relies on; and the decoder, linked with that bytecode, runs it from     *)
(* instruction to instruction.                                             *)
(***************************************************************************)
EXTENDS Asn1Pipeline, Asn1DecoderProofs, FiniteSetTheorems, WellFoundedInduction,
        SequenceTheorems

(* Of naturals with a property there is a least.                           *)
LEMMA LeastElement ==
    ASSUME NEW S \in SUBSET Nat, S # {}
    PROVE  \E n \in S : \A m \in S : n <= m
<1>1. PICK less : IsWellFoundedOn(less, Nat) /\ \A m, n \in Nat : <<m, n>> \in less <=> m < n
  <2> DEFINE less == OpToRel(<, Nat)
  <2>1. IsWellFoundedOn(less, Nat)
    BY NatLessThanWellFounded
  <2>2. \A m, n \in Nat : <<m, n>> \in less <=> m < n
    BY DEF OpToRel
  <2> HIDE DEF less
  <2> QED
    BY <2>1, <2>2
<1>2. IsWellFoundedOn(less, Nat) /\ S \subseteq Nat
  BY <1>1
<1>3. PICK n \in S : \A m \in S : ~ (<<m, n>> \in less)
  <2>1. \E x \in S : \A y \in S : ~ (<<y, x>> \in less)
    BY <1>2, WFMin, Zenon
  <2> QED
    BY <2>1
<1>4. \A m \in S : ~ (m < n)
  BY <1>1, <1>2, <1>3
<1> QED
  BY <1>2, <1>3, <1>4

(* Of the numbers of a finite set one is the t-th.                         *)
LEMMA NthElement ==
    ASSUME NEW N \in Nat, NEW S \in SUBSET (1 .. N), NEW t \in 1 .. Cardinality(S)
    PROVE  \E n \in S : Cardinality({m \in S : m <= n}) = t
<1> DEFINE upTo(n) == {m \in S : m <= n}
           T == {n \in Nat : Cardinality(upTo(n)) >= t}
<1>a. \A m \in S : m \in Nat /\ 1 <= m /\ m <= N
  OBVIOUS
<1>1. \A n \in Nat : IsFiniteSet(upTo(n)) /\ Cardinality(upTo(n)) \in Nat
  <2>1. IsFiniteSet(1 .. N)
    BY FS_Interval
  <2>2. \A n \in Nat : upTo(n) \in SUBSET (1 .. N)
    BY <1>a
  <2>3. \A n \in Nat : IsFiniteSet(upTo(n))
    BY <2>1, <2>2, FS_Subset
  <2> QED
    BY <2>3, FS_CardinalityType
<1>2. upTo(N) = S
  <2>1. \A m \in S : m \in upTo(N)
    BY <1>a
  <2> QED
    BY <2>1
<1>3. Cardinality(S) \in Nat
  BY <1>1, <1>2
<1>4. N \in T
  BY <1>2, <1>3
<1>5. PICK n \in T : \A m \in T : n <= m
  <2>1. T \in SUBSET Nat /\ T # {}
    BY <1>4
  <2> HIDE DEF T
  <2> QED
    BY <2>1, LeastElement
<1>b. \A m : m \in T <=> m \in Nat /\ Cardinality(upTo(m)) >= t
  OBVIOUS
<1>6. n # 0
  <2>1. upTo(0) = {}
    <3>1. \A m \in S : ~(m <= 0)
      BY <1>a
    <3> QED
      BY <3>1
  <2>2. Cardinality(upTo(0)) = 0
    BY <2>1, FS_EmptySet, Zenon
  <2>3. t >= 1
    BY <1>3
  <2> HIDE DEF T, upTo
  <2> QED
    BY <1>b, <1>5, <2>2, <2>3
<1>7. n - 1 \in Nat /\ ~(Cardinality(upTo(n - 1)) >= t)
  <2> HIDE DEF T, upTo
  <2>1. n \in Nat /\ n - 1 \in Nat
    BY <1>b, <1>5, <1>6
  <2>2. n - 1 \notin T
    BY <1>5, <2>1
  <2> QED
    BY <1>b, <2>1, <2>2
<1>8. n \in S
  <2> SUFFICES ASSUME n \notin S PROVE FALSE
    OBVIOUS
  <2>1. \A m \in S : m <= n <=> m <= n - 1
    BY <1>a, <1>7
  <2>2. upTo(n) = upTo(n - 1)
    BY <2>1
  <2> QED
    BY <1>5, <1>7, <2>2
<1>9. upTo(n) = upTo(n - 1) \cup {n} /\ n \notin upTo(n - 1)
  <2>1. \A m \in S : m <= n <=> m <= n - 1 \/ m = n
    BY <1>a, <1>7
  <2> QED
    BY <1>7, <1>8, <2>1
<1>11. Cardinality(upTo(n)) = t
  <2>1. n \in Nat /\ t \in Nat /\ Cardinality(upTo(n)) >= t
    BY <1>3, <1>5
  <2> HIDE DEF upTo
  <2>2. Cardinality(upTo(n)) = Cardinality(upTo(n - 1)) + 1
    BY <1>1, <1>7, <1>9, FS_AddElement
  <2> QED
    BY <1>1, <1>7, <2>1, <2>2
<1> QED
  BY <1>8, <1>11

----------------------------------------------------------------------------
(* Words.                                                                  *)

(* The compiler's module counts as this one does.                          *)
LEMMA SameCount == \A S : C!Cardinality(S) = Cardinality(S)
  BY Zenon DEF C!Cardinality, Cardinality

(* No directive and no mark is called as the kinds of the other tokens are. *)
LEMMA KindWords == {"NUMBER", "ELEMENT_NAME"} \cap (C!Directives \cup C!Marks) = {}
<1>1. "NUMBER" \notin C!DirectiveWords
  BY SMTT(20) DEF C!DirectiveWords
<1>2. "ELEMENT_NAME" \notin C!DirectiveWords
  BY SMTT(20) DEF C!DirectiveWords
<1>3. "NUMBER" \notin C!Marks /\ "ELEMENT_NAME" \notin C!Marks
  BY DEF C!Marks
<1>4. C!Directives \subseteq C!DirectiveWords
  BY Zenon DEF C!Directives
<1> QED
  BY <1>1, <1>2, <1>3, <1>4, Zenon

LEMMA NumberWord ==
    ASSUME NEW s, C!TypeOf(s) = "NUMBER"
    PROVE  NumberOf[s] % 256 \in 0 .. 255
<1>1. "NUMBER" \notin C!Directives \cup C!Marks
  BY KindWords
<1>2. s \in DOMAIN NumberOf
  BY <1>1 DEF C!TypeOf
<1>3. NumberOf[s] \in Nat
  BY <1>2, GrammarsAssumption
<1> DEFINE n == NumberOf[s]
<1> HIDE DEF n
<1>4. n \in Nat => n % 256 \in 0 .. 255
  OBVIOUS
<1> QED
  BY <1>3, <1>4 DEF n

LEMMA NameWord ==
    ASSUME NEW s, C!TypeOf(s) = "ELEMENT_NAME"
    PROVE  s \in C!ToSet(Lowercase)
<1>1. "ELEMENT_NAME" \notin C!Directives \cup C!Marks
  BY KindWords
<1> QED
  BY <1>1 DEF C!TypeOf

LEMMA TagOfWord == ASSUME NEW word PROVE C!token_to_tag(word) \in 0 .. 30
BY DEF C!token_to_tag, C!TagTable

LEMMA ClassOfWord == ASSUME NEW word PROVE C!ClassOf(word) \in 0 .. 3
BY DEF C!ClassOf

LEMMA LowercaseFinite ==
    /\ IsFiniteSet(C!ToSet(Lowercase))
    /\ Cardinality(C!ToSet(Lowercase)) <= Len(Lowercase)
<1>1. Lowercase \in [1 .. Len(Lowercase) -> STRING] /\ Len(Lowercase) \in Nat
  BY GrammarsAssumption
<1>2. C!ToSet(Lowercase) = {Lowercase[i] : i \in 1 .. Len(Lowercase)}
  BY <1>1 DEF C!ToSet
<1>3. Lowercase \in Surjection(1 .. Len(Lowercase), C!ToSet(Lowercase))
  BY <1>1, <1>2 DEF Surjection
<1> QED
  BY <1>1, <1>3, FS_Interval, FS_Surjection

----------------------------------------------------------------------------
(* Types.                                                                  *)

(* Where the first "--" is.                                                *)
LEMMA FirstOf ==
    ASSUME NEW k \in Nat, C!DashesFrom(k) # {}
    PROVE  /\ C!First(C!DashesFrom(k)) \in k .. Len(line) - 1
           /\ C!First(C!DashesFrom(k)) \in C!DashesFrom(k)
           /\ \A j \in C!DashesFrom(k) : C!First(C!DashesFrom(k)) <= j
<1>1. C!DashesFrom(k) \subseteq k .. Len(line) - 1
  BY DEF C!DashesFrom
<1>2. C!DashesFrom(k) \in SUBSET Nat
  BY <1>1
<1>3. \E j \in C!DashesFrom(k) : \A i \in C!DashesFrom(k) : j <= i
  BY <1>2, LeastElement
<1> QED
  BY <1>1, <1>3 DEF C!First

(* What is allocated stays so.                                             *)
LEMMA SetsGrow ==
    ASSUME NEW n \in Nat, NEW m \in Nat, n <= m, NEW t \in Nat, NEW u \in Nat, t <= u
    PROVE  /\ C!ElementSet(n, t) \subseteq C!ElementSet(m, u)
           /\ C!TypeSet(n) \subseteq C!TypeSet(m)
           /\ C!FrameSet(n) \subseteq C!FrameSet(m)
<1>1. 1 .. n \subseteq 1 .. m /\ 0 .. n \subseteq 0 .. m /\ 0 .. t \subseteq 0 .. u
  OBVIOUS
<1>2. Seq(1 .. n) \subseteq Seq(1 .. m)
  BY <1>1
<1>3. C!ElementSet(n, t) \subseteq C!ElementSet(m, u)
  BY <1>1, <1>2, Zenon DEF C!ElementSet
<1>4. C!TypeSet(n) \subseteq C!TypeSet(m)
  BY <1>1, Zenon DEF C!TypeSet
<1>5. C!FrameSet(n) \subseteq C!FrameSet(m)
  BY <1>1, Zenon DEF C!FrameSet
<1> QED
  BY <1>3, <1>4, <1>5

LEMMA InitType == C!Init => C!TypeOK
<1> SUFFICES ASSUME C!Init PROVE C!TypeOK
  OBVIOUS
<1>1. C!ScannerOK /\ grammar \in Grammars /\ stage \in C!Stages
  BY GrammarsAssumption DEF C!Init, C!ScannerOK, C!Stages
<1>2. C!ElementsOK
  BY DEF C!Init, C!ElementsOK
<1>3. C!ParserOK
  BY DEF C!Init, C!ParserOK, C!InDefinition
<1>4. C!RendererOK
  BY DEF C!Init, C!RendererOK
<1> QED
  BY <1>1, <1>2, <1>3, <1>4 DEF C!TypeOK

LEMMA RefuseType == C!TypeOK /\ C!Refuse => C!TypeOK'
BY DEF C!TypeOK, C!Refuse, C!ScannerOK, C!ElementsOK, C!ParserOK, C!RendererOK, C!scanner,
       C!parser, C!renderer,
       C!Stages, C!Ends, C!InDefinition

(* As long as nothing is rendered there is nothing to be rendered.         *)
LEMMA NotRendering ==
    ASSUME C!TypeOK, stage \notin {"render", "refused", "crashed", "done"}, UNCHANGED C!renderer,
           stage' \notin {"render", "done"}
    PROVE  C!RendererOK'
BY DEF C!TypeOK, C!RendererOK, C!renderer

LEMMA TokeniseType == C!TypeOK /\ C!Tokenise => C!TypeOK'
<1> SUFFICES ASSUME C!TypeOK, C!Tokenise PROVE C!TypeOK'
  OBVIOUS
<1>1. CASE C!Refuse
  BY <1>1, RefuseType
<1>2. CASE ~C!Refuse
  <2>1. /\ stage \in {"line", "comment", "scan"} /\ stage' \in {"line", "comment", "scan"}
        /\ UNCHANGED <<grammar, C!parser, C!renderer>>
    BY <1>2 DEF C!Tokenise, C!TakeLine, C!NoComment, C!CutComment, C!ExciseComment, C!ScanSymbol,
                C!EndOfLine,
                C!Scanned
  <2>2. C!ScannerOK'
    <3> USE DEF C!TypeOK, C!ScannerOK
    <3>1. CASE C!TakeLine
      BY <3>1 DEF C!TakeLine
    <3>2. CASE C!NoComment \/ C!EndOfLine
      BY <3>2 DEF C!NoComment, C!EndOfLine, C!scanner
    <3>3. CASE C!CutComment
      <4> DEFINE p == C!First(C!DashesFrom(from))
      <4>1. p \in from .. Len(line) - 1
        BY <3>3, FirstOf DEF C!CutComment
      <4>2. SubSeq(line, 1, p - 1) \in Seq(STRING)
        BY <4>1
      <4> QED
        BY <3>3, <4>2 DEF C!CutComment
    <3>4. CASE C!ExciseComment
      <4> DEFINE p == C!First(C!DashesFrom(from))
                 r == C!First(C!DashesFrom(p + 2))
      <4>1. p \in from .. Len(line) - 1 /\ p \in Nat /\ p > 0
        BY <3>4, FirstOf DEF C!ExciseComment
      <4>2. r \in p + 2 .. Len(line) - 1 /\ r \in Nat
        <5>1. C!DashesFrom(p + 2) # {} /\ p + 2 \in Nat
          BY <3>4, <4>1 DEF C!ExciseComment
        <5> HIDE DEF p
        <5>2. r \in p + 2 .. Len(line) - 1
          BY <5>1, FirstOf
        <5> QED
          BY <5>1, <5>2
      <4> HIDE DEF p, r
      <4>3. line' = [k \in DOMAIN line |->
                      IF k >= p /\ k + (r + 2) - p <= Len(line) THEN line[k + (r + 2) - p]
                      ELSE line[k]]
        BY <3>4 DEF C!ExciseComment, p, r
      <4>4. line' \in Seq(STRING)
        <5>1. DOMAIN line = 1 .. Len(line) /\ Len(line) \in Nat
          OBVIOUS
        <5>2. ASSUME NEW k \in 1 .. Len(line)
              PROVE  (IF k >= p /\ k + (r + 2) - p <= Len(line) THEN line[k + (r + 2) - p]
                      ELSE line[k]) \in STRING
          <6>1. k >= p /\ k + (r + 2) - p <= Len(line) => k + (r + 2) - p \in 1 .. Len(line)
            BY <4>1, <4>2
          <6> QED
            BY <5>1, <6>1
        <5> HIDE DEF C!TypeOK, C!ScannerOK
        <5> QED
          BY <4>3, <5>1, <5>2
      <4>5. from' = p /\ UNCHANGED <<lines, tokens>>
        BY <3>4 DEF C!ExciseComment, p
      <4> QED
        BY <4>1, <4>4, <4>5
    <3>5. CASE C!ScanSymbol
      <4>1. line \in Seq(STRING) /\ line # <<>>
        BY <3>5 DEF C!ScanSymbol
      <4>2. Head(line) \in STRING /\ Tail(line) \in Seq(STRING)
        BY <4>1, HeadTailProperties, Zenon
      <4>3. UNCHANGED <<lines, from>> /\ line' = Tail(line)
              /\ (tokens' = tokens \/ tokens' = Append(tokens, Head(line)))
        BY <1>2, <3>5 DEF C!ScanSymbol
      <4>4. Append(tokens, Head(line)) \in Seq(STRING)
        BY <4>2, AppendProperties, Zenon
      <4>5. tokens' \in Seq(STRING)
        BY <4>3, <4>4, Zenon
      <4> QED
        BY <4>2, <4>3, <4>5, Zenon
    <3> QED
      BY <3>1, <3>2, <3>3, <3>4, <3>5 DEF C!Tokenise
  <2>3. C!RendererOK'
    BY <2>1, NotRendering
  <2>4. C!ElementsOK' /\ C!ParserOK'
    BY <2>1 DEF C!TypeOK, C!ElementsOK, C!ParserOK, C!parser, C!InDefinition
  <2> QED
    BY <2>1, <2>2, <2>3, <2>4 DEF C!TypeOK, C!Stages
<1> QED
  BY <1>1, <1>2

----------------------------------------------------------------------------
(* The parser.                                                             *)

ElementsFit(es, t) ==
    /\ es \in Seq(C!ElementSet(Len(es), t))
    /\ \A e \in DOMAIN es : C!Complete(es[e])

LEMMA FitMore ==
    ASSUME NEW es, NEW t \in Nat, ElementsFit(es, t), NEW more,
           more \in Seq(C!ElementSet(Len(es) + Len(more), t)),
           \A e \in DOMAIN more : C!Complete(more[e])
    PROVE  ElementsFit(es \o more, t) /\ Len(es \o more) = Len(es) + Len(more)
<1>1. Len(es) \in Nat /\ Len(more) \in Nat
  BY DEF ElementsFit
<1> DEFINE n == Len(es) + Len(more)
<1>2. C!ElementSet(Len(es), t) \subseteq C!ElementSet(n, t)
  BY <1>1, SetsGrow
<1> HIDE DEF n
<1>3. es \in Seq(C!ElementSet(n, t)) /\ more \in Seq(C!ElementSet(n, t))
  BY <1>2, SeqMonotonic DEF ElementsFit, n
<1>4. /\ es \o more \in Seq(C!ElementSet(n, t))
      /\ Len(es \o more) = n
      /\ \A i \in 1 .. n : (es \o more)[i] = IF i <= Len(es) THEN es[i] ELSE more[i - Len(es)]
  BY <1>3, ConcatProperties DEF n
<1>5. ASSUME NEW i \in DOMAIN (es \o more)
      PROVE  (i \in DOMAIN es /\ (es \o more)[i] = es[i])
               \/ \E j \in DOMAIN more : (es \o more)[i] = more[j]
  <2>1. DOMAIN (es \o more) = 1 .. n /\ DOMAIN es = 1 .. Len(es) /\ DOMAIN more = 1 .. Len(more)
    BY <1>3, <1>4, LenProperties
  <2>2. CASE i <= Len(es)
    BY <1>1, <1>4, <2>1, <2>2
  <2>3. CASE i > Len(es)
    <3>1. i - Len(es) \in DOMAIN more
      BY <1>1, <2>1, <2>3 DEF n
    <3> QED
      BY <1>1, <1>4, <2>1, <2>3, <3>1
  <2> QED
    BY <1>1, <2>1, <2>2, <2>3 DEF n
<1>6. ASSUME NEW i \in DOMAIN (es \o more)
      PROVE  C!Complete((es \o more)[i])
  BY <1>5, Zenon DEF ElementsFit
<1> QED
  BY <1>4, <1>6 DEF ElementsFit, n

(* A new element, and one with a field changed.                            *)
LEMMA ElementMade ==
    ASSUME NEW n \in Nat, NEW t \in Nat, NEW compound \in C!Compounds, NEW class \in 0 .. 3,
           NEW built \in BOOLEAN, NEW label \in C!Octet
    PROVE  C!Element(compound, class, built, label) \in C!ElementSet(n, t)
<1>1. <<>> \in Seq(1 .. n) /\ 0 \in 0 .. t
  OBVIOUS
<1> QED
  BY <1>1, Zenon DEF C!Element, C!ElementSet

LEMMA ElementFields ==
    ASSUME NEW compound, NEW class, NEW built, NEW label
    PROVE  /\ C!Element(compound, class, built, label).compound = compound
           /\ C!Element(compound, class, built, label).cond = FALSE
BY DEF C!Element

LEMMA ElementChanged ==
    ASSUME NEW n, NEW t, NEW e \in C!ElementSet(n, t)
    PROVE  /\ \A ref \in 0 .. t : [e EXCEPT !.ref = ref] \in C!ElementSet(n, t)
           /\ \A c \in Seq(1 .. n) :
                /\ [e EXCEPT !.children = c] \in C!ElementSet(n, t)
                /\ [e EXCEPT !.children = c].compound = e.compound
                /\ [e EXCEPT !.children = c].cond = e.cond
                /\ [e EXCEPT !.children = c].children = c
BY DEF C!ElementSet

(* A type is allocated, with its label.                                    *)
LEMMA AllocateType ==
    ASSUME C!TypeOK, C!LabelFits, NEW compound \in C!Compounds \ {"TAG_OVERRIDE"},
           NEW ref \in 0 .. Len(types), compound = "TYPE_REF" => ref # 0,
           C!Allocate(compound, ref)
    PROVE  /\ ElementsFit(elements', Len(types))
           /\ Len(elements') \in Nat /\ Len(elements) <= Len(elements')
           /\ top' \in 1 .. Len(elements') /\ inner' \in 1 .. Len(elements')
<1>1. ElementsFit(elements, Len(types)) /\ Len(elements) \in Nat /\ Len(types) \in Nat
  BY DEF C!TypeOK, C!ElementsOK, C!ParserOK, ElementsFit
<1> DEFINE n == Len(elements)
           word == C!At(C!TypeAt)
           own == C!token_to_tag(C!At(IF C!Labelled THEN C!TypeAt ELSE cursor))
           plain == [C!Element(compound, 0, C!IsConstructed(word), own) EXCEPT !.ref = ref]
           label == [C!Element(IF C!Implicit THEN "TAG_OVERRIDE" ELSE "SEQUENCE",
                             C!ClassOf(tokens[cursor + 1]), ~C!Implicit, NumberOf[tokens[C!NumberAt]] % 256)
                       EXCEPT !.children = <<n + 2>>]
<1>2. ASSUME NEW m \in Nat PROVE plain \in C!ElementSet(m, Len(types))
  <2>1. C!IsConstructed(word) \in BOOLEAN /\ own \in C!Octet
    <3>1. own \in 0 .. 30
      BY TagOfWord
    <3> HIDE DEF own
    <3> QED BY <3>1 DEF C!IsConstructed, C!Octet
  <2>2. 0 \in 0 .. 3 /\ compound \in C!Compounds
    OBVIOUS
  <2>3. C!Element(compound, 0, C!IsConstructed(word), own) \in C!ElementSet(m, Len(types))
    BY <1>1, <2>1, <2>2, ElementMade, Zenon
  <2> QED
    BY <2>3, ElementChanged, Zenon
<1>3. C!Complete(plain)
  BY DEF C!Element, C!Complete
<1>4. CASE C!Labelled
  <2>1. NumberOf[tokens[C!NumberAt]] % 256 \in 0 .. 255
    <3>1. C!At(C!NumberAt) = "NUMBER"
      BY <1>4 DEF C!LabelFits
    <3>2. C!TypeOf(tokens[C!NumberAt]) = "NUMBER"
      BY <3>1 DEF C!At
    <3> QED
      BY <3>2, NumberWord
  <2>2. label \in C!ElementSet(n + 2, Len(types)) /\ C!Complete(label)
    <3>2. <<n + 2>> \in Seq(1 .. n + 2) /\ <<n + 2>> # <<>> /\ n + 2 \in Nat
      BY <1>1
    <3> DEFINE kind == IF C!Implicit THEN "TAG_OVERRIDE" ELSE "SEQUENCE"
               class == C!ClassOf(tokens[cursor + 1])
               built == ~C!Implicit
               number == NumberOf[tokens[C!NumberAt]] % 256
               base == C!Element(kind, class, built, number)
    <3>4. kind \in C!Compounds /\ kind # "TYPE_REF"
      BY DEF C!Compounds
    <3>1. built \in BOOLEAN /\ class \in 0 .. 3 /\ number \in C!Octet
      BY <2>1, ClassOfWord DEF C!Octet
    <3> HIDE DEF n, kind, class, built, number, base
    <3>5. base \in C!ElementSet(n + 2, Len(types)) /\ base.compound = kind /\ base.cond = FALSE
      <4>1. C!Element(kind, class, built, number) \in C!ElementSet(n + 2, Len(types))
        BY <1>1, <3>1, <3>2, <3>4, ElementMade, Zenon
      <4>2. base.compound = kind
        BY DEF base, C!Element
      <4>3. base.cond = FALSE
        BY DEF base, C!Element
      <4>4. base \in C!ElementSet(n + 2, Len(types))
        BY <4>1 DEF base
      <4> QED
        BY <4>2, <4>3, <4>4
    <3>6. label = [base EXCEPT !.children = <<n + 2>>]
      BY DEF base, kind, class, built, number, n
    <3>7. label \in C!ElementSet(n + 2, Len(types)) /\ label.compound = kind /\ label.cond = FALSE
            /\ label.children = <<n + 2>>
      <4>1. \A c \in Seq(1 .. n + 2) :
              /\ [base EXCEPT !.children = c] \in C!ElementSet(n + 2, Len(types))
              /\ [base EXCEPT !.children = c].compound = base.compound
              /\ [base EXCEPT !.children = c].cond = base.cond
              /\ [base EXCEPT !.children = c].children = c
        BY <3>5, ElementChanged
      <4> HIDE DEF label
      <4> QED
        BY <3>2, <3>5, <3>6, <4>1, Zenon
    <3> QED
      BY <3>2, <3>4, <3>7 DEF C!Complete
  <2> HIDE DEF label, plain
  <2>3. elements' = elements \o <<label, plain>> /\ top' = n + 1 /\ inner' = n + 2
    BY <1>4, Zenon DEF C!Allocate, label, plain, word
  <2> DEFINE more == <<label, plain>>
  <2>4. more \in Seq(C!ElementSet(n + 2, Len(types))) /\ Len(more) = 2
    BY <1>1, <1>2, <2>2
  <2>5. \A e \in DOMAIN more : C!Complete(more[e])
    BY <1>3, <2>2
  <2> HIDE DEF more
  <2>6. more \in Seq(C!ElementSet(Len(elements) + Len(more), Len(types)))
    BY <1>1, <2>4
  <2>7. ElementsFit(elements \o more, Len(types)) /\ Len(elements \o more) = n + 2
    BY <1>1, <2>4, <2>5, <2>6, FitMore
  <2> QED
    BY <1>1, <2>3, <2>7 DEF more
<1>5. CASE ~C!Labelled
  <2> HIDE DEF plain
  <2>1. elements' = Append(elements, plain) /\ top' = n + 1 /\ inner' = n + 1
    BY <1>5, Zenon DEF C!Allocate, plain, word
  <2>2. elements' = elements \o <<plain>>
    BY <1>1, <1>2, <2>1, AppendIsConcat DEF ElementsFit
  <2> DEFINE more == <<plain>>
  <2>3. more \in Seq(C!ElementSet(n + 1, Len(types))) /\ Len(more) = 1
    BY <1>1, <1>2
  <2>4. \A e \in DOMAIN more : C!Complete(more[e])
    BY <1>3
  <2> HIDE DEF more
  <2>5. more \in Seq(C!ElementSet(Len(elements) + Len(more), Len(types)))
    BY <1>1, <2>3
  <2>6. ElementsFit(elements \o more, Len(types)) /\ Len(elements \o more) = n + 1
    BY <1>1, <2>3, <2>4, <2>5, FitMore
  <2> QED
    BY <1>1, <2>1, <2>2, <2>6 DEF more
<1> QED
  BY <1>4, <1>5

(* The rest of the program is not touched by a step of the parser.         *)
LEMMA ParsedType ==
    ASSUME C!TypeOK, C!Parsed, stage \in C!InDefinition \cup {"define"},
           stage' \in C!InDefinition \cup {"define"}, ElementsFit(elements', Len(types')), C!ParserOK'
    PROVE  C!TypeOK'
<1>1. C!RendererOK'
  BY NotRendering DEF C!Parsed, C!InDefinition
<1>2. C!ElementsOK'
  BY DEF ElementsFit, C!ElementsOK
<1> QED
  BY <1>1, <1>2 DEF C!TypeOK, C!Parsed, C!scanner, C!ScannerOK, C!Stages, C!InDefinition

LEMMA BuildTypeListType == C!TypeOK /\ C!BuildTypeList => C!TypeOK'
<1> SUFFICES ASSUME C!TypeOK, C!BuildTypeList PROVE C!TypeOK'
  OBVIOUS
<1>1. /\ stage = "line" /\ types = <<>> /\ elements = <<>> /\ frames \in Seq(C!FrameSet(0))
      /\ stage' \in {"crashed", "refused", "define"}
      /\ UNCHANGED <<grammar, C!scanner, defining, cursor, frames, top, inner, elements, actions,
                     C!renderer>>
  BY DEF C!BuildTypeList, C!TypeOK, C!ParserOK
<1>2. types' \in Seq(C!TypeSet(0)) /\ (stage' = "define" => types' # <<>>)
  <2>1. CASE tokens = <<>> \/ C!Definitions = {}
    <3>1. types' = <<>> /\ stage' # "define"
      BY <1>1, <2>1 DEF C!BuildTypeList
    <3> QED
      BY <3>1
  <2>2. CASE tokens # <<>> /\ C!Definitions # {}
    <3> DEFINE n == Cardinality(C!Definitions)
    <3>1. Len(tokens) - 1 \in Nat /\ C!Definitions \in SUBSET (1 .. Len(tokens) - 1)
      BY <2>2 DEF C!TypeOK, C!ScannerOK, C!Definitions
    <3>2. IsFiniteSet(C!Definitions) /\ n \in Nat /\ n # 0
      <4>1. IsFiniteSet(1 .. Len(tokens) - 1)
        BY <3>1, FS_Interval
      <4>2. IsFiniteSet(C!Definitions)
        BY <3>1, <4>1, FS_Subset
      <4> QED
        BY <2>2, <4>2, FS_CardinalityType, FS_EmptySet
    <3>3. ASSUME NEW t \in 1 .. n PROVE C!Place(t) \in Nat
      <4>1. \E k \in C!Definitions : Cardinality({m \in C!Definitions : m <= k}) = t
        BY <3>1, NthElement
      <4>2. C!Place(t) \in C!Definitions
        BY <4>1, SameCount DEF C!Place
      <4>3. C!Place(t) \in 1 .. Len(tokens) - 1
        BY <3>1, <4>2
      <4> QED
        BY <4>3
    <3> HIDE DEF n
    <3>4. types' = [t \in 1 .. n |-> [at |-> C!Place(t), element |-> 0, refs |-> 0]]
      BY <2>2, SameCount DEF C!BuildTypeList, n
    <3>5. ASSUME NEW t \in 1 .. n
          PROVE  [at |-> C!Place(t), element |-> 0, refs |-> 0] \in C!TypeSet(0)
      BY <3>3 DEF C!TypeSet
    <3>6. types' \in Seq(C!TypeSet(0)) /\ Len(types') = n
      BY <3>2, <3>4, <3>5
    <3> QED
      BY <3>2, <3>6
  <2> QED
    BY <2>1, <2>2
<1>3. C!ParserOK' /\ C!ElementsOK'
  BY <1>1, <1>2 DEF C!TypeOK, C!ParserOK, C!ElementsOK, C!InDefinition
<1>4. C!RendererOK'
  BY <1>1 DEF C!TypeOK, C!RendererOK, C!renderer
<1> QED
  BY <1>1, <1>3, <1>4 DEF C!TypeOK, C!ScannerOK, C!scanner, C!Stages, C!Ends

LEMMA BeginDefinitionType == C!TypeOK /\ C!BeginDefinition => C!TypeOK'
<1> SUFFICES ASSUME C!TypeOK, C!BeginDefinition PROVE C!TypeOK'
  OBVIOUS
<1>1. types \in Seq(C!TypeSet(Len(elements))) /\ defining \in 1 .. Len(types)
  BY DEF C!TypeOK, C!ParserOK, C!BeginDefinition, C!Stopped
<1>2. types[defining] \in C!TypeSet(Len(elements))
  BY <1>1, ElementOfSeq
<1>3. types[defining].at \in Nat
  BY <1>2 DEF C!TypeSet
<1>4. C!ParserOK'
  BY <1>3 DEF C!TypeOK, C!ParserOK, C!BeginDefinition, C!Stopped, C!InDefinition
<1> QED
  BY <1>4, ParsedType DEF C!BeginDefinition, C!InDefinition, C!TypeOK, C!ElementsOK, ElementsFit

(* Where the token of a type is.                                           *)
LEMMA TypeAtType == C!TypeOK => C!TypeAt \in Nat
BY DEF C!TypeOK, C!ParserOK, C!TypeAt, C!MarkAt, C!NumberAt

(* Frames and types stay what they are when elements are added.            *)
LEMMA MoreElements ==
    ASSUME C!TypeOK, Len(elements') \in Nat, Len(elements) <= Len(elements')
    PROVE  /\ types \in Seq(C!TypeSet(Len(elements')))
           /\ frames \in Seq(C!FrameSet(Len(elements')))
<1>1. Len(elements) \in Nat
  BY DEF C!TypeOK, C!ElementsOK
<1>2. /\ C!TypeSet(Len(elements)) \subseteq C!TypeSet(Len(elements'))
      /\ C!FrameSet(Len(elements)) \subseteq C!FrameSet(Len(elements'))
  BY <1>1, SetsGrow
<1> QED
  BY <1>2, SeqMonotonic DEF C!TypeOK, C!ParserOK

(* What a step within a definition has to see to.                          *)
LEMMA InDefinitionOK ==
    ASSUME C!TypeOK, stage' \in C!InDefinition, defining \in 1 .. Len(types), defining' = defining,
           types' \in Seq(C!TypeSet(Len(elements'))), Len(types') = Len(types),
           \A t \in 1 .. Len(types) : types'[t].element = types[t].element,
           cursor' \in Nat, frames' \in Seq(C!FrameSet(Len(elements'))),
           top' \in 0 .. Len(elements'), inner' \in 0 .. Len(elements'),
           actions' \subseteq C!ToSet(Lowercase),
           stage' \in {"suffix", "attach", "defined"} => top' # 0 /\ inner' # 0,
           stage' \in {"member", "attach"} => frames' # <<>>
    PROVE  C!ParserOK'
<1>1. Len(types) \in Nat /\ \A t \in 1 .. defining - 1 : types[t].element # 0
  BY DEF C!TypeOK, C!ParserOK
<1>2. \A t \in 1 .. defining' - 1 : types'[t].element # 0
  BY <1>1
<1> QED
  BY <1>1, <1>2 DEF C!ParserOK, C!InDefinition

(* The steps that allocate the element of a type.                          *)
LEMMA SimpleType ==
    ASSUME C!TypeOK, stage = "type", C!LabelFits, NEW compound \in {"ANY", "NOT_COMPOUND"},
           NEW words \in Nat, C!Simple(compound, words)
    PROVE  C!TypeOK'
<1>1. /\ ElementsFit(elements', Len(types))
      /\ Len(elements') \in Nat /\ Len(elements) <= Len(elements')
      /\ top' \in 1 .. Len(elements') /\ inner' \in 1 .. Len(elements')
  BY AllocateType DEF C!Simple, C!Compounds, C!TypeOK, C!ParserOK
<1>2. types \in Seq(C!TypeSet(Len(elements'))) /\ frames \in Seq(C!FrameSet(Len(elements')))
  BY <1>1, MoreElements DEF C!TypeOK, C!ParserOK
<1>3. /\ stage = "type" /\ stage' = "suffix" /\ defining \in 1 .. Len(types)
      /\ UNCHANGED <<types, defining, frames, actions>> /\ cursor' \in Nat
      /\ actions \subseteq C!ToSet(Lowercase)
  BY TypeAtType DEF C!TypeOK, C!ParserOK, C!Simple, C!InDefinition
<1>4. C!ParserOK'
  BY <1>1, <1>2, <1>3, InDefinitionOK DEF C!InDefinition
<1> QED
  BY <1>1, <1>3, <1>4, ParsedType DEF C!Simple, C!InDefinition

LEMMA ReferenceType ==
    ASSUME C!TypeOK, stage = "type", C!LabelFits, NEW t \in DOMAIN types, C!Reference(t)
    PROVE  C!TypeOK'
<1>1. t \in 1 .. Len(types) /\ types \in Seq(C!TypeSet(Len(elements)))
  BY DEF C!TypeOK, C!ParserOK
<1>2. /\ ElementsFit(elements', Len(types))
      /\ Len(elements') \in Nat /\ Len(elements) <= Len(elements')
      /\ top' \in 1 .. Len(elements') /\ inner' \in 1 .. Len(elements')
  BY <1>1, AllocateType DEF C!Reference, C!Compounds
<1>3. types \in Seq(C!TypeSet(Len(elements'))) /\ frames \in Seq(C!FrameSet(Len(elements')))
  BY <1>2, MoreElements
<1>4. /\ types' \in Seq(C!TypeSet(Len(elements'))) /\ Len(types') = Len(types)
      /\ \A u \in 1 .. Len(types) : types'[u].element = types[u].element
  <2> DEFINE new == [types[t] EXCEPT !.refs = @ + 1]
  <2>1. types[t] \in C!TypeSet(Len(elements'))
    BY <1>1, <1>3, ElementOfSeq
  <2>2. new \in C!TypeSet(Len(elements')) /\ new.element = types[t].element
    BY <2>1 DEF C!TypeSet
  <2>3. types' = [types EXCEPT ![t] = new]
    BY DEF C!Reference
  <2> HIDE DEF new
  <2> QED
    BY <1>1, <1>3, <2>2, <2>3, ExceptSeq
<1>5. /\ stage = "type" /\ stage' = "suffix" /\ defining \in 1 .. Len(types)
      /\ UNCHANGED <<defining, frames, actions>> /\ cursor' \in Nat
      /\ actions \subseteq C!ToSet(Lowercase)
  BY TypeAtType DEF C!TypeOK, C!ParserOK, C!Reference, C!InDefinition
<1>6. C!ParserOK'
  BY <1>2, <1>3, <1>4, <1>5, InDefinitionOK DEF C!InDefinition
<1> QED
  BY <1>2, <1>4, <1>5, <1>6, ParsedType DEF C!Reference, C!InDefinition

LEMMA OpenType ==
    ASSUME C!TypeOK, stage = "type", C!LabelFits,
           NEW compound \in {"CHOICE", "SEQUENCE", "SET", "SEQUENCE_OF", "SET_OF"},
           NEW alternates \in BOOLEAN, NEW next \in {"type", "member"}, NEW n \in Nat,
           C!Open(compound, alternates, next, n)
    PROVE  C!TypeOK'
<1>1. /\ ElementsFit(elements', Len(types))
      /\ Len(elements') \in Nat /\ Len(elements) <= Len(elements')
      /\ top' \in 1 .. Len(elements') /\ inner' \in 1 .. Len(elements')
  BY AllocateType DEF C!Open, C!Compounds, C!TypeOK, C!ParserOK
<1>2. types \in Seq(C!TypeSet(Len(elements'))) /\ frames \in Seq(C!FrameSet(Len(elements')))
  BY <1>1, MoreElements
<1>3. [top |-> top', inner |-> inner', alternates |-> alternates] \in C!FrameSet(Len(elements'))
  BY <1>1, Zenon DEF C!FrameSet
<1>4. frames' \in Seq(C!FrameSet(Len(elements'))) /\ frames' # <<>>
  BY <1>2, <1>3, AppendProperties DEF C!Open
<1>5. C!ParserOK'
  BY <1>1, <1>2, <1>4 DEF C!TypeOK, C!ParserOK, C!Open, C!InDefinition
<1> QED
  BY <1>1, <1>5, ParsedType DEF C!Open, C!InDefinition

LEMMA ParseTypeType ==
    C!TypeOK /\ (C!ParseSimple \/ C!ParseReference \/ C!ParseOf \/ C!ParseCompound) => C!TypeOK'
<1> SUFFICES ASSUME C!TypeOK, C!ParseSimple \/ C!ParseReference \/ C!ParseOf \/ C!ParseCompound
             PROVE  C!TypeOK'
  OBVIOUS
<1>1. stage = "type" /\ C!LabelFits
  BY DEF C!ParseSimple, C!ParseReference, C!ParseOf, C!ParseCompound, C!Heading, C!HeadingFits
<1>2. CASE C!ParseSimple
  BY <1>1, <1>2, SimpleType DEF C!ParseSimple
<1>3. CASE C!ParseReference
  BY <1>1, <1>3, ReferenceType DEF C!ParseReference, C!Named
<1>4. CASE C!ParseOf
  <2> DEFINE compound == IF C!At(C!TypeAt) = "SET" THEN "SET_OF" ELSE "SEQUENCE_OF"
  <2>1. C!Open(compound, FALSE, "type", C!TypeAt + 2)
    BY <1>4 DEF C!ParseOf
  <2>2. compound \in {"CHOICE", "SEQUENCE", "SET", "SEQUENCE_OF", "SET_OF"}
    OBVIOUS
  <2>3. C!TypeAt + 2 \in Nat /\ FALSE \in BOOLEAN /\ "type" \in {"type", "member"}
    BY TypeAtType
  <2> HIDE DEF compound
  <2> QED
    BY <1>1, <2>1, <2>2, <2>3, OpenType, Zenon
<1>5. CASE C!ParseCompound
  <2>1. C!At(C!TypeAt) \in {"CHOICE", "SEQUENCE", "SET"}
    BY <1>5 DEF C!ParseCompound, C!Heading
  <2> DEFINE alternates == C!At(C!TypeAt) # "SEQUENCE"
  <2>2. C!Open(C!At(C!TypeAt), alternates, "member", C!TypeAt + 2)
    BY <1>5 DEF C!ParseCompound
  <2>3. C!TypeAt + 2 \in Nat /\ alternates \in BOOLEAN /\ "member" \in {"type", "member"}
    BY TypeAtType
  <2>4. C!At(C!TypeAt) \in {"CHOICE", "SEQUENCE", "SET", "SEQUENCE_OF", "SET_OF"}
    BY <2>1
  <2> HIDE DEF alternates
  <2> QED
    BY <1>1, <2>2, <2>3, <2>4, OpenType, Zenon
<1> QED
  BY <1>2, <1>3, <1>4, <1>5

LEMMA ParseMemberType == C!TypeOK /\ C!ParseMember => C!TypeOK'
<1> SUFFICES ASSUME C!TypeOK, C!ParseMember PROVE C!TypeOK'
  OBVIOUS
<1>1. C!ParserOK' /\ UNCHANGED <<types, elements>>
  BY DEF C!TypeOK, C!ParserOK, C!ParseMember, C!InDefinition
<1> QED
  BY <1>1, ParsedType DEF C!ParseMember, C!InDefinition, C!TypeOK, C!ElementsOK, ElementsFit

(* An element replaced by another one.                                     *)
LEMMA FitOne ==
    ASSUME NEW es, NEW t \in Nat, ElementsFit(es, t), NEW i \in DOMAIN es,
           NEW r \in C!ElementSet(Len(es), t), C!Complete(r)
    PROVE  ElementsFit([es EXCEPT ![i] = r], t) /\ Len([es EXCEPT ![i] = r]) = Len(es)
<1>1. es \in Seq(C!ElementSet(Len(es), t)) /\ \A e \in DOMAIN es : C!Complete(es[e])
  BY DEF ElementsFit
<1>2. /\ [es EXCEPT ![i] = r] \in Seq(C!ElementSet(Len(es), t))
      /\ Len([es EXCEPT ![i] = r]) = Len(es)
  BY <1>1, ExceptSeq
<1>3. ASSUME NEW e \in DOMAIN [es EXCEPT ![i] = r] PROVE C!Complete([es EXCEPT ![i] = r][e])
  BY <1>1
<1> QED
  BY <1>2, <1>3 DEF ElementsFit

LEMMA SuffixFields ==
    ASSUME NEW n \in Nat, NEW t \in Nat, NEW e \in C!ElementSet(n, t), C!Complete(e),
           NEW skip \in BOOLEAN, NEW action \in C!ToSet(Lowercase) \cup {"none"}
    PROVE  /\ [e EXCEPT !.skip = @ \/ skip, !.action = action] \in C!ElementSet(n, t)
           /\ C!Complete([e EXCEPT !.skip = @ \/ skip, !.action = action])
<1> DEFINE r == [e EXCEPT !.skip = @ \/ skip, !.action = action]
<1>1. e.skip \in BOOLEAN /\ (e.skip \/ skip) \in BOOLEAN
  BY DEF C!ElementSet
<1>2. r \in C!ElementSet(n, t)
  BY <1>1, Zenon DEF C!ElementSet
<1>3. r.compound = e.compound /\ r.ref = e.ref /\ r.children = e.children /\ r.cond = e.cond
  BY DEF C!ElementSet
<1>4. r.skip = (e.skip \/ skip)
  BY DEF C!ElementSet
<1> HIDE DEF r
<1>5. C!Complete(r)
  BY <1>3, <1>4 DEF C!Complete
<1> QED
  BY <1>2, <1>5 DEF r

LEMMA ParseSuffixType == C!TypeOK /\ C!ParseSuffix => C!TypeOK'
<1> SUFFICES ASSUME C!TypeOK, C!ParseSuffix PROVE C!TypeOK'
  OBVIOUS
<1>1. CASE C!HasAction /\ ~(C!At(C!ActionAt + 1) = "ELEMENT_NAME" /\ C!At(C!ActionAt + 2) = "})")
  BY <1>1, RefuseType DEF C!ParseSuffix
<1>2. CASE ~(C!HasAction /\ ~(C!At(C!ActionAt + 1) = "ELEMENT_NAME" /\ C!At(C!ActionAt + 2) = "})"))
  <2> DEFINE action == IF C!HasAction THEN tokens[C!ActionAt + 1] ELSE "none"
  <2>1. C!HasAction => tokens[C!ActionAt + 1] \in C!ToSet(Lowercase)
    <3>1. SUFFICES ASSUME C!HasAction PROVE tokens[C!ActionAt + 1] \in C!ToSet(Lowercase)
      OBVIOUS
    <3>2. C!TypeOf(tokens[C!ActionAt + 1]) = "ELEMENT_NAME"
      BY <1>2, <3>1 DEF C!At
    <3> QED
      BY <3>2, NameWord
  <2>2. action \in C!ToSet(Lowercase) \cup {"none"}
    BY <2>1
  <2>3. /\ elements' = [e \in DOMAIN elements |->
              [elements[e] EXCEPT !.skip = @ \/ (e = C!Optional_top /\ C!Skips),
                                  !.action = IF e = inner THEN action ELSE @]]
        /\ actions' = IF C!HasAction THEN actions \cup {action} ELSE actions
        /\ cursor' = C!ActionAt + (IF C!HasAction THEN 3 ELSE 0)
        /\ stage' = IF frames = <<>> THEN "defined" ELSE "attach"
        /\ UNCHANGED <<types, defining, frames, top, inner>> /\ C!Parsed /\ stage = "suffix"
    BY <1>2, Zenon DEF C!ParseSuffix
  <2>4. /\ elements \in Seq(C!ElementSet(Len(elements), Len(types)))
        /\ \A e \in DOMAIN elements : C!Complete(elements[e])
        /\ Len(elements) \in Nat /\ Len(types) \in Nat /\ DOMAIN elements = 1 .. Len(elements)
    BY DEF C!TypeOK, C!ElementsOK, C!ParserOK
  <2> DEFINE new(e) == [elements[e] EXCEPT !.skip = @ \/ (e = C!Optional_top /\ C!Skips),
                                           !.action = IF e = inner THEN action ELSE @]
  <2>5. ASSUME NEW e \in DOMAIN elements
        PROVE  new(e) \in C!ElementSet(Len(elements), Len(types)) /\ C!Complete(new(e))
    <3> DEFINE skip == e = C!Optional_top /\ C!Skips
               act == IF e = inner THEN action ELSE elements[e].action
    <3>1. elements[e] \in C!ElementSet(Len(elements), Len(types)) /\ C!Complete(elements[e])
      BY <2>4, ElementOfSeq
    <3>2. elements[e].action \in C!ToSet(Lowercase) \cup {"none"}
      BY <3>1 DEF C!ElementSet
    <3>3. act \in C!ToSet(Lowercase) \cup {"none"} /\ skip \in BOOLEAN
      BY <2>2, <3>2
    <3>4. new(e) = [elements[e] EXCEPT !.skip = @ \/ skip, !.action = act]
      BY Zenon
    <3> HIDE DEF skip, act, new
    <3>5. /\ [elements[e] EXCEPT !.skip = @ \/ skip, !.action = act]
               \in C!ElementSet(Len(elements), Len(types))
          /\ C!Complete([elements[e] EXCEPT !.skip = @ \/ skip, !.action = act])
      BY <2>4, <3>1, <3>3, SuffixFields
    <3> QED
      BY <3>4, <3>5
  <2>6. elements' = [e \in 1 .. Len(elements) |-> new(e)]
    BY <2>3, <2>4, Zenon
  <2> HIDE DEF new
  <2>7. elements' \in Seq(C!ElementSet(Len(elements), Len(types))) /\ Len(elements') = Len(elements)
    BY <2>4, <2>5, <2>6
  <2>8. ElementsFit(elements', Len(types))
    BY <2>4, <2>5, <2>6, <2>7 DEF ElementsFit
  <2>9. actions' \subseteq C!ToSet(Lowercase) /\ cursor' \in Nat
    <3>1. actions \subseteq C!ToSet(Lowercase) /\ cursor \in Nat
      BY DEF C!TypeOK, C!ParserOK
    <3>2. C!ActionAt \in Nat
      BY <3>1 DEF C!ActionAt
    <3> HIDE DEF C!ActionAt, C!HasAction
    <3>3. actions' \subseteq C!ToSet(Lowercase)
      BY <2>1, <2>3, <3>1
    <3> HIDE DEF action
    <3>4. cursor' = C!ActionAt \/ cursor' = C!ActionAt + 3
      <4>1. cursor' = C!ActionAt + (IF C!HasAction THEN 3 ELSE 0)
        BY <2>3, Zenon
      <4> QED
        BY <3>2, <4>1
    <3> QED
      BY <3>2, <3>3, <3>4
  <2>10. /\ stage' \in {"defined", "attach"} /\ (stage' = "attach" => frames # <<>>)
         /\ UNCHANGED <<types, defining, frames, top, inner>> /\ C!Parsed /\ stage = "suffix"
    BY <2>3
  <2>11. C!ParserOK'
    <3>1. /\ types \in Seq(C!TypeSet(Len(elements))) /\ frames \in Seq(C!FrameSet(Len(elements)))
          /\ top \in 0 .. Len(elements) /\ inner \in 0 .. Len(elements)
          /\ top # 0 /\ inner # 0 /\ defining \in 1 .. Len(types)
      BY <2>10 DEF C!TypeOK, C!ParserOK, C!InDefinition
    <3> QED
      BY <2>7, <2>9, <2>10, <3>1, InDefinitionOK DEF C!InDefinition
  <2> QED
    BY <2>8, <2>10, <2>11, ParsedType DEF C!InDefinition
<1> QED
  BY <1>1, <1>2

LEMMA LastFrame ==
    ASSUME NEW S, NEW s \in Seq(S), s # <<>>
    PROVE  C!Last(s) \in S /\ C!Front(s) \in Seq(S)
<1>1. Len(s) \in Nat /\ Len(s) # 0
  OBVIOUS
<1>2. C!Last(s) \in S
  BY <1>1 DEF C!Last
<1>3. C!Front(s) \in Seq(S)
  BY <1>1 DEF C!Front
<1> QED
  BY <1>2, <1>3

LEMMA SkipFields ==
    ASSUME NEW n \in Nat, NEW t \in Nat, NEW e \in C!ElementSet(n, t), C!Complete(e),
           NEW skip \in BOOLEAN, NEW cond \in BOOLEAN, cond => skip
    PROVE  /\ [e EXCEPT !.skip = @ \/ skip, !.cond = @ \/ cond] \in C!ElementSet(n, t)
           /\ C!Complete([e EXCEPT !.skip = @ \/ skip, !.cond = @ \/ cond])
<1> DEFINE r == [e EXCEPT !.skip = @ \/ skip, !.cond = @ \/ cond]
<1>1. (e.skip \/ skip) \in BOOLEAN /\ (e.cond \/ cond) \in BOOLEAN
  BY DEF C!ElementSet
<1>2. r \in C!ElementSet(n, t)
  BY <1>1, Zenon DEF C!ElementSet
<1>3. r.compound = e.compound /\ r.ref = e.ref /\ r.children = e.children
  BY DEF C!ElementSet
<1>4. r.skip = (e.skip \/ skip) /\ r.cond = (e.cond \/ cond)
  BY DEF C!ElementSet
<1> HIDE DEF r
<1>5. C!Complete(r)
  BY <1>3, <1>4 DEF C!Complete
<1> QED
  BY <1>2, <1>5 DEF r

LEMMA ChildAdded ==
    ASSUME NEW n \in Nat, NEW t \in Nat, NEW e \in C!ElementSet(n, t), C!Complete(e),
           NEW m \in 1 .. n
    PROVE  /\ [e EXCEPT !.children = Append(@, m)] \in C!ElementSet(n, t)
           /\ C!Complete([e EXCEPT !.children = Append(@, m)])
<1> DEFINE r == [e EXCEPT !.children = Append(@, m)]
<1>1. Append(e.children, m) \in Seq(1 .. n) /\ Append(e.children, m) # <<>>
  <2> DEFINE c == e.children
  <2>1. c \in Seq(1 .. n)
    BY DEF C!ElementSet
  <2> HIDE DEF c
  <2>2. Append(c, m) \in Seq(1 .. n) /\ Append(c, m) # <<>>
    BY <2>1
  <2> QED
    BY <2>2 DEF c
<1>2. r = [e EXCEPT !.children = Append(e.children, m)]
  BY Zenon
<1>3. r \in C!ElementSet(n, t)
  BY <1>1, <1>2, ElementChanged
<1>4. r.compound = e.compound /\ r.ref = e.ref /\ r.cond = e.cond /\ r.skip = e.skip
  BY DEF C!ElementSet
<1>5. r.children = Append(e.children, m)
  BY DEF C!ElementSet
<1> HIDE DEF r
<1>6. C!Complete(r)
  BY <1>1, <1>4, <1>5 DEF C!Complete
<1> QED
  BY <1>3, <1>6 DEF r

LEMMA TwiceChanged ==
    ASSUME NEW f, NEW k \in DOMAIN f, NEW skip, NEW cond
    PROVE  [f EXCEPT ![k].skip = skip, ![k].cond = cond]
             = [f EXCEPT ![k] = [f[k] EXCEPT !.skip = skip, !.cond = cond]]
<1> DEFINE g == [f EXCEPT ![k].skip = skip]
           r == [f[k] EXCEPT !.skip = skip]
<1>1. g = [f EXCEPT ![k] = r]
  OBVIOUS
<1>2. g[k] = r /\ DOMAIN g = DOMAIN f
  BY <1>1
<1>3. [f EXCEPT ![k].skip = skip, ![k].cond = cond] = [g EXCEPT ![k] = [g[k] EXCEPT !.cond = cond]]
  BY Zenon
<1>4. [r EXCEPT !.cond = cond] = [f[k] EXCEPT !.skip = skip, !.cond = cond]
  BY Zenon
<1> HIDE DEF g, r
<1>5. [g EXCEPT ![k] = [r EXCEPT !.cond = cond]] = [f EXCEPT ![k] = [r EXCEPT !.cond = cond]]
  BY <1>1
<1> QED
  BY <1>2, <1>3, <1>4, <1>5

(* The caller's element gets its member, which then gets its flags.        *)
Adopting == [elements EXCEPT ![C!Frame.inner] =
                 [elements[C!Frame.inner] EXCEPT !.children = Append(@, top)]]

LEMMA AttachedIs ==
    ASSUME elements \in Seq(C!ElementSet(Len(elements), Len(types))),
           C!Frame.inner \in DOMAIN elements, top \in DOMAIN elements
    PROVE  C!Attached =
             [Adopting EXCEPT ![top] =
                [Adopting[top] EXCEPT !.skip = @ \/ C!Frame.alternates,
                                      !.cond = @ \/ (C!Frame.alternates /\ C!Parent.children # <<>>)]]
<1> DEFINE i == C!Frame.inner
           skip == elements[top].skip \/ C!Frame.alternates
           cond == elements[top].cond \/ (C!Frame.alternates /\ C!Parent.children # <<>>)
<1>1. C!Attached = [Adopting EXCEPT ![top].skip = skip, ![top].cond = cond]
  BY Zenon DEF C!Attached, Adopting
<1>2. DOMAIN Adopting = DOMAIN elements
  BY DEF Adopting
<1>3. Adopting[top].skip = elements[top].skip /\ Adopting[top].cond = elements[top].cond
  <2>1. elements[i] \in C!ElementSet(Len(elements), Len(types))
    BY ElementOfSeq
  <2> DEFINE given == [elements[i] EXCEPT !.children = Append(@, top)]
  <2>2. given.skip = elements[i].skip /\ given.cond = elements[i].cond
    BY <2>1 DEF C!ElementSet
  <2> HIDE DEF given
  <2>3. Adopting[top] = IF top = i THEN given ELSE elements[top]
    BY DEF Adopting, given
  <2> QED
    BY <2>2, <2>3
<1> HIDE DEF i
<1> QED
  BY <1>1, <1>2, <1>3, TwiceChanged

LEMMA AttachedType ==
    ASSUME C!TypeOK, stage = "attach"
    PROVE  /\ C!Frame \in C!FrameSet(Len(elements)) /\ C!Front(frames) \in Seq(C!FrameSet(Len(elements)))
           /\ ElementsFit(C!Attached, Len(types)) /\ Len(C!Attached) = Len(elements)
<1>1. /\ ElementsFit(elements, Len(types)) /\ Len(elements) \in Nat /\ Len(types) \in Nat
      /\ DOMAIN elements = 1 .. Len(elements) /\ top \in 1 .. Len(elements)
      /\ frames \in Seq(C!FrameSet(Len(elements))) /\ frames # <<>>
  BY DEF C!TypeOK, C!ElementsOK, C!ParserOK, ElementsFit
<1>2. C!Frame \in C!FrameSet(Len(elements)) /\ C!Front(frames) \in Seq(C!FrameSet(Len(elements)))
  BY <1>1, LastFrame, Zenon DEF C!Frame
<1>3. C!Frame.inner \in 1 .. Len(elements) /\ C!Frame.alternates \in BOOLEAN
  BY <1>2 DEF C!FrameSet
<1> DEFINE i == C!Frame.inner
           given == [elements[i] EXCEPT !.children = Append(@, top)]
           es == [elements EXCEPT ![i] = given]
           cond == C!Frame.alternates /\ C!Parent.children # <<>>
           r == [es[top] EXCEPT !.skip = @ \/ C!Frame.alternates, !.cond = @ \/ cond]
<1>4. elements[i] \in C!ElementSet(Len(elements), Len(types)) /\ C!Complete(elements[i])
  BY <1>1, <1>3, ElementOfSeq DEF ElementsFit
<1>5. given \in C!ElementSet(Len(elements), Len(types)) /\ C!Complete(given)
  BY <1>1, <1>4, ChildAdded
<1>6. ElementsFit(es, Len(types)) /\ Len(es) = Len(elements)
  <2>1. i \in DOMAIN elements
    BY <1>1, <1>3
  <2>2. ElementsFit(elements, Len(types)) /\ Len(types) \in Nat
    BY <1>1
  <2> HIDE DEF given, i
  <2> QED
    BY ONLY <1>5, <2>1, <2>2, FitOne
<1>7. DOMAIN es = 1 .. Len(elements)
  BY <1>1
<1>8. es[top] \in C!ElementSet(Len(elements), Len(types)) /\ C!Complete(es[top])
  <2> HIDE DEF es
  <2> QED
    BY <1>1, <1>6, <1>7, ElementOfSeq DEF ElementsFit
<1>9. cond \in BOOLEAN /\ (cond => C!Frame.alternates)
  OBVIOUS
<1>10. r \in C!ElementSet(Len(elements), Len(types)) /\ C!Complete(r)
  <2> HIDE DEF es, cond
  <2> QED
    BY <1>1, <1>3, <1>8, <1>9, SkipFields
<1>11. ElementsFit([es EXCEPT ![top] = r], Len(types)) /\ Len([es EXCEPT ![top] = r]) = Len(elements)
  <2>1. top \in DOMAIN es
    BY <1>1, <1>7
  <2> HIDE DEF es, r
  <2>2. r \in C!ElementSet(Len(es), Len(types))
    BY <1>6, <1>10
  <2>3. C!Complete(r) /\ ElementsFit(es, Len(types)) /\ Len(types) \in Nat /\ Len(es) = Len(elements)
    BY <1>1, <1>6, <1>10
  <2> QED
    BY ONLY <2>1, <2>2, <2>3, FitOne
<1>12. C!Attached = [es EXCEPT ![top] = r]
  BY <1>1, <1>3, AttachedIs DEF Adopting, ElementsFit
<1> QED
  BY <1>2, <1>11, <1>12

(* The steps that go back to the caller, or to the next member.            *)
LEMMA AttachType == C!TypeOK /\ (C!AttachOf \/ C!AttachMember \/ C!CloseCompound) => C!TypeOK'
<1> SUFFICES ASSUME C!TypeOK, C!AttachOf \/ C!AttachMember \/ C!CloseCompound PROVE C!TypeOK'
  OBVIOUS
<1>1. /\ stage = "attach" /\ stage' \in {"suffix", "member"} /\ elements' = C!Attached
      /\ UNCHANGED <<types, defining, actions>> /\ C!Parsed /\ cursor' \in {cursor, cursor + 1}
  BY DEF C!AttachOf, C!AttachMember, C!CloseCompound, C!Attaching, C!Resume
<1>2. /\ C!Frame \in C!FrameSet(Len(elements)) /\ C!Front(frames) \in Seq(C!FrameSet(Len(elements)))
      /\ ElementsFit(elements', Len(types)) /\ Len(elements') = Len(elements)
  BY <1>1, AttachedType
<1>3. C!Frame.top \in 1 .. Len(elements) /\ C!Frame.inner \in 1 .. Len(elements)
  BY <1>2 DEF C!FrameSet
<1>4. /\ types \in Seq(C!TypeSet(Len(elements'))) /\ frames \in Seq(C!FrameSet(Len(elements')))
      /\ frames # <<>> /\ cursor \in Nat /\ actions \subseteq C!ToSet(Lowercase)
      /\ top \in 0 .. Len(elements) /\ inner \in 0 .. Len(elements)
      /\ defining \in 1 .. Len(types)
  BY <1>1, <1>2 DEF C!TypeOK, C!ParserOK, C!InDefinition
<1>5. /\ frames' \in Seq(C!FrameSet(Len(elements')))
      /\ top' \in 0 .. Len(elements') /\ inner' \in 0 .. Len(elements')
      /\ stage' = "suffix" => top' # 0 /\ inner' # 0
      /\ stage' = "member" => frames' # <<>>
  <2>1. CASE C!AttachMember
    BY <1>2, <1>4, <2>1 DEF C!AttachMember
  <2>2. CASE C!Resume
    BY <1>2, <1>3, <2>2 DEF C!Resume
  <2> QED
    BY <2>1, <2>2 DEF C!AttachOf, C!CloseCompound
<1>6. C!ParserOK'
  BY <1>1, <1>2, <1>4, <1>5, InDefinitionOK DEF C!InDefinition
<1> QED
  BY <1>1, <1>2, <1>6, ParsedType DEF C!InDefinition

LEMMA TypeDefField ==
    ASSUME NEW n \in Nat, NEW t \in Nat, NEW e \in C!ElementSet(n, t), C!Complete(e),
           NEW d \in 1 .. t
    PROVE  [e EXCEPT !.type_def = d] \in C!ElementSet(n, t) /\ C!Complete([e EXCEPT !.type_def = d])
<1> DEFINE r == [e EXCEPT !.type_def = d]
<1>1. d \in 0 .. t
  OBVIOUS
<1>2. r \in C!ElementSet(n, t)
  BY <1>1, Zenon DEF C!ElementSet
<1>3. /\ r.compound = e.compound /\ r.ref = e.ref /\ r.cond = e.cond /\ r.skip = e.skip
      /\ r.children = e.children
  BY DEF C!ElementSet
<1> HIDE DEF r
<1>4. C!Complete(r)
  BY <1>3 DEF C!Complete
<1> QED
  BY <1>2, <1>4 DEF r

LEMMA EndDefinitionType == C!TypeOK /\ C!EndDefinition => C!TypeOK'
<1> SUFFICES ASSUME C!TypeOK, C!EndDefinition PROVE C!TypeOK'
  OBVIOUS
<1>1. CASE cursor # C!Limit
  BY <1>1, RefuseType DEF C!EndDefinition
<1>2. CASE cursor = C!Limit
  <2>1. /\ types' = [types EXCEPT ![defining].element = top]
        /\ elements' = [elements EXCEPT ![top].type_def = defining]
        /\ defining' = defining + 1 /\ stage' = "define" /\ stage = "defined"
        /\ UNCHANGED <<cursor, frames, top, inner, actions>> /\ C!Parsed
    BY <1>2 DEF C!EndDefinition
  <2>2. /\ ElementsFit(elements, Len(types)) /\ Len(elements) \in Nat /\ Len(types) \in Nat
        /\ DOMAIN elements = 1 .. Len(elements) /\ top \in 1 .. Len(elements)
        /\ types \in Seq(C!TypeSet(Len(elements))) /\ defining \in 1 .. Len(types)
        /\ DOMAIN types = 1 .. Len(types)
    BY <2>1 DEF C!TypeOK, C!ElementsOK, C!ParserOK, ElementsFit, C!InDefinition
  <2>3. ElementsFit(elements', Len(types)) /\ Len(elements') = Len(elements)
    <3> DEFINE r == [elements[top] EXCEPT !.type_def = defining]
    <3>1. elements[top] \in C!ElementSet(Len(elements), Len(types)) /\ C!Complete(elements[top])
      BY <2>2, ElementOfSeq DEF ElementsFit
    <3>2. r \in C!ElementSet(Len(elements), Len(types)) /\ C!Complete(r)
      BY <2>2, <3>1, TypeDefField
    <3>3. elements' = [elements EXCEPT ![top] = r]
      BY <2>1
    <3>4. top \in DOMAIN elements /\ ElementsFit(elements, Len(types)) /\ Len(types) \in Nat
      BY <2>2
    <3> HIDE DEF r
    <3>5. /\ ElementsFit([elements EXCEPT ![top] = r], Len(types))
          /\ Len([elements EXCEPT ![top] = r]) = Len(elements)
      BY ONLY <3>2, <3>4, FitOne
    <3> QED
      BY ONLY <3>3, <3>5
  <2>4. /\ types' \in Seq(C!TypeSet(Len(elements))) /\ Len(types') = Len(types)
        /\ \A t \in 1 .. Len(types) :
             types'[t].element = IF t = defining THEN top ELSE types[t].element
    <3> DEFINE r == [types[defining] EXCEPT !.element = top]
    <3>1. types[defining] \in C!TypeSet(Len(elements))
      BY <2>2, ElementOfSeq
    <3>2. r \in C!TypeSet(Len(elements)) /\ r.element = top
      <4>1. top \in 0 .. Len(elements)
        BY <2>2
      <4> QED
        BY <3>1, <4>1 DEF C!TypeSet
    <3>3. types' = [types EXCEPT ![defining] = r]
      BY <2>1
    <3> HIDE DEF r
    <3> QED
      BY <2>2, <3>2, <3>3, ExceptSeq
  <2>5. \A t \in 1 .. defining' - 1 : types'[t].element # 0
    <3>1. \A t \in 1 .. defining - 1 : types[t].element # 0
      BY DEF C!TypeOK, C!ParserOK
    <3> QED
      BY <2>1, <2>2, <2>4, <3>1
  <2>6. C!ParserOK'
    <3>1. /\ defining' \in 1 .. Len(types') + 1 /\ cursor \in Nat
          /\ frames \in Seq(C!FrameSet(Len(elements')))
          /\ top \in 0 .. Len(elements') /\ inner \in 0 .. Len(elements')
          /\ actions \subseteq C!ToSet(Lowercase)
      BY <2>1, <2>2, <2>3, <2>4 DEF C!TypeOK, C!ParserOK
    <3>2. types' # <<>>
      BY <2>2, <2>4
    <3>3. types' \in Seq(C!TypeSet(Len(elements')))
      BY <2>3, <2>4
    <3>4. stage' = "define" /\ UNCHANGED <<cursor, frames, top, inner, actions>>
      BY <2>1
    <3> QED
      BY <2>5, <3>1, <3>2, <3>3, <3>4 DEF C!ParserOK, C!InDefinition
  <2> QED
    BY <2>1, <2>3, <2>4, <2>6, ParsedType DEF C!InDefinition
<1> QED
  BY <1>1, <1>2

LEMMA ParseTypeOK == C!TypeOK /\ C!Parse => C!TypeOK'
<1>1. C!TypeOK /\ (C!ParseError \/ C!CompoundError) => C!TypeOK'
  BY RefuseType DEF C!ParseError, C!CompoundError
<1> QED
  BY <1>1, BuildTypeListType, BeginDefinitionType, ParseTypeType, ParseMemberType,
     ParseSuffixType, AttachType, EndDefinitionType DEF C!Parse

----------------------------------------------------------------------------
(* The renderer.                                                           *)

AgendaOK(a) ==
    /\ a \in Seq(C!TurnSet(Len(elements)))
    /\ \A k \in DOMAIN a : a[k].do = "render" => a[k].element # 0

LEMMA TurnsMade ==
    ASSUME Len(elements) \in Nat
    PROVE  /\ \A bytes \in Seq(Nat) :
                C!Emit(bytes) \in C!TurnSet(Len(elements)) /\ C!Emit(bytes).do # "render"
           /\ \A e \in 1 .. Len(elements), label \in 0 .. Len(elements) :
                C!Do(e, label) \in C!TurnSet(Len(elements)) /\ C!Do(e, label).element # 0
<1>1. ASSUME NEW bytes \in Seq(Nat)
      PROVE  C!Emit(bytes) \in C!TurnSet(Len(elements)) /\ C!Emit(bytes).do # "render"
  <2>1. 0 \in 0 .. Len(elements)
    OBVIOUS
  <2>2. C!Emit(bytes) \in C!TurnSet(Len(elements))
    BY <2>1, Zenon DEF C!Emit, C!TurnSet
  <2> QED
    BY <2>2 DEF C!Emit
<1>2. ASSUME NEW e \in 1 .. Len(elements), NEW label \in 0 .. Len(elements)
      PROVE  C!Do(e, label) \in C!TurnSet(Len(elements)) /\ C!Do(e, label).element # 0
  <2>1. e \in 0 .. Len(elements) /\ <<>> \in Seq(Nat) /\ e # 0
    OBVIOUS
  <2>2. C!Do(e, label) \in C!TurnSet(Len(elements))
    BY <2>1, Zenon DEF C!Do, C!TurnSet
  <2>3. C!Do(e, label).element = e
    BY DEF C!Do
  <2> QED
    BY <2>1, <2>2, <2>3
<1> QED
  BY <1>1, <1>2

LEMMA AgendaMade ==
    ASSUME Len(elements) \in Nat
    PROVE  /\ AgendaOK(<<>>)
           /\ \A bytes \in Seq(Nat) : AgendaOK(<<C!Emit(bytes)>>)
           /\ \A e \in 1 .. Len(elements), label \in 0 .. Len(elements) : AgendaOK(<<C!Do(e, label)>>)
           /\ \A children \in Seq(1 .. Len(elements)) : AgendaOK(C!RenderAll(children))
<1>1. AgendaOK(<<>>)
  BY DEF AgendaOK
<1>2. ASSUME NEW bytes \in Seq(Nat) PROVE AgendaOK(<<C!Emit(bytes)>>)
  BY TurnsMade DEF AgendaOK
<1>3. ASSUME NEW e \in 1 .. Len(elements), NEW label \in 0 .. Len(elements)
      PROVE  AgendaOK(<<C!Do(e, label)>>)
  BY TurnsMade DEF AgendaOK
<1>4. ASSUME NEW children \in Seq(1 .. Len(elements)) PROVE AgendaOK(C!RenderAll(children))
  <2>1. /\ DOMAIN children = 1 .. Len(children) /\ Len(children) \in Nat
        /\ \A i \in 1 .. Len(children) : children[i] \in 1 .. Len(elements)
    OBVIOUS
  <2>2. 0 \in 0 .. Len(elements)
    OBVIOUS
  <2>3. \A i \in 1 .. Len(children) :
          /\ C!Do(children[i], 0) \in C!TurnSet(Len(elements))
          /\ C!Do(children[i], 0).element # 0
    BY <2>1, <2>2, TurnsMade
  <2>4. C!RenderAll(children) = [i \in 1 .. Len(children) |-> C!Do(children[i], 0)]
    BY <2>1 DEF C!RenderAll
  <2> QED
    BY <2>1, <2>3, <2>4 DEF AgendaOK
<1> QED
  BY <1>1, <1>2, <1>3, <1>4

LEMMA AgendaJoined ==
    ASSUME NEW a, NEW b, AgendaOK(a), AgendaOK(b)
    PROVE  AgendaOK(a \o b)
<1> DEFINE S == C!TurnSet(Len(elements))
<1>1. a \in Seq(S) /\ b \in Seq(S)
  BY DEF AgendaOK
<1> HIDE DEF S
<1>2. /\ a \o b \in Seq(S) /\ DOMAIN (a \o b) = 1 .. Len(a) + Len(b)
      /\ Len(a) \in Nat /\ Len(b) \in Nat
      /\ DOMAIN a = 1 .. Len(a) /\ DOMAIN b = 1 .. Len(b)
      /\ \A i \in 1 .. Len(a) + Len(b) :
           (a \o b)[i] = IF i <= Len(a) THEN a[i] ELSE b[i - Len(a)]
  BY <1>1, ConcatProperties, LenProperties
<1>3. ASSUME NEW i \in 1 .. Len(a) + Len(b), (a \o b)[i].do = "render"
      PROVE  (a \o b)[i].element # 0
  <2>1. CASE i <= Len(a)
    BY <1>2, <1>3, <2>1 DEF AgendaOK
  <2>2. CASE i > Len(a)
    <3>1. i - Len(a) \in DOMAIN b /\ (a \o b)[i] = b[i - Len(a)]
      BY <1>2, <2>2
    <3> QED
      BY <1>3, <3>1 DEF AgendaOK
  <2> QED
    BY <1>2, <2>1, <2>2
<1> QED
  BY <1>2, <1>3 DEF AgendaOK, S

LEMMA AgendaTail ==
    ASSUME NEW a, AgendaOK(a), a # <<>>
    PROVE  /\ AgendaOK(Tail(a)) /\ Head(a) \in C!TurnSet(Len(elements))
           /\ Head(a).do = "render" => Head(a).element # 0
<1> DEFINE S == C!TurnSet(Len(elements))
<1>1. a \in Seq(S) /\ a # <<>>
  BY DEF AgendaOK
<1> HIDE DEF S
<1>2. /\ Tail(a) \in Seq(S) /\ Len(a) \in Nat /\ Len(Tail(a)) = Len(a) - 1
      /\ \A i \in 1 .. Len(a) - 1 : Tail(a)[i] = a[i + 1]
      /\ Head(a) = a[1] /\ Head(a) \in S /\ Len(a) # 0 /\ DOMAIN a = 1 .. Len(a)
      /\ DOMAIN Tail(a) = 1 .. Len(a) - 1
  BY <1>1
<1>3. ASSUME NEW i \in 1 .. Len(a) - 1, Tail(a)[i].do = "render" PROVE Tail(a)[i].element # 0
  BY <1>2, <1>3 DEF AgendaOK
<1> QED
  BY <1>2, <1>3 DEF AgendaOK, S

LEMMA RenderedType ==
    ASSUME C!TypeOK, stage \in {"define", "render"}, defining > Len(types), stage' = "render",
           C!Rendered, pass' \in 1 .. 2, AgendaOK(agenda'), list' \in Seq(DOMAIN elements),
           rendered' \subseteq DOMAIN elements, entry' \in [DOMAIN elements -> Nat],
           code' \in Seq(Nat)
    PROVE  C!TypeOK'
<1>1. types # <<>>
  BY DEF C!TypeOK, C!ParserOK
<1>2. C!ParserOK' /\ C!ElementsOK' /\ C!ScannerOK'
  BY <1>1 DEF C!TypeOK, C!ParserOK, C!ElementsOK, C!ScannerOK, C!Rendered, C!parser, C!scanner,
              C!InDefinition
<1>3. C!RendererOK'
  BY DEF C!RendererOK, AgendaOK, C!Rendered, C!parser
<1> QED
  BY <1>2, <1>3 DEF C!TypeOK, C!Rendered, C!Stages

LEMMA ActionIndexType ==
    ASSUME C!TypeOK, NEW name PROVE C!ActionIndex(name) \in Nat
<1> DEFINE Rank(n) == CHOOSE i \in DOMAIN Lowercase : Lowercase[i] = n
           S == {a \in actions : Rank(a) < Rank(name)}
<1>1. S \in SUBSET C!ToSet(Lowercase)
  BY DEF C!TypeOK, C!ParserOK
<1>2. C!ActionIndex(name) = Cardinality(S)
  BY SameCount DEF C!ActionIndex
<1> HIDE DEF S
<1> QED
  BY <1>1, <1>2, LowercaseFinite, FS_Subset, FS_CardinalityType

LEMMA ActionByteType == ASSUME C!TypeOK, NEW e PROVE C!ActionByte(e) \in Seq(Nat)
BY ActionIndexType DEF C!ActionByte

LEMMA EndBytesType ==
    ASSUME C!TypeOK, NEW e, NEW start \in Nat
    PROVE  C!EndBytes(e, start) \in Seq(Nat)
<1>1. C!ActionByte(e) \in Seq(Nat)
  BY ActionByteType
<1>2. C!EndOp(e) \in Nat
  BY DEF C!EndOp, C!Bit
<1>3. start % 256 \in Nat
  OBVIOUS
<1>4. <<C!EndOp(e)>> \in Seq(Nat) /\ <<start % 256>> \in Seq(Nat)
  BY <1>2, <1>3
<1> QED
  BY <1>1, <1>4, ConcatProperties DEF C!EndBytes

(* What is known of the turn of an element.                                *)
LEMMA TurnType ==
    ASSUME C!TypeOK, stage = "render", agenda # <<>>
    PROVE  /\ AgendaOK(agenda) /\ AgendaOK(Tail(agenda)) /\ C!Turn \in C!TurnSet(Len(elements))
           /\ C!Turn.element \in 0 .. Len(elements) /\ C!Turn.tag \in 0 .. Len(elements)
           /\ C!Turn.bytes \in Seq(Nat) /\ C!Turn.do \in {"emit", "render"}
           /\ C!Turn.do = "render" =>
                /\ C!Turn.element \in 1 .. Len(elements)
                /\ C!E \in C!ElementSet(Len(elements), Len(types)) /\ C!Complete(C!E)
           /\ C!Turn.tag # 0 => elements[C!Turn.tag] \in C!ElementSet(Len(elements), Len(types))
                                /\ C!Complete(elements[C!Turn.tag])
<1>1. AgendaOK(agenda)
  BY DEF C!TypeOK, C!RendererOK, AgendaOK
<1>2. /\ AgendaOK(Tail(agenda)) /\ C!Turn \in C!TurnSet(Len(elements))
      /\ C!Turn.do = "render" => C!Turn.element # 0
  BY <1>1, AgendaTail DEF C!Turn
<1>3. /\ C!Turn.element \in 0 .. Len(elements) /\ C!Turn.tag \in 0 .. Len(elements)
      /\ C!Turn.bytes \in Seq(Nat) /\ C!Turn.do \in {"emit", "render"}
  BY <1>2 DEF C!TurnSet
<1>4. /\ elements \in Seq(C!ElementSet(Len(elements), Len(types))) /\ Len(elements) \in Nat
      /\ \A e \in 1 .. Len(elements) : C!Complete(elements[e])
      /\ DOMAIN elements = 1 .. Len(elements)
  BY DEF C!TypeOK, C!ElementsOK
<1>5. \A e \in 1 .. Len(elements) : elements[e] \in C!ElementSet(Len(elements), Len(types))
  BY <1>4, ElementOfSeq
<1>6. C!Turn.element # 0 => C!Turn.element \in 1 .. Len(elements)
  BY <1>3, <1>4
<1>7. C!Turn.tag # 0 => C!Turn.tag \in 1 .. Len(elements)
  BY <1>3, <1>4
<1> QED
  BY <1>1, <1>2, <1>3, <1>4, <1>5, <1>6, <1>7 DEF C!E

(* A step of render_element.                                               *)
LEMMA RendersType ==
    ASSUME C!TypeOK, stage = "render", agenda # <<>>, NEW bytes \in Seq(Nat), NEW rest,
           AgendaOK(rest), C!Renders(bytes, rest), list' \in Seq(DOMAIN elements),
           rendered' \subseteq DOMAIN elements, entry' = entry
    PROVE  C!TypeOK'
<1>1. AgendaOK(agenda')
  BY TurnType, AgendaJoined DEF C!Renders
<1>2. /\ pass \in 1 .. 2 /\ defining > Len(types) /\ entry' \in [DOMAIN elements -> Nat]
      /\ code \in Seq(Nat)
  BY DEF C!TypeOK, C!ParserOK, C!RendererOK
<1>3. code' \in Seq(Nat)
  BY <1>2, ConcatProperties DEF C!Renders
<1> QED
  BY <1>1, <1>2, <1>3, RenderedType DEF C!Renders

LEMMA BitType == ASSUME NEW set, NEW value \in Nat PROVE C!Bit(set, value) \in Nat
BY DEF C!Bit

LEMMA TagByteType ==
    ASSUME C!TypeOK, stage = "render", agenda # <<>>, C!Turn.do = "render",
           NEW byte \in C!TagBytes
    PROVE  byte \in 0 .. 255
<1>1. C!Tag \in C!ElementSet(Len(elements), Len(types))
  BY TurnType DEF C!Tag
<1>2. C!Tag.tag \in 0 .. 255
  BY <1>1 DEF C!ElementSet, C!Octet
<1>3. PICK n \in C!Numbers : byte = C!TagOf(n)
  BY DEF C!TagBytes
<1>4. n \in 0 .. 255
  <2>1. n \in C!Numbers
    OBVIOUS
  <2>2. CASE C!BeyondNames
    <3>1. C!Numbers = 0 .. 30
      BY <2>2 DEF C!Numbers
    <3> QED
      BY <2>1, <3>1
  <2>3. CASE ~C!BeyondNames
    <3>1. C!Numbers = {C!Tag.tag}
      BY <2>3 DEF C!Numbers
    <3> QED
      BY <1>2, <2>1, <3>1
  <2> QED
    BY <2>2, <2>3
<1> DEFINE low == n % 32
           five == C!Bit(C!Tag.cons \/ C!E.cons \/ C!Has(n, 32), 32)
           six == C!Bit(C!Has(C!Tag.class, 1) \/ C!Has(n, 64), 64)
           seven == C!Bit(C!Has(C!Tag.class, 2) \/ C!Has(n, 128), 128)
<1>5. low \in 0 .. 31
  BY <1>4
<1>6. five \in {0, 32} /\ six \in {0, 64} /\ seven \in {0, 128}
  BY DEF C!Bit
<1>7. byte = low + five + six + seven
  BY <1>3 DEF C!TagOf
<1> HIDE DEF low, five, six, seven
<1> QED
  BY <1>5, <1>6, <1>7

LEMMA OpType ==
    /\ \A more \in Nat : C!MatchOp(more) \in Nat
    /\ C!Bit(C!Conditional, 16) + 8 + C!Bit(C!HasAct, 2) \in Nat /\ C!Bit(C!HasAct, 2) \in Nat
BY DEF C!Bit, C!MatchOp

LEMMA ActAfterType ==
    ASSUME C!TypeOK, stage = "render", agenda # <<>>, C!Turn.do = "render"
    PROVE  AgendaOK(C!ActAfter)
<1>1. Len(elements) \in Nat
  BY DEF C!TypeOK, C!ElementsOK
<1>2. C!ActionByte(C!Turn.element) \in Seq(Nat)
  BY ActionByteType
<1>3. <<C!ACT>> \in Seq(Nat)
  BY DEF C!ACT
<1>4. <<C!ACT>> \o C!ActionByte(C!Turn.element) \in Seq(Nat)
  BY <1>2, <1>3, ConcatProperties
<1> QED
  BY <1>1, <1>4, AgendaMade DEF C!ActAfter

LEMMA RenderElementType ==
    ASSUME C!TypeOK, C!RenderBytes \/ C!RenderAny \/ C!RenderSimple \/ C!RenderOverride
                     \/ C!RenderReference \/ C!RenderChoice \/ C!RenderJump \/ C!RenderInline
    PROVE  C!TypeOK'
<1>1. stage = "render" /\ agenda # <<>>
  BY DEF C!RenderBytes, C!RenderAny, C!RenderSimple, C!RenderOverride, C!RenderReference,
         C!RenderChoice,
         C!RenderJump, C!RenderInline, C!Rendering
<1>2. /\ Len(elements) \in Nat /\ DOMAIN elements = 1 .. Len(elements)
      /\ list \in Seq(DOMAIN elements) /\ rendered \subseteq DOMAIN elements
      /\ AgendaOK(<<>>) /\ code \in Seq(Nat) /\ entry \in [DOMAIN elements -> Nat]
  BY <1>1, AgendaMade DEF C!TypeOK, C!ElementsOK, C!RendererOK
<1>3. CASE C!RenderBytes
  <2>1. C!Turn.bytes \in Seq(Nat)
    BY <1>1, TurnType
  <2> QED
    BY <1>1, <1>2, <1>3, <2>1, RendersType DEF C!RenderBytes
<1>4. CASE ~C!RenderBytes
  <2>1. C!Turn.do = "render"
    BY <1>4 DEF C!RenderBytes, C!RenderAny, C!RenderSimple, C!RenderOverride, C!RenderReference,
                C!RenderChoice, C!RenderJump, C!RenderInline, C!Rendering
  <2>2. /\ C!Turn.element \in 1 .. Len(elements) /\ C!Turn.tag \in 0 .. Len(elements)
        /\ C!E \in C!ElementSet(Len(elements), Len(types)) /\ C!Complete(C!E)
    BY <1>1, <2>1, TurnType
  <2>3. /\ C!ActionByte(C!Turn.element) \in Seq(Nat)
        /\ \A start \in Nat : C!EndBytes(C!Turn.element, start) \in Seq(Nat)
    BY ActionByteType, EndBytesType
  <2>4. \A byte \in C!TagBytes : byte \in Nat
    <3>1. \A byte \in C!TagBytes : byte \in 0 .. 255
      BY <1>1, <2>1, TagByteType
    <3> QED
      BY <3>1
  <2>5. C!E.children \in Seq(1 .. Len(elements)) /\ AgendaOK(C!RenderAll(C!E.children))
    <3>1. C!E.children \in Seq(1 .. Len(elements))
      BY <2>2 DEF C!ElementSet
    <3> QED
      BY <1>2, <3>1, AgendaMade
  <2>6. AgendaOK(C!ActAfter)
    BY <1>1, <2>1, ActAfterType
  <2>7. CASE C!RenderAny
    <3> DEFINE bytes == <<C!Bit(C!Conditional, 16) + 8 + C!Bit(C!HasAct, 2)>> \o C!ActionByte(C!Turn.element)
    <3>1. bytes \in Seq(Nat)
      BY <2>3, OpType, ConcatProperties
    <3>2. C!Renders(bytes, <<>>) /\ UNCHANGED <<list, rendered, entry>>
      BY <2>7 DEF C!RenderAny
    <3> HIDE DEF bytes
    <3> QED
      BY <1>1, <1>2, <3>1, <3>2, RendersType
  <2>8. CASE C!RenderSimple
    <3>5. PICK byte \in C!TagBytes :
            C!Renders(<<C!MatchOp(C!Bit(C!HasAct, 2)), byte>> \o C!ActionByte(C!Turn.element), <<>>)
      BY <2>8, Zenon DEF C!RenderSimple
    <3> DEFINE bytes == <<C!MatchOp(C!Bit(C!HasAct, 2)), byte>> \o C!ActionByte(C!Turn.element)
    <3>1. C!MatchOp(C!Bit(C!HasAct, 2)) \in Nat
      BY OpType
    <3>2. <<C!MatchOp(C!Bit(C!HasAct, 2)), byte>> \in Seq(Nat)
      BY <2>4, <3>1
    <3>3. bytes \in Seq(Nat)
      BY <2>3, <3>2, ConcatProperties
    <3>4. C!Renders(bytes, <<>>) /\ UNCHANGED <<list, rendered, entry>>
      BY <2>8, <3>5 DEF C!RenderSimple
    <3> HIDE DEF bytes
    <3> QED
      BY <1>1, <1>2, <3>3, <3>4, RendersType
  <2>9. CASE C!RenderOverride
    <3>1. C!E.compound = "TAG_OVERRIDE"
      BY <2>9 DEF C!RenderOverride, C!Rendering, C!E
    <3>2. C!E.children[1] \in 1 .. Len(elements)
      <4>1. C!E.children # <<>>
        BY <2>2, <3>1 DEF C!Complete
      <4> QED
        BY <2>5, <4>1
    <3>3. AgendaOK(<<C!Do(C!E.children[1], C!Turn.element)>>)
      <4>1. C!Turn.element \in 0 .. Len(elements)
        BY <1>2, <2>2
      <4> QED
        BY <1>2, <3>2, <4>1, AgendaMade
    <3>4. C!Renders(<<>>, <<C!Do(C!E.children[1], C!Turn.element)>>) /\ UNCHANGED <<list, rendered, entry>>
      BY <2>9 DEF C!RenderOverride
    <3>5. <<>> \in Seq(Nat)
      OBVIOUS
    <3> QED
      BY <1>1, <1>2, <3>3, <3>4, <3>5, RendersType
  <2>10. CASE C!RenderReference
    <3>1. C!E.compound = "TYPE_REF"
      BY <2>10 DEF C!RenderReference, C!Rendering, C!E
    <3>2. C!E.ref \in 1 .. Len(types)
      BY <2>2, <3>1 DEF C!Complete, C!ElementSet, C!TypeOK, C!ParserOK
    <3>3. types[C!E.ref].element \in 1 .. Len(elements)
      <4>1. /\ types \in Seq(C!TypeSet(Len(elements))) /\ defining > Len(types)
            /\ defining \in 1 .. Len(types) + 1
            /\ \A t \in 1 .. defining - 1 : types[t].element # 0
        BY <1>1 DEF C!TypeOK, C!ParserOK
      <4>2. types[C!E.ref] \in C!TypeSet(Len(elements))
        BY <3>2, <4>1, ElementOfSeq
      <4>3. types[C!E.ref].element \in 0 .. Len(elements)
        BY <4>2 DEF C!TypeSet
      <4> QED
        BY <1>2, <3>2, <4>1, <4>3
    <3>4. AgendaOK(<<C!Do(types[C!E.ref].element, C!Turn.tag)>> \o C!ActAfter)
      BY <1>2, <2>2, <2>6, <3>3, AgendaMade, AgendaJoined
    <3>5. C!Renders(<<>>, <<C!Do(types[C!E.ref].element, C!Turn.tag)>> \o C!ActAfter)
            /\ UNCHANGED <<list, rendered, entry>>
      BY <2>10 DEF C!RenderReference
    <3>6. <<>> \in Seq(Nat)
      OBVIOUS
    <3> QED
      BY <1>1, <1>2, <3>4, <3>5, <3>6, RendersType
  <2>11. CASE C!RenderChoice
    <3>1. AgendaOK(C!CondFail)
      <4>1. <<C!COND_FAIL>> \in Seq(Nat)
        BY DEF C!COND_FAIL
      <4> QED
        BY <1>2, <4>1, AgendaMade DEF C!CondFail
    <3>2. AgendaOK(C!RenderAll(C!E.children) \o C!CondFail \o C!ActAfter)
      <4>1. AgendaOK(C!RenderAll(C!E.children) \o C!CondFail)
        BY <2>5, <3>1, AgendaJoined
      <4> QED
        BY <2>6, <4>1, AgendaJoined
    <3>3. C!Renders(<<>>, C!RenderAll(C!E.children) \o C!CondFail \o C!ActAfter)
            /\ UNCHANGED <<list, rendered, entry>>
      BY <2>11 DEF C!RenderChoice
    <3>4. <<>> \in Seq(Nat)
      OBVIOUS
    <3> QED
      BY <1>1, <1>2, <3>2, <3>3, <3>4, RendersType
  <2>12. CASE C!RenderJump
    <3>5. PICK byte \in C!TagBytes :
            C!Renders(<<C!MatchOp(4), byte, entry[C!Turn.element] % 256>>, <<>>)
      BY <2>12, Zenon DEF C!RenderJump
    <3> DEFINE bytes == <<C!MatchOp(4), byte, entry[C!Turn.element] % 256>>
    <3>1. C!MatchOp(4) \in Nat /\ entry[C!Turn.element] % 256 \in Nat
      <4>1. entry[C!Turn.element] \in Nat
        BY <1>2, <2>2
      <4> QED
        BY <4>1, OpType
    <3>2. bytes \in Seq(Nat)
      BY <2>4, <3>1
    <3>3. /\ C!Renders(bytes, <<>>) /\ entry' = entry
          /\ rendered' = rendered \cup {C!Turn.element}
          /\ list' = IF C!Turn.element \in rendered THEN list ELSE Append(list, C!Turn.element)
      BY <2>12, <3>5 DEF C!RenderJump
    <3>4. list' \in Seq(DOMAIN elements) /\ rendered' \subseteq DOMAIN elements
      BY <1>2, <2>2, <3>3, AppendProperties
    <3> HIDE DEF bytes
    <3> QED
      BY <1>1, <1>2, <3>2, <3>3, <3>4, RendersType
  <2>13. CASE C!RenderInline
    <3>4. PICK byte \in C!TagBytes :
            C!Renders(<<C!MatchOp(0), byte>>, C!RenderAll(C!E.children)
                        \o <<C!Emit(C!EndBytes(C!Turn.element, Len(code) + 2))>>)
      BY <2>13, Zenon DEF C!RenderInline
    <3> DEFINE bytes == <<C!MatchOp(0), byte>>
               rest == C!RenderAll(C!E.children) \o <<C!Emit(C!EndBytes(C!Turn.element, Len(code) + 2))>>
    <3>1. bytes \in Seq(Nat)
      <4>1. C!MatchOp(0) \in Nat
        BY OpType
      <4> QED
        BY <2>4, <4>1
    <3>2. AgendaOK(rest)
      <4>1. Len(code) + 2 \in Nat
        BY <1>2
      <4>2. AgendaOK(<<C!Emit(C!EndBytes(C!Turn.element, Len(code) + 2))>>)
        BY <1>2, <2>3, <4>1, AgendaMade
      <4> QED
        BY <2>5, <4>2, AgendaJoined
    <3>3. C!Renders(bytes, rest) /\ UNCHANGED <<list, rendered, entry>>
      BY <2>13, <3>4 DEF C!RenderInline
    <3> HIDE DEF bytes, rest
    <3> QED
      BY <1>1, <1>2, <3>1, <3>2, <3>3, RendersType
  <2> QED
    BY <1>4, <2>7, <2>8, <2>9, <2>10, <2>11, <2>12, <2>13
<1> QED
  BY <1>3, <1>4

LEMMA StartPassType == C!TypeOK /\ (C!StartPass1 \/ C!StartPass2 \/ C!FinishRender) => C!TypeOK'
<1> SUFFICES ASSUME C!TypeOK, C!StartPass1 \/ C!StartPass2 \/ C!FinishRender PROVE C!TypeOK'
  OBVIOUS
<1>1. /\ Len(elements) \in Nat /\ DOMAIN elements = 1 .. Len(elements) /\ code \in Seq(Nat)
      /\ list \in Seq(DOMAIN elements) /\ rendered \subseteq DOMAIN elements
  BY DEF C!TypeOK, C!ElementsOK, C!RendererOK
<1>2. CASE C!FinishRender
  <2>1. /\ stage = "render" /\ stage' = "done" /\ agenda = <<>> /\ list = <<>> /\ pass = 2
        /\ UNCHANGED <<grammar, C!scanner, C!parser, C!renderer>>
    BY <1>2 DEF C!FinishRender, C!PassEnds, C!Rendered
  <2>2. C!ScannerOK' /\ C!ElementsOK' /\ C!ParserOK'
    BY <2>1 DEF C!TypeOK, C!ScannerOK, C!ElementsOK, C!ParserOK, C!scanner, C!parser, C!InDefinition
  <2>3. C!RendererOK'
    BY <2>1 DEF C!TypeOK, C!RendererOK, C!renderer, C!parser
  <2> QED
    BY <2>1, <2>2, <2>3 DEF C!TypeOK, C!Stages, C!Ends
<1>3. CASE C!StartPass1 \/ C!StartPass2
  <2>1. /\ stage \in {"define", "render"} /\ defining > Len(types) /\ types # <<>>
        /\ stage' = "render" /\ pass' \in 1 .. 2 /\ agenda' = C!Root /\ C!Rendered
    BY <1>3 DEF C!StartPass1, C!StartPass2, C!PassEnds, C!Stopped, C!TypeOK, C!ParserOK
  <2>2. AgendaOK(C!Root)
    <3>1. /\ types \in Seq(C!TypeSet(Len(elements))) /\ 1 \in 1 .. Len(types)
          /\ defining \in 1 .. Len(types) + 1
          /\ \A t \in 1 .. defining - 1 : types[t].element # 0
      BY <2>1 DEF C!TypeOK, C!ParserOK
    <3>2. types[1] \in C!TypeSet(Len(elements))
      BY <3>1, ElementOfSeq
    <3>3. types[1].element \in 0 .. Len(elements)
      BY <3>2 DEF C!TypeSet
    <3>4. types[1].element \in 1 .. Len(elements)
      BY <1>1, <2>1, <3>1, <3>3
    <3>5. <<C!COMPLETE>> \in Seq(Nat) /\ 0 \in 0 .. Len(elements)
      BY <1>1 DEF C!COMPLETE
    <3>6. AgendaOK(<<C!Do(types[1].element, 0)>>) /\ AgendaOK(<<C!Emit(<<C!COMPLETE>>)>>)
      BY <1>1, <3>4, <3>5, AgendaMade
    <3>7. C!Root = <<C!Do(types[1].element, 0)>> \o <<C!Emit(<<C!COMPLETE>>)>>
      BY DEF C!Root
    <3> QED
      BY <3>6, <3>7, AgendaJoined
  <2>3. /\ entry' \in [DOMAIN elements -> Nat] /\ list' \in Seq(DOMAIN elements)
        /\ rendered' \subseteq DOMAIN elements /\ code' \in Seq(Nat)
    <3>1. CASE C!StartPass1
      BY <1>1, <3>1 DEF C!StartPass1
    <3>2. CASE C!StartPass2
      BY <1>1, <3>2 DEF C!StartPass2, C!PassEnds, C!Restarted, C!TypeOK, C!RendererOK
    <3> QED
      BY <1>3, <3>1, <3>2
  <2> QED
    BY <2>1, <2>2, <2>3, RenderedType
<1> QED
  BY <1>2, <1>3

LEMMA RenderSubroutineType == C!TypeOK /\ C!RenderSubroutine => C!TypeOK'
<1> SUFFICES ASSUME C!TypeOK, C!RenderSubroutine PROVE C!TypeOK'
  OBVIOUS
<1>1. /\ elements \in Seq(C!ElementSet(Len(elements), Len(types)))
      /\ Len(elements) \in Nat /\ DOMAIN elements = 1 .. Len(elements) /\ code \in Seq(Nat)
      /\ list \in Seq(DOMAIN elements) /\ list # <<>> /\ rendered \subseteq DOMAIN elements
      /\ stage = "render" /\ pass \in 1 .. 2 /\ entry \in [DOMAIN elements -> Nat]
      /\ defining > Len(types)
  <2>1. stage = "render" /\ list # <<>>
    BY DEF C!RenderSubroutine
  <2>2. /\ elements \in Seq(C!ElementSet(Len(elements), Len(types))) /\ Len(elements) \in Nat
        /\ DOMAIN elements = 1 .. Len(elements)
    BY DEF C!TypeOK, C!ElementsOK
  <2>3. /\ code \in Seq(Nat) /\ list \in Seq(DOMAIN elements) /\ rendered \subseteq DOMAIN elements
        /\ pass \in 1 .. 2 /\ entry \in [DOMAIN elements -> Nat]
    BY <2>1 DEF C!TypeOK, C!RendererOK
  <2>4. defining > Len(types)
    BY <2>1 DEF C!TypeOK, C!ParserOK
  <2> QED
    BY <2>1, <2>2, <2>3, <2>4
<1> DEFINE e == Head(list)
           last == C!EndBytes(e, Len(code)) \o <<C!RETURN>>
<1>2. /\ e \in DOMAIN elements /\ Tail(list) \in Seq(DOMAIN elements)
      /\ entry' = [entry EXCEPT ![e] = Len(code)] /\ list' = Tail(list)
      /\ agenda' = C!RenderAll(elements[e].children) \o <<C!Emit(last)>>
      /\ UNCHANGED <<stage, pass, rendered, code>> /\ C!Rendered
  BY <1>1 DEF C!RenderSubroutine
<1>3. AgendaOK(C!RenderAll(elements[e].children))
  <2>1. elements[e] \in C!ElementSet(Len(elements), Len(types))
    BY <1>1, <1>2, ElementOfSeq
  <2>2. elements[e].children \in Seq(1 .. Len(elements))
    BY <2>1 DEF C!ElementSet
  <2> HIDE DEF e
  <2> QED
    BY <1>1, <2>2, AgendaMade
<1>4. AgendaOK(<<C!Emit(last)>>)
  <2>1. Len(code) \in Nat
    BY <1>1
  <2>2. C!EndBytes(e, Len(code)) \in Seq(Nat) /\ <<C!RETURN>> \in Seq(Nat)
    BY <2>1, EndBytesType DEF C!RETURN
  <2>3. last \in Seq(Nat)
    BY <2>2, ConcatProperties
  <2> QED
    BY <1>1, <2>3, AgendaMade
<1> HIDE DEF last, e
<1>5. AgendaOK(agenda')
  BY <1>2, <1>3, <1>4, AgendaJoined
<1>6. entry' \in [DOMAIN elements -> Nat]
  BY <1>1, <1>2
<1> QED
  BY <1>1, <1>2, <1>5, <1>6, RenderedType

LEMMA RenderTypeOK == C!TypeOK /\ C!Render => C!TypeOK'
<1>1. C!TypeOK /\ C!RenderSet => C!TypeOK'
  BY RefuseType DEF C!RenderSet
<1>2. C!TypeOK /\ C!RenderBeyond => C!TypeOK'
  BY DEF C!RenderBeyond, C!Rendering, C!Rendered, C!TypeOK, C!ScannerOK, C!ElementsOK, C!ParserOK,
         C!RendererOK, C!scanner, C!parser, C!renderer, C!Stages, C!Ends, C!InDefinition
<1> QED
  BY <1>1, <1>2, StartPassType, RenderElementType, RenderSubroutineType DEF C!Render

LEMMA TypeStep == C!TypeOK /\ [C!Next]_(C!vars) => C!TypeOK'
<1>1. C!TypeOK /\ C!Next => C!TypeOK'
  BY TokeniseType, ParseTypeOK, RenderTypeOK DEF C!Next
<1>2. C!TypeOK /\ UNCHANGED C!vars => C!TypeOK'
  <2> SUFFICES ASSUME C!TypeOK, UNCHANGED C!vars PROVE C!TypeOK'
    OBVIOUS
  <2>1. UNCHANGED <<grammar, stage, C!scanner, C!parser, C!renderer>>
    BY DEF C!vars
  <2>2. C!ScannerOK' /\ C!ElementsOK'
    BY <2>1 DEF C!TypeOK, C!scanner, C!parser, C!ScannerOK, C!ElementsOK
  <2>3. C!ParserOK'
    BY <2>1 DEF C!TypeOK, C!parser, C!ParserOK, C!InDefinition
  <2>4. C!RendererOK'
    BY <2>1 DEF C!TypeOK, C!parser, C!renderer, C!RendererOK
  <2> QED
    BY <2>1, <2>2, <2>3, <2>4 DEF C!TypeOK
<1> QED
  BY <1>1, <1>2

----------------------------------------------------------------------------
(* The second pass does what the first did.                                *)

(* What a pass has come to, and what is left to it: everything but the     *)
(* values of the bytes.                                                    *)
Pass == [agenda |-> agenda, list |-> list, rendered |-> rendered, len |-> Len(code)]

(* The bytes of the turn u, and what it leaves to the agenda when len      *)
(* bytes have been rendered before it.                                     *)
Kind(u) == elements[u.element].compound
SkippableAt(u) == elements[u.element].skip \/ (u.tag # 0 /\ elements[u.tag].skip)
JumpsAt(u) ==
    /\ u.do = "render" /\ Kind(u) \in C!Compound
    /\ \/ elements[u.element].type_def # 0 /\ types[elements[u.element].type_def].refs > 1
       \/ SkippableAt(u)
ActAfterAt(u) ==
    IF elements[u.element].action # "none" THEN <<C!Emit(<<C!ACT>> \o C!ActionByte(u.element))>>
    ELSE <<>>

Size(u) ==
    IF u.do = "emit" THEN Len(u.bytes)
    ELSE IF Kind(u) = "ANY" THEN 1 + Len(C!ActionByte(u.element))
    ELSE IF Kind(u) = "NOT_COMPOUND" THEN 2 + Len(C!ActionByte(u.element))
    ELSE IF JumpsAt(u) THEN 3
    ELSE IF Kind(u) \in C!Compound THEN 2
    ELSE 0

Left(u, start) ==
    IF u.do = "emit" \/ JumpsAt(u) THEN <<>>
    ELSE IF Kind(u) = "TAG_OVERRIDE" THEN <<C!Do(elements[u.element].children[1], u.element)>>
    ELSE IF Kind(u) = "TYPE_REF"
         THEN <<C!Do(types[elements[u.element].ref].element, u.tag)>> \o ActAfterAt(u)
    ELSE IF Kind(u) = "CHOICE"
         THEN C!RenderAll(elements[u.element].children)
                \o (IF SkippableAt(u) THEN <<>> ELSE <<C!Emit(<<C!COND_FAIL>>)>>) \o ActAfterAt(u)
    ELSE IF Kind(u) \in C!Compound
         THEN C!RenderAll(elements[u.element].children) \o <<C!Emit(C!EndBytes(u.element, start + 2))>>
    ELSE <<>>

(* A pass one step on.                                                     *)
After(p) ==
    IF p.agenda = <<>>
    THEN [ agenda |-> C!RenderAll(elements[Head(p.list)].children)
                        \o <<C!Emit(C!EndBytes(Head(p.list), p.len) \o <<C!RETURN>>)>>,
           list |-> Tail(p.list), rendered |-> p.rendered, len |-> p.len ]
    ELSE [ agenda |-> Left(Head(p.agenda), p.len) \o Tail(p.agenda),
           list |-> IF JumpsAt(Head(p.agenda)) /\ Head(p.agenda).element \notin p.rendered
                    THEN Append(p.list, Head(p.agenda).element) ELSE p.list,
           rendered |-> IF JumpsAt(Head(p.agenda)) THEN p.rendered \cup {Head(p.agenda).element}
                        ELSE p.rendered,
           len |-> p.len + Size(Head(p.agenda)) ]

RenderTurn == \/ C!RenderBytes \/ C!RenderAny \/ C!RenderSimple \/ C!RenderOverride \/ C!RenderReference
              \/ C!RenderChoice \/ C!RenderJump \/ C!RenderInline

(* A step of render_element is one of its pass.                            *)
LEMMA ThreeBytes ==
    ASSUME NEW x \in Nat, NEW y \in Nat, NEW z \in Nat
    PROVE  <<x, y, z>> \in Seq(Nat) /\ Len(<<x, y, z>>) = 3
OBVIOUS

LEMMA TurnStep ==
    ASSUME C!TypeOK, RenderTurn
    PROVE  /\ Pass' = After(Pass) /\ agenda # <<>> /\ stage = "render"
           /\ UNCHANGED <<stage, pass, entry>> /\ C!Rendered
           /\ list' # list => C!Turn.element \notin rendered /\ list' = Append(list, C!Turn.element)
                                /\ C!Turn.element \in rendered'
           /\ rendered \subseteq rendered'
<1>1. stage = "render" /\ agenda # <<>> /\ UNCHANGED <<stage, pass, entry>> /\ C!Rendered
  BY DEF RenderTurn, C!RenderBytes, C!RenderAny, C!RenderSimple, C!RenderOverride,
         C!RenderReference,
         C!RenderChoice, C!RenderJump, C!RenderInline, C!Rendering, C!Renders
<1>2. /\ code \in Seq(Nat) /\ Len(code) \in Nat
      /\ C!Turn.bytes \in Seq(Nat) /\ C!Turn.do \in {"emit", "render"}
      /\ C!ActionByte(C!Turn.element) \in Seq(Nat)
  <2>1. code \in Seq(Nat)
    BY DEF C!TypeOK, C!RendererOK
  <2> QED
    BY <1>1, <2>1, TurnType, ActionByteType
<1>3. ASSUME NEW bytes \in Seq(Nat), NEW rest, C!Renders(bytes, rest)
      PROVE  agenda' = rest \o Tail(agenda) /\ Len(code') = Len(code) + Len(bytes)
  BY <1>2, <1>3, ConcatProperties DEF C!Renders
<1>4. /\ agenda' = Left(C!Turn, Len(code)) \o Tail(agenda)
      /\ Len(code') = Len(code) + Size(C!Turn)
      /\ list' = IF JumpsAt(C!Turn) /\ C!Turn.element \notin rendered
                 THEN Append(list, C!Turn.element) ELSE list
      /\ rendered' = IF JumpsAt(C!Turn) THEN rendered \cup {C!Turn.element} ELSE rendered
  <2>1. CASE C!RenderBytes
    <3>1. C!Turn.do = "emit" /\ C!Renders(C!Turn.bytes, <<>>) /\ UNCHANGED <<list, rendered>>
      BY <2>1 DEF C!RenderBytes
    <3>2. Left(C!Turn, Len(code)) = <<>> /\ Size(C!Turn) = Len(C!Turn.bytes) /\ ~JumpsAt(C!Turn)
      BY <3>1 DEF Left, Size, JumpsAt
    <3> QED
      BY <1>2, <1>3, <3>1, <3>2
  <2>2. CASE C!RenderAny
    <3> DEFINE op == C!Bit(C!Conditional, 16) + 8 + C!Bit(C!HasAct, 2)
               bytes == <<op>> \o C!ActionByte(C!Turn.element)
    <3>1. /\ C!Turn.do = "render" /\ Kind(C!Turn) = "ANY"
          /\ C!Renders(bytes, <<>>) /\ UNCHANGED <<list, rendered>>
      BY <2>2 DEF C!RenderAny, C!Rendering, Kind
    <3>2. /\ Left(C!Turn, Len(code)) = <<>> /\ Size(C!Turn) = 1 + Len(C!ActionByte(C!Turn.element))
          /\ ~JumpsAt(C!Turn)
      BY <3>1 DEF Left, Size, JumpsAt, C!Compound
    <3>3. op \in Nat
      BY OpType
    <3> HIDE DEF op
    <3>4. <<op>> \in Seq(Nat) /\ Len(<<op>>) = 1
      BY <3>3
    <3>5. bytes \in Seq(Nat) /\ Len(bytes) = 1 + Len(C!ActionByte(C!Turn.element))
      BY <1>2, <3>4, ConcatProperties
    <3> HIDE DEF bytes
    <3> QED
      BY <1>3, <3>1, <3>2, <3>5
  <2>3. CASE C!RenderSimple
    <3>7. PICK byte \in C!TagBytes :
            C!Renders(<<C!MatchOp(C!Bit(C!HasAct, 2)), byte>> \o C!ActionByte(C!Turn.element), <<>>)
      BY <2>3, Zenon DEF C!RenderSimple
    <3> DEFINE op == C!MatchOp(C!Bit(C!HasAct, 2))
               bytes == <<op, byte>> \o C!ActionByte(C!Turn.element)
    <3>1. /\ C!Turn.do = "render" /\ Kind(C!Turn) = "NOT_COMPOUND"
          /\ C!Renders(bytes, <<>>) /\ UNCHANGED <<list, rendered>>
      BY <2>3, <3>7 DEF C!RenderSimple, C!Rendering, Kind
    <3>2. /\ Left(C!Turn, Len(code)) = <<>> /\ Size(C!Turn) = 2 + Len(C!ActionByte(C!Turn.element))
          /\ ~JumpsAt(C!Turn)
      BY <3>1 DEF Left, Size, JumpsAt, C!Compound
    <3>3. op \in Nat
      BY OpType
    <3>4. byte \in 0 .. 255
      BY <1>1, <3>1, TagByteType
    <3> HIDE DEF op
    <3>5. <<op, byte>> \in Seq(Nat) /\ Len(<<op, byte>>) = 2
      BY <3>3, <3>4
    <3>6. bytes \in Seq(Nat) /\ Len(bytes) = 2 + Len(C!ActionByte(C!Turn.element))
      BY <1>2, <3>5, ConcatProperties
    <3> HIDE DEF bytes
    <3> QED
      BY <1>3, <3>1, <3>2, <3>6
  <2>4. CASE C!RenderOverride
    <3>1. /\ C!Turn.do = "render" /\ Kind(C!Turn) = "TAG_OVERRIDE" /\ UNCHANGED <<list, rendered>>
          /\ C!Renders(<<>>, <<C!Do(C!E.children[1], C!Turn.element)>>)
      BY <2>4 DEF C!RenderOverride, C!Rendering, Kind
    <3>2. ~JumpsAt(C!Turn) /\ Size(C!Turn) = 0
      BY <3>1 DEF JumpsAt, C!Compound, Size
    <3>3. Left(C!Turn, Len(code)) = <<C!Do(C!E.children[1], C!Turn.element)>>
      BY <3>1, <3>2, Zenon DEF Left, C!E
    <3>4. <<>> \in Seq(Nat) /\ Len(<<>>) = 0
      OBVIOUS
    <3> QED
      BY <1>3, <3>1, <3>2, <3>3, <3>4
  <2>5. CASE C!RenderReference
    <3>1. /\ C!Turn.do = "render" /\ Kind(C!Turn) = "TYPE_REF" /\ UNCHANGED <<list, rendered>>
          /\ C!Renders(<<>>, <<C!Do(types[C!E.ref].element, C!Turn.tag)>> \o C!ActAfter)
      BY <2>5 DEF C!RenderReference, C!Rendering, Kind
    <3>2. ~JumpsAt(C!Turn) /\ Size(C!Turn) = 0
      BY <3>1 DEF JumpsAt, C!Compound, Size
    <3>3. Left(C!Turn, Len(code)) = <<C!Do(types[C!E.ref].element, C!Turn.tag)>> \o C!ActAfter
      <4>1. ActAfterAt(C!Turn) = C!ActAfter
        BY Zenon DEF ActAfterAt, C!ActAfter, C!HasAct, C!E
      <4> QED
        BY <3>1, <3>2, <4>1, Zenon DEF Left, C!E
    <3>4. <<>> \in Seq(Nat) /\ Len(<<>>) = 0
      OBVIOUS
    <3> QED
      BY <1>3, <3>1, <3>2, <3>3, <3>4
  <2>6. CASE C!RenderChoice
    <3>1. /\ C!Turn.do = "render" /\ Kind(C!Turn) = "CHOICE" /\ UNCHANGED <<list, rendered>>
          /\ C!Renders(<<>>, C!RenderAll(C!E.children) \o C!CondFail \o C!ActAfter)
      BY <2>6 DEF C!RenderChoice, C!Rendering, Kind
    <3>2. ~JumpsAt(C!Turn) /\ Size(C!Turn) = 0
      BY <3>1 DEF JumpsAt, C!Compound, Size
    <3>3. Left(C!Turn, Len(code)) = C!RenderAll(C!E.children) \o C!CondFail \o C!ActAfter
      <4>1. ActAfterAt(C!Turn) = C!ActAfter
        BY Zenon DEF ActAfterAt, C!ActAfter, C!HasAct, C!E
      <4>2. (IF SkippableAt(C!Turn) THEN <<>> ELSE <<C!Emit(<<C!COND_FAIL>>)>>) = C!CondFail
        BY Zenon DEF SkippableAt, C!CondFail, C!Skippable, C!E
      <4> QED
        BY <3>1, <3>2, <4>1, <4>2, Zenon DEF Left, C!E
    <3>4. <<>> \in Seq(Nat) /\ Len(<<>>) = 0
      OBVIOUS
    <3> QED
      BY <1>3, <3>1, <3>2, <3>3, <3>4
  <2>7. CASE C!RenderJump
    <3>5. PICK byte \in C!TagBytes :
            C!Renders(<<C!MatchOp(4), byte, entry[C!Turn.element] % 256>>, <<>>)
      BY <2>7, Zenon DEF C!RenderJump
    <3> DEFINE bytes == <<C!MatchOp(4), byte, entry[C!Turn.element] % 256>>
    <3>1. /\ C!Turn.do = "render" /\ Kind(C!Turn) \in C!Compound /\ C!OutOfLine
          /\ C!Renders(bytes, <<>>)
          /\ rendered' = rendered \cup {C!Turn.element}
          /\ list' = IF C!Turn.element \in rendered THEN list ELSE Append(list, C!Turn.element)
      BY <2>7, <3>5 DEF C!RenderJump, C!Rendering, Kind
    <3>2. JumpsAt(C!Turn)
      BY <3>1 DEF JumpsAt, C!OutOfLine, SkippableAt, C!Skippable, C!E
    <3>3. Left(C!Turn, Len(code)) = <<>> /\ Size(C!Turn) = 3
      BY <3>1, <3>2 DEF Left, Size, C!Compound
    <3>4. bytes \in Seq(Nat) /\ Len(bytes) = 3
      <4>1. C!MatchOp(4) \in Nat
        BY OpType
      <4>2. byte \in 0 .. 255
        BY <1>1, <3>1, TagByteType
      <4>3. entry[C!Turn.element] \in Nat
        BY <1>1, <3>1, TurnType DEF C!TypeOK, C!RendererOK, C!ElementsOK
      <4> DEFINE x == C!MatchOp(4)
                 y == byte
                 z == entry[C!Turn.element] % 256
      <4>4. x \in Nat /\ y \in Nat /\ z \in Nat
        <5> DEFINE start == entry[C!Turn.element]
        <5>1. start \in Nat
          BY <4>3
        <5> HIDE DEF start
        <5>2. start % 256 \in Nat
          BY <5>1
        <5>3. z \in Nat
          BY <5>2 DEF start
        <5> HIDE DEF z
        <5> QED
          BY <4>1, <4>2, <5>3
      <4> HIDE DEF x, y, z
      <4>5. <<x, y, z>> \in Seq(Nat) /\ Len(<<x, y, z>>) = 3
        BY <4>4, ThreeBytes
      <4>6. bytes = <<x, y, z>>
        BY DEF x, y, z
      <4> HIDE DEF bytes
      <4> QED
        BY <4>5, <4>6
    <3> HIDE DEF bytes
    <3> QED
      BY <1>3, <3>1, <3>2, <3>3, <3>4
  <2>8. CASE C!RenderInline
    <3>6. PICK byte \in C!TagBytes :
            C!Renders(<<C!MatchOp(0), byte>>, C!RenderAll(C!E.children)
                        \o <<C!Emit(C!EndBytes(C!Turn.element, Len(code) + 2))>>)
      BY <2>8, Zenon DEF C!RenderInline
    <3> DEFINE bytes == <<C!MatchOp(0), byte>>
               rest == C!RenderAll(C!E.children) \o <<C!Emit(C!EndBytes(C!Turn.element, Len(code) + 2))>>
    <3>1. /\ C!Turn.do = "render" /\ Kind(C!Turn) \in C!Compound /\ ~C!OutOfLine
          /\ C!Renders(bytes, rest) /\ UNCHANGED <<list, rendered>>
      BY <2>8, <3>6 DEF C!RenderInline, C!Rendering, Kind
    <3>2. ~JumpsAt(C!Turn)
      BY <3>1 DEF JumpsAt, C!OutOfLine, SkippableAt, C!Skippable, C!E
    <3>3. Size(C!Turn) = 2
      BY <3>1, <3>2 DEF Size, C!Compound
    <3>4. Left(C!Turn, Len(code)) = rest
      <4>1. Kind(C!Turn) \notin {"TAG_OVERRIDE", "TYPE_REF", "CHOICE"}
        BY <3>1 DEF C!Compound
      <4> QED
        BY <3>1, <3>2, <4>1, Zenon DEF Left, C!E
    <3>5. bytes \in Seq(Nat) /\ Len(bytes) = 2
      <4>1. C!MatchOp(0) \in Nat
        BY OpType
      <4>2. byte \in 0 .. 255
        BY <1>1, <3>1, TagByteType
      <4> QED
        BY <4>1, <4>2
    <3> HIDE DEF bytes, rest
    <3> QED
      BY <1>3, <3>1, <3>2, <3>3, <3>4, <3>5
  <2> QED
    BY <2>1, <2>2, <2>3, <2>4, <2>5, <2>6, <2>7, <2>8 DEF RenderTurn
<1>5. Pass' = After(Pass)
  <2> DEFINE q == [ agenda |-> Left(C!Turn, Len(code)) \o Tail(agenda),
                    list |-> IF JumpsAt(C!Turn) /\ C!Turn.element \notin rendered
                             THEN Append(list, C!Turn.element) ELSE list,
                    rendered |-> IF JumpsAt(C!Turn) THEN rendered \cup {C!Turn.element} ELSE rendered,
                    len |-> Len(code) + Size(C!Turn) ]
  <2>1. Pass' = q
    BY <1>4, Zenon DEF Pass
  <2>2. After(Pass) = q
    BY <1>1 DEF After, Pass, C!Turn
  <2> QED
    BY <2>1, <2>2
<1>6. rendered \subseteq rendered'
  BY <1>4
<1> QED
  BY <1>1, <1>4, <1>5, <1>6

(* So is the step that begins a subroutine.                                *)
LEMMA SubroutineStep ==
    ASSUME C!TypeOK, C!RenderSubroutine
    PROVE  /\ Pass' = After(Pass) /\ C!Rendered /\ UNCHANGED <<stage, pass, rendered>>
           /\ agenda = <<>> /\ list # <<>> /\ list' = Tail(list)
           /\ entry' = [entry EXCEPT ![Head(list)] = Len(code)]
<1>1. /\ C!Rendered /\ UNCHANGED <<stage, pass, rendered, code>>
      /\ agenda = <<>> /\ list # <<>> /\ list' = Tail(list)
      /\ entry' = [entry EXCEPT ![Head(list)] = Len(code)]
      /\ agenda' = C!RenderAll(elements[Head(list)].children)
                     \o <<C!Emit(C!EndBytes(Head(list), Len(code)) \o <<C!RETURN>>)>>
  BY Zenon DEF C!RenderSubroutine
<1> DEFINE q == [ agenda |-> C!RenderAll(elements[Head(list)].children)
                               \o <<C!Emit(C!EndBytes(Head(list), Len(code)) \o <<C!RETURN>>)>>,
                  list |-> Tail(list), rendered |-> rendered, len |-> Len(code) ]
<1>2. Pass' = q
  BY <1>1, Zenon DEF Pass
<1>3. After(Pass) = q
  BY <1>1 DEF After, Pass
<1> QED
  BY <1>1, <1>2, <1>3

(* What a step does depends on nothing that a pass changes.                *)
LEMMA SameSteps ==
    ASSUME UNCHANGED C!parser
    PROVE  C!Root' = C!Root /\ \A p : After(p)' = After(p)
<1>1. UNCHANGED <<types, elements, actions>>
  BY DEF C!parser
<1>2. C!Root' = C!Root
  BY <1>1 DEF C!Root
<1>3. \A e : C!ActionByte(e)' = C!ActionByte(e)
  BY <1>1, Zenon DEF C!ActionByte, C!ActionIndex
<1>4. \A e, start : C!EndBytes(e, start)' = C!EndBytes(e, start)
  BY <1>1, <1>3, Zenon DEF C!EndBytes, C!EndOp
<1>5. \A u : Kind(u)' = Kind(u) /\ SkippableAt(u)' = SkippableAt(u)
  BY <1>1, Zenon DEF Kind, SkippableAt
<1>6. \A u : ActAfterAt(u)' = ActAfterAt(u)
  BY <1>1, <1>3, Zenon DEF ActAfterAt
<1>7. \A u : JumpsAt(u)' = JumpsAt(u)
  BY <1>1, <1>5, Zenon DEF JumpsAt
<1>8. \A u : Size(u)' = Size(u)
  BY <1>3, <1>5, <1>7, Zenon DEF Size
<1>9. \A u, start : Left(u, start)' = Left(u, start)
  BY <1>1, <1>4, <1>5, <1>6, <1>7, Zenon DEF Left
<1>10. \A p : After(p)' = After(p)
  BY <1>1, <1>4, <1>7, <1>8, <1>9, Zenon DEF After
<1> QED
  BY <1>2, <1>10

(* A course of n steps through a pass, in which the places of the          *)
(* subroutines have been noted.                                            *)
Begin == [agenda |-> C!Root, list |-> <<>>, rendered |-> {}, len |-> 0]
Course(tr, n) == tr[0] = Begin /\ \A m \in 0 .. n - 1 : tr[m + 1] = After(tr[m])
Noted(tr, n) ==
    \A m \in 0 .. n - 1 : tr[m].agenda = <<>> => entry[Head(tr[m].list)] = tr[m].len

(* The first pass has noted each only once,                                *)
Once(tr, n) ==
    \A m \in 0 .. n - 1 :
        tr[m].agenda = <<>> =>
          Head(tr[m].list) \in rendered /\ \A i \in DOMAIN list : list[i] # Head(tr[m].list)
ListOnce ==
    /\ \A i, j \in DOMAIN list : list[i] = list[j] => i = j
    /\ \A i \in DOMAIN list : list[i] \in rendered
FirstPass(tr, n) == Course(tr, n) /\ Noted(tr, n) /\ Once(tr, n) /\ tr[n] = Pass

(* and the second is somewhere on its course.                              *)
SecondPass(tr, n, k) ==
    Course(tr, n) /\ Noted(tr, n) /\ tr[n].agenda = <<>> /\ tr[n].list = <<>> /\ tr[k] = Pass

CourseInv ==
    /\ pass = 1 => ListOnce /\ \E n \in Nat : \E tr : FirstPass(tr, n)
    /\ pass = 2 => \E n \in Nat : \E k \in 0 .. n : \E tr : SecondPass(tr, n, k)

LEMMA SameCourse ==
    ASSUME UNCHANGED C!parser, NEW tr, NEW n \in Nat, Course(tr, n)
    PROVE  Course(tr, n)'
<1>1. Begin' = Begin /\ \A p : After(p)' = After(p)
  BY SameSteps DEF Begin
<1>2. \A m \in 0 .. n - 1 : After(tr[m])' = After(tr[m])
  BY <1>1
<1> QED
  BY <1>1, <1>2 DEF Course

LEMMA LongerCourse ==
    ASSUME NEW tr, NEW n \in Nat, Course(tr, n), NEW p, p = After(tr[n])
    PROVE  LET more == [m \in 0 .. n + 1 |-> IF m <= n THEN tr[m] ELSE p]
           IN  Course(more, n + 1) /\ more[n + 1] = p /\ \A m \in 0 .. n : more[m] = tr[m]
<1> DEFINE more == [m \in 0 .. n + 1 |-> IF m <= n THEN tr[m] ELSE p]
<1>1. more[n + 1] = p /\ \A m \in 0 .. n : more[m] = tr[m]
  OBVIOUS
<1> HIDE DEF more
<1>2. more[0] = Begin
  BY <1>1 DEF Course
<1>3. ASSUME NEW m \in 0 .. n PROVE more[m + 1] = After(more[m])
  <2>1. CASE m = n
    BY <1>1, <2>1
  <2>2. CASE m # n
    <3>1. m \in 0 .. n - 1 /\ m + 1 \in 0 .. n
      BY <2>2
    <3> QED
      BY <1>1, <3>1 DEF Course
  <2> QED
    BY <2>1, <2>2
<1> QED
  BY <1>1, <1>2, <1>3 DEF Course, more

LEMMA CourseSame == ASSUME CourseInv, UNCHANGED <<C!parser, C!renderer>> PROVE CourseInv'
<1>1. UNCHANGED C!parser /\ UNCHANGED <<pass, agenda, list, rendered, entry, code>>
  BY DEF C!renderer
<1>2. Pass' = Pass /\ \A tr, n : Noted(tr, n)' = Noted(tr, n) /\ Once(tr, n)' = Once(tr, n)
  BY <1>1, Zenon DEF Pass, Noted, Once
<1>3. ASSUME pass = 1 PROVE ListOnce' /\ \E n \in Nat : \E tr : FirstPass(tr, n)'
  <2>1. PICK n \in Nat : \E tr : FirstPass(tr, n)
    BY <1>3 DEF CourseInv
  <2>2. PICK tr : FirstPass(tr, n)
    BY <2>1
  <2>3. FirstPass(tr, n)'
    BY <1>1, <1>2, <2>2, SameCourse DEF FirstPass
  <2>4. ListOnce'
    BY <1>1, <1>3 DEF CourseInv, ListOnce
  <2> QED
    BY <2>3, <2>4
<1>4. ASSUME pass = 2 PROVE \E n \in Nat : \E k \in 0 .. n : \E tr : SecondPass(tr, n, k)'
  <2>1. PICK n \in Nat : \E k \in 0 .. n : \E tr : SecondPass(tr, n, k)
    BY <1>4 DEF CourseInv
  <2>2. PICK k \in 0 .. n : \E tr : SecondPass(tr, n, k)
    BY <2>1
  <2>a. PICK tr : SecondPass(tr, n, k)
    BY <2>2
  <2>3. SecondPass(tr, n, k)'
    BY <1>1, <1>2, <2>a, SameCourse DEF SecondPass
  <2> QED
    BY <2>3
<1> QED
  BY <1>1, <1>3, <1>4 DEF CourseInv

LEMMA CourseStart == C!TypeOK /\ CourseInv /\ (C!StartPass1 \/ C!StartPass2) => CourseInv'
<1> SUFFICES ASSUME C!TypeOK, CourseInv, C!StartPass1 \/ C!StartPass2 PROVE CourseInv'
  OBVIOUS
<1>1. UNCHANGED C!parser
  BY DEF C!StartPass1, C!StartPass2, C!Rendered
<1>2. Pass' = Begin'
  <2>1. agenda' = C!Root' /\ list' = <<>> /\ rendered' = {} /\ code' = <<>>
    <3>1. C!Root' = C!Root
      BY <1>1, SameSteps
    <3>2. CASE C!StartPass1
      <4>1. pass = 0
        BY <3>2 DEF C!StartPass1, C!TypeOK, C!RendererOK
      <4> QED
        BY <3>1, <3>2, <4>1 DEF C!StartPass1, C!TypeOK, C!RendererOK
    <3>3. CASE C!StartPass2
      BY <3>1, <3>3 DEF C!StartPass2, C!PassEnds, C!Restarted
    <3> QED
      BY <3>2, <3>3
  <2>2. Len(code') = 0
    BY <2>1
  <2> QED
    BY <2>1, <2>2, Zenon DEF Pass, Begin
<1>3. CASE C!StartPass1
  <2>p. PICK p : p = Pass'
    OBVIOUS
  <2>t. PICK tr : tr = [m \in 0 .. 0 |-> p]
    OBVIOUS
  <2>1. FirstPass(tr, 0)'
    <3>1. tr[0] = Pass'
      BY <2>p, <2>t
    <3>2. 0 .. 0 - 1 = {}
      OBVIOUS
    <3>3. Course(tr, 0)'
      BY <1>2, <3>1, <3>2 DEF Course
    <3>4. Noted(tr, 0)' /\ Once(tr, 0)'
      BY <3>2, Zenon DEF Noted, Once
    <3> QED
      BY <3>1, <3>3, <3>4 DEF FirstPass
  <2>2. ListOnce'
    <3>1. pass = 0
      BY <1>3 DEF C!StartPass1, C!TypeOK, C!RendererOK
    <3>2. list' = <<>>
      BY <1>3, <3>1 DEF C!StartPass1, C!TypeOK, C!RendererOK
    <3> QED
      BY <3>2 DEF ListOnce
  <2>3. pass' = 1 /\ 0 \in Nat
    BY <1>3 DEF C!StartPass1
  <2>4. \E n \in Nat : \E w : FirstPass(w, n)'
    BY <2>1, <2>3
  <2> QED
    BY <2>2, <2>3, <2>4 DEF CourseInv
<1>4. CASE C!StartPass2
  <2>1. pass = 1 /\ pass' = 2 /\ agenda = <<>> /\ list = <<>> /\ entry' = entry
    BY <1>4 DEF C!StartPass2, C!PassEnds
  <2>2. PICK n \in Nat : \E tr : FirstPass(tr, n)
    BY <2>1 DEF CourseInv
  <2>3. PICK tr : FirstPass(tr, n)
    BY <2>2
  <2>4. Course(tr, n)' /\ Noted(tr, n)'
    BY <1>1, <2>1, <2>3, SameCourse DEF FirstPass, Noted
  <2>5. tr[0] = Pass'
    BY <1>2, <2>4 DEF Course
  <2>6. tr[n].agenda = <<>> /\ tr[n].list = <<>>
    BY <2>1, <2>3 DEF FirstPass, Pass
  <2>7. SecondPass(tr, n, 0)' /\ 0 \in 0 .. n
    BY <2>4, <2>5, <2>6 DEF SecondPass
  <2> QED
    BY <2>1, <2>7 DEF CourseInv
<1> QED
  BY <1>3, <1>4

(* In the second pass a step stays on the course of the first.             *)
LEMMA CourseKept ==
    ASSUME C!TypeOK, CourseInv, pass = 2, UNCHANGED <<C!parser, pass, entry>>, Pass' = After(Pass),
           agenda # <<>> \/ list # <<>>
    PROVE  CourseInv'
<1>1. PICK n \in Nat : \E k \in 0 .. n : \E tr : SecondPass(tr, n, k)
  BY DEF CourseInv
<1>2. PICK k \in 0 .. n : \E tr : SecondPass(tr, n, k)
  BY <1>1
<1>3. PICK tr : SecondPass(tr, n, k)
  BY <1>2
<1>4. k # n
  BY <1>3 DEF SecondPass, Pass
<1>5. k + 1 \in 0 .. n /\ tr[k + 1] = Pass'
  BY <1>3, <1>4 DEF SecondPass, Course
<1>6. SecondPass(tr, n, k + 1)'
  BY <1>3, <1>5, SameCourse DEF SecondPass, Noted
<1> QED
  BY <1>5, <1>6 DEF CourseInv

LEMMA CourseTurn == C!TypeOK /\ CourseInv /\ RenderTurn => CourseInv'
<1> SUFFICES ASSUME C!TypeOK, CourseInv, RenderTurn PROVE CourseInv'
  OBVIOUS
<1>1. /\ Pass' = After(Pass) /\ agenda # <<>> /\ UNCHANGED <<C!parser, pass, entry>>
      /\ list' # list => C!Turn.element \notin rendered /\ list' = Append(list, C!Turn.element)
                           /\ C!Turn.element \in rendered'
      /\ rendered \subseteq rendered'
  BY TurnStep DEF C!Rendered
<1>2. CASE pass = 2
  BY <1>1, <1>2, CourseKept
<1>3. CASE pass = 1
  <2>1. PICK n \in Nat : \E tr : FirstPass(tr, n)
    BY <1>3 DEF CourseInv
  <2>2. PICK tr : FirstPass(tr, n)
    BY <2>1
  <2>p. PICK p : p = Pass'
    OBVIOUS
  <2>t. PICK more : more = [m \in 0 .. n + 1 |-> IF m <= n THEN tr[m] ELSE p]
    OBVIOUS
  <2>3. Course(more, n + 1) /\ more[n + 1] = p /\ \A m \in 0 .. n : more[m] = tr[m]
    <3>1. Course(tr, n) /\ p = After(tr[n])
      BY <1>1, <2>2, <2>p DEF FirstPass
    <3> QED
      BY <2>t, <3>1, LongerCourse
  <2>4. Course(more, n + 1)'
    BY <1>1, <2>3, SameCourse
  <2>5. ListOnce'
    <3>1. ListOnce /\ list \in Seq(DOMAIN elements)
      BY <1>3 DEF CourseInv, C!TypeOK, C!RendererOK
    <3>2. CASE list' = list
      BY <1>1, <3>1, <3>2 DEF ListOnce
    <3>3. CASE list' = Append(list, C!Turn.element) /\ C!Turn.element \notin rendered
      <4>1. /\ DOMAIN list' = 1 .. Len(list) + 1 /\ DOMAIN list = 1 .. Len(list)
            /\ Len(list) \in Nat /\ list'[Len(list) + 1] = C!Turn.element
            /\ \A i \in 1 .. Len(list) : list'[i] = list[i]
        <5>1. agenda # <<>> /\ stage = "render"
          BY TurnStep
        <5>2. C!Turn.element \in 0 .. Len(elements)
          BY <5>1, TurnType
        <5> DEFINE S == DOMAIN elements \cup {C!Turn.element}
        <5>3. list \in Seq(S) /\ C!Turn.element \in S
          BY <3>1
        <5> HIDE DEF S
        <5> QED
          BY <3>3, <5>3
      <4>2. C!Turn.element \in rendered'
        <5>1. Len(list) + 1 \in DOMAIN list' /\ Len(list) + 1 \notin DOMAIN list
          BY <4>1
        <5> QED
          BY <1>1, <5>1
      <4>3. ASSUME NEW i \in DOMAIN list' PROVE list'[i] \in rendered'
        BY <1>1, <3>1, <4>1, <4>2 DEF ListOnce
      <4>4. ASSUME NEW i \in DOMAIN list', NEW j \in DOMAIN list', list'[i] = list'[j]
            PROVE  i = j
        <5>1. \A h \in 1 .. Len(list) : list[h] # C!Turn.element
          BY <3>1, <3>3, <4>1 DEF ListOnce
        <5> QED
          BY <3>1, <4>1, <4>4, <5>1 DEF ListOnce
      <4> QED
        BY <4>3, <4>4 DEF ListOnce
    <3> QED
      BY <1>1, <3>2, <3>3
  <2>6. \A m \in 0 .. n : more[m].agenda = <<>> => m # n
    BY <1>1, <2>2, <2>3 DEF FirstPass, Pass
  <2>7. Noted(more, n + 1)'
    <3>1. ASSUME NEW m \in 0 .. n, more[m].agenda = <<>>
          PROVE  entry'[Head(more[m].list)] = more[m].len
      <4>1. m \in 0 .. n - 1
        BY <2>6, <3>1
      <4> QED
        BY <1>1, <2>2, <2>3, <3>1, <4>1 DEF FirstPass, Noted
    <3> QED
      BY <3>1 DEF Noted
  <2>8. Once(more, n + 1)'
    <3>1. ASSUME NEW m \in 0 .. n, more[m].agenda = <<>>
          PROVE  /\ Head(more[m].list) \in rendered'
                 /\ \A i \in DOMAIN list' : list'[i] # Head(more[m].list)
      <4>1. m \in 0 .. n - 1 /\ more[m] = tr[m]
        BY <2>3, <2>6, <3>1
      <4>2. /\ Head(more[m].list) \in rendered
            /\ \A i \in DOMAIN list : list[i] # Head(more[m].list)
        BY <2>2, <3>1, <4>1 DEF FirstPass, Once
      <4>3. CASE list' = list
        BY <1>1, <4>2, <4>3
      <4>4. CASE list' # list
        <5>1. list \in Seq(DOMAIN elements)
          BY DEF C!TypeOK, C!RendererOK
        <5>2. \A i \in DOMAIN list' : \/ i \in DOMAIN list /\ list'[i] = list[i]
                                     \/ list'[i] = C!Turn.element
          BY <1>1, <4>4, <5>1
        <5> QED
          BY <1>1, <4>2, <4>4, <5>2
      <4> QED
        BY <4>3, <4>4
    <3> QED
      BY <3>1 DEF Once
  <2>9. FirstPass(more, n + 1)'
    BY <2>3, <2>4, <2>7, <2>8, <2>p DEF FirstPass
  <2>10. pass' = 1 /\ n + 1 \in Nat
    BY <1>1, <1>3
  <2>11. \E k \in Nat : \E w : FirstPass(w, k)'
    BY <2>9, <2>10
  <2> QED
    BY <2>5, <2>10, <2>11 DEF CourseInv
<1>4. pass \in 1 .. 2
  BY TurnStep DEF C!TypeOK, C!RendererOK
<1> QED
  BY <1>2, <1>3, <1>4

LEMMA CourseSubroutine == C!TypeOK /\ CourseInv /\ C!RenderSubroutine => CourseInv' /\ C!EntriesKept
<1> SUFFICES ASSUME C!TypeOK, CourseInv, C!RenderSubroutine PROVE CourseInv' /\ C!EntriesKept
  OBVIOUS
<1>1. /\ Pass' = After(Pass) /\ UNCHANGED <<C!parser, pass, rendered>>
      /\ agenda = <<>> /\ list # <<>> /\ list' = Tail(list)
      /\ entry' = [entry EXCEPT ![Head(list)] = Len(code)]
      /\ entry \in [DOMAIN elements -> Nat] /\ list \in Seq(DOMAIN elements)
      /\ pass \in 1 .. 2
  <2>1. stage = "render"
    BY DEF C!RenderSubroutine
  <2>2. entry \in [DOMAIN elements -> Nat] /\ list \in Seq(DOMAIN elements) /\ pass \in 1 .. 2
    BY <2>1 DEF C!TypeOK, C!RendererOK
  <2> QED
    BY <2>2, SubroutineStep DEF C!Rendered
<1>2. CASE pass = 2
  <2>1. PICK n \in Nat : \E k \in 0 .. n : \E tr : SecondPass(tr, n, k)
    BY <1>2 DEF CourseInv
  <2>2. PICK k \in 0 .. n : \E tr : SecondPass(tr, n, k)
    BY <2>1
  <2>3. PICK tr : SecondPass(tr, n, k)
    BY <2>2
  <2>4. tr[k].agenda = <<>> /\ tr[k].list = list /\ tr[k].len = Len(code)
    BY <1>1, <2>3 DEF SecondPass, Pass
  <2>5. k \in 0 .. n - 1
    BY <1>1, <2>3, <2>4 DEF SecondPass
  <2>6. entry[Head(list)] = Len(code)
    BY <2>3, <2>4, <2>5 DEF SecondPass, Noted
  <2>7. entry' = entry
    BY <1>1, <2>6
  <2> QED
    BY <1>1, <1>2, <2>7, CourseKept DEF C!EntriesKept
<1>3. CASE pass = 1
  <2>1. PICK n \in Nat : \E tr : FirstPass(tr, n)
    BY <1>3 DEF CourseInv
  <2>2. PICK tr : FirstPass(tr, n)
    BY <2>1
  <2>p. PICK p : p = Pass'
    OBVIOUS
  <2>t. PICK more : more = [m \in 0 .. n + 1 |-> IF m <= n THEN tr[m] ELSE p]
    OBVIOUS
  <2>3. Course(more, n + 1) /\ more[n + 1] = p /\ \A m \in 0 .. n : more[m] = tr[m]
    <3>1. Course(tr, n) /\ p = After(tr[n])
      BY <1>1, <2>2, <2>p DEF FirstPass
    <3> QED
      BY <2>t, <3>1, LongerCourse
  <2>4. Course(more, n + 1)'
    BY <1>1, <2>3, SameCourse
  <2>5. /\ DOMAIN list = 1 .. Len(list) /\ Len(list) \in Nat /\ Len(list) # 0
        /\ Head(list) = list[1] /\ DOMAIN list' = 1 .. Len(list) - 1
        /\ \A i \in 1 .. Len(list) - 1 : list'[i] = list[i + 1]
        /\ Head(list) \in DOMAIN elements
    BY <1>1
  <2>6. ListOnce
    BY <1>3 DEF CourseInv
  <2>7. ListOnce'
    <3>1. \A i \in DOMAIN list' : i + 1 \in DOMAIN list /\ list'[i] = list[i + 1]
      BY <2>5
    <3> QED
      BY <1>1, <2>5, <2>6, <3>1 DEF ListOnce
  <2>8. tr[n].agenda = <<>> /\ tr[n].list = list /\ tr[n].len = Len(code)
    BY <1>1, <2>2 DEF FirstPass, Pass
  <2>9. Noted(more, n + 1)'
    <3>1. ASSUME NEW m \in 0 .. n, more[m].agenda = <<>>
          PROVE  entry'[Head(more[m].list)] = more[m].len
      <4>1. CASE m = n
        BY <1>1, <2>3, <2>5, <2>8, <4>1
      <4>2. CASE m # n
        <5>1. m \in 0 .. n - 1 /\ more[m] = tr[m]
          BY <2>3, <4>2
        <5>2. Head(tr[m].list) # list[1] /\ entry[Head(tr[m].list)] = tr[m].len
          BY <2>2, <2>5, <3>1, <5>1 DEF FirstPass, Once, Noted
        <5> QED
          BY <1>1, <2>5, <5>1, <5>2
      <4> QED
        BY <4>1, <4>2
    <3> QED
      BY <3>1 DEF Noted
  <2>10. Once(more, n + 1)'
    <3>1. ASSUME NEW m \in 0 .. n, more[m].agenda = <<>>
          PROVE  /\ Head(more[m].list) \in rendered'
                 /\ \A i \in DOMAIN list' : list'[i] # Head(more[m].list)
      <4>1. CASE m = n
        <5>1. Head(more[m].list) = list[1]
          BY <2>3, <2>5, <2>8, <4>1
        <5> QED
          BY <1>1, <2>5, <2>6, <5>1 DEF ListOnce
      <4>2. CASE m # n
        <5>1. m \in 0 .. n - 1 /\ more[m] = tr[m]
          BY <2>3, <4>2
        <5>2. /\ Head(tr[m].list) \in rendered
              /\ \A i \in DOMAIN list : list[i] # Head(tr[m].list)
          BY <2>2, <3>1, <5>1 DEF FirstPass, Once
        <5> QED
          BY <1>1, <2>5, <5>1, <5>2
      <4> QED
        BY <4>1, <4>2
    <3> QED
      BY <3>1 DEF Once
  <2>11. FirstPass(more, n + 1)'
    BY <2>3, <2>4, <2>9, <2>10, <2>p DEF FirstPass
  <2>12. pass' = 1 /\ n + 1 \in Nat
    BY <1>1, <1>3
  <2>13. \E k \in Nat : \E w : FirstPass(w, k)'
    BY <2>11, <2>12
  <2> QED
    BY <1>3, <2>7, <2>12, <2>13 DEF CourseInv, C!EntriesKept
<1> QED
  BY <1>1, <1>2, <1>3

LEMMA CourseInit == C!Init => CourseInv
BY DEF C!Init, CourseInv

LEMMA CourseStep == C!TypeOK /\ CourseInv /\ [C!Next]_(C!vars) => CourseInv' /\ C!EntriesKept
<1> SUFFICES ASSUME C!TypeOK, CourseInv, [C!Next]_(C!vars) PROVE CourseInv' /\ C!EntriesKept
  OBVIOUS
<1>1. CASE C!StartPass1 \/ C!StartPass2
  <2>1. ~(pass = 2 /\ pass' = 2)
    BY <1>1 DEF C!StartPass1, C!StartPass2, C!PassEnds
  <2> QED
    BY <1>1, <2>1, CourseStart DEF C!EntriesKept
<1>2. CASE RenderTurn
  BY <1>2, CourseTurn, TurnStep DEF C!EntriesKept
<1>3. CASE C!RenderSubroutine
  BY <1>3, CourseSubroutine
<1>4. CASE UNCHANGED <<C!parser, C!renderer>>
  BY <1>4, CourseSame DEF C!EntriesKept, C!renderer
<1>5. CASE (C!Tokenise \/ C!Parse) /\ UNCHANGED C!renderer
  <2>1. pass = 0
    <3>1. stage \notin {"render", "refused", "crashed", "done"}
      BY <1>5 DEF C!Tokenise, C!TakeLine, C!NoComment, C!CutComment, C!ExciseComment,
                  C!ScanSymbol, C!EndOfLine,
                  C!Parse, C!BuildTypeList, C!BeginDefinition, C!ParseSimple, C!ParseReference,
                  C!ParseOf,
                  C!ParseCompound, C!ParseError, C!ParseMember, C!ParseSuffix, C!AttachOf,
                  C!AttachMember,
                  C!CloseCompound, C!CompoundError, C!EndDefinition, C!Attaching, C!Heading
    <3> QED
      BY <3>1 DEF C!TypeOK, C!RendererOK
  <2>2. pass' = 0 /\ entry' = entry
    BY <1>5, <2>1 DEF C!renderer
  <2> QED
    BY <2>2 DEF CourseInv, C!EntriesKept
<1>6. C!Tokenise \/ C!Parse => UNCHANGED C!renderer
  BY DEF C!Tokenise, C!TakeLine, C!NoComment, C!CutComment, C!ExciseComment, C!ScanSymbol,
         C!EndOfLine, C!Scanned,
         C!Parse, C!BuildTypeList, C!BeginDefinition, C!ParseSimple, C!ParseReference, C!ParseOf,
         C!Parsed,
         C!ParseCompound, C!ParseError, C!ParseMember, C!ParseSuffix, C!AttachOf, C!AttachMember,
         C!Refuse,
         C!CloseCompound, C!CompoundError, C!EndDefinition, C!Simple, C!Reference, C!Open
<1>7. C!FinishRender \/ C!RenderSet \/ C!RenderBeyond \/ UNCHANGED C!vars => UNCHANGED <<C!parser, C!renderer>>
  BY DEF C!FinishRender, C!RenderSet, C!RenderBeyond, C!Refuse, C!Rendered, C!vars
<1> QED
  BY <1>1, <1>2, <1>3, <1>4, <1>5, <1>6, <1>7 DEF C!Next, C!Render, RenderTurn

----------------------------------------------------------------------------
(* What the compiler writes.                                               *)


(* The instructions whose last byte is the number of an action.            *)
Acting == MatchAct \cup MatchAnyAct \cup EndAct \cup {ACT}

(* An instruction to be written behind those that begin at S: the operand  *)
(* leads back to one of them, or is one of T, and its action is Known.     *)
Instr(b, S, T, Known) ==
    /\ b \in Seq(Byte) /\ b # <<>> /\ Len(b) = OpLength(b[1])
    /\ b[1] \in EndOf => \E s \in S : b[2] = s % 256
    /\ b[1] \in MatchJump => b[3] \in T
    /\ b[1] \in Acting => b[Len(b)] \in Known

(* The instructions of m begin at S, where too the next one will.          *)
Whole(m, S, T, Known) ==
    /\ m \in Seq(Byte)
    /\ S \subseteq 0 .. Len(m) /\ 0 \in S /\ Len(m) \in S
    /\ \A p \in S : p < Len(m) =>
         /\ p + OpLength(m[p + 1]) \in S
         /\ m[p + 1] \in EndOf => \E s \in S : s <= p /\ m[p + 2] = s % 256
         /\ m[p + 1] \in MatchJump => m[p + 3] \in T
         /\ m[p + 1] \in Acting => m[p + OpLength(m[p + 1])] \in Known
    /\ \A q \in S : q # 0 => \E p \in S : p < q /\ q = p + OpLength(m[p + 1])

(* Nothing goes on behind the last of them.                                *)
Concluded(m, S) ==
    \A p \in S : p < Len(m) /\ p + OpLength(m[p + 1]) = Len(m) => m[p + 1] \in {COMPLETE, RETURN}

LEMMA Lengths ==
    ASSUME NEW op
    PROVE  /\ OpLength(op) \in Nat /\ OpLength(op) >= 1
           /\ op \in EndOf => OpLength(op) >= 2
           /\ op \in MatchJump => OpLength(op) >= 3
<1>1. /\ OpLength(op) \in Nat /\ OpLength(op) >= 1
      /\ op \in EndOf => OpLength(op) >= 2
  BY DEF OpLength
<1>2. op \in MatchJump => op \in Matches \ AnyTag
  BY DEF Matches, MatchJump, AnyTag, MatchAny, MatchAnyAct
<1> QED
  BY <1>1, <1>2 DEF OpLength

(* One sequence behind another.                                            *)
LEMMA Joined ==
    ASSUME NEW X, NEW s \in Seq(X), NEW t \in Seq(X)
    PROVE  /\ s \o t \in Seq(X)
           /\ Len(s \o t) = Len(s) + Len(t)
           /\ \A i \in 1 .. Len(s) : (s \o t)[i] = s[i]
           /\ \A i \in 1 .. Len(t) : (s \o t)[Len(s) + i] = t[i]
OBVIOUS

LEMMA Appended ==
    ASSUME NEW Known, NEW m, NEW S, NEW T, Whole(m, S, T, Known), NEW b, Instr(b, S, T, Known)
    PROVE  /\ Whole(m \o b, S \cup {Len(m \o b)}, T, Known)
           /\ Len(m \o b) = Len(m) + Len(b) /\ Len(b) > 0 /\ Len(m) \in Nat
           /\ b[1] \in {COMPLETE, RETURN} => Concluded(m \o b, S \cup {Len(m \o b)})
<1> DEFINE w == m \o b
           R == S \cup {Len(w)}
<1>1. /\ m \in Seq(Byte) /\ b \in Seq(Byte) /\ b # <<>> /\ Len(b) = OpLength(b[1])
      /\ S \subseteq 0 .. Len(m) /\ 0 \in S /\ Len(m) \in S
      /\ Len(m) \in Nat /\ Len(b) \in Nat /\ Len(b) > 0
  BY DEF Whole, Instr
<1>2. /\ w \in Seq(Byte) /\ Len(w) = Len(m) + Len(b)
      /\ \A i \in 1 .. Len(m) : w[i] = m[i]
      /\ \A i \in 1 .. Len(b) : w[Len(m) + i] = b[i]
  BY <1>1, ConcatProperties
<1> HIDE DEF w
<1>3. ASSUME NEW p \in S, p < Len(m)
      PROVE  /\ w[p + 1] = m[p + 1] /\ p + OpLength(w[p + 1]) \in S
             /\ w[p + 1] \in EndOf => \E s \in S : s <= p /\ w[p + 2] = s % 256
             /\ w[p + 1] \in MatchJump => w[p + 3] \in T
             /\ w[p + 1] \in Acting => w[p + OpLength(w[p + 1])] \in Known
  <2>1. p \in Nat /\ w[p + 1] = m[p + 1]
    <3>1. p \in Nat /\ p + 1 \in 1 .. Len(m)
      BY <1>1, <1>3
    <3> QED
      BY <1>2, <3>1
  <2>2. /\ p + OpLength(m[p + 1]) \in S
        /\ m[p + 1] \in EndOf => \E s \in S : s <= p /\ m[p + 2] = s % 256
        /\ m[p + 1] \in MatchJump => m[p + 3] \in T
        /\ m[p + 1] \in Acting => m[p + OpLength(m[p + 1])] \in Known
    BY <1>3 DEF Whole
  <2>3. OpLength(m[p + 1]) \in Nat /\ p + OpLength(m[p + 1]) <= Len(m)
    BY <1>1, <2>1, <2>2, Lengths
  <2>4. m[p + 1] \in EndOf => w[p + 2] = m[p + 2]
    <3>1. m[p + 1] \in EndOf => p + 2 \in 1 .. Len(m)
      BY <1>1, <2>1, <2>3, Lengths
    <3> QED
      BY <1>2, <3>1
  <2>5. m[p + 1] \in MatchJump => w[p + 3] = m[p + 3]
    <3>1. m[p + 1] \in MatchJump => p + 3 \in 1 .. Len(m)
      BY <1>1, <2>1, <2>3, Lengths
    <3> QED
      BY <1>2, <3>1
  <2>6. w[p + OpLength(m[p + 1])] = m[p + OpLength(m[p + 1])]
    <3>1. p + OpLength(m[p + 1]) \in 1 .. Len(m)
      BY <1>1, <2>1, <2>3, Lengths
    <3> QED
      BY <1>2, <3>1
  <2> QED
    BY <2>1, <2>2, <2>4, <2>5, <2>6
<1>4. /\ w[Len(m) + 1] = b[1] /\ Len(m) + OpLength(b[1]) = Len(w)
      /\ b[1] \in EndOf => w[Len(m) + 2] = b[2]
      /\ b[1] \in MatchJump => w[Len(m) + 3] = b[3]
      /\ w[Len(m) + OpLength(b[1])] = b[Len(b)]
  <2>1. /\ 1 \in 1 .. Len(b)
        /\ b[1] \in EndOf => 2 \in 1 .. Len(b)
        /\ b[1] \in MatchJump => 3 \in 1 .. Len(b)
        /\ Len(b) \in 1 .. Len(b)
    BY <1>1, Lengths
  <2> QED
    BY <1>1, <1>2, <2>1
<1>5. \A p \in R : p < Len(w) => p = Len(m) \/ (p \in S /\ p < Len(m))
  BY <1>1, <1>2
<1>6. ASSUME NEW p \in R, p < Len(w)
      PROVE  /\ p + OpLength(w[p + 1]) \in R
             /\ w[p + 1] \in EndOf => \E s \in R : s <= p /\ w[p + 2] = s % 256
             /\ w[p + 1] \in MatchJump => w[p + 3] \in T
             /\ w[p + 1] \in Acting => w[p + OpLength(w[p + 1])] \in Known
  <2>1. CASE p \in S /\ p < Len(m)
    BY <1>3, <2>1
  <2>2. CASE p = Len(m)
    <3>1. b[1] \in EndOf => \E s \in S : s <= Len(m) /\ b[2] = s % 256
      <4>1. b[1] \in EndOf => \E s \in S : b[2] = s % 256
        BY DEF Instr
      <4>2. \A s \in S : s <= Len(m)
        BY <1>1
      <4> QED
        BY <4>1, <4>2
    <3>2. /\ b[1] \in MatchJump => b[3] \in T
          /\ b[1] \in Acting => b[Len(b)] \in Known
      BY DEF Instr
    <3> QED
      BY <1>4, <2>2, <3>1, <3>2
  <2> QED
    BY <1>5, <1>6, <2>1, <2>2
<1>7. ASSUME NEW q \in R, q # 0
      PROVE  \E p \in R : p < q /\ q = p + OpLength(w[p + 1])
  <2>1. CASE q \in S
    <3>1. PICK p \in S : p < q /\ q = p + OpLength(m[p + 1])
      BY <1>7, <2>1 DEF Whole
    <3>2. p < Len(m)
      BY <1>1, <2>1, <3>1
    <3> QED
      BY <1>3, <3>1, <3>2
  <2>2. CASE q = Len(w)
    <3>1. Len(m) \in R /\ Len(m) < q
      BY <1>1, <1>2, <2>2
    <3> QED
      BY <1>4, <2>2, <3>1
  <2> QED
    BY <2>1, <2>2
<1>8. R \subseteq 0 .. Len(w) /\ 0 \in R /\ Len(w) \in R
  <2>1. 0 .. Len(m) \subseteq 0 .. Len(w) /\ Len(w) \in 0 .. Len(w)
    BY <1>1, <1>2
  <2> QED
    BY <1>1, <2>1
<1>9. Whole(w, R, T, Known)
  BY <1>2, <1>6, <1>7, <1>8 DEF Whole
<1>10. ASSUME b[1] \in {COMPLETE, RETURN} PROVE Concluded(w, R)
  <2> SUFFICES ASSUME NEW p \in R, p < Len(w), p + OpLength(w[p + 1]) = Len(w)
               PROVE  w[p + 1] \in {COMPLETE, RETURN}
    BY DEF Concluded
  <2>1. CASE p = Len(m)
    BY <1>4, <1>10, <2>1
  <2>2. CASE p \in S /\ p < Len(m)
    <3>1. p + OpLength(w[p + 1]) \in S
      BY <1>3, <2>2
    <3> QED
      BY <1>1, <1>2, <3>1
  <2> QED
    BY <1>5, <2>1, <2>2
<1> QED
  BY <1>1, <1>2, <1>9, <1>10 DEF w

LEMMA WholeMore ==
    ASSUME NEW Known, NEW m, NEW S, NEW T, NEW U, Whole(m, S, T, Known), T \subseteq U
    PROVE  Whole(m, S, U, Known)
BY DEF Whole

LEMMA InstrMore ==
    ASSUME NEW Known, NEW b, NEW S, NEW R, NEW T, NEW U, Instr(b, S, T, Known), S \subseteq R,
           T \subseteq U
    PROVE  Instr(b, R, U, Known)
BY DEF Instr

----------------------------------------------------------------------------
(* Such a machine is laid out as LaidOut says.                             *)

LEMMA Induction ==
    ASSUME NEW S, 0 \in S, \A n \in Nat : n \in S => n + 1 \in S
    PROVE  \A n \in Nat : n \in S
<1> DEFINE T == Nat \ S
<1>1. SUFFICES ASSUME T # {} PROVE FALSE
  OBVIOUS
<1>2. PICK n \in T : \A k \in T : n <= k
  BY <1>1, LeastElement
<1>3. n # 0 /\ n - 1 \in Nat /\ n - 1 \notin T
  BY <1>2
<1> QED
  BY <1>2, <1>3

LEMMA WholeInstructions ==
    ASSUME NEW Known, NEW m, NEW S, NEW T, Whole(m, S, T, Known)
    PROVE  Instructions(m) = {p \in S : p < Len(m)}
<1> DEFINE N == Len(m)
           Next1(p, before) ==
               IF p = 0 THEN {0}
               ELSE IF p - 1 \in before THEN before \cup {p - 1 + OpLength(m[p])} ELSE before
           Is(f) == f = [p \in 0 .. N |-> Next1(p, f[p - 1])]
           f == CHOOSE g : Is(g)
           Reached(p) == {q \in S : q = 0 \/ \E s \in S : s < p /\ q = s + OpLength(m[s + 1])}
           g == [p \in 0 .. N |-> Reached(p)]
<1>1. /\ N \in Nat /\ S \subseteq 0 .. N /\ 0 \in S /\ N \in S
      /\ \A p \in S : p < N => p + OpLength(m[p + 1]) \in S
      /\ \A q \in S : q # 0 => \E p \in S : p < q /\ q = p + OpLength(m[p + 1])
  BY DEF Whole
<1> HIDE DEF N
<1>2. Reached(0) = {0}
  <2>1. \A s \in S : ~(s < 0)
    BY <1>1
  <2> QED
    BY <1>1, <2>1
<1>3. ASSUME NEW p \in 1 .. N
      PROVE  Reached(p) = IF p - 1 \in Reached(p - 1)
                          THEN Reached(p - 1) \cup {p - 1 + OpLength(m[p])} ELSE Reached(p - 1)
  <2>0. p - 1 \in Nat /\ p - 1 < N /\ p - 1 + 1 = p
    BY <1>1
  <2>1. p - 1 \in Reached(p - 1) <=> p - 1 \in S
    <3>1. ASSUME p - 1 \in S, p - 1 # 0 PROVE \E s \in S : s < p - 1 /\ p - 1 = s + OpLength(m[s + 1])
      BY <1>1, <3>1
    <3> QED
      BY <3>1
  <2>2. \A s \in S : s < p <=> s < p - 1 \/ s = p - 1
    BY <1>1, <2>0
  <2>3. CASE p - 1 \in S
    <3>1. p - 1 + OpLength(m[p]) \in S
      BY <1>1, <2>0, <2>3
    <3>2. \A q \in S : q \in Reached(p) <=> q \in Reached(p - 1) \/ q = p - 1 + OpLength(m[p])
      BY <2>0, <2>2, <2>3
    <3>3. Reached(p) = Reached(p - 1) \cup {p - 1 + OpLength(m[p])}
      BY <3>1, <3>2
    <3> QED
      BY <2>1, <2>3, <3>3
  <2>4. CASE p - 1 \notin S
    <3>1. \A s \in S : s < p <=> s < p - 1
      BY <2>2, <2>4
    <3>2. Reached(p) = Reached(p - 1)
      BY <3>1
    <3> QED
      BY <2>1, <2>4, <3>2
  <2> QED
    BY <2>3, <2>4
<1> HIDE DEF Reached
<1>4. \A p \in 0 .. N : p # 0 => p \in 1 .. N /\ p - 1 \in 0 .. N
  BY <1>1
<1>5. Is(g)
  <2>1. ASSUME NEW p \in 0 .. N PROVE g[p] = Next1(p, g[p - 1])
    <3>1. CASE p = 0
      BY <1>2, <3>1
    <3>2. CASE p # 0
      BY <1>3, <1>4, <3>2
    <3> QED
      BY <3>1, <3>2
  <2> HIDE DEF Next1
  <2>2. DOMAIN g = 0 .. N /\ g = [p \in 0 .. N |-> g[p]]
    OBVIOUS
  <2> HIDE DEF g
  <2> QED
    BY <2>1, <2>2
<1>6. Is(f)
  <2> HIDE DEF g, Is
  <2> QED
    BY <1>5 DEF f
<1> HIDE DEF f, g
<1>7. \A p \in 0 .. N : f[p] = Next1(p, f[p - 1])
  <2> HIDE DEF Next1
  <2> QED
    BY <1>6
<1>8. \A p \in 0 .. N : f[p] = Reached(p)
  <2> DEFINE Q == {n \in Nat : n <= N => f[n] = Reached(n)}
  <2>1. 0 \in Q
    <3>1. 0 \in 0 .. N
      BY <1>1
    <3> QED
      BY <1>2, <1>7, <3>1
  <2>2. ASSUME NEW n \in Nat, n \in Q PROVE n + 1 \in Q
    <3> SUFFICES ASSUME n + 1 <= N PROVE f[n + 1] = Reached(n + 1)
      OBVIOUS
    <3>1. n + 1 \in 1 .. N /\ n + 1 \in 0 .. N /\ n + 1 - 1 = n /\ f[n] = Reached(n) /\ n + 1 # 0
      BY <1>1, <2>2
    <3>2. f[n + 1] = Next1(n + 1, f[n])
      BY <1>7, <3>1
    <3> QED
      BY <1>3, <3>1, <3>2
  <2> HIDE DEF Q
  <2>3. \A n \in Nat : n \in Q
    BY <2>1, <2>2, Induction, Zenon
  <2> QED
    BY <1>1, <2>3 DEF Q
<1>9. Instructions(m) = {p \in f[N] : p < N}
  BY Zenon DEF Instructions, f, Is, Next1, N
<1>10. \A q \in S : q < N => q \in Reached(N)
  BY <1>1 DEF Reached
<1>11. Reached(N) \subseteq S /\ N \in 0 .. N
  BY <1>1 DEF Reached
<1>12. f[N] = Reached(N)
  BY <1>8, <1>11
<1> QED
  BY <1>9, <1>10, <1>11, <1>12 DEF N

LEMMA WholeLaidOut ==
    ASSUME NEW Known, NEW m, NEW S, NEW T, Whole(m, S, T, Known), Concluded(m, S), m # <<>>,
           Len(m) <= 256,
           \A t \in T : t \in S /\ t < Len(m)
    PROVE  LaidOut(m)
<1> DEFINE I == {p \in S : p < Len(m)}
<1>1. Instructions(m) = I
  BY WholeInstructions
<1>2. Len(m) \in Nat /\ Len(m) # 0 /\ S \subseteq 0 .. Len(m) /\ 0 \in S
  BY DEF Whole
<1>3. ASSUME NEW p \in I
      PROVE  /\ m[p + 1] \notin {COMPLETE, RETURN} => p + OpLength(m[p + 1]) \in I
             /\ m[p + 1] \in MatchJump => m[p + 3] \in I
             /\ m[p + 1] \in EndOf => m[p + 2] \in I
  <2>1. p \in S /\ p < Len(m) /\ p \in Nat
    BY <1>2
  <2>2. /\ p + OpLength(m[p + 1]) \in S
        /\ m[p + 1] \in EndOf => \E s \in S : s <= p /\ m[p + 2] = s % 256
        /\ m[p + 1] \in MatchJump => m[p + 3] \in T
    BY <2>1 DEF Whole
  <2>3. m[p + 1] \notin {COMPLETE, RETURN} => p + OpLength(m[p + 1]) # Len(m)
    BY <2>1 DEF Concluded
  <2>4. \A s \in S : s <= p => s % 256 = s /\ s < Len(m)
    BY <1>2, <2>1
  <2>5. p + OpLength(m[p + 1]) <= Len(m)
    <3>1. p + OpLength(m[p + 1]) \in 0 .. Len(m)
      BY <1>2, <2>2
    <3> QED
      BY <1>2, <3>1
  <2>6. p + OpLength(m[p + 1]) \in Nat
    BY <2>1, Lengths
  <2> QED
    BY <1>2, <2>2, <2>3, <2>4, <2>5, <2>6
<1>4. 0 \in I
  BY <1>2
<1> HIDE DEF I
<1> QED
  BY <1>1, <1>3, <1>4 DEF LaidOut

----------------------------------------------------------------------------
(* What render_element writes for one element is an instruction.           *)

LEMMA OpLengths ==
    /\ \A op \in {0, 1, 17} : OpLength(op) = 2
    /\ \A op \in {2, 3, 19, 4, 5, 21} : OpLength(op) = 3
    /\ \A op \in {8, 24} : OpLength(op) = 1
    /\ \A op \in {10, 26} : OpLength(op) = 2
    /\ OpLength(27) = 1 /\ OpLength(28) = 1 /\ OpLength(29) = 2 /\ OpLength(30) = 1
    /\ OpLength(32) = 1 /\ OpLength(33) = 1 /\ OpLength(34) = 2 /\ OpLength(35) = 2
    /\ OpLength(36) = 2 /\ OpLength(37) = 2 /\ OpLength(38) = 3 /\ OpLength(39) = 3
BY DEF OpLength, Matches, Plain, MatchAct, MatchJump, MatchAny, MatchAnyAct, AnyTag, EndOf, EndAct,
       ACT

LEMMA ActingOps ==
    \A op \in {0, 1, 17, 4, 5, 21, 8, 24, 27, 28, 30, 32, 33, 34, 35} : op \notin Acting
BY DEF Acting, MatchAct, MatchAnyAct, EndAct, ACT

LEMMA ActionIndexByte ==
    ASSUME C!TypeOK, NEW name PROVE C!ActionIndex(name) \in Byte
<1> DEFINE Rank(n) == CHOOSE i \in DOMAIN Lowercase : Lowercase[i] = n
           S == {a \in actions : Rank(a) < Rank(name)}
<1>1. S \in SUBSET C!ToSet(Lowercase)
  BY DEF C!TypeOK, C!ParserOK
<1>2. C!ActionIndex(name) = Cardinality(S)
  BY SameCount DEF C!ActionIndex
<1> HIDE DEF S
<1>3. /\ Cardinality(S) \in Nat /\ Cardinality(S) <= Cardinality(C!ToSet(Lowercase))
      /\ Cardinality(C!ToSet(Lowercase)) \in Nat
  <2> DEFINE all == C!ToSet(Lowercase)
  <2>1. IsFiniteSet(all) /\ S \in SUBSET all
    BY <1>1, LowercaseFinite
  <2> HIDE DEF all
  <2>2. IsFiniteSet(S) /\ Cardinality(S) <= Cardinality(all)
    BY <2>1, FS_Subset
  <2>3. Cardinality(S) \in Nat /\ Cardinality(all) \in Nat
    BY <2>1, <2>2, FS_CardinalityType
  <2> QED
    BY <2>2, <2>3 DEF all
<1>4. Cardinality(S) <= Len(Lowercase) /\ Len(Lowercase) \in 0 .. 255
  BY <1>3, LowercaseFinite, ActionsAssumption DEF Byte
<1>5. Cardinality(S) \in Byte
  <2> DEFINE n == Cardinality(S)
             l == Len(Lowercase)
  <2>1. n \in Nat /\ n <= l /\ l \in 0 .. 255
    BY <1>3, <1>4
  <2> HIDE DEF n, l
  <2>2. n \in 0 .. 255
    BY <2>1
  <2>3. n \in Byte
    BY <2>2 DEF Byte
  <2> QED
    BY <2>3 DEF n
<1> QED
  BY <1>2, <1>5

(* The numbers of the actions of the grammar, and that all of its elements *)
(* have theirs among those Known.                                          *)
ActionNumbers == 0 .. Cardinality(actions) - 1
Numbered(Known) ==
    \A e \in DOMAIN elements :
        elements[e].action # "none" => C!ActionIndex(elements[e].action) \in Known

LEMMA ActionBytes ==
    ASSUME C!TypeOK, NEW e
    PROVE  /\ C!ActionByte(e) \in Seq(Byte)
           /\ Len(C!ActionByte(e)) = IF elements[e].action = "none" THEN 0 ELSE 1
<1>1. C!ActionIndex(elements[e].action) \in Byte
  BY ActionIndexByte
<1> QED
  BY <1>1 DEF C!ActionByte

LEMMA ActionKnown ==
    ASSUME NEW Known, Numbered(Known), NEW e \in DOMAIN elements, elements[e].action # "none"
    PROVE  C!ActionByte(e)[1] \in Known
<1>1. C!ActionIndex(elements[e].action) \in Known
  BY DEF Numbered
<1>2. C!ActionByte(e) = <<C!ActionIndex(elements[e].action)>>
  BY DEF C!ActionByte
<1> QED
  BY <1>1, <1>2

LEMMA Bits ==
    ASSUME NEW set, NEW value
    PROVE  C!Bit(set, value) = IF set THEN value ELSE 0
BY DEF C!Bit

(* A match that may fail without an error may be skipped.                  *)
LEMMA MatchOps ==
    ASSUME C!TypeOK, stage = "render", agenda # <<>>, C!Turn.do = "render", NEW more \in Nat
    PROVE  /\ C!MatchOp(more) \in {more, 1 + more, 17 + more}
           /\ ~C!Skippable => C!MatchOp(more) = more
<1>1. C!Conditional => C!Skippable
  BY TurnType DEF C!Conditional, C!Skippable, C!Complete
<1> QED
  BY <1>1 DEF C!MatchOp, C!Bit

LEMMA MatchInstr ==
    ASSUME C!TypeOK, NEW Known, Numbered(Known), stage = "render", agenda # <<>>,
           C!Turn.do = "render", NEW S, NEW T, NEW byte \in C!TagBytes
    PROVE  /\ Instr(<<C!Bit(C!Conditional, 16) + 8 + C!Bit(C!HasAct, 2)>>
                       \o C!ActionByte(C!Turn.element), S, T, Known)
           /\ Instr(<<C!MatchOp(C!Bit(C!HasAct, 2)), byte>> \o C!ActionByte(C!Turn.element),
                    S, T, Known)
           /\ ~C!Skippable => Instr(<<C!MatchOp(0), byte>>, S, T, Known)
           /\ \A t \in T \cap Byte : Instr(<<C!MatchOp(4), byte, t>>, S, T, Known)
<1> DEFINE act == C!ActionByte(C!Turn.element)
<1>1. act \in Seq(Byte) /\ Len(act) = (IF C!HasAct THEN 1 ELSE 0)
  BY ActionBytes DEF C!HasAct, C!E
<1>a. C!HasAct => act[1] \in Known
  <2>1. C!Turn.element \in DOMAIN elements
    BY TurnType DEF C!TypeOK, C!ElementsOK
  <2> QED
    BY <2>1, ActionKnown DEF C!HasAct, C!E
<1>2. byte \in Byte
  BY TagByteType DEF Byte
<1>3. ASSUME NEW op \in Byte, op \notin EndOf \cup MatchJump,
             OpLength(op) = IF C!HasAct THEN 2 ELSE 1, op \in Acting => C!HasAct
      PROVE  Instr(<<op>> \o act, S, T, Known)
  <2> DEFINE one == <<op>>
  <2>1. one \in Seq(Byte) /\ Len(one) = 1 /\ one[1] = op
    OBVIOUS
  <2> HIDE DEF one, act
  <2>2. /\ one \o act \in Seq(Byte) /\ Len(one \o act) = 1 + Len(act) /\ (one \o act)[1] = op
        /\ C!HasAct => (one \o act)[2] = act[1]
    <3>1. /\ one \o act \in Seq(Byte) /\ Len(one \o act) = Len(one) + Len(act)
          /\ \A i \in 1 .. Len(one) : (one \o act)[i] = one[i]
          /\ \A i \in 1 .. Len(act) : (one \o act)[Len(one) + i] = act[i]
      <4>1. one \in Seq(Byte) /\ act \in Seq(Byte)
        BY <1>1, <2>1
      <4> QED
        BY <4>1, ConcatProperties
    <3>2. 1 \in 1 .. Len(one)
      BY <2>1
    <3>3. C!HasAct => 1 \in 1 .. Len(act)
      BY <1>1
    <3> QED
      BY <2>1, <3>1, <3>2, <3>3
  <2> DEFINE b == one \o act
  <2>3. /\ b \in Seq(Byte) /\ Len(b) = 1 + Len(act) /\ b[1] = op
        /\ C!HasAct => Len(b) = 2 /\ b[2] \in Known
    BY <1>1, <1>a, <2>2
  <2> HIDE DEF b
  <2>4. Instr(b, S, T, Known)
    BY <1>1, <1>3, <2>3 DEF Instr
  <2> QED
    BY <2>4 DEF b, one
<1>4. ASSUME NEW op \in Byte, op \notin EndOf \cup MatchJump,
             OpLength(op) = IF C!HasAct THEN 3 ELSE 2, op \in Acting => C!HasAct
      PROVE  Instr(<<op, byte>> \o act, S, T, Known)
  <2> DEFINE two == <<op, byte>>
  <2>1. two \in Seq(Byte) /\ Len(two) = 2 /\ two[1] = op
    BY <1>2
  <2> HIDE DEF two, act
  <2>2. /\ two \o act \in Seq(Byte) /\ Len(two \o act) = 2 + Len(act) /\ (two \o act)[1] = op
        /\ C!HasAct => (two \o act)[3] = act[1]
    <3>1. /\ two \o act \in Seq(Byte) /\ Len(two \o act) = Len(two) + Len(act)
          /\ \A i \in 1 .. Len(two) : (two \o act)[i] = two[i]
          /\ \A i \in 1 .. Len(act) : (two \o act)[Len(two) + i] = act[i]
      <4>1. two \in Seq(Byte) /\ act \in Seq(Byte)
        BY <1>1, <2>1
      <4> QED
        BY <4>1, ConcatProperties
    <3>2. 1 \in 1 .. Len(two) /\ (C!HasAct => 1 \in 1 .. Len(act))
      BY <1>1, <2>1
    <3> QED
      BY <2>1, <3>1, <3>2
  <2> DEFINE b == two \o act
  <2>3. /\ b \in Seq(Byte) /\ Len(b) = 2 + Len(act) /\ b[1] = op
        /\ C!HasAct => Len(b) = 3 /\ b[3] \in Known
    BY <1>1, <1>a, <2>2
  <2> HIDE DEF b
  <2>4. Instr(b, S, T, Known)
    BY <1>1, <1>4, <2>3 DEF Instr
  <2> QED
    BY <2>4 DEF b, two
<1> HIDE DEF act
<1>5. Instr(<<C!Bit(C!Conditional, 16) + 8 + C!Bit(C!HasAct, 2)>> \o act, S, T, Known)
  <2> DEFINE op == C!Bit(C!Conditional, 16) + 8 + C!Bit(C!HasAct, 2)
  <2>1. op \in (IF C!HasAct THEN {10, 26} ELSE {8, 24})
    BY DEF C!Bit
  <2> HIDE DEF op
  <2>2. /\ op \in Byte /\ op \notin EndOf \cup MatchJump
        /\ OpLength(op) = IF C!HasAct THEN 2 ELSE 1
        /\ op \in Acting => C!HasAct
    <3>1. CASE C!HasAct
      <4>1. op = 10 \/ op = 26
        BY <2>1, <3>1
      <4>3. op \in Byte
        BY <4>1 DEF Byte
      <4>4. op \notin EndOf \cup MatchJump
        BY <4>1 DEF EndOf, MatchJump
      <4>5. OpLength(op) = 2
        BY <4>1, OpLengths
      <4> QED
        BY <3>1, <4>3, <4>4, <4>5
    <3>2. CASE ~C!HasAct
      <4>1. op = 8 \/ op = 24
        BY <2>1, <3>2
      <4>2. op \notin Acting
        BY <4>1, ActingOps
      <4>3. op \in Byte
        BY <4>1 DEF Byte
      <4>4. op \notin EndOf \cup MatchJump
        BY <4>1 DEF EndOf, MatchJump
      <4>5. OpLength(op) = 1
        BY <4>1, OpLengths
      <4> QED
        BY <3>2, <4>2, <4>3, <4>4, <4>5
    <3> QED
      BY <3>1, <3>2
  <2>3. Instr(<<op>> \o act, S, T, Known)
    BY <1>3, <2>2
  <2> QED
    BY <2>3 DEF op
<1>6. Instr(<<C!MatchOp(C!Bit(C!HasAct, 2)), byte>> \o act, S, T, Known)
  <2> DEFINE op == C!MatchOp(C!Bit(C!HasAct, 2))
  <2>1. op \in (IF C!HasAct THEN {2, 3, 19} ELSE {0, 1, 17})
    BY MatchOps DEF C!Bit
  <2> HIDE DEF op
  <2>2. /\ op \in Byte /\ op \notin EndOf \cup MatchJump
        /\ OpLength(op) = IF C!HasAct THEN 3 ELSE 2
        /\ op \in Acting => C!HasAct
    <3>1. CASE C!HasAct
      <4>1. op = 2 \/ op = 3 \/ op = 19
        BY <2>1, <3>1
      <4>3. op \in Byte
        BY <4>1 DEF Byte
      <4>4. op \notin EndOf \cup MatchJump
        BY <4>1 DEF EndOf, MatchJump
      <4>5. OpLength(op) = 3
        BY <4>1, OpLengths
      <4> QED
        BY <3>1, <4>3, <4>4, <4>5
    <3>2. CASE ~C!HasAct
      <4>1. op = 0 \/ op = 1 \/ op = 17
        BY <2>1, <3>2
      <4>2. op \notin Acting
        BY <4>1, ActingOps
      <4>3. op \in Byte
        BY <4>1 DEF Byte
      <4>4. op \notin EndOf \cup MatchJump
        BY <4>1 DEF EndOf, MatchJump
      <4>5. OpLength(op) = 2
        BY <4>1, OpLengths
      <4> QED
        BY <3>2, <4>2, <4>3, <4>4, <4>5
    <3> QED
      BY <3>1, <3>2
  <2>3. Instr(<<op, byte>> \o act, S, T, Known)
    BY <1>4, <2>2
  <2> QED
    BY <2>3 DEF op
<1>7. ~C!Skippable => Instr(<<C!MatchOp(0), byte>>, S, T, Known)
  <2> SUFFICES ASSUME ~C!Skippable PROVE Instr(<<C!MatchOp(0), byte>>, S, T, Known)
    OBVIOUS
  <2>1. C!MatchOp(0) = 0
    BY MatchOps
  <2> DEFINE b == <<0, byte>>
  <2>2. b \in Seq(Byte) /\ Len(b) = 2 /\ b[1] = 0 /\ b # <<>>
    BY <1>2 DEF Byte
  <2> HIDE DEF b
  <2>4. 0 \notin EndOf \cup MatchJump \cup Acting /\ OpLength(0) = 2
    BY OpLengths, ActingOps DEF EndOf, MatchJump
  <2>3. Instr(b, S, T, Known)
    BY <2>2, <2>4 DEF Instr
  <2> QED
    BY <2>1, <2>3 DEF b
<1>8. ASSUME NEW t \in T \cap Byte PROVE Instr(<<C!MatchOp(4), byte, t>>, S, T, Known)
  <2> DEFINE op == C!MatchOp(4)
  <2>1. op \in {4, 5, 21}
    BY MatchOps
  <2> HIDE DEF op
  <2> DEFINE b == <<op, byte, t>>
  <2>2. b \in Seq(Byte) /\ Len(b) = 3 /\ b[1] = op /\ b[3] = t
    BY <1>2, <2>1 DEF Byte
  <2> HIDE DEF b
  <2>3. OpLength(op) = 3 /\ op \notin EndOf \cup Acting
    <3>1. op = 4 \/ op = 5 \/ op = 21
      BY <2>1
    <3>2. op \notin EndOf
      BY <3>1 DEF EndOf
    <3>3. op \notin Acting
      BY <3>1, ActingOps
    <3>4. op \in {2, 3, 19, 4, 5, 21}
      BY <3>1
    <3>5. OpLength(op) = 3
      BY <3>4, OpLengths
    <3> QED
      BY <3>2, <3>3, <3>5
  <2>4. t \in T /\ b # <<>> /\ Len(b) = OpLength(b[1])
    BY <2>2, <2>3
  <2>5. b[1] \notin EndOf /\ b[1] \notin Acting
    BY <2>2, <2>3
  <2>6. Instr(b, S, T, Known)
    BY <2>2, <2>4, <2>5 DEF Instr
  <2> QED
    BY <2>6 DEF b, op
<1> QED
  BY <1>5, <1>6, <1>7, <1>8 DEF act

LEMMA EndInstr ==
    ASSUME C!TypeOK, NEW Known, Numbered(Known), NEW e \in DOMAIN elements, NEW S, NEW T,
           NEW start \in S, start \in Nat
    PROVE  Instr(C!EndBytes(e, start), S, T, Known)
<1> DEFINE of == elements[e].compound \in {"SEQUENCE_OF", "SET_OF"}
           acts == elements[e].action # "none"
           op == C!EndOp(e)
           back == IF of THEN <<start % 256>> ELSE <<>>
           act == C!ActionByte(e)
           b == <<op>> \o back \o act
<1>1. act \in Seq(Byte) /\ Len(act) = (IF acts THEN 1 ELSE 0) /\ (acts => act[1] \in Known)
  BY ActionBytes, ActionKnown
<1>2. /\ op \in (IF of THEN {34, 35, 38, 39} ELSE {32, 33, 36, 37})
      /\ op \in (IF acts THEN {36, 37, 38, 39} ELSE {32, 33, 34, 35})
  BY DEF C!EndOp, C!Bit
<1>3. start % 256 \in Byte
  BY DEF Byte
<1>4. b = C!EndBytes(e, start)
  BY DEF C!EndBytes
<1> HIDE DEF op, act, of, acts
<1>5. op \in Byte /\ OpLength(op) = 1 + (IF of THEN 1 ELSE 0) + (IF acts THEN 1 ELSE 0)
  BY <1>2, OpLengths DEF Byte
<1>6. (op \in EndOf <=> of) /\ op \notin MatchJump /\ (op \in Acting => acts)
  BY <1>2, ActingOps DEF EndOf, MatchJump
<1> DEFINE head == <<op>> \o back
<1>7. /\ head \in Seq(Byte) /\ Len(head) = 1 + (IF of THEN 1 ELSE 0) /\ head[1] = op
      /\ of => head[2] = start % 256
  BY <1>3, <1>5
<1>8. b = head \o act
  OBVIOUS
<1> HIDE DEF head, b
<1>9. /\ b \in Seq(Byte) /\ Len(b) = Len(head) + Len(act) /\ b[1] = op
      /\ of => b[2] = start % 256
      /\ acts => b[Len(b)] \in Known
  <2>1. 1 \in 1 .. Len(head) /\ (of => 2 \in 1 .. Len(head)) /\ (acts => 1 \in 1 .. Len(act))
    BY <1>1, <1>7
  <2>2. /\ b \in Seq(Byte) /\ Len(b) = Len(head) + Len(act)
        /\ \A i \in 1 .. Len(head) : b[i] = head[i]
        /\ \A i \in 1 .. Len(act) : b[Len(head) + i] = act[i]
    <3>1. head \in Seq(Byte) /\ act \in Seq(Byte)
      BY <1>1, <1>7
    <3>2. /\ head \o act \in Seq(Byte) /\ Len(head \o act) = Len(head) + Len(act)
          /\ \A i \in 1 .. Len(head) : (head \o act)[i] = head[i]
          /\ \A i \in 1 .. Len(act) : (head \o act)[Len(head) + i] = act[i]
      BY ONLY <3>1, Joined
    <3> QED
      BY ONLY <1>8, <3>2
  <2>3. acts => b[Len(b)] = act[1]
    <3>1. acts => Len(b) = Len(head) + 1 /\ b[Len(head) + 1] = act[1]
      BY <1>1, <2>1, <2>2
    <3>2. ASSUME acts PROVE b[Len(b)] = act[1]
      BY <3>1, <3>2
    <3> QED
      BY <3>2
  <2> QED
    BY <1>1, <1>7, <2>1, <2>2, <2>3
<1>10. Len(b) = OpLength(op) /\ b # <<>>
  BY <1>1, <1>5, <1>7, <1>9
<1>11. Instr(b, S, T, Known)
  BY <1>6, <1>9, <1>10 DEF Instr
<1> QED
  BY <1>4, <1>11

LEMMA ActInstr ==
    ASSUME C!TypeOK, NEW Known, Numbered(Known), NEW e \in DOMAIN elements,
           elements[e].action # "none", NEW S, NEW T
    PROVE  Instr(<<C!ACT>> \o C!ActionByte(e), S, T, Known)
<1> DEFINE act == C!ActionByte(e)
           b == <<C!ACT>> \o act
<1>1. act \in Seq(Byte) /\ Len(act) = 1 /\ act[1] \in Known
  BY ActionBytes, ActionKnown
<1> HIDE DEF act
<1>2. b \in Seq(Byte) /\ Len(b) = 2 /\ b[1] = 29 /\ b[2] \in Known
  <2> DEFINE one == <<29>>
  <2>1. one \in Seq(Byte) /\ Len(one) = 1 /\ one[1] = 29 /\ b = one \o act
    BY DEF C!ACT, Byte
  <2> HIDE DEF one
  <2>2. /\ one \o act \in Seq(Byte) /\ Len(one \o act) = 2
        /\ \A i \in 1 .. Len(one) : (one \o act)[i] = one[i]
        /\ \A i \in 1 .. Len(act) : (one \o act)[Len(one) + i] = act[i]
    BY <1>1, <2>1, ConcatProperties
  <2>3. 1 \in 1 .. Len(one) /\ 1 \in 1 .. Len(act) /\ Len(one) + 1 = 2
    BY <1>1, <2>1
  <2> HIDE DEF b
  <2> QED
    BY <1>1, <2>1, <2>2, <2>3
<1> HIDE DEF b
<1>3. b # <<>>
  BY <1>2
<1>5. 29 \notin EndOf \cup MatchJump /\ OpLength(29) = 2
  BY OpLengths DEF EndOf, MatchJump
<1>4. Instr(b, S, T, Known)
  BY <1>2, <1>3, <1>5 DEF Instr
<1> QED
  BY <1>4 DEF b, act

(* The opcodes without an operand.                                         *)
LEMMA ShortInstr ==
    ASSUME NEW Known, NEW S, NEW T
    PROVE  /\ Instr(<<C!COND_FAIL>>, S, T, Known) /\ Instr(<<C!COMPLETE>>, S, T, Known) /\ Instr(<<C!RETURN>>, S, T, Known)
           /\ C!COMPLETE = COMPLETE /\ C!RETURN = RETURN
<1>1. ASSUME NEW op \in {27, 28, 30} PROVE Instr(<<op>>, S, T, Known)
  <2> DEFINE b == <<op>>
  <2>1. b \in Seq(Byte) /\ Len(b) = 1 /\ b[1] = op /\ b # <<>>
    BY DEF Byte
  <2> HIDE DEF b
  <2>3. op \notin EndOf \cup MatchJump \cup Acting /\ OpLength(op) = 1
    BY OpLengths, ActingOps DEF EndOf, MatchJump
  <2>2. Instr(b, S, T, Known)
    BY <2>1, <2>3 DEF Instr
  <2> QED
    BY <2>2 DEF b
<1> QED
  BY <1>1 DEF C!COND_FAIL, C!COMPLETE, C!RETURN, COMPLETE, RETURN


----------------------------------------------------------------------------
(* The second pass.  What it has written is whole, and what the agenda     *)
(* still holds keeps it so; the agenda ends with an end.                   *)

Final(b, S, Known) == b = <<COMPLETE>> \/ \E c : Instr(c, S, {}, Known) /\ b = c \o <<RETURN>>

MembersLaid(a, S, Known) == \A k \in 1 .. Len(a) : a[k].do = "emit" => Instr(a[k].bytes, S, {}, Known)
AgendaLaid(a, S, Known) ==
    \A k \in 1 .. Len(a) :
       /\ k < Len(a) /\ a[k].do = "emit" => Instr(a[k].bytes, S, {}, Known)
       /\ k = Len(a) => a[k].do = "emit" /\ Final(a[k].bytes, S, Known)

Targets == {entry[e] % 256 : e \in rendered}

(* A subroutine that is jumped to is still to be written, or begins at an  *)
(* instruction.                                                            *)
Placed(e, S) ==
    \/ \E i \in DOMAIN list : list[i] = e
    \/ entry[e] \in S /\ (entry[e] < Len(code) \/ agenda # <<>>)

Laid(S, Known) ==
    /\ Whole(code, S, Targets, Known)
    /\ AgendaLaid(agenda, S, Known)
    /\ agenda = <<>> => Concluded(code, S) /\ code # <<>>
    /\ \A e \in rendered : Placed(e, S)

CodeInv == pass = 2 => \E S, Known : Known = ActionNumbers /\ Laid(S, Known)

LEMMA FinalMore ==
    ASSUME NEW Known, NEW b, NEW S, NEW R, Final(b, S, Known), S \subseteq R
    PROVE  Final(b, R, Known)
<1>1. \A c : Instr(c, S, {}, Known) => Instr(c, R, {}, Known)
  BY InstrMore
<1> QED
  BY <1>1, Zenon DEF Final

LEMMA AgendaMore ==
    ASSUME NEW Known, NEW a, NEW S, NEW R, S \subseteq R
    PROVE  AgendaLaid(a, S, Known) => AgendaLaid(a, R, Known)
<1>1. \A b : Instr(b, S, {}, Known) => Instr(b, R, {}, Known)
  BY InstrMore
<1>2. \A b : Final(b, S, Known) => Final(b, R, Known)
  BY FinalMore
<1> QED
  BY <1>1, <1>2, Zenon DEF AgendaLaid

LEMMA MembersJoined ==
    ASSUME NEW Known, NEW a, NEW b, NEW S, AgendaOK(a), AgendaOK(b), MembersLaid(a, S, Known),
           MembersLaid(b, S, Known)
    PROVE  MembersLaid(a \o b, S, Known)
<1>1. /\ Len(a) \in Nat /\ Len(b) \in Nat /\ Len(a \o b) = Len(a) + Len(b)
      /\ \A i \in 1 .. Len(a) : (a \o b)[i] = a[i]
      /\ \A i \in 1 .. Len(b) : (a \o b)[Len(a) + i] = b[i]
  BY ConcatProperties DEF AgendaOK
<1> SUFFICES ASSUME NEW k \in 1 .. Len(a \o b), (a \o b)[k].do = "emit"
             PROVE  Instr((a \o b)[k].bytes, S, {}, Known)
  BY DEF MembersLaid
<1>2. CASE k \in 1 .. Len(a)
  BY <1>1, <1>2 DEF MembersLaid
<1>3. CASE k \notin 1 .. Len(a)
  <2>1. PICK i \in 1 .. Len(b) : k = Len(a) + i
    <3>1. k - Len(a) \in 1 .. Len(b) /\ k = Len(a) + (k - Len(a))
      BY <1>1, <1>3
    <3> QED
      BY <3>1
  <2>2. (a \o b)[k] = b[i]
    BY <1>1, <2>1
  <2> QED
    BY <2>2 DEF MembersLaid
<1> QED
  BY <1>2, <1>3

LEMMA AgendaGrows ==
    ASSUME NEW Known, NEW a, NEW b, NEW S, AgendaOK(a), AgendaOK(b), MembersLaid(a, S, Known),
           AgendaLaid(b, S, Known),
           b # <<>>
    PROVE  AgendaLaid(a \o b, S, Known)
<1>1. /\ Len(a) \in Nat /\ Len(b) \in Nat /\ Len(a \o b) = Len(a) + Len(b) /\ Len(b) > 0
      /\ \A i \in 1 .. Len(a) : (a \o b)[i] = a[i]
      /\ \A i \in 1 .. Len(b) : (a \o b)[Len(a) + i] = b[i]
  BY ConcatProperties DEF AgendaOK
<1> SUFFICES ASSUME NEW k \in 1 .. Len(a \o b)
             PROVE  /\ k < Len(a \o b) /\ (a \o b)[k].do = "emit"
                         => Instr((a \o b)[k].bytes, S, {}, Known)
                    /\ k = Len(a \o b) => (a \o b)[k].do = "emit" /\ Final((a \o b)[k].bytes, S, Known)
  BY DEF AgendaLaid
<1>2. CASE k \in 1 .. Len(a)
  <2>1. k # Len(a \o b)
    BY <1>1, <1>2
  <2> QED
    BY <1>1, <1>2, <2>1 DEF MembersLaid
<1>3. CASE k \notin 1 .. Len(a)
  <2>1. PICK i \in 1 .. Len(b) : k = Len(a) + i
    <3>1. k - Len(a) \in 1 .. Len(b) /\ k = Len(a) + (k - Len(a))
      BY <1>1, <1>3
    <3> QED
      BY <3>1
  <2>2. (a \o b)[k] = b[i]
    BY <1>1, <2>1
  <2>3. (k < Len(a \o b) <=> i < Len(b)) /\ (k = Len(a \o b) <=> i = Len(b))
    BY <1>1, <2>1
  <2> QED
    BY <2>2, <2>3 DEF AgendaLaid
<1> QED
  BY <1>2, <1>3

LEMMA AgendaGoesOn ==
    ASSUME NEW Known, NEW a, NEW S, AgendaOK(a), AgendaLaid(a, S, Known), a # <<>>
    PROVE  /\ AgendaLaid(Tail(a), S, Known)
           /\ Head(a).do = "render" => Tail(a) # <<>>
           /\ Head(a).do = "emit" /\ Tail(a) # <<>> => Instr(Head(a).bytes, S, {}, Known)
           /\ Head(a).do = "emit" /\ Tail(a) = <<>> => Final(Head(a).bytes, S, Known)
<1>1. /\ Len(a) \in Nat /\ Len(a) > 0 /\ Head(a) = a[1] /\ Len(Tail(a)) = Len(a) - 1
      /\ \A i \in 1 .. Len(Tail(a)) : Tail(a)[i] = a[i + 1]
      /\ Tail(a) = <<>> <=> Len(a) = 1
  <2> DEFINE set == C!TurnSet(Len(elements))
  <2>1. a \in Seq(set) /\ a # <<>>
    BY DEF AgendaOK
  <2> HIDE DEF set
  <2>2. /\ Tail(a) \in Seq(set) /\ Len(a) \in Nat /\ Len(a) > 0 /\ Len(Tail(a)) = Len(a) - 1
        /\ Head(a) = a[1] /\ \A i \in 1 .. Len(Tail(a)) : Tail(a)[i] = a[i + 1]
    BY <2>1, HeadTailProperties
  <2> DEFINE rest == Tail(a)
  <2>3. rest = <<>> <=> Len(rest) = 0
    <3>1. rest \in Seq(set)
      BY <2>2
    <3> HIDE DEF rest
    <3> QED
      BY <3>1
  <2> QED
    BY <2>2, <2>3
<1>2. ASSUME NEW k \in 1 .. Len(Tail(a))
      PROVE  /\ k < Len(Tail(a)) /\ Tail(a)[k].do = "emit" => Instr(Tail(a)[k].bytes, S, {}, Known)
             /\ k = Len(Tail(a)) => Tail(a)[k].do = "emit" /\ Final(Tail(a)[k].bytes, S, Known)
  <2>1. k + 1 \in 1 .. Len(a) /\ Tail(a)[k] = a[k + 1]
    BY <1>1
  <2>2. (k < Len(Tail(a)) <=> k + 1 < Len(a)) /\ (k = Len(Tail(a)) <=> k + 1 = Len(a))
    BY <1>1
  <2> QED
    BY <2>1, <2>2 DEF AgendaLaid
<1>3. AgendaLaid(Tail(a), S, Known)
  BY <1>2 DEF AgendaLaid
<1>4. /\ 1 < Len(a) /\ a[1].do = "emit" => Instr(a[1].bytes, S, {}, Known)
      /\ 1 = Len(a) => a[1].do = "emit" /\ Final(a[1].bytes, S, Known)
  <2>1. 1 \in 1 .. Len(a)
    BY <1>1
  <2> QED
    BY <2>1 DEF AgendaLaid
<1>5. (Tail(a) = <<>> => 1 = Len(a)) /\ (Tail(a) # <<>> => 1 < Len(a))
  BY <1>1
<1>6. ~("render" = "emit") /\ Head(a) = a[1]
  BY <1>1
<1> QED
  BY <1>3, <1>4, <1>5, <1>6, Zenon

LEMMA MembersMade ==
    ASSUME NEW Known, NEW S
    PROVE  /\ MembersLaid(<<>>, S, Known)
           /\ \A bytes : Instr(bytes, S, {}, Known) => MembersLaid(<<C!Emit(bytes)>>, S, Known)
           /\ \A e, label : MembersLaid(<<C!Do(e, label)>>, S, Known)
           /\ \A children, n : children \in Seq(n) => MembersLaid(C!RenderAll(children), S, Known)
<1>1. MembersLaid(<<>>, S, Known)
  BY DEF MembersLaid
<1>2. ASSUME NEW bytes, Instr(bytes, S, {}, Known) PROVE MembersLaid(<<C!Emit(bytes)>>, S, Known)
  <2> DEFINE t == C!Emit(bytes)
  <2>1. t.bytes = bytes
    BY DEF C!Emit
  <2> HIDE DEF t
  <2>2. MembersLaid(<<t>>, S, Known)
    BY <1>2, <2>1 DEF MembersLaid
  <2> QED
    BY <2>2 DEF t
<1>3. ASSUME NEW e, NEW label PROVE MembersLaid(<<C!Do(e, label)>>, S, Known)
  <2> DEFINE t == C!Do(e, label)
  <2>1. t.do # "emit"
    BY DEF C!Do
  <2> HIDE DEF t
  <2>2. MembersLaid(<<t>>, S, Known)
    BY <2>1 DEF MembersLaid
  <2> QED
    BY <2>2 DEF t
<1>4. ASSUME NEW children, NEW n, children \in Seq(n)
      PROVE  MembersLaid(C!RenderAll(children), S, Known)
  <2> DEFINE a == C!RenderAll(children)
  <2>1. DOMAIN a = 1 .. Len(children) /\ Len(a) = Len(children)
    BY <1>4 DEF C!RenderAll
  <2>2. ASSUME NEW k \in 1 .. Len(a) PROVE a[k].do # "emit"
    BY <2>1, <2>2 DEF C!RenderAll, C!Do
  <2> QED
    BY <2>2 DEF MembersLaid
<1> QED
  BY <1>1, <1>2, <1>3, <1>4, Zenon


LEMMA TargetsGrow ==
    ASSUME entry' = entry, rendered \subseteq rendered'
    PROVE  Targets \subseteq Targets'
BY DEF Targets

LEMMA CodeAppended ==
    ASSUME NEW Known, NEW S, Whole(code, S, Targets, Known), entry' = entry,
           rendered \subseteq rendered',
           NEW bytes, Instr(bytes, S, Targets', Known), code' = code \o bytes
    PROVE  /\ Whole(code', S \cup {Len(code')}, Targets', Known)
           /\ Len(code') = Len(code) + Len(bytes) /\ Len(bytes) > 0 /\ Len(code) \in Nat
           /\ bytes[1] \in {COMPLETE, RETURN} => Concluded(code', S \cup {Len(code')})
<1> DEFINE T == Targets'
<1>1. Targets \subseteq T /\ Instr(bytes, S, T, Known)
  BY TargetsGrow
<1> HIDE DEF T
<1>2. Whole(code, S, T, Known)
  BY <1>1, WholeMore
<1>3. /\ Whole(code \o bytes, S \cup {Len(code \o bytes)}, T, Known)
      /\ Len(code \o bytes) = Len(code) + Len(bytes) /\ Len(bytes) > 0 /\ Len(code) \in Nat
      /\ bytes[1] \in {COMPLETE, RETURN} => Concluded(code \o bytes, S \cup {Len(code \o bytes)})
  BY <1>1, <1>2, Appended
<1> QED
  BY <1>3 DEF T

(* The end of an agenda ends the code.                                     *)
LEMMA EndAppended ==
    ASSUME NEW Known, NEW S, Whole(code, S, Targets, Known), entry' = entry, rendered' = rendered,
           NEW bytes, Final(bytes, S, Known), code' = code \o bytes
    PROVE  \E R : /\ S \subseteq R /\ Whole(code', R, Targets', Known) /\ Concluded(code', R)
                  /\ Len(code') > Len(code) /\ Len(code) \in Nat
<1>1. CASE bytes = <<COMPLETE>>
  <2>1. Instr(bytes, S, Targets', Known) /\ bytes[1] = COMPLETE
    BY <1>1, ShortInstr
  <2>2. /\ Whole(code', S \cup {Len(code')}, Targets', Known) /\ Concluded(code', S \cup {Len(code')})
        /\ Len(code') = Len(code) + Len(bytes) /\ Len(bytes) > 0 /\ Len(code) \in Nat
    BY <2>1, CodeAppended
  <2>3. Len(code') > Len(code)
    BY <1>1, <2>2
  <2> QED
    BY <2>2, <2>3
<1>2. ASSUME NEW c, Instr(c, S, {}, Known), bytes = c \o <<RETURN>>
      PROVE  \E R : /\ S \subseteq R /\ Whole(code', R, Targets', Known) /\ Concluded(code', R)
                    /\ Len(code') > Len(code) /\ Len(code) \in Nat
  <2> DEFINE T == Targets'
             first == code \o c
             Q == S \cup {Len(first)}
             return == <<RETURN>>
             R == Q \cup {Len(first \o return)}
  <2>1. Whole(code, S, T, Known)
    BY TargetsGrow, WholeMore
  <2>2. Instr(c, S, T, Known)
    BY <1>2, InstrMore
  <2> HIDE DEF T
  <2>3. Whole(first, Q, T, Known) /\ Len(first) = Len(code) + Len(c) /\ Len(c) > 0 /\ Len(code) \in Nat
    BY <2>1, <2>2, Appended
  <2>4. Instr(return, Q, T, Known) /\ return[1] = RETURN /\ return \in Seq(Byte) /\ Len(return) = 1
    <3>1. Instr(<<C!RETURN>>, Q, T, Known) /\ C!RETURN = RETURN
      BY ShortInstr
    <3>2. Instr(return, Q, T, Known)
      BY <3>1
    <3>3. return[1] = RETURN /\ return \in Seq(Byte) /\ Len(return) = 1
      BY DEF RETURN, Byte
    <3> QED
      BY <3>2, <3>3
  <2>5. code \in Seq(Byte) /\ c \in Seq(Byte) /\ code' = code \o (c \o return)
    BY <1>2, <2>1 DEF Whole, Instr
  <2>6. code' = first \o return
    BY <2>4, <2>5, ConcatAssociative
  <2> HIDE DEF first, Q, return
  <2>a. Whole(first, Q, T, Known) /\ Instr(return, Q, T, Known) /\ return[1] \in {COMPLETE, RETURN}
    BY <2>3, <2>4
  <2>7. /\ Whole(first \o return, Q \cup {Len(first \o return)}, T, Known)
        /\ Len(first \o return) = Len(first) + Len(return)
        /\ Concluded(first \o return, Q \cup {Len(first \o return)})
    BY ONLY <2>a, Appended
  <2>8. Whole(code', R, T, Known) /\ Concluded(code', R) /\ Len(code') = Len(code) + Len(c) + 1
    BY <2>3, <2>4, <2>6, <2>7
  <2>9. S \subseteq R
    BY DEF Q
  <2>10. Len(c) \in Nat
    BY <2>5
  <2> HIDE DEF R
  <2>11. Len(code') > Len(code)
    BY <2>3, <2>8, <2>10
  <2> QED
    BY <2>3, <2>8, <2>9, <2>11 DEF T
<1> QED
  BY <1>1, <1>2 DEF Final

LEMMA LaidRenders ==
    ASSUME C!TypeOK, NEW Known, stage = "render", agenda # <<>>, NEW S, Laid(S, Known),
           entry' = entry,
           NEW bytes, NEW rest, C!Renders(bytes, rest), AgendaOK(rest),
           NEW R, S \subseteq R, Whole(code', R, Targets', Known), MembersLaid(rest, R, Known),
           C!Turn.do = "emit" => rest = <<>>,
           C!Turn.do = "emit" /\ Tail(agenda) = <<>> => Concluded(code', R) /\ Len(code') > Len(code),
           \A e \in rendered' : e \in rendered \/ \E i \in DOMAIN list' : list'[i] = e,
           \A i \in DOMAIN list : \E j \in DOMAIN list' : list'[j] = list[i]
    PROVE  Laid(R, Known)'
<1>1. /\ AgendaOK(agenda) /\ AgendaOK(Tail(agenda)) /\ C!Turn = Head(agenda)
      /\ C!Turn.do \in {"emit", "render"}
  BY TurnType DEF C!Turn
<1>2. /\ Whole(code, S, Targets, Known) /\ AgendaLaid(agenda, S, Known)
      /\ \A e \in rendered : Placed(e, S)
  BY DEF Laid
<1>3. /\ AgendaLaid(Tail(agenda), S, Known)
      /\ C!Turn.do = "render" => Tail(agenda) # <<>>
  BY <1>1, <1>2, AgendaGoesOn
<1>4. agenda' = rest \o Tail(agenda)
  BY DEF C!Renders
<1>5. CASE Tail(agenda) = <<>>
  <2>1. C!Turn.do = "emit"
    BY <1>1, <1>3, <1>5
  <2>2. agenda' = <<>> /\ Concluded(code', R) /\ Len(code') > Len(code)
    BY <1>4, <1>5, <2>1
  <2>3. AgendaLaid(agenda', R, Known)
    BY <2>2 DEF AgendaLaid
  <2>4. code' # <<>> /\ \A p \in S : p < Len(code')
    <3>1. S \subseteq 0 .. Len(code) /\ Len(code) \in Nat
      BY <1>2 DEF Whole
    <3>2. Len(code') \in Nat
      BY DEF Whole
    <3> QED
      BY <2>2, <3>1, <3>2
  <2>5. ASSUME NEW e \in rendered'
        PROVE  \/ \E i \in DOMAIN list' : list'[i] = e
               \/ entry'[e] \in R /\ entry'[e] < Len(code')
    <3>1. CASE e \in rendered
      <4>1. \/ \E i \in DOMAIN list : list[i] = e
            \/ entry[e] \in S
        BY <1>2, <3>1 DEF Placed
      <4> QED
        BY <2>4, <4>1
    <3> QED
      BY <2>5, <3>1
  <2>6. \A e \in rendered' : Placed(e, R)'
    BY <2>5 DEF Placed
  <2> QED
    BY <2>2, <2>3, <2>4, <2>6 DEF Laid
<1>6. CASE Tail(agenda) # <<>>
  <2>1. AgendaLaid(agenda', R, Known)
    <3>1. AgendaLaid(Tail(agenda), R, Known)
      BY <1>3, AgendaMore
    <3> QED
      BY <1>1, <1>4, <1>6, <3>1, AgendaGrows
  <2>2. agenda' # <<>>
    <3> DEFINE t == Tail(agenda)
    <3>1. t \in Seq(C!TurnSet(Len(elements))) /\ rest \in Seq(C!TurnSet(Len(elements))) /\ t # <<>>
      BY <1>1, <1>6 DEF AgendaOK
    <3> HIDE DEF t
    <3>2. Len(rest \o t) = Len(rest) + Len(t) /\ Len(rest) \in Nat /\ Len(t) \in Nat /\ Len(t) > 0
      BY <3>1, ConcatProperties
    <3>3. rest \o t # <<>>
      BY <3>2
    <3> QED
      BY <1>4, <3>3 DEF t
  <2>3. ASSUME NEW e \in rendered'
        PROVE  \/ \E i \in DOMAIN list' : list'[i] = e
               \/ entry'[e] \in R
    <3>1. CASE e \in rendered
      <4>1. \/ \E i \in DOMAIN list : list[i] = e
            \/ entry[e] \in S
        BY <1>2, <3>1 DEF Placed
      <4> QED
        BY <4>1
    <3> QED
      BY <2>3, <3>1
  <2>4. \A e \in rendered' : Placed(e, R)'
    BY <2>2, <2>3 DEF Placed
  <2> QED
    BY <2>1, <2>2, <2>4 DEF Laid
<1> QED
  BY <1>5, <1>6

(* An element that writes an instruction, or                               *)
LEMMA LaidWrites ==
    ASSUME C!TypeOK, NEW Known, stage = "render", agenda # <<>>, C!Turn.do = "render", NEW S,
           Laid(S, Known),
           entry' = entry, rendered \subseteq rendered',
           NEW bytes, NEW rest, C!Renders(bytes, rest), AgendaOK(rest), Instr(bytes, S, Targets', Known),
           MembersLaid(rest, S \cup {Len(code')}, Known),
           \A e \in rendered' : e \in rendered \/ \E i \in DOMAIN list' : list'[i] = e,
           \A i \in DOMAIN list : \E j \in DOMAIN list' : list'[j] = list[i]
    PROVE  \E R : Laid(R, Known)'
<1>1. PICK R : R = S \cup {Len(code')}
  OBVIOUS
<1>2. Whole(code', R, Targets', Known)
  BY <1>1, CodeAppended DEF Laid, C!Renders
<1>3. S \subseteq R /\ MembersLaid(rest, R, Known) /\ C!Turn.do # "emit"
  BY <1>1
<1>4. Laid(R, Known)'
  BY <1>2, <1>3, LaidRenders
<1> QED
  BY <1>4

(* only members.                                                           *)
LEMMA LaidDefers ==
    ASSUME C!TypeOK, NEW Known, stage = "render", agenda # <<>>, C!Turn.do = "render", NEW S,
           Laid(S, Known),
           UNCHANGED <<list, rendered, entry>>,
           NEW rest, C!Renders(<<>>, rest), AgendaOK(rest), MembersLaid(rest, S, Known)
    PROVE  Laid(S, Known)'
<1>1. code' = code
  <2>1. code \in Seq(Byte) /\ code' = code \o <<>>
    BY DEF Laid, Whole, C!Renders
  <2> QED
    BY <2>1
<1>2. Targets' = Targets
  BY DEF Targets
<1>3. Whole(code', S, Targets', Known)
  BY <1>1, <1>2 DEF Laid
<1>4. S \subseteq S /\ C!Turn.do # "emit"
  OBVIOUS
<1>5. /\ \A e \in rendered' : e \in rendered
      /\ \A i \in DOMAIN list : i \in DOMAIN list' /\ list'[i] = list[i]
  OBVIOUS
<1> QED
  BY <1>3, <1>4, <1>5, LaidRenders

LEMMA EmitLaid ==
    ASSUME C!TypeOK, NEW Known, NEW S, Laid(S, Known), C!RenderBytes PROVE \E R : Laid(R, Known)'
<1>1. /\ stage = "render" /\ agenda # <<>> /\ C!Turn.do = "emit" /\ C!Turn = Head(agenda)
      /\ C!Renders(C!Turn.bytes, <<>>) /\ code' = code \o C!Turn.bytes
      /\ UNCHANGED <<list, rendered, entry>>
  BY DEF C!RenderBytes, C!Renders, C!Turn
<1>2. AgendaOK(agenda) /\ AgendaOK(<<>>)
  <2>1. Len(elements) \in Nat
    BY DEF C!TypeOK, C!ElementsOK
  <2> QED
    BY <1>1, <2>1, TurnType, AgendaMade
<1>3. AgendaLaid(agenda, S, Known) /\ Whole(code, S, Targets, Known)
  BY DEF Laid
<1>4. /\ \A e \in rendered' : e \in rendered
      /\ \A i \in DOMAIN list : i \in DOMAIN list' /\ list'[i] = list[i]
      /\ rendered \subseteq rendered'
  BY <1>1
<1>5. CASE Tail(agenda) # <<>>
  <2>1. Instr(C!Turn.bytes, S, {}, Known)
    BY <1>1, <1>2, <1>3, <1>5, AgendaGoesOn
  <2>2. Instr(C!Turn.bytes, S, Targets', Known)
    BY <2>1, InstrMore
  <2>3. PICK R : R = S \cup {Len(code')}
    OBVIOUS
  <2>4. Whole(code', R, Targets', Known) /\ S \subseteq R
    BY <1>1, <1>3, <1>4, <2>2, <2>3, CodeAppended
  <2>5. MembersLaid(<<>>, R, Known)
    BY MembersMade
  <2>6. Laid(R, Known)'
    BY <1>1, <1>2, <1>4, <1>5, <2>4, <2>5, LaidRenders
  <2> QED
    BY <2>6
<1>6. CASE Tail(agenda) = <<>>
  <2>1. Final(C!Turn.bytes, S, Known)
    BY <1>1, <1>2, <1>3, <1>6, AgendaGoesOn
  <2>2. PICK R : /\ S \subseteq R /\ Whole(code', R, Targets', Known) /\ Concluded(code', R)
                 /\ Len(code') > Len(code) /\ Len(code) \in Nat
    BY <1>1, <1>3, <2>1, EndAppended
  <2>3. MembersLaid(<<>>, R, Known)
    BY MembersMade
  <2>4. Laid(R, Known)'
    BY <1>1, <1>2, <1>4, <2>2, <2>3, LaidRenders
  <2> QED
    BY <2>4
<1> QED
  BY <1>5, <1>6

LEMMA ActAfterLaid ==
    ASSUME C!TypeOK, NEW Known, Numbered(Known), NEW S,
           stage = "render", agenda # <<>>, C!Turn.do = "render"
    PROVE  MembersLaid(C!ActAfter, S, Known)
<1> DEFINE b == <<C!ACT>> \o C!ActionByte(C!Turn.element)
<1>1. CASE C!HasAct
  <2>1. C!Turn.element \in DOMAIN elements
    BY TurnType DEF C!TypeOK, C!ElementsOK
  <2>3. Instr(b, S, {}, Known)
    BY <1>1, <2>1, ActInstr DEF C!HasAct, C!E
  <2> HIDE DEF b
  <2>2. MembersLaid(<<C!Emit(b)>>, S, Known)
    BY <2>3, MembersMade
  <2> QED
    BY <1>1, <2>2 DEF C!ActAfter, b
<1>2. CASE ~C!HasAct
  BY <1>2, MembersMade DEF C!ActAfter
<1> QED
  BY <1>1, <1>2

LEMMA SomeTag == C!TagBytes # {}
<1>1. C!Numbers # {}
  BY DEF C!Numbers
<1> QED
  BY <1>1 DEF C!TagBytes

LEMMA MatchLaid ==
    ASSUME C!TypeOK, NEW Known, Numbered(Known), NEW S, Laid(S, Known),
           C!RenderAny \/ C!RenderSimple PROVE \E R : Laid(R, Known)'
<1>1. /\ stage = "render" /\ agenda # <<>> /\ C!Turn.do = "render"
      /\ UNCHANGED <<list, rendered, entry>>
  BY DEF C!RenderAny, C!RenderSimple, C!Rendering
<1>2. PICK bytes : Instr(bytes, S, Targets', Known) /\ C!Renders(bytes, <<>>)
  <2> DEFINE any == <<C!Bit(C!Conditional, 16) + 8 + C!Bit(C!HasAct, 2)>>
                      \o C!ActionByte(C!Turn.element)
             simple(byte) ==
               <<C!MatchOp(C!Bit(C!HasAct, 2)), byte>> \o C!ActionByte(C!Turn.element)
  <2>1. PICK some \in C!TagBytes : TRUE
    BY SomeTag
  <2>2. C!Renders(any, <<>>) \/ \E byte \in C!TagBytes : C!Renders(simple(byte), <<>>)
    BY Zenon DEF C!RenderAny, C!RenderSimple
  <2>3. Instr(any, S, Targets', Known)
    BY <1>1, <2>1, MatchInstr
  <2>4. \A byte \in C!TagBytes : Instr(simple(byte), S, Targets', Known)
    BY <1>1, MatchInstr
  <2> HIDE DEF any, simple
  <2> QED
    BY <2>2, <2>3, <2>4
<1>3. AgendaOK(<<>>) /\ MembersLaid(<<>>, S \cup {Len(code')}, Known)
  <2>1. Len(elements) \in Nat
    BY DEF C!TypeOK, C!ElementsOK
  <2> QED
    BY <2>1, AgendaMade, MembersMade
<1>4. /\ \A e \in rendered' : e \in rendered
      /\ \A i \in DOMAIN list : i \in DOMAIN list' /\ list'[i] = list[i]
      /\ rendered \subseteq rendered'
  BY <1>1
<1> QED
  BY <1>1, <1>2, <1>3, <1>4, LaidWrites

LEMMA OverrideLaid ==
    ASSUME C!TypeOK, NEW Known, NEW S, Laid(S, Known), C!RenderOverride
    PROVE  Laid(S, Known)'
<1>1. /\ stage = "render" /\ agenda # <<>> /\ C!Turn.do = "render"
      /\ UNCHANGED <<list, rendered, entry>>
      /\ C!E.compound = "TAG_OVERRIDE"
  BY DEF C!RenderOverride, C!Rendering, C!E
<1> DEFINE rest == <<C!Do(C!E.children[1], C!Turn.element)>>
<1>2. C!Renders(<<>>, rest)
  BY DEF C!RenderOverride
<1>3. AgendaOK(rest)
  <2>1. /\ C!E \in C!ElementSet(Len(elements), Len(types)) /\ C!Complete(C!E)
        /\ C!Turn.element \in 0 .. Len(elements)
    BY <1>1, TurnType
  <2>2. C!E.children \in Seq(1 .. Len(elements)) /\ C!E.children # <<>>
    BY <1>1, <2>1 DEF C!ElementSet, C!Complete
  <2>3. Len(elements) \in Nat
    BY DEF C!TypeOK, C!ElementsOK
  <2>4. C!E.children[1] \in 1 .. Len(elements)
    BY <2>2
  <2> QED
    BY <2>1, <2>3, <2>4, AgendaMade
<1>4. MembersLaid(rest, S, Known)
  BY MembersMade
<1> HIDE DEF rest
<1> QED
  BY <1>1, <1>2, <1>3, <1>4, LaidDefers

LEMMA ReferenceLaid ==
    ASSUME C!TypeOK, NEW Known, Numbered(Known), NEW S, Laid(S, Known), C!RenderReference
    PROVE  Laid(S, Known)'
<1>1. /\ stage = "render" /\ agenda # <<>> /\ C!Turn.do = "render"
      /\ UNCHANGED <<list, rendered, entry>>
      /\ C!E.compound = "TYPE_REF"
  BY DEF C!RenderReference, C!Rendering, C!E
<1> DEFINE first == <<C!Do(types[C!E.ref].element, C!Turn.tag)>>
           rest == first \o C!ActAfter
<1>2. C!Renders(<<>>, rest)
  BY DEF C!RenderReference
<1>3. AgendaOK(first)
  <2>1. /\ C!E \in C!ElementSet(Len(elements), Len(types)) /\ C!Complete(C!E)
        /\ C!Turn.tag \in 0 .. Len(elements)
    BY <1>1, TurnType
  <2>2. /\ types \in Seq(C!TypeSet(Len(elements))) /\ defining > Len(types)
        /\ defining \in 1 .. Len(types) + 1
        /\ \A t \in 1 .. defining - 1 : types[t].element # 0
    BY <1>1 DEF C!TypeOK, C!ParserOK
  <2>3. C!E.ref \in 1 .. Len(types)
    BY <1>1, <2>1, <2>2 DEF C!Complete, C!ElementSet
  <2>4. types[C!E.ref] \in C!TypeSet(Len(elements))
    BY <2>2, <2>3, ElementOfSeq
  <2>5. types[C!E.ref].element \in 0 .. Len(elements)
    BY <2>4 DEF C!TypeSet
  <2>6. Len(elements) \in Nat
    BY DEF C!TypeOK, C!ElementsOK
  <2>7. types[C!E.ref].element \in 1 .. Len(elements)
    BY <2>2, <2>3, <2>5, <2>6
  <2> QED
    BY <2>1, <2>6, <2>7, AgendaMade
<1>4. MembersLaid(first, S, Known)
  BY MembersMade
<1>5. AgendaOK(C!ActAfter) /\ MembersLaid(C!ActAfter, S, Known)
  BY <1>1, ActAfterType, ActAfterLaid
<1> HIDE DEF first
<1>6. AgendaOK(rest) /\ MembersLaid(rest, S, Known)
  BY <1>3, <1>4, <1>5, AgendaJoined, MembersJoined
<1> HIDE DEF rest
<1> QED
  BY <1>1, <1>2, <1>6, LaidDefers

(* The members of the element whose turn it is.                            *)
LEMMA ChildrenLaid ==
    ASSUME C!TypeOK, NEW Known, stage = "render", agenda # <<>>, C!Turn.do = "render", NEW S
    PROVE  AgendaOK(C!RenderAll(C!E.children)) /\ MembersLaid(C!RenderAll(C!E.children), S, Known)
<1>1. C!E \in C!ElementSet(Len(elements), Len(types))
  BY TurnType
<1>2. C!E.children \in Seq(1 .. Len(elements)) /\ Len(elements) \in Nat
  BY <1>1 DEF C!ElementSet, C!TypeOK, C!ElementsOK
<1>3. AgendaOK(C!RenderAll(C!E.children))
  BY <1>2, AgendaMade
<1>4. MembersLaid(C!RenderAll(C!E.children), S, Known)
  BY <1>2, MembersMade, Zenon
<1> QED
  BY <1>3, <1>4

LEMMA ChoiceLaid ==
    ASSUME C!TypeOK, NEW Known, Numbered(Known), NEW S, Laid(S, Known), C!RenderChoice
    PROVE  Laid(S, Known)'
<1>1. /\ stage = "render" /\ agenda # <<>> /\ C!Turn.do = "render"
      /\ UNCHANGED <<list, rendered, entry>>
      /\ C!Renders(<<>>, C!RenderAll(C!E.children) \o C!CondFail \o C!ActAfter)
  BY DEF C!RenderChoice, C!Rendering
<1>2. AgendaOK(C!CondFail) /\ MembersLaid(C!CondFail, S, Known)
  <2> DEFINE b == <<C!COND_FAIL>>
  <2>1. b \in Seq(Nat) /\ Len(elements) \in Nat
    BY DEF C!COND_FAIL, C!TypeOK, C!ElementsOK
  <2>2. Instr(b, S, {}, Known)
    BY ShortInstr
  <2> HIDE DEF b
  <2>3. AgendaOK(<<C!Emit(b)>>) /\ MembersLaid(<<C!Emit(b)>>, S, Known)
    BY <2>1, <2>2, AgendaMade, MembersMade
  <2>4. AgendaOK(<<>>) /\ MembersLaid(<<>>, S, Known)
    BY <2>1, AgendaMade, MembersMade
  <2>5. C!CondFail = <<>> \/ C!CondFail = <<C!Emit(b)>>
    BY DEF C!CondFail, b
  <2> QED
    BY <2>3, <2>4, <2>5
<1>3. AgendaOK(C!RenderAll(C!E.children)) /\ MembersLaid(C!RenderAll(C!E.children), S, Known)
  BY <1>1, ChildrenLaid
<1>4. AgendaOK(C!ActAfter) /\ MembersLaid(C!ActAfter, S, Known)
  BY <1>1, ActAfterType, ActAfterLaid
<1> DEFINE first == C!RenderAll(C!E.children) \o C!CondFail
           rest == first \o C!ActAfter
<1>5. AgendaOK(first) /\ MembersLaid(first, S, Known)
  BY <1>2, <1>3, AgendaJoined, MembersJoined
<1> HIDE DEF first
<1>6. AgendaOK(rest) /\ MembersLaid(rest, S, Known)
  BY <1>4, <1>5, AgendaJoined, MembersJoined
<1>7. C!Renders(<<>>, rest)
  BY <1>1 DEF first
<1> HIDE DEF rest
<1> QED
  BY <1>1, <1>6, <1>7, LaidDefers

LEMMA JumpLaid ==
    ASSUME C!TypeOK, NEW Known, Numbered(Known), NEW S, Laid(S, Known), C!RenderJump
    PROVE  \E R : Laid(R, Known)'
<1>0. PICK byte \in C!TagBytes :
        C!Renders(<<C!MatchOp(4), byte, entry[C!Turn.element] % 256>>, <<>>)
  BY Zenon DEF C!RenderJump
<1> DEFINE e == C!Turn.element
           t == entry[e] % 256
           bytes == <<C!MatchOp(4), byte, t>>
<1>1. /\ stage = "render" /\ agenda # <<>> /\ C!Turn.do = "render" /\ entry' = entry
      /\ C!Renders(bytes, <<>>) /\ rendered' = rendered \cup {e}
      /\ list' = IF e \in rendered THEN list ELSE Append(list, e)
  BY <1>0 DEF C!RenderJump, C!Rendering
<1>2. Len(elements) \in Nat /\ DOMAIN elements = 1 .. Len(elements)
  BY DEF C!TypeOK, C!ElementsOK
<1>3. entry \in [DOMAIN elements -> Nat] /\ list \in Seq(DOMAIN elements)
  BY <1>1 DEF C!TypeOK, C!RendererOK
<1>4. e \in DOMAIN elements
  BY <1>1, <1>2, TurnType
<1>5. t \in Targets' /\ t \in Byte
  <2>1. entry[e] \in Nat /\ e \in rendered' /\ t = entry'[e] % 256
    BY <1>1, <1>3, <1>4
  <2>2. t \in Byte
    BY <2>1 DEF Byte
  <2> QED
    BY <2>1, <2>2 DEF Targets
<1>6. Instr(bytes, S, Targets', Known)
  <2>1. PICK T : T = Targets'
    OBVIOUS
  <2>2. \A u \in T \cap Byte : Instr(<<C!MatchOp(4), byte, u>>, S, T, Known)
    BY <1>1, MatchInstr
  <2> QED
    BY <1>5, <2>1, <2>2
<1>7. /\ DOMAIN list = 1 .. Len(list)
      /\ Append(list, e)[Len(list) + 1] = e
      /\ Len(list) + 1 \in DOMAIN Append(list, e)
      /\ \A i \in 1 .. Len(list) : i \in DOMAIN Append(list, e) /\ Append(list, e)[i] = list[i]
  BY <1>3, <1>4, AppendProperties
<1> HIDE DEF bytes, t, e
<1>8. /\ \A x \in rendered' : x \in rendered \/ \E i \in DOMAIN list' : list'[i] = x
      /\ \A i \in DOMAIN list : i \in DOMAIN list' /\ list'[i] = list[i]
      /\ rendered \subseteq rendered'
  BY <1>1, <1>7
<1>9. AgendaOK(<<>>) /\ MembersLaid(<<>>, S \cup {Len(code')}, Known)
  BY <1>2, AgendaMade, MembersMade
<1> QED
  BY <1>1, <1>6, <1>8, <1>9, LaidWrites

LEMMA InlineLaid ==
    ASSUME C!TypeOK, NEW Known, Numbered(Known), NEW S, Laid(S, Known), C!RenderInline
    PROVE  \E R : Laid(R, Known)'
<1>0. PICK byte \in C!TagBytes :
        C!Renders(<<C!MatchOp(0), byte>>, C!RenderAll(C!E.children)
                    \o <<C!Emit(C!EndBytes(C!Turn.element, Len(code) + 2))>>)
  BY Zenon DEF C!RenderInline
<1> DEFINE bytes == <<C!MatchOp(0), byte>>
           end == C!EndBytes(C!Turn.element, Len(code) + 2)
           rest == C!RenderAll(C!E.children) \o <<C!Emit(end)>>
<1>1. /\ stage = "render" /\ agenda # <<>> /\ C!Turn.do = "render"
      /\ UNCHANGED <<list, rendered, entry>> /\ ~C!Skippable
      /\ C!Renders(bytes, rest)
  BY <1>0 DEF C!RenderInline, C!Rendering, C!OutOfLine
<1>2. Instr(bytes, S, Targets', Known) /\ Len(bytes) = 2
  BY <1>1, MatchInstr
<1>p. PICK R : R = S \cup {Len(code')}
  OBVIOUS
<1> HIDE DEF bytes
<1>3. Len(code) + 2 \in R /\ Len(code) \in Nat
  <2>1. Len(code') = Len(code) + Len(bytes) /\ Len(code) \in Nat
    BY <1>1, <1>2, CodeAppended DEF Laid, C!Renders
  <2> QED
    BY <1>2, <1>p, <2>1
<1>4. AgendaOK(<<C!Emit(end)>>) /\ MembersLaid(<<C!Emit(end)>>, R, Known)
  <2>1. Len(code) + 2 \in Nat
    BY <1>3
  <2>2. end \in Seq(Nat) /\ Instr(end, R, {}, Known)
    <3>1. C!Turn.element \in DOMAIN elements
      BY <1>1, TurnType DEF C!TypeOK, C!ElementsOK
    <3> QED
      BY <1>3, <2>1, <3>1, EndInstr, EndBytesType
  <2>3. Len(elements) \in Nat
    BY DEF C!TypeOK, C!ElementsOK
  <2> HIDE DEF end
  <2> QED
    BY <2>2, <2>3, AgendaMade, MembersMade
<1>5. AgendaOK(C!RenderAll(C!E.children)) /\ MembersLaid(C!RenderAll(C!E.children), R, Known)
  BY <1>1, ChildrenLaid
<1> HIDE DEF end
<1>6. AgendaOK(rest) /\ MembersLaid(rest, R, Known)
  BY <1>4, <1>5, AgendaJoined, MembersJoined
<1> HIDE DEF rest
<1>7. /\ \A x \in rendered' : x \in rendered
      /\ \A i \in DOMAIN list : i \in DOMAIN list' /\ list'[i] = list[i]
      /\ rendered \subseteq rendered'
  BY <1>1
<1>8. MembersLaid(rest, S \cup {Len(code')}, Known)
  BY <1>6, <1>p
<1> QED
  BY <1>1, <1>2, <1>6, <1>7, <1>8, LaidWrites

LEMMA TurnLaid ==
    ASSUME C!TypeOK, NEW Known, Numbered(Known), NEW S, Laid(S, Known), RenderTurn
    PROVE  \E R : Laid(R, Known)'
BY EmitLaid, MatchLaid, OverrideLaid, ReferenceLaid, ChoiceLaid, JumpLaid, InlineLaid
   DEF RenderTurn

(* A subroutine begins where the code has come to, which is where the      *)
(* first pass had it.                                                      *)
LEMMA SubroutineLaid ==
    ASSUME C!TypeOK, NEW Known, Numbered(Known), NEW S, Laid(S, Known), C!RenderSubroutine,
           entry' = entry
    PROVE  Laid(S, Known)'
<1> DEFINE e == Head(list)
           end == C!EndBytes(e, Len(code))
           last == end \o <<C!RETURN>>
           members == C!RenderAll(elements[e].children)
<1>1. /\ stage = "render" /\ agenda = <<>> /\ list # <<>> /\ list' = Tail(list)
      /\ entry' = [entry EXCEPT ![e] = Len(code)] /\ agenda' = members \o <<C!Emit(last)>>
      /\ UNCHANGED <<rendered, code>>
  BY Zenon DEF C!RenderSubroutine
<1>2. /\ elements \in Seq(C!ElementSet(Len(elements), Len(types)))
      /\ Len(elements) \in Nat /\ DOMAIN elements = 1 .. Len(elements)
  BY DEF C!TypeOK, C!ElementsOK
<1>3. entry \in [DOMAIN elements -> Nat] /\ list \in Seq(DOMAIN elements)
  BY <1>1 DEF C!TypeOK, C!RendererOK
<1>4. /\ e \in DOMAIN elements /\ e = list[1] /\ Len(list) \in Nat
      /\ DOMAIN list = 1 .. Len(list) /\ DOMAIN list' = 1 .. Len(list) - 1
      /\ \A i \in 1 .. Len(list) - 1 : list'[i] = list[i + 1]
  BY <1>1, <1>3
<1>5. /\ code \in Seq(Byte) /\ Len(code) \in S /\ Len(code) \in Nat
      /\ Whole(code, S, Targets, Known) /\ \A x \in rendered : Placed(x, S)
  BY DEF Laid, Whole
<1>6. AgendaOK(members) /\ MembersLaid(members, S, Known)
  <2>1. elements[e] \in C!ElementSet(Len(elements), Len(types))
    BY <1>2, <1>4, ElementOfSeq
  <2>2. elements[e].children \in Seq(1 .. Len(elements))
    BY <2>1 DEF C!ElementSet
  <2> HIDE DEF e
  <2>3. AgendaOK(members)
    BY <1>2, <2>2, AgendaMade
  <2>4. MembersLaid(members, S, Known)
    BY <2>2, MembersMade, Zenon
  <2> QED
    BY <2>3, <2>4
<1>7. Instr(end, S, {}, Known) /\ last \in Seq(Nat)
  <2>1. end \in Seq(Nat) /\ <<C!RETURN>> \in Seq(Nat)
    BY <1>5, EndBytesType DEF C!RETURN
  <2>2. Instr(end, S, {}, Known)
    BY <1>4, <1>5, EndInstr
  <2> HIDE DEF end
  <2> QED
    BY <2>1, <2>2, ConcatProperties
<1>8. Final(last, S, Known)
  <2>1. C!RETURN = RETURN
    BY ShortInstr
  <2> HIDE DEF end
  <2> QED
    BY <1>7, <2>1 DEF Final
<1> HIDE DEF last, members, end
<1>9. AgendaOK(<<C!Emit(last)>>) /\ AgendaLaid(<<C!Emit(last)>>, S, Known)
  <2> DEFINE t == C!Emit(last)
  <2>1. AgendaOK(<<t>>) /\ t.do = "emit" /\ t.bytes = last
    BY <1>2, <1>7, AgendaMade DEF C!Emit
  <2> HIDE DEF t
  <2>2. AgendaLaid(<<t>>, S, Known)
    BY <1>8, <2>1 DEF AgendaLaid
  <2> QED
    BY <2>1, <2>2 DEF t
<1>10. AgendaLaid(agenda', S, Known) /\ agenda' # <<>>
  <2> DEFINE b == <<C!Emit(last)>>
  <2>1. b # <<>> /\ Len(b) = 1
    OBVIOUS
  <2>2. AgendaOK(b) /\ AgendaLaid(b, S, Known) /\ agenda' = members \o b
    BY <1>1, <1>9
  <2> HIDE DEF b
  <2>3. AgendaLaid(members \o b, S, Known)
    BY <1>6, <2>1, <2>2, AgendaGrows, Zenon
  <2>4. members \o b # <<>>
    <3>1. members \in Seq(C!TurnSet(Len(elements))) /\ b \in Seq(C!TurnSet(Len(elements)))
      BY <1>6, <2>2 DEF AgendaOK
    <3>2. Len(members \o b) = Len(members) + Len(b) /\ Len(members) \in Nat
      <4> DEFINE set == C!TurnSet(Len(elements))
      <4>1. members \in Seq(set) /\ b \in Seq(set)
        BY <3>1
      <4> HIDE DEF set, members
      <4>2. Len(members \o b) = Len(members) + Len(b)
        BY <4>1, Joined, Zenon
      <4>3. Len(members) \in Nat
        BY <4>1
      <4> QED
        BY <4>2, <4>3
    <3> DEFINE w == members \o b
    <3>3. Len(w) = Len(members) + 1 /\ Len(members) \in Nat
      BY <2>1, <3>2
    <3> HIDE DEF w
    <3>4. w # <<>>
      BY <3>3
    <3> QED
      BY <3>4 DEF w
  <2> QED
    BY <2>2, <2>3, <2>4
<1>11. Whole(code', S, Targets', Known)
  <2>1. Targets' = Targets
    BY <1>1 DEF Targets
  <2> QED
    BY <1>1, <1>5, <2>1
<1>12. entry[e] = Len(code)
  BY <1>1, <1>3, <1>4
<1>13. ASSUME NEW x \in rendered'
       PROVE  \/ \E i \in DOMAIN list' : list'[i] = x
              \/ entry'[x] \in S
  <2>1. \/ \E i \in DOMAIN list : list[i] = x
        \/ entry[x] \in S
    BY <1>1, <1>5, <1>13 DEF Placed
  <2>2. ASSUME NEW i \in DOMAIN list, list[i] = x
        PROVE  \/ \E j \in DOMAIN list' : list'[j] = x
               \/ entry'[x] \in S
    <3>1. CASE i = 1
      BY <1>4, <1>5, <1>12, <2>2, <3>1
    <3>2. CASE i # 1
      <4>1. i - 1 \in DOMAIN list' /\ list'[i - 1] = list[i]
        BY <1>4, <3>2
      <4> QED
        BY <2>2, <4>1
    <3> QED
      BY <3>1, <3>2
  <2> QED
    BY <2>1, <2>2
<1>14. \A x \in rendered' : Placed(x, S)'
  BY <1>10, <1>13 DEF Placed
<1> QED
  BY <1>10, <1>11, <1>14 DEF Laid

LEMMA StartLaid == ASSUME C!TypeOK, NEW Known, C!StartPass2 PROVE Laid({0}, Known)'
<1>1. agenda' = C!Root /\ rendered' = {} /\ code' = <<>> /\ entry' = entry
  BY DEF C!StartPass2, C!Restarted
<1>2. Whole(code', {0}, Targets', Known)
  <2>1. code' \in Seq(Byte) /\ Len(code') = 0
    BY <1>1
  <2> QED
    BY <2>1 DEF Whole
<1>3. AgendaLaid(agenda', {0}, Known) /\ agenda' # <<>>
  <2> DEFINE t == C!Do(types[1].element, 0)
             b == <<C!COMPLETE>>
             u == C!Emit(b)
  <2>1. t.do # "emit" /\ u.do = "emit" /\ u.bytes = b /\ b = <<COMPLETE>>
    BY ShortInstr DEF C!Do, C!Emit
  <2>2. agenda' = <<t, u>>
    BY <1>1 DEF C!Root
  <2> HIDE DEF t, u
  <2>3. Final(b, {0}, Known)
    BY <2>1 DEF Final
  <2> HIDE DEF b
  <2>4. /\ Len(agenda') = 2 /\ agenda'[1] = t /\ agenda'[2] = u /\ 1 .. 2 = {1, 2}
        /\ agenda' # <<>>
    BY <2>2
  <2> QED
    BY <2>1, <2>3, <2>4 DEF AgendaLaid
<1> QED
  BY <1>1, <1>2, <1>3 DEF Laid

----------------------------------------------------------------------------
(* The numbers of the actions.                                             *)

(* An action of an element is on the list of actions.                      *)
NamedInv == \A e \in DOMAIN elements : elements[e].action \in actions \cup {"none"}

(* So it has a number of its own among as many as there are.               *)
LEMMA NamedNumbered == ASSUME C!TypeOK, NamedInv PROVE Numbered(ActionNumbers)
<1> SUFFICES ASSUME NEW e \in DOMAIN elements, elements[e].action # "none"
             PROVE  C!ActionIndex(elements[e].action) \in ActionNumbers
  BY DEF Numbered
<1> DEFINE name == elements[e].action
           Rank(n) == CHOOSE i \in DOMAIN Lowercase : Lowercase[i] = n
           S == {a \in actions : Rank(a) < Rank(name)}
<1>1. name \in actions
  BY DEF NamedInv
<1>2. C!ActionIndex(name) = Cardinality(S)
  BY SameCount DEF C!ActionIndex
<1>3. IsFiniteSet(actions)
  BY LowercaseFinite, FS_Subset DEF C!TypeOK, C!ParserOK
<1>4. name \notin S /\ S \in SUBSET actions
  <2>1. Rank(name) \in Nat
    <3>1. name \in C!ToSet(Lowercase)
      BY <1>1 DEF C!TypeOK, C!ParserOK
    <3>2. \E i \in DOMAIN Lowercase : Lowercase[i] = name
      BY <3>1 DEF C!ToSet
    <3>3. DOMAIN Lowercase \subseteq Nat
      BY GrammarsAssumption
    <3>4. Rank(name) \in DOMAIN Lowercase
      BY <3>2, Zenon
    <3> QED
      BY <3>3, <3>4
  <2> HIDE DEF Rank
  <2>2. ~ (Rank(name) < Rank(name))
    BY <2>1
  <2> QED
    BY <2>2
<1> HIDE DEF S
<1>5. /\ Cardinality(S) < Cardinality(actions)
      /\ Cardinality(S) \in Nat /\ Cardinality(actions) \in Nat
  <2>1. S # actions
    BY <1>1, <1>4
  <2> QED
    BY <1>3, <1>4, <2>1, FS_Subset, FS_CardinalityType
<1> QED
  BY <1>2, <1>5 DEF ActionNumbers

(* A type that is allocated has no action yet.                             *)
LEMMA AllocateNames ==
    ASSUME NamedInv, elements \in Seq(C!ElementSet(Len(elements), Len(types))),
           NEW compound, NEW ref, C!Allocate(compound, ref), actions' = actions
    PROVE  NamedInv'
<1> DEFINE n == Len(elements)
           word == C!At(C!TypeAt)
           own == C!token_to_tag(C!At(IF C!Labelled THEN C!TypeAt ELSE cursor))
           plain == [C!Element(compound, 0, C!IsConstructed(word), own) EXCEPT !.ref = ref]
           label == [C!Element(IF C!Implicit THEN "TAG_OVERRIDE" ELSE "SEQUENCE",
                             C!ClassOf(tokens[cursor + 1]), ~C!Implicit, NumberOf[tokens[C!NumberAt]] % 256)
                       EXCEPT !.children = <<n + 2>>]
<1>1. plain.action = "none"
  BY DEF C!Element
<1>2. label.action = "none"
  BY DEF C!Element
<1>3. elements' = elements \o <<label, plain>> \/ elements' = Append(elements, plain)
  BY Zenon DEF C!Allocate
<1> HIDE DEF label, plain
<1>4. ASSUME NEW e \in DOMAIN elements'
      PROVE  (e \in DOMAIN elements /\ elements'[e] = elements[e]) \/ elements'[e].action = "none"
  <2> DEFINE set == C!ElementSet(Len(elements), Len(types))
  <2>1. elements \in Seq(set)
    OBVIOUS
  <2> HIDE DEF set
  <2>2. CASE elements' = elements \o <<label, plain>>
    BY <1>1, <1>2, <2>1, <2>2
  <2>3. CASE elements' = Append(elements, plain)
    BY <1>1, <2>1, <2>3
  <2> QED
    BY <1>3, <2>2, <2>3
<1> QED
  BY <1>4 DEF NamedInv

LEMMA SuffixNames == ASSUME C!TypeOK, NamedInv, C!ParseSuffix PROVE NamedInv'
<1>1. CASE C!HasAction /\ ~(C!At(C!ActionAt + 1) = "ELEMENT_NAME" /\ C!At(C!ActionAt + 2) = "})")
  <2>1. UNCHANGED <<elements, actions>>
    BY <1>1 DEF C!ParseSuffix, C!Refuse, C!parser
  <2> QED
    BY <2>1 DEF NamedInv
<1>2. CASE ~(C!HasAction /\ ~(C!At(C!ActionAt + 1) = "ELEMENT_NAME" /\ C!At(C!ActionAt + 2) = "})"))
  <2> DEFINE action == IF C!HasAction THEN tokens[C!ActionAt + 1] ELSE "none"
             act(e) == IF e = inner THEN action ELSE elements[e].action
             new(e) == [elements[e] EXCEPT !.skip = @ \/ (e = C!Optional_top /\ C!Skips),
                                           !.action = IF e = inner THEN action ELSE @]
  <2>1. /\ elements' = [e \in DOMAIN elements |-> new(e)]
        /\ actions' = IF C!HasAction THEN actions \cup {action} ELSE actions
    BY <1>2, Zenon DEF C!ParseSuffix
  <2>2. ASSUME NEW e \in DOMAIN elements PROVE new(e).action = act(e)
    <3>1. elements[e] \in C!ElementSet(Len(elements), Len(types))
      BY ElementOfSeq DEF C!TypeOK, C!ElementsOK
    <3> HIDE DEF action
    <3> QED
      BY <3>1 DEF C!ElementSet
  <2>3. actions \cup {"none"} \subseteq actions' \cup {"none"} /\ action \in actions' \cup {"none"}
    BY <2>1
  <2> HIDE DEF action, new
  <2>4. ASSUME NEW e \in DOMAIN elements PROVE act(e) \in actions' \cup {"none"}
    BY <2>3 DEF NamedInv
  <2> QED
    BY <2>1, <2>2, <2>4 DEF NamedInv
<1> QED
  BY <1>1, <1>2

LEMMA AttachNames ==
    ASSUME C!TypeOK, NamedInv, stage = "attach", elements' = C!Attached, actions' = actions
    PROVE  NamedInv'
<1>1. /\ elements \in Seq(C!ElementSet(Len(elements), Len(types)))
      /\ DOMAIN elements = 1 .. Len(elements) /\ top \in DOMAIN elements
      /\ Len(elements) \in Nat
  BY DEF C!TypeOK, C!ElementsOK, C!ParserOK
<1>2. C!Frame.inner \in DOMAIN elements
  BY <1>1, AttachedType DEF C!FrameSet
<1> DEFINE i == C!Frame.inner
           given == [elements[i] EXCEPT !.children = Append(@, top)]
           es == [elements EXCEPT ![i] = given]
           r == [es[top] EXCEPT !.skip = @ \/ C!Frame.alternates,
                                !.cond = @ \/ (C!Frame.alternates /\ C!Parent.children # <<>>)]
<1>3. C!Attached = [es EXCEPT ![top] = r]
  BY <1>1, <1>2, AttachedIs DEF Adopting
<1>4. \A e \in DOMAIN elements : es[e].action = elements[e].action
  <2>1. elements[i] \in C!ElementSet(Len(elements), Len(types))
    BY <1>1, <1>2, ElementOfSeq
  <2>2. given.action = elements[i].action
    BY <2>1 DEF C!ElementSet
  <2> HIDE DEF given
  <2> QED
    BY <2>2
<1>5. r.action = elements[top].action
  <2>1. elements[top] \in C!ElementSet(Len(elements), Len(types))
        /\ elements[i] \in C!ElementSet(Len(elements), Len(types))
    BY <1>1, <1>2, ElementOfSeq
  <2>2. es[top] = IF top = i THEN given ELSE elements[top]
    BY <1>1
  <2>3. given \in [ compound : C!Compounds, class : 0 .. 3, cons : BOOLEAN, tag : C!Octet,
                    children : {Append(elements[i].children, top)}, ref : 0 .. Len(types),
                    type_def : 0 .. Len(types), action : C!ToSet(Lowercase) \cup {"none"},
                    skip : BOOLEAN, cond : BOOLEAN ]
    BY <2>1 DEF C!ElementSet
  <2> DEFINE b == es[top]
  <2>4. r.action = b.action
    <3> HIDE DEF given, es
    <3> QED
      BY <2>1, <2>2, <2>3 DEF C!ElementSet
  <2> QED
    BY <1>1, <1>4, <2>4
<1> HIDE DEF es, r
<1>6. ASSUME NEW e \in DOMAIN elements' PROVE elements'[e].action \in actions' \cup {"none"}
  <2>1. e \in DOMAIN elements /\ elements'[e].action = elements[e].action
    BY <1>3, <1>4, <1>5 DEF es
  <2> QED
    BY <2>1 DEF NamedInv
<1> QED
  BY <1>6 DEF NamedInv

LEMMA EndNames == ASSUME C!TypeOK, NamedInv, C!EndDefinition PROVE NamedInv'
<1>1. CASE cursor # C!Limit
  <2>1. UNCHANGED <<elements, actions>>
    BY <1>1 DEF C!EndDefinition, C!Refuse, C!parser
  <2> QED
    BY <2>1 DEF NamedInv
<1>2. CASE cursor = C!Limit
  <2>1. elements' = [elements EXCEPT ![top].type_def = defining] /\ actions' = actions
    BY <1>2 DEF C!EndDefinition
  <2>2. ASSUME NEW e \in DOMAIN elements PROVE elements'[e].action = elements[e].action
    <3>1. elements[e] \in C!ElementSet(Len(elements), Len(types))
      BY ElementOfSeq DEF C!TypeOK, C!ElementsOK
    <3>2. [elements[e] EXCEPT !.type_def = defining].action = elements[e].action
      BY <3>1 DEF C!ElementSet
    <3> QED
      BY <2>1, <3>2
  <2> QED
    BY <2>1, <2>2 DEF NamedInv
<1> QED
  BY <1>1, <1>2

LEMMA NamedInit == C!Init => NamedInv
BY DEF C!Init, NamedInv

LEMMA NamedStep == C!TypeOK /\ NamedInv /\ [C!Next]_(C!vars) => NamedInv'
<1> SUFFICES ASSUME C!TypeOK, NamedInv, [C!Next]_(C!vars) PROVE NamedInv'
  OBVIOUS
<1>1. elements \in Seq(C!ElementSet(Len(elements), Len(types)))
  BY DEF C!TypeOK, C!ElementsOK
<1>2. UNCHANGED <<elements, actions>> => NamedInv'
  BY DEF NamedInv
<1>3. CASE C!Tokenise \/ C!Render \/ UNCHANGED C!vars
  <2>1. C!Tokenise \/ UNCHANGED C!vars => UNCHANGED <<elements, actions>>
    BY DEF C!Tokenise, C!TakeLine, C!NoComment, C!CutComment, C!ExciseComment, C!ScanSymbol,
           C!EndOfLine, C!Scanned, C!Refuse, C!vars, C!parser
  <2>2. RenderTurn => UNCHANGED <<elements, actions>>
    BY TurnStep DEF C!Rendered, C!parser
  <2>3. C!StartPass1 \/ C!StartPass2 \/ C!FinishRender \/ C!RenderSet \/ C!RenderBeyond
          \/ C!RenderSubroutine => UNCHANGED <<elements, actions>>
    BY DEF C!StartPass1, C!StartPass2, C!FinishRender, C!RenderSet, C!RenderBeyond,
           C!RenderSubroutine, C!Refuse, C!Rendered, C!parser
  <2> QED
    BY <1>2, <1>3, <2>1, <2>2, <2>3 DEF C!Render, RenderTurn
<1>4. CASE C!ParseSimple \/ C!ParseReference \/ C!ParseOf \/ C!ParseCompound
  <2>1. ASSUME NEW compound, NEW words, C!Simple(compound, words) PROVE NamedInv'
    BY <1>1, <2>1, AllocateNames DEF C!Simple
  <2>2. ASSUME NEW t, C!Reference(t) PROVE NamedInv'
    BY <1>1, <2>2, AllocateNames DEF C!Reference
  <2>3. ASSUME NEW compound, NEW alternates, NEW next, NEW n, C!Open(compound, alternates, next, n)
        PROVE  NamedInv'
    BY <1>1, <2>3, AllocateNames DEF C!Open
  <2>4. CASE C!ParseSimple
    BY <2>1, <2>4 DEF C!ParseSimple
  <2>5. CASE C!ParseReference
    BY <2>2, <2>5 DEF C!ParseReference
  <2>6. CASE C!ParseOf
    BY <2>3, <2>6, Zenon DEF C!ParseOf
  <2>7. CASE C!ParseCompound
    BY <2>3, <2>7, Zenon DEF C!ParseCompound
  <2> QED
    BY <1>4, <2>4, <2>5, <2>6, <2>7
<1>5. CASE C!AttachOf \/ C!AttachMember \/ C!CloseCompound
  <2>1. stage = "attach" /\ elements' = C!Attached /\ actions' = actions
    BY <1>5 DEF C!AttachOf, C!AttachMember, C!CloseCompound, C!Attaching
  <2> QED
    BY <2>1, AttachNames
<1>6. CASE C!BuildTypeList \/ C!BeginDefinition \/ C!ParseMember \/ C!ParseError \/ C!CompoundError
  <2>1. UNCHANGED <<elements, actions>>
    BY <1>6 DEF C!BuildTypeList, C!BeginDefinition, C!ParseMember, C!ParseError, C!CompoundError,
                C!Refuse, C!parser
  <2> QED
    BY <1>2, <2>1
<1> QED
  BY <1>3, <1>4, <1>5, <1>6, SuffixNames, EndNames DEF C!Next, C!Parse

LEMMA CodeInit == C!Init => CodeInv
BY DEF C!Init, CodeInv

(* In the second pass, each step keeps the code whole.                     *)
LEMMA CodeStep == C!TypeOK /\ CourseInv /\ NamedInv /\ CodeInv /\ [C!Next]_(C!vars) => CodeInv'
<1> SUFFICES ASSUME C!TypeOK, CourseInv, NamedInv, CodeInv, [C!Next]_(C!vars), pass' = 2
             PROVE  \E S, Known : Known = ActionNumbers' /\ Laid(S, Known)'
  BY Zenon DEF CodeInv
<1>a. PICK Known : Known = ActionNumbers
  OBVIOUS
<1>b. Numbered(Known)
  BY <1>a, NamedNumbered
<1>1. CASE C!StartPass2
  <2>1. Laid({0}, Known)'
    BY <1>1, StartLaid
  <2>2. Known = ActionNumbers'
    BY <1>1, <1>a DEF C!StartPass2, C!Rendered, C!parser, ActionNumbers
  <2> QED
    BY <2>1, <2>2
<1>2. CASE ~C!StartPass2
  <2>1. pass = 2 /\ pass' = 2
    <3>1. C!Tokenise \/ C!Parse => UNCHANGED C!renderer
      BY DEF C!Tokenise, C!TakeLine, C!NoComment, C!CutComment, C!ExciseComment, C!ScanSymbol,
             C!EndOfLine, C!Scanned, C!Parse, C!BuildTypeList, C!BeginDefinition, C!ParseSimple,
             C!ParseReference, C!ParseOf, C!Parsed, C!ParseCompound, C!ParseError, C!ParseMember,
             C!ParseSuffix, C!AttachOf, C!AttachMember, C!Refuse, C!CloseCompound,
             C!CompoundError, C!EndDefinition, C!Simple, C!Reference, C!Open
    <3>2. C!FinishRender \/ C!RenderSet \/ C!RenderBeyond \/ UNCHANGED C!vars => UNCHANGED C!renderer
      BY DEF C!FinishRender, C!RenderSet, C!RenderBeyond, C!Refuse, C!Rendered, C!vars
    <3>3. RenderTurn \/ C!RenderSubroutine => pass' = pass
      BY TurnStep, SubroutineStep
    <3>4. UNCHANGED C!renderer => pass' = pass
      BY DEF C!renderer
    <3>5. ~C!StartPass1
      BY DEF C!StartPass1
    <3> QED
      BY <1>2, <3>1, <3>2, <3>3, <3>4, <3>5 DEF C!Next, C!Render, RenderTurn
  <2>2. PICK S : Laid(S, Known)
    BY <1>a, <2>1 DEF CodeInv
  <2>3. CASE RenderTurn
    <3>1. actions' = actions
      BY <2>3, TurnStep DEF C!Rendered, C!parser
    <3>2. Known = ActionNumbers'
      BY <1>a, <3>1 DEF ActionNumbers
    <3> QED
      BY <1>b, <2>2, <2>3, <3>2, TurnLaid
  <2>4. CASE C!RenderSubroutine
    <3>1. entry' = entry
      BY <2>1, <2>4, CourseSubroutine DEF C!EntriesKept
    <3>2. actions' = actions
      BY <2>4 DEF C!RenderSubroutine, C!Rendered, C!parser
    <3>3. Known = ActionNumbers'
      BY <1>a, <3>2 DEF ActionNumbers
    <3> QED
      BY <1>b, <2>2, <2>4, <3>1, <3>3, SubroutineLaid
  <2>5. CASE C!FinishRender \/ C!RenderSet \/ C!RenderBeyond \/ UNCHANGED C!vars
    <3>1. UNCHANGED <<agenda, list, rendered, entry, code>>
      BY <2>5 DEF C!FinishRender, C!RenderSet, C!RenderBeyond, C!Refuse, C!Rendered, C!vars, C!renderer
    <3>2. Laid(S, Known)'
      BY <2>2, <3>1 DEF Laid, Placed, Targets
    <3>3. actions' = actions
      BY <2>5 DEF C!FinishRender, C!RenderSet, C!RenderBeyond, C!Refuse, C!Rendered, C!vars, C!parser
    <3>4. Known = ActionNumbers'
      BY <1>a, <3>3 DEF ActionNumbers
    <3> QED
      BY <3>2, <3>4
  <2>6. ~C!Tokenise /\ ~C!Parse
    <3>1. stage \in {"render", "refused", "crashed", "done"}
      BY <2>1 DEF C!TypeOK, C!RendererOK
    <3> QED
      BY <3>1 DEF C!Tokenise, C!TakeLine, C!NoComment, C!CutComment, C!ExciseComment,
                  C!ScanSymbol, C!EndOfLine, C!Parse, C!BuildTypeList, C!BeginDefinition, C!Ends,
                  C!ParseSimple, C!ParseReference, C!ParseOf, C!ParseCompound, C!ParseError,
                  C!ParseMember, C!ParseSuffix, C!AttachOf, C!AttachMember, C!CloseCompound,
                  C!CompoundError, C!EndDefinition, C!Attaching, C!Heading
  <2>7. ~C!StartPass1
    BY <2>1 DEF C!StartPass1
  <2> QED
    BY <1>2, <2>3, <2>4, <2>5, <2>6, <2>7 DEF C!Next, C!Render, RenderTurn
<1> QED
  BY <1>1, <1>2

(* Where the actions of a machine are numbered below n.                    *)
ActionsBelow(m, n) ==
    \A p \in Instructions(m) :
        m[p + 1] \in Acting => m[p + OpLength(m[p + 1])] \in 0 .. n - 1

(* What is complete is laid out.                                           *)
LEMMA EndLaid ==
    ASSUME CodeInv, agenda = <<>>, list = <<>>, pass = 2
    PROVE  /\ code \in Seq(Byte) /\ ActionsBelow(code, Cardinality(actions))
           /\ Len(code) <= 256 => LaidOut(code)
<1>1. agenda = <<>> /\ list = <<>> /\ pass = 2
  OBVIOUS
<1>2. PICK S, Known : Known = ActionNumbers /\ Laid(S, Known)
  BY <1>1 DEF CodeInv
<1>3. Whole(code, S, Targets, Known) /\ Concluded(code, S) /\ code # <<>>
  BY <1>1, <1>2 DEF Laid
<1>4. ASSUME NEW t \in Targets PROVE (t \in S /\ t < Len(code)) \/ Len(code) > 256
  <2>1. PICK e \in rendered : t = entry[e] % 256
    BY <1>4 DEF Targets
  <2>2. entry[e] \in S /\ entry[e] < Len(code)
    <3>1. DOMAIN list = {}
      BY <1>1
    <3> QED
      BY <1>1, <1>2, <3>1 DEF Laid, Placed
  <2>3. entry[e] \in Nat /\ Len(code) \in Nat
    <3>1. code \in Seq(Byte) /\ S \subseteq 0 .. Len(code)
      BY <1>3 DEF Whole
    <3>2. Len(code) \in Nat
      BY <3>1
    <3>3. \A s \in S : s \in Nat
      BY <3>1, <3>2
    <3> QED
      BY <2>2, <3>2, <3>3
  <2> DEFINE n == entry[e]
  <2>4. n \in Nat /\ n < Len(code) /\ t = n % 256 /\ n \in S
    BY <2>1, <2>2, <2>3
  <2> HIDE DEF n
  <2>5. Len(code) <= 256 => t = n
    BY <2>3, <2>4
  <2> QED
    BY <2>3, <2>4, <2>5
<1>5. code \in Seq(Byte)
  BY <1>3 DEF Whole
<1>6. ASSUME Len(code) <= 256 PROVE LaidOut(code)
  <2>1. Len(code) \in Nat
    BY <1>5
  <2>2. \A t \in Targets : t \in S /\ t < Len(code)
    BY <1>4, <1>6, <2>1
  <2> QED
    BY <1>3, <1>6, <2>2, WholeLaidOut
<1>7. ActionsBelow(code, Cardinality(actions))
  <2>1. Instructions(code) = {p \in S : p < Len(code)}
    BY <1>3, WholeInstructions
  <2>2. \A p \in S : p < Len(code) /\ code[p + 1] \in Acting
                      => code[p + OpLength(code[p + 1])] \in Known
    BY <1>3 DEF Whole
  <2> QED
    BY <1>2, <2>1, <2>2 DEF ActionsBelow, ActionNumbers
<1> QED
  BY <1>5, <1>6, <1>7

LEMMA DoneLaid ==
    ASSUME C!TypeOK, CodeInv, stage = "done"
    PROVE  /\ code \in Seq(Byte) /\ ActionsBelow(code, Cardinality(actions))
           /\ Len(code) <= 256 => LaidOut(code)
BY EndLaid DEF C!TypeOK, C!RendererOK

----------------------------------------------------------------------------
(* The calls that the decoder makes.                                       *)

(* Those of the first n actions.                                           *)
CallSet(n) == [action : 0 .. n - 1, tag : Nat, first : Nat, len : Int]
CallsBelow(n) == calls \in Seq(CallSet(n))

LEMMA CallBelow ==
    ASSUME NEW n, CallsBelow(n), NEW action \in 0 .. n - 1, NEW first \in Nat, NEW size \in Int,
           NEW t \in Nat, Call(action, first, size, t)
    PROVE  CallsBelow(n)'
<1>1. [action |-> action, tag |-> t, first |-> first, len |-> size] \in CallSet(n)
  BY DEF CallSet
<1> QED
  BY <1>1, AppendProperties DEF CallsBelow, Call

(* At an instruction with an action, the action is one of the table.       *)
LEMMA ActBelow ==
    ASSUME NEW n, TypeOK, AtStart(pc), ActionsBelow(job.machine, n), Machine(pc) \in Acting
    PROVE  ActNumber \in 0 .. n - 1
<1> DEFINE l == OpLength(Machine(pc))
<1>1. pc \in Nat /\ l \in Nat
  BY OpLengthNat DEF TypeOK
<1>2. job.machine[pc + l] \in 0 .. n - 1
  BY Zenon DEF AtStart, ActionsBelow, Machine
<1> HIDE DEF l
<1>3. pc + l - 1 + 1 = pc + l
  BY <1>1
<1> QED
  BY <1>2, <1>3 DEF ActNumber, Machine, l

(* Whatever is not an instruction with an action makes no call.            *)
LEMMA NoCall == ASSUME NEW n, CallsBelow(n), UNCHANGED calls PROVE CallsBelow(n)'
BY DEF CallsBelow

LEMMA LeaveCalls == ASSUME NEW r, Leave(r) PROVE UNCHANGED calls
BY DEF Leave, history

LEMMA ErrorCalls == Error => UNCHANGED calls
BY LeaveCalls DEF Error

LEMMA NextOpCalls == NextOp => UNCHANGED calls
<1>1. MachineOverrun \/ TagOverrun \/ TagRejected => UNCHANGED calls
  BY ErrorCalls DEF MachineOverrun, TagOverrun, TagRejected
<1>2. SkipMatch \/ OptionalAbsent => UNCHANGED calls
  BY DEF SkipMatch, OptionalAbsent, SkipOp, history
<1>3. ASSUME NEW t, NEW l, NEW h, NEW d, NEW indefinite, Enter(t, l, h, d, indefinite)
      PROVE  UNCHANGED calls
  BY <1>3, ErrorCalls DEF Enter, history
<1>4. MatchShort => UNCHANGED calls
  BY <1>3, Zenon DEF MatchShort
<1>5. MatchIndefinite => UNCHANGED calls
  BY <1>3, ErrorCalls, Zenon DEF MatchIndefinite
<1>6. MatchLong => UNCHANGED calls
  BY <1>3, ErrorCalls, Zenon DEF MatchLong
<1> QED
  BY <1>1, <1>2, <1>4, <1>5, <1>6 DEF NextOp

LEMMA ScanCalls == FindIndefiniteLength => UNCHANGED calls
<1>1. ASSUME NEW label, NEW s, ScanGoes(label, s) PROVE UNCHANGED calls
  BY <1>1 DEF ScanGoes, history
<1>2. PageFault \/ ScanOverrun => UNCHANGED calls
  BY ErrorCalls DEF PageFault, ScanOverrun, history
<1>3. ScanTag \/ ScanTagOctet => UNCHANGED calls
  BY <1>1, Zenon DEF ScanTag, ScanTagOctet
<1>4. ScanEoc => UNCHANGED calls
  BY <1>1, ErrorCalls DEF ScanEoc
<1>5. ScanLength => UNCHANGED calls
  BY <1>1, ErrorCalls, Zenon DEF ScanLength
<1>6. ScanLengthOctet => UNCHANGED calls
  BY <1>1, Zenon DEF ScanLengthOctet
<1> QED
  BY <1>2, <1>3, <1>4, <1>5, <1>6 DEF FindIndefiniteLength

(* Every call of a step is of the table.                                   *)
LEMMA StepCalls ==
    ASSUME NEW n, TypeInv, LayoutInv, Addressable(job.machine), ActionsBelow(job.machine, n),
           CallsBelow(n), [Next]_vars
    PROVE  CallsBelow(n)'
<1>1. /\ AtStart(pc) /\ TypeOK /\ dp \in Nat /\ tdp \in Nat /\ tag \in Nat /\ len \in Int
      /\ datalen \in Nat
  BY DEF LayoutInv, TypeInv, TypeOK
<1>2. Machine(pc) \in Acting => ActNumber \in 0 .. n - 1
  BY <1>1, ActBelow
<1>3. CASE MatchActOp
  <2>1. Machine(pc) \in Acting /\ Call(ActNumber, dp, len, tag)
    BY <1>3 DEF MatchActOp, Matched, Acting
  <2> QED
    BY <1>1, <1>2, <2>1, CallBelow
<1>4. CASE ActOp
  <2>1. Machine(pc) \in Acting /\ Call(ActNumber, tdp, len, tag)
    BY <1>4 DEF ActOp, Fetched, Acting
  <2> QED
    BY <1>1, <1>2, <2>1, CallBelow
<1>5. ASSUME csp > 0, NEW limit \in Nat, NEW past, NEW outer, Close(limit, past, outer)
      PROVE  CallsBelow(n)'
  <2>1. Top.dp \in Nat /\ limit - Top.dp \in Int
    BY <1>5, TopType
  <2>2. CASE Machine(pc) \in EndAct
    <3>1. Call(ActNumber, Top.dp, limit - Top.dp, 0)
      BY <1>5, <2>2 DEF Close
    <3>2. Machine(pc) \in Acting
      BY <2>2 DEF Acting
    <3> QED
      BY <1>2, <2>1, <3>1, <3>2, CallBelow
  <2>3. CASE Machine(pc) \notin EndAct
    BY <1>5, <2>3, NoCall DEF Close
  <2> QED
    BY <2>2, <2>3
<1>6. LoopBack => UNCHANGED calls
  BY DEF LoopBack, history
<1>7. CASE EndDefinite
  <2>1. csp > 0
    BY <1>7 DEF EndDefinite, EndFetched
  <2> QED
    BY <1>1, <1>5, <1>6, <1>7, <2>1, ErrorCalls, NoCall DEF EndDefinite
<1>8. CASE EndIndefinite
  <2>1. csp > 0
    BY <1>8 DEF EndIndefinite, EndFetched
  <2> QED
    BY <1>1, <1>5, <1>6, <1>8, <2>1, ErrorCalls, NoCall DEF EndIndefinite
<1>9. CASE \/ MatchOp \/ MatchJumpOp \/ CondFailOp \/ CompleteOp \/ ReturnOp \/ EndRefused
  <2>1. UNCHANGED calls
    BY <1>9, ErrorCalls, LeaveCalls
    DEF MatchOp, MatchJumpOp, CondFailOp, SkipOp, CompleteOp, ReturnOp, EndRefused, history
  <2> QED
    BY <2>1, NoCall
<1>10. CASE Entry \/ NextOp \/ FindIndefiniteLength \/ UNCHANGED vars
  <2>1. UNCHANGED calls
    BY <1>10, NextOpCalls, ScanCalls, LeaveCalls DEF Entry, history, vars
  <2> QED
    BY <2>1, NoCall
<1> QED
  BY <1>3, <1>4, <1>7, <1>8, <1>9, <1>10 DEF Next, Switch

----------------------------------------------------------------------------
(* The path of a grammar, from its text to a call of the decoder.          *)

(* While there is a compiler its invariants hold and the decoder has not   *)
(* begun; then the machine decoded is one that is laid out.                *)
CompilerInv == C!TypeOK /\ CourseInv /\ NamedInv /\ CodeInv /\ Begun
TableInv == ActionsBelow(job.machine, Len(job.actions)) /\ Len(job.actions) \in Nat
CallsInv == Addressable(job.machine) => CallsBelow(Len(job.actions))
PipelineInv ==
    /\ stage # "built" => CompilerInv
    /\ ContentsInv /\ LayoutInv
    /\ stage = "built" => TableInv /\ CallsInv
    /\ stage = "built" /\ Len(job.machine) <= 256 => LaidOut(job.machine)

LEMMA PipelineBegins == PipelineInit => PipelineInv /\ Elements!Init
<1> SUFFICES ASSUME PipelineInit PROVE PipelineInv /\ Elements!Init
  OBVIOUS
<1>1. C!Init /\ Init
  BY DEF PipelineInit
<1>2. C!TypeOK /\ CourseInv /\ NamedInv /\ CodeInv
  BY <1>1, InitType, CourseInit, NamedInit, CodeInit
<1>3. stage # "built"
  BY <1>2 DEF C!TypeOK, C!Stages, C!Ends
<1>4. Begun
  BY <1>1 DEF Init
<1>5. ContentsInv /\ LayoutInv /\ Elements!Init
  BY <1>1, <1>4, InitContents, BegunLayout
<1> QED
  BY <1>2, <1>3, <1>4, <1>5 DEF PipelineInv, CompilerInv

(* Nothing of the decoder moves.                                           *)
LEMMA DecoderStill ==
    ASSUME PipelineInv, UNCHANGED vars
    PROVE  /\ ContentsInv' /\ LayoutInv' /\ UNCHANGED Elements!vars
           /\ Begun => Begun'
           /\ LaidOut(job.machine)' <=> LaidOut(job.machine)
           /\ TableInv => TableInv'
           /\ CallsInv => CallsInv'
<1>1. ContentsInv /\ LayoutInv /\ [Next]_vars
  BY DEF PipelineInv
<1>2. ContentsInv' /\ LayoutInv'
  BY <1>1, StepContents, StepLayout
<1>3. UNCHANGED Elements!vars
  BY DEF vars, stacks, history, Elements!vars
<1>4. Begun => Begun'
  BY DEF Begun, vars, element, stacks, history
<1>5. /\ LaidOut(job.machine)' <=> LaidOut(job.machine)
      /\ TableInv => TableInv'
      /\ CallsInv => CallsInv'
  BY DEF vars, history, TableInv, CallsInv, CallsBelow
<1> QED
  BY <1>2, <1>3, <1>4, <1>5

(* The compiler stops when it is done, and it is done when it says so.     *)
LEMMA CompilerStages ==
    C!Next => stage # "built" /\ (stage' = "done" => C!FinishRender)
<1> SUFFICES ASSUME C!Next PROVE stage # "built" /\ (stage' = "done" => C!FinishRender)
  OBVIOUS
<1>1. CASE C!Tokenise
  BY <1>1 DEF C!Tokenise, C!TakeLine, C!NoComment, C!CutComment, C!ExciseComment, C!ScanSymbol,
              C!EndOfLine, C!Refuse
<1>2. CASE C!Parse
  <2>1. C!BuildTypeList \/ C!BeginDefinition \/ C!EndDefinition
          => stage # "built" /\ stage' # "done"
    BY DEF C!BuildTypeList, C!BeginDefinition, C!EndDefinition, C!Refuse
  <2>2. C!ParseSimple \/ C!ParseReference \/ C!ParseOf \/ C!ParseCompound \/ C!ParseError
          => stage # "built" /\ stage' # "done"
    BY DEF C!ParseSimple, C!ParseReference, C!ParseOf, C!ParseCompound, C!ParseError, C!Heading,
           C!Simple, C!Reference, C!Open, C!Refuse
  <2>3. C!ParseMember \/ C!ParseSuffix \/ C!AttachOf \/ C!AttachMember \/ C!CloseCompound
          \/ C!CompoundError => stage # "built" /\ stage' # "done"
    BY DEF C!ParseMember, C!ParseSuffix, C!AttachOf, C!AttachMember, C!CloseCompound,
           C!CompoundError, C!Attaching, C!Resume, C!Refuse
  <2> QED
    BY <1>2, <2>1, <2>2, <2>3 DEF C!Parse
<1>3. CASE C!StartPass1 \/ C!StartPass2 \/ C!FinishRender \/ C!RenderSet \/ C!RenderBeyond
  BY <1>3 DEF C!StartPass1, C!StartPass2, C!FinishRender, C!PassEnds, C!RenderSet, C!RenderBeyond, C!Rendering,
              C!Refuse
<1>4. CASE RenderTurn
  BY <1>4 DEF RenderTurn, C!RenderBytes, C!RenderAny, C!RenderSimple, C!RenderOverride,
              C!RenderReference, C!RenderChoice, C!RenderJump, C!RenderInline, C!Rendering,
              C!Renders
<1>5. CASE C!RenderSubroutine
  BY <1>5 DEF C!RenderSubroutine, C!Rendered
<1> QED
  BY <1>1, <1>2, <1>3, <1>4, <1>5 DEF C!Next, C!Render, RenderTurn

(* The compiler makes a step.                                              *)
LEMMA CompileKeeps ==
    ASSUME PipelineInv, Compile
    PROVE  PipelineInv' /\ C!EntriesKept /\ CompiledLaidOut /\ UNCHANGED Elements!vars
<1>1. stage # "built"
  BY CompilerStages DEF Compile
<1>2. C!TypeOK /\ CourseInv /\ NamedInv /\ CodeInv /\ Begun
  BY <1>1 DEF PipelineInv, CompilerInv
<1>3. [C!Next]_(C!vars) /\ UNCHANGED vars
  BY DEF Compile
<1>4. C!TypeOK' /\ CourseInv' /\ C!EntriesKept /\ NamedInv' /\ CodeInv'
  BY <1>2, <1>3, TypeStep, CourseStep, NamedStep, CodeStep
<1>5. stage' # "built"
  BY <1>4 DEF C!TypeOK, C!Stages, C!Ends
<1>6. ContentsInv' /\ LayoutInv' /\ UNCHANGED Elements!vars /\ Begun'
  BY <1>2, <1>3, DecoderStill
<1>7. PipelineInv'
  BY <1>4, <1>5, <1>6 DEF PipelineInv, CompilerInv
<1>8. CompiledLaidOut
  <2> SUFFICES ASSUME stage' = "done", Len(code) <= 256 PROVE LaidOut(code)
    BY DEF CompiledLaidOut
  <2>1. C!FinishRender
    BY CompilerStages DEF Compile
  <2> QED
    BY <1>2, <2>1, EndLaid DEF C!FinishRender, C!PassEnds
<1> QED
  BY <1>4, <1>6, <1>7, <1>8

(* The decoder is linked with what the compiler has written.               *)
LEMMA BuildKeeps ==
    ASSUME PipelineInv, Build
    PROVE  PipelineInv' /\ C!EntriesKept /\ CompiledLaidOut /\ UNCHANGED Elements!vars
<1>1. C!TypeOK /\ CodeInv /\ Begun /\ stage = "done"
  BY DEF Build, PipelineInv, CompilerInv
<1>2. /\ code \in Seq(Byte) /\ (Len(code) <= 256 => LaidOut(code))
      /\ ActionsBelow(code, Cardinality(actions))
  BY <1>1, DoneLaid
<1>3. PICK d \in DocumentsFor(grammar) :
        /\ job' = [machine |-> code, document |-> [calls |-> d.calls, near |-> d.near],
                   data |-> d.data, actions |-> ActionTable]
        /\ datalen' = Len(d.data)
  BY DEF Build
<1>4. job'.machine = code /\ job'.data = d.data /\ job'.actions = ActionTable
  BY <1>3
<1>5. d.data \in Seq(Byte)
  BY <1>1, DocumentsAssumption DEF C!TypeOK
<1>6. IsCall(job)'
  BY <1>2, <1>4, <1>5 DEF IsCall
<1>7. UNCHANGED <<at, pc, dp, element, stacks, scan, ret, history>> /\ datalen' = Len(job'.data)
  BY <1>3, <1>4 DEF Build
<1>8. Begun'
  BY <1>1, <1>7 DEF Begun, element, stacks, history
<1>9. ContentsInv' /\ LayoutInv'
  BY <1>6, <1>8, BegunContents, BegunLayout, PTL
<1>10. stage' = "built" /\ pass' = 0
  BY DEF Build
<1>13. Len(job'.actions) = Cardinality(actions) /\ Cardinality(actions) \in Nat
  <2>1. Cardinality(actions) \in Nat
    BY <1>1, LowercaseFinite, FS_Subset, FS_CardinalityType DEF C!TypeOK, C!ParserOK
  <2> QED
    BY <1>4, <2>1 DEF ActionTable
<1>14. TableInv'
  BY <1>2, <1>4, <1>13 DEF TableInv
<1>15. CallsInv'
  BY <1>8 DEF Begun, CallsInv, CallsBelow
<1>11. PipelineInv'
  BY <1>2, <1>4, <1>9, <1>10, <1>14, <1>15 DEF PipelineInv
<1>12. UNCHANGED Elements!vars
  BY <1>7 DEF stacks, history, Elements!vars
<1> QED
  BY <1>10, <1>11, <1>12 DEF C!EntriesKept, CompiledLaidOut

(* The decoder makes a step.                                               *)
LEMMA DecodeKeeps ==
    ASSUME PipelineInv, Decode
    PROVE  /\ PipelineInv' /\ C!EntriesKept /\ CompiledLaidOut /\ job' = job
           /\ Fit(Len(job.data)) => Walk
<1>1. stage = "built" /\ stage' = "built" /\ Next /\ entry' = entry
  BY DEF Decode, compiler
<1>2. ContentsInv' /\ LayoutInv' /\ (Fit(Len(job.data)) => Walk)
  BY <1>1, StepContents, StepLayout DEF PipelineInv
<1>3. job' = job
  BY <1>1, StepMoves DEF PipelineInv, ContentsInv, Moves
<1>4. TableInv' /\ CallsInv'
  <2>1. TypeInv /\ LayoutInv /\ TableInv /\ CallsInv
    BY <1>1 DEF PipelineInv, ContentsInv
  <2>2. TableInv'
    BY <1>3, <2>1 DEF TableInv
  <2>3. ASSUME Addressable(job.machine) PROVE CallsBelow(Len(job.actions))'
    <3> DEFINE n == Len(job.actions)
    <3>1. CallsBelow(n) /\ ActionsBelow(job.machine, n)
      BY <2>1, <2>3 DEF TableInv, CallsInv
    <3>2. CallsBelow(n)' <=> calls' \in Seq(CallSet(n))
      BY <1>3 DEF CallsBelow
    <3> PICK m : m = n
      OBVIOUS
    <3> HIDE DEF n
    <3>3. CallsBelow(m)'
      BY <1>1, <2>1, <2>3, <3>1, StepCalls
    <3> QED
      BY <1>3, <3>3 DEF n, CallsBelow
  <2> QED
    BY <1>3, <2>2, <2>3 DEF CallsInv
<1>5. PipelineInv'
  BY <1>1, <1>2, <1>3, <1>4 DEF PipelineInv
<1> QED
  BY <1>1, <1>2, <1>3, <1>5 DEF C!EntriesKept, CompiledLaidOut

(* The document is one whose ends the 16 bits of the stack hold.           *)
FitInv == stage = "built" => Fit(Len(job.data))

LEMMA PipelineSteps ==
    PipelineInv /\ [PipelineNext]_<<vars, compiler>>
       => /\ PipelineInv' /\ (FitInv => Walk)
          /\ [C!EntriesKept /\ CompiledLaidOut]_<<vars, compiler>>
<1> SUFFICES ASSUME PipelineInv, [PipelineNext]_<<vars, compiler>>
             PROVE  /\ PipelineInv' /\ (FitInv => Walk)
                    /\ [C!EntriesKept /\ CompiledLaidOut]_<<vars, compiler>>
  OBVIOUS
<1>1. CASE Compile
  BY <1>1, CompileKeeps DEF Walk
<1>2. CASE Build
  BY <1>2, BuildKeeps DEF Walk
<1>3. CASE Decode
  <2>1. stage = "built"
    BY <1>3 DEF Decode
  <2> QED
    BY <1>3, <2>1, DecodeKeeps DEF FitInv
<1>4. CASE UNCHANGED <<vars, compiler>>
  <2>1. ContentsInv' /\ LayoutInv' /\ UNCHANGED Elements!vars
    BY <1>4, DecoderStill
  <2>2. UNCHANGED <<vars, compiler>>
    BY <1>4
  <2>3. job' = job /\ stage' = stage
    BY <2>2 DEF vars, compiler
  <2>4. ASSUME stage # "built" PROVE CompilerInv'
    <3>1. CompilerInv
      BY <2>4 DEF PipelineInv
    <3>2. UNCHANGED C!vars
      BY <2>2 DEF compiler, C!vars, C!scanner, C!parser, C!renderer
    <3>3. C!TypeOK' /\ CourseInv' /\ NamedInv' /\ CodeInv'
      BY <3>1, <3>2, TypeStep, CourseStep, NamedStep, CodeStep DEF CompilerInv
    <3>4. Begun'
      BY <1>4, <3>1, DecoderStill DEF CompilerInv
    <3> QED
      BY <3>3, <3>4 DEF CompilerInv
  <2>5. ASSUME stage = "built" PROVE TableInv' /\ CallsInv'
    BY <1>4, <2>5, DecoderStill DEF PipelineInv
  <2>6. PipelineInv'
    BY <2>1, <2>3, <2>4, <2>5 DEF PipelineInv
  <2> QED
    BY <2>1, <2>2, <2>6 DEF Walk
<1> QED
  BY <1>1, <1>2, <1>3, <1>4 DEF PipelineNext

(* The compiler and the decoder keep the types of their variables, for any *)
(* set of grammars and any documents.                                      *)
THEOREM PipelineTyped == PipelineSpec => []PipelineTypeOK
<1>1. PipelineInv => PipelineTypeOK
  BY DEF PipelineInv, CompilerInv, ContentsInv, TypeInv, PipelineTypeOK
<1> QED
  BY <1>1, PipelineBegins, PipelineSteps, PTL DEF PipelineSpec

(* In the second pass of the compiler every subroutine comes to lie where  *)
(* the first had it, so that the jumps written lead there; and when it is  *)
(* done, what it has written is laid out as the decoder relies on.         *)
THEOREM CompilerAgrees == PipelineSpec => PassesAgree
BY PipelineBegins, PipelineSteps, PTL DEF PipelineSpec, PassesAgree

(* The decoder runs the bytecode of any grammar from instruction to        *)
(* instruction, if it has at most 256 bytes, whatever the document.        *)
THEOREM MachineRuns == PipelineSpec => []RunsInstructions
<1>1. PipelineInv => RunsInstructions
  BY DEF PipelineInv, LayoutInv, AtStart, Addressable, RunsInstructions
<1> QED
  BY <1>1, PipelineBegins, PipelineSteps, PTL DEF PipelineSpec

(* Every call made is of an action of the table, whatever the grammar, the *)
(* number of its actions and the document.                                 *)
THEOREM CallsStayInTable == PipelineSpec => []ActionsInTable
<1>1. PipelineInv => ActionsInTable
  <2> SUFFICES ASSUME PipelineInv, stage = "built", Len(job.machine) <= 256, NEW k \in DOMAIN calls
               PROVE  calls[k].action < Len(job.actions)
    BY DEF ActionsInTable
  <2>1. calls \in Seq(CallSet(Len(job.actions))) /\ Len(job.actions) \in Nat
    BY DEF PipelineInv, CallsInv, CallsBelow, TableInv, Addressable
  <2>2. calls[k] \in CallSet(Len(job.actions))
    BY <2>1, ElementOfSeq
  <2>3. calls[k].action \in 0 .. Len(job.actions) - 1
    BY <2>2 DEF CallSet
  <2> QED
    BY <2>1, <2>3
<1> QED
  BY <1>1, PipelineBegins, PipelineSteps, PTL DEF PipelineSpec

(* The documents are of sizes that stay within 16 bits, whatever their     *)
(* lengths of the short form say.                                          *)
DocumentsFit == \A g \in Grammars : \A d \in DocumentsFor(g) : Fit(Len(d.data))

LEMMA FitBegins == PipelineInit => FitInv
BY DEF PipelineInit, C!Init, FitInv

LEMMA FitSteps ==
    ASSUME DocumentsFit, PipelineInv, FitInv, [PipelineNext]_<<vars, compiler>>
    PROVE  FitInv'
<1>1. CASE Compile
  <2>1. PipelineInv' /\ stage # "built"
    BY <1>1, CompileKeeps, CompilerStages DEF Compile
  <2>2. C!TypeOK'
    <3>1. C!TypeOK /\ [C!Next]_(C!vars)
      BY <1>1, <2>1 DEF Compile, PipelineInv, CompilerInv
    <3> QED
      BY <3>1, TypeStep
  <2> QED
    BY <2>2 DEF C!TypeOK, C!Stages, C!Ends, FitInv
<1>2. CASE Build
  <2>1. grammar \in Grammars
    BY <1>2 DEF Build, PipelineInv, CompilerInv, C!TypeOK
  <2>2. PICK d \in DocumentsFor(grammar) :
          job' = [machine |-> code, document |-> [calls |-> d.calls, near |-> d.near],
                  data |-> d.data, actions |-> ActionTable]
    BY <1>2 DEF Build
  <2>3. job'.data = d.data /\ Fit(Len(d.data))
    BY <2>1, <2>2 DEF DocumentsFit
  <2>4. Fit(Len(job'.data))
    BY <2>3
  <2> QED
    BY <2>4 DEF FitInv, Fit
<1>3. CASE Decode
  <2>1. job' = job /\ stage = "built"
    BY <1>3, DecodeKeeps DEF Decode
  <2> QED
    BY <2>1 DEF FitInv, Fit
<1>4. CASE UNCHANGED <<vars, compiler>>
  BY <1>4 DEF FitInv, Fit, vars, compiler
<1> QED
  BY <1>1, <1>2, <1>3, <1>4 DEF PipelineNext

(* Over the whole path the decoder's cursor and its stack of open elements *)
(* do no more than the walk over a document allows, as long as what the    *)
(* document can add up to fits into the entries of that stack.             *)
THEOREM PipelineWalks == ASSUME DocumentsFit PROVE PipelineSpec => WalksElements
<1>1. PipelineInv /\ FitInv /\ [PipelineNext]_<<vars, compiler>>
        => PipelineInv' /\ FitInv' /\ Walk
  BY PipelineSteps, FitSteps
<1> QED
  BY <1>1, PipelineBegins, FitBegins, PTL
  DEF PipelineSpec, WalksElements, Walk, Elements!Spec

=============================================================================
