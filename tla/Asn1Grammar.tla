---------------------------- MODULE Asn1Grammar ----------------------------
(***************************************************************************)
(* A reference meaning for the grammars that asn1_compiler takes: trees,   *)
(* their text, documents of them, and what a document means.  (Recursive,  *)
(* for model checking only.)                                               *)
(*                                                                         *)
(* A grammar is a sequence of types [name, def].                           *)
(***************************************************************************)
EXTENDS Integers, FiniteSets, TLC, X509

Bare(kind, word, of) ==
    [ kind |-> kind, word |-> word, of |-> of, label |-> -1, implicit |-> FALSE,
      optional |-> FALSE, action |-> "none" ]

Simple(word) == Bare("simple", word, <<>>)
AnyType      == Bare("any", "ANY", <<>>)
Ref(name)    == Bare("ref", name, <<>>)
SequenceOf(x) == Bare("of", "SEQUENCE", <<x>>)
SetOf(x)      == Bare("of", "SET", <<x>>)
SequenceType(members) == Bare("sequence", "SEQUENCE", members)
ChoiceType(members)   == Bare("choice", "CHOICE", members)

Labelled(n, x)   == [x EXCEPT !.label = n]
Implicitly(n, x) == [x EXCEPT !.label = n, !.implicit = TRUE]
Optional(x)      == [x EXCEPT !.optional = TRUE]
Acting(a, x)     == [x EXCEPT !.action = a]

Type(name, def) == [name |-> name, def |-> def]

----------------------------------------------------------------------------
(* The text: a line for each type.                                         *)

SecondWord(word) ==
    CASE word = "OBJECT" -> <<"IDENTIFIER">> [] word \in {"BIT", "OCTET"} -> <<"STRING">> [] OTHER -> <<>>

RECURSIVE Words(_)
Words(x) ==
    (IF x.label >= 0 THEN <<"[", ToString(x.label), "]">> ELSE <<>>)
      \o (IF x.implicit THEN <<"IMPLICIT">> ELSE <<>>)
      \o <<x.word>>
      \o (CASE x.kind \in {"sequence", "choice"} ->
                 <<"{">> \o FlattenSeq([i \in DOMAIN x.of |->
                     (IF i = 1 THEN <<>> ELSE <<",">>) \o <<"member">> \o Words(x.of[i])]) \o <<"}">>
            [] x.kind = "of" -> <<"OF">> \o Words(x.of[1])
            [] OTHER -> SecondWord(x.word))
      \o (IF x.optional THEN <<"OPTIONAL">> ELSE <<>>)
      \o (IF x.action # "none" THEN <<"({", x.action, "})">> ELSE <<>>)

TextOf(g) == [t \in DOMAIN g |-> <<g[t].name, "::=">> \o Words(g[t].def)]

(* Numbers, and the words for them.                                        *)
Values == 0 .. 12 \cup {30, 31, 32, 40, 255, 256, 300}
NumeralValues == [w \in {ToString(n) : n \in Values} |-> CHOOSE n \in Values : ToString(n) = w]
Classes == {"UNIVERSAL", "APPLICATION", "PRIVATE"}

(* The notation, as far as asn1_compiler takes it: where a type that       *)
(* begins at token i may end, before and behind its OPTIONAL and action.   *)
Types(w) == {n \in 1 .. Len(w) - 1 : w[n] \in {"A", "B", "C"} /\ w[n + 1] = "::="}
RECURSIVE TypeEnds(_, _), MemberEnds(_, _)
TypeEnds(w, i) ==
    LET W(k) == IF k <= Len(w) THEN w[k] ELSE "end"
        Numbered(k) == W(k) \in DOMAIN NumeralValues /\ W(k + 1) = "]"
        labelled == {i} \cup {k \in {i + 3} : W(i) = "[" /\ Numbered(i + 1)}
                        \cup {k \in {i + 4} : W(i) = "[" /\ W(i + 1) \in Classes /\ Numbered(i + 2)}
        marked == labelled \cup {k + 1 : k \in {k \in labelled : W(k) \in {"IMPLICIT", "EXPLICIT"}}}
        Bodies(k) ==
          CASE W(k) \in {"INTEGER", "NULL", "ANY", "EXTERNAL"} -> {k + 1}
            [] W(k) = "BIT" /\ W(k + 1) = "STRING" -> {k + 2}
            [] W(k) \in {"A", "B", "C"} /\ \E n \in Types(w) : w[n] = W(k) -> {k + 1}
            [] W(k) \in {"SEQUENCE", "SET"} /\ W(k + 1) = "OF" -> TypeEnds(w, k + 2)
            [] W(k) \in {"SEQUENCE", "CHOICE"} /\ W(k + 1) = "{" ->
                 {n + 1 : n \in {n \in MemberEnds(w, k + 2) : W(n) = "}"}}
            [] OTHER -> {}
        bodies == UNION {Bodies(k) : k \in marked}
        optional == bodies \cup {k + 1 : k \in {k \in bodies : W(k) \in {"OPTIONAL", "DEFAULT"}}}
    IN optional \cup {k + 3 : k \in {k \in optional : W(k) = "({" /\ W(k + 1) \in {"m", "act"} /\ W(k + 2) = "})"}}
MemberEnds(w, i) ==
    LET one == TypeEnds(w, i) \cup (IF i <= Len(w) /\ w[i] \in {"m", "act"} THEN TypeEnds(w, i + 1) ELSE {})
    IN one \cup UNION {MemberEnds(w, k + 1) : k \in {k \in one : k <= Len(w) /\ w[k] = ","}}

(* A text of definitions; what stands before the first is passed over.     *)
Derivable(w) ==
    /\ Types(w) # {}
    /\ \A n \in Types(w) :
         LET next == {k \in Types(w) : k > n}
             end == IF next = {} THEN Len(w) + 1 ELSE CHOOSE k \in next : \A j \in next : k <= j
         IN end \in TypeEnds(w, n + 2)

Definition(g, name) == (CHOOSE t \in ToSet(g) : t.name = name).def

----------------------------------------------------------------------------
(* Tags: a class and a number in one, without the bit for constructed.     *)

UniversalTag(word) ==
    CASE word = "BOOLEAN" -> 1 [] word = "INTEGER" -> 2 [] word = "BIT" -> 3 [] word = "OCTET" -> 4
      [] word = "NULL" -> 5 [] word = "OBJECT" -> 6 [] word = "ENUMERATED" -> 10
      [] word = "SEQUENCE" -> 16 [] word = "SET" -> 17

Own(x, over) == IF over >= 0 THEN over ELSE UniversalTag(x.word)
Outer(x, over) == IF over >= 0 THEN over ELSE 128 + x.label
Explicit(x) == x.label >= 0 /\ ~x.implicit
(* The tag that an implicit label, here or further out, puts on a type.    *)
Over(x, over) == IF over >= 0 THEN over ELSE IF x.implicit THEN 128 + x.label ELSE -1

----------------------------------------------------------------------------
(* Documents of a type: byte strings, each with lengths of one form.       *)

Contents(word) == IF word = "NULL" THEN {<<>>} ELSE IF word = "INTEGER" THEN {<<7>>, <<0, 0>>} ELSE {<<9>>}
Strange == { <<5, 0>>, <<48, 4, 2, 2, 0, 0>>, <<48, 128, 36, 128, 4, 0, 0, 0, 0, 0>> }

RECURSIVE Encodings(_, _, _, _, _)
Encodings(g, x, form, over, depth) ==
    LET Each(y) == Encodings(g, y, form, -1, depth)
        Concat(sets) == FoldLeft(LAMBDA acc, S : {a \o b : a \in acc, b \in S}, {<<>>}, sets)
        Within(t, bodies) == {Framed(t + 32, b, form) : b \in bodies}
        plain ==
          CASE Explicit(x) -> Within(Outer(x, over), Encodings(g, [x EXCEPT !.label = -1, !.optional = FALSE], form, -1, depth))
            [] x.kind = "simple" -> {Framed(Own(x, Over(x, over)), c, "short") : c \in Contents(x.word)}
            [] x.kind = "any" -> IF x.action # "none" THEN {<<5, 0>>} ELSE Strange
            [] x.kind = "ref" -> IF depth = 0 THEN {}
                                 ELSE Encodings(g, Definition(g, x.word), form, Over(x, over), depth - 1)
            [] x.kind = "choice" -> UNION {Each(x.of[i]) : i \in DOMAIN x.of}
            [] x.kind = "sequence" -> Within(Own(x, Over(x, over)), Concat([i \in DOMAIN x.of |-> Each(x.of[i])]))
            [] x.kind = "of" ->
                 LET one == Each(x.of[1])
                 IN Within(Own(x, Over(x, over)),
                           one \cup {a \o b : a, b \in one}
                               \* the decoder cannot do without members here (README)
                               \cup (IF form = "short" /\ x.of[1].kind = "simple" THEN {<<>>} ELSE {}))
    IN plain \cup (IF x.optional THEN {<<>>} ELSE {})

EncodingsOf(g, form) == Encodings(g, g[1].def, form, -1, 3)

----------------------------------------------------------------------------
(* What a byte string means: Reads yields the ways in which a type can be  *)
(* read from the byte at i on, up to `end': where each stops, the          *)
(* callbacks on the way, and the contents of the element read.  With       *)
(* `lax', what the decoder lets pass is read too.                          *)

RECURSIVE SkipElement(_, _), ContentsEnd(_, _)
(* Behind the element at i; and where the contents from i on end in an EOC.*)
SkipElement(b, i) ==
    IF i + 1 > Len(b) THEN Len(b) + 2
    ELSE IF b[i + 1] = 128 THEN ContentsEnd(b, i + 2) + 2
    ELSE i + 2 + b[i + 1]
ContentsEnd(b, i) ==
    IF i + 1 > Len(b) THEN Len(b) + 1
    ELSE IF b[i] = 0 /\ b[i + 1] = 0 THEN i
    ELSE ContentsEnd(b, SkipElement(b, i))

First(b, i) == i + 2
Past(b, i) == IF b[i + 1] = 128 THEN ContentsEnd(b, i + 2) ELSE i + 2 + b[i + 1]

Way(next, cs, first, past) == [next |-> next, calls |-> cs, first |-> first, past |-> past]

RECURSIVE Reads(_, _, _, _, _, _, _)
RECURSIVE ReadsAll(_, _, _, _, _, _), ReadsSome(_, _, _, _, _, _)
Reads(g, b, lax, x, i, end, over) ==
    LET HasTag(t) == i + 1 < end /\ i + 1 <= Len(b) /\ SkipElement(b, i) <= end
                     /\ (b[i] = t \/ (lax /\ t % 64 >= 32 /\ b[i] = t - 32))
        One(y, j, stop) == Reads(g, b, lax, y, j, stop, -1)
        Marked(w) == IF x.action = "none" THEN w
                    ELSE [w EXCEPT !.calls = Append(@, <<x.action, SubSeq(b, w.first, w.past - 1)>>)]
        Whole(cs) == Way(SkipElement(b, i), cs, First(b, i), Past(b, i))
        \* the element at i with the contents that `ways' read to their end
        Holding(ways) == {Marked(Whole(w.calls)) : w \in {v \in ways : v.next = Past(b, i)}}
        \* the bound of the contents: a member may be missing there
        inside == Past(b, i)
        plain ==
          CASE Explicit(x) ->
                 IF HasTag(Outer(x, over) + 32)
                 THEN {Whole(w.calls) : w \in {v \in One([x EXCEPT !.label = -1, !.optional = FALSE], i + 2, inside) :
                                                 v.next = inside}}
                 ELSE {}
            [] x.kind = "simple" ->
                 IF HasTag(Own(x, Over(x, over))) THEN {Marked(Whole(<<>>))} ELSE {}
            [] x.kind = "any" ->
                 IF i + 1 < end /\ SkipElement(b, i) <= end THEN {Marked(Whole(<<>>))} ELSE {}
            [] x.kind = "ref" ->
                 {Marked(w) : w \in Reads(g, b, lax, Definition(g, x.word), i, end, Over(x, over))}
            [] x.kind = "choice" ->
                 {Marked(w) : w \in UNION {One(x.of[k], i, end) : k \in DOMAIN x.of}}
            [] x.kind = "sequence" ->
                 IF HasTag(Own(x, Over(x, over)) + 32)
                 THEN Holding(ReadsAll(g, b, lax, x.of, i + 2, inside)) ELSE {}
            [] x.kind = "of" ->
                 IF HasTag(Own(x, Over(x, over)) + 32)
                 THEN Holding(ReadsSome(g, b, lax, x.of[1], i + 2, inside)) ELSE {}
    IN plain \cup (IF x.optional \/ (lax /\ i = end) THEN {Way(i, <<>>, i, i)} ELSE {})
(* The members of a sequence, one after the other.                         *)
ReadsAll(g, b, lax, xs, i, end) ==
    IF xs = <<>> THEN {Way(i, <<>>, i, i)}
    ELSE UNION { {Way(v.next, w.calls \o v.calls, i, i) :
                    v \in ReadsAll(g, b, lax, Tail(xs), w.next, end)} :
                 w \in Reads(g, b, lax, Head(xs), i, end, -1) }
(* As many members of a type as there are.                                 *)
ReadsSome(g, b, lax, x, i, end) ==
    IF i >= end THEN {Way(i, <<>>, i, i)}
    ELSE UNION { {Way(v.next, w.calls \o v.calls, i, i) :
                    v \in ReadsSome(g, b, lax, x, w.next, end)} :
                 w \in Reads(g, b, lax, x, i, end, -1) }

Meanings(g, b, lax) ==
    {w.calls : w \in {v \in Reads(g, b, lax, g[1].def, 1, Len(b) + 1, -1) : v.next = Len(b) + 1}}

(* A document of the grammar; a string of bytes that may be one.           *)
Document(g, b) == [data |-> b, calls |-> Meanings(g, b, FALSE), near |-> TRUE]
Foreign(g, b) == [data |-> b, calls |-> {}, near |-> Meanings(g, b, TRUE) # {}]
=============================================================================
