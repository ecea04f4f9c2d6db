---------------------------- MODULE Asn1Compiler ----------------------------
(***************************************************************************)
(* The program listcerts/asn1_compiler.c, from the text of a grammar to    *)
(* the bytecode of the decoder: tokenise, build_type_list, parse, render.  *)
(*                                                                         *)
(* A text is a sequence of lines, a line a sequence of symbols: a word, a  *)
(* number, "::=", "({", "})", or another character.  The recursion of      *)
(* parse_type and parse_compound is the stack `frames', that of            *)
(* render_element the sequence `agenda' of what is still to be rendered.   *)
(* Names of members and types reach the output in comments only.           *)
(***************************************************************************)
EXTENDS Integers, Sequences, SequencesExt, FiniteSets

CONSTANTS
    Grammars,   \* the names of the grammar files considered
    Text,       \* the lines of each
    Lowercase,  \* the words that begin with a small letter, in strcmp order
    NumberOf    \* what strtoul makes of each word that consists of digits

VARIABLES
    grammar,    \* the file being compiled
    stage,      \* what the program is at
    lines,      \* tokenise: the lines below the one being read
    line, from, \* its symbols, and where to look for a comment
    tokens,
    types,      \* type_list: records [at, element, refs]
    defining,   \* parse: the type being defined
    cursor,
    frames,     \* the calls of parse_type that wait for a member's
    top, inner,     \* the locals top and element of the innermost one
    elements,   \* those allocated
    actions,    \* action_list: names, sorted by their use in render
    pass,
    agenda,     \* what render_element has still to do
    list,       \* render_list
    rendered,   \* the elements with ELEMENT_RENDERED
    entry,      \* entry_index of each element
    code        \* the bytes rendered in this pass

scanner == <<lines, line, from, tokens>>
parser == <<types, defining, cursor, frames, top, inner, elements, actions>>
renderer == <<pass, agenda, list, rendered, entry, code>>
vars == <<grammar, stage, scanner, parser, renderer>>

----------------------------------------------------------------------------
(* What the words are.                                                     *)

Ends == {"refused", "crashed", "done"}

(* The words of the directives table.                                      *)
DirectiveWords ==
    { "ABSENT", "ALL", "ANY", "APPLICATION", "AUTOMATIC", "BEGIN", "BIT", "BMPString",
      "BOOLEAN", "BY", "CHARACTER", "CHOICE", "CLASS", "COMPONENT", "COMPONENTS",
      "CONSTRAINED", "CONTAINING", "DEFAULT", "DEFINED", "DEFINITIONS", "EMBEDDED",
      "ENCODED", "ENCODING-CONTROL", "END", "ENUMERATED", "EXCEPT", "EXPLICIT", "EXPORTS",
      "EXTENSIBILITY", "EXTERNAL", "FALSE", "FROM", "GeneralString", "GeneralizedTime",
      "GraphicString", "IA5String", "IDENTIFIER", "IMPLICIT", "IMPLIED", "IMPORTS",
      "INCLUDES", "INSTANCE", "INSTRUCTIONS", "INTEGER", "INTERSECTION", "ISO646String",
      "MAX", "MIN", "MINUS-INFINITY", "NULL", "NumericString", "OBJECT", "OCTET", "OF",
      "OPTIONAL", "ObjectDescriptor", "PATTERN", "PDV", "PLUS-INFINITY", "PRESENT",
      "PRIVATE", "PrintableString", "REAL", "RELATIVE-OID", "SEQUENCE", "SET", "SIZE",
      "STRING", "SYNTAX", "T61String", "TAGS", "TRUE", "TeletexString", "UNION", "UNIQUE",
      "UNIVERSAL", "UTCTime", "UTF8String", "UniversalString", "VideotexString",
      "VisibleString", "WITH" }

(* Those that the search finds.  Of two words that begin alike the         *)
(* comparison has the shorter one last, so that the search for COMPONENTS, *)
(* and that for MINUS-INFINITY, goes past it.                              *)
Directives == DirectiveWords \ {"COMPONENTS", "MINUS-INFINITY"}

Marks == {"::=", "({", "})", "{", "}", "[", "]", ","}
Unknown == {"-", "(", ")", ":", "=", "."}

(* The token_type of a token: a directive and a mark are their own.        *)
TypeOf(s) ==
    IF s \in Directives \cup Marks THEN s
    ELSE IF s \in DOMAIN NumberOf THEN "NUMBER"
    ELSE IF s \in ToSet(Lowercase) THEN "ELEMENT_NAME"
    ELSE "TYPE_NAME"

----------------------------------------------------------------------------
Init ==
    /\ grammar \in Grammars
    /\ stage = "line" /\ lines = Text[grammar] /\ line = <<>> /\ from = 1 /\ tokens = <<>>
    /\ types = <<>> /\ defining = 1 /\ cursor = 0 /\ frames = <<>>
    /\ top = 0 /\ inner = 0 /\ elements = <<>> /\ actions = {}
    /\ pass = 0 /\ agenda = <<>> /\ list = <<>> /\ rendered = {} /\ entry = <<>> /\ code = <<>>

(* exit(1), after a message.                                               *)
Refuse == stage' = "refused" /\ UNCHANGED <<grammar, scanner, parser, renderer>>

----------------------------------------------------------------------------
(* tokenise.                                                               *)

Scanned == UNCHANGED <<grammar, parser, renderer>>

TakeLine ==
    /\ stage = "line" /\ lines # <<>>
    /\ stage' = "comment" /\ line' = Head(lines) /\ lines' = Tail(lines) /\ from' = 1
    /\ UNCHANGED tokens /\ Scanned

(* Where a "--" begins in the line, at or behind a place.                  *)
DashesFrom(k) == {j \in k .. Len(line) - 1 : line[j] = "-" /\ line[j + 1] = "-"}
First(S) == CHOOSE j \in S : \A i \in S : j <= i

NoComment ==
    /\ stage = "comment" /\ DashesFrom(from) = {}
    /\ stage' = "scan" /\ UNCHANGED scanner /\ Scanned

CutComment ==
    /\ stage = "comment" /\ DashesFrom(from) # {}
    /\ LET p == First(DashesFrom(from))
       IN DashesFrom(p + 2) = {} /\ line' = SubSeq(line, 1, p - 1)
    /\ stage' = "scan" /\ UNCHANGED <<lines, from, tokens>> /\ Scanned

(* A comment with a terminator: what follows is moved over it, and the     *)
(* line keeps its length.  The search goes on from where the comment was.  *)
(* (Exact for symbols of one character.)                                   *)
ExciseComment ==
    /\ stage = "comment" /\ DashesFrom(from) # {}
    /\ LET p == First(DashesFrom(from))
           q == First(DashesFrom(p + 2)) + 2
       IN /\ DashesFrom(p + 2) # {}
          /\ line' = [k \in DOMAIN line |->
                        IF k >= p /\ k + q - p <= Len(line) THEN line[k + q - p] ELSE line[k]]
          /\ from' = p
    /\ UNCHANGED <<stage, lines, tokens>> /\ Scanned

ScanSymbol ==
    /\ stage = "scan" /\ line # <<>>
    /\ IF Head(line) \in Unknown
       THEN Refuse
       ELSE /\ tokens' = IF Head(line) = " " THEN tokens ELSE Append(tokens, Head(line))
            /\ line' = Tail(line)
            /\ UNCHANGED <<stage, lines, from>> /\ Scanned

EndOfLine ==
    /\ stage = "scan" /\ line = <<>>
    /\ stage' = "line" /\ UNCHANGED scanner /\ Scanned

----------------------------------------------------------------------------
(* build_type_list: the types are the names with a "::=" behind them.      *)

Defines(n) == TypeOf(tokens[n]) = "TYPE_NAME" /\ tokens[n + 1] = "::="
Definitions == {n \in 1 .. Len(tokens) - 1 : Defines(n)}
(* The t-th of them.                                                       *)
Place(t) == CHOOSE n \in Definitions : Cardinality({m \in Definitions : m <= n}) = t

(* Without a token nr_tokens - 1 is the largest unsigned, and the search   *)
(* for types runs out of memory.                                           *)
BuildTypeList ==
    /\ stage = "line" /\ lines = <<>>
    /\ IF tokens = <<>> THEN stage' = "crashed" /\ UNCHANGED types
       ELSE IF Definitions = {} THEN stage' = "refused" /\ UNCHANGED types
       ELSE /\ stage' = "define"
            /\ types' = [t \in 1 .. Cardinality(Definitions) |->
                           [at |-> Place(t), element |-> 0, refs |-> 0]]
    /\ UNCHANGED <<grammar, scanner, defining, cursor, frames, top, inner, elements, actions,
                   renderer>>

(* Seeded bug: a definition ends at the end of the file.                   *)
Limit_file == Len(tokens) + 1
(* Where the definition at hand ends: the name of the next type.           *)
Limit == IF defining < Len(types) THEN types[defining + 1].at ELSE Len(tokens) + 1

(* The token at a place, as long as it belongs to the definition: a name   *)
(* that introduces the next one is a syntax error wherever it is looked at.*)
At(n) == IF n < Limit THEN TypeOf(tokens[n]) ELSE "end"

----------------------------------------------------------------------------
(* parse, parse_type, parse_compound.                                      *)

Parsed == UNCHANGED <<grammar, scanner, renderer>>

(* Seeded bug: the stop marker is on the last type, not behind it.         *)
Stopped_at_last == defining >= Len(types)
Stopped == defining > Len(types)

BeginDefinition ==
    /\ stage = "define" /\ ~Stopped
    /\ stage' = "type" /\ cursor' = types[defining].at + 2
    /\ UNCHANGED <<types, defining, frames, top, inner, elements, actions>> /\ Parsed

(* [ class number ], IMPLICIT or EXPLICIT, up to the token of the type.    *)
Labelled == At(cursor) = "["
ClassGiven == At(cursor + 1) \in {"UNIVERSAL", "APPLICATION", "PRIVATE"}
NumberAt == cursor + (IF ClassGiven THEN 2 ELSE 1)
LabelFits == Labelled => At(NumberAt) = "NUMBER" /\ At(NumberAt + 1) = "]"
MarkAt == IF Labelled THEN NumberAt + 2 ELSE cursor
Implicit == At(MarkAt) = "IMPLICIT"
TypeAt == MarkAt + (IF At(MarkAt) \in {"IMPLICIT", "EXPLICIT"} THEN 1 ELSE 0)

ClassOf(word) ==
    CASE word = "UNIVERSAL" -> 0 [] word = "APPLICATION" -> 1 [] word = "PRIVATE" -> 3
      [] OTHER -> 2

(* token_to_tag, of the words that introduce a type; 0 for the others.     *)
TagTable == [ BOOLEAN |-> 1, INTEGER |-> 2, BIT |-> 3, OCTET |-> 4, NULL |-> 5, OBJECT |-> 6,
    ObjectDescriptor |-> 7, EXTERNAL |-> 8, ENUMERATED |-> 10, UTF8String |-> 12,
    SEQUENCE |-> 16, SET |-> 17, NumericString |-> 18, PrintableString |-> 19,
    T61String |-> 20, TeletexString |-> 20, VideotexString |-> 21, IA5String |-> 22,
    UTCTime |-> 23, GeneralizedTime |-> 24, GraphicString |-> 25, VisibleString |-> 26,
    GeneralString |-> 27, UniversalString |-> 23, BMPString |-> 30 ]
token_to_tag(word) == IF word \in DOMAIN TagTable THEN TagTable[word] ELSE 0

InTwoWords == [BIT |-> "STRING", OCTET |-> "STRING", OBJECT |-> "IDENTIFIER"]
InOneWord ==
    (DOMAIN TagTable \ ({"SEQUENCE", "SET"} \cup DOMAIN InTwoWords)) \cup {"ISO646String"}

Element(compound, class, cons, tag) ==
    [ compound |-> compound, class |-> class, cons |-> cons, tag |-> tag, children |-> <<>>,
      ref |-> 0, type_def |-> 0, action |-> "none", skip |-> FALSE, cond |-> FALSE ]

IsConstructed(word) == word \in {"EXTERNAL", "SEQUENCE", "SET"}

(* Allocate the element of a type, inside that of its label if it has one. *)
(* The tag of a label is an octet, whatever number stands there; that of a *)
(* type without one goes by the first token, even if it is a marker.       *)
Allocate(compound, ref) ==
    LET tag == token_to_tag(At(IF Labelled THEN TypeAt ELSE cursor))
        plain == [Element(compound, 0, IsConstructed(At(TypeAt)), tag) EXCEPT !.ref = ref]
        n == Len(elements)
        label == [Element(IF Implicit THEN "TAG_OVERRIDE" ELSE "SEQUENCE",
                          ClassOf(tokens[cursor + 1]), ~Implicit, NumberOf[tokens[NumberAt]] % 256)
                    EXCEPT !.children = <<n + 2>>]
    IN IF Labelled
       THEN elements' = elements \o <<label, plain>> /\ top' = n + 1 /\ inner' = n + 2
       ELSE elements' = Append(elements, plain) /\ top' = n + 1 /\ inner' = n + 1

Named(n) == {t \in DOMAIN types : tokens[types[t].at] = tokens[n]}

(* A type without members ends with `words' words.                         *)
Simple(compound, words) ==
    /\ Allocate(compound, 0)
    /\ cursor' = TypeAt + words /\ stage' = "suffix"
    /\ UNCHANGED <<types, defining, frames, actions>> /\ Parsed

Reference(t) ==
    /\ Allocate("TYPE_REF", t)
    /\ types' = [types EXCEPT ![t].refs = @ + 1]
    /\ cursor' = TypeAt + 1 /\ stage' = "suffix"
    /\ UNCHANGED <<defining, frames, actions>> /\ Parsed

(* parse_type calls itself for the members, and waits with its locals.     *)
Open(compound, alternates, next, n) ==
    /\ Allocate(compound, 0)
    /\ frames' = Append(frames, [top |-> top', inner |-> inner', alternates |-> alternates])
    /\ cursor' = n /\ stage' = next
    /\ UNCHANGED <<types, defining, actions>> /\ Parsed

HeadingFits ==
    /\ LabelFits
    /\ CASE At(TypeAt) \in {"ANY"} \cup InOneWord -> TRUE
         [] At(TypeAt) \in DOMAIN InTwoWords -> At(TypeAt + 1) = InTwoWords[At(TypeAt)]
         [] At(TypeAt) = "TYPE_NAME" -> Named(TypeAt) # {}
         \* the test for an empty compound looks for a second "{"
         [] At(TypeAt) \in {"CHOICE", "SEQUENCE", "SET"} ->
              \/ At(TypeAt + 1) = "{" /\ At(TypeAt + 2) \notin {"end", "{"}
              \/ At(TypeAt) # "CHOICE" /\ At(TypeAt + 1) = "OF" /\ At(TypeAt + 2) # "end"
         [] OTHER -> FALSE

Heading(words) == stage = "type" /\ HeadingFits /\ At(TypeAt) \in words

ParseSimple ==
    \/ Heading({"ANY"}) /\ Simple("ANY", 1)
    \/ Heading(InOneWord) /\ Simple("NOT_COMPOUND", 1)
    \/ Heading(DOMAIN InTwoWords) /\ Simple("NOT_COMPOUND", 2)

ParseReference == Heading({"TYPE_NAME"}) /\ \E t \in Named(TypeAt) : Reference(t)

ParseOf ==
    /\ Heading({"SEQUENCE", "SET"}) /\ At(TypeAt + 1) = "OF"
    /\ Open(IF At(TypeAt) = "SET" THEN "SET_OF" ELSE "SEQUENCE_OF", FALSE, "type", TypeAt + 2)

ParseCompound ==
    /\ Heading({"CHOICE", "SEQUENCE", "SET"}) /\ At(TypeAt + 1) = "{"
    /\ Open(At(TypeAt), At(TypeAt) # "SEQUENCE", "member", TypeAt + 2)

ParseError == stage = "type" /\ ~HeadingFits /\ Refuse

(* A member of a compound may have a name.                                 *)
ParseMember ==
    /\ stage = "member"
    /\ stage' = "type"
    /\ cursor' = IF At(cursor) = "ELEMENT_NAME" THEN cursor + 1 ELSE cursor
    /\ UNCHANGED <<types, defining, frames, top, inner, elements, actions>> /\ Parsed

(* Behind the type: OPTIONAL or DEFAULT, which is about top, and an        *)
(* action, which is about the element inside the label.                    *)
Skips == At(cursor) \in {"OPTIONAL", "DEFAULT"}
ActionAt == cursor + (IF Skips THEN 1 ELSE 0)
HasAction == At(ActionAt) = "({"

(* Seeded bug: it is the element inside the label that may be left out.    *)
Optional_inner == inner
Optional_top == top

ParseSuffix ==
    /\ stage = "suffix"
    /\ IF HasAction /\ ~(At(ActionAt + 1) = "ELEMENT_NAME" /\ At(ActionAt + 2) = "})")
       THEN Refuse
       ELSE LET action == IF HasAction THEN tokens[ActionAt + 1] ELSE "none"
            IN /\ elements' = [e \in DOMAIN elements |->
                     [elements[e] EXCEPT !.skip = @ \/ (e = Optional_top /\ Skips),
                                         !.action = IF e = inner THEN action ELSE @]]
               /\ actions' = IF HasAction THEN actions \cup {action} ELSE actions
               /\ cursor' = ActionAt + (IF HasAction THEN 3 ELSE 0)
               /\ stage' = IF frames = <<>> THEN "defined" ELSE "attach"
               /\ UNCHANGED <<types, defining, frames, top, inner>> /\ Parsed

----------------------------------------------------------------------------
(* Back in the caller, whose element gets what has been parsed for a child.*)

Frame == Last(frames)
Parent == elements[Frame.inner]

Attached ==
    [elements EXCEPT
        ![Frame.inner].children = Append(@, top),
        ![top].skip = @ \/ Frame.alternates,
        ![top].cond = @ \/ (Frame.alternates /\ Parent.children # <<>>)]

(* The call that waited goes on behind its members.                        *)
Resume ==
    /\ stage' = "suffix"
    /\ frames' = Front(frames) /\ top' = Frame.top /\ inner' = Frame.inner

AttachOf ==
    /\ stage = "attach" /\ Parent.compound \in {"SEQUENCE_OF", "SET_OF"}
    /\ elements' = Attached /\ Resume
    /\ UNCHANGED <<types, defining, cursor, actions>> /\ Parsed

Attaching == stage = "attach" /\ Parent.compound \in {"SEQUENCE", "SET", "CHOICE"}
Comma == At(cursor) = "," /\ At(cursor + 1) # "end"

AttachMember ==
    /\ Attaching /\ Comma
    /\ elements' = Attached /\ stage' = "member" /\ cursor' = cursor + 1
    /\ UNCHANGED <<types, defining, frames, top, inner, actions>> /\ Parsed

CloseCompound ==
    /\ Attaching /\ At(cursor) = "}"
    /\ elements' = Attached /\ Resume /\ cursor' = cursor + 1
    /\ UNCHANGED <<types, defining, actions>> /\ Parsed

CompoundError == Attaching /\ ~Comma /\ At(cursor) # "}" /\ Refuse

(* A definition must end where the next begins.                            *)
EndDefinition ==
    /\ stage = "defined"
    /\ IF cursor # Limit THEN Refuse
       ELSE /\ types' = [types EXCEPT ![defining].element = top]
            /\ elements' = [elements EXCEPT ![top].type_def = defining]
            /\ defining' = defining + 1 /\ stage' = "define"
            /\ UNCHANGED <<cursor, frames, top, inner, actions>> /\ Parsed

----------------------------------------------------------------------------
(* render: two passes over the elements, the first of which only finds     *)
(* where the subroutines come to lie.                                      *)

Rendered == UNCHANGED <<grammar, scanner, parser>>

COMPLETE == 28
Emit(bytes) == [do |-> "emit", element |-> 0, tag |-> 0, bytes |-> bytes]
Do(e, tag) == [do |-> "render", element |-> e, tag |-> tag, bytes |-> <<>>]
RenderAll(children) == [i \in DOMAIN children |-> Do(children[i], 0)]

Root == << Do(types[1].element, 0), Emit(<<COMPLETE>>) >>

StartPass1 ==
    /\ stage = "define" /\ Stopped
    /\ stage' = "render" /\ pass' = 1 /\ agenda' = Root
    /\ entry' = [e \in DOMAIN elements |-> 0]
    /\ UNCHANGED <<list, rendered, code>> /\ Rendered

PassEnds == stage = "render" /\ agenda = <<>> /\ list = <<>>

(* Seeded bug: nr_entries goes on from the first pass.                     *)
Restarted_not == code
Restarted == <<>>

StartPass2 ==
    /\ PassEnds /\ pass = 1
    /\ pass' = 2 /\ agenda' = Root /\ rendered' = {} /\ code' = Restarted
    /\ UNCHANGED <<stage, list, entry>> /\ Rendered

FinishRender ==
    /\ PassEnds /\ pass = 2
    /\ stage' = "done" /\ UNCHANGED renderer /\ Rendered

(* The action table is in the order of the names.                          *)
ActionIndex(name) ==
    LET Rank(n) == CHOOSE i \in DOMAIN Lowercase : Lowercase[i] = n
    IN Cardinality({a \in actions : Rank(a) < Rank(name)})

ActionByte(e) == IF elements[e].action = "none" THEN <<>> ELSE <<ActionIndex(elements[e].action)>>

----------------------------------------------------------------------------
(* render_element, of the element e with the tag of `tag', if there is one.*)

Turn == Head(agenda)
Rendering(compounds) ==
    /\ stage = "render" /\ agenda # <<>> /\ Turn.do = "render"
    /\ elements[Turn.element].compound \in compounds

E == elements[Turn.element]
Skippable == E.skip \/ (Turn.tag # 0 /\ elements[Turn.tag].skip)
Conditional == E.cond \/ (Turn.tag # 0 /\ elements[Turn.tag].cond)
OutOfLine == (E.type_def # 0 /\ types[E.type_def].refs > 1) \/ Skippable

Bit(set, value) == IF set THEN value ELSE 0
HasAct == E.action # "none"
MatchOp(more) == Bit(Conditional, 16) + Bit(Skippable, 1) + more

Tag == IF Turn.tag = 0 THEN E ELSE elements[Turn.tag]

(* asn1_universal_tags has 32 places and is read at any: behind them lies  *)
(* another name, or none.                                                  *)
BeyondNames == Tag.class = 0 /\ Tag.tag > 31
Numbers == IF BeyondNames THEN 0 .. 30 ELSE {Tag.tag}

(* The macros _tag and _tagn put the three together, bit by bit.           *)
Has(n, bit) == (n \div bit) % 2 = 1
TagOf(n) ==
    (n % 32) + Bit(Tag.cons \/ E.cons \/ Has(n, 32), 32)
             + Bit(Has(Tag.class, 1) \/ Has(n, 64), 64)
             + Bit(Has(Tag.class, 2) \/ Has(n, 128), 128)
TagBytes == {TagOf(n) : n \in Numbers}

(* Bytes go out, and the agenda begins with what is left of this element.  *)
Renders(bytes, rest) ==
    /\ code' = code \o bytes
    /\ agenda' = rest \o Tail(agenda)
    /\ UNCHANGED <<stage, pass>> /\ Rendered

RenderBytes ==
    /\ stage = "render" /\ agenda # <<>> /\ Turn.do = "emit"
    /\ Renders(Turn.bytes, <<>>) /\ UNCHANGED <<list, rendered, entry>>

\* a MATCH_ANY has no form that may be skipped
RenderAny ==
    /\ Rendering({"ANY"})
    /\ Renders(<<Bit(Conditional, 16) + 8 + Bit(HasAct, 2)>> \o ActionByte(Turn.element), <<>>)
    /\ UNCHANGED <<list, rendered, entry>>

RenderSimple ==
    /\ Rendering({"NOT_COMPOUND"})
    /\ \E byte \in TagBytes :
         Renders(<<MatchOp(Bit(HasAct, 2)), byte>> \o ActionByte(Turn.element), <<>>)
    /\ UNCHANGED <<list, rendered, entry>>

RenderOverride ==
    /\ Rendering({"TAG_OVERRIDE"})
    /\ Renders(<<>>, <<Do(E.children[1], Turn.element)>>)
    /\ UNCHANGED <<list, rendered, entry>>

ACT == 29
ActAfter == IF HasAct THEN <<Emit(<<ACT>> \o ActionByte(Turn.element))>> ELSE <<>>

(* Seeded bug: the action of a reference comes before those of its parts.  *)
RenderReference_acts_first ==
    /\ Rendering({"TYPE_REF"})
    /\ Renders(<<>>, ActAfter \o <<Do(types[E.ref].element, Turn.tag)>>)
    /\ UNCHANGED <<list, rendered, entry>>

\* whether the reference itself may be left out is lost
RenderReference ==
    /\ Rendering({"TYPE_REF"})
    /\ Renders(<<>>, <<Do(types[E.ref].element, Turn.tag)>> \o ActAfter)
    /\ UNCHANGED <<list, rendered, entry>>

COND_FAIL == 27
(* Seeded bug: it is a CHOICE that may be left out that has the COND_FAIL. *)
CondFail_swapped == IF Skippable THEN <<Emit(<<COND_FAIL>>)>> ELSE <<>>
CondFail == IF Skippable THEN <<>> ELSE <<Emit(<<COND_FAIL>>)>>

RenderChoice ==
    /\ Rendering({"CHOICE"})
    /\ Renders(<<>>, RenderAll(E.children) \o CondFail \o ActAfter)
    /\ UNCHANGED <<list, rendered, entry>>

\* "The ASN.1 SET type is not currently supported."
RenderSet == Rendering({"SET"}) /\ Refuse

Compound == {"SEQUENCE", "SEQUENCE_OF", "SET_OF"}

(* Out of line: a jump to where the members are or will be rendered.       *)
RenderJump ==
    /\ Rendering(Compound) /\ OutOfLine
    /\ \E byte \in TagBytes : Renders(<<MatchOp(4), byte, entry[Turn.element] % 256>>, <<>>)
    /\ rendered' = rendered \cup {Turn.element}
    /\ list' = IF Turn.element \in rendered THEN list ELSE Append(list, Turn.element)
    /\ UNCHANGED entry

(* ASN1_OP_END: of a SET, of an OF, with an action.                        *)
EndOp(e) ==
    32 + Bit(elements[e].compound \in {"SET", "SET_OF"}, 1)
       + Bit(elements[e].compound \in {"SEQUENCE_OF", "SET_OF"}, 2)
       + Bit(elements[e].action # "none", 4)

(* Seeded bug: of the two kinds of OF only one is told where to go back.   *)
EndBytes_sequence(e, start) ==
    <<EndOp(e)>>
      \o (IF elements[e].compound = "SEQUENCE_OF" THEN <<start % 256>> ELSE <<>>)
      \o ActionByte(e)

(* The end of an element whose members begin at start.                     *)
EndBytes(e, start) ==
    <<EndOp(e)>>
      \o (IF elements[e].compound \in {"SEQUENCE_OF", "SET_OF"} THEN <<start % 256>> ELSE <<>>)
      \o ActionByte(e)

RenderInline ==
    /\ Rendering(Compound) /\ ~OutOfLine
    /\ \E byte \in TagBytes :
         Renders(<<MatchOp(0), byte>>,
                 RenderAll(E.children) \o <<Emit(EndBytes(Turn.element, Len(code) + 2))>>)
    /\ UNCHANGED <<list, rendered, entry>>

(* What is no name ends the program, or the compilation of its output.     *)
RenderBeyond ==
    /\ Rendering({"NOT_COMPOUND"} \cup Compound) /\ BeyondNames
    /\ stage' = "crashed" /\ UNCHANGED renderer /\ Rendered

RETURN == 30

(* render_out_of_line_list: a subroutine.                                  *)
RenderSubroutine ==
    /\ stage = "render" /\ agenda = <<>> /\ list # <<>>
    /\ LET e == Head(list)
       IN /\ entry' = [entry EXCEPT ![e] = Len(code)]
          /\ agenda' = RenderAll(elements[e].children)
                         \o <<Emit(EndBytes(e, Len(code)) \o <<RETURN>>)>>
    /\ list' = Tail(list)
    /\ UNCHANGED <<stage, pass, rendered, code>> /\ Rendered

----------------------------------------------------------------------------
Tokenise == TakeLine \/ NoComment \/ CutComment \/ ExciseComment \/ ScanSymbol \/ EndOfLine

Parse == \/ BuildTypeList \/ BeginDefinition
         \/ ParseSimple \/ ParseReference \/ ParseOf \/ ParseCompound \/ ParseError
         \/ ParseMember \/ ParseSuffix \/ AttachOf
         \/ AttachMember \/ CloseCompound \/ CompoundError \/ EndDefinition

Render == \/ StartPass1 \/ StartPass2 \/ FinishRender \/ RenderBytes
          \/ RenderAny \/ RenderSimple \/ RenderOverride \/ RenderReference
          \/ RenderChoice \/ RenderSet \/ RenderJump \/ RenderInline \/ RenderBeyond
          \/ RenderSubroutine

Next == Tokenise \/ Parse \/ Render

Spec == Init /\ [][Next]_vars

----------------------------------------------------------------------------
Stages == {"line", "comment", "scan", "define", "type", "member", "suffix", "attach", "defined",
           "render"} \cup Ends
Compounds == {"NOT_COMPOUND", "ANY", "TYPE_REF", "TAG_OVERRIDE", "CHOICE", "SET", "SEQUENCE",
              "SEQUENCE_OF", "SET_OF"}
InDefinition == {"type", "member", "suffix", "attach", "defined"}

Octet == 0 .. 255

(* The records of n elements and t types.                                  *)
ElementSet(n, t) ==
    [ compound : Compounds, class : 0 .. 3, cons : BOOLEAN, tag : Octet,
      children : Seq(1 .. n), ref : 0 .. t, type_def : 0 .. t,
      action : ToSet(Lowercase) \cup {"none"}, skip : BOOLEAN, cond : BOOLEAN ]
TypeSet(n) == [at : Nat, element : 0 .. n, refs : Nat]
FrameSet(n) == [top : 1 .. n, inner : 1 .. n, alternates : BOOLEAN]
TurnSet(n) == [do : {"emit", "render"}, element : 0 .. n, tag : 0 .. n, bytes : Seq(Nat)]

ScannerOK ==
    /\ lines \in Seq(Seq(STRING)) /\ line \in Seq(STRING)
    /\ from \in Nat \ {0} /\ tokens \in Seq(STRING)

(* An element refers to a type or a member if its kind says so, and what   *)
(* it refers to has been allocated.                                        *)
Complete(e) ==
    /\ e.compound = "TYPE_REF" => e.ref # 0
    /\ e.compound = "TAG_OVERRIDE" => e.children # <<>>
    /\ e.cond => e.skip

ElementsOK ==
    /\ elements \in Seq(ElementSet(Len(elements), Len(types)))
    /\ \A e \in DOMAIN elements : Complete(elements[e])

ParserOK ==
    /\ types \in Seq(TypeSet(Len(elements)))
    /\ defining \in 1 .. Len(types) + 1 /\ cursor \in Nat
    /\ frames \in Seq(FrameSet(Len(elements)))
    /\ top \in 0 .. Len(elements) /\ inner \in 0 .. Len(elements)
    /\ actions \subseteq ToSet(Lowercase)
    /\ stage \in {"line", "comment", "scan"} => types = <<>> /\ elements = <<>>
    /\ stage \in InDefinition => defining <= Len(types)
    /\ stage \in {"suffix", "attach", "defined"} => top # 0 /\ inner # 0
    /\ stage \in {"member", "attach"} => frames # <<>>
    /\ stage \in {"define", "render", "done"} => types # <<>>
    /\ stage \in {"render", "done"} => defining > Len(types)
    /\ \A t \in 1 .. defining - 1 : types[t].element # 0

RendererOK ==
    /\ pass \in 0 .. 2
    /\ pass = 0 => agenda = <<>> /\ list = <<>> /\ rendered = {} /\ entry = <<>> /\ code = <<>>
    /\ pass # 0 => /\ entry \in [DOMAIN elements -> Nat]
                   /\ stage \in {"render", "refused", "crashed", "done"}
    /\ stage = "render" => pass # 0
    /\ stage = "done" => agenda = <<>> /\ list = <<>> /\ pass = 2
    /\ agenda \in Seq(TurnSet(Len(elements)))
    /\ \A k \in DOMAIN agenda : agenda[k].do = "render" => agenda[k].element # 0
    /\ list \in Seq(DOMAIN elements) /\ rendered \subseteq DOMAIN elements
    /\ code \in Seq(Nat)

(* Every variable keeps its type; in particular no element is looked at    *)
(* before it is allocated, and a reference always finds its type.          *)
TypeOK ==
    grammar \in Grammars /\ stage \in Stages
      /\ ScannerOK /\ ElementsOK /\ ParserOK /\ RendererOK

(* The first pass has found where each subroutine comes to lie: in the     *)
(* second, when the jumps to them are written, none is found elsewhere.    *)
EntriesKept == pass = 2 /\ pass' = 2 => entry' = entry

=============================================================================
