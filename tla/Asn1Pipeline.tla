---------------------------- MODULE Asn1Pipeline ----------------------------
(***************************************************************************)
(* The path of a grammar through listcerts: asn1_compiler makes bytecode   *)
(* of it when listcerts is built, and asn1_ber_decoder runs that bytecode  *)
(* over the documents listcerts meets.  A behaviour compiles one grammar   *)
(* and decodes one document with what the compiler has written.            *)
(***************************************************************************)
EXTENDS Asn1Decoder, SequencesExt, FiniteSets

CONSTANTS
    Grammars, Text, Lowercase, NumberOf,    \* of the compiler
    DocumentsFor(_),   \* the documents for a grammar: records [data, calls, near]
    WellFormed(_)   \* is a text one of the notation?

VARIABLES
    grammar, stage, lines, line, from, tokens, types, defining, cursor, frames, top, inner,
    elements, actions, pass, agenda, list, rendered, entry, code

C == INSTANCE Asn1Compiler

compiler == <<grammar, stage, lines, line, from, tokens, types, defining, cursor, frames, top,
              inner, elements, actions, pass, agenda, list, rendered, entry, code>>

(* The decoder's job as long as there is none.                             *)
Idle == {[machine |-> <<>>, document |-> [calls |-> {}, near |-> FALSE], data |-> <<>>, actions |-> <<>>]}
ASSUME JobsAreIdle == Jobs = Idle

ASSUME GrammarsAssumption ==
    /\ \A g \in Grammars : Text[g] \in Seq(Seq(STRING))
    /\ Lowercase \in Seq(STRING)
    /\ \A w \in DOMAIN NumberOf : NumberOf[w] \in Nat

(* The number of an action is a byte of the machine, and data is bytes.    *)
ASSUME ActionsAssumption == Len(Lowercase) \in Byte
ASSUME DocumentsAssumption ==
    \A g \in Grammars : \A d \in DocumentsFor(g) : d.data \in Seq(Byte)

PipelineInit == C!Init /\ Init

Compile == C!Next /\ UNCHANGED vars

(* Each action is at its number, and the table has no other places.        *)
ActionTable ==
    [n \in 1 .. Cardinality(actions) |-> CHOOSE a \in actions : C!ActionIndex(a) = n - 1]

(* The compiler's memory is gone; listcerts is linked with its bytecode    *)
(* and its table of actions.                                               *)
Build ==
    /\ stage = "done"
    /\ \E d \in DocumentsFor(grammar) :
         /\ job' = [machine |-> code, document |-> [calls |-> d.calls, near |-> d.near],
                    data |-> d.data, actions |-> ActionTable]
         /\ datalen' = Len(d.data)
    /\ stage' = "built"
    /\ lines' = <<>> /\ line' = <<>> /\ from' = 1 /\ tokens' = <<>> /\ types' = <<>>
    /\ defining' = 1 /\ cursor' = 0 /\ frames' = <<>> /\ top' = 0 /\ inner' = 0
    /\ elements' = <<>> /\ actions' = {} /\ pass' = 0 /\ agenda' = <<>> /\ list' = <<>>
    /\ rendered' = {} /\ entry' = <<>> /\ code' = <<>>
    /\ UNCHANGED <<grammar, at, pc, dp, element, stacks, scan, ret, history>>

Decode == stage = "built" /\ Next /\ UNCHANGED compiler

PipelineNext == Compile \/ Build \/ Decode

PipelineSpec == PipelineInit /\ [][PipelineNext]_<<vars, compiler>>

----------------------------------------------------------------------------
Finished == stage = "built" /\ at = "returned"

(* The compiler keeps the types of its variables until it is gone, and the *)
(* decoder those of its own: an element, a type or a stack frame that is   *)
(* looked at is there.  (The index into asn1_universal_tags is not such:   *)
(* RenderBeyond.)                                                          *)
PipelineTypeOK == TypeOK /\ (stage # "built" => C!TypeOK)

(* The callbacks made, as pairs of an action and the contents given to it. *)
CallsMade ==
    [k \in DOMAIN calls |->
        << job.actions[calls[k].action + 1],
           SubSeq(job.data, calls[k].first + 1, calls[k].first + calls[k].len) >>]

(* Each document of a grammar is accepted by the bytecode compiled from    *)
(* it, and makes the callbacks of its members in the order of the grammar, *)
(* each with the contents of its member and nothing else.  (A document has *)
(* more than one reading only where an ANY may be another alternative too.)*)
CallbacksMatch ==
    Finished /\ job.document.calls # {} => ret = "ok" /\ CallsMade \in job.document.calls

(* The bytecode refuses what is not of the grammar, but for what the       *)
(* decoder lets pass: members missing at the end of an element, and a      *)
(* primitive tag where a constructed one is due.                           *)
RefusesOthers == Finished /\ ret = "ok" => job.document.near

(* A text is compiled if it is one of the notation, and refused if not.    *)
(* All that takes a sound one from the compiler is a universal tag that    *)
(* its table of their names does not have.                                 *)
RefusesSyntax ==
    /\ stage \in {"done", "built"} => WellFormed(grammar)
    /\ stage = "refused" => ~WellFormed(grammar)
    /\ stage = "crashed" /\ WellFormed(grammar) => C!BeyondNames

(* When the compiler is done, what it has written is laid out as the       *)
(* decoder relies on: jumps lead to instructions, and the last ends it.    *)
(* (An address is a byte: a machine that is longer cannot be jumped in.)   *)
CompiledLaidOut == stage' = "done" /\ Len(code) <= 256 => LaidOut(code)

(* The jumps that the second pass of the compiler writes down lead where   *)
(* the first one found the subroutines, and in the second they are still   *)
(* there: so each leads to an instruction, as does the loop of each OF.    *)
PassesAgree == [][C!EntriesKept /\ CompiledLaidOut]_<<vars, compiler>>

(* The decoder runs what the compiler has written from instruction to      *)
(* instruction: no document leads it into the operands of one, or past the *)
(* last.  (Of 256 bytes, since an address is a byte.)                      *)
RunsInstructions ==
    stage = "built" /\ Len(job.machine) <= 256 => pc \in Instructions(job.machine)

(* No document makes the decoder call an action behind the end of its      *)
(* table, in which there is a place for each action that was compiled.     *)
ActionsInTable ==
    stage = "built" /\ Len(job.machine) <= 256 =>
        \A k \in DOMAIN calls : calls[k].action < Len(job.actions)

=============================================================================
