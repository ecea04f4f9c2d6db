---------------------------- MODULE Asn1Decoder ----------------------------
(***************************************************************************)
(* The BER/DER bytecode interpreter of listcerts/asn1_ber_decoder.c.       *)
(*                                                                         *)
(* A job is one call asn1_ber_decoder(decoder, context, data, datalen):    *)
(* the bytecode that asn1_compiler made of a grammar, and the bytes to be  *)
(* decoded.  The control location `at' names the label of the function     *)
(* that execution has reached; a step runs from one label to the next.     *)
(* Offsets count from 0 as in the code, sequences from 1, hence the "+ 1". *)
(***************************************************************************)
EXTENDS Integers, Sequences

CONSTANTS
    Jobs,           \* the calls considered: records [machine, data, ...]
    Beyond,         \* what a read past the last byte of data may yield
    MAPPED,         \* how far behind the data memory can be read at all
    ActionFails,    \* subset of BOOLEAN: may a callback return ret < 0?
    MAX_DATALEN,    \* 65535 in the code
    NR_CONS_STACK,  \* 10 in the code
    NR_JUMP_STACK   \* 10 in the code

Byte == 0 .. 255

(* What the slots of the stacks keep of an offset: those of the cons       *)
(* stacks are unsigned short, those of the jump stack unsigned char.       *)
UShort(n) == n % 65536
UChar(n) == n % 256

IsCall(j) == j.machine \in Seq(Byte) /\ j.data \in Seq(Byte)
ASSUME JobsAssumption == \A j \in Jobs : IsCall(j)
ASSUME LimitsAssumption ==
    /\ MAX_DATALEN \in Nat /\ MAPPED \in Nat
    /\ NR_CONS_STACK \in Nat \ {0}
    /\ NR_JUMP_STACK \in Nat \ {0}
ASSUME ExternalAssumption == Beyond \subseteq Byte /\ ActionFails \subseteq BOOLEAN

VARIABLES
    job,        \* the arguments of the call
    at,         \* the label reached
    pc, dp, tdp, len, datalen, hdr, tag,     \* the locals of those names
    flags,      \* the set of FLAG_ bits that are on
    csp, cons,  \* the three cons stacks, as one array of records
    jsp, jump,  \* jump_stack
    scan,       \* the locals of asn1_find_indefinite_length
    ret,        \* the value returned
    calls,      \* history: the callbacks made, in order
    extents     \* history: the [first, past) ranges of the elements consumed

stacks == <<csp, cons, jsp, jump>>
element == <<tdp, len, hdr, tag, flags>>
history == <<calls, extents>>
vars == <<job, at, pc, dp, datalen, element, stacks, scan, ret, history>>

----------------------------------------------------------------------------
(* Opcodes: asn1_ber_bytecode.h.                                           *)

COND_FAIL == 27
COMPLETE  == 28
ACT       == 29
RETURN    == 30

Plain     == {0, 1, 17}             \* MATCH and its OR_SKIP, COND forms
MatchAct  == {2, 3, 19}             \* ... with an action
MatchJump == {4, 5, 21}             \* ... with a subroutine
MatchAny  == {8, 24}                \* any tag
MatchAnyAct == {10, 26}             \* any tag, with an action
Matches == Plain \cup MatchAct \cup MatchJump \cup MatchAny \cup MatchAnyAct
OrSkip  == {1, 3, 5, 17, 19, 21}    \* ASN1_OP_MATCH__SKIP
Cond    == {17, 19, 21, 24, 26}     \* ASN1_OP_MATCH__COND
AnyTag  == MatchAny \cup MatchAnyAct
End     == 32 .. 39
EndSet  == {33, 37}                 \* END_SET and END_SET_ACT
EndOf   == {34, 35, 38, 39}         \* ASN1_OP_END__OF
EndAct  == 36 .. 39                 \* ASN1_OP_END__ACT
Opcodes == Matches \cup {COND_FAIL, COMPLETE, ACT, RETURN} \cup End

(* asn1_op_lengths: opcode, tag, jump target and action take a byte each.  *)
OpLength(op) ==
    1 + (IF op \in Matches \ AnyTag THEN 1 ELSE 0)
      + (IF op \in MatchJump \cup EndOf THEN 1 ELSE 0)
      + (IF op \in MatchAct \cup MatchAnyAct \cup EndAct \cup {ACT} THEN 1 ELSE 0)

Machine(i) == job.machine[i + 1]
MachLen == Len(job.machine)

(* data[i]: past the buffer the program reads whatever memory holds there. *)
Read(i) == IF i < Len(job.data) THEN {job.data[i + 1]} ELSE Beyond

Constructed(t) == (t \div 32) % 2 = 1       \* ASN1_CONS_BIT
LongTag(t) == t % 32 = 31

(* (optag ^ tag) & ~(optag & ASN1_CONS_BIT) == 0                           *)
TagMatches(optag, t) == t = optag \/ (Constructed(optag) /\ t = optag - 32)

----------------------------------------------------------------------------
(* The call has been made and nothing done.                                *)
Begun ==
    /\ at = "entry" /\ ret = "none"
    /\ pc = 0 /\ dp = 0 /\ tdp = 0 /\ len = 0 /\ hdr = 0 /\ tag = 0
    /\ datalen = Len(job.data)
    /\ flags = {}
    /\ csp = 0 /\ cons = [i \in 0 .. NR_CONS_STACK - 1 |-> [dp |-> 0, datalen |-> 0, hdr |-> 0]]
    /\ jsp = 0 /\ jump = [i \in 0 .. NR_JUMP_STACK - 1 |-> 0]
    /\ scan = [dp |-> 0, level |-> 0, tag |-> 0, n |-> 0, len |-> 0]
    /\ calls = <<>> /\ extents = {}

Init == job \in Jobs /\ Begun

(* Leave the function; its locals no longer matter.                        *)
Leave(r) ==
    /\ at' = "returned" /\ ret' = r
    /\ UNCHANGED <<job, pc, dp, datalen, element, stacks, scan, history>>

(* The error labels: a message is printed and -EBADMSG returned.           *)
Error == Leave("EBADMSG")

Entry ==
    /\ at = "entry"
    /\ IF datalen > MAX_DATALEN
       THEN Leave("EMSGSIZE")
       ELSE /\ at' = "next_op"
            /\ UNCHANGED <<job, pc, dp, datalen, element, stacks, scan, ret, history>>

----------------------------------------------------------------------------
(* next_op: fetch the instruction and, if it wants a tag, match one.       *)

Fits == pc < MachLen /\ pc + OpLength(Machine(pc)) <= MachLen
Fetched(ops) == at = "next_op" /\ Fits /\ Machine(pc) \in ops

MachineOverrun == at = "next_op" /\ ~Fits /\ Error

Skippable == (Machine(pc) \in Cond /\ "MATCHED" \in flags) \/ dp = datalen

SkipOp ==
    /\ at' = "next_op" /\ pc' = pc + OpLength(Machine(pc))
    /\ UNCHANGED <<job, dp, datalen, stacks, scan, ret, history>>

SkipMatch == Fetched(Matches) /\ Skippable /\ SkipOp /\ UNCHANGED element

(* The tag is there, and the length octet that must follow it.             *)
TagRead(t) ==
    /\ Fetched(Matches) /\ ~Skippable
    /\ dp < datalen - 1

Wanted(t) == Machine(pc) \in AnyTag \/ TagMatches(Machine(pc + 1), t)

TagOverrun == Fetched(Matches) /\ ~Skippable /\ dp >= datalen - 1 /\ Error

TagRejected ==
    \E t \in Read(dp) :
        /\ TagRead(t)
        /\ \/ LongTag(t)
           \/ (~Wanted(t) /\ Machine(pc) \notin OrSkip)
        /\ Error

OptionalAbsent ==
    \E t \in Read(dp) :
        /\ TagRead(t) /\ ~LongTag(t) /\ ~Wanted(t) /\ Machine(pc) \in OrSkip
        /\ SkipOp
        /\ flags' = (IF Constructed(Machine(pc + 1)) THEN {"CONS"} ELSE {})
        /\ hdr' = 2 /\ tag' = t
        /\ UNCHANGED <<tdp, len>>

(* Seeded bug: one slot too many.                                          *)
ConsFull_off_by_one == csp > NR_CONS_STACK
ConsFull == csp >= NR_CONS_STACK

(* Lines 292-309: the header ends at d; note where it is if it is a        *)
(* constructed element that the grammar descends into.                     *)
Enter(t, l, h, d, indefinite) ==
    LET descend == Machine(pc) \notin AnyTag /\ Constructed(Machine(pc + 1))
    IN IF descend /\ ConsFull
       THEN Error
       ELSE /\ at' = "matched"
            /\ tag' = t /\ len' = l /\ hdr' = h /\ dp' = d /\ tdp' = d
            /\ flags' = {"MATCHED"}
                  \cup (IF descend THEN {"CONS"} ELSE {})
                  \cup (IF indefinite THEN {"INDEFINITE"} ELSE {})
            /\ IF descend
               THEN /\ cons' = [cons EXCEPT ![csp] =
                          [dp |-> UShort(d), hdr |-> h,
                           datalen |-> IF indefinite THEN 0 ELSE UShort(datalen)]]
                    /\ csp' = csp + 1
                    /\ datalen' = IF indefinite THEN datalen ELSE d + l
               ELSE UNCHANGED <<csp, cons, datalen>>
            /\ UNCHANGED <<job, pc, jsp, jump, scan, ret, history>>

TagTaken(t) == TagRead(t) /\ ~LongTag(t) /\ Wanted(t)

MatchShort ==
    \E t \in Read(dp), l \in Read(dp + 1) :
        /\ TagTaken(t) /\ l < 128
        /\ Enter(t, l, 2, dp + 2, FALSE)

MatchIndefinite ==
    \E t \in Read(dp) :
        /\ TagTaken(t) /\ 128 \in Read(dp + 1)
        /\ IF Constructed(t) /\ datalen - (dp + 2) >= 2
           THEN Enter(t, 128, 2, dp + 2, TRUE)
           ELSE Error

(* Seeded bug: the length is held against the end, not the room before it. *)
TooLong_whole(l, d) == l > datalen
TooLong(l, d) == l > datalen - d

(* The values the n <= 2 length octets from d on may spell.                *)
LengthOctets(d, n) ==
    IF n = 1 THEN Read(d) ELSE {256 * h + l : h \in Read(d), l \in Read(d + 1)}

MatchLong ==
    \E t \in Read(dp), b \in Read(dp + 1) :
        /\ TagTaken(t) /\ b > 128
        /\ LET n == b - 128
               d == dp + 2 + n
           IN IF n > 2 \/ dp + 2 >= datalen - n
              THEN Error
              ELSE \E l \in LengthOctets(dp + 2, n) :
                     IF TooLong(l, d) THEN Error ELSE Enter(t, l, 2 + n, d, FALSE)

----------------------------------------------------------------------------
(* switch (op).                                                            *)

Matched(ops) == at = "matched" /\ Machine(pc) \in ops

(* The number of the action is the last operand of an instruction.         *)
(* Seeded bug: it is taken to be the first.                                *)
ActNumber_first == Machine(pc + 1)
ActNumber == Machine(pc + OpLength(Machine(pc)) - 1)

Call(action, first, size, t) ==
    calls' = Append(calls, [action |-> action, tag |-> t, first |-> first, len |-> size])

(* skip_data: step over the contents unless the grammar descends into them.*)
SkipData(after) ==
    IF "CONS" \in flags
    THEN at' = "next_op" /\ pc' = pc + OpLength(Machine(pc)) /\ UNCHANGED <<dp, scan, extents>>
    ELSE IF "INDEFINITE" \in flags
    THEN /\ at' = "next_tag"
         /\ scan' = [dp |-> dp, level |-> 1, tag |-> 0, n |-> 0, len |-> 0]
         /\ UNCHANGED <<pc, dp, extents>>
    ELSE /\ at' = "next_op" /\ pc' = pc + OpLength(Machine(pc))
         /\ dp' = after
         /\ extents' = extents \cup {[first |-> tdp, past |-> after]}
         /\ UNCHANGED scan

MatchOp ==
    /\ Matched(Plain \cup MatchAny)
    /\ SkipData(dp + len)
    /\ UNCHANGED <<job, datalen, element, stacks, ret, calls>>

MatchActOp ==
    /\ Matched(MatchAct \cup MatchAnyAct)
    /\ Call(ActNumber, dp, len, tag)
    /\ \E fails \in ActionFails :
         IF fails
         THEN at' = "returned" /\ ret' = "action" /\ UNCHANGED <<pc, dp, scan, extents>>
         ELSE SkipData(dp + len) /\ UNCHANGED ret
    /\ UNCHANGED <<job, datalen, element, stacks>>

(* Seeded bug: the jump target is taken for the next instruction.          *)
ReturnAddress_short == pc + 2
ReturnAddress == pc + OpLength(Machine(pc))

MatchJumpOp ==
    /\ Matched(MatchJump)
    /\ IF jsp = NR_JUMP_STACK
       THEN Error
       ELSE /\ jump' = [jump EXCEPT ![jsp] = UChar(ReturnAddress)]
            /\ jsp' = jsp + 1
            /\ pc' = Machine(pc + 2)
            /\ at' = "next_op"
            /\ UNCHANGED <<job, dp, datalen, element, csp, cons, scan, ret, history>>

CondFailOp ==
    /\ Fetched({COND_FAIL})
    /\ IF "MATCHED" \in flags THEN SkipOp /\ UNCHANGED element ELSE Error

CompleteOp ==
    /\ Fetched({COMPLETE})
    /\ Leave(IF jsp = 0 /\ csp = 0 THEN "ok" ELSE "EBADMSG")

ActOp ==
    /\ Fetched({ACT})
    /\ Call(ActNumber, tdp, len, tag)
    /\ at' = "next_op" /\ pc' = pc + OpLength(ACT)
    /\ UNCHANGED <<job, dp, datalen, element, stacks, scan, ret, extents>>

ReturnOp ==
    /\ Fetched({RETURN})
    /\ IF jsp = 0
       THEN Error
       ELSE /\ jsp' = jsp - 1 /\ pc' = jump[jsp - 1]
            /\ at' = "next_op"
            /\ UNCHANGED <<job, dp, datalen, element, csp, cons, jump, scan, ret, history>>

----------------------------------------------------------------------------
(* The END opcodes.  A saved datalen of 0 marks an indefinite element.     *)

Top == cons[csp - 1]
IndefiniteTop == Top.datalen = 0

EndFetched ==
    /\ Fetched(End)
    /\ Machine(pc) \in EndSet => "MATCHED" \in flags
    /\ csp > 0

EndRefused ==
    /\ Fetched(End)
    /\ \/ (Machine(pc) \in EndSet /\ "MATCHED" \notin flags)
       \/ csp = 0
    /\ Error

(* There is another member: back to the first opcode of the body.          *)
(* Seeded bug: dp-- also where no octet of the EOC was read.               *)
LoopBack_unread ==
    /\ pc' = Machine(pc + 1) /\ at' = "next_op" /\ dp' = dp - 1
    /\ tdp' = Top.dp /\ hdr' = Top.hdr /\ len' = datalen
    /\ UNCHANGED <<job, datalen, tag, flags, stacks, scan, ret, history>>

LoopBack ==
    /\ pc' = Machine(pc + 1) /\ at' = "next_op"
    /\ tdp' = Top.dp /\ hdr' = Top.hdr /\ len' = datalen
    /\ UNCHANGED <<job, dp, datalen, tag, flags, stacks, scan, ret, history>>

(* The element ends at `past', its contents at `limit'.                    *)
Close(limit, past, outer) ==
    /\ csp' = csp - 1
    /\ tdp' = Top.dp /\ hdr' = Top.hdr /\ len' = limit - Top.dp
    /\ datalen' = outer
    /\ extents' = extents \cup {[first |-> Top.dp, past |-> past]}
    /\ IF Machine(pc) \in EndAct
       THEN Call(ActNumber, Top.dp, limit - Top.dp, 0)
       ELSE UNCHANGED calls
    /\ at' = "next_op" /\ pc' = pc + OpLength(Machine(pc))
    /\ UNCHANGED <<job, tag, flags, cons, jsp, jump, scan, ret>>

(* Seeded bug: another member is looked for at the very end.               *)
AnotherMember_at_end == dp <= datalen /\ Machine(pc) \in EndOf
AnotherMember == dp < datalen /\ Machine(pc) \in EndOf

(* Seeded bug: contents that run over their element pass.                  *)
LengthError_overrun_passes == dp < datalen
LengthError == dp # datalen

EndDefinite ==
    /\ EndFetched /\ ~IndefiniteTop
    /\ IF AnotherMember THEN LoopBack
       ELSE IF LengthError THEN Error
       ELSE Close(datalen, datalen, Top.datalen) /\ UNCHANGED dp

(* datalen - dp < 2, of unsigned numbers: when the cursor has passed the   *)
(* end, which a short form length may make it do, the test finds no error. *)
(* Seeded bug: as if they were signed.                                     *)
NoRoom_signed(d) == datalen - d < 2
NoRoom(d) == datalen - d \in {0, 1}

EndIndefinite ==
    /\ EndFetched /\ IndefiniteTop
    /\ IF NoRoom(dp)
       THEN Error
       ELSE \E b \in Read(dp), c \in Read(dp + 1) :
              IF b # 0 THEN (IF Machine(pc) \in EndOf THEN LoopBack ELSE Error)
              ELSE IF c # 0 THEN Error
              ELSE Close(dp, dp + 2, datalen) /\ dp' = dp + 2

----------------------------------------------------------------------------
(* asn1_find_indefinite_length: find the EOC that ends the element at dp,  *)
(* stepping over the elements inside it.                                   *)

Scanning == {"next_tag", "tag_octet", "length", "length_octet"}

ScanGoes(label, s) ==
    /\ at' = label /\ scan' = s
    /\ UNCHANGED <<job, pc, dp, datalen, element, stacks, ret, history>>

(* The search makes its test before a tag and before each long tag octet.  *)
ScanShort == NoRoom(scan.dp)

(* Once past the end nothing stops it but an EOC, or a read of memory that *)
(* is not mapped.                                                          *)
Unmapped == at \in Scanning /\ scan.dp > Len(job.data) + MAPPED

PageFault ==
    /\ Unmapped
    /\ at' = "faulted"
    /\ UNCHANGED <<job, pc, dp, datalen, element, stacks, scan, ret, history>>

ScanOverrun == at \in {"next_tag", "tag_octet"} /\ ScanShort /\ ~Unmapped /\ Error

ScanTag ==
    \E t \in Read(scan.dp) :
        /\ at = "next_tag" /\ ~ScanShort /\ ~Unmapped /\ t # 0
        /\ ScanGoes(IF LongTag(t) THEN "tag_octet" ELSE "length",
                    [scan EXCEPT !.dp = scan.dp + 1, !.tag = t])

ScanTagOctet ==
    \E b \in Read(scan.dp) :
        /\ at = "tag_octet" /\ ~ScanShort /\ ~Unmapped
        /\ ScanGoes(IF b >= 128 THEN "tag_octet" ELSE "length", [scan EXCEPT !.dp = scan.dp + 1])

ScanEoc ==
    /\ at = "next_tag" /\ ~ScanShort /\ ~Unmapped
    /\ 0 \in Read(scan.dp)
    /\ \E c \in Read(scan.dp + 1) :
         IF c # 0 THEN Error
         ELSE IF scan.level > 1
         THEN ScanGoes("next_tag", [scan EXCEPT !.dp = scan.dp + 2, !.level = scan.level - 1])
         ELSE /\ dp' = scan.dp + 2
              /\ len' = scan.dp + 2 - dp
              /\ extents' = extents \cup {[first |-> tdp, past |-> scan.dp + 2]}
              /\ at' = "next_op" /\ pc' = pc + OpLength(Machine(pc))
              /\ UNCHANGED <<job, datalen, tdp, hdr, tag, flags, stacks, scan, ret, calls>>

(* The short form as this function tests it: len < 0x7f.                   *)
ShortForm(b) == b < 127

ScanLength ==
    \E b \in Read(scan.dp) :
        /\ at = "length" /\ ~Unmapped
        /\ IF ShortForm(b)
           THEN ScanGoes("next_tag", [scan EXCEPT !.dp = scan.dp + 1 + b])
           ELSE IF b = 128
           THEN IF Constructed(scan.tag)
                THEN ScanGoes("next_tag", [scan EXCEPT !.dp = scan.dp + 1, !.level = scan.level + 1])
                ELSE Error
           \* n = len - 0x80 is compared as unsigned: -1 is too long as well
           ELSE IF b - 128 \notin 0 .. 7 \/ datalen - (scan.dp + 1) \in 0 .. b - 129
           THEN Error
           ELSE ScanGoes("length_octet", [scan EXCEPT !.dp = scan.dp + 1, !.n = b - 128, !.len = 0])

(* len <<= 8, len |= b.  The 56 bits that seven octets fill are not kept:  *)
(* a length that leads to unmapped memory does so with more octets, too.   *)
Shifted(l, b) == IF l > Len(job.data) + MAPPED THEN l ELSE 256 * l + b

ScanLengthOctet ==
    \E b \in Read(scan.dp) :
        /\ at = "length_octet" /\ ~Unmapped
        /\ IF scan.n > 1
           THEN ScanGoes("length_octet",
                  [scan EXCEPT !.dp = scan.dp + 1, !.n = scan.n - 1, !.len = Shifted(scan.len, b)])
           ELSE ScanGoes("next_tag",
                  [scan EXCEPT !.dp = scan.dp + 1 + Shifted(scan.len, b), !.n = 0, !.len = 0])

----------------------------------------------------------------------------
NextOp == \/ MachineOverrun \/ SkipMatch
          \/ TagOverrun \/ TagRejected \/ OptionalAbsent
          \/ MatchShort \/ MatchIndefinite \/ MatchLong

Switch == \/ MatchOp \/ MatchActOp \/ MatchJumpOp
          \/ CondFailOp \/ CompleteOp \/ ActOp \/ ReturnOp
          \/ EndRefused \/ EndDefinite \/ EndIndefinite

FindIndefiniteLength ==
    PageFault \/ ScanOverrun \/ ScanTag \/ ScanTagOctet \/ ScanEoc \/ ScanLength \/ ScanLengthOctet

Next == Entry \/ NextOp \/ Switch \/ FindIndefiniteLength

(* The function runs on: nothing in it waits.                              *)
Spec == Init /\ [][Next]_vars /\ WF_vars(Next)

----------------------------------------------------------------------------
(* Properties.                                                             *)

Label == {"entry", "next_op", "matched", "next_tag", "tag_octet", "length",
          "length_octet", "returned", "faulted"}
Result == {"none", "ok", "EBADMSG", "EMSGSIZE", "action"}
Extent == [first : Nat, past : Nat]

(* Every variable keeps its type; in particular the two stacks are never   *)
(* indexed outside their NR_CONS_STACK and NR_JUMP_STACK slots, however    *)
(* deep the data or the grammar nests.                                     *)
TypeOK ==
    /\ IsCall(job)
    /\ at \in Label /\ ret \in Result
    /\ pc \in Nat /\ dp \in Nat /\ tdp \in Nat /\ hdr \in Nat /\ tag \in Nat
    /\ len \in Int /\ datalen \in Nat
    /\ flags \in SUBSET {"MATCHED", "CONS", "INDEFINITE"}
    /\ csp \in 0 .. NR_CONS_STACK
    /\ cons \in [0 .. NR_CONS_STACK - 1 -> [dp : Nat, datalen : Nat, hdr : Nat]]
    /\ jsp \in 0 .. NR_JUMP_STACK
    /\ jump \in [0 .. NR_JUMP_STACK - 1 -> Nat]
    /\ scan \in [dp : Nat, level : Nat, tag : Nat, n : Nat, len : Nat]
    /\ extents \in SUBSET Extent

(* The walk over elements that the decoding amounts to.                    *)
Elements == INSTANCE Nesting WITH
    MaxDepth <- NR_CONS_STACK, Offsets <- Nat,
    cursor <- dp, depth <- csp, consumed <- extents,
    open <- [i \in 0 .. NR_CONS_STACK - 1 |-> cons[i].dp]

(* The decoder does no more to its cursor, its stack of open elements and  *)
(* the elements consumed than Nesting allows.                              *)
WalksElements == Elements!Spec

(* The elements the decoder has consumed are properly nested: two of them  *)
(* lie apart or one inside the other, although a short form length is      *)
(* never compared with the end of the element it is found in and an        *)
(* indefinite element has no end until its EOC is met.                     *)
Nested == Elements!Nested

(* The parse cursor never moves back: a byte of data once stepped over is  *)
(* not decoded a second time, also when an OF body is run again.           *)
CursorMonotone == [][dp' >= dp]_vars

(* An accepted job has consumed no element that ends past the data.        *)
AcceptedInside == ret = "ok" => \A e \in extents : e.past <= Len(job.data)

(* Where the instructions of a machine begin: the first at 0, each other   *)
(* where the one before it ends.                                           *)
Instructions(m) ==
    LET upTo[p \in 0 .. Len(m)] ==
            IF p = 0 THEN {0}
            ELSE LET before == upTo[p - 1]
                 IN IF p - 1 \in before THEN before \cup {p - 1 + OpLength(m[p])} ELSE before
    IN {p \in upTo[Len(m)] : p < Len(m)}

(* As asn1_compiler lays bytecode out: behind each instruction there is    *)
(* another, unless it goes no further, and jumps lead to instructions.     *)
LaidOut(m) ==
    LET starts == Instructions(m)
    IN /\ 0 \in starts
       /\ \A p \in starts :
            /\ m[p + 1] \notin {COMPLETE, RETURN} => p + OpLength(m[p + 1]) \in starts
            /\ m[p + 1] \in MatchJump => m[p + 3] \in starts
            /\ m[p + 1] \in EndOf => m[p + 2] \in starts

(* In bytecode so laid out, control is always at an instruction: a jump, a *)
(* return and the loop of an OF land where the compiler put one, never in  *)
(* the middle of its neighbour, and never past the last.  That is so while *)
(* the unsigned char of the jump stack holds every address of the machine. *)
Addressable(m) == LaidOut(m) /\ Len(m) <= 256
PcAtInstruction == Addressable(job.machine) => pc \in Instructions(job.machine)

(* The body of every OF demands a member: it begins with a match that may  *)
(* not be skipped, or it is a CHOICE, which fails when nothing has matched.*)
DemandsMember(m, body, end) ==
    \/ m[body + 1] \in Matches \ (OrSkip \cup Cond)
    \/ /\ m[body + 1] \in Matches \ Cond
       /\ \E p \in Instructions(m) : body < p /\ p < end /\ m[p + 1] = COND_FAIL
Demanding(m) ==
    \A p \in Instructions(m) : m[p + 1] \in EndOf => DemandsMember(m, m[p + 2], p)

(* Where every OF demands a member, the decoder ends on any data: with a   *)
(* mismatch or an overrun, after the loop over the members of an OF, and   *)
(* in a search for an EOC, which may have to run out of mapped memory.     *)
Ended == at \in {"returned", "faulted"}
Terminates == Demanding(job.machine) ~> Ended

(* The same without the condition: the decoder is done with a document.    *)
AlwaysEnds == <>Ended

----------------------------------------------------------------------------
(* What the proofs of those properties carry along.                        *)

(* An instruction that has matched is whole, and wants a tag.              *)
InInstruction ==
    at \in {"matched"} \cup Scanning => Fits /\ Machine(pc) \in Matches

(* The contents begin at the cursor until they have been stepped over.     *)
AtContents ==
    /\ at = "matched" => tdp = dp /\ len >= 0
    /\ at \in Scanning => tdp = dp /\ dp <= scan.dp
=============================================================================
