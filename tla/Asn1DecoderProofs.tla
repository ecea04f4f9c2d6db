------------------------- MODULE Asn1DecoderProofs -------------------------
(***************************************************************************)
(* Theorems about Asn1Decoder, for every bytecode, every size of the       *)
(* stacks and whatever lies behind the data.                               *)
(***************************************************************************)
EXTENDS Asn1Decoder, TLAPS

TypeInv == TypeOK /\ InInstruction

(* What is read is a byte, from data or from behind it.                    *)
LEMMA ReadByte ==
    ASSUME IsCall(job), NEW i \in Nat
    PROVE  Read(i) \subseteq Byte
BY ExternalAssumption DEF Read, IsCall

(* An instruction is one to four bytes long.                               *)
LEMMA OpLengthNat ==
    ASSUME NEW op
    PROVE  OpLength(op) \in Nat /\ OpLength(op) >= 1
BY DEF OpLength

(* The machine has a length.                                               *)
LEMMA MachLenNat ==
    ASSUME IsCall(job)
    PROVE  MachLen \in Nat
BY DEF MachLen, IsCall

(* The bytes of the machine are bytes.                                     *)
LEMMA MachineByte ==
    ASSUME IsCall(job), NEW i \in Nat, i < MachLen
    PROVE  Machine(i) \in Byte
BY DEF MachLen, Machine, IsCall

(* Leaving the function keeps the types of its locals.                     *)
LEMMA LeaveType ==
    ASSUME TypeInv, NEW r \in Result, Leave(r)
    PROVE  TypeInv'
<1> USE DEF Leave, element, stacks, history
<1>1. TypeOK'
  BY DEF TypeInv, TypeOK, Label, Result
<1>2. InInstruction'
  BY DEF InInstruction, Scanning
<1> QED BY <1>1, <1>2 DEF TypeInv

(* So does leaving it through data_overrun_error and its kind.             *)
LEMMA ErrorType ==
    ASSUME TypeInv, Error
    PROVE  TypeInv'
BY LeaveType DEF Error, Result

(* An instruction that is skipped is followed by the next.                 *)
LEMMA SkipOpType ==
    ASSUME TypeInv, SkipOp,
           flags' \in SUBSET {"MATCHED", "CONS", "INDEFINITE"},
           hdr' \in Nat, tag' \in Nat, UNCHANGED <<tdp, len>>
    PROVE  TypeInv'
<1> USE DEF SkipOp, stacks, history
<1>1. pc' \in Nat
  BY OpLengthNat, SMTT(30) DEF TypeInv, TypeOK
<1>2. TypeOK'
  BY <1>1 DEF TypeInv, TypeOK, Label
<1>3. InInstruction'
  BY DEF InInstruction, Scanning
<1> QED BY <1>2, <1>3 DEF TypeInv

(* A header that has been read opens at most one element, and only where   *)
(* the stack has a slot for it.                                            *)
LEMMA EnterType ==
    ASSUME TypeInv, Fits, Machine(pc) \in Matches,
           NEW t \in Nat, NEW l \in Nat, NEW h \in Nat, NEW d \in Nat,
           NEW indefinite \in BOOLEAN,
           Enter(t, l, h, d, indefinite)
    PROVE  TypeInv'
<1> DEFINE descend == Machine(pc) \notin AnyTag /\ Constructed(Machine(pc + 1))
<1>1. CASE descend /\ ConsFull
  BY <1>1, ErrorType DEF Enter
<1>2. CASE ~(descend /\ ConsFull)
  <2> USE DEF stacks, history
  <2>1. /\ at' = "matched" /\ tag' = t /\ len' = l /\ hdr' = h /\ dp' = d /\ tdp' = d
        /\ flags' \in SUBSET {"MATCHED", "CONS", "INDEFINITE"}
        /\ UNCHANGED <<job, pc, jsp, jump, scan, ret, history>>
    BY <1>2 DEF Enter
  <2>2. /\ csp' \in 0 .. NR_CONS_STACK
        /\ cons' \in [0 .. NR_CONS_STACK - 1 -> [dp : Nat, datalen : Nat, hdr : Nat]]
        /\ datalen' \in Nat
    <3>1. CASE descend
      <4>1. csp \in 0 .. NR_CONS_STACK - 1
        BY <1>2, <3>1, LimitsAssumption DEF ConsFull, TypeInv, TypeOK
      <4> DEFINE frame == [dp |-> UShort(d), hdr |-> h,
                           datalen |-> IF indefinite THEN 0 ELSE UShort(datalen)]
      <4>2. frame \in [dp : Nat, datalen : Nat, hdr : Nat]
        BY DEF TypeInv, TypeOK, UShort
      <4>3. /\ cons' = [cons EXCEPT ![csp] = frame]
            /\ csp' = csp + 1
            /\ datalen' = IF indefinite THEN datalen ELSE d + l
        BY <1>2, <3>1 DEF Enter
      <4> HIDE DEF frame, descend
      <4>4. csp' \in 0 .. NR_CONS_STACK
        BY <4>1, <4>3, LimitsAssumption
      <4>5. cons' \in [0 .. NR_CONS_STACK - 1 -> [dp : Nat, datalen : Nat, hdr : Nat]]
        BY <4>2, <4>3 DEF TypeInv, TypeOK
      <4>6. datalen' \in Nat
        BY <4>3 DEF TypeInv, TypeOK
      <4> QED BY <4>4, <4>5, <4>6
    <3>2. CASE ~descend
      BY <1>2, <3>2 DEF Enter, TypeInv, TypeOK
    <3> QED BY <3>1, <3>2
  <2>3. TypeOK'
    <3>1. at' \in Label /\ tdp' \in Nat /\ len' \in Int /\ UNCHANGED extents
      BY <2>1 DEF Label
    <3> QED BY <2>1, <2>2, <3>1 DEF TypeInv, TypeOK
  <2>4. InInstruction'
    BY <2>1 DEF InInstruction, Fits, Machine, MachLen
  <2> QED BY <2>3, <2>4 DEF TypeInv
<1> QED BY <1>1, <1>2

(* The top of the loop keeps the types: fetch, tag, length, cons stack.    *)
LEMMA NextOpType == TypeInv /\ NextOp => TypeInv'
<1> SUFFICES ASSUME TypeInv, NextOp PROVE TypeInv'
  OBVIOUS
<1>a. IsCall(job) /\ pc \in Nat /\ dp \in Nat /\ dp + 1 \in Nat /\ dp + 2 \in Nat /\ dp + 3 \in Nat
  BY DEF TypeInv, TypeOK
<1>b. /\ Read(dp) \subseteq Nat /\ Read(dp + 1) \subseteq Nat
      /\ Read(dp + 2) \subseteq Nat /\ Read(dp + 3) \subseteq Nat
  <2>1. \A d \in Nat : Read(d) \subseteq Nat
    BY <1>a, ReadByte DEF Byte
  <2> QED BY <1>a, <2>1, Zenon
<1>1. CASE MachineOverrun
  BY <1>1, ErrorType DEF MachineOverrun
<1>2. CASE SkipMatch
  BY <1>2, SkipOpType DEF SkipMatch, element, TypeInv, TypeOK
<1>3. CASE TagOverrun
  BY <1>3, ErrorType DEF TagOverrun
<1>4. CASE TagRejected
  BY <1>4, ErrorType DEF TagRejected
<1>5. CASE OptionalAbsent
  <2>1. PICK t \in Read(dp) : /\ SkipOp /\ hdr' = 2 /\ tag' = t
                              /\ flags' \in {{"CONS"}, {}} /\ UNCHANGED <<tdp, len>>
    BY <1>5 DEF OptionalAbsent
  <2> QED BY <1>b, <2>1, SkipOpType
<1>6. CASE MatchShort
  <2>1. PICK t \in Read(dp), l \in Read(dp + 1) :
          TagTaken(t) /\ Enter(t, l, 2, dp + 2, FALSE)
    BY <1>6 DEF MatchShort
  <2>2. Fits /\ Machine(pc) \in Matches
    BY <2>1 DEF TagTaken, TagRead, Fetched
  <2> QED BY <1>a, <1>b, <2>1, <2>2, EnterType
<1>7. CASE MatchIndefinite
  <2>1. PICK t \in Read(dp) : TagTaken(t) /\ (Enter(t, 128, 2, dp + 2, TRUE) \/ Error)
    BY <1>7 DEF MatchIndefinite
  <2>2. Fits /\ Machine(pc) \in Matches
    BY <2>1 DEF TagTaken, TagRead, Fetched
  <2> QED BY <1>a, <1>b, <2>1, <2>2, EnterType, ErrorType
<1>8. CASE MatchLong
  <2>1. PICK t \in Read(dp), b \in Read(dp + 1) :
          /\ TagTaken(t) /\ b > 128
          /\ IF b - 128 > 2 \/ dp + 2 >= datalen - (b - 128)
             THEN Error
             ELSE \E l \in LengthOctets(dp + 2, b - 128) :
                    IF TooLong(l, dp + 2 + (b - 128))
                    THEN Error
                    ELSE Enter(t, l, 2 + (b - 128), dp + 2 + (b - 128), FALSE)
    BY <1>8, Zenon DEF MatchLong
  <2>2. Fits /\ Machine(pc) \in Matches
    BY <2>1 DEF TagTaken, TagRead, Fetched
  <2>3. CASE Error
    BY <2>3, ErrorType
  <2>4. CASE ~Error
    <3>1. PICK l \in LengthOctets(dp + 2, b - 128) :
            Error \/ Enter(t, l, 2 + (b - 128), dp + 2 + (b - 128), FALSE)
      BY <2>1, <2>4, Zenon
    <3>2. LengthOctets(dp + 2, b - 128) \subseteq Nat
      BY <1>a, <1>b DEF LengthOctets
    <3>3. 2 + (b - 128) \in Nat /\ dp + 2 + (b - 128) \in Nat
      BY <1>a, <1>b, <2>1, SMT
    <3> QED BY <1>b, <2>2, <2>4, <3>1, <3>2, <3>3, EnterType
  <2> QED BY <2>3, <2>4
<1> QED BY <1>1, <1>2, <1>3, <1>4, <1>5, <1>6, <1>7, <1>8 DEF NextOp

----------------------------------------------------------------------------
(* Of SkipData and of ScanGoes only this matters to the types.             *)
LEMMA SkipDataType ==
    ASSUME TypeInv, Fits, Machine(pc) \in Matches, NEW after \in Nat, SkipData(after)
    PROVE  /\ at' \in {"next_op", "next_tag"} /\ pc' \in Nat /\ dp' \in Nat
           /\ scan' \in [dp : Nat, level : Nat, tag : Nat, n : Nat, len : Nat]
           /\ extents' \in SUBSET Extent
           /\ at' = "next_tag" => pc' = pc
<1>1. pc + OpLength(Machine(pc)) \in Nat
  BY OpLengthNat DEF TypeInv, TypeOK
<1>2. [first |-> tdp, past |-> after] \in Extent
  BY DEF TypeInv, TypeOK, Extent
<1>3. [dp |-> dp, level |-> 1, tag |-> 0, n |-> 0, len |-> 0]
        \in [dp : Nat, level : Nat, tag : Nat, n : Nat, len : Nat]
  BY DEF TypeInv, TypeOK
<1> QED BY <1>1, <1>2, <1>3 DEF SkipData, TypeInv, TypeOK

(* A matched primitive is entered with a length that is not negative.      *)
LEMMA MatchOpType ==
    ASSUME TypeInv, AtContents, MatchOp \/ MatchActOp
    PROVE  TypeInv'
<1>1. Matched(Plain \cup MatchAny \cup MatchAct \cup MatchAnyAct)
  BY DEF MatchOp, MatchActOp, Matched
<1>2. Fits /\ Machine(pc) \in Matches
  BY <1>1 DEF Matched, TypeInv, InInstruction
<1>3. dp + len \in Nat
  BY <1>1 DEF AtContents, Matched, TypeInv, TypeOK
<1>4. /\ \/ SkipData(dp + len) /\ UNCHANGED ret
         \/ at' = "returned" /\ ret' = "action" /\ UNCHANGED <<pc, dp, scan, extents>>
      /\ UNCHANGED <<job, datalen, element, stacks>>
  BY DEF MatchOp, MatchActOp
<1>5. /\ at' \in {"next_op", "next_tag", "returned"} /\ pc' \in Nat /\ dp' \in Nat
      /\ scan' \in [dp : Nat, level : Nat, tag : Nat, n : Nat, len : Nat]
      /\ extents' \in SUBSET Extent
      /\ at' = "next_tag" => pc' = pc
      /\ ret' \in Result
  BY <1>2, <1>3, <1>4, SkipDataType DEF TypeInv, TypeOK, Result
<1>6. TypeOK'
  BY <1>4, <1>5 DEF element, stacks, TypeInv, TypeOK, Label
<1>7. InInstruction'
  BY <1>2, <1>4, <1>5 DEF InInstruction, Scanning, Fits, Machine, MachLen
<1> QED BY <1>6, <1>7 DEF TypeInv

(* The jump stack is written inside its slots or not at all.               *)
LEMMA MatchJumpOpType ==
    ASSUME TypeInv, MatchJumpOp
    PROVE  TypeInv'
<1>1. CASE jsp = NR_JUMP_STACK
  BY <1>1, ErrorType DEF MatchJumpOp
<1>2. CASE jsp # NR_JUMP_STACK
  <2>1. /\ jump' = [jump EXCEPT ![jsp] = UChar(ReturnAddress)] /\ jsp' = jsp + 1
        /\ pc' = Machine(pc + 2) /\ at' = "next_op"
        /\ UNCHANGED <<job, dp, datalen, element, csp, cons, scan, ret, history>>
    BY <1>2 DEF MatchJumpOp
  <2>2. OpLength(Machine(pc)) = 3 /\ Fits
    BY DEF MatchJumpOp, Matched, TypeInv, InInstruction, OpLength, Matches, MatchJump,
           AnyTag, MatchAny, MatchAnyAct, MatchAct, Plain, EndOf, EndAct, ACT
  <2>t. IsCall(job) /\ pc \in Nat /\ jump \in [0 .. NR_JUMP_STACK - 1 -> Nat]
    BY DEF TypeInv, TypeOK
  <2>3. pc' \in Nat
    <3>1. pc + 2 \in Nat /\ pc + 2 < MachLen
      BY <2>2, <2>t, MachLenNat DEF Fits
    <3>2. Machine(pc + 2) \in Byte
      BY <2>t, <3>1, MachineByte
    <3> QED BY <2>1, <3>2 DEF Byte
  <2>4. jump' \in [0 .. NR_JUMP_STACK - 1 -> Nat]
    <3>1. UChar(ReturnAddress) \in Nat
      BY <2>2, <2>t DEF ReturnAddress, UChar
    <3> QED BY <2>1, <2>t, <3>1
  <2>5. jsp' \in 0 .. NR_JUMP_STACK
    BY <1>2, <2>1, LimitsAssumption DEF TypeInv, TypeOK
  <2>6. TypeOK'
    BY <2>1, <2>3, <2>4, <2>5 DEF element, history, TypeInv, TypeOK, Label
  <2>7. InInstruction'
    BY <2>1 DEF InInstruction, Scanning
  <2> QED BY <2>6, <2>7 DEF TypeInv
<1> QED BY <1>1, <1>2

(* Opcodes that want no tag, other than END.                               *)
LEMMA PlainOpType ==
    ASSUME TypeInv, CondFailOp \/ CompleteOp \/ ActOp \/ ReturnOp
    PROVE  TypeInv'
<1>1. CASE CondFailOp
  BY <1>1, ErrorType, SkipOpType DEF CondFailOp, element, TypeInv, TypeOK
<1>2. CASE CompleteOp
  BY <1>2, LeaveType DEF CompleteOp, Result
<1>3. CASE ActOp
  <2> USE <1>3 DEF ActOp, element, stacks
  <2>1. pc' \in Nat
    BY OpLengthNat, SMTT(30) DEF TypeInv, TypeOK
  <2>2. TypeOK'
    BY <2>1 DEF TypeInv, TypeOK, Label
  <2>3. InInstruction'
    BY DEF InInstruction, Scanning
  <2> QED BY <2>2, <2>3 DEF TypeInv
<1>4. CASE ReturnOp /\ jsp = 0
  BY <1>4, ErrorType DEF ReturnOp
<1>5. CASE ReturnOp /\ jsp # 0
  <2>1. /\ jsp' = jsp - 1 /\ pc' = jump[jsp - 1] /\ at' = "next_op"
        /\ UNCHANGED <<job, dp, datalen, element, csp, cons, jump, scan, ret, history>>
    BY <1>5 DEF ReturnOp
  <2>2. jsp - 1 \in 0 .. NR_JUMP_STACK - 1
    BY <1>5, LimitsAssumption DEF TypeInv, TypeOK
  <2>c. pc' \in Nat
    BY <2>1, <2>2 DEF TypeInv, TypeOK
  <2>d. jsp' \in 0 .. NR_JUMP_STACK
    BY <2>1, <2>2, LimitsAssumption
  <2>3. TypeOK'
    BY <2>1, <2>c, <2>d DEF element, history, TypeInv, TypeOK, Label
  <2>4. InInstruction'
    BY <2>1 DEF InInstruction, Scanning
  <2> QED BY <2>3, <2>4 DEF TypeInv
<1> QED BY <1>1, <1>2, <1>3, <1>4, <1>5

(* The top of the cons stack is a slot that was written.                   *)
LEMMA TopType ==
    ASSUME TypeInv, csp > 0
    PROVE  /\ csp - 1 \in 0 .. NR_CONS_STACK - 1
           /\ Top.dp \in Nat /\ Top.datalen \in Nat /\ Top.hdr \in Nat
<1>1. csp - 1 \in 0 .. NR_CONS_STACK - 1
  BY LimitsAssumption DEF TypeInv, TypeOK
<1>2. Top \in [dp : Nat, datalen : Nat, hdr : Nat]
  BY <1>1 DEF Top, TypeInv, TypeOK
<1> QED BY <1>1, <1>2

(* The loop back of an END_OF opcode goes where its operand says.          *)
LEMMA LoopBackType ==
    ASSUME TypeInv, csp > 0, Fits, Machine(pc) \in EndOf, LoopBack
    PROVE  TypeInv'
<1>1. IsCall(job) /\ pc \in Nat /\ datalen \in Nat
  BY DEF TypeInv, TypeOK
<1>2. OpLength(Machine(pc)) >= 2
  BY DEF OpLength
<1>3. pc + 1 \in Nat /\ pc + 1 < MachLen
  BY <1>1, <1>2, MachLenNat, OpLengthNat DEF Fits
<1>4. pc' \in Nat
  BY <1>1, <1>3, MachineByte DEF LoopBack, Byte
<1>5. TypeOK'
  <2>1. at' \in Label /\ tdp' \in Nat /\ hdr' \in Nat /\ len' \in Int
    BY <1>1, TopType DEF LoopBack, Label
  <2>2. UNCHANGED <<job, dp, datalen, tag, flags, csp, cons, jsp, jump, scan, ret, extents>>
    BY DEF LoopBack, stacks, history
  <2> QED BY <1>4, <2>1, <2>2 DEF TypeInv, TypeOK
<1>6. InInstruction'
  BY DEF LoopBack, InInstruction, Scanning
<1> QED BY <1>5, <1>6 DEF TypeInv

(* To pop the cons stack leaves a stack pointer in range.                  *)
LEMMA CloseType ==
    ASSUME TypeInv, csp > 0, NEW limit \in Nat, NEW past \in Nat, NEW outer \in Nat,
           Close(limit, past, outer), dp' \in Nat
    PROVE  TypeInv'
<1>1. pc' \in Nat
  <2>1. pc' = pc + OpLength(Machine(pc))
    BY DEF Close
  <2>2. pc \in Nat
    BY DEF TypeInv, TypeOK
  <2> QED BY <2>1, <2>2, OpLengthNat
<1>2. csp' \in 0 .. NR_CONS_STACK
  BY LimitsAssumption DEF Close, TypeInv, TypeOK
<1>3. extents' \in SUBSET Extent
  <2>1. [first |-> Top.dp, past |-> past] \in Extent
    BY TopType DEF Extent
  <2> QED BY <2>1 DEF Close, TypeInv, TypeOK
<1>4. tdp' \in Nat /\ hdr' \in Nat /\ len' \in Int
  BY TopType DEF Close
<1>5. TypeOK'
  BY <1>1, <1>2, <1>3, <1>4 DEF Close, TypeInv, TypeOK, Label
<1>6. InInstruction'
  BY DEF Close, InInstruction, Scanning
<1> QED BY <1>5, <1>6 DEF TypeInv

(* The END opcodes keep the types, whichever way they go.                  *)
LEMMA EndOpType ==
    ASSUME TypeInv, EndRefused \/ EndDefinite \/ EndIndefinite
    PROVE  TypeInv'
<1>a. IsCall(job) /\ dp \in Nat /\ dp + 1 \in Nat /\ dp + 2 \in Nat /\ datalen \in Nat
  BY DEF TypeInv, TypeOK
<1>1. CASE EndRefused
  BY <1>1, ErrorType DEF EndRefused
<1>2. CASE EndDefinite
  <2>1. csp > 0 /\ Fits
    BY <1>2 DEF EndDefinite, EndFetched, Fetched
  <2>2. \/ Machine(pc) \in EndOf /\ LoopBack
        \/ Error
        \/ Close(datalen, datalen, Top.datalen) /\ UNCHANGED dp
    BY <1>2 DEF EndDefinite, AnotherMember
  <2> QED BY <1>a, <2>1, <2>2, ErrorType, LoopBackType, CloseType, TopType
<1>3. CASE EndIndefinite
  <2>1. csp > 0 /\ Fits
    BY <1>3 DEF EndIndefinite, EndFetched, Fetched
  <2>2. \/ Machine(pc) \in EndOf /\ LoopBack
        \/ Error
        \/ Close(dp, dp + 2, datalen) /\ dp' = dp + 2
    BY <1>3 DEF EndIndefinite
  <2> QED BY <1>a, <2>1, <2>2, ErrorType, LoopBackType, CloseType, TopType
<1> QED BY <1>1, <1>2, <1>3

----------------------------------------------------------------------------
ScanFields == [dp : Nat, level : Nat, tag : Nat, n : Nat, len : Nat]

(* A step inside asn1_find_indefinite_length changes only its locals.      *)
LEMMA ScanGoesType ==
    ASSUME TypeInv, at \in Scanning, NEW label \in Scanning,
           NEW s \in ScanFields,
           ScanGoes(label, s)
    PROVE  TypeInv'
<1> USE DEF ScanGoes, element, stacks, history
<1>1. TypeOK'
  BY DEF TypeInv, TypeOK, Label, Scanning, ScanFields
<1>2. InInstruction'
  BY DEF TypeInv, InInstruction, Fits, Machine, MachLen
<1> QED BY <1>1, <1>2 DEF TypeInv

(* The length that the search gathers stays a number.                      *)
LEMMA ShiftedNat ==
    ASSUME NEW l \in Nat, NEW b \in Byte
    PROVE  Shifted(l, b) \in Nat
BY DEF Shifted, Byte

(* The updates the search makes to its locals keep their types.            *)
LEMMA ScanUpdates ==
    ASSUME NEW s \in ScanFields, NEW x \in Nat, NEW y \in Nat, NEW z \in Nat
    PROVE  /\ [s EXCEPT !.dp = x] \in ScanFields
           /\ [s EXCEPT !.dp = x, !.tag = y] \in ScanFields
           /\ [s EXCEPT !.dp = x, !.level = y] \in ScanFields
           /\ [s EXCEPT !.dp = x, !.n = y, !.len = z] \in ScanFields
BY DEF ScanFields

(* asn1_find_indefinite_length keeps the types.                            *)
LEMMA ScanType == TypeInv /\ FindIndefiniteLength => TypeInv'
<1> SUFFICES ASSUME TypeInv, FindIndefiniteLength PROVE TypeInv'
  OBVIOUS
<1>a. IsCall(job) /\ scan \in ScanFields /\ dp \in Nat /\ tdp \in Nat /\ pc \in Nat
  BY DEF TypeInv, TypeOK, ScanFields
<1>c. /\ scan.dp \in Nat /\ scan.level \in Nat /\ scan.n \in Nat /\ scan.len \in Nat
      /\ scan.dp + 1 \in Nat /\ scan.dp + 2 \in Nat /\ scan.level + 1 \in Nat
  BY <1>a DEF ScanFields
<1>b. Read(scan.dp) \subseteq Byte /\ Byte \subseteq Nat
  BY <1>a, <1>c, ReadByte DEF Byte
<1>0. CASE PageFault
  <2> USE <1>0 DEF PageFault, element, stacks, history
  <2>1. TypeOK'
    BY DEF TypeInv, TypeOK, Label
  <2>2. InInstruction'
    BY DEF InInstruction, Scanning
  <2> QED BY <2>1, <2>2 DEF TypeInv
<1>1. CASE ScanOverrun
  BY <1>1, ErrorType DEF ScanOverrun
<1>2. CASE ScanTag
  <2>1. PICK t \in Read(scan.dp) :
          /\ at = "next_tag"
          /\ ScanGoes(IF LongTag(t) THEN "tag_octet" ELSE "length",
                      [scan EXCEPT !.dp = scan.dp + 1, !.tag = t])
    BY <1>2 DEF ScanTag
  <2>2. [scan EXCEPT !.dp = scan.dp + 1, !.tag = t] \in ScanFields
    BY <1>a, <1>b, <1>c, ScanUpdates
  <2> QED BY <2>1, <2>2, ScanGoesType DEF Scanning
<1>3. CASE ScanTagOctet
  <2>1. PICK b \in Read(scan.dp) :
          /\ at = "tag_octet"
          /\ ScanGoes(IF b >= 128 THEN "tag_octet" ELSE "length", [scan EXCEPT !.dp = scan.dp + 1])
    BY <1>3 DEF ScanTagOctet
  <2>2. [scan EXCEPT !.dp = scan.dp + 1] \in ScanFields
    BY <1>a, <1>c, ScanUpdates
  <2> QED BY <2>1, <2>2, ScanGoesType DEF Scanning
<1>4. CASE ScanEoc
  <2>0. at = "next_tag"
    BY <1>4 DEF ScanEoc
  <2>1. CASE Error
    BY <2>1, ErrorType
  <2>2. CASE scan.level > 1 /\ ScanGoes("next_tag", [scan EXCEPT !.dp = scan.dp + 2, !.level = scan.level - 1])
    <3>1. [scan EXCEPT !.dp = scan.dp + 2, !.level = scan.level - 1] \in ScanFields
      <4>1. scan.level - 1 \in Nat
        BY <1>c, <2>2
      <4> QED BY <1>a, <1>c, <4>1, ScanUpdates
    <3> QED BY <2>0, <2>2, <3>1, ScanGoesType DEF Scanning
  <2>3. CASE /\ dp' = scan.dp + 2 /\ len' = scan.dp + 2 - dp
             /\ extents' = extents \cup {[first |-> tdp, past |-> scan.dp + 2]}
             /\ at' = "next_op" /\ pc' = pc + OpLength(Machine(pc))
             /\ UNCHANGED <<job, datalen, tdp, hdr, tag, flags, stacks, scan, ret, calls>>
    <3>1. pc' \in Nat /\ dp' \in Nat /\ len' \in Int
      BY <1>a, <1>c, <2>3, OpLengthNat
    <3>2. extents' \in SUBSET Extent
      <4>1. [first |-> tdp, past |-> scan.dp + 2] \in Extent
        BY <1>a, <1>c DEF Extent
      <4> QED BY <2>3, <4>1 DEF TypeInv, TypeOK
    <3>3. TypeOK'
      BY <2>3, <3>1, <3>2 DEF stacks, TypeInv, TypeOK, Label
    <3>4. InInstruction'
      BY <2>3 DEF InInstruction, Scanning
    <3> QED BY <3>3, <3>4 DEF TypeInv
  <2> QED BY <1>4, <2>1, <2>2, <2>3 DEF ScanEoc
<1>5. CASE ScanLength
  <2>1. PICK b \in Read(scan.dp) :
          /\ at = "length"
          /\ \/ Error
             \/ ScanGoes("next_tag", [scan EXCEPT !.dp = scan.dp + 1 + b])
             \/ ScanGoes("next_tag", [scan EXCEPT !.dp = scan.dp + 1, !.level = scan.level + 1])
             \/ /\ b - 128 \in 0 .. 7
                /\ ScanGoes("length_octet", [scan EXCEPT !.dp = scan.dp + 1, !.n = b - 128, !.len = 0])
    BY <1>5 DEF ScanLength
  <2>2. /\ [scan EXCEPT !.dp = scan.dp + 1 + b] \in ScanFields
        /\ [scan EXCEPT !.dp = scan.dp + 1, !.level = scan.level + 1] \in ScanFields
    <3>1. b \in Nat
      BY <1>b, <2>1, Zenon
    <3>2. scan.dp + 1 + b \in Nat
      BY <1>c, <3>1
    <3> QED BY <1>a, <1>c, <3>2, ScanUpdates
  <2>3. ASSUME b - 128 \in 0 .. 7
        PROVE  [scan EXCEPT !.dp = scan.dp + 1, !.n = b - 128, !.len = 0] \in ScanFields
    <3>1. b - 128 \in Nat /\ 0 \in Nat
      BY <2>3
    <3>2. scan.dp + 1 \in Nat
      BY <1>c
    <3>3. \A x, y, z \in Nat : [scan EXCEPT !.dp = x, !.n = y, !.len = z] \in ScanFields
      BY <1>a, ScanUpdates
    <3> QED BY <3>1, <3>2, <3>3
  <2>4. "next_tag" \in Scanning /\ "length_octet" \in Scanning
    BY DEF Scanning
  <2>5. at \in Scanning
    BY <2>1 DEF Scanning
  <2>6. ASSUME NEW label \in Scanning, NEW s \in ScanFields, ScanGoes(label, s)
        PROVE  TypeInv'
    BY <2>5, <2>6, ScanGoesType
  <2>7. CASE Error
    BY <2>7, ErrorType
  <2>8. CASE ScanGoes("next_tag", [scan EXCEPT !.dp = scan.dp + 1 + b])
    BY <2>2, <2>4, <2>6, <2>8, Zenon
  <2>9. CASE ScanGoes("next_tag", [scan EXCEPT !.dp = scan.dp + 1, !.level = scan.level + 1])
    BY <2>2, <2>4, <2>6, <2>9, Zenon
  <2>10. ASSUME b - 128 \in 0 .. 7,
                ScanGoes("length_octet", [scan EXCEPT !.dp = scan.dp + 1, !.n = b - 128, !.len = 0])
         PROVE  TypeInv'
    BY <2>3, <2>4, <2>6, <2>10, Zenon
  <2> QED BY <2>1, <2>7, <2>8, <2>9, <2>10, Zenon
<1>6. CASE ScanLengthOctet
  <2>1. PICK b \in Read(scan.dp) :
          /\ at = "length_octet"
          /\ \/ /\ scan.n > 1
                /\ ScanGoes("length_octet",
                     [scan EXCEPT !.dp = scan.dp + 1, !.n = scan.n - 1, !.len = Shifted(scan.len, b)])
             \/ ScanGoes("next_tag",
                  [scan EXCEPT !.dp = scan.dp + 1 + Shifted(scan.len, b), !.n = 0, !.len = 0])
    BY <1>6 DEF ScanLengthOctet
  <2>2. Shifted(scan.len, b) \in Nat
    BY <1>b, <1>c, ShiftedNat
  <2>3. [scan EXCEPT !.dp = scan.dp + 1 + Shifted(scan.len, b), !.n = 0, !.len = 0] \in ScanFields
    <3>1. scan.dp + 1 + Shifted(scan.len, b) \in Nat
      BY <1>c, <2>2
    <3> QED BY <1>a, <3>1, ScanUpdates
  <2>4. ASSUME scan.n > 1
        PROVE  [scan EXCEPT !.dp = scan.dp + 1, !.n = scan.n - 1, !.len = Shifted(scan.len, b)] \in ScanFields
    <3>1. scan.n - 1 \in Nat
      BY <1>c, <2>4
    <3> QED BY <1>a, <1>c, <2>2, <3>1, ScanUpdates
  <2> QED BY <2>1, <2>3, <2>4, ScanGoesType DEF Scanning
<1> QED BY <1>0, <1>1, <1>2, <1>3, <1>4, <1>5, <1>6 DEF FindIndefiniteLength

----------------------------------------------------------------------------
(* The cons stacks keep 16 bits of an offset.  A match leaves the end of   *)
(* the element at most 127 past that of the one it is in; so data that is  *)
(* shorter than 65536 by as much for each slot of the stack fits in it.    *)
Fit(size) == size + 127 * NR_CONS_STACK <= 65535

(* How far the innermost definite element of level i may reach.            *)
Reach(size, i) == size + 127 * i

(* An end that was in force with `level' elements open: above level i all  *)
(* of them were indefinite, and have left it as it was.                    *)
EndsBy(size, stack, level, end) ==
    \A i \in 0 .. level :
        (\A k \in i .. level - 1 : stack[k].datalen = 0) => end <= Reach(size, i)

Reaching ==
    /\ EndsBy(Len(job.data), cons, csp, datalen)
    /\ \A k \in 0 .. csp - 1 :
         cons[k].datalen # 0 => EndsBy(Len(job.data), cons, k, cons[k].datalen)

Within16Bits == Fit(Len(job.data)) => Reaching

(* A step and the walk over elements that it is a step of.                 *)
ContentsInv == TypeInv /\ AtContents /\ Within16Bits
Walk == [Elements!Next]_(Elements!vars)
Good == AtContents' /\ dp' >= dp /\ (Fit(Len(job.data)) => Walk)

Starts == [i \in 0 .. NR_CONS_STACK - 1 |-> cons[i].dp]

(* A step that moves no cursor and opens and consumes nothing.             *)
LEMMA StillStep ==
    ASSUME ContentsInv, at' \notin Scanning, at' # "matched",
           UNCHANGED <<dp, csp, cons, extents>>
    PROVE  Good
<1>1. AtContents'
  BY DEF AtContents
<1>2. UNCHANGED Elements!vars
  BY DEF Elements!vars
<1>3. dp' >= dp
  BY DEF ContentsInv, TypeInv, TypeOK
<1> QED BY <1>1, <1>2, <1>3 DEF Good, Walk

(* To return is a stuttering step of the walk over elements.               *)
LEMMA LeaveStep ==
    ASSUME ContentsInv, NEW r, Leave(r)
    PROVE  Good
BY StillStep DEF Leave, stacks, history, Scanning

(* So is to return with an error.                                          *)
LEMMA ErrorStep == ASSUME ContentsInv, Error PROVE Good
BY LeaveStep DEF Error

(* So is to skip an opcode.                                                *)
LEMMA SkipOpStep == ASSUME ContentsInv, SkipOp PROVE Good
BY StillStep DEF SkipOp, stacks, history, Scanning

LEMMA ReachNat ==
    ASSUME NEW size \in Nat, NEW i \in Nat
    PROVE  Reach(size, i) \in Nat /\ Reach(size, i + 1) = Reach(size, i) + 127
BY DEF Reach

LEMMA ReachBelow ==
    ASSUME NEW size \in Nat, NEW i \in 0 .. NR_CONS_STACK, Fit(size)
    PROVE  Reach(size, i) <= 65535
BY LimitsAssumption DEF Reach, Fit

(* While an end fits in 16 bits, the stack keeps it as it is.              *)
LEMMA EndFits ==
    ASSUME ContentsInv, Fit(Len(job.data)), NEW d \in Nat, d <= datalen
    PROVE  /\ UShort(d) = d /\ UShort(datalen) = datalen
           /\ datalen <= Reach(Len(job.data), csp)
<1>1. csp \in 0 .. NR_CONS_STACK /\ datalen \in Nat /\ Len(job.data) \in Nat
  BY DEF ContentsInv, TypeInv, TypeOK, IsCall
<1>2. datalen <= Reach(Len(job.data), csp)
  BY <1>1, LimitsAssumption DEF ContentsInv, Within16Bits, Reaching, EndsBy
<1>3. Reach(Len(job.data), csp) <= 65535
  BY <1>1, ReachBelow
<1>4. Reach(Len(job.data), csp) \in Nat
  <2>1. csp \in Nat
    BY <1>1, LimitsAssumption
  <2> QED BY <1>1, <2>1, ReachNat
<1> QED BY <1>1, <1>2, <1>3, <1>4 DEF UShort

(* To descend into a constructed element opens it where the cursor is.     *)
LEMMA EnterStep ==
    ASSUME ContentsInv, NEW t, NEW l \in Nat, NEW h \in Nat,
           NEW d \in Nat, d >= dp, d <= datalen,
           NEW indefinite \in BOOLEAN, Enter(t, l, h, d, indefinite)
    PROVE  Good
<1> DEFINE descend == Machine(pc) \notin AnyTag /\ Constructed(Machine(pc + 1))
<1>1. CASE descend /\ ConsFull
  BY <1>1, ErrorStep DEF Enter
<1>2. CASE ~(descend /\ ConsFull)
  <2>1. at' = "matched" /\ len' = l /\ dp' = d /\ tdp' = d /\ extents' = extents
    BY <1>2 DEF Enter, history
  <2>2. AtContents'
    BY <2>1 DEF AtContents, Scanning
  <2>3. Elements!Forward
    BY <2>1 DEF Elements!Forward
  <2>4. ASSUME Fit(Len(job.data)) PROVE Walk
    <3>1. CASE descend
      <4>1. csp \in 0 .. NR_CONS_STACK - 1 /\ csp < NR_CONS_STACK
        BY <1>2, <3>1, LimitsAssumption DEF ConsFull, ContentsInv, TypeInv, TypeOK
      <4> DEFINE frame == [dp |-> UShort(d), hdr |-> h,
                           datalen |-> IF indefinite THEN 0 ELSE UShort(datalen)]
      <4>2. cons' = [cons EXCEPT ![csp] = frame] /\ csp' = csp + 1
        BY <1>2, <3>1 DEF Enter
      <4>3. frame.dp = d
        BY <2>4, EndFits
      <4> HIDE DEF frame
      <4>4. Starts' = [Starts EXCEPT ![csp] = dp']
        BY <2>1, <4>1, <4>2, <4>3 DEF Starts, ContentsInv, TypeInv, TypeOK
      <4>5. Elements!Descend
        BY <2>1, <2>3, <4>1, <4>2, <4>4 DEF Elements!Descend, Starts
      <4> QED BY <4>5 DEF Walk, Elements!Next
    <3>2. CASE ~descend
      <4>1. UNCHANGED <<csp, cons>>
        BY <1>2, <3>2 DEF Enter
      <4>2. Elements!Header
        BY <2>1, <2>3, <4>1 DEF Elements!Header
      <4> QED BY <4>2 DEF Walk, Elements!Next
    <3> QED BY <3>1, <3>2
  <2> QED BY <2>1, <2>2, <2>4 DEF Good
<1> QED BY <1>1, <1>2

(* The top of the loop reads a header or opens an element, no more.        *)
LEMMA NextOpStep == ContentsInv /\ NextOp => Good
<1> SUFFICES ASSUME ContentsInv, NextOp PROVE Good
  OBVIOUS
<1>a. /\ IsCall(job) /\ dp \in Nat /\ dp + 1 \in Nat /\ dp + 2 \in Nat /\ dp + 3 \in Nat
      /\ dp + 2 >= dp
  BY DEF ContentsInv, TypeInv, TypeOK
<1>b. /\ Read(dp) \subseteq Nat /\ Read(dp + 1) \subseteq Nat
      /\ Read(dp + 2) \subseteq Nat /\ Read(dp + 3) \subseteq Nat
  <2>1. \A d \in Nat : Read(d) \subseteq Nat
    BY <1>a, ReadByte DEF Byte
  <2> QED BY <1>a, <2>1, Zenon
<1>c. ASSUME NEW t, TagTaken(t) PROVE datalen \in Nat /\ dp + 2 <= datalen
  BY <1>c, <1>a DEF TagTaken, TagRead, ContentsInv, TypeInv, TypeOK
<1>1. CASE Error
  BY <1>1, ErrorStep
<1>2. CASE SkipOp
  BY <1>2, SkipOpStep
<1>3. CASE MatchShort
  <2>1. PICK t \in Read(dp), l \in Read(dp + 1) : TagTaken(t) /\ Enter(t, l, 2, dp + 2, FALSE)
    BY <1>3 DEF MatchShort
  <2>2. l \in Nat /\ 2 \in Nat
    BY <1>b, <2>1
  <2> QED BY <1>a, <1>c, <2>1, <2>2, EnterStep
<1>4. CASE MatchIndefinite
  <2>1. PICK t \in Read(dp) : TagTaken(t) /\ (Enter(t, 128, 2, dp + 2, TRUE) \/ Error)
    BY <1>4 DEF MatchIndefinite
  <2>2. 128 \in Nat /\ 2 \in Nat
    OBVIOUS
  <2> QED BY <1>a, <1>c, <2>1, <2>2, EnterStep, ErrorStep
<1>5. CASE MatchLong /\ ~Error
  <2>1. PICK t \in Read(dp), b \in Read(dp + 1) :
          /\ TagTaken(t) /\ b > 128
          /\ IF b - 128 > 2 \/ dp + 2 >= datalen - (b - 128)
             THEN Error
             ELSE \E l \in LengthOctets(dp + 2, b - 128) :
                    IF TooLong(l, dp + 2 + (b - 128))
                    THEN Error
                    ELSE Enter(t, l, 2 + (b - 128), dp + 2 + (b - 128), FALSE)
    BY <1>5, Zenon DEF MatchLong
  <2>5. ~(dp + 2 >= datalen - (b - 128))
    BY <1>5, <2>1, Zenon
  <2>6. dp + 2 + (b - 128) <= datalen
    BY <1>a, <1>b, <1>c, <2>1, <2>5, SMT
  <2>2. PICK l \in LengthOctets(dp + 2, b - 128) :
          Enter(t, l, 2 + (b - 128), dp + 2 + (b - 128), FALSE)
    BY <1>5, <2>1, Zenon
  <2>3. LengthOctets(dp + 2, b - 128) \subseteq Nat
    BY <1>a, <1>b DEF LengthOctets
  <2>4. /\ 2 + (b - 128) \in Nat /\ dp + 2 + (b - 128) \in Nat
        /\ dp + 2 + (b - 128) >= dp
    BY <1>a, <1>b, <2>1, SMT
  <2> QED BY <1>b, <2>2, <2>3, <2>4, <2>6, EnterStep
<1> QED
  BY <1>1, <1>2, <1>3, <1>4, <1>5
  DEF NextOp, MachineOverrun, SkipMatch, TagOverrun, TagRejected, OptionalAbsent

----------------------------------------------------------------------------
(* A matched primitive is consumed whole, from its contents on.            *)
LEMMA MatchOpStep ==
    ASSUME ContentsInv, MatchOp \/ MatchActOp
    PROVE  Good
<1>1. at = "matched" /\ dp \in Nat /\ len \in Nat /\ tdp = dp
  BY DEF MatchOp, MatchActOp, Matched, ContentsInv, AtContents, TypeInv, TypeOK
<1>2. UNCHANGED <<tdp, csp, cons>>
  BY DEF MatchOp, MatchActOp, element, stacks
<1>3. CASE at' = "returned" /\ UNCHANGED <<dp, extents>>
  BY <1>2, <1>3, StillStep DEF Scanning
<1>4. CASE SkipData(dp + len)
  <2>1. CASE at' = "next_op" /\ UNCHANGED <<dp, extents>>
    BY <1>2, <2>1, StillStep DEF Scanning
  <2>2. CASE at' = "next_tag" /\ scan'.dp = dp /\ UNCHANGED <<dp, extents>>
    <3>1. AtContents'
      BY <1>1, <1>2, <2>2 DEF AtContents, Scanning
    <3>2. UNCHANGED Elements!vars
      BY <1>2, <2>2 DEF Elements!vars
    <3> QED BY <1>1, <2>2, <3>1, <3>2 DEF Good, Walk
  <2>3. CASE /\ at' = "next_op" /\ dp' = dp + len
             /\ extents' = extents \cup {[first |-> tdp, past |-> dp + len]}
    <3>1. AtContents'
      BY <2>3 DEF AtContents, Scanning
    <3>2. Elements!Consume
      BY <1>1, <1>2, <2>3 DEF Elements!Consume, Elements!Forward
    <3> QED BY <1>1, <2>3, <3>1, <3>2 DEF Good, Walk, Elements!Next
  <2> QED BY <1>4, <2>1, <2>2, <2>3 DEF SkipData
<1> QED BY <1>3, <1>4 DEF MatchOp, MatchActOp

(* A loop back stays where it is; the end of an element closes it.         *)
LEMMA EndOpStep ==
    ASSUME ContentsInv, EndRefused \/ EndDefinite \/ EndIndefinite
    PROVE  Good
<1>a. dp \in Nat /\ datalen \in Nat /\ dp + 2 \in Nat
  BY DEF ContentsInv, TypeInv, TypeOK
<1>1. CASE Error
  BY <1>1, ErrorStep
<1>2. CASE LoopBack
  BY <1>2, StillStep DEF LoopBack, stacks, history, Scanning
<1>3. ASSUME csp > 0, NEW limit, NEW past \in Nat, NEW outer,
             Close(limit, past, outer), dp' = past, past >= dp
      PROVE  Good
  <2>1. csp - 1 \in 0 .. NR_CONS_STACK - 1
    BY <1>3, LimitsAssumption DEF ContentsInv, TypeInv, TypeOK
  <2>2. AtContents'
    BY <1>3 DEF Close, AtContents, Scanning
  <2>3. Elements!Forward
    BY <1>3 DEF Elements!Forward
  <2>4. Starts[csp - 1] = Top.dp
    BY <2>1 DEF Starts, Top
  <2>5. Elements!Close
    BY <1>3, <2>3, <2>4 DEF Elements!Close, Close, Starts
  <2> QED BY <1>3, <2>2, <2>5 DEF Good, Walk, Elements!Next
<1>4. CASE EndDefinite /\ ~Error /\ ~LoopBack
  <2>1. csp > 0 /\ Close(datalen, datalen, Top.datalen) /\ dp' = datalen /\ datalen = dp
    BY <1>4 DEF EndDefinite, EndFetched, LengthError
  <2> QED BY <1>a, <1>3, <2>1
<1>5. CASE EndIndefinite /\ ~Error /\ ~LoopBack
  <2>1. csp > 0 /\ Close(dp, dp + 2, datalen) /\ dp' = dp + 2
    BY <1>5 DEF EndIndefinite, EndFetched
  <2> QED BY <1>a, <1>3, <2>1
<1> QED BY <1>1, <1>2, <1>4, <1>5 DEF EndRefused

(* The switch over opcodes is a step of the walk or stutters.              *)
LEMMA SwitchStep == ContentsInv /\ Switch => Good
<1> SUFFICES ASSUME ContentsInv, Switch PROVE Good
  OBVIOUS
<1>1. CASE MatchJumpOp \/ ReturnOp \/ ActOp
  BY <1>1, ErrorStep, StillStep
  DEF MatchJumpOp, ReturnOp, ActOp, stacks, history, Scanning
<1>2. CASE CondFailOp \/ CompleteOp
  BY <1>2, ErrorStep, LeaveStep, SkipOpStep DEF CondFailOp, CompleteOp
<1> QED BY <1>1, <1>2, MatchOpStep, EndOpStep DEF Switch

----------------------------------------------------------------------------
(* The search moves its own cursor, forward, and the element it finds the  *)
(* end of is consumed.                                                     *)
LEMMA ScanGoesStep ==
    ASSUME ContentsInv, at \in Scanning, NEW label \in Scanning, NEW s,
           s.dp \in Nat, s.dp >= scan.dp, ScanGoes(label, s)
    PROVE  Good
<1>1. AtContents'
  BY DEF ContentsInv, TypeInv, TypeOK, AtContents, Scanning, ScanGoes, element
<1>2. UNCHANGED Elements!vars
  BY DEF ScanGoes, stacks, history, Elements!vars
<1>3. dp' >= dp
  BY DEF ScanGoes, ContentsInv, TypeInv, TypeOK
<1> QED BY <1>1, <1>2, <1>3 DEF Good, Walk

(* The search consumes the element of indefinite length it began with.     *)
LEMMA ScanStep == ContentsInv /\ FindIndefiniteLength => Good
<1> SUFFICES ASSUME ContentsInv, FindIndefiniteLength PROVE Good
  OBVIOUS
<1>a. IsCall(job) /\ scan \in ScanFields /\ dp \in Nat
  BY DEF ContentsInv, TypeInv, TypeOK, ScanFields
<1>b. scan.dp \in Nat /\ scan.len \in Nat
  BY <1>a DEF ScanFields
<1>c. Read(scan.dp) \subseteq Byte /\ Byte \subseteq Nat
  BY <1>a, <1>b, ReadByte DEF Byte
<1>d. ASSUME NEW k \in Nat
      PROVE  scan.dp + k \in Nat /\ scan.dp + k >= scan.dp
  BY <1>b
<1>1. CASE Error
  BY <1>1, ErrorStep
<1>2. CASE ScanTag
  <2>1. PICK t \in Read(scan.dp) :
          /\ at = "next_tag"
          /\ ScanGoes(IF LongTag(t) THEN "tag_octet" ELSE "length",
                      [scan EXCEPT !.dp = scan.dp + 1, !.tag = t])
    BY <1>2 DEF ScanTag
  <2>2. [scan EXCEPT !.dp = scan.dp + 1, !.tag = t].dp = scan.dp + 1
    BY <1>a DEF ScanFields
  <2> QED BY <1>d, <2>1, <2>2, ScanGoesStep DEF Scanning
<1>3. CASE ScanTagOctet
  <2>1. PICK b \in Read(scan.dp) :
          /\ at = "tag_octet"
          /\ ScanGoes(IF b >= 128 THEN "tag_octet" ELSE "length", [scan EXCEPT !.dp = scan.dp + 1])
    BY <1>3 DEF ScanTagOctet
  <2>2. [scan EXCEPT !.dp = scan.dp + 1].dp = scan.dp + 1
    BY <1>a DEF ScanFields
  <2> QED BY <1>d, <2>1, <2>2, ScanGoesStep DEF Scanning
<1>4. CASE ScanEoc /\ ~Error
  <2>0. at = "next_tag" /\ tdp = dp /\ dp <= scan.dp
    BY <1>4 DEF ScanEoc, ContentsInv, AtContents, Scanning
  <2>1. CASE ScanGoes("next_tag", [scan EXCEPT !.dp = scan.dp + 2, !.level = scan.level - 1])
    <3>1. [scan EXCEPT !.dp = scan.dp + 2, !.level = scan.level - 1].dp = scan.dp + 2
      BY <1>a DEF ScanFields
    <3> QED BY <1>d, <2>0, <2>1, <3>1, ScanGoesStep DEF Scanning
  <2>2. CASE /\ dp' = scan.dp + 2 /\ at' = "next_op"
             /\ extents' = extents \cup {[first |-> tdp, past |-> scan.dp + 2]}
             /\ UNCHANGED <<csp, cons>>
    <3>1. AtContents'
      BY <2>2 DEF AtContents, Scanning
    <3>2. dp' \in Nat /\ dp' >= dp
      BY <1>a, <1>b, <2>0, <2>2
    <3>3. Elements!Consume
      BY <2>0, <2>2, <3>2 DEF Elements!Consume, Elements!Forward
    <3> QED BY <3>1, <3>2, <3>3 DEF Good, Walk, Elements!Next
  <2> QED BY <1>4, <2>1, <2>2 DEF ScanEoc, stacks
<1>5. CASE ScanLength /\ ~Error
  <2>1. PICK b \in Read(scan.dp) :
          /\ at = "length"
          /\ \/ ScanGoes("next_tag", [scan EXCEPT !.dp = scan.dp + 1 + b])
             \/ ScanGoes("next_tag", [scan EXCEPT !.dp = scan.dp + 1, !.level = scan.level + 1])
             \/ ScanGoes("length_octet", [scan EXCEPT !.dp = scan.dp + 1, !.n = b - 128, !.len = 0])
    BY <1>5 DEF ScanLength
  <2>2. /\ [scan EXCEPT !.dp = scan.dp + 1 + b].dp = scan.dp + 1 + b
        /\ [scan EXCEPT !.dp = scan.dp + 1, !.level = scan.level + 1].dp = scan.dp + 1
        /\ [scan EXCEPT !.dp = scan.dp + 1, !.n = b - 128, !.len = 0].dp = scan.dp + 1
    BY <1>a DEF ScanFields
  <2>3. b \in Nat
    BY <1>c, <2>1, Zenon
  <2>4. scan.dp + 1 + b \in Nat /\ scan.dp + 1 + b >= scan.dp
    BY <1>b, <2>3
  <2>5. "next_tag" \in Scanning /\ "length_octet" \in Scanning
    BY DEF Scanning
  <2>6. at \in Scanning
    BY <2>1 DEF Scanning
  <2>7. ASSUME NEW label \in Scanning, NEW s,
               s.dp = scan.dp + 1 \/ s.dp = scan.dp + 1 + b, ScanGoes(label, s)
        PROVE  Good
    <3>1. s.dp \in Nat /\ s.dp >= scan.dp
      BY <1>b, <2>4, <2>7
    <3> QED BY <2>6, <2>7, <3>1, ScanGoesStep
  <2> QED BY <2>1, <2>2, <2>5, <2>7, Zenon
<1>6. CASE ScanLengthOctet
  <2>1. PICK b \in Read(scan.dp) :
          /\ at = "length_octet"
          /\ \/ ScanGoes("length_octet",
                   [scan EXCEPT !.dp = scan.dp + 1, !.n = scan.n - 1, !.len = Shifted(scan.len, b)])
             \/ ScanGoes("next_tag",
                   [scan EXCEPT !.dp = scan.dp + 1 + Shifted(scan.len, b), !.n = 0, !.len = 0])
    BY <1>6 DEF ScanLengthOctet
  <2>2. Shifted(scan.len, b) \in Nat
    BY <1>b, <1>c, <2>1, ShiftedNat
  <2>3. /\ scan.dp + 1 + Shifted(scan.len, b) \in Nat
        /\ scan.dp + 1 + Shifted(scan.len, b) >= scan.dp
    BY <1>b, <2>2
  <2>4. /\ [scan EXCEPT !.dp = scan.dp + 1, !.n = scan.n - 1,
                        !.len = Shifted(scan.len, b)].dp = scan.dp + 1
        /\ [scan EXCEPT !.dp = scan.dp + 1 + Shifted(scan.len, b), !.n = 0, !.len = 0].dp
             = scan.dp + 1 + Shifted(scan.len, b)
    BY <1>a DEF ScanFields
  <2> QED BY <1>d, <2>1, <2>3, <2>4, ScanGoesStep DEF Scanning
<1>7. CASE PageFault
  BY <1>7, StillStep DEF PageFault, stacks, history, Scanning
<1> QED BY <1>1, <1>2, <1>3, <1>4, <1>5, <1>6, <1>7 DEF FindIndefiniteLength, ScanOverrun

----------------------------------------------------------------------------
(* The ways in which the end in force and the cons stacks change.          *)
Kept == UNCHANGED <<datalen, csp, cons>>
Opens == /\ csp < NR_CONS_STACK /\ csp' = csp + 1
         /\ datalen' \in Nat
         /\ \E f \in [dp : Nat, datalen : Nat, hdr : Nat] :
              /\ cons' = [cons EXCEPT ![csp] = f]
              /\ \/ f.datalen = 0 /\ datalen' = datalen
                 \/ /\ f.datalen = UShort(datalen) /\ datalen > 0
                    /\ datalen' <= datalen + 127
Closes == /\ csp > 0 /\ csp' = csp - 1
          /\ datalen' = (IF IndefiniteTop THEN datalen ELSE Top.datalen)
          /\ UNCHANGED cons

Frames == UNCHANGED job /\ (Kept \/ Opens \/ Closes)

LEMMA LeaveFrames == ASSUME NEW r, Leave(r) PROVE Frames
BY DEF Leave, Frames, Kept, stacks

LEMMA ErrorFrames == ASSUME Error PROVE Frames
BY LeaveFrames DEF Error

LEMMA SkipOpFrames == ASSUME SkipOp PROVE Frames
BY DEF SkipOp, Frames, Kept, stacks

LEMMA EnterFrames ==
    ASSUME ContentsInv, NEW t, NEW l \in Nat, NEW h \in Nat, NEW d \in Nat,
           d + l <= datalen + 127, datalen > 0,
           NEW indefinite \in BOOLEAN, Enter(t, l, h, d, indefinite)
    PROVE  Frames
<1> DEFINE descend == Machine(pc) \notin AnyTag /\ Constructed(Machine(pc + 1))
<1>1. CASE descend /\ ConsFull
  BY <1>1, ErrorFrames DEF Enter
<1>2. CASE descend /\ ~ConsFull
  <2> DEFINE frame == [dp |-> UShort(d), hdr |-> h,
                       datalen |-> IF indefinite THEN 0 ELSE UShort(datalen)]
  <2>1. /\ UNCHANGED job /\ csp' = csp + 1 /\ cons' = [cons EXCEPT ![csp] = frame]
        /\ datalen' = IF indefinite THEN datalen ELSE d + l
    BY <1>2 DEF Enter
  <2>2. csp < NR_CONS_STACK /\ datalen \in Nat
    BY <1>2, LimitsAssumption DEF ConsFull, ContentsInv, TypeInv, TypeOK
  <2>3. frame \in [dp : Nat, datalen : Nat, hdr : Nat]
    BY <2>2 DEF UShort
  <2>4. frame.datalen = IF indefinite THEN 0 ELSE UShort(datalen)
    OBVIOUS
  <2> HIDE DEF frame
  <2>5. \/ frame.datalen = 0 /\ datalen' = datalen
        \/ /\ frame.datalen = UShort(datalen) /\ datalen > 0
           /\ datalen' <= datalen + 127
    BY <2>1, <2>4
  <2>6. datalen' \in Nat
    BY <2>1, <2>2
  <2> QED
    BY <2>1, <2>2, <2>3, <2>5, <2>6 DEF Frames, Opens
<1>3. CASE ~descend
  BY <1>3 DEF Enter, Frames, Kept
<1> QED BY <1>1, <1>2, <1>3

LEMMA NextOpFrames == ContentsInv /\ NextOp => Frames
<1> SUFFICES ASSUME ContentsInv, NextOp PROVE Frames
  OBVIOUS
<1>a. /\ IsCall(job) /\ dp \in Nat /\ dp + 1 \in Nat /\ dp + 2 \in Nat /\ dp + 3 \in Nat
      /\ datalen \in Nat
  BY DEF ContentsInv, TypeInv, TypeOK
<1>b. /\ Read(dp) \subseteq Nat /\ Read(dp + 1) \subseteq Nat
      /\ Read(dp + 2) \subseteq Nat /\ Read(dp + 3) \subseteq Nat
  <2>1. \A d \in Nat : Read(d) \subseteq Nat
    BY <1>a, ReadByte DEF Byte
  <2> QED BY <1>a, <2>1, Zenon
<1>c. ASSUME NEW t, TagTaken(t) PROVE dp + 2 <= datalen /\ datalen > 0
  BY <1>c, <1>a DEF TagTaken, TagRead
<1>1. CASE Error
  BY <1>1, ErrorFrames
<1>2. CASE SkipOp
  BY <1>2, SkipOpFrames
<1>3. CASE MatchShort
  <2>1. PICK t \in Read(dp), l \in Read(dp + 1) :
          TagTaken(t) /\ l < 128 /\ Enter(t, l, 2, dp + 2, FALSE)
    BY <1>3 DEF MatchShort
  <2>2. l \in Nat /\ 2 \in Nat /\ dp + 2 + l <= datalen + 127 /\ datalen > 0
    BY <1>a, <1>b, <1>c, <2>1
  <2> QED BY <1>a, <2>1, <2>2, EnterFrames
<1>4. CASE MatchIndefinite /\ ~Error
  <2>1. PICK t \in Read(dp) :
          TagTaken(t) /\ datalen - (dp + 2) >= 2 /\ Enter(t, 128, 2, dp + 2, TRUE)
    BY <1>4 DEF MatchIndefinite
  <2>2. 128 \in Nat /\ 2 \in Nat /\ datalen > 0 /\ dp + 2 + 128 <= datalen + 127
    BY <1>a, <2>1
  <2> QED BY <1>a, <2>1, <2>2, EnterFrames
<1>5. CASE MatchLong /\ ~Error
  <2>1. PICK t \in Read(dp), b \in Read(dp + 1) :
          /\ TagTaken(t) /\ b > 128
          /\ IF b - 128 > 2 \/ dp + 2 >= datalen - (b - 128)
             THEN Error
             ELSE \E l \in LengthOctets(dp + 2, b - 128) :
                    IF TooLong(l, dp + 2 + (b - 128))
                    THEN Error
                    ELSE Enter(t, l, 2 + (b - 128), dp + 2 + (b - 128), FALSE)
    BY <1>5, Zenon DEF MatchLong
  <2>2. PICK l \in LengthOctets(dp + 2, b - 128) :
          /\ ~TooLong(l, dp + 2 + (b - 128))
          /\ Enter(t, l, 2 + (b - 128), dp + 2 + (b - 128), FALSE)
    BY <1>5, <2>1, Zenon
  <2>3. LengthOctets(dp + 2, b - 128) \subseteq Nat
    BY <1>a, <1>b DEF LengthOctets
  <2>4. 2 + (b - 128) \in Nat /\ dp + 2 + (b - 128) \in Nat
    BY <1>a, <1>b, <2>1, SMT
  <2>5. dp + 2 + (b - 128) + l <= datalen + 127 /\ datalen > 0
    BY <1>a, <1>c, <2>1, <2>2, <2>3, <2>4, SMT DEF TooLong
  <2> QED BY <1>b, <2>2, <2>3, <2>4, <2>5, EnterFrames
<1> QED
  BY <1>1, <1>2, <1>3, <1>4, <1>5
  DEF NextOp, MachineOverrun, SkipMatch, TagOverrun, TagRejected, OptionalAbsent

LEMMA SwitchFrames == Switch => Frames
<1>1. MatchOp \/ MatchActOp \/ MatchJumpOp \/ ActOp \/ ReturnOp => Frames
  BY ErrorFrames
  DEF MatchOp, MatchActOp, MatchJumpOp, ActOp, ReturnOp, Frames, Kept, stacks
<1>2. CondFailOp \/ CompleteOp \/ EndRefused => Frames
  BY ErrorFrames, LeaveFrames, SkipOpFrames DEF CondFailOp, CompleteOp, EndRefused
<1>3. LoopBack => Frames
  BY DEF LoopBack, Frames, Kept, stacks
<1>4. ASSUME csp > 0, NEW limit, NEW past, NEW outer, Close(limit, past, outer),
             outer = IF IndefiniteTop THEN datalen ELSE Top.datalen
      PROVE  Frames
  BY <1>4 DEF Close, Frames, Closes
<1>5. EndDefinite => Frames
  BY <1>3, <1>4, ErrorFrames DEF EndDefinite, EndFetched
<1>6. EndIndefinite => Frames
  BY <1>3, <1>4, ErrorFrames DEF EndIndefinite, EndFetched
<1> QED
  BY <1>1, <1>2, <1>5, <1>6 DEF Switch

LEMMA ScanFrames == FindIndefiniteLength => Frames
<1>1. ASSUME NEW label, NEW s, ScanGoes(label, s) PROVE Frames
  BY <1>1 DEF ScanGoes, Frames, Kept, stacks
<1>2. PageFault \/ ScanOverrun => Frames
  BY ErrorFrames DEF PageFault, ScanOverrun, Frames, Kept, stacks
<1>3. ScanTag => Frames
  <2>1. ScanTag => \E label, s : ScanGoes(label, s)
    BY DEF ScanTag
  <2> QED BY <1>1, <2>1
<1>4. ScanTagOctet \/ ScanLengthOctet => Frames
  BY <1>1 DEF ScanTagOctet, ScanLengthOctet
<1>5. ScanEoc => Frames
  BY <1>1, ErrorFrames DEF ScanEoc, Frames, Kept, stacks
<1>6. ScanLength => Frames
  BY <1>1, ErrorFrames DEF ScanLength
<1> QED
  BY <1>2, <1>3, <1>4, <1>5, <1>6 DEF FindIndefiniteLength

(* Each of these ways leaves every end within reach.                       *)
LEMMA FramesKeepReach == ContentsInv /\ Frames => Within16Bits'
<1> SUFFICES ASSUME ContentsInv, Frames, Fit(Len(job.data)) PROVE Reaching'
  BY DEF Within16Bits, Frames
<1>1. /\ job' = job /\ csp \in 0 .. NR_CONS_STACK /\ datalen \in Nat /\ Len(job.data) \in Nat
      /\ cons \in [0 .. NR_CONS_STACK - 1 -> [dp : Nat, datalen : Nat, hdr : Nat]]
      /\ NR_CONS_STACK \in Nat
  BY LimitsAssumption DEF Frames, ContentsInv, TypeInv, TypeOK, IsCall
<1> DEFINE size == Len(job.data)
<1>2. Reaching
  BY DEF ContentsInv, Within16Bits
<1>3. Reaching' <=> /\ EndsBy(size, cons', csp', datalen')
                    /\ \A k \in 0 .. csp' - 1 :
                         cons'[k].datalen # 0 => EndsBy(size, cons', k, cons'[k].datalen)
  BY <1>1 DEF Reaching, EndsBy, Reach
<1>4. \A i \in Nat : Reach(size, i) \in Nat /\ Reach(size, i + 1) = Reach(size, i) + 127
  BY <1>1, ReachNat
<1>a. /\ EndsBy(size, cons, csp, datalen)
      /\ \A k \in 0 .. csp - 1 :
           cons[k].datalen # 0 => EndsBy(size, cons, k, cons[k].datalen)
  BY <1>2 DEF Reaching
<1> SUFFICES /\ EndsBy(size, cons', csp', datalen')
             /\ \A k \in 0 .. csp' - 1 :
                  cons'[k].datalen # 0 => EndsBy(size, cons', k, cons'[k].datalen)
  BY <1>3
<1>b. size \in Nat
  BY <1>1
<1>c. datalen <= Reach(size, csp) /\ UShort(datalen) = datalen
  BY <1>1, EndFits
<1> HIDE DEF size
<1>5. CASE Kept
  BY <1>a, <1>5 DEF Kept
<1>6. CASE Opens
  <2>1. PICK f \in [dp : Nat, datalen : Nat, hdr : Nat] :
          /\ cons' = [cons EXCEPT ![csp] = f]
          /\ \/ f.datalen = 0 /\ datalen' = datalen
             \/ /\ f.datalen = UShort(datalen) /\ datalen > 0
                /\ datalen' <= datalen + 127
    BY <1>6 DEF Opens
  <2>2. csp < NR_CONS_STACK /\ csp' = csp + 1 /\ datalen' \in Nat
    BY <1>6 DEF Opens
  <2>3. cons'[csp] = f /\ \A k \in 0 .. csp - 1 : cons'[k] = cons[k]
    BY <1>1, <2>1, <2>2
  <2>4. ASSUME NEW k \in 0 .. csp, NEW e, EndsBy(size, cons, k, e)
        PROVE  EndsBy(size, cons', k, e)
    <3> SUFFICES ASSUME NEW i \in 0 .. k,
                        \A q \in i .. k - 1 : cons'[q].datalen = 0
                 PROVE  e <= Reach(size, i)
      BY DEF EndsBy
    <3>1. ASSUME NEW q \in i .. k - 1 PROVE cons[q].datalen = 0
      <4>1. q \in 0 .. csp - 1
        BY <1>1
      <4> QED BY <2>3, <4>1
    <3> QED BY <2>4, <3>1 DEF EndsBy
  <2>7. EndsBy(size, cons', csp + 1, datalen')
    <3>0. csp \in Nat
      BY <1>1
    <3>4. (csp + 1) - 1 = csp
      BY <3>0
    <3> SUFFICES ASSUME NEW i \in 0 .. csp + 1,
                        \A q \in i .. csp : cons'[q].datalen = 0
                 PROVE  datalen' <= Reach(size, i)
      BY <3>4, Zenon DEF EndsBy
    <3>1. Reach(size, csp) \in Nat /\ Reach(size, csp + 1) = Reach(size, csp) + 127
      BY <1>4, <3>0
    <3>2. CASE i = csp + 1
      <4>1. datalen' <= datalen + 127
        BY <1>1, <2>1
      <4> QED BY <1>1, <1>c, <2>2, <3>1, <3>2, <4>1
    <3>3. CASE i # csp + 1
      <4>1. i \in 0 .. csp /\ csp \in i .. csp
        BY <1>1, <3>3
      <4>2. f.datalen = 0
        BY <2>3, <4>1
      <4>3. datalen' = datalen
        BY <1>1, <1>c, <2>1, <4>2
      <4>4. ASSUME NEW q \in i .. csp - 1 PROVE cons[q].datalen = 0
        <5>1. q \in 0 .. csp - 1 /\ q \in i .. csp
          BY <1>1, <4>1
        <5> QED BY <2>3, <5>1
      <4> QED BY <1>a, <4>1, <4>3, <4>4 DEF EndsBy
    <3> QED BY <3>2, <3>3
  <2>8. ASSUME NEW k \in 0 .. csp, cons'[k].datalen # 0
        PROVE  EndsBy(size, cons', k, cons'[k].datalen)
    <3>1. CASE k = csp
      <4>1. cons'[k].datalen = datalen
        BY <1>c, <2>1, <2>3, <2>8, <3>1
      <4> QED BY <1>1, <1>a, <2>4, <3>1, <4>1
    <3>2. CASE k # csp
      <4>1. k \in 0 .. csp - 1 /\ cons'[k] = cons[k]
        BY <1>1, <2>3, <3>2
      <4> QED BY <1>a, <2>4, <2>8, <4>1
    <3> QED BY <3>1, <3>2
  <2> QED
    BY <1>1, <2>2, <2>7, <2>8
<1>7. CASE Closes
  <2>1. csp > 0 /\ csp' = csp - 1 /\ cons' = cons
    BY <1>7 DEF Closes
  <2>4. EndsBy(size, cons, csp - 1, datalen')
    <3>1. CASE IndefiniteTop
      <4>1. datalen' = datalen /\ cons[csp - 1].datalen = 0
        BY <1>7, <3>1 DEF Closes, IndefiniteTop, Top
      <4> SUFFICES ASSUME NEW i \in 0 .. csp - 1,
                          \A q \in i .. csp - 1 - 1 : cons[q].datalen = 0
                   PROVE  datalen <= Reach(size, i)
        BY <4>1 DEF EndsBy
      <4>2. i \in 0 .. csp /\ \A q \in i .. csp - 1 : q = csp - 1 \/ q \in i .. csp - 1 - 1
        BY <1>1, <2>1
      <4>3. \A q \in i .. csp - 1 : cons[q].datalen = 0
        BY <4>1, <4>2
      <4> QED BY <1>a, <4>2, <4>3 DEF EndsBy
    <3>2. CASE ~IndefiniteTop
      <4>1. datalen' = cons[csp - 1].datalen /\ cons[csp - 1].datalen # 0
        BY <1>7, <3>2 DEF Closes, IndefiniteTop, Top
      <4> QED BY <1>1, <1>a, <2>1, <4>1
    <3> QED BY <3>1, <3>2
  <2> QED
    BY <1>1, <1>a, <2>1, <2>4
<1> QED
  BY <1>5, <1>6, <1>7 DEF Frames

LEMMA StepFrames == ContentsInv /\ [Next]_vars => Frames
<1>1. Entry => Frames
  BY LeaveFrames DEF Entry, Frames, Kept, stacks
<1>2. UNCHANGED vars => Frames
  BY DEF vars, Frames, Kept, stacks
<1> QED
  BY <1>1, <1>2, NextOpFrames, SwitchFrames, ScanFrames DEF Next

----------------------------------------------------------------------------
(* The first state of a call is one of the walk.                           *)
LEMMA BegunContents == IsCall(job) /\ Begun => ContentsInv /\ Elements!Init
<1> SUFFICES ASSUME IsCall(job), Begun PROVE ContentsInv /\ Elements!Init
  OBVIOUS
<1>1. IsCall(job) /\ Len(job.data) \in Nat
  BY DEF IsCall
<1>2. TypeOK
  BY <1>1, LimitsAssumption DEF Begun, TypeOK, Label, Result
<1>3. InInstruction /\ AtContents
  BY DEF Begun, InInstruction, AtContents, Scanning
<1>4. Elements!Init
  BY LimitsAssumption DEF Begun, Elements!Init
<1>5. Within16Bits
  BY <1>1 DEF Begun, Within16Bits, Reaching, EndsBy, Reach
<1> QED BY <1>2, <1>3, <1>4, <1>5 DEF ContentsInv, TypeInv

LEMMA InitContents == Init => ContentsInv /\ Elements!Init
BY JobsAssumption, BegunContents DEF Init

(* Every step keeps the types, moves the cursor forward, and is a step of  *)
(* the walk while the offsets fit in their slots.                          *)
LEMMA StepContents ==
    ContentsInv /\ [Next]_vars => ContentsInv' /\ dp' >= dp /\ (Fit(Len(job.data)) => Walk)
<1> SUFFICES ASSUME ContentsInv, [Next]_vars PROVE TypeInv' /\ Good
  BY StepFrames, FramesKeepReach DEF ContentsInv, Good
<1>1. CASE Entry
  <2>1. CASE Leave("EMSGSIZE")
    BY <2>1, LeaveType, LeaveStep DEF ContentsInv, Result
  <2>2. CASE ~Leave("EMSGSIZE")
    <3>1. /\ at' = "next_op"
          /\ UNCHANGED <<job, pc, dp, datalen, element, stacks, scan, ret, history>>
      BY <1>1, <2>2 DEF Entry
    <3>2. TypeOK' /\ InInstruction'
      BY <3>1 DEF ContentsInv, TypeInv, TypeOK, InInstruction, element, stacks, history,
                  Label, Scanning
    <3>3. Good
      BY <3>1, StillStep DEF stacks, history, Scanning
    <3> QED BY <3>2, <3>3 DEF TypeInv
  <2> QED BY <2>1, <2>2
<1>2. CASE NextOp
  BY <1>2, NextOpType, NextOpStep DEF ContentsInv
<1>3. CASE Switch
  BY <1>3, MatchOpType, MatchJumpOpType, PlainOpType, EndOpType, SwitchStep
  DEF ContentsInv, Switch
<1>4. CASE FindIndefiniteLength
  BY <1>4, ScanType, ScanStep DEF ContentsInv
<1>5. CASE UNCHANGED vars
  <2>1. UNCHANGED Elements!vars
    BY <1>5 DEF vars, stacks, history, Elements!vars
  <2>2. TypeInv' /\ AtContents' /\ dp' >= dp
    BY <1>5 DEF vars, element, stacks, history, ContentsInv, TypeInv, TypeOK,
                InInstruction, AtContents, Fits, Machine, MachLen
  <2> QED BY <2>1, <2>2 DEF Good, Walk
<1> QED BY <1>1, <1>2, <1>3, <1>4, <1>5 DEF Next

(* The types hold: the two stacks of asn1_ber_decoder are never indexed    *)
(* outside their slots, for any bytecode and any data.                     *)
THEOREM TypeCorrect == Spec => []TypeOK
<1>1. ContentsInv => TypeOK
  BY DEF ContentsInv, TypeInv
<1> QED BY InitContents, StepContents, <1>1, PTL DEF Spec

(* The data of every job is shorter than 65536 by 127 for each element     *)
(* that can be open.                                                       *)
DataFits == \A j \in Jobs : Fit(Len(j.data))

(* The decoder implements the walk over elements, of data whose offsets    *)
(* fit in the unsigned short slots of its stacks.                          *)
THEOREM Implementation == ASSUME DataFits PROVE Spec => WalksElements
<1>1. Init => ContentsInv /\ Elements!Init /\ Fit(Len(job.data))
  BY InitContents DEF Init, DataFits
<1>2. ContentsInv /\ Fit(Len(job.data)) /\ [Next]_vars
        => ContentsInv' /\ Fit(Len(job.data))' /\ [Elements!Next]_(Elements!vars)
  BY StepContents, StepFrames DEF Walk, Frames
<1> QED BY <1>1, <1>2, PTL DEF Spec, WalksElements, Elements!Spec

(* The parse cursor of the decoder never moves back.                       *)
THEOREM NeverBack == Spec => CursorMonotone
<1>1. ContentsInv /\ [Next]_vars => [dp' >= dp]_vars
  BY StepContents
<1> QED BY InitContents, StepContents, <1>1, PTL DEF Spec, CursorMonotone

WalkProofs == INSTANCE NestingProofs WITH
    MaxDepth <- NR_CONS_STACK, Offsets <- Nat,
    cursor <- dp, depth <- csp, consumed <- extents,
    open <- [i \in 0 .. NR_CONS_STACK - 1 |-> cons[i].dp]

(* What the decoder has consumed is properly nested, because what a walk   *)
(* over elements has consumed is; of data whose offsets fit, again.        *)
THEOREM ProperNesting == ASSUME DataFits PROVE Spec => []Nested
<1>1. WalkProofs!Bounds
  BY LimitsAssumption DEF WalkProofs!Bounds
<1>2. WalkProofs!Spec => []WalkProofs!Nested
  BY <1>1, WalkProofs!AlwaysNested
<1>3. Elements!Init => WalkProofs!Init
  BY DEF Elements!Init, WalkProofs!Init
<1>4. [Elements!Next]_(Elements!vars) => [WalkProofs!Next]_(WalkProofs!vars)
  BY DEF Elements!Next, WalkProofs!Next, Elements!vars, WalkProofs!vars,
         Elements!Header, WalkProofs!Header, Elements!Descend, WalkProofs!Descend,
         Elements!Consume, WalkProofs!Consume, Elements!Close, WalkProofs!Close,
         Elements!Forward, WalkProofs!Forward
<1>5. WalkProofs!Nested => Nested
  BY DEF WalkProofs!Nested, WalkProofs!Apart, WalkProofs!Within,
         Nested, Elements!Nested, Elements!Apart, Elements!Within
<1> QED
  BY Implementation, <1>2, <1>3, <1>4, <1>5, PTL
  DEF WalksElements, Elements!Spec, WalkProofs!Spec

----------------------------------------------------------------------------
(* In bytecode that is laid out as asn1_compiler does, control stays at    *)
(* instructions; so does every place that the jump stack will lead back to.*)
AtStart(place) == place \in Instructions(job.machine)

LayoutInv ==
    Addressable(job.machine) =>
       /\ AtStart(pc)
       /\ \A q \in 0 .. jsp - 1 : AtStart(jump[q])

(* The five ways in which pc and the jump stack move.                      *)
Stays == UNCHANGED <<pc, jsp, jump>>
Steps == /\ Machine(pc) \notin {COMPLETE, RETURN}
         /\ pc' = pc + OpLength(Machine(pc))
         /\ UNCHANGED <<jsp, jump>>
Loops == Machine(pc) \in EndOf /\ pc' = Machine(pc + 1) /\ UNCHANGED <<jsp, jump>>
Jumps == /\ Machine(pc) \in MatchJump
         /\ pc' = Machine(pc + 2)
         /\ jump' = [jump EXCEPT ![jsp] = UChar(ReturnAddress)]
         /\ jsp' = jsp + 1 /\ jsp < NR_JUMP_STACK
Returns == jsp > 0 /\ jsp' = jsp - 1 /\ pc' = jump[jsp - 1] /\ UNCHANGED jump

Moves == UNCHANGED job /\ (Stays \/ Steps \/ Loops \/ Jumps \/ Returns)

LEMMA LeaveMoves == ASSUME NEW r, Leave(r) PROVE Moves
BY DEF Leave, Moves, Stays, stacks

LEMMA ErrorMoves == ASSUME Error PROVE Moves
BY LeaveMoves DEF Error

LEMMA SkipOpMoves ==
    ASSUME SkipOp, Machine(pc) \notin {COMPLETE, RETURN}
    PROVE  Moves
BY DEF SkipOp, Moves, Steps, stacks

LEMMA EnterMoves ==
    ASSUME NEW t, NEW l, NEW h, NEW d, NEW indefinite, Enter(t, l, h, d, indefinite)
    PROVE  Moves
BY ErrorMoves DEF Enter, Moves, Stays

(* No opcode that wants a tag ends a subroutine or the machine, nor does   *)
(* an END.                                                                 *)
LEMMA MatchGoesOn ==
    ASSUME Machine(pc) \in Matches \cup End \cup {COND_FAIL, ACT}
    PROVE  Machine(pc) \notin {COMPLETE, RETURN}
BY DEF Matches, Plain, MatchAct, MatchJump, MatchAny, MatchAnyAct, End, COND_FAIL, ACT,
       COMPLETE, RETURN

LEMMA NextOpMoves == NextOp => Moves
<1>1. MachineOverrun \/ TagOverrun \/ TagRejected => Moves
  BY ErrorMoves DEF MachineOverrun, TagOverrun, TagRejected
<1>2. SkipMatch \/ OptionalAbsent => Moves
  <2>1. SkipMatch \/ OptionalAbsent => SkipOp /\ Machine(pc) \in Matches
    BY DEF SkipMatch, OptionalAbsent, TagRead, Fetched
  <2> QED
    BY <2>1, MatchGoesOn, SkipOpMoves
<1>3. MatchShort => Moves
  BY EnterMoves DEF MatchShort
<1>4. MatchIndefinite => Moves
  BY EnterMoves, ErrorMoves DEF MatchIndefinite
<1>5. MatchLong => Moves
  BY EnterMoves, ErrorMoves, Zenon DEF MatchLong
<1> QED
  BY <1>1, <1>2, <1>3, <1>4, <1>5 DEF NextOp

LEMMA SwitchMoves == TypeInv /\ Switch => Moves
<1> SUFFICES ASSUME TypeInv, Switch PROVE Moves
  OBVIOUS
<1>1. CASE MatchOp \/ MatchActOp
  <2>1. Machine(pc) \in Matches
    BY <1>1 DEF MatchOp, MatchActOp, Matched, Matches
  <2>2. UNCHANGED <<job, jsp, jump>> /\ (pc' = pc \/ pc' = pc + OpLength(Machine(pc)))
    BY <1>1 DEF MatchOp, MatchActOp, SkipData, stacks
  <2> QED
    BY <2>1, <2>2, MatchGoesOn DEF Moves, Stays, Steps
<1>2. CASE MatchJumpOp
  <2>1. CASE jsp = NR_JUMP_STACK
    BY <1>2, <2>1, ErrorMoves DEF MatchJumpOp
  <2>2. CASE jsp # NR_JUMP_STACK
    <3>1. jsp < NR_JUMP_STACK
      BY <2>2, LimitsAssumption DEF TypeInv, TypeOK
    <3> QED
      BY <1>2, <2>2, <3>1 DEF MatchJumpOp, Matched, Moves, Jumps
  <2> QED
    BY <2>1, <2>2
<1>3. CASE CondFailOp
  <2>1. Machine(pc) \in {COND_FAIL}
    BY <1>3 DEF CondFailOp, Fetched
  <2> QED
    BY <1>3, <2>1, MatchGoesOn, SkipOpMoves, ErrorMoves DEF CondFailOp
<1>4. CASE CompleteOp
  BY <1>4, LeaveMoves DEF CompleteOp
<1>5. CASE ActOp
  <2>1. Machine(pc) = ACT /\ UNCHANGED <<job, jsp, jump>> /\ pc' = pc + OpLength(Machine(pc))
    BY <1>5 DEF ActOp, Fetched, stacks
  <2> QED
    BY <2>1, MatchGoesOn DEF Moves, Steps
<1>6. CASE ReturnOp
  <2>1. CASE jsp = 0
    BY <1>6, <2>1, ErrorMoves DEF ReturnOp
  <2>2. CASE jsp # 0
    <3>1. jsp > 0
      BY <2>2, LimitsAssumption DEF TypeInv, TypeOK
    <3> QED
      BY <1>6, <2>2, <3>1 DEF ReturnOp, Moves, Returns
  <2> QED
    BY <2>1, <2>2
<1>7. CASE EndRefused
  BY <1>7, ErrorMoves DEF EndRefused
<1>8. CASE EndDefinite \/ EndIndefinite
  <2>1. Machine(pc) \in End
    BY <1>8 DEF EndDefinite, EndIndefinite, EndFetched, Fetched
  <2>2. ASSUME NEW limit, NEW past, NEW outer, Close(limit, past, outer) PROVE Moves
    BY <2>1, <2>2, MatchGoesOn DEF Close, Moves, Steps
  <2>3. ASSUME LoopBack, Machine(pc) \in EndOf PROVE Moves
    BY <2>3 DEF LoopBack, Moves, Loops, stacks
  <2>4. EndDefinite => Moves
    BY <2>2, <2>3, ErrorMoves DEF EndDefinite, AnotherMember
  <2>5. EndIndefinite => Moves
    BY <2>2, <2>3, ErrorMoves DEF EndIndefinite
  <2> QED
    BY <1>8, <2>4, <2>5
<1> QED
  BY <1>1, <1>2, <1>3, <1>4, <1>5, <1>6, <1>7, <1>8 DEF Switch

LEMMA ScanMoves == TypeInv /\ FindIndefiniteLength => Moves
<1> SUFFICES ASSUME TypeInv, FindIndefiniteLength PROVE Moves
  OBVIOUS
<1>1. ASSUME NEW label, NEW s, ScanGoes(label, s) PROVE Moves
  BY <1>1 DEF ScanGoes, Moves, Stays, stacks
<1>0. CASE PageFault
  BY <1>0 DEF PageFault, Moves, Stays, stacks
<1>2. CASE ScanOverrun
  BY <1>2, ErrorMoves DEF ScanOverrun
<1>3. CASE ScanTag
  <2>1. \E label, s : ScanGoes(label, s)
    BY <1>3 DEF ScanTag
  <2> QED
    BY <1>1, <2>1
<1>7. CASE ScanTagOctet
  BY <1>1, <1>7 DEF ScanTagOctet
<1>4. CASE ScanEoc
  <2>1. Machine(pc) \in Matches
    BY <1>4 DEF ScanEoc, TypeInv, InInstruction, Scanning
  <2>2. ASSUME pc' = pc + OpLength(Machine(pc)), UNCHANGED <<job, stacks>> PROVE Moves
    BY <2>1, <2>2, MatchGoesOn DEF Moves, Steps, stacks
  <2> QED
    BY <1>1, <1>4, <2>2, ErrorMoves DEF ScanEoc
<1>5. CASE ScanLength
  BY <1>1, <1>5, ErrorMoves DEF ScanLength
<1>6. CASE ScanLengthOctet
  BY <1>1, <1>6 DEF ScanLengthOctet
<1> QED
  BY <1>0, <1>2, <1>3, <1>4, <1>5, <1>6, <1>7 DEF FindIndefiniteLength

(* Each of these ways leads from an instruction to one.                    *)
LEMMA MovesKeepLayout == TypeInv /\ LayoutInv /\ Moves => LayoutInv'
<1> SUFFICES ASSUME TypeInv, LayoutInv, Moves, Addressable(job.machine)
             PROVE  AtStart(pc)' /\ \A q \in 0 .. jsp' - 1 : AtStart(jump[q])'
  BY DEF LayoutInv, Moves
<1> DEFINE m == job.machine
<1>1. job' = job /\ AtStart(pc) /\ \A q \in 0 .. jsp - 1 : AtStart(jump[q])
  BY DEF LayoutInv, Moves
<1>2. pc \in Nat /\ jsp \in Nat /\ jump \in [0 .. NR_JUMP_STACK - 1 -> Nat]
  BY LimitsAssumption DEF TypeInv, TypeOK
<1>3. \A x : AtStart(x)' <=> AtStart(x)
  BY <1>1 DEF AtStart
<1>4. /\ Machine(pc) \notin {COMPLETE, RETURN} => AtStart(pc + OpLength(Machine(pc)))
      /\ Machine(pc) \in MatchJump => AtStart(Machine(pc + 2))
      /\ Machine(pc) \in EndOf => AtStart(Machine(pc + 1))
  <2>1. pc \in Instructions(m) /\ LaidOut(m)
    BY <1>1 DEF AtStart, Addressable
  <2>2. pc + 2 + 1 = pc + 3 /\ pc + 1 + 1 = pc + 2
    BY <1>2
  <2>3. /\ m[pc + 1] \notin {COMPLETE, RETURN} => pc + OpLength(m[pc + 1]) \in Instructions(m)
        /\ m[pc + 1] \in MatchJump => m[pc + 3] \in Instructions(m)
        /\ m[pc + 1] \in EndOf => m[pc + 2] \in Instructions(m)
    BY <2>1, Zenon DEF LaidOut
  <2> QED
    BY <2>2, <2>3 DEF AtStart, Machine
<1>5. CASE Stays \/ Steps \/ Loops
  <2>1. jsp' = jsp /\ jump' = jump /\ AtStart(pc')
    BY <1>1, <1>4, <1>5 DEF Stays, Steps, Loops
  <2> QED
    BY <1>1, <1>3, <2>1 DEF AtStart
<1>6. CASE Jumps
  <2>1. Machine(pc) \in MatchJump \ {COMPLETE, RETURN} /\ jsp < NR_JUMP_STACK
    BY <1>6, MatchGoesOn DEF Jumps, Matches
  <2>a. AtStart(pc') /\ AtStart(ReturnAddress)
    BY <1>4, <1>6, <2>1 DEF Jumps, ReturnAddress
  <2>b. UChar(ReturnAddress) = ReturnAddress
    <3>1. ReturnAddress < Len(m) /\ Len(m) <= 256
      BY <2>a DEF AtStart, Instructions, Addressable
    <3>2. ReturnAddress \in Nat /\ Len(m) \in Nat
      BY <1>2, OpLengthNat DEF ReturnAddress, TypeInv, TypeOK, IsCall
    <3> QED BY <3>1, <3>2 DEF UChar
  <2>2. AtStart(pc') /\ AtStart(UChar(ReturnAddress))
    BY <2>a, <2>b
  <2>3. jsp \in 0 .. NR_JUMP_STACK - 1 /\ jsp' = jsp + 1
    BY <1>2, <1>6, <2>1, LimitsAssumption DEF Jumps
  <2>4. \A q \in 0 .. jsp' - 1 : AtStart(jump'[q])
    <3> SUFFICES ASSUME NEW q \in 0 .. jsp' - 1 PROVE AtStart(jump'[q])
      OBVIOUS
    <3>1. q \in 0 .. NR_JUMP_STACK - 1 /\ (q = jsp \/ q \in 0 .. jsp - 1)
      BY <1>2, <2>3, LimitsAssumption
    <3>2. jump'[q] = IF q = jsp THEN UChar(ReturnAddress) ELSE jump[q]
      BY <1>2, <1>6, <3>1 DEF Jumps
    <3> QED
      BY <1>1, <2>2, <3>1, <3>2, Zenon
  <2> QED
    BY <1>1, <2>2, <2>4 DEF AtStart
<1>7. CASE Returns
  <2>1. jsp - 1 \in 0 .. jsp - 1 /\ \A q \in 0 .. jsp' - 1 : q \in 0 .. jsp - 1
    BY <1>2, <1>7 DEF Returns
  <2>2. AtStart(pc') /\ jump' = jump
    BY <1>1, <1>7, <2>1 DEF Returns
  <2> QED
    BY <1>1, <2>1, <2>2 DEF AtStart
<1> QED
  BY <1>5, <1>6, <1>7 DEF Moves

LEMMA BegunLayout == Begun => LayoutInv
<1> SUFFICES ASSUME Begun, Addressable(job.machine) PROVE LayoutInv
  BY DEF LayoutInv
<1>1. pc = 0 /\ jsp = 0
  BY DEF Begun
<1>2. AtStart(0)
  BY DEF Addressable, LaidOut, AtStart
<1>3. 0 .. jsp - 1 = {}
  BY <1>1
<1> QED
  BY <1>1, <1>2, <1>3 DEF LayoutInv

LEMMA StepMoves == TypeInv /\ [Next]_vars => Moves
<1> SUFFICES ASSUME TypeInv, [Next]_vars PROVE Moves
  OBVIOUS
<1>1. Entry => Moves
  BY LeaveMoves DEF Entry, Moves, Stays, stacks
<1>2. UNCHANGED vars => Moves
  BY DEF vars, Moves, Stays, stacks
<1> QED
  BY <1>1, <1>2, NextOpMoves, SwitchMoves, ScanMoves DEF Next

LEMMA StepLayout == ContentsInv /\ LayoutInv /\ [Next]_vars => LayoutInv'
BY StepMoves, MovesKeepLayout DEF ContentsInv

(* Whatever the data, control is always at an instruction, if the bytecode *)
(* is laid out as the compiler does and no longer than an unsigned char    *)
(* can address: a jump to a subroutine, the return    *)
(* from it and the loop of an OF included, at any depth of either stack.   *)
THEOREM StaysOnInstructions == Spec => []PcAtInstruction
<1>1. LayoutInv => PcAtInstruction
  BY DEF LayoutInv, PcAtInstruction, AtStart
<1>2. Init => ContentsInv /\ LayoutInv
  BY InitContents, BegunLayout DEF Init
<1> QED
  BY <1>1, <1>2, StepContents, StepLayout, PTL DEF Spec
=============================================================================
