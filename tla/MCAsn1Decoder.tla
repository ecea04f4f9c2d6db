--------------------------- MODULE MCAsn1Decoder ---------------------------
(***************************************************************************)
(* Jobs on which TLC checks Asn1Decoder.                                   *)
(***************************************************************************)
EXTENDS Asn1Decoder

(* Every string of a few bytes, under bytecode that uses every opcode.  It *)
(* is written out by hand, the way asn1_compiler lays instructions out; it *)
(* never emits the SET opcodes, and refused is what it never would make.   *)

\* SEQUENCE OF CHOICE { INTEGER, BOOLEAN }
seq_of_choice == << 0, 48,  3, 2, 0,  19, 1, 1,  27,  38, 2, 2,  29, 3,  28 >>

\* Tree ::= SEQUENCE { Tree OPTIONAL, CHOICE { INTEGER, Tree } OPTIONAL }
tree == << 4, 48, 4,  28,  5, 48, 4,  1, 2,  21, 48, 4,  32,  30 >>

\* SEQUENCE { INTEGER OPTIONAL, ANY ({ action }) }
any_act == << 0, 48,  1, 2,  10, 1,  36, 2,  28 >>

\* CHOICE { BOOLEAN, INTEGER, ANY }
choice_any == << 1, 1,  17, 2,  24,  27,  29, 0,  28 >>
choice_any_act == << 2, 1, 0,  26, 2,  28 >>

\* SET { INTEGER OPTIONAL, ANY OPTIONAL }, SET OF ANY
set_any == << 0, 48,  1, 2,  8,  37, 1,  28 >>
set_of == << 0, 48,  8,  35, 2,  28 >>
set_of_act == << 0, 48,  0, 48,  2, 2, 3,  33,  39, 2, 3,  28 >>

\* SEQUENCE OF INTEGER OPTIONAL
seq_of_optional == << 0, 48,  1, 2,  34, 2,  28 >>

refused == { << 32, 28 >>, << 30, 28 >>, << 0 >>, << 0, 48, 28 >> }

Machines == { seq_of_choice, tree, any_act, choice_any, choice_any_act,
              set_any, set_of, set_of_act, seq_of_optional } \cup refused

\* all but those are as the compiler lays bytecode out
ASSUME MachinesLaidOut == \A m \in Machines \ refused : LaidOut(m)
ASSUME OneDemandsNothing == {m \in Machines : ~Demanding(m)} = {seq_of_optional}

Octets == {0, 1, 2, 31, 48, 128, 129}
Strings(n) == UNION { [1 .. k -> Octets] : k \in 0 .. n }

ByteJobs ==
    { [machine |-> j[1], data |-> j[2] \o j[3]] :
        j \in Machines \X {<<>>, <<48, 3>>, <<48, 128>>, <<48, 128, 48, 128>>} \X Strings(3) }

----------------------------------------------------------------------------
(* A sequence with a BOOLEAN in it, for SEQUENCE OF INTEGER OPTIONAL.      *)
EndlessJobs == { [machine |-> seq_of_optional, data |-> << 48, 3, 1, 1, 0 >>] }

(* SEQUENCE { OCTET STRING }, one octet short of what its lengths say.     *)
ShortFormJobs == { [machine |-> << 0, 48,  0, 4,  32,  28 >>, data |-> << 48, 4, 4, 2, 9 >>] }
=============================================================================
