----------------------------- MODULE EdidBlocks -----------------------------
(***************************************************************************)
(* The EDID of a display as the VESA standard has it, as far as            *)
(* showedid/showedid.c prints it: what its octets stand for, and which     *)
(* blocks are sound.  Octets are counted from 1.                           *)
(***************************************************************************)
EXTENDS Integers, Sequences

Blocks == {block \in Seq(0 .. 255) : Len(block) = 128}

(* Octets, added up.                                                       *)
Total(octets) ==
    LET total[n \in 0 .. Len(octets)] == IF n = 0 THEN 0 ELSE total[n - 1] + octets[n]
    IN total[Len(octets)]

(* Version 1, revisions up to 4, and the sum a multiple of 256.  (The      *)
(* program lets a block pass that does not begin with 0 at all.)           *)
Sound(block) ==
    /\ Total(block) % 256 = 0
    /\ block[19] = 1 /\ block[20] <= 4
    /\ block[1] = 0 => block[8] = 0 /\ \A n \in 2 .. 7 : block[n] = 255

(* What an EDID may say, and that a block says so: letters of five bits,   *)
(* years from 1990, 1 + gamma/100, sizes of twelve bits.                   *)
Letters == 0 .. 31
Years == 1990 .. 2245
Gammas == 0 .. 255
Sizes == 0 .. 4095
Sayings == [vendor : [1 .. 3 -> Letters], year : Years,
            gamma : Gammas, size : [1 .. 2 -> Sizes]]

SaysSo(block, said) ==
    /\ block[9] = said.vendor[1] * 4 + said.vendor[2] \div 8
    /\ block[10] = (said.vendor[2] % 8) * 32 + said.vendor[3]
    /\ block[18] = said.year - 1990
    /\ block[24] = said.gamma
    /\ block[67] = said.size[1] % 256 /\ block[68] = said.size[2] % 256
    /\ block[69] = (said.size[1] \div 256) * 16 + said.size[2] \div 256
=============================================================================
