----------------------------- MODULE ShowEdid -----------------------------
(***************************************************************************)
(* The program showedid/showedid.c: print the EDID of each display, a      *)
(* block of 128 octets with a checksum.                                    *)
(***************************************************************************)
EXTENDS Integers, Sequences

CONSTANTS
    Screens,        \* sequences of displays, which have a [gop, null, block, says]: can its
                    \* graphics protocol be opened, is its Edid NULL, the EDID (what lies
                    \* at NULL) or NoEdid where there is no protocol for it, and what the
                    \* EDID was made to say: the set of that, empty if it was damaged
    FirmwareFails   \* subset of BOOLEAN: may a service fail?

NoEdid == <<>>

VARIABLES
    displays,   \* the handles that LocateHandle finds
    at, HandleList, i,
    Interface,  \* the display whose protocol it is, 0 is NULL
    printed, status

vars == <<displays, at, HandleList, i, Interface, printed, status>>

Init ==
    /\ displays \in Screens
    /\ at = "locate" /\ HandleList \in {"null", "junk"} /\ i = 1 /\ Interface = 0
    /\ printed = <<>> /\ status = "none"

Return(s) == at' = "returned" /\ status' = s

(* The first call only says how long the list is.  Where it fails for      *)
(* another reason HandleList, which nothing has set, decides what becomes  *)
(* of the error: it is returned and the junk given to FreePool, or passed  *)
(* over, there being no handles.                                           *)
LocateHandleSize ==
    /\ at = "locate"
    /\ \/ displays # <<>> /\ at' = "allocate" /\ UNCHANGED status
       \/ /\ displays = <<>> \/ TRUE \in FirmwareFails
          /\ Return(IF HandleList = "junk" THEN "error" ELSE "success")
    /\ UNCHANGED <<displays, HandleList, i, Interface, printed>>

LocateHandle ==
    /\ at = "allocate"
    /\ \/ HandleList' = "allocated" /\ at' = "display" /\ UNCHANGED status
       \/ /\ TRUE \in FirmwareFails
          /\ \/ HandleList' = "null" /\ Return("buffer_too_small")
             \/ HandleList' = "freed" /\ Return("error")
    /\ UNCHANGED <<displays, i, Interface, printed>>

(* efi_open_protocol sets the global Interface, or leaves the one before,  *)
(* so that only the first failure is noticed; the modes that are asked for *)
(* are not used.                                                           *)
OpenProtocol ==
    /\ at = "display" /\ i <= Len(displays)
    /\ Interface' = IF displays[i].gop THEN i ELSE Interface
    /\ IF Interface' = 0 THEN Return("success") ELSE at' = "edid" /\ UNCHANGED status
    /\ UNCHANGED <<displays, HandleList, i, printed>>

----------------------------------------------------------------------------
(* The EDID block.  Octets are counted from 0 in the code, from 1 here.    *)
Block == displays[i].block
EDID_LENGTH == 128
EdidHeader == <<0, 255, 255, 255, 255, 255, 255, 0>>

Checksum(block, length) ==
    LET sum[n \in 0 .. length] == IF n = 0 THEN 0 ELSE (sum[n - 1] + block[n]) % 256
    IN sum[length]

(* Seeded bug: the checksum itself is not summed up.                       *)
CheckForValidEdid_short(block) ==
    /\ Checksum(block, EDID_LENGTH - 1) = 0
    /\ block[19] = 1 /\ block[20] <= 4

(* The header need be there only if its first octet is.                    *)
CheckForValidEdid(block) ==
    /\ Checksum(block, EDID_LENGTH) = 0
    /\ block[1] = 0 => SubSeq(block, 1, 8) = EdidHeader
    /\ block[19] = 1 /\ block[20] <= 4

(* The three letters, each a number of five bits, the first in the highest.*)
ManufacturerAbbrev(block) ==
    LET h == block[9] * 256 + block[10]
    IN <<(h \div 1024) % 32, (h \div 32) % 32, h % 32>>

(* CHECK_BIT(var, pos) is var & (1<<pos == 1<<pos), which is var & 1.      *)
CHECK_BIT(var, pos) == var % 2 = 1

VideoInput(var) == IF CHECK_BIT(var, 7) THEN "Analog" ELSE "Digital"

Synchronization(var) ==
    IF var % 32 = 0 THEN {}
    ELSE {"Syncronization"} \cup
         {s[2] : s \in {t \in {<<4, "BlankToBackSetup">>, <<3, "SeparateSync">>,
                              <<2, "CompositeSync">>, <<1, "SyncOnGreen">>,
                              <<0, "SerrationVSync">>} : CHECK_BIT(var, t[1])}}

DisplayType(var) ==
    IF CHECK_BIT(var, 3) /\ CHECK_BIT(var, 4) THEN "Undefined"
    ELSE IF CHECK_BIT(var, 3) THEN "RGB color"
    ELSE IF CHECK_BIT(var, 4) THEN "Non-RGB multicolor"
    ELSE "Monochrome"

----------------------------------------------------------------------------
(* Numbers of the type float: mantissa * 2^(exp2 - 23), with a mantissa    *)
(* from 2^23 to 2^24 - 1; a rounded quotient goes to the nearest, to the   *)
(* even one of two.                                                        *)
Rounded(a, b) ==
    LET q == a \div b
        r == a % b
    IN IF 2 * r > b \/ (2 * r = b /\ q % 2 = 1) THEN q + 1 ELSE q

(* The float nearest to g/100, in units of 2^-shift; g is at most 255.     *)
Hundredths(g) ==
    LET shift == CHOOSE k \in 22 .. 30 :
                    /\ g * 2^k >= 100 * 2^23
                    /\ g * 2^(k - 1) < 100 * 2^23
    IN [mantissa |-> Rounded(g * 2^shift, 100), shift |-> shift]

(* 1.00 + g/100 is exact as a double, and rounded to a float.              *)
Gamma(g) ==
    IF g = 0 THEN [mantissa |-> 2^23, exp2 |-> 0]
    ELSE LET h == Hundredths(g)
             exp2 == IF g < 100 THEN 0 ELSE 1
         IN [mantissa |-> 2^(23 - exp2) + Rounded(h.mantissa, 2^(h.shift - 23 + exp2)),
             exp2 |-> exp2]

FractionalPart(f) == (f.mantissa * 2^(f.exp2 + 1)) % 2^24

(* Float2AsciiString for numbers from 1 to 4, whose exponent is 0 or 1: the*)
(* part in front of the point, and the digits behind it, which are cut off *)
(* and not rounded; there is only one digit where they are 0.              *)
Float2AsciiString(f, numdecimals) ==
    LET rest[n \in 0 .. numdecimals] ==
            IF n = 0 THEN FractionalPart(f) ELSE (rest[n - 1] * 10) % 2^24
        digit(n) == (rest[n - 1] * 10) \div 2^24
    IN <<f.mantissa \div 2^(23 - f.exp2)>>
       \o (IF FractionalPart(f) = 0 THEN <<0>> ELSE [n \in 1 .. numdecimals |-> digit(n)])

DisplayGammaString(g) == Float2AsciiString(Gamma(g), 2)

----------------------------------------------------------------------------
(* Twelve bits: an octet and half of another one.                          *)
EDID_DET_TIMING_HSIZE(dtb) == dtb[13] + (dtb[15] \div 16) * 256
EDID_DET_TIMING_VSIZE(dtb) == dtb[14] + (dtb[15] % 16) * 256

PrintDetailedTimingBlock(dtb) ==
    [hsize |-> EDID_DET_TIMING_HSIZE(dtb), vsize |-> EDID_DET_TIMING_VSIZE(dtb),
     borders |-> <<dtb[16], dtb[17]>>]

PrintEdid(block) ==
    [version |-> <<block[19], block[20]>>,
     vendor |-> ManufacturerAbbrev(block),
     product |-> block[11] + block[12] * 256,
     serial |-> SubSeq(block, 13, 16),
     week |-> block[17], year |-> block[18] + 1990,
     input |-> VideoInput(block[21]), sync |-> Synchronization(block[21]),
     type |-> DisplayType(block[25]),
     size |-> <<block[22], block[23]>>,
     gamma |-> DisplayGammaString(block[24]),
     timing |-> PrintDetailedTimingBlock(SubSeq(block, 55, 72))]

(* HandleProtocol may fail; an EDID that is not valid gives one line.      *)
ShowDisplay ==
    /\ at = "edid"
    /\ \E fails \in FirmwareFails :
         printed' = IF fails \/ Block = NoEdid THEN printed
                    ELSE Append(printed, [display |-> i,
                            text |-> IF CheckForValidEdid(Block) THEN {PrintEdid(Block)} ELSE {}])
    /\ i' = i + 1 /\ at' = "display"
    /\ UNCHANGED <<displays, HandleList, Interface, status>>

(* A display that has sent no EDID has the protocol, with SizeOfEdid 0 and *)
(* Edid NULL.  Neither is looked at: the octets at NULL are checked, or to *)
(* read them raises an exception, which ends it all.                       *)
Fault ==
    /\ at = "edid" /\ Block # NoEdid /\ displays[i].null
    /\ at' = "faulted"
    /\ UNCHANGED <<displays, HandleList, i, Interface, printed, status>>

Finish ==
    /\ at = "display" /\ i > Len(displays)
    /\ Return("success")
    /\ UNCHANGED <<displays, HandleList, i, Interface, printed>>

Next == LocateHandleSize \/ LocateHandle \/ OpenProtocol \/ ShowDisplay \/ Fault \/ Finish

(* A program of one thread: it goes on until it returns.                   *)
Spec == Init /\ [][Next]_vars /\ WF_vars(Next)

----------------------------------------------------------------------------
(* The gamma printed is 1 + g/100, or a hundredth less where the nearest   *)
(* float is smaller than that and its digits are cut off.                  *)
NearGamma(text, g) ==
    LET hundredths == text[1] * 100 + text[2] * 10 + (IF Len(text) = 3 THEN text[3] ELSE 0)
    IN hundredths \in {100 + g - 1, 100 + g}

Says(text, said) ==
    /\ text.vendor = said.vendor /\ text.year = said.year
    /\ NearGamma(text.gamma, said.gamma)
    /\ <<text.timing.hsize, text.timing.vsize>> = said.size

(* What is printed for a display is what its EDID was made to say, letters *)
(* and sizes that share octets put together again, and an EDID of which an *)
(* octet was damaged is never printed; only displays that are skipped      *)
(* because a call failed, or because no display before them gave an        *)
(* Interface, may be missing.                                              *)
EdidsShown ==
    \A n \in DOMAIN printed :
       LET says == displays[printed[n].display].says
       IN /\ says = {} <=> printed[n].text = {}
          /\ \A text \in printed[n].text : \A said \in says : Says(text, said)
          /\ n > 1 => printed[n - 1].display < printed[n].display
=============================================================================
