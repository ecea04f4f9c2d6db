-------------------------- MODULE UtilitiesProofs --------------------------
(***************************************************************************)
(* What a run of var, bootnext, shellopt or clearcrashvars may and may not *)
(* have done to the store, for all variables, values, words and numbers.   *)
(*                                                                         *)
(* Each program has an invariant of its own, which says what is known      *)
(* between its steps; a step of another program keeps it, since program    *)
(* never changes.                                                          *)
(***************************************************************************)
EXTENDS Utilities, SequenceTheorems, FiniteSetTheorems, TLAPS

(* var: modify alone gets to a second call.                                *)
VarInv ==
    program = "var" =>
       /\ store \in [Names -> Texts]
       /\ argv \in var!CommandLines
       /\ at \in {"shell", "run", "modify", "overrun"}
       /\ at = "modify" => var!Given("modify", 3)
       /\ var!SuccessMeansDone

(* bootnext: nothing has been written while a run goes on.                 *)
BootNextInv ==
    program = "bootnext" =>
       /\ at \in {"shell", "run"} /\ argv \in bootnext!CommandLines
       /\ store = <<>> \/ \E v \in TwoBytes : store = <<v>>
       /\ at = "run" => store = before /\ shown = <<>>
       /\ bootnext!FailureKeeps /\ bootnext!NumberStored /\ bootnext!ShowsStored

(* shellopt: the words taken up to now are those in front of i, or all and *)
(* a number from behind the last.                                          *)
Taken ==
    /\ i \in 2 .. Len(argv) + 2
    /\ i # Len(argv) + 2 => buffer = SubSeq(argv, 2, i - 1)
    /\ i = Len(argv) + 2 =>
         /\ argv[Len(argv)] = "-delay"
         /\ \E n \in Numbers : buffer = Append(SubSeq(argv, 2, Len(argv)), n)

ShellOptInv ==
    program = "shellopt" =>
       /\ at \in {"shell", "run", "options", "overrun"} /\ argv \in Lines
       /\ at \in {"run", "options"} => store = before
       /\ at = "options" => shellopt!SetRun /\ Taken
       /\ shellopt!AllOrNothing /\ shellopt!StoredAsGiven

(* clearcrashvars: as long as it enumerates, it has got to the p-th        *)
(* variable of a store that is as before, and its list holds the crash     *)
(* variables up to there.  Once it works the list off, the entries are in  *)
(* the store, and the status is of no error of the enumeration.            *)
Broken == {"buffer_too_small", "out_of_resources"}
Distinct(s) == \A j, k \in DOMAIN s : s[j] = s[k] => j = k
UpTo(p) == {before[k] : k \in 1 .. p}
HasGotTo(p) ==
    /\ Name = IF p = 0 THEN "start" ELSE before[p]
    /\ clearcrashvars!Elements(CrashVarList) = UpTo(p) \cap Crash

ClearInv ==
    program = "clearcrashvars" =>
       /\ at \in {"args", "enumerate", "list", "returned"} /\ mode \in 0 .. 3
       /\ before \in Seq(Variables) /\ Distinct(before)
       /\ store \in Seq(Variables) /\ Distinct(store)
       /\ CrashVarList \in Seq(Variables) /\ Distinct(CrashVarList)
       /\ at = "args" => mode = 0 /\ Name = "start" /\ CrashVarList = <<>>
       /\ at \in {"enumerate", "list"} => mode # 0
       /\ at \in {"args", "enumerate"} => store = before /\ printed = {} /\ failed = {}
       /\ at = "enumerate" => \E p \in 0 .. Len(before) : HasGotTo(p)
       /\ at = "list" =>
            /\ status \notin Broken
            /\ clearcrashvars!Elements(CrashVarList) \subseteq Crash
            /\ clearcrashvars!Elements(CrashVarList) \subseteq clearcrashvars!Elements(store)
       /\ at = "returned" /\ status \in Broken => store = before
       /\ clearcrashvars!OnlyCrashDeleted /\ clearcrashvars!AllWorkedOff

----------------------------------------------------------------------------
LEMMA VarLines ==
    ASSUME NEW line \in var!CommandLines
    PROVE  /\ Len(line) \in Nat
           /\ Len(line) = 2 => line[2] \in Names
           /\ Len(line) = 3 => line[2] \in Names /\ line[3] \in Texts
BY DEF var!CommandLines

LEMMA NoText == <<>> \in Texts
BY ProgramsAssumption

LEMMA VarInvHoldsAtFirst == Init => VarInv
<1> SUFFICES ASSUME Init, program = "var" PROVE VarInv
  BY DEF VarInv
<1>1. store = [n \in Names |-> <<>>] /\ argv = <<>> /\ at = "shell" /\ status = "none"
  BY DEF Init, var!Init, var!Absent
<1>2. argv \in var!CommandLines
  BY <1>1 DEF var!CommandLines
<1>3. store \in [Names -> Texts]
  BY <1>1, NoText
<1> QED
  BY <1>1, <1>2, <1>3 DEF VarInv, var!SuccessMeansDone

LEMMA VarSetKeeps ==
    ASSUME VarInv, program = "var", NEW data \in Texts, Len(argv) \in {2, 3}, var!Set(data),
           var!Given("delete", 2) => data = <<>>,
           var!Given("create", 3) \/ var!Given("modify", 3) => data = argv[3],
           ~var!Given("show", 2)
    PROVE  /\ store' \in [Names -> Texts] /\ argv' = argv /\ at' = "shell"
           /\ var!SuccessMeansDone'
<1>1. argv[2] \in Names
  BY VarLines DEF VarInv
<1>2. argv' = argv /\ at' = "shell"
  BY DEF var!Set, var!Return
<1>3. PICK fails \in FirmwareFails :
         IF fails THEN var!Return("error") /\ UNCHANGED store
         ELSE /\ var!Return(var!SetVariable(store[argv[2]], data))
              /\ store' = [store EXCEPT ![argv[2]] = data]
  BY DEF var!Set, var!Name
<1>4. CASE fails
  BY <1>2, <1>3, <1>4 DEF VarInv, var!Return, var!SuccessMeansDone
<1>5. CASE ~fails
  <2>1. store' = [store EXCEPT ![argv[2]] = data]
    BY <1>3, <1>5
  <2>2. store' \in [Names -> Texts] /\ store'[argv[2]] = data
    BY <1>1, <2>1 DEF VarInv
  <2> QED
    BY <1>2, <2>2
    DEF var!SuccessMeansDone, var!Given, var!Name, var!Value, var!Absent
<1> QED
  BY <1>2, <1>4, <1>5

LEMMA VarInvKept == VarInv /\ [Next]_vars => VarInv'
<1> SUFFICES ASSUME VarInv, [Next]_vars, program = "var", program' = "var" PROVE VarInv'
  BY DEF VarInv, Next, Start, Main, OfVar, OfBootNext, OfShellOpt, OfClear, vars
<1> USE DEF VarInv
<1>1. \/ \E line \in var!CommandLines : var!Run(line)
      \/ var!Main
      \/ UNCHANGED vars
  BY DEF Next, Start, Main, OfVar, OfBootNext, OfShellOpt, OfClear
<1>2. CASE \E line \in var!CommandLines : var!Run(line)
  BY <1>2 DEF var!Run, var!SuccessMeansDone
<1>3. CASE var!GetArgsFails
  BY <1>3 DEF var!GetArgsFails, var!Return, var!SuccessMeansDone
<1>4. CASE var!Usage
  BY <1>4 DEF var!Usage, var!Return, var!SuccessMeansDone, var!Given
<1>5. CASE var!Delete
  <2>1. Len(argv) = 2 /\ argv[1] = "delete" /\ var!Set(<<>>)
    BY <1>5 DEF var!Delete, var!Given, var!Absent
  <2> QED
    <3>1. Len(argv) # 3 /\ argv[1] # "show"
      BY <2>1
    <3>2. store' \in [Names -> Texts] /\ argv' = argv /\ at' = "shell" /\ var!SuccessMeansDone'
      BY <2>1, <3>1, NoText, VarSetKeeps DEF var!Given
    <3> QED
      BY <3>2
<1>6. CASE var!Create
  <2>1. Len(argv) = 3 /\ argv[1] = "create" /\ var!Set(argv[3])
    BY <1>6 DEF var!Create, var!Given, var!Value
  <2> QED
    BY <2>1, VarSetKeeps, VarLines DEF var!Given
<1>7. CASE var!Show
  <2>1. /\ Len(argv) = 2 /\ argv[1] = "show"
        /\ UNCHANGED <<store, argv, before>> /\ at' = "shell"
    BY <1>7 DEF var!Show, var!Given, var!Return
  <2>2. ASSUME status' = "success", Len(store[argv[2]]) < var!Room
        PROVE  shown' = store[argv[2]]
    <3>1. shown' \in var!Printed(store[argv[2]])
      BY <1>7, <2>2 DEF var!Show, var!Return, var!Name
    <3>2. var!Room \in Nat
      <4>1. BUFSIZE \in Nat
        BY ProgramsAssumption
      <4> QED
        BY <4>1 DEF var!Room
    <3> QED
      BY <2>2, <3>1, <3>2 DEF var!Printed
  <2>3. var!SuccessMeansDone'
    BY <2>1, <2>2 DEF var!SuccessMeansDone, var!Given, var!Name, var!Room
  <2> QED
    BY <2>1, <2>3
<1>8. CASE var!ModifyRead
  BY <1>8
  DEF var!ModifyRead, var!Return, var!SuccessMeansDone, var!Given,
      var!GetVariable, var!Absent, var!Name
<1>9. CASE var!ModifyWrite
  <2>1. Len(argv) = 3 /\ argv[1] = "modify" /\ var!Set(argv[3])
    BY <1>9 DEF var!ModifyWrite, var!Given, var!Value
  <2> QED
    BY <2>1, VarSetKeeps, VarLines DEF var!Given
<1>10. CASE var!Overrun
  BY <1>10 DEF var!Overrun, var!SuccessMeansDone
<1>11. CASE UNCHANGED vars
  BY <1>11
  DEF vars, var!SuccessMeansDone, var!Given, var!Name, var!Value, var!Room
<1> QED
  BY <1>1, <1>2, <1>3, <1>4, <1>5, <1>6, <1>7, <1>8, <1>9, <1>10, <1>11 DEF var!Main

(* A run of var that reports success has created, deleted or modified what *)
(* it was told to, where an empty value deletes, or shown what is stored,  *)
(* unless that has exactly BUFSIZE / 2 characters (var.c:74-77).  A run    *)
(* whose value overruns Data (var.c:131, 153) reports nothing and is not   *)
(* followed.                                                               *)
THEOREM VarDoesAsToldOnSuccess == Spec => []SuccessMeansDone
<1>1. VarInv => SuccessMeansDone
  BY DEF VarInv, SuccessMeansDone
<1> QED
  BY <1>1, VarInvHoldsAtFirst, VarInvKept, PTL DEF Spec

----------------------------------------------------------------------------
(* The number that up to four hexadecimal digits spell: the first is the   *)
(* most significant.                                                       *)
IsSpelled(value, str, n) ==
    value = [k \in 0 .. n |-> IF k = 0 THEN 0 ELSE 16 * value[k - 1] + bootnext!DigitValue(str[k])]

LEMMA SpelledIs ==
    ASSUME NEW str, NEW n \in 0 .. 4,
           \A k \in 1 .. n : bootnext!DigitValue(str[k]) \in 0 .. 15
    PROVE  bootnext!Spelled(16, str, n) =
             CASE n = 0 -> 0
               [] n = 1 -> bootnext!DigitValue(str[1])
               [] n = 2 -> 16 * bootnext!DigitValue(str[1]) + bootnext!DigitValue(str[2])
               [] n = 3 -> 16 * (16 * bootnext!DigitValue(str[1]) + bootnext!DigitValue(str[2]))
                           + bootnext!DigitValue(str[3])
               [] n = 4 -> 16 * (16 * (16 * bootnext!DigitValue(str[1])
                                       + bootnext!DigitValue(str[2]))
                                 + bootnext!DigitValue(str[3])) + bootnext!DigitValue(str[4])
<1> DEFINE d(k) == bootnext!DigitValue(str[k])
           value == CHOOSE f : IsSpelled(f, str, n)
<1>1. bootnext!Spelled(16, str, n) = value[n]
  BY DEF bootnext!Spelled, IsSpelled
<1>2. IsSpelled(value, str, n)
  <2> DEFINE v1 == 16 * 0 + d(1)
             v2 == 16 * v1 + d(2)
             v3 == 16 * v2 + d(3)
             v4 == 16 * v3 + d(4)
             f == [k \in 0 .. n |-> IF k = 0 THEN 0 ELSE IF k = 1 THEN v1
                                    ELSE IF k = 2 THEN v2 ELSE IF k = 3 THEN v3 ELSE v4]
  <2>1. \A k \in 0 .. n : f[k] = IF k = 0 THEN 0 ELSE 16 * f[k - 1] + d(k)
    <3> SUFFICES ASSUME NEW k \in 0 .. n
                 PROVE  f[k] = IF k = 0 THEN 0 ELSE 16 * f[k - 1] + d(k)
      OBVIOUS
    <3>1. k \in {0, 1, 2, 3, 4} /\ (k # 0 => k - 1 \in 0 .. n)
      OBVIOUS
    <3> HIDE DEF d, v1, v2, v3, v4
    <3>2. v1 = 16 * 0 + d(1) /\ v2 = 16 * v1 + d(2) /\ v3 = 16 * v2 + d(3) /\ v4 = 16 * v3 + d(4)
      BY DEF v1, v2, v3, v4
    <3> QED
      BY <3>1, <3>2
  <2>2. f = [k \in 0 .. n |-> f[k]]
    OBVIOUS
  <2> HIDE DEF f, d
  <2>3. f = [k \in 0 .. n |-> IF k = 0 THEN 0 ELSE 16 * f[k - 1] + d(k)]
    BY <2>1, <2>2
  <2>4. \E g : IsSpelled(g, str, n)
    BY <2>3 DEF IsSpelled, d
  <2> QED
    BY <2>4
<1> HIDE DEF value
<1>3. value[0] = 0 /\ \A k \in 1 .. n : value[k] = 16 * value[k - 1] + d(k)
  <2>1. \A k \in 0 .. n : value[k] = IF k = 0 THEN 0 ELSE 16 * value[k - 1] + d(k)
    BY <1>2 DEF IsSpelled
  <2> QED
    BY <2>1
<1>4. \A k \in 1 .. n : d(k) \in 0 .. 15
  OBVIOUS
<1> HIDE DEF d
<1>5. CASE n = 0
  BY <1>1, <1>3, <1>5
<1>6. CASE n = 1
  <2>1. value[1] = d(1)
    BY <1>3, <1>4, <1>6
  <2> QED
    BY <1>1, <1>6, <2>1 DEF d
<1>7. CASE n = 2
  <2>1. value[2] = 16 * d(1) + d(2)
    BY <1>3, <1>4, <1>7
  <2> QED
    BY <1>1, <1>7, <2>1 DEF d
<1>8. CASE n = 3
  <2>1. value[3] = 16 * (16 * d(1) + d(2)) + d(3)
    BY <1>3, <1>4, <1>8
  <2> QED
    BY <1>1, <1>8, <2>1 DEF d
<1>9. CASE n = 4
  <2>1. value[4] = 16 * (16 * (16 * d(1) + d(2)) + d(3)) + d(4)
    BY <1>3, <1>4, <1>9
  <2> QED
    BY <1>1, <1>9, <2>1 DEF d
<1> QED
  BY <1>5, <1>6, <1>7, <1>8, <1>9

LEMMA DigitIs ==
    ASSUME NEW c \in TwoBytes, bootnext!IsHexDigit(c)
    PROVE  bootnext!DigitValue(c) \in 0 .. 15
BY DEF bootnext!IsHexDigit, bootnext!DigitValue, TwoBytes

LEMMA ElementOf ==
    ASSUME NEW S, NEW s \in Seq(S)
    PROVE  \A j \in 1 .. Len(s) : s[j] \in S
OBVIOUS

(* xtoi, of an argument that check_arg has let through.                    *)
LEMMA NumberIs ==
    ASSUME NEW str \in Arguments, bootnext!check_arg(str)
    PROVE  /\ bootnext!xtoi(str) \in Nat
           /\ \A m \in 1 .. 4 : bootnext!IsHexDigit(str[m]) \/ str[m] > 255
           /\ \A k \in 0 .. 4 : bootnext!Leading(str, k) =>
                /\ \A j \in 1 .. k : bootnext!DigitValue(str[j]) \in 0 .. 15
                /\ bootnext!xtoi(str) = bootnext!Spelled(16, str, k)
<1> DEFINE Stops(k) == /\ k = Len(str) \/ ~bootnext!IsHexDigit(str[k + 1])
                       /\ \A j \in 1 .. k : bootnext!IsHexDigit(str[j])
           stop == CHOOSE k \in 0 .. Len(str) : Stops(k)
           d(k) == bootnext!DigitValue(str[k])
<1>1. str \in Seq(TwoBytes) /\ Len(str) = 4 /\ DOMAIN str = 1 .. 4
  BY NumbersAssumption DEF bootnext!check_arg
<1>2. \A j \in 1 .. 4 : str[j] \in TwoBytes
  BY <1>1, ElementOf, Zenon
<1>3. \E k \in 0 .. Len(str) : Stops(k)
  <2>1. CASE ~bootnext!IsHexDigit(str[1])
    BY <1>1, <2>1
  <2>2. CASE bootnext!IsHexDigit(str[1]) /\ ~bootnext!IsHexDigit(str[2])
    <3>1. Stops(1)
      BY <2>2
    <3> QED
      BY <1>1, <3>1
  <2>3. CASE bootnext!IsHexDigit(str[1]) /\ bootnext!IsHexDigit(str[2])
             /\ ~bootnext!IsHexDigit(str[3])
    <3>1. Stops(2)
      BY <2>3
    <3> QED
      BY <1>1, <3>1
  <2>4. CASE bootnext!IsHexDigit(str[1]) /\ bootnext!IsHexDigit(str[2])
             /\ bootnext!IsHexDigit(str[3]) /\ ~bootnext!IsHexDigit(str[4])
    <3>1. Stops(3)
      BY <2>4
    <3> QED
      BY <1>1, <3>1
  <2>5. CASE bootnext!IsHexDigit(str[1]) /\ bootnext!IsHexDigit(str[2])
             /\ bootnext!IsHexDigit(str[3]) /\ bootnext!IsHexDigit(str[4])
    <3>1. Stops(4)
      BY <1>1, <2>5
    <3> QED
      BY <1>1, <3>1
  <2> QED
    BY <2>1, <2>2, <2>3, <2>4, <2>5
<1>4. stop \in 0 .. 4 /\ Stops(stop)
  <2> HIDE DEF Stops
  <2> QED
    BY <1>1, <1>3
<1>5. bootnext!xtoi(str) = bootnext!Spelled(16, str, stop)
  BY DEF bootnext!xtoi
<1> HIDE DEF stop
<1>6. \A k \in 1 .. stop : bootnext!DigitValue(str[k]) \in 0 .. 15
  <2>1. \A k \in 1 .. stop : bootnext!IsHexDigit(str[k]) /\ str[k] \in TwoBytes
    BY <1>2, <1>4
  <2> QED
    BY <2>1, DigitIs
<1>7. bootnext!xtoi(str) \in Nat
  <2>1. CASE stop = 0
    BY <1>4, <1>5, <1>6, <2>1, SpelledIs
  <2>2. CASE stop = 1
    BY <1>4, <1>5, <1>6, <2>2, SpelledIs
  <2>3. CASE stop = 2
    <3>1. bootnext!xtoi(str) = 16 * d(1) + d(2)
      BY <1>4, <1>5, <1>6, <2>3, SpelledIs
    <3>2. \A k \in 1 .. 2 : d(k) \in 0 .. 15
      BY <1>6, <2>3
    <3> HIDE DEF d
    <3> QED
      BY <3>1, <3>2
  <2>4. CASE stop = 3
    <3>1. bootnext!xtoi(str) = 16 * (16 * d(1) + d(2)) + d(3)
      BY <1>4, <1>5, <1>6, <2>4, SpelledIs
    <3>2. \A k \in 1 .. 3 : d(k) \in 0 .. 15
      BY <1>6, <2>4
    <3> HIDE DEF d
    <3> QED
      BY <3>1, <3>2
  <2>5. CASE stop = 4
    <3>1. bootnext!xtoi(str) = 16 * (16 * (16 * d(1) + d(2)) + d(3)) + d(4)
      BY <1>4, <1>5, <1>6, <2>5, SpelledIs
    <3>2. d(1) \in Nat /\ d(2) \in Nat /\ d(3) \in Nat /\ d(4) \in Nat
      BY <1>6, <2>5
    <3> HIDE DEF d
    <3>3. 16 * (16 * d(1) + d(2)) + d(3) \in Nat
      BY <3>2
    <3> QED
      BY <3>1, <3>2, <3>3
  <2> QED
    BY <1>4, <2>1, <2>2, <2>3, <2>4, <2>5
<1>8. \A m \in 1 .. 4 : bootnext!IsHexDigit(str[m]) \/ str[m] > 255
  <2> SUFFICES ASSUME NEW m \in 1 .. 4, str[m] <= 255
               PROVE  bootnext!IsHexDigit(str[m])
    BY <1>2 DEF TwoBytes
  <2>1. str[m] % 256 = str[m]
    BY <1>2 DEF TwoBytes
  <2> QED
    BY <1>1, <2>1 DEF bootnext!check_arg
<1>9. ASSUME NEW k \in 0 .. 4, bootnext!Leading(str, k)
      PROVE  k = stop
  <2>1. /\ \A j \in 1 .. k : bootnext!IsHexDigit(str[j])
        /\ k < 4 => ~bootnext!IsHexDigit(str[k + 1])
    BY <1>1, <1>9 DEF bootnext!Leading
  <2>2. /\ \A j \in 1 .. stop : bootnext!IsHexDigit(str[j])
        /\ stop < 4 => ~bootnext!IsHexDigit(str[stop + 1])
    BY <1>1, <1>4
  <2>3. ~(k < stop)
    <3>1. k < stop => k < 4 /\ k + 1 \in 1 .. stop
      BY <1>4
    <3> QED
      BY <2>1, <2>2, <3>1
  <2>4. ~(stop < k)
    <3>1. stop < k => stop < 4 /\ stop + 1 \in 1 .. k
      BY <1>4
    <3> QED
      BY <2>1, <2>2, <3>1
  <2> QED
    BY <1>4, <2>3, <2>4
<1> QED
  BY <1>5, <1>6, <1>7, <1>8, <1>9

(* The digits of a number of up to four.                                  *)
LowDigits == 0 .. 15

LEMMA PlacesOf ==
    ASSUME NEW a \in LowDigits, NEW b \in LowDigits, NEW c \in LowDigits, NEW e \in LowDigits,
           NEW x, x = 16 * (16 * (16 * a + b) + c) + e
    PROVE  /\ (x \div 4096) % 16 = a /\ (x \div 256) % 16 = b
           /\ (x \div 16) % 16 = c /\ (x \div 1) % 16 = e
           /\ x % 2^16 = x /\ x < 65536
           /\ a = 0 => x < 4096 /\ (b = 0 => x < 256 /\ (c = 0 => x < 16 /\ (e = 0 => x < 1)))
BY DEF LowDigits

(* The number that n digits spell is below 16^n and has them as its digits.*)
LEMMA DigitsOf ==
    ASSUME NEW str, NEW n \in 0 .. 4,
           \A k \in 1 .. n : bootnext!DigitValue(str[k]) \in 0 .. 15
    PROVE  LET x == bootnext!Spelled(16, str, n)
           IN /\ x % 2^16 = x /\ x < 16^n
              /\ \A k \in 1 .. n : (x \div 16^(n - k)) % 16 = bootnext!DigitValue(str[k])
<1> DEFINE d(k) == bootnext!DigitValue(str[k])
           x == bootnext!Spelled(16, str, n)
<1>1. 16^0 = 1 /\ 16^1 = 16 /\ 16^2 = 256 /\ 16^3 = 4096 /\ 16^4 = 65536
  OBVIOUS
<1>2. 0 \in LowDigits /\ \A k \in 1 .. n : d(k) \in LowDigits
  BY DEF LowDigits
<1>3. x = CASE n = 0 -> 0
            [] n = 1 -> d(1)
            [] n = 2 -> 16 * d(1) + d(2)
            [] n = 3 -> 16 * (16 * d(1) + d(2)) + d(3)
            [] n = 4 -> 16 * (16 * (16 * d(1) + d(2)) + d(3)) + d(4)
  BY SpelledIs
<1> HIDE DEF d, x
<1>4. x % 2^16 = x /\ x < 16^n /\ \A k \in 1 .. n : (x \div 16^(n - k)) % 16 = d(k)
  <2>0. CASE n = 0
    <3>1. x = 16 * (16 * (16 * 0 + 0) + 0) + 0
      BY <1>2, <1>3, <2>0 DEF LowDigits
    <3>2. /\ (x \div 4096) % 16 = 0 /\ (x \div 256) % 16 = 0
          /\ (x \div 16) % 16 = 0 /\ (x \div 1) % 16 = 0
          /\ x % 2^16 = x /\ x < 1
      BY <1>2, <2>0, <3>1, PlacesOf
    <3> QED
      BY <1>1, <2>0, <3>2
  <2>1. CASE n = 1
    <3>1. x = 16 * (16 * (16 * 0 + 0) + 0) + d(1)
      BY <1>2, <1>3, <2>1 DEF LowDigits
    <3>2. /\ (x \div 4096) % 16 = 0 /\ (x \div 256) % 16 = 0
          /\ (x \div 16) % 16 = 0 /\ (x \div 1) % 16 = d(1)
          /\ x % 2^16 = x /\ x < 16
      BY <1>2, <2>1, <3>1, PlacesOf
    <3>3. \A k \in 1 .. 1 : k = 1
      OBVIOUS
    <3> QED
      BY <1>1, <2>1, <3>2, <3>3
  <2>2. CASE n = 2
    <3>1. x = 16 * (16 * (16 * 0 + 0) + d(1)) + d(2)
      BY <1>2, <1>3, <2>2 DEF LowDigits
    <3>2. /\ (x \div 4096) % 16 = 0 /\ (x \div 256) % 16 = 0
          /\ (x \div 16) % 16 = d(1) /\ (x \div 1) % 16 = d(2)
          /\ x % 2^16 = x /\ x < 256
      BY <1>2, <2>2, <3>1, PlacesOf
    <3>3. \A k \in 1 .. 2 : k = 1 \/ k = 2
      OBVIOUS
    <3> QED
      BY <1>1, <2>2, <3>2, <3>3
  <2>3. CASE n = 3
    <3>1. x = 16 * (16 * (16 * 0 + d(1)) + d(2)) + d(3)
      BY <1>2, <1>3, <2>3 DEF LowDigits
    <3>2. /\ (x \div 4096) % 16 = 0 /\ (x \div 256) % 16 = d(1)
          /\ (x \div 16) % 16 = d(2) /\ (x \div 1) % 16 = d(3)
          /\ x % 2^16 = x /\ x < 4096
      BY <1>2, <2>3, <3>1, PlacesOf
    <3>3. \A k \in 1 .. 3 : k = 1 \/ k = 2 \/ k = 3
      OBVIOUS
    <3> QED
      BY <1>1, <2>3, <3>2, <3>3
  <2>4. CASE n = 4
    <3>1. x = 16 * (16 * (16 * d(1) + d(2)) + d(3)) + d(4)
      BY <1>2, <1>3, <2>4 DEF LowDigits
    <3>2. /\ (x \div 4096) % 16 = d(1) /\ (x \div 256) % 16 = d(2)
          /\ (x \div 16) % 16 = d(3) /\ (x \div 1) % 16 = d(4)
          /\ x % 2^16 = x /\ x < 65536
      BY <1>2, <2>4, <3>1, PlacesOf
    <3>3. \A k \in 1 .. 4 : k = 1 \/ k = 2 \/ k = 3 \/ k = 4
      OBVIOUS
    <3> QED
      BY <1>1, <2>4, <3>2, <3>3
  <2> QED
    BY <2>0, <2>1, <2>2, <2>3, <2>4
<1> QED
  BY <1>4 DEF x, d

(* BootNext is to be no other than the number typed.                       *)
LEMMA SetNextStores ==
    ASSUME BootNextInv, program = "bootnext", bootnext!SetNext
    PROVE  BootNextInv'
<1> DEFINE x == bootnext!xtoi(argv.text)
           d(j) == bootnext!DigitValue(argv.text[j])
<1>1. /\ at = "run" /\ at' = "shell" /\ program = "bootnext" /\ argv.ask = "set"
      /\ bootnext!check_arg(argv.text) /\ UNCHANGED <<argv, before, shown>>
      /\ store = before /\ shown = <<>> /\ argv \in bootnext!CommandLines
  BY DEF BootNextInv, bootnext!SetNext, bootnext!Asked, bootnext!Set, bootnext!Return
<1>2. argv.text \in Arguments
  BY <1>1 DEF bootnext!CommandLines
<1>3. x \in Nat
  BY <1>1, <1>2, NumberIs
<1>4. \/ status' = "error" /\ store' = store
      \/ status' = "success" /\ store' = <<x % 2^16>>
  BY DEF bootnext!SetNext, bootnext!Set, bootnext!Return, bootnext!SetVariable, bootnext!Absent
<1>5. x % 2^16 \in TwoBytes
  BY <1>3 DEF TwoBytes
<1>6. store' = <<>> \/ \E v \in TwoBytes : store' = <<v>>
  BY <1>1, <1>4, <1>5 DEF BootNextInv
<1>7. bootnext!FailureKeeps'
  BY <1>1, <1>4 DEF bootnext!FailureKeeps, bootnext!Asked
<1>8. bootnext!NumberStored'
  <2>1. CASE status' = "error"
    BY <1>1, <1>4, <2>1 DEF bootnext!NumberStored
  <2>2. CASE status' = "success"
    <3>1. store' = <<x % 2^16>>
      BY <1>4, <2>2
    <3>2. \A j \in 1 .. 4 : bootnext!IsHexDigit(argv.text[j]) \/ argv.text[j] > 255
      BY <1>1, <1>2, NumberIs
    <3>3. Len(argv.text) = 4
      BY <1>1 DEF bootnext!check_arg
    <3>4. ASSUME NEW k \in 0 .. 4, bootnext!Leading(argv.text, k)
          PROVE  /\ store'[1] < 16 ^ k
                 /\ \A j \in 1 .. k : (store'[1] \div 16 ^ (k - j)) % 16 = d(j)
      <4>1. x = bootnext!Spelled(16, argv.text, k) /\ \A j \in 1 .. k : d(j) \in 0 .. 15
        BY <1>1, <1>2, <3>4, NumberIs
      <4>2. x % 2^16 = x /\ x < 16^k /\ \A j \in 1 .. k : (x \div 16^(k - j)) % 16 = d(j)
        BY <4>1, DigitsOf
      <4> HIDE DEF x, d
      <4>3. store'[1] = x
        BY <3>1, <4>2
      <4> QED
        BY <4>2, <4>3
    <3> HIDE DEF x
    <3> QED
      BY <1>1, <2>2, <3>2, <3>3, <3>4 DEF bootnext!NumberStored, bootnext!Leading
  <2> QED
    BY <1>4, <2>1, <2>2
<1>9. bootnext!ShowsStored'
  BY <1>1 DEF bootnext!ShowsStored
<1> QED
  BY <1>1, <1>6, <1>7, <1>8, <1>9 DEF BootNextInv

(* What is printed holds the stored number in its lower 16 bits.           *)
LEMMA LowBits ==
    ASSUME NEW j \in TwoBytes, NEW v \in TwoBytes
    PROVE  (2^16 * j + v) % 2^16 = v
BY DEF TwoBytes

LEMMA ShowKeeps ==
    ASSUME BootNextInv, program = "bootnext", bootnext!Show
    PROVE  BootNextInv'
<1>1. /\ at = "run" /\ at' = "shell" /\ argv.ask = "show"
      /\ UNCHANGED <<argv, before, store>>
      /\ store = before /\ shown = <<>> /\ argv \in bootnext!CommandLines
  BY DEF BootNextInv, bootnext!Show, bootnext!Asked, bootnext!Return
<1>2. \/ shown' = <<>>
      \/ store # <<>> /\ \E j \in NumberJunk : shown' = <<2^16 * j + store[1]>>
  BY <1>1 DEF bootnext!Show, bootnext!Return, bootnext!GetVariable, bootnext!Absent
<1>3. bootnext!ShowsStored'
  <2>1. CASE shown' = <<>>
    BY <2>1 DEF bootnext!ShowsStored
  <2>2. ASSUME store # <<>>, NEW j \in NumberJunk, shown' = <<2^16 * j + store[1]>>
        PROVE  bootnext!ShowsStored'
    <3>1. PICK v \in TwoBytes : store = <<v>>
      BY <2>2 DEF BootNextInv
    <3>2. j \in TwoBytes
      BY NumbersAssumption
    <3>3. store[1] = v /\ shown'[1] = 2^16 * j + v
      BY <2>2, <3>1
    <3>4. shown'[1] % 2^16 = v
      BY <3>2, <3>3, LowBits
    <3> QED
      BY <1>1, <3>1, <3>4 DEF bootnext!ShowsStored
  <2> QED
    BY <1>2, <2>1, <2>2
<1>4. bootnext!FailureKeeps' /\ bootnext!NumberStored'
  BY <1>1 DEF bootnext!FailureKeeps, bootnext!NumberStored, bootnext!Asked
<1> QED
  BY <1>1, <1>3, <1>4 DEF BootNextInv

LEMMA BootNextInvKept == BootNextInv /\ [Next]_vars => BootNextInv'
<1> SUFFICES ASSUME BootNextInv, [Next]_vars, program = "bootnext", program' = "bootnext"
             PROVE  BootNextInv'
  BY DEF BootNextInv, Next, Start, Main, OfVar, OfBootNext, OfShellOpt, OfClear, vars
<1> USE DEF BootNextInv, bootnext!FailureKeeps, bootnext!NumberStored, bootnext!ShowsStored
<1>1. \/ \E line \in bootnext!CommandLines : bootnext!Run(line)
      \/ bootnext!Main
      \/ UNCHANGED vars
  BY DEF Next, Start, Main, OfVar, OfBootNext, OfShellOpt, OfClear
<1>2. CASE \E line \in bootnext!CommandLines : bootnext!Run(line)
  BY <1>2 DEF bootnext!Run
<1>3. CASE bootnext!GetArgsFails \/ bootnext!Nothing \/ bootnext!Refuse
  <2>1. /\ at = "run" /\ at' = "shell" /\ UNCHANGED <<store, before, argv, shown>>
        /\ bootnext!Asked({"set"}) => status' # "success"
    BY <1>3
    DEF bootnext!GetArgsFails, bootnext!Nothing, bootnext!Refuse, bootnext!Return, bootnext!Asked
  <2> QED
    BY <2>1 DEF bootnext!Asked
<1>4. CASE bootnext!Delete
  <2>1. /\ at = "run" /\ at' = "shell" /\ argv.ask = "delete" /\ UNCHANGED <<before, argv, shown>>
        /\ \/ store' = store
           \/ store' = <<>> /\ (status' = "success" \/ store = <<>>)
    BY <1>4
    DEF bootnext!Delete, bootnext!Asked, bootnext!Set, bootnext!Return, bootnext!SetVariable,
        bootnext!Absent
  <2> QED
    BY <2>1 DEF bootnext!Asked
<1>5. CASE UNCHANGED vars
  BY <1>5 DEF vars, bootnext!Asked
<1> QED
  BY <1>1, <1>2, <1>3, <1>4, <1>5, SetNextStores, ShowKeeps DEF bootnext!Main

LEMMA BootNextInvHolds == Spec => []BootNextInv
<1>1. Init => BootNextInv
  <2> SUFFICES ASSUME Init, program = "bootnext" PROVE BootNextInv
    BY DEF BootNextInv
  <2>1. bootnext!Init
    BY DEF Init
  <2>2. store \in BootNextInitial /\ before = store /\ at = "shell" /\ shown = <<>>
        /\ argv = [ask |-> "many", text |-> <<>>]
    BY <2>1 DEF bootnext!Init
  <2>3. store = <<>> \/ \E v \in TwoBytes : store = <<v>>
    BY <2>2, NumbersAssumption DEF Absent
  <2>4. argv \in bootnext!CommandLines /\ argv.ask = "many"
    BY <2>2 DEF bootnext!CommandLines
  <2> QED
    BY <2>2, <2>3, <2>4
    DEF BootNextInv, bootnext!FailureKeeps, bootnext!NumberStored, bootnext!ShowsStored,
        bootnext!Asked
<1> QED
  BY <1>1, BootNextInvKept, PTL DEF Spec

(* BootNext is another than before only after a run that succeeded and was *)
(* told to set or delete it.                                               *)
THEOREM BootNextFailureKeeps == Spec => []FailureKeeps
<1>1. BootNextInv => FailureKeeps
  BY DEF BootNextInv, FailureKeeps
<1> QED
  BY <1>1, BootNextInvHolds, PTL

(* The hexadecimal digits that the user typed, four of them or those       *)
(* before a character beyond 255, are the digits of the number stored, in  *)
(* their places; other arguments store nothing.  And the last four digits  *)
(* shown are of the number stored, whatever the upper octets of BootValue  *)
(* held.                                                                   *)
THEOREM BootNextStoresTheNumber == Spec => []NumberStored
<1>1. BootNextInv => NumberStored
  BY DEF BootNextInv, NumberStored
<1> QED
  BY <1>1, BootNextInvHolds, PTL

----------------------------------------------------------------------------
LEMMA TheWords ==
    ASSUME NEW line \in Lines
    PROVE  line \in Seq(STRING) /\ Len(line) \in Nat /\ DOMAIN line = 1 .. Len(line)
BY ProgramsAssumption

(* The words up to the m-th, and those up to the one before it.            *)
LEMMA OneMore ==
    ASSUME NEW s \in Seq(STRING), NEW m \in 2 .. Len(s)
    PROVE  /\ SubSeq(s, 2, m) \in Seq(STRING)
           /\ SubSeq(s, 2, m) = Append(SubSeq(s, 2, m - 1), s[m])
<1> DEFINE one == SubSeq(s, 2, m - 1)
           more == SubSeq(s, 2, m)
<1>1. /\ more \in Seq(STRING) /\ Len(more) = m - 1
      /\ \A k \in 1 .. m - 1 : more[k] = s[k + 1]
  OBVIOUS
<1>2. /\ one \in Seq(STRING) /\ Len(one) = m - 2
      /\ \A k \in 1 .. m - 2 : one[k] = s[k + 1]
  OBVIOUS
<1> HIDE DEF one, more
<1>3. s[m] \in STRING
  OBVIOUS
<1>4. /\ Append(one, s[m]) \in Seq(STRING) /\ Len(Append(one, s[m])) = m - 1
      /\ \A k \in 1 .. m - 1 : Append(one, s[m])[k] = s[k + 1]
  BY <1>2, <1>3
<1>5. more = Append(one, s[m])
  BY <1>1, <1>4
<1> QED
  BY <1>1, <1>5 DEF one, more

LEMMA TwoMore ==
    ASSUME NEW T, NEW s \in Seq(T), NEW a \in T, NEW b
    PROVE  s \o <<a, b>> = Append(Append(s, a), b)
<1> DEFINE U == T \cup {b}
<1>1. s \in Seq(U) /\ a \in U /\ b \in U
  OBVIOUS
<1> HIDE DEF U
<1> QED
  BY <1>1

LEMMA OptionTakes ==
    ASSUME ShellOptInv, program = "shellopt", shellopt!Option
    PROVE  /\ at' = "options" /\ Taken'
           \/ at' = "overrun"
<1>0. SUFFICES ASSUME at' # "overrun" PROVE at' = "options" /\ Taken'
  OBVIOUS
<1>1. /\ at = "options" /\ i <= Len(argv) /\ argv \in Seq(STRING) /\ Len(argv) \in Nat
      /\ i \in 2 .. Len(argv) /\ buffer = SubSeq(argv, 2, i - 1) /\ argv' = argv
  BY TheWords DEF ShellOptInv, Taken, shellopt!Option
<1>2. /\ SubSeq(argv, 2, i) \in Seq(STRING) /\ argv[i] \in STRING
      /\ SubSeq(argv, 2, i) = Append(buffer, argv[i]) /\ buffer \in Seq(STRING)
  BY <1>1, OneMore
<1>3. PICK word \in shellopt!Following :
         IF argv[i] = "-delay" /\ word \in Numbers
         THEN buffer' = buffer \o <<argv[i], word>> /\ i' = i + 2
         ELSE buffer' = Append(buffer, argv[i]) /\ i' = i + 1
  BY <1>0 DEF shellopt!Option, shellopt!is_number, shellopt!Take
<1>6. at' = "options"
  BY <1>0, <1>1 DEF shellopt!Option, shellopt!Take
<1>7. SUFFICES Taken'
  BY <1>6
<1>4. CASE ~(argv[i] = "-delay" /\ word \in Numbers)
  <2>1. buffer' = SubSeq(argv, 2, i) /\ i' = i + 1
    BY <1>2, <1>3, <1>4
  <2>2. i' \in 2 .. Len(argv) + 2 /\ i' # Len(argv) + 2 /\ i' - 1 = i
    BY <1>1, <2>1
  <2> QED
    BY <1>1, <2>1, <2>2 DEF Taken
<1>5. CASE argv[i] = "-delay" /\ word \in Numbers
  <2>1. buffer' = Append(SubSeq(argv, 2, i), word) /\ i' = i + 2
    <3>1. buffer' = buffer \o <<argv[i], word>> /\ i' = i + 2
      BY <1>3, <1>5
    <3>2. buffer \o <<argv[i], word>> = Append(Append(buffer, argv[i]), word)
      BY <1>2, TwoMore
    <3> QED
      BY <1>2, <3>1, <3>2
  <2>2. CASE i < Len(argv)
    <3>1. word = argv[i + 1] /\ i + 1 \in 2 .. Len(argv) /\ (i + 1) - 1 = i
      BY <1>1, <2>2 DEF shellopt!Following
    <3>2. buffer' = SubSeq(argv, 2, i + 1)
      BY <1>1, <2>1, <3>1, OneMore
    <3>3. i' \in 2 .. Len(argv) + 2 /\ i' # Len(argv) + 2 /\ i' - 1 = i + 1
      BY <1>1, <2>1, <2>2
    <3> QED
      BY <1>1, <3>2, <3>3 DEF Taken
  <2>3. CASE ~(i < Len(argv))
    <3>1. i = Len(argv)
      BY <1>1, <2>3
    <3>2. i' \in 2 .. Len(argv) + 2 /\ i' = Len(argv) + 2
      BY <1>1, <2>1, <3>1
    <3> QED
      BY <1>1, <1>5, <2>1, <3>1, <3>2 DEF Taken
  <2> QED
    BY <2>2, <2>3
<1> QED
  BY <1>4, <1>5

LEMMA ShellOptInvKept == ShellOptInv /\ [Next]_vars => ShellOptInv'
<1> SUFFICES ASSUME ShellOptInv, [Next]_vars, program = "shellopt", program' = "shellopt"
             PROVE  ShellOptInv'
  BY DEF ShellOptInv, Next, Start, Main, OfVar, OfBootNext, OfShellOpt, OfClear, vars
<1> USE DEF ShellOptInv, shellopt!AllOrNothing, shellopt!StoredAsGiven
<1>1. (\E line \in Lines : shellopt!Run(line)) \/ shellopt!Main \/ UNCHANGED vars
  BY DEF Next, Start, Main, OfVar, OfBootNext, OfShellOpt, OfClear
<1>2. CASE \E line \in Lines : shellopt!Run(line)
  BY <1>2 DEF shellopt!Run
<1>3. CASE shellopt!GetArgsFails \/ shellopt!Refuse \/ shellopt!BadOption
  <2>1. at' = "shell" /\ status' # "success" /\ UNCHANGED <<store, before, argv>>
        /\ at \in {"run", "options"}
    BY <1>3 DEF shellopt!GetArgsFails, shellopt!Refuse, shellopt!BadOption, shellopt!Return
  <2> QED
    BY <2>1
<1>4. CASE shellopt!Help
  <2>1. at' = "shell" /\ UNCHANGED <<store, before, argv>> /\ at = "run" /\ ~shellopt!SetRun'
    BY <1>4 DEF shellopt!Help, shellopt!Return, shellopt!SetRun
  <2> QED
    BY <2>1
<1>5. CASE shellopt!Begin
  <2>1. /\ at' = "options" /\ UNCHANGED <<store, before, argv>> /\ at = "run"
        /\ Len(argv) > 1 /\ argv[1] = "--set" /\ i' = 2 /\ buffer' = <<>>
    BY <1>5 DEF shellopt!Begin
  <2>2. argv \in Seq(STRING) /\ Len(argv) \in Nat
    BY TheWords
  <2>3. i' \in 2 .. Len(argv) + 2 /\ i' # Len(argv) + 2 /\ i' - 1 = 1
    BY <2>1, <2>2
  <2>4. SubSeq(argv, 2, 1) = <<>>
    BY <2>2
  <2>5. Taken'
    BY <2>1, <2>3, <2>4 DEF Taken
  <2> QED
    BY <2>1, <2>5 DEF shellopt!SetRun
<1>6. CASE shellopt!Option
  <2>1. at = "options" /\ UNCHANGED <<store, before, argv, status>>
    BY <1>6 DEF shellopt!Option
  <2>2. (at' = "options" /\ Taken') \/ at' = "overrun"
    BY <1>6, OptionTakes
  <2> QED
    BY <2>1, <2>2 DEF shellopt!SetRun
<1>7. CASE shellopt!Clear
  <2>1. /\ at = "run" /\ at' = "shell" /\ UNCHANGED <<before, argv>>
        /\ Len(argv) = 1 /\ (status' = "success" \/ store' = store)
    BY <1>7
    DEF shellopt!Clear, shellopt!SetVariableTo, shellopt!SetVariable, shellopt!Return,
        shellopt!Absent
  <2>2. ~shellopt!SetRun'
    BY <2>1 DEF shellopt!SetRun
  <2> QED
    BY <2>1, <2>2
<1>8. CASE shellopt!Set
  <2>1. /\ at = "options" /\ at' = "shell" /\ UNCHANGED <<before, argv>> /\ i > Len(argv)
        /\ \/ status' # "success" /\ store' = store
           \/ status' = "success" /\ store' = buffer
    BY <1>8
    DEF shellopt!Set, shellopt!SetVariableTo, shellopt!SetVariable, shellopt!Return,
        shellopt!Absent
  <2>2. Len(argv) \in Nat
    BY TheWords
  <2>3. i = Len(argv) + 1 \/ i = Len(argv) + 2
    BY <2>1, <2>2 DEF Taken
  <2>4. CASE i = Len(argv) + 1
    <3>1. buffer = SubSeq(argv, 2, Len(argv))
      BY <2>1, <2>2, <2>4 DEF Taken
    <3> QED
      BY <2>1, <3>1
  <2>5. CASE i = Len(argv) + 2
    BY <2>1, <2>5 DEF Taken
  <2> QED
    BY <2>3, <2>4, <2>5
<1>9. CASE UNCHANGED vars
  BY <1>9 DEF vars, ofShellOpt, shellopt!SetRun, Taken
<1> QED
  BY <1>1, <1>2, <1>3, <1>4, <1>5, <1>6, <1>7, <1>8, <1>9 DEF shellopt!Main

LEMMA ShellOptInvHolds == Spec => []ShellOptInv
<1>1. Init => ShellOptInv
  BY ProgramsAssumption
  DEF Init, ShellOptInv, shellopt!Init, shellopt!AllOrNothing, shellopt!StoredAsGiven
<1> QED
  BY <1>1, ShellOptInvKept, PTL DEF Spec

(* Every word behind --set is stored, once and in order, although the loop *)
(* over them takes two with a -delay; and no other word, but for a number  *)
(* that may lie behind the last.  A run that does not succeed has stored   *)
(* none of the options, however many it had taken.  This is of the lines   *)
(* that buffer has room for: a run that overruns it (shellopt.c:158-165)   *)
(* is not followed.                                                        *)
THEOREM ShellOptStoresAsGiven == Spec => []StoredAsGiven
<1>1. ShellOptInv => StoredAsGiven
  BY DEF ShellOptInv, StoredAsGiven
<1> QED
  BY <1>1, ShellOptInvHolds, PTL

----------------------------------------------------------------------------
(* A sequence of variables without its k-th.                               *)
Cut(s, k) == SubSeq(s, 1, k - 1) \o SubSeq(s, k + 1, Len(s))

LEMMA WithoutOne ==
    ASSUME NEW s \in Seq(Variables), Distinct(s), NEW k \in DOMAIN s
    PROVE  /\ Cut(s, k) \in Seq(Variables) /\ Distinct(Cut(s, k))
           /\ clearcrashvars!Elements(Cut(s, k)) = clearcrashvars!Elements(s) \ {s[k]}
           /\ \A u, v \in clearcrashvars!Elements(Cut(s, k)) :
                 clearcrashvars!Ahead(Cut(s, k), u, v) <=> clearcrashvars!Ahead(s, u, v)
<1> DEFINE n == Len(s)
           t == Cut(s, k)
           front == SubSeq(s, 1, k - 1)
           back == SubSeq(s, k + 1, n)
<1>1. n \in Nat /\ DOMAIN s = 1 .. n /\ k \in 1 .. n
  OBVIOUS
<1>2. /\ front \in Seq(Variables) /\ Len(front) = k - 1
      /\ \A m \in 1 .. k - 1 : front[m] = s[m]
  BY <1>1, SMTT(30)
<1>3. /\ back \in Seq(Variables) /\ Len(back) = n - k
      /\ \A m \in 1 .. n - k : back[m] = s[k + m]
  BY <1>1, SMTT(30)
<1>4. t = front \o back
  BY DEF Cut
<1> HIDE DEF front, back, n, t
<1>5. t \in Seq(Variables) /\ Len(t) = n - 1 /\ DOMAIN t = 1 .. n - 1
      /\ \A m \in 1 .. n - 1 : t[m] = IF m <= k - 1 THEN front[m] ELSE back[m - (k - 1)]
  <2>1. /\ t \in Seq(Variables) /\ Len(t) = Len(front) + Len(back)
        /\ \A m \in 1 .. Len(front) + Len(back) :
              t[m] = IF m <= Len(front) THEN front[m] ELSE back[m - Len(front)]
    <3>1. /\ front \o back \in Seq(Variables)
          /\ Len(front \o back) = Len(front) + Len(back)
          /\ \A m \in 1 .. Len(front) + Len(back) :
                (front \o back)[m] = IF m <= Len(front) THEN front[m] ELSE back[m - Len(front)]
      BY <1>2, <1>3, ConcatProperties
    <3> QED
      BY <1>4, <3>1
  <2>2. Len(front) + Len(back) = n - 1
    BY <1>1, <1>2, <1>3
  <2>3. DOMAIN t = 1 .. Len(t)
    BY <2>1
  <2> QED
    BY <1>2, <2>1, <2>2, <2>3
<1>6. \A m \in 1 .. n - 1 : t[m] = IF m < k THEN s[m] ELSE s[m + 1]
  <2> SUFFICES ASSUME NEW m \in 1 .. n - 1
               PROVE  t[m] = IF m < k THEN s[m] ELSE s[m + 1]
    OBVIOUS
  <2>1. CASE m < k
    BY <1>1, <1>2, <1>5, <2>1
  <2>2. CASE ~(m < k)
    <3>1. m - (k - 1) \in 1 .. n - k /\ k + (m - (k - 1)) = m + 1 /\ ~(m <= k - 1)
      <4>1. n \in Int /\ k \in Int /\ m \in Int /\ m <= n - 1 /\ k <= m
        BY <1>1, <2>2
      <4> QED
        BY ONLY <4>1
    <3>2. t[m] = back[m - (k - 1)]
      BY <1>5, <3>1
    <3> QED
      BY <1>3, <2>2, <3>1, <3>2
  <2> QED
    BY <2>1, <2>2
(* where an element of the one is in the other                             *)
<1>7. \A m \in 1 .. n - 1 : \E j \in 1 .. n : /\ j # k /\ t[m] = s[j]
                                              /\ j = IF m < k THEN m ELSE m + 1
  <2> SUFFICES ASSUME NEW m \in 1 .. n - 1
               PROVE  \E j \in 1 .. n : j # k /\ t[m] = s[j] /\ j = IF m < k THEN m ELSE m + 1
    OBVIOUS
  <2>1. m \in 1 .. n /\ m + 1 \in 1 .. n /\ (m < k => m # k) /\ (~(m < k) => m + 1 # k)
    BY <1>1
  <2> QED
    BY <1>6, <2>1
<1>8. \A j \in 1 .. n : j # k => \E m \in 1 .. n - 1 : /\ t[m] = s[j]
                                                       /\ m = IF j < k THEN j ELSE j - 1
  <2> SUFFICES ASSUME NEW j \in 1 .. n, j # k
               PROVE  \E m \in 1 .. n - 1 : t[m] = s[j] /\ m = IF j < k THEN j ELSE j - 1
    OBVIOUS
  <2>1. CASE j < k
    BY <1>1, <1>6, <2>1
  <2>2. CASE ~(j < k)
    <3>1. j - 1 \in 1 .. n - 1 /\ ~(j - 1 < k) /\ (j - 1) + 1 = j
      BY <1>1, <2>2
    <3> QED
      BY <1>6, <2>2, <3>1
  <2> QED
    BY <2>1, <2>2
<1>9. \A i1, i2 \in 1 .. n : s[i1] = s[i2] => i1 = i2
  BY <1>1 DEF Distinct
<1>10. Distinct(t)
  <2> SUFFICES ASSUME NEW a \in 1 .. n - 1, NEW b \in 1 .. n - 1, t[a] = t[b] PROVE a = b
    BY <1>5 DEF Distinct
  <2>1. PICK a1 \in 1 .. n : t[a] = s[a1] /\ a1 = IF a < k THEN a ELSE a + 1
    BY <1>7
  <2>2. PICK b1 \in 1 .. n : t[b] = s[b1] /\ b1 = IF b < k THEN b ELSE b + 1
    BY <1>7
  <2>3. a1 = b1
    BY <1>9, <2>1, <2>2
  <2> QED
    BY <1>1, <2>1, <2>2, <2>3
<1>11. clearcrashvars!Elements(t) = clearcrashvars!Elements(s) \ {s[k]}
  <2>1. clearcrashvars!Elements(t) = {t[m] : m \in 1 .. n - 1}
    BY <1>5 DEF clearcrashvars!Elements
  <2>2. clearcrashvars!Elements(s) = {s[m] : m \in 1 .. n}
    BY <1>1 DEF clearcrashvars!Elements
  <2> QED
    <3>1. ASSUME NEW m \in 1 .. n - 1
          PROVE  t[m] \in {s[j] : j \in 1 .. n} \ {s[k]}
      <4>1. PICK j \in 1 .. n : j # k /\ t[m] = s[j]
        BY <1>7
      <4> QED
        BY <1>1, <1>9, <4>1
    <3>2. ASSUME NEW j \in 1 .. n, s[j] # s[k]
          PROVE  s[j] \in {t[m] : m \in 1 .. n - 1}
      BY <1>8, <3>2
    <3> QED
      BY <2>1, <2>2, <3>1, <3>2
<1>12. ASSUME NEW u, NEW v, clearcrashvars!Ahead(t, u, v)
       PROVE  clearcrashvars!Ahead(s, u, v)
  <2>1. PICK a, b \in 1 .. n - 1 : a < b /\ t[a] = u /\ t[b] = v
    BY <1>5, <1>12 DEF clearcrashvars!Ahead
  <2>2. PICK a1 \in 1 .. n : t[a] = s[a1] /\ a1 = IF a < k THEN a ELSE a + 1
    BY <1>7
  <2>3. PICK b1 \in 1 .. n : t[b] = s[b1] /\ b1 = IF b < k THEN b ELSE b + 1
    BY <1>7
  <2>4. a1 < b1
    BY <1>1, <2>1, <2>2, <2>3
  <2> QED
    BY <1>1, <2>1, <2>2, <2>3, <2>4 DEF clearcrashvars!Ahead
<1>13. ASSUME NEW u \in clearcrashvars!Elements(t), NEW v \in clearcrashvars!Elements(t),
              clearcrashvars!Ahead(s, u, v)
       PROVE  clearcrashvars!Ahead(t, u, v)
  <2>1. PICK a, b \in 1 .. n : a < b /\ s[a] = u /\ s[b] = v
    BY <1>1, <1>13 DEF clearcrashvars!Ahead
  <2>2. a # k /\ b # k
    BY <1>11, <2>1
  <2>3. PICK a1 \in 1 .. n - 1 : t[a1] = s[a] /\ a1 = IF a < k THEN a ELSE a - 1
    BY <1>8, <2>2
  <2>4. PICK b1 \in 1 .. n - 1 : t[b1] = s[b] /\ b1 = IF b < k THEN b ELSE b - 1
    BY <1>8, <2>2
  <2>5. a1 < b1
    BY <1>1, <2>1, <2>2, <2>3, <2>4
  <2> QED
    BY <1>5, <2>1, <2>3, <2>4, <2>5 DEF clearcrashvars!Ahead
<1> QED
  BY <1>5, <1>10, <1>11, <1>12, <1>13 DEF t

(* And without the first, and with one more at the end.                    *)
LEMMA TailHas ==
    ASSUME NEW s \in Seq(Variables), Distinct(s), s # <<>>
    PROVE  /\ Tail(s) \in Seq(Variables) /\ Distinct(Tail(s))
           /\ s[1] \in clearcrashvars!Elements(s)
           /\ clearcrashvars!Elements(Tail(s)) = clearcrashvars!Elements(s) \ {s[1]}
<1>1. 1 \in DOMAIN s /\ Tail(s) \in Seq(Variables)
  OBVIOUS
<1>2. Tail(s) = Cut(s, 1)
  <2>1. Tail(s) = SubSeq(s, 2, Len(s))
    BY TailIsSubSeq
  <2>2. SubSeq(s, 1, 1 - 1) = <<>> /\ SubSeq(s, 1 + 1, Len(s)) = SubSeq(s, 2, Len(s))
    OBVIOUS
  <2>3. <<>> \o Tail(s) = Tail(s)
    BY <1>1
  <2> QED
    BY <2>1, <2>2, <2>3 DEF Cut
<1> QED
  BY <1>1, <1>2, WithoutOne, ZenonT(30) DEF clearcrashvars!Elements

LEMMA AppendHas ==
    ASSUME NEW s \in Seq(Variables), Distinct(s), NEW v \in Variables,
           v \notin clearcrashvars!Elements(s)
    PROVE  /\ Append(s, v) \in Seq(Variables) /\ Distinct(Append(s, v))
           /\ clearcrashvars!Elements(Append(s, v)) = clearcrashvars!Elements(s) \cup {v}
<1> DEFINE n == Len(s)
           t == Append(s, v)
<1>1. n \in Nat /\ DOMAIN s = 1 .. n
  OBVIOUS
<1>2. t \in Seq(Variables) /\ DOMAIN t = 1 .. n + 1 /\ t[n + 1] = v
      /\ \A k \in 1 .. n : t[k] = s[k]
  OBVIOUS
<1> HIDE DEF n, t
<1>3. \A k \in 1 .. n + 1 : k = n + 1 \/ k \in 1 .. n
  BY <1>1
<1>4. \A k \in 1 .. n : s[k] # v
  BY <1>1 DEF clearcrashvars!Elements
<1>5. n + 1 \in 1 .. n + 1 /\ \A k \in 1 .. n : k \in 1 .. n + 1
  BY <1>1
<1>6. Distinct(t)
  BY <1>1, <1>2, <1>3, <1>4 DEF Distinct
<1>7. clearcrashvars!Elements(t) = clearcrashvars!Elements(s) \cup {v}
  BY <1>1, <1>2, <1>3, <1>5 DEF clearcrashvars!Elements
<1> QED
  BY <1>2, <1>6, <1>7 DEF t

(* What firmware answers to a caller that has got to the p-th variable.    *)
LEMMA NextIs ==
    ASSUME store \in Seq(Variables), Distinct(store), store = before,
           NEW p \in 0 .. Len(before), Name = IF p = 0 THEN "start" ELSE before[p]
    PROVE  clearcrashvars!NextName(Name) =
             IF p < Len(before) THEN before[p + 1] ELSE "not_found"
<1> DEFINE n == Len(store)
           Place(k) == store[k] = Name
<1>1. n \in Nat /\ DOMAIN store = 1 .. n /\ \A k \in 1 .. n : store[k] \in Variables
  OBVIOUS
<1>2. \A k \in 1 .. n : store[k] # "start"
  BY <1>1, ProgramsAssumption
<1>3. \A j, k \in 1 .. n : store[j] = store[k] => j = k
  BY <1>1 DEF Distinct
<1>4. clearcrashvars!NextName(Name) =
        IF Name = "start" /\ store # <<>> THEN store[1]
        ELSE IF \E k \in 1 .. n - 1 : Place(k) THEN store[1 + CHOOSE k \in 1 .. n - 1 : Place(k)]
        ELSE "not_found"
  BY DEF clearcrashvars!NextName
<1>5. store = <<>> <=> n = 0
  OBVIOUS
<1> HIDE DEF n
<1>6. CASE p = 0 /\ n # 0
  BY <1>1, <1>4, <1>5, <1>6 DEF n
<1>7. CASE n = 0
  <2>1. ~\E k \in 1 .. n - 1 : Place(k)
    BY <1>7
  <2>2. p = 0 /\ ~(p < Len(before))
    BY <1>7 DEF n
  <2> QED
    BY <1>4, <1>5, <1>7, <2>1, <2>2
<1>8. CASE p # 0 /\ p < n
  <2>1. p \in 1 .. n - 1 /\ p \in 1 .. n /\ Place(p) /\ Name # "start"
    BY <1>1, <1>2, <1>8
  <2>2. \A k \in 1 .. n - 1 : Place(k) => k = p
    BY <1>1, <1>3, <1>8
  <2>3. (CHOOSE k \in 1 .. n - 1 : Place(k)) = p
    <3> HIDE DEF Place
    <3> QED
      BY <2>1, <2>2
  <2>4. 1 + p = p + 1
    BY <1>8
  <2> HIDE DEF Place
  <2>5. clearcrashvars!NextName(Name) = store[p + 1]
    BY <1>4, <2>1, <2>3, <2>4
  <2> QED
    BY <1>8, <2>5 DEF n
<1>9. CASE p # 0 /\ p = n
  <2>1. p \in 1 .. n /\ Name = store[p] /\ Name # "start"
    BY <1>1, <1>2, <1>9
  <2>2. ~\E k \in 1 .. n - 1 : Place(k)
    <3> SUFFICES ASSUME NEW k \in 1 .. n - 1, store[k] = store[p] PROVE FALSE
      BY <2>1
    <3>1. k \in 1 .. n /\ k # p
      BY <1>1, <1>9
    <3> QED
      BY <1>3, <2>1, <3>1
  <2>3. ~(p < Len(before))
    BY <1>9 DEF n
  <2> HIDE DEF Place
  <2> QED
    BY <1>4, <2>1, <2>2, <2>3
<1>10. Len(before) = n
  BY DEF n
<1>11. n = 0 \/ (p = 0 /\ n # 0) \/ (p # 0 /\ p < n) \/ (p # 0 /\ p = n)
  BY <1>1, <1>10
<1> QED
  BY <1>6, <1>7, <1>8, <1>9, <1>11

LEMMA EnumerateKeeps ==
    ASSUME ClearInv, program = "clearcrashvars", program' = program, clearcrashvars!Enumerate
    PROVE  ClearInv'
<1>1. /\ at = "enumerate" /\ mode \in 0 .. 3 /\ mode # 0
      /\ store = before /\ printed = {} /\ failed = {}
      /\ before \in Seq(Variables) /\ Distinct(before)
      /\ CrashVarList \in Seq(Variables) /\ Distinct(CrashVarList)
      /\ clearcrashvars!OnlyCrashDeleted
      /\ UNCHANGED <<store, argv, mode, printed, failed, before>>
  BY DEF ClearInv, clearcrashvars!Enumerate, clearcrashvars!history
<1>2. PICK p \in 0 .. Len(before) : HasGotTo(p)
  BY <1>1 DEF ClearInv
<1> DEFINE next == clearcrashvars!NextName(Name)
<1>3. next = IF p < Len(before) THEN before[p + 1] ELSE "not_found"
  BY <1>1, <1>2, NextIs DEF HasGotTo
<1>4. Len(before) \in Nat /\ DOMAIN before = 1 .. Len(before)
      /\ \A k \in 1 .. Len(before) : before[k] \in Variables /\ before[k] # "not_found"
  <2>1. Len(before) \in Nat /\ DOMAIN before = 1 .. Len(before)
        /\ \A k \in 1 .. Len(before) : before[k] \in Variables
    BY <1>1
  <2> QED
    BY <2>1, ProgramsAssumption
<1>5. clearcrashvars!OnlyCrashDeleted'
  BY <1>1
  DEF clearcrashvars!OnlyCrashDeleted, clearcrashvars!Elements, clearcrashvars!Ahead
<1>6. \/ /\ next = "not_found" /\ at' = "list" /\ status' = "not_found"
         /\ UNCHANGED <<Name, CrashVarList>>
      \/ /\ next # "not_found" /\ next \notin Long /\ Name' = next
         /\ CrashVarList' = IF next \in Crash THEN Append(CrashVarList, next) ELSE CrashVarList
         /\ UNCHANGED <<at, status>>
      \/ /\ next # "not_found" /\ next \in Long
         /\ at' = "returned" /\ status' = "buffer_too_small" /\ UNCHANGED <<Name, CrashVarList>>
  BY DEF clearcrashvars!Enumerate, clearcrashvars!Return, clearcrashvars!IsCrashVar
<1> HIDE DEF next
<1>7. CASE next = "not_found"
  <2>1. /\ at' = "list" /\ status' = "not_found" /\ UNCHANGED <<Name, CrashVarList>>
    BY <1>6, <1>7
  <2>2. p = Len(before)
    <3>1. p < Len(before) => p + 1 \in 1 .. Len(before)
      BY <1>4
    <3>2. ~(p < Len(before))
      BY <1>3, <1>4, <1>7, <3>1
    <3>3. Len(before) \in Nat /\ p \in 0 .. Len(before)
      BY <1>4
    <3> QED
      BY ONLY <3>2, <3>3
  <2>3. clearcrashvars!Elements(CrashVarList) = clearcrashvars!Elements(before) \cap Crash
    BY <1>2, <1>4, <2>2 DEF HasGotTo, UpTo, clearcrashvars!Elements
  <2>4. /\ clearcrashvars!Elements(CrashVarList)' = clearcrashvars!Elements(before) \cap Crash
        /\ clearcrashvars!Elements(before)' = clearcrashvars!Elements(before)
        /\ clearcrashvars!Elements(store)' = clearcrashvars!Elements(before)
    BY <1>1, <2>1, <2>3
  <2>5. clearcrashvars!AllWorkedOff'
    BY <1>1, <2>4 DEF clearcrashvars!AllWorkedOff
  <2>6. Distinct(before)' /\ Distinct(store)' /\ Distinct(CrashVarList)'
    BY <1>1, <2>1 DEF Distinct
  <2> QED
    BY <1>1, <1>5, <2>1, <2>4, <2>5, <2>6 DEF ClearInv, Broken
<1>8. CASE next # "not_found" /\ next \notin Long
  <2>1. /\ at' = "enumerate" /\ Name' = next
        /\ CrashVarList' = IF next \in Crash THEN Append(CrashVarList, next) ELSE CrashVarList
    BY <1>1, <1>6, <1>8
  <2>2. p < Len(before) /\ next = before[p + 1]
    BY <1>3, <1>8
  <2>3. p + 1 \in 1 .. Len(before) /\ p + 1 \in 0 .. Len(before) /\ p + 1 # 0
    BY <1>4, <2>2
  <2>4. next \in Variables
    BY <1>4, <2>2, <2>3
  <2>5. next \notin UpTo(p)
    <3> SUFFICES ASSUME NEW k \in 1 .. p, before[k] = before[p + 1] PROVE FALSE
      BY <2>2 DEF UpTo
    <3>1. k \in 1 .. Len(before) /\ k # p + 1
      BY <1>4, <2>3
    <3> QED
      BY <1>1, <1>4, <2>3, <3>1 DEF Distinct
  <2>6. UpTo(p + 1) = UpTo(p) \cup {next}
    <3>1. \A k \in 1 .. p + 1 : k \in 1 .. p \/ k = p + 1
      BY <1>4
    <3>2. p + 1 \in 1 .. p + 1 /\ \A k \in 1 .. p : k \in 1 .. p + 1
      BY <1>4
    <3> QED
      BY <2>2, <3>1, <3>2 DEF UpTo
  <2>7. /\ CrashVarList' \in Seq(Variables) /\ Distinct(CrashVarList')
        /\ clearcrashvars!Elements(CrashVarList') = UpTo(p + 1) \cap Crash
    <3>1. clearcrashvars!Elements(CrashVarList) = UpTo(p) \cap Crash
      BY <1>2 DEF HasGotTo
    <3>2. CASE next \in Crash
      BY <1>1, <2>1, <2>4, <2>5, <2>6, <3>1, <3>2, AppendHas
    <3>3. CASE next \notin Crash
      BY <1>1, <2>1, <2>6, <3>1, <3>3
    <3> QED
      BY <3>2, <3>3
  <2>8. HasGotTo(p + 1)'
    <3>1. UpTo(p + 1)' = UpTo(p + 1)
      BY <1>1 DEF UpTo
    <3>2. clearcrashvars!Elements(CrashVarList)' = clearcrashvars!Elements(CrashVarList')
      BY DEF clearcrashvars!Elements
    <3>3. (HasGotTo(p + 1))' <=>
            /\ Name' = IF p + 1 = 0 THEN "start" ELSE before'[p + 1]
            /\ clearcrashvars!Elements(CrashVarList)' = UpTo(p + 1)' \cap Crash
      BY DEF HasGotTo
    <3> QED
      BY <1>1, <2>1, <2>2, <2>3, <2>7, <3>1, <3>2, <3>3
  <2>9. clearcrashvars!AllWorkedOff'
    BY <2>1 DEF clearcrashvars!AllWorkedOff
  <2>10. Distinct(before)' /\ Distinct(store)' /\ Distinct(CrashVarList)'
    BY <1>1, <2>7 DEF Distinct
  <2>11. \E q \in 0 .. Len(before') : HasGotTo(q)'
    BY <1>1, <2>3, <2>8
  <2> QED
    BY <1>1, <1>5, <2>1, <2>7, <2>9, <2>10, <2>11 DEF ClearInv
<1>9. CASE next # "not_found" /\ next \in Long
  <2>1. at' = "returned" /\ status' = "buffer_too_small" /\ UNCHANGED <<Name, CrashVarList>>
    BY <1>6, <1>9
  <2>2. clearcrashvars!AllWorkedOff'
    BY <2>1 DEF clearcrashvars!AllWorkedOff
  <2>3. Distinct(before)' /\ Distinct(store)' /\ Distinct(CrashVarList)'
    BY <1>1, <2>1 DEF Distinct
  <2> QED
    BY <1>1, <1>5, <2>1, <2>2, <2>3 DEF ClearInv
<1> QED
  BY <1>7, <1>8, <1>9

(* The first entry is printed, deleted or both, and leaves the list.       *)
LEMMA WorkOffKeeps ==
    ASSUME ClearInv, program = "clearcrashvars", program' = program, clearcrashvars!WorkOff
    PROVE  ClearInv'
<1> DEFINE v == CrashVarList[1]
           Has(s) == clearcrashvars!Elements(s)
           done == (Has(before) \cap Crash) \ Has(CrashVarList)
           done1 == (Has(before) \cap Crash) \ Has(CrashVarList')
<1>1. /\ at = "list" /\ at' = "list" /\ CrashVarList # <<>> /\ mode \in 1 .. 3 /\ mode' = mode
      /\ before' = before /\ before \in Seq(Variables) /\ Distinct(before)
      /\ store \in Seq(Variables) /\ Distinct(store)
      /\ CrashVarList \in Seq(Variables) /\ Distinct(CrashVarList)
      /\ CrashVarList' = Tail(CrashVarList)
      /\ status \notin Broken
      /\ Has(CrashVarList) \subseteq Crash /\ Has(CrashVarList) \subseteq Has(store)
      /\ printed' = IF mode \in {1, 3} THEN printed \cup {v} ELSE printed
  BY DEF ClearInv, clearcrashvars!WorkOff, clearcrashvars!RemoveFirst
<1>2. /\ mode \in {1, 3} => printed = done
      /\ mode \in {2, 3} => Has(store) \cap done = failed
  BY <1>1 DEF ClearInv, clearcrashvars!AllWorkedOff
<1>3. /\ Has(store) \subseteq Has(before) /\ Has(before) \ Has(store) \subseteq Crash
      /\ \A u, w \in Has(store) : clearcrashvars!Ahead(store, u, w) <=> clearcrashvars!Ahead(before, u, w)
      /\ mode \notin {2, 3} => store = before
  BY DEF ClearInv, clearcrashvars!OnlyCrashDeleted
<1>4. /\ CrashVarList' \in Seq(Variables) /\ Distinct(CrashVarList')
      /\ v \in Has(CrashVarList) /\ Has(CrashVarList') = Has(CrashVarList) \ {v}
  BY <1>1, TailHas
<1>5. \/ UNCHANGED <<store, status, failed>> /\ mode = 1
      \/ mode \in {2, 3} /\ store' = store /\ status' = "error" /\ failed' = failed \cup {v}
      \/ /\ mode \in {2, 3} /\ store' = clearcrashvars!Without(v)
         /\ status' = "success" /\ failed' = failed
  BY <1>1 DEF clearcrashvars!WorkOff
<1>6. /\ store' \in Seq(Variables) /\ Distinct(store')
      /\ Has(store') = Has(store) \/ (mode \in {2, 3} /\ Has(store') = Has(store) \ {v})
      /\ mode = 1 => store' = store
      /\ mode \in {2, 3} => \/ Has(store') = Has(store) /\ failed' = failed \cup {v}
                            \/ Has(store') = Has(store) \ {v} /\ failed' = failed
      /\ \A u, w \in Has(store') : clearcrashvars!Ahead(store', u, w) <=> clearcrashvars!Ahead(store, u, w)
  <2>1. CASE store' = store /\ (mode = 1 \/ (mode \in {2, 3} /\ failed' = failed \cup {v}))
    BY <1>1, <2>1
  <2>2. CASE mode \in {2, 3} /\ store' = clearcrashvars!Without(v) /\ failed' = failed
    <3> DEFINE k == CHOOSE j \in DOMAIN store : store[j] = v
    <3>1. \E j \in DOMAIN store : store[j] = v
      BY <1>1, <1>4 DEF clearcrashvars!Elements
    <3>2. k \in DOMAIN store /\ store[k] = v
      BY <3>1
    <3>3. store' = Cut(store, k)
      BY <2>2 DEF clearcrashvars!Without, Cut
    <3> HIDE DEF k, v
    <3>4. store \in Seq(Variables) /\ Distinct(store) /\ k \in DOMAIN store
      BY <1>1, <3>2
    <3>5. /\ store' \in Seq(Variables) /\ Distinct(store')
          /\ Has(store') = Has(store) \ {store[k]}
          /\ \A u, w \in Has(store') :
                clearcrashvars!Ahead(store', u, w) <=> clearcrashvars!Ahead(store, u, w)
      BY <3>3, <3>4, WithoutOne
    <3> QED
      BY <2>2, <3>2, <3>5
  <2> QED
    BY <1>5, <2>1, <2>2
<1>7. status' \notin Broken
  BY <1>1, <1>5 DEF Broken
<1> HIDE DEF v
<1>8. v \in Has(store) /\ v \in Has(before) /\ v \in Crash
  BY <1>1, <1>3, <1>4
<1>9. done1 = done \cup {v} /\ v \notin done
  BY <1>4, <1>8
<1>10. /\ Has(CrashVarList') \subseteq Crash /\ Has(CrashVarList') \subseteq Has(store')
  BY <1>1, <1>4, <1>6
<1>11. /\ mode \in {1, 3} => printed' = done1
       /\ mode \in {2, 3} => Has(store') \cap done1 = failed'
  <2>1. mode \in {1, 3} => printed' = done1
    BY <1>1, <1>2, <1>9
  <2>2. CASE mode \in {2, 3}
    <3>1. Has(store) \cap done = failed
      BY <1>2, <2>2
    <3> HIDE DEF done, done1, Has
    <3>2. ASSUME Has(store') = Has(store), failed' = failed \cup {v}
          PROVE  Has(store') \cap done1 = failed'
      BY <1>8, <1>9, <3>1, <3>2
    <3>3. ASSUME Has(store') = Has(store) \ {v}, failed' = failed
          PROVE  Has(store') \cap done1 = failed'
      BY <1>9, <3>1, <3>3
    <3> QED
      BY <1>6, <2>1, <2>2, <3>2, <3>3
  <2> QED
    BY <2>1, <2>2
<1>12. /\ Has(store)' = Has(store') /\ Has(before)' = Has(before)
       /\ Has(CrashVarList)' = Has(CrashVarList')
  BY <1>1 DEF clearcrashvars!Elements
<1>13. clearcrashvars!AllWorkedOff'
  BY <1>1, <1>11, <1>12 DEF clearcrashvars!AllWorkedOff
<1>14. clearcrashvars!OnlyCrashDeleted'
  <2>1. Has(store') \subseteq Has(before) /\ Has(before) \ Has(store') \subseteq Crash
    BY <1>3, <1>6, <1>8
  <2>2. \A u, w \in Has(store') : clearcrashvars!Ahead(store', u, w) <=> clearcrashvars!Ahead(before, u, w)
    BY <1>3, <1>6
  <2>3. mode' \notin {2, 3} => store' = before'
    BY <1>1, <1>3, <1>6
  <2> QED
    BY <1>1, <1>12, <2>1, <2>2, <2>3, SMTT(30)
    DEF clearcrashvars!OnlyCrashDeleted, clearcrashvars!Ahead
<1>15. Distinct(before)' /\ Distinct(store)' /\ Distinct(CrashVarList)'
  BY <1>1, <1>4, <1>6 DEF Distinct
<1> QED
  BY <1>1, <1>4, <1>6, <1>7, <1>10, <1>12, <1>13, <1>14, <1>15 DEF ClearInv

(* A step that leaves the store and the list alone.                        *)
LEMMA ClearSettled ==
    ASSUME ClearInv, program = "clearcrashvars", program' = program,
           UNCHANGED <<store, before, CrashVarList, Name, printed, failed>>,
           mode' \in 0 .. 3, mode' = mode \/ at = "args",
           \/ at' = at /\ UNCHANGED <<mode, status>>
           \/ at = "args" /\ at' = "enumerate" /\ mode' # 0
           \/ at' = "returned" /\ (at \in {"args", "enumerate"} \/ status' = status)
    PROVE  ClearInv'
<1>1. Distinct(before)' /\ Distinct(store)' /\ Distinct(CrashVarList)'
  <2>1. Distinct(before) /\ Distinct(store) /\ Distinct(CrashVarList)
    BY DEF ClearInv
  <2> QED
    BY <2>1 DEF Distinct
<1>2. clearcrashvars!OnlyCrashDeleted'
  <2>1. clearcrashvars!OnlyCrashDeleted /\ (mode = 0 \/ mode' = mode)
    BY DEF ClearInv
  <2> QED
    BY <2>1 DEF clearcrashvars!OnlyCrashDeleted, clearcrashvars!Elements, clearcrashvars!Ahead
<1>3. clearcrashvars!AllWorkedOff'
  <2>1. clearcrashvars!AllWorkedOff
    BY DEF ClearInv
  <2>2. at' = "list" => at = "list" /\ mode' = mode
    OBVIOUS
  <2> QED
    BY <2>1, <2>2 DEF clearcrashvars!AllWorkedOff, clearcrashvars!Elements
<1>4. at' = "enumerate" => \E p \in 0 .. Len(before') : HasGotTo(p)'
  <2>1. CASE at = "args"
    <3>1. Name = "start" /\ CrashVarList = <<>> /\ Len(before) \in Nat
      BY <2>1 DEF ClearInv
    <3>2. clearcrashvars!Elements(<<>>) = {} /\ UpTo(0) = {}
      BY DEF clearcrashvars!Elements, UpTo
    <3>3. HasGotTo(0)
      BY <3>1, <3>2 DEF HasGotTo
    <3>4. HasGotTo(0)'
      BY <3>3 DEF HasGotTo, UpTo, clearcrashvars!Elements
    <3>5. 0 \in 0 .. Len(before')
      BY <3>1
    <3> QED
      BY <3>4, <3>5
  <2>2. CASE at = "enumerate"
    <3>1. PICK p \in 0 .. Len(before) : HasGotTo(p)
      BY <2>2 DEF ClearInv
    <3>2. HasGotTo(p)'
      BY <3>1 DEF HasGotTo, UpTo, clearcrashvars!Elements
    <3> QED
      BY <3>2
  <2> QED
    BY <2>1, <2>2
<1>5. clearcrashvars!Elements(CrashVarList)' = clearcrashvars!Elements(CrashVarList)
      /\ clearcrashvars!Elements(store)' = clearcrashvars!Elements(store)
  BY DEF clearcrashvars!Elements
<1>6. /\ at \in {"args", "enumerate", "list", "returned"} /\ mode \in 0 .. 3
      /\ before \in Seq(Variables) /\ store \in Seq(Variables) /\ CrashVarList \in Seq(Variables)
      /\ at = "args" => mode = 0 /\ Name = "start" /\ CrashVarList = <<>>
      /\ at \in {"enumerate", "list"} => mode # 0
      /\ at \in {"args", "enumerate"} => store = before /\ printed = {} /\ failed = {}
      /\ at = "list" => /\ status \notin Broken
                        /\ clearcrashvars!Elements(CrashVarList) \subseteq Crash
                        /\ clearcrashvars!Elements(CrashVarList) \subseteq clearcrashvars!Elements(store)
      /\ at = "returned" /\ status \in Broken => store = before
  BY DEF ClearInv
<1> QED
  BY <1>1, <1>2, <1>3, <1>4, <1>5, <1>6 DEF ClearInv

LEMMA ClearInvKept == ClearInv /\ [Next]_vars => ClearInv'
<1> SUFFICES ASSUME ClearInv, [Next]_vars, program = "clearcrashvars", program' = "clearcrashvars"
             PROVE  ClearInv'
  BY DEF ClearInv, Next, Start, Main, OfVar, OfBootNext, OfShellOpt, OfClear, vars
<1>1. clearcrashvars!Next \/ UNCHANGED vars
  BY DEF Next, Start, Main, OfVar, OfBootNext, OfShellOpt, OfClear
<1>2. CASE clearcrashvars!GetArgsFails \/ clearcrashvars!ParseArgs
  <2>1. at = "args" /\ mode \in 0 .. 3 /\ clearcrashvars!ModeOf(argv) \in 0 .. 3
    <3>1. clearcrashvars!ModeOf(argv) \in 0 .. 3
      BY DEF clearcrashvars!ModeOf
    <3> QED
      BY <1>2, <3>1 DEF ClearInv, clearcrashvars!GetArgsFails, clearcrashvars!ParseArgs
  <2>2. /\ UNCHANGED <<store, before, CrashVarList, Name, printed, failed>> /\ mode' \in 0 .. 3
        /\ (at' = "enumerate" /\ mode' # 0) \/ at' = "returned"
    BY <1>2, <2>1
    DEF clearcrashvars!GetArgsFails, clearcrashvars!ParseArgs, clearcrashvars!Return,
        clearcrashvars!history
  <2> QED
    BY <2>1, <2>2, ClearSettled
<1>3. CASE clearcrashvars!EnumerationFails
  <2>1. /\ at = "enumerate" /\ at' = "returned" /\ mode' = mode /\ mode \in 0 .. 3
        /\ UNCHANGED <<store, before, CrashVarList, Name, printed, failed>>
    BY <1>3
    DEF ClearInv, clearcrashvars!EnumerationFails, clearcrashvars!Return, clearcrashvars!history
  <2> QED
    BY <2>1, ClearSettled
<1>4. CASE clearcrashvars!Finish
  <2>1. /\ at = "list" /\ at' = "returned" /\ mode' = mode /\ status' = status /\ mode \in 0 .. 3
        /\ UNCHANGED <<store, before, CrashVarList, Name, printed, failed>>
    BY <1>4
    DEF ClearInv, clearcrashvars!Finish, clearcrashvars!Return, clearcrashvars!history
  <2> QED
    BY <2>1, ClearSettled
<1>5. CASE UNCHANGED vars
  <2>1. /\ at' = at /\ mode' = mode /\ status' = status /\ mode \in 0 .. 3
        /\ UNCHANGED <<store, before, CrashVarList, Name, printed, failed>>
    BY <1>5 DEF ClearInv, vars, ofClear
  <2> QED
    BY <2>1, ClearSettled
<1> QED
  BY <1>1, <1>2, <1>3, <1>4, <1>5, EnumerateKeeps, WorkOffKeeps DEF clearcrashvars!Next

LEMMA ClearInvHolds == Spec => []ClearInv
<1>1. Init => ClearInv
  <2> SUFFICES ASSUME Init, program = "clearcrashvars" PROVE ClearInv
    BY DEF ClearInv
  <2>1. /\ store \in clearcrashvars!Stores /\ before = store /\ at = "args" /\ mode = 0
        /\ Name = "start" /\ CrashVarList = <<>> /\ printed = {} /\ failed = {}
    BY DEF Init, clearcrashvars!Init
  <2>2. store \in Seq(Variables) /\ Distinct(store)
    <3>1. Cardinality(Variables) \in Nat
      <4>1. IsFiniteSet(Variables)
        BY ProgramsAssumption
      <4> QED
        BY <4>1, FS_CardinalityType
    <3>2. PICK n \in 0 .. Cardinality(Variables) : store \in [1 .. n -> Variables]
      BY <2>1, Zenon DEF clearcrashvars!Stores, clearcrashvars!Cardinality, Cardinality
    <3>3. n \in Nat
      BY <3>1
    <3>4. store \in Seq(Variables)
      BY <3>2, <3>3
    <3> QED
      BY <2>1, <3>4 DEF clearcrashvars!Stores, Distinct
  <2>3. CrashVarList \in Seq(Variables) /\ Distinct(CrashVarList)
    BY <2>1 DEF Distinct
  <2>4. clearcrashvars!OnlyCrashDeleted /\ clearcrashvars!AllWorkedOff
    BY <2>1 DEF clearcrashvars!OnlyCrashDeleted, clearcrashvars!AllWorkedOff
  <2> QED
    BY <2>1, <2>2, <2>3, <2>4 DEF ClearInv
<1> QED
  BY <1>1, ClearInvKept, PTL DEF Spec

(* Nothing but crash variables is ever deleted, and the others stay as     *)
(* they were, in a store of any size; where the enumeration breaks off,    *)
(* nothing has been deleted at all.                                        *)
THEOREM ClearDeletesCrashOnly == Spec => []OnlyCrashDeleted
<1>1. ClearInv => (program = "clearcrashvars" => clearcrashvars!OnlyCrashDeleted)
  BY DEF ClearInv
<1>2. ClearInv => (program = "clearcrashvars" => clearcrashvars!BrokenOffKeeps)
  BY DEF ClearInv, Broken, clearcrashvars!BrokenOffKeeps
<1>3. ClearInv => OnlyCrashDeleted
  BY <1>1, <1>2 DEF OnlyCrashDeleted
<1> QED
  BY <1>3, ClearInvHolds, PTL

(* No crash variable is passed over: each that is off the list has been    *)
(* printed, deleted or both, unless firmware would not delete it.          *)
THEOREM ClearWorksAllOff == Spec => []AllWorkedOff
<1>1. ClearInv => AllWorkedOff
  BY DEF ClearInv, AllWorkedOff
<1> QED
  BY <1>1, ClearInvHolds, PTL
=============================================================================
