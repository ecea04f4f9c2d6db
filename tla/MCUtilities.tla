---------------------------- MODULE MCUtilities ----------------------------
(* Utilities on small inputs.                                              *)
EXTENDS Utilities, TLC

\* var: texts of none up to four characters; a buffer that two of them fill
\* in bytes, so that show prints beyond it, and three and their end in
\* characters, so that the fourth overruns it
SmallTexts == {<<>>, <<"a">>, <<"b">>, <<"a", "b">>, <<"a", "b", "a">>,
               <<"a", "b", "a", "b">>}
SomeJunk   == {<<>>, <<"junk">>}

\* bootnext: arguments of none and of three to five characters, from a few:
\* digits of the three ranges, characters that border on them, and one that
\* looks like a digit once it is cut to a char
Zero     == 48
Nine     == 57
Colon    == 58
CapitalF == 70
SmallA   == 97
SmallG   == 103
WideZero == 304
SomeArguments == [1 .. 4 -> {Nine, SmallA}] \cup [1 .. 4 -> {Zero, CapitalF}]
                 \cup [1 .. 4 -> {Zero, Colon}] \cup [1 .. 4 -> {Zero, SmallG}]
                 \cup [1 .. 4 -> {Nine, WideZero}]
                 \cup [1 .. 3 -> {Zero}] \cup [1 .. 5 -> {Zero}] \cup {<<>>}
SomeNumbersSet == {<<>>, <<2748>>}

\* shellopt: all command lines of up to three words, and those of three
\* options with a -delay at any place, numbers and other words behind it
SomeNumbers == {"5", ""}
Words == {"--set", "--clear", "-nomap", "-delay", "5", "-x"}
SomeLines == UNION {[1 .. n -> Words] : n \in 0 .. 3}
             \cup {<<"--set", a, b, c>> : a, b, c \in {"-delay", "-nomap", "5", ""}}
             \cup {<<"--help">>, <<"--help", "5">>}
SomeWords == {"-x", "5", ""}
Lengths == ("" :> 0) @@ ("5" :> 1) @@ ("-nomap" :> 6) @@ ("-delay" :> 6) @@ ("-startup" :> 8)
           @@ ("-nostartup" :> 10) @@ ("-noversion" :> 10) @@ ("-noconsolein" :> 12)
           @@ ("-nointerrupt" :> 12) @@ ("-noconsoleout" :> 13)
SomeOptions == {<<>>, <<"-nomap">>}

\* clearcrashvars
SomeCrashLines == {<<>>, <<"help">>, <<"other">>, <<"verbose">>, <<"delete">>,
                   <<"delete", "verbose">>, <<"verbose", "delete">>,
                   <<"delete", "delete">>, <<"delete", "verbose", "other">>}
=============================================================================
