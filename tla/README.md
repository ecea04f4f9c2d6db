# UEFI-Utilities in TLA+

TLA+ models of the programs of this repository, the runs in which TLC checks
them, and theorems with proofs that TLAPS checks: about the ASN.1 compiler, the
BER decoder alone and with compiled bytecode, the walk, the text and the lookup
of object identifiers of `listcerts`, the doubly linked list and showhotkeys on
top of it, the programs that write variables, efimemory, showfirmware, showedid,
showsb and showlenovo.

## The system

The repository holds small programs that run in the UEFI shell, before any
operating system. Each has one thread, no callbacks from firmware, no timers:
what makes them hard is not concurrency but firmware (which may refuse any call,
and whose variable store and memory map change under the program's hands), data
of a format somebody else wrote, lists threaded through the entries they hold,
buffers of fixed size, and state that outlives the thing it was gathered for.

| component | source | state | operations | correct when |
|---|---|---|---|---|
| BER decoder | `listcerts/asn1_ber_decoder.c`, `asn1_ber_bytecode.h` | `pc`, `dp`, the element's `tag`, `len`, `hdr`, `flags`, three cons stacks of ten slots, a jump stack of ten | one call decodes one document; the inner call looks for the end of an element of indefinite length | it returns; the stacks stay in their slots; elements nest; what is accepted is what the grammar allows, and each member reaches its callback with its own contents |
| X.509 grammar | `listcerts/x509.asn1`, compiled to bytecode by `asn1_compiler.c` when listcerts is built | none | none | its bytecode is what the decoder runs |
| listcerts | `listcerts/listcerts.c` | `tmpbuf`, static, the walk over signature lists | options; fetch a variable; walk its lists; decode; callbacks that gather and print | each certificate is met once; a line shows text of its own certificate |
| OID registry | `listcerts/oid_registry.c` and its generated tables | none | `Lookup_OID`, `Sprint_OID` | finds what is registered and nothing else; spells out the arcs |
| ASN.1 compiler | `listcerts/asn1_compiler.c` | tokens, types, elements, entry points | tokenise, parse, render bytecode in two passes | what is not of the notation is refused; the bytecode accepts the documents of the grammar, with their callbacks, and no others |
| doubly linked list | `showhotkeys/efilink.c` | `ForwardLink` and `BackLink` of each node | insert at either end, remove, swap, first, next, previous, tests | the links lead over the same sequence in both directions |
| showhotkeys | `showhotkeys/showhotkeys.c` | the list of hot keys, the name buffer | enumerate variables, insert and sort, print and free | each hot key listed once and in order |
| var | `var/var.c` | the store's variables of DEMO_GUID | create, delete, modify, show | success means done, failure means nothing happened |
| bootnext | `bootnext/bootnext.c` | BootNext | show, set, delete | the number typed is the number stored |
| shellopt | `shellopt/shellopt.c` | ShellOpt | set, clear | the options given are stored, all or none |
| clearcrashvars | `clearcrashvars/clearcrashvars.c` | a list of crash variables | enumerate, then print or delete | nothing but crash variables is deleted, and all of them |
| efimemory | `efimemory/efimemory.c` | a buffer in the memory it describes | fetch with retries, print | the retries end, the buffer is freed, the whole map is printed |
| showfirmware | `showfirmware/showfirmware.c` | a pointer into the SMBIOS table | walk structures by handle, and their strings | the walk ends; each string printed is of the structure of type 0 |
| showedid | `showedid/showedid.c`, `efi_edid.h` | the global `Interface` | open a protocol for each display, check its EDID, print numbers | a damaged EDID is never printed; numbers are converted right |
| showsb, showlenovo | `showsb/showsb.c`, `showlenovo/showlenovo.c` | `DataSize`, handed on from call to call | read a few variables and print them | each line shows its variable; nothing is overrun |
| helloworld, qv | `helloworld/helloworld.c`, `qv/qv.c` | none | one call, a few lines | |

How they interact: `asn1_compiler` makes bytecode of `x509.asn1` when
`listcerts` is built. `listcerts` calls the decoder once for every certificate;
the decoder runs that bytecode and calls back into `listcerts.c`, whose
callbacks share `tmpbuf` and ask the OID registry for names. `showhotkeys` uses
`efilink.c` with nodes that lie inside its own entries, and holds a node across
the swap that moves it. The programs that write variables meet in the store
only, and there each keeps to a vendor GUID of its own. The programs that read
leave nothing behind.

## Modules

| module | models | in terms of |
|---|---|---|
| `Asn1Decoder` | `asn1_ber_decoder()` with `asn1_find_indefinite_length()` | `at` is the label that execution has reached (`next_op`, `matched` for the `switch`, `next_tag` of the inner function ...); a step runs from one label to the next. The three cons stacks are one array of records. `extents` (history) collects the elements stepped over, `calls` the callbacks |
| `Nesting` | what decoding any BER document amounts to: a cursor that only moves forward, elements opened and closed in reverse order | the abstract specification that `Asn1Decoder` implements |
| `NestingProofs`, `Asn1DecoderProofs`, `Asn1PipelineProofs`, `ListCertsProofs`, `EfiLinkProofs`, `HotKeysProofs`, `ReadersProofs`, `UtilitiesProofs` | theorems and proofs; those about `OidRegistry` are in `ReadersProofs`, those about `Asn1Compiler` in `Asn1PipelineProofs` | |
| `MCAsn1Decoder` | the jobs that TLC runs the decoder alone on | |
| `Asn1Compiler` | `asn1_compiler.c` | `stage` is what the program is at, down to the turn of a loop; `frames` are the calls of `parse_type` that wait for a member's, `agenda` is what `render_element`'s recursion has still to do, `list` is `render_list`, `code` the bytes of the pass |
| `Asn1Pipeline` | the composition: a text is compiled, then the decoder runs the bytecode over a document | `Compile` steps are `Asn1Compiler`'s, `Decode` steps `Asn1Decoder`'s; `Build` hands the bytecode over |
| `X509` | the text of `x509.asn1`, its documents, their encodings and the callbacks each must lead to | the encodings are written from the grammar, not from the compiler |
| `Asn1Grammar` | the reference the pipeline is held against: grammars as trees, the text of a tree, the encodings of its documents, which bytes are of the grammar and by which callbacks, and which token strings are of the notation | independent of the compiler's passes: a recursive matcher, for TLC only |
| `MCAsn1Pipeline` | the grammars, texts and documents for TLC | |
| `OidArcs` | none: the arcs that octets stand for by X.690 | what `SpelledOut` is measured by |
| `OidOrder`, `OidRegistry`, `OidRegistryData` | the tables and their order, `oid_registry.c`, the content of `oid_registry_data.h` | `i`, `k` are the bounds of the search, one action per turn; the tables are constants, and the ASSUME `OrderAssumption` says what the search relies on |
| `ListCerts`, `MCListCerts` | `listcerts.c` | one action per turn of each loop and per callback. A certificate is the sequence of its callbacks, or a beginning of it if the decoder refuses it; text is a sequence of pieces that remember where they are from |
| `EfiLink`, `MCEfiLink` | `efilink.c` | each function is an operator on `links`; what a caller may do is an action, which also does the same to `order`, a plain sequence |
| `HotKeys`, `MCHotKeys` | `showhotkeys.c` | uses the operators of `EfiLink`; that its steps are steps of `EfiLink` is a property |
| `VariableStore` | GetVariable and SetVariable as the programs call them | a store maps names to sequences, `<<>>` is a variable that does not exist (external) |
| `VarTool`, `BootNext`, `ShellOpt`, `ClearCrashVars` | `var.c`, `bootnext.c`, `shellopt.c`, `clearcrashvars.c` | one action per branch of `efi_main`; `argv` is the command line in work, `before` the store as the run found it |
| `Utilities`, `MCUtilities` | the four started from the shell, again and again | a behaviour is of one of the four: they never write the same variable |
| `MemoryMap` | `efimemory.c` | the map as a sequence of regions that AllocatePool may split and FreePool may join |
| `ShowFirmware` | `showfirmware.c` | a pointer into the SMBIOS table is the number of a structure; the handle leads on from one to the next |
| `EdidBlocks` | none: soundness and content of an EDID by the VESA layout | what the displays' EDIDs are assumed to be |
| `ShowEdid` | `showedid.c`, the macros of `efi_edid.h` | an EDID is its 128 octets; floats are a mantissa and an exponent |
| `ShowVariables` | `showsb.c`, `showlenovo.c` | each program is the list of its GetVariable calls, with the DataSize each sets or keeps |
| `Readers`, `MCReaders` | the programs that only read, and the lookup of identifiers | a behaviour is one run of one of them |

A module that lists a *seeded bug* before a definition says what a plausible
mistake in that function would look like; putting it in the definition's place
makes the run of its module report the property concerned.

### The decoder

`Jobs` are the calls considered: a bytecode and the bytes. A read past the last
byte yields any value of `Beyond`: the checks of the code allow a few such reads
(short lengths are compared with nothing), and the model makes them, up to
`MAPPED` bytes behind the data: there memory ends (`PageFault`). `datalen - dp <
2` is a test of unsigned numbers (`NoRoom`), so that a search for an EOC that is
past the end already goes on until it finds one or memory ends. The slots of the
three cons stacks keep 16 bits of an offset, those of the jump stack 8 bits of
an address (`UShort`, `UChar`). `ActionFails` lets a callback return an error at
any call. `flags`, `tag`, `tdp`, `len`, `hdr` are the locals of these names; the
machine's opcodes are the numbers of `asn1_ber_bytecode.h`.

Not modelled: the `default` branch of the switch (:437), for opcodes that the
compiler does not emit; a length of more than twice MAX_DATALEN is not kept
exactly, it is an error either way. No run has data long enough for a slot of 16
bits to lose any of an offset: that takes nearly 65536 bytes, and lengths in the
short form that overshoot. Which data lose none is `DataFits`, a hypothesis of
the theorems it matters to.

### The compiler

A text is lines of symbols: a word, a number, `::=`, `({`, `})` or another
character. What the model writes was compared with what the program writes: for
197 grammars, `x509.asn1` among them, the bytecode is the same, byte by byte.

`NumberOf` gives the words of digits their values, whatever these are; a tag
keeps eight bits of one. A universal tag above 31 is looked up behind the 32
names of `asn1_universal_tags` (:1453): what is found there may be no string, or
none that the C compiler knows (`RenderBeyond`, the state "crashed"), or the
name of another tag (`Numbers`).

Not modelled: messages, the C text around the bytecode, files that cannot be
opened, memory that is not there, the length of `token_list` (half the number of
characters, unchecked, :364). Two kinds of texts on which the program does not
end are not inputs: a line on which a comment is closed and nothing follows (the
`memmove` of :395 then moves nothing), and a type that is defined as itself with
no tag in between.

### listcerts

`nvram` holds four variables. A variable is a sequence of signature lists and a
length that may cut the last one short; a list states its three sizes and holds
entries. The sizes agree (`StoresAssumption`), but behind the lists there may be
one that is `broken`: of size 0, at which the walk stays for ever (`Endless`),
or with entries of size 0 (`DivisionByZero`). Of a rest of fewer than 20 bytes
the code reads a SignatureListSize from behind the data: the walk then ends
(`LastList`) or takes for lists what is none (`Astray`, which is not followed).
An entry is the sequence of callbacks that the decoder makes for it. `Follow`
says which may come behind which: the order of `x509.asn1`, where members for
which their sequence has no room are passed over (asn1_ber_decoder.c:226), so
that an empty AlgorithmIdentifier calls nothing between do_serialnumber and
do_signature. `OrderAssumption`, which TLC evaluates on the certificates it is
given, has that they come so; that the decoder with the bytecode of `x509.asn1`
makes them come so is `CertificateOrder` in `asn1_pipeline`, on all its
certificates, cut and changed ones too.

Not modelled: the wording of lines, the line breaks of `wrapno`, the dates'
conversion, the length of `tmpbuf` (1000 characters).

### The programs that write variables

`FirmwareFails` lets each firmware call fail, get_args included. In `var`,
characters take two bytes, `Data` has BUFSIZE characters of which BUFSIZE bytes
are cleared and read: `Room` and `Printed` say what that makes of long values. A
value that `Data` has no room for is copied all the same: the run is then in
`overrun`, which is not followed, and in `shellopt` a line longer than its
buffer is there too. In `bootnext`, characters are cut to a `char` before they
are tested (`% 256`) but not before they are converted, and the number is cut to
16 bits before it is stored; what is shown has bits above these that nothing has
set (`NumberJunk`). In `shellopt`, `Beyond` is what `argv[argc]` may be taken
for. `clearcrashvars` enumerates first and deletes afterwards; the model's
`NextName` answers "not found" for a name that is no longer in the store, which
is what makes that order matter.

### The programs that read

`MemoryMap` lets each allocation split a region and each release join two; that
AllocatePool adds no more than one is an assumption about firmware, which the
code makes too. The descriptors of EDK2 have 48 bytes, eight more than the
structure compiled in. In `ShowFirmware` handles may occur twice, be 0xFFFF, and
the entry point may state one structure too few or too many; `Conforming` is
what the program takes for granted of a table, and `BiosStrings` is about those
tables, while `RunsEnd` is about all. In `ShowEdid` the gamma is computed as the
program does, with the float nearest to a quotient and its digits cut off; for
all 256 octets the result is that of the C functions. `Interface` is the global
that keeps its value when a later `OpenProtocol` fails, and `HandleList` starts
as NULL or as junk, since nothing sets it before it is tested (:333). A display
that has sent no EDID has the protocol with Edid NULL, which is not tested
either: it is read, or reading it is an exception (`Fault`). In `ShowVariables`
a value that is longer than the octet it is read into ends the behaviour in
`overrun`. In `OidRegistry` a number has the width of `num` (`UINT64` is how
many it can hold, fewer in the run) and is printed with a sign (`Signed`).
`OidRegistryData` is the generated header; that it is in the order the search
needs is `OrderAssumption`, which TLC evaluates.

## Runs

| run | question | bounds, and why they are enough |
|---|---|---|
| `asn1_pipeline` | Does what the compiler makes of a grammar accept its documents, with the right callbacks, and refuse others; are texts that are not of the notation refused; do the two passes agree, and do they lay the bytecode out as `PcAtInstruction` supposes; does the decoder then stay on its instructions and within its table of actions; do compiler and decoder keep their types; is each decoding step one of `Nesting`; do the callbacks of a certificate come in an order that `listcerts` can gather their text in? | All pairs of fourteen kinds of members (simple, optional, tagged either way, references to types used once, twice and recursively, OFs, CHOICEs, actions on each) in a sequence with out-of-line, shared and recursive types; six grammars more for ANY and for roots that are no sequence; for each, every document with up to two elements of an OF, in the short and the indefinite form, and documents of other grammars. `x509.asn1` with every alternative and optional member of a certificate in four forms of length, two certificates cut at each byte and with each byte changed to three values. One sound text with each token left out or replaced by nine others; comments in six positions. Tag numbers within and beyond the table of names, and beyond an octet. Stacks of ten and 65535 as in the code |
| `asn1_bytes` | Do the stacks hold, whatever the bytes and the bytecode; does the call return, if no OF has a member that may be skipped (`Demanding`)? | Every string of three octets out of seven that lead everywhere (0, two tags, a long tag, a SEQUENCE, 0x80, a long form), bare and behind a definite or one or two indefinite headers; thirteen machines that use every opcode, four that the compiler would never make and one that may not end; limits of two, so that both stacks overflow; three bytes of memory behind the data |
| `listcerts` | Is each certificate met once; whose text is printed? | A certificate in PK, cut at any callback, with any of its algorithms without a name, or with members of one kind left out; one of the latter two sorts in db, and a whole one behind it; all pairs of lists out of hashes and certificates, with and without a header, entries shorter than the list header that is counted in with them, whole, cut by one byte, by a list header, and to 19 and 20 bytes, and with a broken list behind them |
| `efilink` | Do the links follow the order? | Four entries: a swap then has its neighbours adjacent either way, apart, and at either end |
| `hotkeys` | Each hot key once, in order? | Up to four hot keys out of five numbers (equal ones, letters, no digits) and other variables mixed in; every option; a name longer than the buffer; any call may fail |
| `utilities` | Does success mean done and failure nothing? | var: two variables, texts of none to four characters, a buffer of four characters, of which two are cleared, so that values fit, fill and overrun it. bootnext: all arguments of four characters out of pairs that border on digits or look like digits when cut, and of other lengths. shellopt: every line of up to three words out of six and of three options with -delay anywhere, in a buffer that the longest lines overrun. clearcrashvars: every store of up to five variables in every order |
| `readers` | Is what is printed what was read; does each program end; does the search find what is registered? | Memory maps of up to six regions, room for two descriptors at first, descriptors of both sizes, 40 and 48, types on both sides of the table's end. SMBIOS tables of one to three structures of seven kinds, with seven patterns of handles and three counts. An EDID for each of 256 gammas, for sizes and letters at their limits, and one with each of its 128 octets changed in three ways; up to three displays. Every value of none to three octets around a buffer of two. Each of the 52 identifiers, with its octets exchanged, changed, cut and extended, and identifiers with arcs on both sides of what `num` can hold, with and without a sign |

Five runs end in a violation: each states what a comment or a message of the
code says, and shows where the code does otherwise.

| run | property | what it shows |
|---|---|---|
| `asn1_lost_optional` | `CallbacksMatch` | "Handle elements that are optional" (asn1_compiler.c:1049) sets a flag that `render_element` drops when the element is a reference to a simple type (:1464): `b B OPTIONAL` with `B ::= INTEGER` is compiled as if `b` were mandatory, and a document without it is refused |
| `asn1_short_form` | `AcceptedInside` | a length in the short form (:266) is not compared with the end of its container, so an element that reaches past the data is accepted; in `asn1_pipeline` the outermost length, of the long form, catches it |
| `asn1_endless_of` | `AlwaysEnds` | the compiler takes `SEQUENCE OF INTEGER OPTIONAL`; the decoder skips a member that does not match without moving on, is not at the end of the sequence, and goes back (:404), for ever. The bytecode and the data are a job of their own: in `asn1_bytes` the same machine is among those of the other properties |
| `listcerts_unnamed` | `OwnText` | `tmpbuf` keeps the last algorithm of a certificate, which no callback prints; a next certificate whose algorithm has no name appends to it (:134) and is printed with both, one without any algorithm is printed with that alone. In the run `listcerts`, `OnlyUnnamedCarry` says that this is the only text that gets from one certificate to another |
| `memorymap_type` | `UnknownTypes` | the first type without a name is looked up one past the table (:31, `>` for `>=`) |

### Where the models follow the code and the code departs from its words

These have no run of their own; the models do as the code does.

- `asn1_ber_decoder.c:226` skips any member at the end of its container, not
  only an optional one: certificates without their last members are accepted.
- `:244-246` say that CONS in the op stream makes a constructed tag mandatory;
  the test (`Wanted`) does the reverse: without CONS a primitive tag is
  mandatory, with it both are taken.
- `:314` calls the action of an indefinite element before its length is known,
  with the length octet 0x80 for a length.
- `:103` takes a length of 127 in the inner function for the long form.
- `:73` tests `datalen - dp < 2` in unsigned numbers: a cursor past the end
  passes.
- `showhotkeys.c:221` tests BootOptionSupport with `&&`: every value but 0
  counts as support.
- `showhotkeys.c:128` multiplies by ten and takes the letters A to F for 0 to 5,
  where `:258` speaks of the "correct position in sorted list": Key000A is
  printed before Key0002. `ListSorted` and `PrintedAll` are about the order of
  `CompareOptionNumbers`.
- `bootnext.c:79` tests characters cut to a `char`, where `:69` and `:147` ask for
  hexadecimal digits: the character 304, whose lower octet is that of '0', is
  taken, and `xtoi` stops at it. 999 and that character store 0x999, with
  success; `NumberStored` says that it is just the digits in front that are
  stored.
- `bootnext.c:107` leaves BootValue uninitialised and `:128` prints all of it:
  what is shown may have more than the "####" of `:97`, and only its lower 16
  bits are what is stored (`ShowsStored`).
- `var.c:132` creates with an empty value by deleting; `:118` cannot show what
  is longer than BUFSIZE bytes, and prints past a value that fills them; `:131`
  and `:153` copy a value whatever its length, as `shellopt.c:158` does its
  words.
- `shellopt.c:138`: a single word other than --help clears ShellOpt; both of
  `[-nostartup | -startup]` may be stored; `-delay:n` is refused, `-delay n`
  taken; behind a last -delay `argv[argc]` is looked at (`StoredAsGiven` says
  so).

Of the decoder with what the compiler makes (`Asn1Grammar` takes these as they
are, so that `CallbacksMatch` and `RefusesOthers` are about the rest):

- An ANY with OPTIONAL is skipped at the end of its container, but in a
  container of indefinite form the end-of-contents octets are taken for it.
- Data of length 0, and octets behind the document, are accepted.
- An empty OF of indefinite form is refused; so is any empty OF whose member is
  a constructed type written in its place.

Of the compiler:

- ANY OPTIONAL has no opcode that skips it. A CHOICE with an action that is
  OPTIONAL calls the action though the CHOICE is absent. A CHOICE within a
  CHOICE has a first alternative that is not conditional.
- A member `[0] IMPLICIT T` with `T ::= [1] IMPLICIT ...` keeps the tag of T.
  IMPLICIT on a CHOICE or an ANY is dropped silently.
- The tag of a type that has a marker and no number is that of the marker, 0.
- UniversalString has the tag 23, ISO646String the tag 0. COMPONENTS and
  MINUS-INFINITY are listed as keywords out of order, and the binary search
  never finds them.
- `:723` reads the first token of a file that has none. What stands before the
  first `name ::=` is ignored.
- `:620` tests `out` where it has just opened `hdr`. Errors of the second pass
  `exit` with the output half written.
- `:1146` reports an empty compound where `{` follows `{`; one where `}` follows
  is refused as a type that is not known.
- Jumps are single octets (:1474), and bytecode too long for them is not
  refused: `PassesAgree`, `RunsInstructions` and `ActionsInTable` are about
  machines of at most 256 bytes.

Of the programs that read:

- showfirmware prints strings 1, 2 and 3, whatever Vendor, BiosVersion and
  BiosReleaseDate of `SmBios.h` say. For a string that is missing it takes the
  structure behind. A table with a wrong anchor is reported and the program
  succeeds. A structure with the handle 0xFFFF ends the walk.
- `efi_edid.h:58`: CHECK_BIT yields `var & 1` whatever the position. The header
  is compared only if its first octet is 0. The gamma is a hundredth too low for
  some octets, and has one decimal where the second is 0. HandleList is not
  freed.
- showlenovo does not set DataSize again after the build time, so the read into
  IntData may take as many bytes as that had.
- efimemory does not free its buffer when GetMemoryMap fails in a retry (:61-63,
  :79-80).
- Sprint_OID splits the first octet by 40, which is wrong from 2.40 on, where
  the first subidentifier is 120 or more (`FirstIsUsual`); arcs from 2^63 on
  come out negative, and of larger ones the lower 64 bits (`ArcsFit`).

## Fairness

Every program runs in one thread that nothing else can hold up: firmware calls
return, with an error at worst. Weak fairness of the next-state relation says
just that the thread goes on. In `Utilities` it is given to the steps of the
program in use and not to the shell: nobody promises that a user starts the
next. `Nesting` and `EfiLink` are specifications of what may be done and have no
fairness. `PipelineSpec` has none either: that the compiler ends is not claimed,
for on some texts it does not (above); that the decoder does, if no member of an
OF may be skipped, is checked in `asn1_bytes`. `Terminates` of `ListCerts` is
about variables that have no list or entry of size 0 and no rest too short for a
size. A run of one of the `Readers` goes on until it returns, faults or goes
astray. The runs that do not check for deadlock are those whose programs return.

## Proofs

Proved for every value of the constants that the named assumptions allow, with
no bound on nesting, the two limits, or the number of variables, lists,
certificates, hot keys, words and digits. Where the code has a width or a buffer
that bounds what is true, the bound is a hypothesis or part of the property, and
the table names it:

| theorem | says |
|---|---|
| `NestingProofs!AlwaysNested` | what the abstract walk has consumed is properly nested |
| `Asn1DecoderProofs!TypeCorrect` | `Spec => []TypeOK`: among other things the stacks are never indexed outside their slots |
| `Asn1DecoderProofs!Implementation` | the decoder implements `Nesting`, for data that `DataFits`: shorter than 65536 bytes by 127 for each element that can be open, so that no 16-bit slot cuts an offset |
| `Asn1DecoderProofs!NeverBack` | the cursor never moves back |
| `Asn1DecoderProofs!ProperNesting` | what the decoder has consumed is properly nested, for the same data |
| `Asn1DecoderProofs!StaysOnInstructions` | in bytecode of at most 256 bytes, laid out as the compiler lays it out, control is always at an instruction |
| `Asn1PipelineProofs!PipelineTyped` | compiler and decoder keep their types, whatever the numbers in a text: no element is used before it is allocated, every reference has found its type when rendering begins. What the lookup of a universal tag above 31 finds is in no table: it ends the compiler, or gives any other tag |
| `Asn1PipelineProofs!CompilerAgrees` | the second pass of the compiler puts each subroutine where the first found it, and what is written, if it is 256 bytes at most, is laid out as the decoder relies on |
| `Asn1PipelineProofs!MachineRuns` | the decoder runs the bytecode of any grammar (256 bytes at most) from instruction to instruction, whatever the document |
| `Asn1PipelineProofs!CallsStayInTable` | with the same bytecode, each action called is in the table that the compiler has written |
| `Asn1PipelineProofs!PipelineWalks` | with compiled bytecode too the decoder implements `Nesting`, for documents that fit (`DocumentsFit`) |
| `ReadersProofs!LookupFindsRegistered` | the binary search finds what is registered and nothing else |
| `ReadersProofs!RegisteredAreFound` | the same, of the lookup as one of the programs of `Readers`, where TLC checks it |
| `ReadersProofs!VariablesAreShown` | each line of showsb and showlenovo shows the variable it names; the DataSize handed on is enough |
| `ReadersProofs!OneRetryIsEnough` | with descriptors of the size compiled in, efimemory's second buffer is large enough; with longer ones there are never more tries than regions, and one. A buffer is left only where GetMemoryMap fails in a retry |
| `ReadersProofs!MemoryMapIsPrinted` | the whole map is printed |
| `ReadersProofs!FirmwareStringsAreShown` | showfirmware prints the strings of the first structure of type 0, for tables that are `Conforming`: distinct handles other than 0xFFFF, a count that covers the structures, strings numbered 1, 2, 3 |
| `ReadersProofs!ArcsAreSpelledOut` | the arcs that Sprint_OID prints are those of the identifier, if its first octet is below 120 and no arc is 2^63 or more |
| `ReadersProofs!EdidsAreShown` | showedid prints what the EDID of each display says (the gamma, or a hundredth less), and of no other block |
| `ReadersProofs!DamageIsNoticed` | one octet of an EDID changed, and it is not taken for one any more |
| `UtilitiesProofs!VarDoesAsToldOnSuccess` | success of var means done; an empty value is none, and show is left out for a text that fills what is cleared |
| `UtilitiesProofs!BootNextFailureKeeps` | BootNext changes only in a run that succeeds and was told to |
| `UtilitiesProofs!BootNextStoresTheNumber` | the digits typed, four or those before a character beyond 255, are the digits of the number stored, and other arguments store nothing; the low 16 bits of what is shown are what is stored |
| `UtilitiesProofs!ShellOptStoresAsGiven` | the words behind --set are stored, each once and in order, or none of them; lines that overrun the buffer are not followed |
| `UtilitiesProofs!ClearDeletesCrashOnly` | what is deleted are crash variables, the others keep their order; an enumeration that breaks off has deleted nothing |
| `UtilitiesProofs!ClearWorksAllOff` | no crash variable is passed over |
| `EfiLinkProofs!LinksFollow` | forwards and backwards the links lead through the entries in their order |
| `HotKeysProofs!ImplementsList` | showhotkeys uses the list only as `EfiLink` allows |
| `HotKeysProofs!TypesKept` | types, and that the name last read fits its buffer |
| `HotKeysProofs!AlwaysSorted` | the list is sorted whenever a name is read or printed |
| `HotKeysProofs!EachKeptOnce` | each hot key met is on the list or printed, once, also during a swap sequence |
| `HotKeysProofs!AllPrinted` | a run that got to the end of the names has printed all hot keys, in order |
| `ListCertsProofs!EachIsDecoded` | each certificate of the whole lists is decoded once, nothing else is, in every run that returns |
| `ListCertsProofs!TextIsOwn` | a line shows text of its own certificate and part, but for the signature algorithm of a certificate that does not begin with a named one |

The decoder. Assumed are the three ASSUMEs of `Asn1Decoder` (bytecode and data
are sequences of bytes, the limits are numbers, the stacks have a slot at
least); the theorem about `Nesting` has its assumptions as the hypothesis
`Bounds`.

The argument: `Nested` of `Nesting` is not inductive: `Close` adds an element
that begins where the container was opened, far behind the cursor, and nothing
in `Nested` says that no consumed element reaches across that place. `Inv` adds
two parts: the open elements begin one inside the other (`OpenInOrder`), and
what has been consumed lies before or inside each open element
(`ConsumedAndOpen`). For the decoder, `TypeOK` is not inductive either: an
opcode that has matched must be whole and must be one that wants a tag
(`InInstruction`), or reading its operand could leave the bytecode; and for a
step to be one of `Nesting` the contents of the element in hand must begin at
the cursor until they have been stepped over (`AtContents`), also while the
inner function looks for their end. With both, each of the actions maps to
`Header`, `Descend`, `Consume`, `Close` or a stutter. A loop of an OF is the
interesting one: it pops an element and puts it back, which must come out as no
step at all. What a slot of 16 bits does to an offset is nothing as long as the
offset fits: the end of an element may be 127 behind that of its container, for
a length in the short form is compared with nothing, but no more; so an open
element at depth `i` ends at most `127 * i` behind the data (`Reaching`), and
`Fit` says that this is within 16 bits. `ProperNesting` is `Implementation` and
`AlwaysNested` put together. `StaysOnInstructions` adds the jump stack: whatever
it holds leads back to an instruction (`LayoutInv`). What bytecode must be like
for that is `LaidOut`; that the compiler's is, is part of `PassesAgree`.

The compiler. Assumed of the texts is that they are sequences of lines of
strings (`GrammarsAssumption`), of the data that it is bytes
(`DocumentsAssumption`), and that there are at most 255 names of actions
(`ActionsAssumption`): the number of an action is one byte. Jump targets are one
byte too, so what is said of layout is said of bytecode of up to 256 bytes.
Texts that the compiler refuses or crashes on are among those the theorems are
about.

- *Types.* `TypeOK` of `Asn1Compiler` is inductive as it stands. Its parts
  beyond types proper are why the code's pointers are never null where they are
  followed: a definition passed by the parser has an element, a tag override has
  a member, a reference has a type, `top` is set once a type has been read, and
  there is a frame wherever a compound waits for a member.
- *The passes.* That a subroutine lies where the first pass found it is about
  two executions of the same procedure at different times. `CourseInv` says that
  what `render_element` has in hand in a pass (`Pass`: the agenda, the list,
  what has been rendered, and the number of bytes so far) is a place on a course
  that begins with the root and goes on by a function (`After`); bytes are only
  counted in it, because the first pass writes other addresses than the second.
  In the first pass `entry` has been noted at each place where a subroutine
  begins, and nothing is listed twice, so that later places do not overwrite it;
  the second pass is somewhere on the same course (`SecondPass`), for `After`
  depends on nothing but the elements, which do not change. `EntriesKept`
  follows for each step that begins a subroutine.
- *The layout.* `CodeInv`, in the second pass: there is a set `S` of addresses
  such that the code written so far is a row of whole instructions that begin at
  the members of `S` (`Whole`), what the agenda holds ready to be written will
  be so too (`AgendaLaid`), and each subroutine jumped to is still on the list
  or begins at a member of `S` (`Placed`). When agenda and list are empty, every
  target is at an instruction and the last instruction is a RETURN or COMPLETE:
  `LaidOut`.
- *The actions.* An element's action is one of the actions found (`NamedInv`),
  its number is the number of those before it in the alphabet, and `Instr` has
  it that the last operand of each instruction that acts is such a number. So a
  decoder that is at an instruction calls what is in the table (`TableInv`,
  `CallsInv`).

`CourseInv` and `CodeInv` assert that a sequence and a set exist, over the
naturals, and cannot be evaluated by TLC; what follows from them (`PassesAgree`,
`RunsInstructions`, `ActionsInTable`) is checked in `asn1_pipeline`.

The lookup. Assumed are `TablesAssumption` and `OrderAssumption`: every
identifier is in the search table, each entry has the hash of its octets, and
the table is in ascending order. TLC evaluates both on the table of
`oid_registry_data.h`; the theorem holds of any other that the script may
generate, with any number of identifiers. `FindsRegistered` speaks of the end of
the search only. What is inductive is that an entry with the octets looked for
is never outside `i .. k - 1` (`StaysInside`). That a step keeps this rests on
the order being asymmetric, which for two identifiers of the same hash and
length is an argument about the last octets in which they differ.
`ReadersProofs` proves this and shows that the steps of `Readers` with the
lookup in use are steps of `OidRegistry`.

The programs of one thread each. `program` never changes, so each has an
invariant of its own under the condition that it is the one in use. That of
`var` says that only modify gets to a second call; those of `bootnext`,
`shellopt` and `clearcrashvars` that nothing has been written before the point
where they write. For showsb and showlenovo the invariant has that DataSize is
at least 1 once a variable that fits has been read. For efimemory it has that a
retry asks for the room of some number `m` of regions, as many as there have
been, and of one structure as compiled in, and that there have been at most `m`
tries (`RoomFor`): where descriptors are no larger, that is enough for one
region more, and where they are, a try that fails has met more regions than `m`.
Assumed are the `ProgramsAssumption` of `Utilities` and of `Readers` and, for
the variables' values, `StoresAssumption`.

showfirmware. In a table whose handles tell the structures apart, the walk has
looked at as many structures as it has counted, and the handle in hand is that
of the next (`LookedAt`): so what is found by its handle, from the start of the
table each time, is the structure behind those, and an end of the walk without a
find means that there is none. Then `AtBios`: the pointer that is handed to
LibGetSmbiosString and moved by it is still at the first structure of type 0
when the next string is asked for. `ProgramsAssumption` has that a table is a
sequence of `Structures`, and not empty.

Sprint_OID. `OidArcs` says by X.690 which arcs octets stand for, the code not
being looked at: numbers of base 128 that end where an octet is below 128, the
first of them 40 times one arc plus another. `ArcsAssumption` has that the
octets of an identifier spell its arcs. `SpellInv` is that `num` is the number
in hand, as far as the octets have been read, and that one arc more has been
printed than numbers have ended; an arc is printed exactly where the count of
ends grows. The first octet, which the code takes apart without looking whether
its number goes on, is where `FirstIsUsual` is needed; that no arc is cut or
gets a sign is `ArcsFit`.

showedid. `EdidBlocks` says by the VESA layout which blocks are sound and what
they say; `ProgramsAssumption` has that the EDID of a display says what it was
made to say, or is not sound. Three facts carry the proof. The sum that keeps
eight bits is the whole sum modulo 256 (`ChecksumIsTotal`), so the check is
soundness (`ValidIsSound`); from the whole sum it follows too that one changed
octet is noticed. The fields that share octets come apart again (`FiveBits`,
`TwelveBits`). And the gamma: for each of 256 values the float printed is within
one unit of its last place of 1 + g/100, so that its first two digits are the
right ones or one hundredth less (`GammasNear`).

bootnext. The digits of the number are proved by unfolding `Spelled` and `xtoi`,
which first needs that the function `Spelled` defines exists. `BootNextInv` then
says of each step that the digits of what is in the store are those of the text.

shellopt. `Option` takes one word or, behind a -delay, two. Inductive is that
the options taken so far are the words up to the one in hand (`Taken`), or that
with one number of `Beyond` at the end of the line.

clearcrashvars. While it enumerates, the name in hand has a place in the store
as it was, and the list holds the crash variables up to that place (`HasGotTo`);
deletion does not move it, for it comes later. Afterwards the store is what it
was without the names that are neither on the list nor failed. That a store has
each name once is part of the assumption on `Stores`, and is kept by `Without`.

The list. `LinksFollowOrder` is not inductive by itself: a node on the ring
twice or an entry that is out but pointed at would break it at the next call.
`Ring` adds that the places of the ring are different nodes, and the three facts
that carry the proof are about places, not about links: putting in, taking out
and exchanging two entries make a ring again, the last when the two are
neighbours either way round. `IInv` is then the same statement of `order`.

showhotkeys. `ShapeInv` says that the links are a ring through what `Walk` reads
off them, where `Node` and `PrevNode` are; `KnownInv` that what is printed and
what is listed are the hot keys met, each once; `DrainInv` that a run which has
printed its list had got to the end of the names and has left nothing on the
list; `OrderInv` that all of it is ordered but for the new entry, which a sort
in progress moves from the head to its place (`Sorting`). The step that swaps is
where they meet: the program holds `PrevNode` and `Node` across the swap and
goes on from where it has put them. The refinement maps `order` to
`Walk(links)`, so that each of these steps is one of `EfiLink` that the list
permits.

listcerts. `WalkInv` says where the walk stands: the list in hand is one of the
variable in work, DataSize is what the variable has from it on, Index and c are
within bounds. With `StoresAssumption` (the sizes of a list agree, a variable is
no longer than its lists) the quotient `CertCount` is the number of entries
wherever entries are large enough to be certificates, although a header of 28
octets is divided with them. `OutputInv` puts together what has been decoded
from what is behind the walk: whole variables, whole lists, entries; the steps
move one item from one part to the next. `TextInv` says for each callback what
`tmpbuf` may hold behind it (`Behind`), which is inductive because
`OrderAssumption` limits what comes next. At the beginning of a certificate
nothing is known of `tmpbuf`, nor behind callbacks that print lines of their own
(`Leads`); an algorithm with a name makes an end of that, and where there is
none (`~StartsNamed`) the line of do_signature is the one that
`OnlyUnnamedCarry` leaves out, and the one that `listcerts_unnamed` shows.
do_signature empties the buffer, and from there on the order does the rest.

Recursive functions and data. Where a proof is about a function defined by
recursion (`Spelled`, `Ends`, `Number`, `Total`, `Checksum`, the folds of the
community modules), it shows first that there is a function that satisfies the
definition, and argues by the least place where the claim would fail, from the
well-foundedness of `<` on the naturals: the library's induction theorems, whose
parameter is an operator, are not used.

Only model-checked:

- Liveness (`Terminates`, `RunsEnd`), which is beyond the prover.
- `CertificateOrder`: that what the decoder calls comes in the order of
  `x509.asn1` is checked on the certificates of the run.
- `CallbacksMatch`, `RefusesOthers`, `RefusesSyntax`: the matcher of
  `Asn1Grammar` and the encodings of `X509` are RECURSIVE operators, which only
  TLC's runs may use.
- `AcceptedInside`, which is not true of every bytecode: `asn1_short_form` shows
  it violated.

## Not modelled

- `build_oid_registry_data.py`, which makes `oid_registry_data.h`: what it has
  made is in `OidRegistryData`, and its order is checked.
- The structures of `SmBios.h` other than the header of each and type 0: no
  program reads them.
- helloworld and qv: no state, one call each.
- Functions of gnu-efi, but for `xtoi` as bootnext uses it and the search for
  structures and strings as showfirmware does.
- The allocation of memory, except where a program's retry depends on it, and
  that what was allocated is freed, but for efimemory's buffer and the entries
  of showhotkeys.
- The wording and the layout of what is printed.

## Plan

What is left: the length of `tmpbuf` in `ListCerts` and of the buffer of
`Sprint_OID`; what a walk over signature lists does that has gone astray; and a
proof of `CertificateOrder`, which `OrderAssumption` of `ListCerts` supposes.
