--------------------------- MODULE VariableStore ---------------------------
(***************************************************************************)
(* The variable services of the firmware, as the programs call them.  A    *)
(* store maps the variables to their data, a sequence; firmware does not   *)
(* know a variable without data, so <<>> stands for one that is not there. *)
(***************************************************************************)
EXTENDS Naturals, Sequences

Absent == <<>>

(* What GetVariable answers to a caller with room for so many elements.    *)
GetVariable(data, room) ==
    IF data = Absent THEN "not_found"
    ELSE IF Len(data) > room THEN "buffer_too_small"
    ELSE "success"

(* What SetVariable answers when it does not fail; a DataSize of 0 deletes *)
(* the variable, and there may be none to delete.                          *)
SetVariable(old, new) == IF old = Absent /\ new = Absent THEN "not_found" ELSE "success"
=============================================================================
