---------------------------- MODULE MCAttendance ----------------------------
(***************************************************************************)
(* Small instances of Attendance for TLC.                                   *)
(***************************************************************************)
EXTENDS Attendance, TLC

\* One rule set per policy worth telling apart.  An "hour" is one unit.
Rules(regular, notify, break, autoClose) ==
    [regular |-> regular, notify |-> notify, break |-> break, breakAfter |-> regular,
     roundUp |-> 0, autoClose |-> autoClose]

NoClose    == Rules(1, 2, 0, FALSE)    \* shipped: the line past the paid day, nothing closes
LineAtDay  == Rules(1, 1, 0, FALSE)    \* the line at the paid day, nothing closes
CloseAtDay == Rules(1, 1, 0, TRUE)     \* the watcher ends the paid day
Deferring  == Rules(1, 2, 1, TRUE)     \* a close that stands down; a break

OneNoClose == {NoClose}
OneLineAtDay == {LineAtDay}
OneClose == {CloseAtDay}
NoCloseOrDefer == {NoClose, Deferring}

Symmetry == Permutations(Workers) \cup Permutations(Requests)
=============================================================================
