----------------------------- MODULE ShiftHours -----------------------------
(***************************************************************************)
(* What a shift is worth: backend/shift_hours.py, and the timesheet's one   *)
(* reading of a filed row, backend/reports.py.                              *)
(*                                                                          *)
(* The source keeps the same policy twice, in whole seconds (paid_seconds,  *)
(* overtime_assessment) and in hours rounded to 0.36 s (paid_hours,         *)
(* recorded_shift).  A timestamp is stored to the second, so the two agree   *)
(* on every stored shift and one integer unit stands for both.              *)
(* "values" is the shift-rules mapping every function of the source takes.  *)
(***************************************************************************)
EXTENDS Integers

Max2(a, b) == IF a >= b THEN a ELSE b
Min2(a, b) == IF a <= b THEN a ELSE b

\* An unset column (SQL NULL): the figures below are never negative.
Null == -1

\* The shift rules that can be stored (main.update_shift_rules refuses a paid
\* day or an overtime line of zero); round_up_within_hours is in no form.
ShiftRules ==
    [regular: Nat \ {0}, notify: Nat \ {0}, break: Nat, breakAfter: Nat,
     roundUp: Nat, autoClose: BOOLEAN]

-----------------------------------------------------------------------------
(* Paid time                                                                *)

\* The unpaid break: charged to a shift long enough to contain one, and capped
\* at the elapsed time.
BreakTaken(elapsed, values) ==
    IF elapsed >= values.breakAfter THEN Min2(values.break, elapsed) ELSE 0

\* shift_hours.paid_hours and its twin paid_seconds
Paid(elapsed, values) == elapsed - BreakTaken(elapsed, values)

\* Broken on purpose, for the mutation checks: a shift past the paid day rounds down.
RoundsEitherWay(paid, values) ==
    values.roundUp > 0 /\ values.regular - paid <= values.roundUp

\* shift_hours.rounded_paid: a shift within the window of the paid day is the day
RoundsUp(paid, values) ==
    /\ values.roundUp > 0
    /\ paid < values.regular
    /\ values.regular - paid <= values.roundUp

RoundedPaid(paid, values) ==
    IF RoundsUp(paid, values) THEN values.regular ELSE paid

\* shift_hours.recorded_shift: what the writing paths put on the row
RecordedPaid(elapsed, values) == RoundedPaid(Paid(elapsed, values), values)

NeedsConfirmation(elapsed, values) ==
    RecordedPaid(elapsed, values) < values.regular

-----------------------------------------------------------------------------
(* The overtime line                                                        *)

ReachesLine(elapsed, values) == Paid(elapsed, values) >= values.notify
PastRegular(elapsed, values) == Paid(elapsed, values) > values.regular

\* shift_hours.overtime_assessment: the verdict and the hours held back
NeedsApproval(elapsed, values) ==
    ReachesLine(elapsed, values) /\ PastRegular(elapsed, values)

OvertimeHours(elapsed, values) ==
    Max2(0, Paid(elapsed, values) - values.regular)

-----------------------------------------------------------------------------
(* Who ends a day                                                           *)

\* shift_hours.day_end_rules
CloseDefers(values) == values.autoClose /\ values.notify > values.regular

\* Broken on purpose, for the mutation checks: a line at the paid day counts as under it.
ReachableAtTheDay(values) ==
    ~values.autoClose \/ CloseDefers(values) \/ values.notify <= values.regular

AlertReachable(values) ==
    ~values.autoClose \/ CloseDefers(values) \/ values.notify < values.regular

\* overtime.scan_auto_close: the close at the paid day is on and not deferring
GeneralClose(values) == values.autoClose /\ ~CloseDefers(values)

\* Broken on purpose, for the mutation checks: a limit at the start of the break escapes it.
LimitEscapesBreak(limit, values) ==
    IF limit > values.breakAfter THEN limit + values.break ELSE limit

\* shift_hours.paid_limit_at: how long after the clock-in the paid hours of a
\* shift reach a limit
PaidLimitAt(limit, values) ==
    IF limit >= values.breakAfter THEN limit + values.break ELSE limit

-----------------------------------------------------------------------------
(* The timesheet: reports._shift_hours                                      *)

PayableCodes == {"approved", "auto_closed_8h", "overtime_rejected"}
PendingCodes == {"pending_review", "pending_overtime"}

\* Broken on purpose, for the mutation checks: the whole shift waits for the decision on
\* its overtime, or all of it is credited.
CreditWithheld(row) ==
    IF row.code \in PayableCodes
      THEN IF row.approved = Null THEN row.hours ELSE row.approved ELSE 0

CreditInFull(row) ==
    IF row.code \in PayableCodes \cup {"pending_overtime"}
      THEN IF row.approved = Null THEN row.hours ELSE row.approved ELSE 0

\* The approved figure of one clock-out row
CreditedHours(row) ==
    IF row.code \in PayableCodes
      THEN IF row.approved = Null THEN row.hours ELSE row.approved
    ELSE IF row.code = "pending_overtime" /\ row.overtime > 0
      THEN row.hours - Min2(row.overtime, row.hours)
    ELSE 0

\* The figure that waits for a decision
AwaitingHours(row) ==
    IF row.code = "pending_overtime" /\ row.overtime > 0
      THEN Min2(row.overtime, row.hours)
    ELSE IF row.code \in PendingCodes THEN row.hours
    ELSE 0
=============================================================================
