----------------------------- MODULE ShiftClock -----------------------------
(***************************************************************************)
(* One shift read moment by moment under one set of shift rules: the         *)
(* arithmetic of ShiftHours against what it is meant to compute.            *)
(***************************************************************************)
EXTENDS ShiftHours, TLAPS

CONSTANTS
    Rules,      \* the shift rules looked at
    Limits,     \* the paid figures a shift may run to: the paid day, a ceiling, a line
    Horizon     \* bound: the longest shift looked at

ASSUME RulesAssumption == Rules \subseteq ShiftRules
ASSUME LimitsAssumption == Limits \subseteq Nat \ {0}
ASSUME HorizonAssumption == Horizon \in Nat

VARIABLES values, elapsed
vars == <<values, elapsed>>

Init == values \in Rules /\ elapsed = 0
Tick == elapsed < Horizon /\ elapsed' = elapsed + 1 /\ UNCHANGED values
Spec == Init /\ [][Tick]_vars

TypeOK == values \in ShiftRules /\ elapsed \in 0..Horizon

\* PaidLimitAt names the first moment at which the paid hours reach a limit:
\* not a second earlier, although the break makes paid time fall back once
\* (shift_hours.paid_limit_at, what the alert, the queue and the close all name).
LimitIsTheFirstMoment ==
    \A limit \in Limits :
        /\ elapsed < PaidLimitAt(limit, values) => Paid(elapsed, values) < limit
        /\ elapsed = PaidLimitAt(limit, values) => Paid(elapsed, values) = limit

\* Rounding a short day up never creates overtime: a shift is recorded past the
\* paid day exactly when its real paid time is, and a shift held for approval is
\* recorded at its real hours (shift_hours.rounded_paid, overtime_assessment).
RoundingMakesNoOvertime ==
    /\ RecordedPaid(elapsed, values) > values.regular <=> PastRegular(elapsed, values)
    /\ NeedsApproval(elapsed, values) =>
          RecordedPaid(elapsed, values) = values.regular + OvertimeHours(elapsed, values)

\* A shift is still running at "elapsed" when the close at the paid day, which
\* runs before the alert in every pass, has not ended it.
StillRunning(e) ==
    ~(GeneralClose(values) /\ \E c \in 0..e : Paid(c, values) >= values.regular)

\* The verdict the console publishes about the alert is true: it says reachable
\* exactly when some moment of a running shift is past the line
\* (shift_hours.day_end_rules, alert_reachable).
AlertVerdictIsTrue ==
    elapsed = Horizon =>
        (AlertReachable(values) <=>
            \E e \in 0..Horizon : StillRunning(e) /\ ReachesLine(e, values))

\* The row an automatic close writes at the boundary carries exactly the limit,
\* whatever the break and the rounding do (overtime.scan_auto_close).
CloseRecordsTheLimit ==
    \A limit \in Limits :
        limit >= values.regular =>
            RecordedPaid(PaidLimitAt(limit, values), values) = limit

-----------------------------------------------------------------------------
(* Proved for every set of shift rules and every shift                       *)

\* Paid time is a natural number that grows no longer than the shift does.
LEMMA PaidType ==
    ASSUME NEW rules \in ShiftRules, NEW e \in Nat
    PROVE  Paid(e, rules) \in Nat /\ Paid(e, rules) <= e
BY DEF Paid, BreakTaken, Min2, ShiftRules

\* Before the boundary paid time is short of the limit (shift_hours.paid_limit_at).
LEMMA BeforeTheLimit ==
    ASSUME NEW rules \in ShiftRules, NEW e \in Nat, NEW limit \in Nat \ {0},
           e < PaidLimitAt(limit, rules)
    PROVE  Paid(e, rules) < limit
<1>1. CASE e < rules.breakAfter
  BY <1>1 DEF Paid, BreakTaken, PaidLimitAt, ShiftRules
<1>2. CASE e >= rules.breakAfter
  BY <1>2 DEF Paid, BreakTaken, Min2, PaidLimitAt, ShiftRules
<1>. QED  BY <1>1, <1>2 DEF ShiftRules

\* At the boundary it is the limit.
LEMMA AtTheLimit ==
    ASSUME NEW rules \in ShiftRules, NEW limit \in Nat
    PROVE  Paid(PaidLimitAt(limit, rules), rules) = limit
<1>1. CASE limit >= rules.breakAfter
  BY <1>1 DEF Paid, BreakTaken, Min2, PaidLimitAt, ShiftRules
<1>2. CASE limit < rules.breakAfter
  BY <1>2 DEF Paid, BreakTaken, PaidLimitAt, ShiftRules
<1>. QED  BY <1>1, <1>2 DEF ShiftRules

\* Past the boundary paid time never falls below the limit again, so a close or
\* an alert that runs late finds the shift still past it.
LEMMA AfterTheLimit ==
    ASSUME NEW rules \in ShiftRules, NEW e \in Nat, NEW limit \in Nat,
           limit >= rules.breakAfter, e >= PaidLimitAt(limit, rules)
    PROVE  Paid(e, rules) >= limit
BY DEF Paid, BreakTaken, Min2, PaidLimitAt, ShiftRules

\* Rounding leaves a shift at or past the paid day alone.
LEMMA RoundingSparesTheDay ==
    ASSUME NEW rules \in ShiftRules, NEW paid \in Nat, paid >= rules.regular
    PROVE  RoundedPaid(paid, rules) = paid
BY DEF RoundedPaid, RoundsUp, ShiftRules

\* Rounding raises a shorter shift to the paid day at most.
LEMMA RoundingStopsAtTheDay ==
    ASSUME NEW rules \in ShiftRules, NEW paid \in Nat, paid < rules.regular
    PROVE  RoundedPaid(paid, rules) \in paid .. rules.regular
BY DEF RoundedPaid, RoundsUp, ShiftRules

-----------------------------------------------------------------------------
\* A shift is read at natural moments under rules that can be stored.
THEOREM TypeCorrect == Spec => []TypeOK
<1>1. Init => TypeOK
  BY RulesAssumption, HorizonAssumption DEF Init, TypeOK
<1>2. TypeOK /\ [Tick]_vars => TypeOK'
  BY HorizonAssumption DEF TypeOK, Tick, vars
<1>. QED  BY <1>1, <1>2, PTL DEF Spec

\* For every rule set, every limit and every moment, paid_limit_at is the first
\* moment at which the limit is reached.
THEOREM LimitIsFirst == Spec => []LimitIsTheFirstMoment
<1>1. TypeOK => LimitIsTheFirstMoment
  <2>. SUFFICES ASSUME TypeOK, NEW limit \in Limits
                PROVE  /\ elapsed < PaidLimitAt(limit, values) => Paid(elapsed, values) < limit
                       /\ elapsed = PaidLimitAt(limit, values) => Paid(elapsed, values) = limit
    BY DEF LimitIsTheFirstMoment
  <2>1. elapsed \in Nat /\ values \in ShiftRules /\ limit \in Nat \ {0}
    BY LimitsAssumption, HorizonAssumption DEF TypeOK
  <2>. QED  BY <2>1, BeforeTheLimit, AtTheLimit
<1>. QED  BY <1>1, TypeCorrect, PTL

\* For every rule set and shift, the rounding neither makes nor hides overtime.
THEOREM RoundingIsNotOvertime == Spec => []RoundingMakesNoOvertime
<1>1. TypeOK => RoundingMakesNoOvertime
  <2>. SUFFICES ASSUME TypeOK  PROVE RoundingMakesNoOvertime
    OBVIOUS
  <2>. DEFINE paid == Paid(elapsed, values)
  <2>1. values \in ShiftRules /\ paid \in Nat
    BY PaidType, HorizonAssumption DEF TypeOK
  <2>2. CASE paid >= values.regular
    <3>1. RecordedPaid(elapsed, values) = paid
      BY <2>1, <2>2, RoundingSparesTheDay DEF RecordedPaid
    <3>. QED  BY <2>1, <2>2, <3>1 DEF RoundingMakesNoOvertime, PastRegular,
                 NeedsApproval, OvertimeHours, Max2, ShiftRules
  <2>3. CASE paid < values.regular
    <3>1. RecordedPaid(elapsed, values) \in paid .. values.regular
      BY <2>1, <2>3, RoundingStopsAtTheDay DEF RecordedPaid
    <3>. QED  BY <2>1, <2>3, <3>1 DEF RoundingMakesNoOvertime, PastRegular,
                 NeedsApproval, ShiftRules
  <2>. QED  BY <2>1, <2>2, <2>3 DEF ShiftRules
<1>. QED  BY <1>1, TypeCorrect, PTL

\* For every rule set and every limit from the paid day up, the row written at
\* the boundary records the limit.
THEOREM CloseRecords == Spec => []CloseRecordsTheLimit
<1>1. TypeOK => CloseRecordsTheLimit
  <2>. SUFFICES ASSUME TypeOK, NEW limit \in Limits, limit >= values.regular
                PROVE  RecordedPaid(PaidLimitAt(limit, values), values) = limit
    BY DEF CloseRecordsTheLimit
  <2>1. values \in ShiftRules /\ limit \in Nat
    BY LimitsAssumption DEF TypeOK
  <2>. QED  BY <2>1, AtTheLimit, RoundingSparesTheDay DEF RecordedPaid
<1>. QED  BY <1>1, TypeCorrect, PTL

\* Unless the close at the paid day ends every shift before the line or at it, some running
\* shift reaches the line: at its own boundary, which the close has not come to.
LEMMA ReachableIsReached ==
    ASSUME NEW rules \in ShiftRules, AlertReachable(rules)
    PROVE  LET e == PaidLimitAt(rules.notify, rules) IN
           /\ ReachesLine(e, rules)
           /\ GeneralClose(rules) => \A c \in 0..e : Paid(c, rules) < rules.regular
<1>. DEFINE e == PaidLimitAt(rules.notify, rules)
<1>1. rules.notify \in Nat \ {0} /\ rules.regular \in Nat /\ e \in Nat
  BY DEF ShiftRules, PaidLimitAt
<1>2. Paid(e, rules) = rules.notify
  BY <1>1, AtTheLimit
<1>3. GeneralClose(rules) => rules.notify < rules.regular
  BY <1>1 DEF GeneralClose, CloseDefers, AlertReachable
<1>4. ASSUME NEW c \in 0..e, GeneralClose(rules)
      PROVE  Paid(c, rules) < rules.regular
  <2>1. CASE c = e
    BY <1>1, <1>2, <1>3, <1>4, <2>1
  <2>2. CASE c < e
    <3>1. Paid(c, rules) \in Nat /\ Paid(c, rules) < rules.notify
      BY <1>1, <2>2, BeforeTheLimit, PaidType
    <3>. QED  BY <1>1, <1>3, <1>4, <3>1
  <2>. QED  BY <1>1, <1>4, <2>1, <2>2
<1>. QED  BY <1>1, <1>2, <1>4 DEF ReachesLine

\* Where the line is the paid day and the close is on, whoever reaches the line has been closed.
LEMMA UnreachableIsClosed ==
    ASSUME NEW rules \in ShiftRules, ~AlertReachable(rules), NEW e \in Nat,
           ReachesLine(e, rules)
    PROVE  GeneralClose(rules) /\ \E c \in 0..e : Paid(c, rules) >= rules.regular
<1>1. rules.notify \in Nat /\ rules.regular \in Nat /\ Paid(e, rules) \in Nat
  BY PaidType DEF ShiftRules
<1>2. GeneralClose(rules) /\ rules.notify = rules.regular
  BY <1>1 DEF GeneralClose, CloseDefers, AlertReachable, ShiftRules
<1>. QED  BY <1>1, <1>2 DEF ReachesLine

\* The instance looks at shifts long enough to come to every line.
LongEnough == \A rules \in Rules : PaidLimitAt(rules.notify, rules) <= Horizon

\* For all sets of rules, and shifts followed to their line, the console's verdict on the
\* alert is true.
THEOREM VerdictIsTrue == ASSUME LongEnough PROVE Spec => []AlertVerdictIsTrue
<1>. DEFINE Stored == values \in Rules
<1>1. Init => Stored
  BY DEF Init
<1>2. Stored /\ [Tick]_vars => Stored'
  BY DEF Tick, vars
<1>3. Stored => AlertVerdictIsTrue
  <2>. SUFFICES ASSUME Stored
                PROVE  AlertReachable(values) <=>
                           \E e \in 0..Horizon : StillRunning(e) /\ ReachesLine(e, values)
    BY DEF AlertVerdictIsTrue
  <2>1. values \in ShiftRules
    BY RulesAssumption
  <2>2. ASSUME AlertReachable(values)
        PROVE  \E e \in 0..Horizon : StillRunning(e) /\ ReachesLine(e, values)
    <3>. DEFINE e == PaidLimitAt(values.notify, values)
    <3>1. e \in 0..Horizon
      BY <2>1, HorizonAssumption DEF LongEnough, PaidLimitAt, ShiftRules
    <3>2. /\ ReachesLine(e, values)
          /\ GeneralClose(values) => \A c \in 0..e : Paid(c, values) < values.regular
      BY <2>1, <2>2, ReachableIsReached
    <3>3. \A c \in 0..e : Paid(c, values) \in Nat /\ values.regular \in Nat
      BY <2>1, PaidType DEF ShiftRules
    <3>4. StillRunning(e)
      BY <3>2, <3>3 DEF StillRunning
    <3>. QED  BY <3>1, <3>2, <3>4
  <2>3. ASSUME ~AlertReachable(values), NEW e \in 0..Horizon, ReachesLine(e, values)
        PROVE  ~StillRunning(e)
    BY <2>1, <2>3, UnreachableIsClosed, HorizonAssumption DEF StillRunning
  <2>. QED  BY <2>2, <2>3
<1>. QED  BY <1>1, <1>2, <1>3, PTL DEF Spec
=============================================================================
