---------------------------- MODULE AttendanceDB ----------------------------
(***************************************************************************)
(* The tables every attendance operation of the server reads and writes     *)
(* (active_sessions, attendance_logs, overtime_authorisations,              *)
(* construction_sites with its delete events, shift_rules, and the worker    *)
(* notices that carry a UNIQUE dedupe key), and the steps every path that    *)
(* ends a shift shares.                                                     *)
(*                                                                          *)
(* Every "with db(write=True)" block is one action.  SQLite alone does not   *)
(* give that: the block's transaction begins at its first statement that     *)
(* writes, and what it reads before is read outside of it.  The event loop    *)
(* does: a handler awaits nothing inside a block, so no two blocks of         *)
(* handlers overlap.  The watcher's blocks run on a thread of their own, and  *)
(* taking them as one action assumes that no handler's commit falls between   *)
(* their reading and their writing; OvertakenWatch drops that assumption.     *)
(*                                                                          *)
(* The code identifies a shift by the worker and the clock-in moment.  A row *)
(* of attendance_logs stores neither that moment nor the shift, so the model *)
(* writes both on it, for the properties only: "clockIn", and "shift", the   *)
(* length of the ledger when the shift opened, which no two shifts of one    *)
(* worker share although a moment stands for many seconds.                  *)
(***************************************************************************)
EXTENDS ShiftHours, Sequences, FiniteSets, Functions

CONSTANTS
    Workers,        \* accounts that punch
    Sites,          \* names a fence can carry; a fix "s" lies inside the boundary of s
    NoSite,         \* no fence: a fix outside every boundary, or no fix at all
    InTransit,      \* main.TRANSIT_SITE_NAME, the site of an unconfirmed trip
    RuleChoices,    \* the shift rules an administrator may store
    Removable,      \* bound: the sites that are deleted in a run
    MaxRows,        \* bound: nobody asks for a shift once the ledger is this long
    MaxNow          \* bound: the last moment of a run

ASSUME WorkersAssumption == IsFiniteSet(Workers)
ASSUME SitesAssumption == NoSite \notin Sites /\ InTransit \notin Sites /\ NoSite # InTransit
ASSUME RulesAssumption == RuleChoices \subseteq ShiftRules /\ RuleChoices # {}
ASSUME BoundsAssumption == 
    Removable \subseteq Sites /\ MaxRows \in Nat /\ MaxNow \in Nat

VARIABLES
    now,        \* the server's clock
    values,     \* the stored shift_rules row
    live,       \* construction_sites
    deleted,    \* names with a site_delete audit event
    sessions,   \* active_sessions, one row at most per worker (worker_id is its key)
    logs,       \* attendance_logs, in id order
    decisions,  \* overtime_authorisations, in id order
    notices     \* worker notices, by the dedupe key of a shift

dbVars == <<now, values, live, deleted, sessions, logs, decisions, notices>>

-----------------------------------------------------------------------------
(* Rows                                                                     *)

Moments == Nat
Fixes == Sites \cup {NoSite}

NoSession ==
    [clockIn |-> Null, shift |-> Null, site |-> NoSite, transit |-> FALSE, notified |-> FALSE]

Session ==
    [clockIn: Moments, shift: Nat, site: Sites \cup {InTransit}, transit: BOOLEAN,
     notified: BOOLEAN]

RowActions == {"Clock In", "Transit Checkpoint", "Transit Confirmed", "Clock Out"}

\* "score" is the band the stored score falls in, and "none" where no face was
\* checked; "flagged" is DELETED_SITE_REASON in flag_reason; "fix" is lat and lon.
Row ==
    [worker: Workers, clockIn: Moments, shift: Nat, action: RowActions,
     site: Sites \cup {InTransit}, at: Moments, fix: Fixes, flagged: BOOLEAN,
     score: {"approved", "pending_review", "none"},
     source: {"online", "quick_link", "site_arrival", "admin_override", "auto_close"},
     code: PayableCodes \cup PendingCodes \cup {"rejected"},
     hours: Nat, overtime: Nat, approved: Nat \cup {Null}]

Decision ==
    [worker: Workers, clockIn: Moments, decision: {"authorised", "declined"},
     hours: Nat, recorded: Nat, consumedBy: Nat \cup {Null}, supersededBy: Nat \cup {Null}]

NoticeKinds == {"crossing", "arrived", "auto_closed"}

DBTypeOK ==
    /\ now \in Moments
    /\ values \in ShiftRules
    /\ live \subseteq Sites
    /\ deleted \subseteq Sites
    /\ sessions \in [Workers -> Session \cup {NoSession}]
    /\ logs \in Seq(Row)
    /\ decisions \in Seq(Decision)
    /\ notices \subseteq NoticeKinds \X Workers \X Moments

DBInit ==
    /\ now = 0
    /\ values \in RuleChoices
    /\ live = Sites
    /\ deleted = {}
    /\ sessions = [w \in Workers |-> NoSession]
    /\ logs = <<>>
    /\ decisions = <<>>
    /\ notices = {}

-----------------------------------------------------------------------------
(* Reading the tables                                                       *)

OnShift(w) == sessions[w].clockIn # Null
Elapsed(w) == now - sessions[w].clockIn

\* main.site_at
SiteAt(fix) == IF fix \in live THEN fix ELSE NoSite

\* main.deleted_site_at: a name that is live again is skipped
DeletedSiteAt(fix) == IF fix \in deleted \ live THEN fix ELSE NoSite

\* The rows that end shift (w, clockIn)
ClosingRows(w, clockIn) ==
    {i \in DOMAIN logs : /\ logs[i].action = "Clock Out"
                         /\ logs[i].worker = w
                         /\ logs[i].clockIn = clockIn}

\* overtime.live_decision: not consumed, not superseded
LiveDecisions(w, clockIn) ==
    {d \in DOMAIN decisions : /\ decisions[d].worker = w
                              /\ decisions[d].clockIn = clockIn
                              /\ decisions[d].consumedBy = Null
                              /\ decisions[d].supersededBy = Null}

Answered(w) == LiveDecisions(w, sessions[w].clockIn) # {}
Standing(w) == decisions[CHOOSE d \in LiveDecisions(w, sessions[w].clockIn) :
                            \A e \in LiveDecisions(w, sessions[w].clockIn) : e <= d]

-----------------------------------------------------------------------------
(* Ending a shift                                                           *)

\* overtime.apply_authorisation: the hours still held past the standing answer
\* (the regular day when nobody answered), and whether they wait for approval
Ceiling(w) == IF Answered(w) THEN Standing(w).hours ELSE values.regular
\* Broken on purpose, for the mutation checks: a shift under its ceiling holds a negative figure.
HeldUnclamped(w) == Paid(Elapsed(w), values) - Ceiling(w)

HeldHours(w) == Max2(0, Paid(Elapsed(w), values) - Ceiling(w))
HeldForApproval(w) == ReachesLine(Elapsed(w), values) /\ HeldHours(w) > 0

\* Broken on purpose, for the mutation checks: the answer is not spent.
Unspent(w, log) == decisions

\* overtime.consume_authorisation
Consumed(w, log) ==
    [d \in DOMAIN decisions |->
        IF d \in LiveDecisions(w, sessions[w].clockIn)
          THEN [decisions[d] EXCEPT !.consumedBy = log] ELSE decisions[d]]

\* Broken on purpose, for the mutation checks: the line is passed, not reached.
NoticePastTheLine(w) ==
    IF Paid(Elapsed(w), values) > values.notify
      THEN {<<"crossing", w, sessions[w].clockIn>>} ELSE {}

\* overtime.announce_crossing: one notice per shift, once its line is reached
CrossingNotice(w) ==
    IF ReachesLine(Elapsed(w), values)
      THEN {<<"crossing", w, sessions[w].clockIn>>} ELSE {}

\* Broken on purpose, for the mutation checks: the session is left behind.
CloseKeepingSession(w, row) ==
    /\ logs' = Append(logs, row)
    /\ decisions' = Consumed(w, Len(logs) + 1)
    /\ UNCHANGED sessions

\* DELETE FROM active_sessions, INSERT the clock-out, spend the decision
CloseShift(w, row) ==
    /\ sessions' = [sessions EXCEPT ![w] = NoSession]
    /\ logs' = Append(logs, row)
    /\ decisions' = Consumed(w, Len(logs) + 1)

OpenShift(w, site, transit) ==
    sessions' = [sessions EXCEPT ![w] =
        [clockIn |-> now, shift |-> Len(logs), site |-> site, transit |-> transit,
         notified |-> FALSE]]

MayAskToOpen == Len(logs) < MaxRows

Tick ==
    /\ now < MaxNow
    /\ now' = now + 1
    /\ UNCHANGED <<values, live, deleted, sessions, logs, decisions, notices>>
=============================================================================
