------------------------------ MODULE AdminDesk ------------------------------
(***************************************************************************)
(* What an administrator does to attendance from the console: forced         *)
(* clock-ins and clock-outs, the review queue, corrections of filed hours,   *)
(* answers to overtime crossings, sites and shift rules (backend/main.py and *)
(* overtime.decide_crossing).  Each is one write transaction.                *)
(*                                                                          *)
(* Who may reach whom (_guard_standard_admin) and the audit trail are left   *)
(* out: they change none of these tables.                                   *)
(***************************************************************************)
EXTENDS AttendanceDB

CONSTANTS
    Figures,         \* the hours an administrator may type on a row or an override
    Ceilings,        \* the ceilings an administrator may type for a crossing
    MaxAuthorised,   \* overtime.MAX_AUTHORISED_HOURS
    MaxAnswers       \* bound: the answers of a run (a ceiling below the hours
                     \* worked leaves its question open, and can be repeated)

ASSUME FiguresAssumption ==
    /\ Figures \subseteq Nat /\ Ceilings \subseteq Nat /\ MaxAuthorised \in Nat
    /\ MaxAnswers \in Nat

\* An optional field of a form: typed, or left empty
Typed(figures) == figures \cup {Null}
Blank == Null

-----------------------------------------------------------------------------
(* Shifts opened and closed from the console                                *)

ForceClockIn(w, site) ==
    /\ ~OnShift(w)
    /\ site \in live
    /\ MayAskToOpen
    /\ OpenShift(w, site, FALSE)
    /\ logs' = Append(logs,
            [worker |-> w, clockIn |-> now, shift |-> Len(logs), action |-> "Clock In", site |-> site,
             at |-> now, fix |-> NoSite, flagged |-> FALSE, score |-> "none",
             source |-> "admin_override", code |-> "approved", hours |-> 0, overtime |-> 0,
             approved |-> Null])
    /\ UNCHANGED <<now, values, live, deleted, decisions, notices>>

\* A trip that never reached a place is closed here too, under its placeholder
\* site.  The row is approved as it is written, at the typed figure or the clock's.
ForceClockOut(w, typed) ==
    LET hours == IF typed = Blank THEN RecordedPaid(Elapsed(w), values) ELSE typed
        held  == IF typed = Blank THEN HeldHours(w) ELSE Max2(0, typed - values.regular)
    IN
    /\ OnShift(w)
    /\ typed <= MaxAuthorised
    /\ CloseShift(w,
            [worker |-> w, clockIn |-> sessions[w].clockIn,
             shift |-> sessions[w].shift, action |-> "Clock Out",
             site |-> sessions[w].site, at |-> now, fix |-> NoSite, flagged |-> FALSE,
             score |-> "none", source |-> "admin_override", code |-> "approved",
             hours |-> hours, overtime |-> held, approved |-> hours])
    /\ notices' = notices \cup CrossingNotice(w)
    /\ UNCHANGED <<now, values, live, deleted>>

-----------------------------------------------------------------------------
(* Filed rows                                                               *)

InReview(i) == logs[i].code \in PendingCodes

Settled(i, code, approved, overtime) ==
    /\ logs' = [logs EXCEPT ![i].code = code, ![i].approved = approved, ![i].overtime = overtime]
    /\ UNCHANGED <<now, values, live, deleted, sessions, decisions, notices>>

ApproveReview(i, typed) ==
    LET approved == IF typed = Blank THEN logs[i].hours ELSE typed IN
    /\ InReview(i)
    /\ approved <= logs[i].hours
    /\ Settled(i, "approved", approved, Max2(0, approved - values.regular))

\* Refused overtime keeps the standard day; a refused punch is worth nothing
RejectReview(i) ==
    /\ InReview(i)
    /\ IF logs[i].code = "pending_overtime"
         THEN Settled(i, "overtime_rejected", Min2(values.regular, logs[i].hours), 0)
         ELSE Settled(i, "rejected", 0, 0)

EditHours(i, hours) ==
    /\ logs[i].action = "Clock Out"
    /\ ~InReview(i)
    /\ hours <= MaxAuthorised
    /\ logs' = [logs EXCEPT ![i].hours = hours, ![i].approved = hours,
                            ![i].overtime = Max2(0, hours - values.regular)]
    /\ UNCHANGED <<now, values, live, deleted, sessions, decisions, notices>>

-----------------------------------------------------------------------------
(* Answers to a crossing: overtime.decide_crossing                          *)

\* overtime.authorisation_covers: a refusal covers the shift for good, a ceiling
\* until the shift has worked past it (the three minutes of tolerance are below
\* the unit of time)
Covered(w) ==
    /\ Answered(w)
    /\ Standing(w).decision = "authorised" => Paid(Elapsed(w), values) <= Standing(w).hours

\* overtime.open_crossings: the question the queue shows, and the writer accepts
Asked(w) ==
    /\ OnShift(w)
    /\ ReachesLine(Elapsed(w), values)
    /\ ~Covered(w)

\* Broken on purpose, for the mutation checks: the outgrown answer stays live.
NotSuperseded(w) == decisions

\* The standing answer stands down under the id the new row takes.  The notice
\* of a decision is keyed by that row, one for one, and is not kept apart.
Superseded(w) ==
    [d \in DOMAIN decisions |->
        IF d \in LiveDecisions(w, sessions[w].clockIn)
          THEN [decisions[d] EXCEPT !.supersededBy = Len(decisions) + 1] ELSE decisions[d]]

Decide(w, decision, ceiling) ==
    /\ Asked(w)
    /\ ceiling <= MaxAuthorised
    /\ Len(decisions) < MaxAnswers
    /\ decisions' = Append(Superseded(w),
            [worker |-> w, clockIn |-> sessions[w].clockIn, decision |-> decision,
             hours |-> ceiling, recorded |-> Paid(Elapsed(w), values),
             consumedBy |-> Null, supersededBy |-> Null])
    /\ UNCHANGED <<now, values, live, deleted, sessions, logs, notices>>

AcceptCrossing(w, typed) ==
    Decide(w, "authorised", IF typed = Blank THEN Paid(Elapsed(w), values) ELSE typed)

DeclineCrossing(w) == Decide(w, "declined", values.regular)

-----------------------------------------------------------------------------
(* Configuration                                                            *)

AddSite(site) ==
    /\ site \notin live
    /\ live' = live \cup {site}
    /\ UNCHANGED <<now, values, deleted, sessions, logs, decisions, notices>>

\* Open shifts at the site stay open; its boundary survives in the audit event
DeleteSite(site) ==
    /\ site \in live \cap Removable
    /\ live' = live \ {site}
    /\ deleted' = deleted \cup {site}
    /\ UNCHANGED <<now, values, sessions, logs, decisions, notices>>

UpdateShiftRules(rules) ==
    /\ rules # values
    /\ values' = rules
    /\ UNCHANGED <<now, live, deleted, sessions, logs, decisions, notices>>

-----------------------------------------------------------------------------
AdminNext ==
    \/ \E w \in Workers :
          \/ \E site \in Sites : ForceClockIn(w, site)
          \/ \E typed \in Typed(Figures) : ForceClockOut(w, typed)
          \/ \E typed \in Typed(Ceilings) : AcceptCrossing(w, typed)
          \/ DeclineCrossing(w)
    \/ \E i \in DOMAIN logs :
          \/ \E typed \in Typed(Figures) : ApproveReview(i, typed)
          \/ RejectReview(i)
          \/ \E hours \in Figures : EditHours(i, hours)
    \/ \E site \in Sites : AddSite(site) \/ DeleteSite(site)
    \/ \E rules \in RuleChoices : UpdateShiftRules(rules)
=============================================================================
