-------------------------------- MODULE Punch --------------------------------
(***************************************************************************)
(* POST /attendance/verify (main.verify_worker): the punch a worker takes.  *)
(*                                                                          *)
(* One request is three steps that other requests run between: the gate      *)
(* reads the fence and the open shift (no lock), the face models judge the   *)
(* frame (an await on another thread, with a queue), and one write           *)
(* transaction re-reads the shift and settles the punch.  What the gate read *)
(* travels in the request and may be stale when the lock is taken.  An       *)
(* arrival has no face check and goes from the gate to its own transaction.  *)
(***************************************************************************)
EXTENDS AttendanceDB

CONSTANTS
    Requests,        \* the requests the server can be answering at once
    TransitEnabled,  \* accounts that may open a shift away from every site
    Taps,            \* bound: the actions that are sent in a run
    Bands            \* bound: the verdicts that admit a punch in a run

Actions == {"Clock In", "Clock Out", "Transit Checkpoint"}
Verdicts == {"approved", "pending_review"}

ASSUME PunchAssumption ==
    TransitEnabled \subseteq Workers /\ Taps \subseteq Actions /\ Bands \subseteq Verdicts

VARIABLE requests    \* what each request in flight has read and been told
punchVars == <<requests>>

\* A request and what it carries
Carried(stages, actions, sites, boundaries, verdicts) ==
    [stage: stages, worker: Workers, action: actions, fix: Fixes, confirmed: BOOLEAN,
     site: sites, gone: boundaries, verdict: verdicts]

\* A punch reaches the write transaction with a verdict that admits it.  The tap of a
\* quick link (module QuickLinks) names no action, gets no verdict and has a place.
InFlight ==
    Carried({"model", "arrive"}, Actions, Fixes, Fixes, {"none"})
    \cup Carried({"write"}, Actions, Fixes, Fixes, Verdicts)
    \cup Carried({"looking", "tapped"}, {"Tap"}, Sites, Fixes, {"none"})
    \cup Carried({"looking", "tapped"}, {"Tap"}, {NoSite}, Sites, {"none"})

Idle == [stage |-> "idle"]

PunchTypeOK == requests \in [Requests -> InFlight \cup {Idle}]
PunchInit == requests = [r \in Requests |-> Idle]

Finish(r) == requests' = [requests EXCEPT ![r] = Idle]

-----------------------------------------------------------------------------
(* The gate: one read of the fence and of the open shift                    *)

Travelling(w) == OnShift(w) /\ sessions[w].transit

\* The boundary a deleted site had is asked for only when no fence matched and
\* a shift is open.
GateGone(w, fix) ==
    IF SiteAt(fix) = NoSite /\ OnShift(w) THEN DeletedSiteAt(fix) ELSE NoSite

\* Broken on purpose, for the mutation checks: any open shift may be closed from anywhere.
AdmittedAnywhere(w, action, fix) ==
    \/ SiteAt(fix) # NoSite
    \/ w \in TransitEnabled /\ action # "Clock Out" /\ ~OnShift(w)
    \/ action = "Clock Out" /\ OnShift(w)

Admitted(w, action, fix) ==
    \/ SiteAt(fix) # NoSite
    \/ w \in TransitEnabled /\ action # "Clock Out" /\ ~OnShift(w)
    \/ w \in TransitEnabled /\ Travelling(w)
    \/ action = "Clock Out" /\ GateGone(w, fix) # NoSite

Gate(r, w, action, fix, confirmed) ==
    /\ requests[r] = Idle
    /\ Admitted(w, action, fix)
    /\ action = "Clock Out" \/ Travelling(w) \/ MayAskToOpen
    /\ requests' = [requests EXCEPT ![r] =
            [stage |-> IF Travelling(w) /\ action # "Clock Out" THEN "arrive" ELSE "model",
             worker |-> w, action |-> action, fix |-> fix,
             confirmed |-> confirmed /\ action = "Clock Out",
             site |-> SiteAt(fix), gone |-> GateGone(w, fix), verdict |-> "none"]]
    /\ UNCHANGED dbVars

-----------------------------------------------------------------------------
(* The face check: approved, held for review, or refused (a mismatch, a      *)
(* presentation attack, no usable frame, a full queue): a refusal ends the    *)
(* request and leaves these tables alone.                                    *)

JudgeFrame(r) ==
    /\ requests[r].stage = "model"
    /\ \E verdict \in Bands :
         requests' = [requests EXCEPT ![r].stage = "write", ![r].verdict = verdict]
    /\ UNCHANGED dbVars

RefuseFrame(r) ==
    /\ requests[r].stage = "model"
    /\ Finish(r)
    /\ UNCHANGED dbVars

-----------------------------------------------------------------------------
(* The write transaction of a clock-in or a checkpoint                      *)

OpensShift(r) == requests[r].stage = "write" /\ requests[r].action # "Clock Out"

\* No fence and no shift: the departure of a trip, which files no row.  Under
\* either action the row of an opening carries the action that was sent.
Depart(r) ==
    /\ OpensShift(r)
    /\ ~OnShift(requests[r].worker)
    /\ requests[r].site = NoSite
    /\ OpenShift(requests[r].worker, InTransit, TRUE)
    /\ Finish(r)
    /\ UNCHANGED <<now, values, live, deleted, logs, decisions, notices>>

PunchIn(r) ==
    LET q == requests[r] IN
    /\ OpensShift(r)
    /\ ~OnShift(q.worker)
    /\ q.site # NoSite
    /\ OpenShift(q.worker, q.site, FALSE)
    /\ logs' = Append(logs,
            [worker |-> q.worker, clockIn |-> now, shift |-> Len(logs), action |-> q.action, site |-> q.site,
             at |-> now, fix |-> q.fix, flagged |-> FALSE, score |-> q.verdict,
             source |-> "online", code |-> q.verdict, hours |-> 0, overtime |-> 0,
             approved |-> Null])
    /\ Finish(r)
    /\ UNCHANGED <<now, values, live, deleted, decisions, notices>>

\* "Already clocked in!"
RefuseIn(r) ==
    /\ OpensShift(r)
    /\ OnShift(requests[r].worker)
    /\ Finish(r)
    /\ UNCHANGED dbVars

-----------------------------------------------------------------------------
(* The write transaction of a clock-out                                     *)

\* Any row of this worker still waiting for a biometric review
FlaggedForReview(w) ==
    \E i \in DOMAIN logs : logs[i].worker = w /\ logs[i].code = "pending_review"

\* A trip that has reached no place: off_site_checkout_needs_admin
Unconfirmed(r) ==
    LET q == requests[r] IN
    Travelling(q.worker) /\ q.site = NoSite /\ q.gone = NoSite

\* The early clock-out the worker has not confirmed yet
TooEarly(r) ==
    /\ NeedsConfirmation(Elapsed(requests[r].worker), values)
    /\ ~requests[r].confirmed

OutRefused(r) ==
    \/ FlaggedForReview(requests[r].worker)
    \/ ~OnShift(requests[r].worker)
    \/ Unconfirmed(r)
    \/ TooEarly(r)

\* The site the shift carries once a trip taken inside a boundary is confirmed
ShiftSite(r) ==
    LET q == requests[r] IN
    IF ~Travelling(q.worker) THEN sessions[q.worker].site
    ELSE IF q.site # NoSite THEN q.site ELSE q.gone

ArrivalNotice(r) ==
    LET w == requests[r].worker IN
    IF Travelling(w) THEN {<<"arrived", w, sessions[w].clockIn>>} ELSE {}

\* Overtime that is held replaces the face verdict as the row's status
OutCode(r) ==
    IF HeldForApproval(requests[r].worker) THEN "pending_overtime" ELSE requests[r].verdict

PunchOut(r) ==
    LET q == requests[r]
        w == q.worker
        held == HeldForApproval(w)
    IN
    /\ q.stage = "write" /\ q.action = "Clock Out"
    /\ ~OutRefused(r)
    /\ CloseShift(w,
            [worker |-> w, clockIn |-> sessions[w].clockIn,
             shift |-> sessions[w].shift, action |-> "Clock Out",
             site |-> IF q.site # NoSite THEN q.site ELSE ShiftSite(r),
             at |-> now, fix |-> q.fix, flagged |-> q.site = NoSite, score |-> q.verdict,
             source |-> "online", code |-> OutCode(r),
             hours |-> RecordedPaid(Elapsed(w), values),
             overtime |-> IF held THEN HeldHours(w) ELSE 0, approved |-> Null])
    /\ notices' = notices \cup ArrivalNotice(r) \cup (IF held THEN CrossingNotice(w) ELSE {})
    /\ Finish(r)
    /\ UNCHANGED <<now, values, live, deleted>>

RefuseOut(r) ==
    /\ requests[r].stage = "write" /\ requests[r].action = "Clock Out"
    /\ OutRefused(r)
    /\ Finish(r)
    /\ UNCHANGED dbVars

-----------------------------------------------------------------------------
(* The arrival of a trip: main._arrive_transit_shift                        *)

ArrivalSite(r) == IF requests[r].site # NoSite THEN requests[r].site ELSE requests[r].gone

\* Broken on purpose, for the mutation checks: the trip stays unconfirmed after its arrival.
ArriveUnconfirmed(r) ==
    LET w == requests[r].worker IN
    /\ requests[r].stage = "arrive"
    /\ Travelling(w)
    /\ ArrivalSite(r) # NoSite
    /\ sessions' = [sessions EXCEPT ![w].site = ArrivalSite(r)]
    /\ logs' = Append(logs,
            [worker |-> w, clockIn |-> sessions[w].clockIn, shift |-> sessions[w].shift,
             action |-> "Transit Confirmed", site |-> ArrivalSite(r), at |-> now,
             fix |-> requests[r].fix, flagged |-> requests[r].site = NoSite,
             score |-> "none", source |-> "site_arrival", code |-> "approved",
             hours |-> 0, overtime |-> 0, approved |-> Null])
    /\ notices' = notices \cup {<<"arrived", w, sessions[w].clockIn>>}
    /\ Finish(r)
    /\ UNCHANGED <<now, values, live, deleted, decisions>>

Arrive(r) ==
    LET w == requests[r].worker IN
    /\ requests[r].stage = "arrive"
    /\ Travelling(w)
    /\ ArrivalSite(r) # NoSite
    /\ sessions' = [sessions EXCEPT ![w].site = ArrivalSite(r), ![w].transit = FALSE]
    /\ logs' = Append(logs,
            [worker |-> w, clockIn |-> sessions[w].clockIn,
             shift |-> sessions[w].shift, action |-> "Transit Confirmed",
             site |-> ArrivalSite(r), at |-> now, fix |-> requests[r].fix,
             flagged |-> requests[r].site = NoSite, score |-> "none", source |-> "site_arrival",
             code |-> "approved", hours |-> 0, overtime |-> 0, approved |-> Null])
    /\ notices' = notices \cup {<<"arrived", w, sessions[w].clockIn>>}
    /\ Finish(r)
    /\ UNCHANGED <<now, values, live, deleted, decisions>>

\* arrival_already_confirmed, or arrival_outside_geofence
RefuseArrival(r) ==
    /\ requests[r].stage = "arrive"
    /\ ~Travelling(requests[r].worker) \/ ArrivalSite(r) = NoSite
    /\ Finish(r)
    /\ UNCHANGED dbVars

-----------------------------------------------------------------------------
Settle(r) ==
    \/ JudgeFrame(r) \/ RefuseFrame(r)
    \/ Depart(r) \/ PunchIn(r) \/ RefuseIn(r)
    \/ PunchOut(r) \/ RefuseOut(r)
    \/ Arrive(r) \/ RefuseArrival(r)

PunchNext ==
    \E r \in Requests :
        \/ \E w \in Workers, action \in Taps, fix \in Fixes, confirmed \in BOOLEAN :
              Gate(r, w, action, fix, confirmed)
        \/ Settle(r)
=============================================================================
