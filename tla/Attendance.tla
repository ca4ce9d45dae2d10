----------------------------- MODULE Attendance -----------------------------
(***************************************************************************)
(* The attendance service: workers' punches and the taps of their links, the *)
(* administrators' desk and the overtime watcher over one database.         *)
(***************************************************************************)
EXTENDS QuickLinks, AdminDesk, OvertimeWatch

vars == <<now, values, live, deleted, sessions, logs, decisions, notices, requests, nextScan,
          revokedLinks>>

Init == DBInit /\ PunchInit /\ WatchInit /\ LinkInit

Next ==
    \/ (PunchNext \/ TapNext) /\ UNCHANGED <<nextScan, revokedLinks>>
    \/ AdminNext /\ UNCHANGED <<requests, nextScan, revokedLinks>>
    \/ (\E w \in LinksToRevoke : RevokeLink(w)) /\ UNCHANGED <<requests, nextScan>>
    \/ WatchNext /\ UNCHANGED <<requests, revokedLinks>>
    \/ Tick /\ UNCHANGED <<requests, nextScan, revokedLinks>>

Spec == Init /\ [][Next]_vars

\* The clock runs, the watcher is a timer thread that never stops (a pass that
\* raises is caught and the next one runs), and the server answers every request
\* it has taken (a face check has a deadline).  Nobody has to punch or decide.
Fairness ==
    /\ WF_vars(Tick /\ UNCHANGED <<requests, nextScan, revokedLinks>>)
    /\ WF_vars(WatchNext /\ UNCHANGED <<requests, revokedLinks>>)
    /\ \A r \in Requests :
          WF_vars((Settle(r) \/ SettleTap(r)) /\ UNCHANGED <<nextScan, revokedLinks>>)

FairSpec == Spec /\ Fairness

TablesOK == DBTypeOK /\ PunchTypeOK /\ WatchTypeOK
TypeOK == TablesOK /\ LinkTypeOK

-----------------------------------------------------------------------------
(* Safety                                                                   *)

SameShift(i, j) == logs[i].worker = logs[j].worker /\ logs[i].shift = logs[j].shift
Closes(i) == logs[i].action = "Clock Out"
Confirms(i) == logs[i].action = "Transit Confirmed"

\* A shift that was settled stays settled: whatever order a clock-out, a forced
\* close, the watcher's close and a late arrival take the lock in, nothing is
\* filed for a shift after its clock-out (the session is re-read under the lock).
NothingAfterTheClose ==
    \A i, j \in DOMAIN logs : Closes(i) /\ SameShift(i, j) => j <= i

\* An account without the travel privilege closes its shift at a place: inside a
\* live fence, or inside the last known boundary of a deleted one; and so does
\* whoever taps a link.
OrdinaryShiftEndsAtAPlace ==
    \A i \in DOMAIN logs :
        Closes(i) /\ logs[i].fix = NoSite /\ logs[i].source \in {"online", "quick_link"} =>
            logs[i].source = "online" /\ logs[i].worker \in TransitEnabled

\* A trip is confirmed once: two arrivals in flight, or an arrival racing a
\* clock-out inside the fence, file one milestone (arrival_already_confirmed).
TripConfirmedOnce ==
    \A i, j \in DOMAIN logs : Confirms(i) /\ Confirms(j) /\ SameShift(i, j) => i = j

\* A shift that never reached a place is never paid automatically: its clock-out
\* is filed under the placeholder only at an administrator's hand (scan_auto_close,
\* "a shift that never reaches a site is never auto-approved").
UnplacedShiftNeedsAnAdministrator ==
    \A i \in DOMAIN logs :
        Closes(i) /\ logs[i].site = InTransit => logs[i].source = "admin_override"

\* At most one standing answer per shift, also after a ceiling was outgrown and
\* answered again (the partial unique index idx_overtime_authorisations_live).
OneStandingAnswer ==
    \A d, e \in DOMAIN decisions :
        (/\ decisions[d].worker = decisions[e].worker
         /\ decisions[d].clockIn = decisions[e].clockIn
         /\ {decisions[d].consumedBy, decisions[d].supersededBy,
             decisions[e].consumedBy, decisions[e].supersededBy} = {Null}) => d = e

\* An answer lives and dies with its shift: it stands only while the shift it was
\* given for is open, and it is spent by that very shift's clock-out.
AnswerFollowsItsShift ==
    \A d \in DOMAIN decisions :
        LET a == decisions[d] IN
        \/ a.supersededBy \in d + 1 .. Len(decisions)
        \/ a.consumedBy = Null /\ sessions[a.worker].clockIn = a.clockIn
        \/ /\ a.consumedBy \in ClosingRows(a.worker, a.clockIn)
           /\ a.supersededBy = Null

\* Whoever's hours are held for approval has been told that the line was crossed,
\* although the watcher only sees open shifts (overtime.announce_crossing).
HeldHoursWereAnnounced ==
    \A i \in DOMAIN logs :
        logs[i].code = "pending_overtime" =>
            <<"crossing", logs[i].worker, logs[i].clockIn>> \in notices

\* What is credited and what waits are the row's hours, and no decision or
\* correction credits more than the row records (reports._shift_hours).
CreditAndAwaitingAddUp ==
    \A i \in DOMAIN logs :
        LET counted == CreditedHours(logs[i]) + AwaitingHours(logs[i]) IN
        /\ counted <= logs[i].hours
        /\ logs[i].code \in PendingCodes => counted = logs[i].hours

-----------------------------------------------------------------------------
(* Steps                                                                    *)

\* The ledger is append-only about what happened: a decision on a row changes its
\* figures and its status, never whose shift it is, where, when or at whose hand.
LedgerKeepsItsFacts ==
    [][/\ Len(logs') >= Len(logs)
       /\ \A i \in DOMAIN logs : \A f \in {"worker", "shift", "clockIn", "action", "site", "at", "fix",
                                           "flagged", "score", "source"} :
              logs'[i][f] = logs[i][f]]_vars

\* "The standard day is earned the moment the shift is filed" (README, "What a
\* shift is worth before anybody decides"): hours that are filed as held never reach
\* into the paid day, unless the answer to the crossing named less than it.
StandardDayIsEarned ==
    [][\A i \in DOMAIN logs' \ DOMAIN logs :
          logs'[i].code = "pending_overtime" /\ Ceiling(logs'[i].worker) >= values.regular =>
              CreditedHours(logs'[i]) >= Min2(values.regular, logs'[i].hours)]_vars

\* What the automatic close files: the ceiling of the answer it spends, or the paid
\* day, never less than the paid day, and dated in the past (scan_auto_close).
AutoCloseFilesTheLimit ==
    [][\A i \in DOMAIN logs' \ DOMAIN logs :
          logs'[i].source = "auto_close" =>
              /\ \A d \in DOMAIN decisions' :
                    decisions'[d].consumedBy = i =>
                        logs'[i].hours = Max2(values.regular, decisions'[d].hours)
              /\ (\A d \in DOMAIN decisions' : decisions'[d].consumedBy # i) =>
                    logs'[i].hours = values.regular
              /\ logs'[i].clockIn + logs'[i].hours <= logs'[i].at /\ logs'[i].at <= now]_vars

\* A link does what it was issued for and no more: with two taps in flight over its last
\* use, or one over its revocation, a link that is spent or revoked files nothing.
SpentLinkFilesNothing ==
    [][\A w \in Linked :
          Uses(w)' # Uses(w) =>
              /\ w \notin revokedLinks
              /\ Uses(w)' = Uses(w) + 1
              /\ LinkUses > 0 => Uses(w)' <= LinkUses]_vars

-----------------------------------------------------------------------------
(* The promise of ShiftLifecycle, kept                                      *)

PhaseOf(w) ==
    IF ~OnShift(w) THEN "off" ELSE IF sessions[w].transit THEN "travelling" ELSE "working"

HandOf(i) ==
    CASE logs[i].source = "admin_override" -> "administrator"
      [] logs[i].source = "auto_close" -> "system"
      [] OTHER -> "worker"

Phases == [w \in Workers |-> PhaseOf(w)]
Currents == [w \in Workers |-> sessions[w].shift]

\* What a clock-out row says to the promise
Ending(i) ==
    [id |-> i, worker |-> logs[i].worker, shift |-> logs[i].shift,
     by |-> HandOf(i), placed |-> logs[i].site # InTransit]
Endings == {Ending(i) : i \in {j \in DOMAIN logs : Closes(j)}}

Lifecycle == INSTANCE ShiftLifecycle WITH
    phase <- Phases, current <- Currents, ended <- Endings

ImplementsLifecycle == Lifecycle!Spec

-----------------------------------------------------------------------------
(* Progress                                                                 *)

\* The run is long enough for the shift to reach every ceiling and the paid day
TimeFor(w) == sessions[w].clockIn + MaxAuthorised + values.regular + values.break < MaxNow

\* A ceiling ends the day: an approved shift that is not travelling ends, although
\* the close at the paid day is off or standing down, unless a refusal replaces
\* the approval it outgrew (scan_auto_close, "a shift that nothing can bound is
\* how a session nobody remembers runs for a week").
ApprovedShiftEnds ==
    \A w \in Workers :
        (OnShift(w) /\ ~sessions[w].transit /\ Armed(w) /\ TimeFor(w)) ~>
            (~OnShift(w) \/ ~Armed(w))

\* Somebody who works past the line is told, by the watcher or by the clock-out,
\* unless the shift ends with nothing held.
CrossingIsTold ==
    \A w \in Workers, c \in 0..MaxNow :
        (sessions[w].clockIn = c /\ ReachesLine(Elapsed(w), values)) ~>
            (\/ <<"crossing", w, c>> \in notices
             \/ sessions[w].clockIn # c)

-----------------------------------------------------------------------------
(* What the source says of itself and the code does not do (README)         *)

\* "A Clock Out taken away from every site is refused": a row that matched no
\* live fence was taken inside the last known boundary of a deleted site, which
\* is what its flag says (DELETED_SITE_REASON).
DeletedSiteReasonIsTrue ==
    \A i \in DOMAIN logs : logs[i].flagged => logs[i].fix # NoSite

\* "pending_review credits nothing: it is a doubt about whether the work happened
\* at all (... a selfie that did not match ...)".
FaceDoubtCreditsNothing ==
    \A i \in DOMAIN logs :
        logs[i].score = "pending_review" /\ logs[i].code \in PendingCodes =>
            CreditedHours(logs[i]) = 0

\* "the hours past it are not lost - they stay on the shift, keep counting, and
\* settle at the clock-out": a shift answered at a ceiling below what it had
\* worked is filed with at least the hours recorded when it was answered.
AnsweredHoursAreNotLost ==
    \A d \in DOMAIN decisions :
        decisions[d].consumedBy # Null =>
            logs[decisions[d].consumedBy].hours >= decisions[d].recorded

\* "Two taps arriving together (...) must not both punch: the row is the lock": once one of
\* two taps has punched, the link refuses the other.
OneTapOfTwoPunches ==
    [][\A r, s \in Requests, w \in Linked :
          (/\ r # s /\ {requests[r].stage, requests[s].stage} = {"tapped"}
           /\ {requests[r].worker, requests[s].worker} = {w}
           /\ requests'[r] = Idle /\ Uses(w)' # Uses(w)) => TapRefused(s)']_vars
=============================================================================
