---------------------------- MODULE OvertimeWatch ----------------------------
(***************************************************************************)
(* The overtime watcher: the daemon timer of backend/overtime.py.  Every     *)
(* interval it ends the shifts that ran to their limit (scan_auto_close) and *)
(* then announces the shifts past the overtime line (scan_overtime).  Each   *)
(* scan is one write transaction over all open shifts.                      *)
(***************************************************************************)
EXTENDS AttendanceDB

\* The watcher alternates its two scans.
VARIABLE nextScan
watchVars == <<nextScan>>

WatchTypeOK == nextScan \in {"close", "announce"}
WatchInit == nextScan = "close"

-----------------------------------------------------------------------------
(* The automatic close                                                      *)

\* An approval arms the close by itself; a refusal does not (overtime._is_authorised)
Armed(w) == GeneralClose(values) \/ (Answered(w) /\ Standing(w).decision = "authorised")

\* Broken on purpose, for the mutation checks: a low ceiling cuts the paid day short.
LimitBelowTheDay(w) == IF Answered(w) THEN Standing(w).hours ELSE values.regular

\* The end of the day this shift may reach: never below the paid day
Limit(w) == IF Answered(w) THEN Max2(values.regular, Standing(w).hours) ELSE values.regular

\* Broken on purpose, for the mutation checks: trips are closed like shifts, or an approval
\* does not arm the close.
DueOnTheRoad(w) ==
    OnShift(w) /\ Armed(w) /\ Paid(Elapsed(w), values) >= Limit(w)

DueUnarmed(w) ==
    /\ OnShift(w)
    /\ ~sessions[w].transit
    /\ GeneralClose(values)
    /\ Paid(Elapsed(w), values) >= Limit(w)

\* A trip that reached no place is never this rule's to end
Due(w) ==
    /\ OnShift(w)
    /\ ~sessions[w].transit
    /\ Armed(w)
    /\ Paid(Elapsed(w), values) >= Limit(w)

\* The close is dated at the moment the limit ran out, not at the scan
ClosedAt(w) == Min2(sessions[w].clockIn + PaidLimitAt(Limit(w), values), now)

AutoCloseRow(w) ==
    [worker |-> w, clockIn |-> sessions[w].clockIn,
     shift |-> sessions[w].shift, action |-> "Clock Out",
     site |-> sessions[w].site, at |-> ClosedAt(w), fix |-> NoSite, flagged |-> FALSE,
     score |-> "none", source |-> "auto_close", code |-> "auto_closed_8h",
     hours |-> RecordedPaid(ClosedAt(w) - sessions[w].clockIn, values),
     overtime |-> 0, approved |-> Null]

\* "order" is the order in which the scan meets the due shifts
ScanAutoClose ==
    LET due == {w \in Workers : Due(w)} IN
    /\ nextScan = "close"
    /\ \E order \in Bijection(1..Cardinality(due), due) :
         LET row(w) == Len(logs) + CHOOSE k \in DOMAIN order : order[k] = w IN
         /\ logs' = logs \o [k \in DOMAIN order |-> AutoCloseRow(order[k])]
         /\ decisions' = [d \in DOMAIN decisions |->
                IF \E w \in due : d \in LiveDecisions(w, sessions[w].clockIn)
                  THEN [decisions[d] EXCEPT !.consumedBy = row(decisions[d].worker)]
                  ELSE decisions[d]]
    /\ sessions' = [w \in Workers |-> IF w \in due THEN NoSession ELSE sessions[w]]
    /\ notices' = notices \cup {<<"auto_closed", w, sessions[w].clockIn>> : w \in due}
    /\ nextScan' = "announce"
    /\ UNCHANGED <<now, values, live, deleted>>

-----------------------------------------------------------------------------
(* The crossing alert, once per shift                                       *)

\* Broken on purpose, for the mutation checks: only a shift past the paid day is announced.
CrossedPastTheDay(w) ==
    OnShift(w) /\ PastRegular(Elapsed(w), values) /\ ~sessions[w].notified

Crossed(w) ==
    OnShift(w) /\ ReachesLine(Elapsed(w), values) /\ ~sessions[w].notified

ScanOvertime ==
    LET crossed == {w \in Workers : Crossed(w)} IN
    /\ nextScan = "announce"
    /\ sessions' = [w \in Workers |->
            IF w \in crossed THEN [sessions[w] EXCEPT !.notified = TRUE] ELSE sessions[w]]
    /\ notices' = notices \cup UNION {CrossingNotice(w) : w \in crossed}
    /\ nextScan' = "close"
    /\ UNCHANGED <<now, values, live, deleted, logs, decisions>>

WatchNext == ScanAutoClose \/ ScanOvertime
=============================================================================
