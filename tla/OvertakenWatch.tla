--------------------------- MODULE OvertakenWatch ---------------------------
(***************************************************************************)
(* The automatic close as the two steps it is.  database.db opens its        *)
(* transaction at the first statement that writes, so scan_auto_close reads  *)
(* the open shifts and their answers outside any transaction, and takes the  *)
(* write lock with its DELETE.  The watcher is a thread of its own: the      *)
(* event loop may commit a punch in between.                                *)
(***************************************************************************)
EXTENDS Attendance

VARIABLE seen       \* the rows the pass is about to write, by worker
overtakenVars == <<vars, seen>>

NothingSeen == [w \in {} |-> Null]

OvertakenInit == Init /\ seen = NothingSeen

ReadDue ==
    /\ nextScan = "close"
    /\ seen' = [w \in {v \in Workers : Due(v)} |-> AutoCloseRow(w)]
    /\ nextScan' = "write"
    /\ UNCHANGED <<dbVars, requests, revokedLinks>>

\* The session is deleted by its worker, whichever shift it is by now
WriteClose ==
    LET due == DOMAIN seen
        spent(w) == LiveDecisions(w, seen[w].clockIn)
    IN
    /\ nextScan = "write"
    /\ \E order \in Bijection(1..Cardinality(due), due) :
         LET row(w) == Len(logs) + CHOOSE k \in DOMAIN order : order[k] = w IN
         /\ logs' = logs \o [k \in DOMAIN order |-> seen[order[k]]]
         /\ decisions' = [d \in DOMAIN decisions |->
                IF \E w \in due : d \in spent(w)
                  THEN [decisions[d] EXCEPT !.consumedBy = row(decisions[d].worker)]
                  ELSE decisions[d]]
    /\ sessions' = [w \in Workers |-> IF w \in due THEN NoSession ELSE sessions[w]]
    /\ notices' = notices \cup {<<"auto_closed", w, seen[w].clockIn>> : w \in due}
    /\ nextScan' = "announce"
    /\ seen' = NothingSeen
    /\ UNCHANGED <<now, values, live, deleted, requests, revokedLinks>>

OvertakenNext ==
    \/ PunchNext /\ UNCHANGED <<nextScan, revokedLinks, seen>>
    \/ AdminNext /\ UNCHANGED <<requests, nextScan, revokedLinks, seen>>
    \/ ReadDue
    \/ WriteClose
    \/ ScanOvertime /\ UNCHANGED <<requests, revokedLinks, seen>>
    \/ Tick /\ UNCHANGED <<requests, nextScan, revokedLinks, seen>>

OvertakenSpec == OvertakenInit /\ [][OvertakenNext]_overtakenVars

-----------------------------------------------------------------------------
(* What the source says of itself and the code does not do (README)         *)

\* "The close needs no such guard: it deletes the session it closed, so there is nothing left
\* to close twice": one shift has one clock-out in the ledger.
ClosedOnce ==
    \A i, j \in DOMAIN logs : Closes(i) /\ Closes(j) /\ SameShift(i, j) => i = j
=============================================================================
