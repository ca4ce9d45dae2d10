---------------------------- MODULE OfflineSync ----------------------------
(***************************************************************************)
(* The server's half of offline punching (backend/offline_sync.py): signing  *)
(* devices, the punch queue, its materialisation into shifts, and the desk   *)
(* that resolves refused punches.                                           *)
(*                                                                          *)
(* POST /attendance/sync is one write transaction with two loops in it.  It   *)
(* is modelled step by step under "txn"; every other action of the server     *)
(* waits until the block is over, since the block awaits nothing.            *)
(* Signatures and anchors are what an honest phone sends (valid), so of the   *)
(* refusals those of the time policy are left.                              *)
(***************************************************************************)
EXTENDS AttendanceDB

CONSTANTS
    Phones,         \* phones with the app
    Owner,          \* the worker signed in on each phone
    Unassigned,     \* SITE_UNASSIGNED, the site of a shift opened away from every fence
    MaxAge,         \* settings.offline_punch_max_age_hours
    Window          \* settings.offline_duplicate_window_seconds

ASSUME PhonesAssumption ==
    /\ Owner \in [Phones -> Workers] /\ Null \notin Phones
    /\ Unassigned \notin Sites \cup {NoSite, InTransit}
    /\ MaxAge \in Nat /\ Window \in Nat

VARIABLES
    revoked,        \* worker_devices with revoked_at: the phones whose key signs no more
    queue,          \* punch_queue, in id order
    txn             \* the block that is under way, or NoTxn
syncVars == <<revoked, queue, txn>>

-----------------------------------------------------------------------------
(* Rows                                                                     *)

PunchActions == {"Clock In", "Clock Out"}
Filed == {"accepted", "flagged"}    \* PENDING_STATUSES

\* A client_punch_id: the n-th punch taken on a phone
PunchIds == Phones \X (Nat \ {0})

\* What a phone signs.  "at" is the anchor's time plus the monotonic offset,
\* "tampered" a wall clock that disagrees with it by more than the allowance.
SignedPunch ==
    [id: PunchIds, action: PunchActions, at: Moments, fix: Fixes, tampered: BOOLEAN]

Codes == {"none", "punch_too_old", "clock_tampered", "already_clocked_in", "no_open_session",
          "admin_rejected"}

QueueRow ==
    [id: PunchIds, worker: Workers, action: PunchActions, at: Moments, fix: Fixes, site: Fixes,
     status: Filed \cup {"rejected"}, code: Codes, log: Nat \cup {Null}]

\* The ledger and the open shifts, now that a shift may be opened and closed from the queue
FieldRow ==
    [worker: Workers, clockIn: Moments, shift: Nat, action: RowActions,
     site: Sites \cup {InTransit, Unassigned}, at: Moments, fix: Fixes, flagged: BOOLEAN,
     score: {"approved", "pending_review", "none"},
     source: {"online", "site_arrival", "admin_override", "auto_close", "offline"},
     code: PayableCodes \cup PendingCodes \cup {"rejected", "unverified_offline"},
     hours: Nat, overtime: Nat, approved: Nat \cup {Null}]

OfflineSession ==
    [clockIn: Moments, shift: Nat, site: Sites \cup {Unassigned}, transit: {FALSE},
     notified: BOOLEAN]

\* The rest of the batch, the verdicts so far, the phone that sent it (Null for the desk),
\* and whether it still waits for the answer
NoTxn == [open |-> FALSE]
SyncVerdicts == Filed \cup {"rejected", "duplicate"}
Txn ==
    [open: {TRUE}, worker: Workers, left: Seq(SignedPunch), phone: Phones \cup {Null},
     heard: BOOLEAN, verdicts: Seq(SyncVerdicts)]

SyncInit == revoked = {} /\ queue = <<>> /\ txn = NoTxn

Free == txn = NoTxn

-----------------------------------------------------------------------------
(* Verifying one punch of the batch                                         *)

\* client_punch_id is UNIQUE, also among the rows that were refused
Known(p) == \E k \in DOMAIN queue : queue[k].id = p.id

\* The double tap: the same action of the same worker at the same time, not refused
DoubleTap(w, p) ==
    \E k \in DOMAIN queue :
        /\ queue[k].worker = w /\ queue[k].action = p.action
        /\ queue[k].status # "rejected"
        /\ queue[k].at <= p.at + Window /\ p.at <= queue[k].at + Window

\* The order of verify_punch: what is known first, then the time policy, then the double tap
Duplicate(w, p) ==
    Known(p) \/ (~p.tampered /\ now <= p.at + MaxAge /\ DoubleTap(w, p))

Refusal(p) ==
    IF now > p.at + MaxAge THEN "punch_too_old"
    ELSE IF p.tampered THEN "clock_tampered" ELSE "none"

\* A refused punch is stored with its reason and without a site
Stored(w, p) ==
    LET refusal == Refusal(p)
        site == IF refusal = "none" THEN SiteAt(p.fix) ELSE NoSite
    IN [id |-> p.id, worker |-> w, action |-> p.action, at |-> p.at, fix |-> p.fix, site |-> site,
        status |-> IF refusal # "none" THEN "rejected"
                   ELSE IF site = NoSite THEN "flagged" ELSE "accepted",
        code |-> refusal, log |-> Null]

\* The transaction goes on with the next punch, having answered this one
Answer(verdict) ==
    txn' = [txn EXCEPT !.left = Tail(@), !.verdicts = Append(@, verdict)]

SkipPunch ==
    /\ txn.open /\ txn.left # <<>>
    /\ Duplicate(txn.worker, Head(txn.left))
    /\ Answer("duplicate")
    /\ UNCHANGED <<revoked, queue>>
    /\ UNCHANGED dbVars

\* Broken on purpose, for the mutation checks: a refused punch is answered and not stored.
StorePunchUnlessRefused ==
    LET row == Stored(txn.worker, Head(txn.left)) IN
    /\ txn.open /\ txn.left # <<>>
    /\ ~Duplicate(txn.worker, Head(txn.left))
    /\ queue' = IF row.status = "rejected" THEN queue ELSE Append(queue, row)
    /\ Answer(row.status)
    /\ UNCHANGED revoked
    /\ UNCHANGED dbVars

StorePunch ==
    LET row == Stored(txn.worker, Head(txn.left)) IN
    /\ txn.open /\ txn.left # <<>>
    /\ ~Duplicate(txn.worker, Head(txn.left))
    /\ queue' = Append(queue, row)
    /\ Answer(row.status)
    /\ UNCHANGED revoked
    /\ UNCHANGED dbVars

-----------------------------------------------------------------------------
(* materialize_worker: the verified punches become shifts, in the order in   *)
(* which they were taken                                                    *)

\* Broken on purpose, for the mutation checks: a punch that is in the ledger is applied again
\* when the desk approves it.
PendingAgain(w) ==
    {k \in DOMAIN queue : /\ queue[k].worker = w /\ queue[k].status \in Filed
                          /\ queue[k].log = Null \/ queue[k].status = "accepted"}

Pending(w) ==
    {k \in DOMAIN queue : /\ queue[k].worker = w /\ queue[k].status \in Filed
                          /\ queue[k].log = Null}

Earlier(j, k) == queue[j].at < queue[k].at \/ (queue[j].at = queue[k].at /\ j <= k)
First(w) == CHOOSE k \in Pending(w) : \A j \in Pending(w) : Earlier(k, j)

\* The row the loop has reached
Materialising(k) ==
    /\ txn.open /\ txn.left = <<>>
    /\ Pending(txn.worker) # {}
    /\ k = First(txn.worker)

Links(k) == queue' = [queue EXCEPT ![k].log = Len(logs) + 1]

MaterialiseIn(k) ==
    LET q == queue[k]
        site == IF q.site = NoSite THEN Unassigned ELSE q.site
    IN
    /\ Materialising(k)
    /\ q.action = "Clock In" /\ ~OnShift(q.worker)
    /\ sessions' = [sessions EXCEPT ![q.worker] =
            [clockIn |-> q.at, shift |-> Len(logs), site |-> site, transit |-> FALSE,
             notified |-> FALSE]]
    /\ logs' = Append(logs,
            [worker |-> q.worker, clockIn |-> q.at, shift |-> Len(logs), action |-> "Clock In",
             site |-> site, at |-> q.at, fix |-> q.fix, flagged |-> FALSE, score |-> "none",
             source |-> "offline", code |-> "unverified_offline", hours |-> 0, overtime |-> 0,
             approved |-> Null])
    /\ Links(k)
    /\ UNCHANGED <<now, values, live, deleted, decisions, notices, revoked, txn>>

\* The hours between the open shift and the punch, whichever shift that is; a punch taken
\* before the shift began counts no time (shift_hours.elapsed_seconds)
Worked(k) == Max2(0, queue[k].at - sessions[queue[k].worker].clockIn)

\* overtime.apply_authorisation at the punch's own time
HeldAt(w, elapsed) == Max2(0, Paid(elapsed, values) - Ceiling(w))

MaterialiseOut(k) ==
    LET q == queue[k]
        w == q.worker
        crossed == ReachesLine(Worked(k), values)
        held == HeldAt(w, Worked(k))
        waits == crossed /\ held > 0
    IN
    /\ Materialising(k)
    /\ q.action = "Clock Out" /\ OnShift(w)
    /\ CloseShift(w,
            [worker |-> w, clockIn |-> sessions[w].clockIn, shift |-> sessions[w].shift,
             action |-> "Clock Out", site |-> sessions[w].site, at |-> q.at, fix |-> q.fix,
             flagged |-> FALSE, score |-> "none", source |-> "offline",
             code |-> IF waits THEN "pending_overtime" ELSE "pending_review",
             hours |-> RecordedPaid(Worked(k), values),
             overtime |-> IF waits THEN held ELSE 0, approved |-> Null])
    /\ notices' = notices \cup (IF waits THEN {<<"crossing", w, sessions[w].clockIn>>} ELSE {})
    /\ Links(k)
    /\ UNCHANGED <<now, values, live, deleted, revoked, txn>>

\* already_clocked_in, no_open_session
RefuseMaterial(k) ==
    LET q == queue[k] IN
    /\ Materialising(k)
    /\ (q.action = "Clock In") <=> OnShift(q.worker)
    /\ queue' = [queue EXCEPT ![k].status = "rejected",
            ![k].code = IF q.action = "Clock In" THEN "already_clocked_in" ELSE "no_open_session"]
    /\ UNCHANGED <<revoked, txn>>
    /\ UNCHANGED dbVars

Done == txn.open /\ txn.left = <<>> /\ Pending(txn.worker) = {}

-----------------------------------------------------------------------------
(* The desk: POST /admin/punch_queue/{id}/resolve                            *)

\* The row is marked; a shift it has already made stays in the ledger
RejectPunch(k) ==
    /\ Free
    /\ queue[k].status # "rejected" \/ queue[k].code # "admin_rejected"
    /\ queue' = [queue EXCEPT ![k].status = "rejected", ![k].code = "admin_rejected"]
    /\ UNCHANGED <<revoked, txn>>
    /\ UNCHANGED dbVars

\* Broken on purpose, for the mutation checks: the row is marked, and nothing comes of it.
ApproveOnly(k) ==
    /\ Free
    /\ queue[k].status # "accepted"
    /\ queue' = [queue EXCEPT ![k].status = "accepted", ![k].code = "none"]
    /\ UNCHANGED <<revoked, txn>>
    /\ UNCHANGED dbVars

ApprovePunch(k) ==
    /\ Free
    /\ queue[k].status # "accepted"
    /\ queue' = [queue EXCEPT ![k].status = "accepted", ![k].code = "none"]
    /\ txn' = [open |-> TRUE, worker |-> queue[k].worker, left |-> <<>>, phone |-> Null,
               heard |-> FALSE, verdicts |-> <<>>]
    /\ UNCHANGED revoked
    /\ UNCHANGED dbVars

CommitApproval ==
    /\ Done /\ txn.phone = Null
    /\ txn' = NoTxn
    /\ UNCHANGED <<revoked, queue>>
    /\ UNCHANGED dbVars

\* POST /attendance/devices/{id}/revoke, from another session of the worker
RevokeDevice(phone) ==
    /\ Free
    /\ phone \notin revoked
    /\ revoked' = revoked \cup {phone}
    /\ UNCHANGED <<queue, txn>>
    /\ UNCHANGED dbVars

-----------------------------------------------------------------------------
(* The loops of the transaction                                             *)

Materialise ==
    \E k \in DOMAIN queue : MaterialiseIn(k) \/ MaterialiseOut(k) \/ RefuseMaterial(k)

TxnStep == SkipPunch \/ StorePunch \/ Materialise
=============================================================================
