----------------------------- MODULE FieldWork -----------------------------
(***************************************************************************)
(* A worker in the field: a phone that punches online while it can and keeps  *)
(* signed punches while it cannot, over the same tables as everybody else's   *)
(* punches, and the desk that resolves the punches it refused.          *)
(***************************************************************************)
EXTENDS Punch, Phone

CONSTANTS
    Spots,          \* bound: the fixes a phone punches at without signal in a run
    Revocable,      \* bound: the phones that are revoked in a run
    DeskRows        \* bound: the rows of the queue the desk resolves in a run

ASSUME FieldAssumption ==
    Spots \subseteq Fixes /\ Revocable \subseteq Phones /\ DeskRows \subseteq Nat

VARIABLE tapped     \* the online punch each phone is waiting for
fieldVars == <<dbVars, requests, syncVars, phoneVars, tapped>>

Tap == [request: Requests, action: PunchActions, fix: Fixes]
NoTap == [request |-> Null]

FieldTypeOK ==
    /\ now \in Moments /\ live \subseteq Sites /\ deleted \subseteq Sites
    /\ sessions \in [Workers -> Session \cup OfflineSession \cup {NoSession}]
    /\ logs \in Seq(FieldRow)
    /\ PunchTypeOK
    /\ revoked \subseteq Phones /\ queue \in Seq(QueueRow) /\ txn \in Txn \cup {NoTxn}
    /\ PhoneTypeOK
    /\ tapped \in [Phones -> Tap \cup {NoTap}]

Init ==
    /\ DBInit /\ PunchInit /\ SyncInit /\ PhoneInit
    /\ tapped = [p \in Phones |-> NoTap]

offline == <<syncVars, phoneVars, tapped>>

-----------------------------------------------------------------------------
(* One tap, two routes (ui/punch.ts)                                        *)

\* The phone is online: POST /attendance/verify
TapOnline(p, r, action, fix) ==
    /\ Free
    /\ tapped[p] = NoTap
    /\ \A other \in Phones : tapped[other].request # r
    /\ Gate(r, Owner[p], action, fix, TRUE)
    /\ tapped' = [tapped EXCEPT ![p] = [request |-> r, action |-> action, fix |-> fix]]
    /\ UNCHANGED <<syncVars, phoneVars>>

HearAnswer(p) ==
    /\ tapped[p] # NoTap
    /\ requests[tapped[p].request] = Idle
    /\ tapped' = [tapped EXCEPT ![p] = NoTap]
    /\ UNCHANGED <<dbVars, requests, syncVars, phoneVars>>

\* The transport fails, before the server has settled the punch or after: the
\* same punch is signed and kept, taken at the moment of the failure.
FallBack(p) ==
    /\ patchy
    /\ tapped[p] # NoTap
    /\ Enqueue(p, tapped[p].action, tapped[p].fix, FALSE)
    /\ tapped' = [tapped EXCEPT ![p] = NoTap]
    /\ UNCHANGED <<dbVars, requests, syncVars>>

\* The phone knows that it is offline
TapOffline(p, action, fix, tampered) ==
    /\ patchy
    /\ tapped[p] = NoTap
    /\ Enqueue(p, action, fix, tampered)
    /\ UNCHANGED <<dbVars, requests, syncVars, tapped>>

-----------------------------------------------------------------------------
Tapping(p) ==
    \/ \E action \in Taps \ {"Transit Checkpoint"}, fix \in Sites, r \in Requests :
          TapOnline(p, r, action, fix)
    \/ \E action \in PunchActions, fix \in Spots, tampered \in Wavering :
          TapOffline(p, action, fix, tampered)
    \/ HearAnswer(p) \/ FallBack(p)

ServeSync == (\E m \in network : BeginSync(m) \/ RefuseSync(m)) \/ CommitSync

\* The administrator at the queue of punches
DeskStep ==
    \/ \E k \in DOMAIN queue \cap DeskRows : RejectPunch(k) \/ ApprovePunch(k)
    \/ CommitApproval

Next ==
    \/ \E p \in Phones :
          \/ Tapping(p)
          \/ PhoneStep(p) /\ UNCHANGED <<requests, tapped>>
          \/ p \in Revocable /\ RevokeDevice(p) /\ UNCHANGED <<requests, phoneVars, tapped>>
    \/ SignalReturns /\ UNCHANGED <<requests, tapped>>
    \/ ServeSync /\ UNCHANGED <<requests, tapped>>
    \/ TxnStep /\ UNCHANGED <<requests, phoneVars, tapped>>
    \/ Free /\ (\E r \in Requests : Settle(r)) /\ UNCHANGED offline
    \/ DeskStep /\ UNCHANGED <<requests, phoneVars, tapped>>
    \/ Free /\ Tick /\ UNCHANGED <<requests, offline>>

Spec == Init /\ [][Next]_fieldVars

-----------------------------------------------------------------------------
(* Safety                                                                   *)

SameShift(i, j) == logs[i].worker = logs[j].worker /\ logs[i].shift = logs[j].shift
Closes(i) == logs[i].action = "Clock Out"
IsOffline(i) == logs[i].source = "offline"

\* A punch the phone kept is in the ledger at most once, as what was signed: requests that
\* arrive twice, batches sent again after a lost answer and a desk that approves a punch
\* it had rejected file nothing twice ("re-uploading a batch is a no-op").
EveryPunchOnce ==
    /\ \A k, j \in DOMAIN queue : queue[k].log = queue[j].log /\ queue[k].log # Null => k = j
    /\ \A i \in DOMAIN logs : IsOffline(i) =>
          \E k \in DOMAIN queue :
             /\ queue[k].log = i
             /\ <<queue[k].worker, queue[k].action, queue[k].at>> =
                    <<logs[i].worker, logs[i].action, logs[i].at>>

\* What the phone no longer holds back is on record at the server: its own row, refused ones
\* included ("a rejection is stored, never dropped"), or the tap it repeats.
SettledIsOnRecord ==
    \A p \in Phones : \A i \in DOMAIN phones[p].kept :
        Told(p, i) =>
            \E k \in DOMAIN queue :
                \/ queue[k].id = <<p, i>>
                \/ /\ queue[k].worker = Owner[p]
                   /\ queue[k].action = phones[p].kept[i].action
                   /\ queue[k].at - Window <= phones[p].kept[i].at
                   /\ phones[p].kept[i].at <= queue[k].at + Window

\* When the lock is free, no verified punch waits to become attendance: the dashboard's
\* offline_waiting is zero, whatever was refused, rejected or approved before.
NothingWaitsAtTheServer ==
    Free => \A k \in DOMAIN queue : queue[k].status \in Filed => queue[k].log # Null

-----------------------------------------------------------------------------
(* Progress                                                                 *)

serve == <<requests, phoneVars, tapped>>

\* There is signal in the end, the sync loop runs on every reconnect, and the server works
\* through what it is sent; the write lock may go to others in between.
Fairness ==
    /\ WF_fieldVars(SignalReturns /\ UNCHANGED <<requests, tapped>>)
    /\ \A p \in Phones :
          WF_fieldVars((StartSync(p) \/ GiveUp(p) \/ SettlePunch(p) \/ FinishSync(p))
                       /\ UNCHANGED <<requests, tapped>>)
    /\ SF_fieldVars((\E m \in network : BeginSync(m) \/ RefuseSync(m)) /\ UNCHANGED <<requests, tapped>>)
    /\ WF_fieldVars((CommitSync /\ UNCHANGED <<requests, tapped>>)
                    \/ (TxnStep /\ UNCHANGED serve) \/ (CommitApproval /\ UNCHANGED serve))

FairSpec == Spec /\ Fairness

\* "It uploads by itself when there is signal": in the end no punch waits on a phone, unless
\* the worker has revoked it.
QueueDrains ==
    \A p \in Phones : <>[](Queued(p) = {} \/ p \in revoked)

-----------------------------------------------------------------------------
(* What the source says of itself and the code does not do (README)         *)

\* "Same punch, different route": one tap is one shift's end or beginning, so no hour of a
\* worker is in two shifts.
NoHourIsCountedTwice ==
    \A i, j \in DOMAIN logs :
        Closes(i) /\ Closes(j) /\ i # j /\ logs[i].worker = logs[j].worker =>
            logs[i].at <= logs[j].clockIn \/ logs[j].at <= logs[i].clockIn
=============================================================================
