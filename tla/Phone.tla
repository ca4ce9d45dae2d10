------------------------------- MODULE Phone -------------------------------
(***************************************************************************)
(* The phone's half of offline punching (mobile-client/src): punches are      *)
(* signed and kept in IndexedDB while there is no signal, and sent in batches  *)
(* when there is (offline/queue.ts, offline/sync.ts, core/sync-loop.ts).      *)
(*                                                                          *)
(* The network loses requests and answers: a phone that gives up leaves its   *)
(* request to arrive, late or never, and sends the same punches again.       *)
(***************************************************************************)
EXTENDS OfflineSync

CONSTANTS
    Batch,          \* OFFLINE_BATCH_CHUNK
    Wavering,       \* bound: the values of "tampered" in a run
    MaxPunches,     \* bound: the punches one phone takes in a run
    MaxFlight       \* bound: the sync requests on their way at once

ASSUME PhoneAssumption ==
    /\ Batch \in Nat \ {0} /\ Wavering \subseteq BOOLEAN
    /\ MaxPunches \in Nat /\ MaxFlight \in Nat \ {0}

VARIABLES
    phones,         \* what each phone keeps, and how far its sync has come
    network,        \* sync requests that have not reached the server
    patchy          \* requests and answers are being lost
phoneVars == <<phones, network, patchy>>

Statuses == {"queued", "synced", "duplicate", "rejected"}

\* A QueuedPunch; its selfie is left out
Kept ==
    [action: PunchActions, at: Moments, fix: Fixes, tampered: BOOLEAN, status: Statuses]

\* One sync at a time: nothing, a request the answer of which is awaited, or the verdicts
\* that are still to be written
Idling == [stage |-> "idle", sent |-> <<>>, verdicts |-> <<>>]
Sync ==
    [stage: {"idle", "asked", "settling"}, sent: Seq(Nat \ {0}),
     verdicts: Seq(SyncVerdicts)]

Phone == [kept: Seq(Kept), sync: Sync]
Request == [phone: Phones, punches: Seq(SignedPunch), heard: BOOLEAN]

PhoneTypeOK ==
    /\ phones \in [Phones -> Phone]
    /\ network \subseteq Request
    /\ patchy \in BOOLEAN

PhoneInit ==
    /\ phones = [p \in Phones |-> [kept |-> <<>>, sync |-> Idling]]
    /\ network = {}
    /\ patchy = TRUE

-----------------------------------------------------------------------------
(* Taking a punch without signal                                            *)

Enqueue(p, action, fix, tampered) ==
    /\ Len(phones[p].kept) < MaxPunches
    /\ phones' = [phones EXCEPT ![p].kept = Append(@,
            [action |-> action, at |-> now, fix |-> fix, tampered |-> tampered,
             status |-> "queued"])]
    /\ UNCHANGED <<network, patchy>>

-----------------------------------------------------------------------------
(* Sending the queue                                                        *)

Queued(p) == {i \in DOMAIN phones[p].kept : phones[p].kept[i].status = "queued"}

\* The next chunk of queuedPunches: the punches that wait, the first ones first
Chunks(p) ==
    {sent \in [1 .. Min2(Batch, Cardinality(Queued(p))) -> Queued(p)] :
        /\ \A a, b \in DOMAIN sent : a < b => sent[a] < sent[b]
        /\ \A a \in DOMAIN sent, i \in Queued(p) : i < sent[a] => \E b \in DOMAIN sent : sent[b] = i}

Signed(p, i) ==
    LET k == phones[p].kept[i] IN
    [id |-> <<p, i>>, action |-> k.action, at |-> k.at, fix |-> k.fix, tampered |-> k.tampered]

StartSync(p) ==
    /\ phones[p].sync = Idling
    /\ Queued(p) # {}
    /\ Cardinality(network) < MaxFlight
    /\ \E sent \in Chunks(p) :
        /\ phones' = [phones EXCEPT ![p].sync = [Idling EXCEPT !.stage = "asked", !.sent = sent]]
        /\ network' = network \cup
                {[phone |-> p, punches |-> [a \in DOMAIN sent |-> Signed(p, sent[a])],
                  heard |-> TRUE]}
    /\ UNCHANGED <<patchy, syncVars>>
    /\ UNCHANGED dbVars

\* Broken on purpose, for the mutation checks: the latch of the loop stays set when a request fails.
GiveUpLatched(p) ==
    /\ patchy
    /\ phones[p].sync.stage = "asked"
    /\ network' = {[m EXCEPT !.heard = @ /\ m.phone # p] : m \in network}
    /\ txn' = IF txn.open /\ txn.phone = p THEN [txn EXCEPT !.heard = FALSE] ELSE txn
    /\ UNCHANGED <<phones, patchy, revoked, queue>>
    /\ UNCHANGED dbVars

\* The answer does not come: the punches stay queued, and the request may still arrive
GiveUp(p) ==
    /\ patchy
    /\ phones[p].sync.stage = "asked"
    /\ phones' = [phones EXCEPT ![p].sync = Idling]
    /\ network' = {[m EXCEPT !.heard = @ /\ m.phone # p] : m \in network}
    /\ txn' = IF txn.open /\ txn.phone = p THEN [txn EXCEPT !.heard = FALSE] ELSE txn
    /\ UNCHANGED <<patchy, revoked, queue>>
    /\ UNCHANGED dbVars

SignalReturns ==
    /\ patchy
    /\ patchy' = FALSE
    /\ UNCHANGED <<phones, network, syncVars>>
    /\ UNCHANGED dbVars

-----------------------------------------------------------------------------
(* The request at the server: POST /attendance/sync                         *)

BeginSync(m) ==
    /\ Free
    /\ m.phone \notin revoked
    /\ txn' = [open |-> TRUE, worker |-> Owner[m.phone], left |-> m.punches,
               phone |-> m.phone, heard |-> m.heard, verdicts |-> <<>>]
    /\ network' = network \ {m}
    /\ UNCHANGED <<phones, patchy, revoked, queue>>
    /\ UNCHANGED dbVars

\* device_revoked: nothing is read, and the punches stay on the phone
RefuseSync(m) ==
    /\ Free
    /\ m.phone \in revoked
    /\ network' = network \ {m}
    /\ phones' = IF m.heard THEN [phones EXCEPT ![m.phone].sync = Idling] ELSE phones
    /\ UNCHANGED <<patchy, syncVars>>
    /\ UNCHANGED dbVars

CommitSync ==
    /\ Done /\ txn.phone # Null
    /\ txn' = NoTxn
    /\ phones' = IF ~txn.heard THEN phones
                 ELSE [phones EXCEPT ![txn.phone].sync.stage = "settling",
                                     ![txn.phone].sync.verdicts = txn.verdicts]
    /\ UNCHANGED <<network, patchy, revoked, queue>>
    /\ UNCHANGED dbVars

-----------------------------------------------------------------------------
(* The verdicts at the phone, one punch after the other                     *)

LocalStatus(verdict) == IF verdict \in Filed THEN "synced" ELSE verdict

Told(p, i) == phones[p].kept[i].status # "queued"

SettlePunch(p) ==
    LET s == phones[p].sync IN
    /\ s.stage = "settling" /\ s.sent # <<>>
    /\ phones' = [phones EXCEPT
            ![p].kept[Head(s.sent)].status = LocalStatus(Head(s.verdicts)),
            ![p].sync.sent = Tail(@), ![p].sync.verdicts = Tail(@)]
    /\ UNCHANGED <<network, patchy, syncVars>>
    /\ UNCHANGED dbVars

\* The batch is through
FinishSync(p) ==
    /\ phones[p].sync.stage = "settling" /\ phones[p].sync.sent = <<>>
    /\ phones' = [phones EXCEPT ![p].sync = Idling]
    /\ UNCHANGED <<network, patchy, syncVars>>
    /\ UNCHANGED dbVars

-----------------------------------------------------------------------------
PhoneStep(p) ==
    StartSync(p) \/ GiveUp(p) \/ SettlePunch(p) \/ FinishSync(p)
=============================================================================
