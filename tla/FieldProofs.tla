----------------------------- MODULE FieldProofs -----------------------------
(***************************************************************************)
(* For any number of workers, phones, punches, requests and messages in       *)
(* flight: types, and that a punch taken without signal is in the ledger at    *)
(* most once, is never lost on the way, and never waits at the server.         *)
(*                                                                          *)
(* A phone gives up on an answer and sends its punches again, and the first   *)
(* request may still arrive.  What the invariant says of a phone it says of    *)
(* the one request whose answer the phone awaits: that it carries the punches  *)
(* the phone remembers sending, in their order, and that those the server has  *)
(* answered are in its queue.                                                *)
(***************************************************************************)
EXTENDS FieldWork, FiniteSetTheorems, SequenceTheorems, WellFoundedInduction, TLAPS

-----------------------------------------------------------------------------
(* What is typed, and that nothing was taken in the future                  *)

TableTypes ==
    /\ now \in Nat /\ values \in ShiftRules /\ live \subseteq Sites /\ deleted \subseteq Sites
    /\ sessions \in [Workers -> Session \cup OfflineSession \cup {NoSession}]
    /\ \A w \in Workers : OnShift(w) => sessions[w].clockIn <= now
    /\ logs \in Seq(FieldRow)
    /\ DOMAIN decisions = {}
    /\ PunchTypeOK

TxnTypes ==
    /\ txn \in Txn \cup {NoTxn}
    /\ txn.open => \A a \in DOMAIN txn.left : txn.left[a].at <= now

QueueTypes ==
    /\ revoked \subseteq Phones
    /\ queue \in Seq(QueueRow)
    /\ \A k \in DOMAIN queue : queue[k].at <= now

PhoneTypes ==
    /\ PhoneTypeOK
    /\ \A p \in Phones : \A i \in DOMAIN phones[p].kept : phones[p].kept[i].at <= now
    /\ \A m \in network : \A a \in DOMAIN m.punches : m.punches[a].at <= now
    /\ tapped \in [Phones -> Tap \cup {NoTap}]

Types == TableTypes /\ TxnTypes /\ QueueTypes /\ PhoneTypes

-----------------------------------------------------------------------------
(* What is on record                                                        *)

OnRecord(p, i) ==
    \E k \in DOMAIN queue :
        \/ queue[k].id = <<p, i>>
        \/ /\ queue[k].worker = Owner[p]
           /\ queue[k].action = phones[p].kept[i].action
           /\ queue[k].at - Window <= phones[p].kept[i].at
           /\ phones[p].kept[i].at <= queue[k].at + Window

\* The phone waits for the answer to a batch of which n punches are answered and these are not
Awaits(p, punches, n) ==
    LET sent == phones[p].sync.sent IN
    /\ phones[p].sync.stage = "asked"
    /\ Len(sent) = n + Len(punches)
    /\ \A a \in 1 .. n : OnRecord(p, sent[a])
    /\ \A a \in DOMAIN punches : punches[a] = Signed(p, sent[n + a])

\* A phone sends what it keeps, and what it has been told is on record
PhoneRecord(p) ==
    LET s == phones[p].sync IN
    /\ \A a \in DOMAIN s.sent : s.sent[a] \in DOMAIN phones[p].kept
    /\ s.stage = "settling" =>
          Len(s.verdicts) = Len(s.sent) /\ \A a \in DOMAIN s.sent : OnRecord(p, s.sent[a])
    /\ \A i \in DOMAIN phones[p].kept : Told(p, i) => OnRecord(p, i)

\* One request at most is awaited by a phone
MailRecord ==
    /\ \A m \in network : m.heard => Awaits(m.phone, m.punches, 0)
    /\ \A m, o \in network : m.heard /\ o.heard /\ m.phone = o.phone => m = o

TxnRecord ==
    txn.open =>
        /\ txn.heard => /\ Awaits(txn.phone, txn.left, Len(txn.verdicts))
                        /\ \A m \in network : m.heard => m.phone # txn.phone
        /\ txn.phone # Null => txn.worker = Owner[txn.phone]
        /\ txn.phone = Null => ~txn.heard /\ txn.left = <<>>

RecordInv == (\A p \in Phones : PhoneRecord(p)) /\ MailRecord /\ TxnRecord

\* Who waits to become attendance waits for the transaction that is under way
WaitInv ==
    \A k \in DOMAIN queue : queue[k].status \in Filed /\ queue[k].log = Null =>
        txn.open /\ txn.worker = queue[k].worker

LinkInv ==
    /\ \A k \in DOMAIN queue : queue[k].log # Null => queue[k].log \in DOMAIN logs
    /\ EveryPunchOnce

-----------------------------------------------------------------------------
(* The arithmetic of a shift                                                *)

\* Null is no moment, index or figure.
LEMMA NullIsNegative == Null \notin Nat /\ Null \in Int
BY DEF Null

\* Paid time, and the figure a row records, are natural numbers.
LEMMA PaidType ==
    ASSUME NEW rules \in ShiftRules, NEW e \in Nat
    PROVE  Paid(e, rules) \in Nat /\ RecordedPaid(e, rules) \in Nat
<1>1. Paid(e, rules) \in Nat
  BY DEF Paid, BreakTaken, Min2, ShiftRules
<1>. QED  BY <1>1 DEF RecordedPaid, RoundedPaid, ShiftRules

\* An open shift's row, whoever opened it.
LEMMA OpenSession ==
    ASSUME TableTypes, NEW w \in Workers, OnShift(w)
    PROVE  /\ sessions[w] \in Session \cup OfflineSession
           /\ sessions[w].transit => sessions[w] \in Session
           /\ sessions[w].clockIn \in Nat /\ sessions[w].shift \in Nat
           /\ sessions[w].site \in Sites \cup {InTransit, Unassigned}
           /\ Elapsed(w) \in Nat
<1>1. sessions[w] \in Session \cup OfflineSession \cup {NoSession}
  BY DEF TableTypes
<1>2. sessions[w] \in Session \cup OfflineSession
  BY <1>1 DEF OnShift, NoSession
<1>3. /\ sessions[w].clockIn \in Nat /\ sessions[w].shift \in Nat
      /\ sessions[w].site \in Sites \cup {InTransit, Unassigned}
      /\ sessions[w].transit => sessions[w] \in Session
  BY <1>2 DEF Session, OfflineSession, Moments
<1>4. now \in Nat /\ sessions[w].clockIn <= now
  BY DEF TableTypes
<1>. QED  BY <1>2, <1>3, <1>4 DEF Elapsed

\* No administrator answers for these workers, so the ceiling is the paid day.
LEMMA CeilingIsTheDay ==
    ASSUME TableTypes, NEW w
    PROVE  Ceiling(w) = values.regular /\ values.regular \in Nat
<1>1. ~Answered(w)
  BY DEF Answered, LiveDecisions, TableTypes
<1>2. values \in ShiftRules
  BY DEF TableTypes
<1>. QED  BY <1>1, <1>2 DEF Ceiling, ShiftRules

\* The figures a clock-out is filed with.
LEMMA FiguresType ==
    ASSUME TableTypes, NEW w \in Workers, OnShift(w)
    PROVE  RecordedPaid(Elapsed(w), values) \in Nat /\ HeldHours(w) \in Nat
<1>1. values \in ShiftRules /\ Elapsed(w) \in Nat
  BY OpenSession DEF TableTypes
<1>2. Paid(Elapsed(w), values) \in Nat /\ RecordedPaid(Elapsed(w), values) \in Nat
  BY <1>1, PaidType
<1>. QED  BY <1>2, CeilingIsTheDay DEF HeldHours, Max2

-----------------------------------------------------------------------------
(* The tables under an online punch                                         *)

\* A request that is answered leaves a free place.
LEMMA FinishType ==
    ASSUME TableTypes, NEW r \in Requests, Finish(r)
    PROVE  PunchTypeOK'
BY DEF Finish, TableTypes, PunchTypeOK

\* A step of a request that leaves the tables alone.
LEMMA RequestStepType ==
    ASSUME TableTypes, PunchTypeOK', UNCHANGED dbVars
    PROVE  TableTypes'
BY DEF TableTypes, OnShift, dbVars

\* A request that is being answered, and its fields.
LEMMA RequestType ==
    ASSUME TableTypes, NEW r \in Requests, requests[r].stage # "idle"
    PROVE  /\ requests[r].worker \in Workers /\ requests[r].action \in Actions \cup {"Tap"}
           /\ requests[r].stage \in {"model", "write", "arrive"} => requests[r].action \in Actions
           /\ requests[r].fix \in Fixes /\ requests[r].site \in Fixes /\ requests[r].gone \in Fixes
           /\ requests[r].stage = "write" => requests[r].verdict \in Verdicts
<1>1. requests[r] \in InFlight
  BY DEF TableTypes, PunchTypeOK, Idle
<1>2. CASE requests[r] \in Carried({"model", "arrive"}, Actions, Fixes, Fixes, {"none"})
  BY <1>2 DEF Carried, Actions
<1>3. CASE requests[r] \in Carried({"write"}, Actions, Fixes, Fixes, Verdicts)
  BY <1>3 DEF Carried, Actions
<1>4. CASE requests[r] \in Carried({"looking", "tapped"}, {"Tap"}, Sites, Fixes, {"none"})
  BY <1>4 DEF Carried, Fixes
<1>5. CASE requests[r] \in Carried({"looking", "tapped"}, {"Tap"}, {NoSite}, Sites, {"none"})
  BY <1>5 DEF Carried, Fixes
<1>. QED  BY <1>1, <1>2, <1>3, <1>4, <1>5 DEF InFlight

\* What the gate puts in a request.
LEMMA GateType ==
    ASSUME TableTypes, NEW r \in Requests, NEW w \in Workers, NEW action \in Taps,
           NEW fix \in Fixes, Gate(r, w, action, fix, TRUE)
    PROVE  TableTypes'
<1>1. action \in Actions
  BY PunchAssumption
<1>2. SiteAt(fix) \in Fixes /\ GateGone(w, fix) \in Fixes
  BY DEF SiteAt, GateGone, DeletedSiteAt, Fixes
<1>3. PunchTypeOK'
  BY <1>1, <1>2 DEF Gate, TableTypes, PunchTypeOK, InFlight, Carried
<1>. QED  BY <1>3, RequestStepType DEF Gate

\* The verdict of the face check is one that admits a punch.
LEMMA FaceCheckType ==
    ASSUME TableTypes, NEW r \in Requests, JudgeFrame(r)
    PROVE  TableTypes'
<1>1. PICK verdict \in Bands :
        requests' = [requests EXCEPT ![r].stage = "write", ![r].verdict = verdict]
  BY DEF JudgeFrame
<1>2. verdict \in Verdicts
  BY PunchAssumption
<1>3. requests[r] \in Carried({"model", "arrive"}, Actions, Fixes, Fixes, {"none"})
  <2>1. requests[r] \in InFlight \cup {Idle} /\ requests[r].stage = "model"
    BY DEF JudgeFrame, TableTypes, PunchTypeOK
  <2>. QED  BY <2>1 DEF InFlight, Carried, Idle
<1>4. [requests[r] EXCEPT !.stage = "write", !.verdict = verdict]
         \in Carried({"write"}, Actions, Fixes, Fixes, Verdicts)
  BY <1>2, <1>3 DEF Carried
<1>5. requests' = [requests EXCEPT ![r] =
                      [requests[r] EXCEPT !.stage = "write", !.verdict = verdict]]
  BY <1>1 DEF TableTypes, PunchTypeOK
<1>6. PunchTypeOK'
  BY <1>4, <1>5 DEF TableTypes, PunchTypeOK, InFlight
<1>. QED  BY <1>6, RequestStepType DEF JudgeFrame

\* A row is filed and a shift opens, ends or changes its place: no clock, rule, fence or answer
\* moves, and no shift begins after now.
LEMMA LedgerStepType ==
    ASSUME TableTypes, NEW w \in Workers, NEW s \in Session \cup OfflineSession \cup {NoSession},
           sessions' = [sessions EXCEPT ![w] = s], s.clockIn # Null => s.clockIn <= now,
           logs' \in Seq(FieldRow), DOMAIN decisions' = {}, PunchTypeOK',
           UNCHANGED <<now, values, live, deleted>>
    PROVE  TableTypes'
<1>1. sessions' \in [Workers -> Session \cup OfflineSession \cup {NoSession}]
  BY DEF TableTypes
<1>2. \A v \in Workers : OnShift(v)' => sessions'[v].clockIn <= now
  BY DEF TableTypes, OnShift
<1>. QED  BY <1>1, <1>2 DEF TableTypes

\* The row of the ledger is filed as it is given.
LEMMA FiledType ==
    ASSUME TableTypes, NEW row \in FieldRow, logs' = Append(logs, row)
    PROVE  logs' \in Seq(FieldRow)
BY DEF TableTypes

\* There is no answer to spend.
LEMMA NothingToSpend ==
    ASSUME TableTypes, NEW w, NEW log, decisions' = Consumed(w, log)
    PROVE  DOMAIN decisions' = {}
BY DEF TableTypes, Consumed

\* A departure, and a clock-in.
LEMMA OpeningType ==
    ASSUME TableTypes, NEW r \in Requests, Depart(r) \/ PunchIn(r)
    PROVE  TableTypes'
<1>. DEFINE q == requests[r]
<1>1. q.worker \in Workers /\ q.fix \in Fixes /\ q.site \in Fixes /\ q.verdict \in Verdicts
      /\ q.action \in RowActions
  BY RequestType DEF Depart, PunchIn, OpensShift, Actions, RowActions
<1>w. PICK w \in Workers : w = q.worker
  BY <1>1
<1>2. now \in Nat /\ Len(logs) \in Nat /\ PunchTypeOK'
  <2>1. Finish(r)
    BY DEF Depart, PunchIn
  <2>. QED  BY <2>1, FinishType DEF TableTypes
<1>3. CASE Depart(r)
  <2>1. PICK s : s = [clockIn |-> now, shift |-> Len(logs), site |-> InTransit, transit |-> TRUE,
                      notified |-> FALSE]
    OBVIOUS
  <2>2. s \in Session \cup OfflineSession \cup {NoSession} /\ s.clockIn <= now
    BY <1>2, <2>1 DEF Session, Moments
  <2>3. sessions' = [sessions EXCEPT ![w] = s]
    BY <1>3, <1>w, <2>1 DEF Depart, OpenShift
  <2>4. logs' \in Seq(FieldRow) /\ DOMAIN decisions' = {} /\ UNCHANGED <<now, values, live, deleted>>
    BY <1>3 DEF Depart, TableTypes
  <2>. QED  BY <1>2, <2>2, <2>3, <2>4, LedgerStepType
<1>4. CASE PunchIn(r)
  <2>1. q.site \in Sites
    BY <1>1, <1>4 DEF PunchIn, Fixes
  <2>2. PICK s : s = [clockIn |-> now, shift |-> Len(logs), site |-> q.site, transit |-> FALSE,
                      notified |-> FALSE]
    OBVIOUS
  <2>3. s \in Session \cup OfflineSession \cup {NoSession} /\ s.clockIn <= now
    BY <1>2, <2>1, <2>2 DEF Session, Moments
  <2>4. sessions' = [sessions EXCEPT ![w] = s]
    BY <1>4, <1>w, <2>2 DEF PunchIn, OpenShift
  <2>5. PICK row :
          row = [worker |-> q.worker, clockIn |-> now, shift |-> Len(logs), action |-> q.action,
                 site |-> q.site, at |-> now, fix |-> q.fix, flagged |-> FALSE,
                 score |-> q.verdict, source |-> "online", code |-> q.verdict, hours |-> 0,
                 overtime |-> 0, approved |-> Null]
    OBVIOUS
  <2>6. row \in FieldRow
    BY <1>1, <1>2, <2>1, <2>5 DEF FieldRow, Moments, Verdicts, PayableCodes, PendingCodes
  <2>7. logs' \in Seq(FieldRow)
    BY <1>4, <2>5, <2>6, FiledType DEF PunchIn
  <2>8. DOMAIN decisions' = {} /\ UNCHANGED <<now, values, live, deleted>>
    BY <1>4 DEF PunchIn, TableTypes
  <2>. QED  BY <1>2, <2>3, <2>4, <2>7, <2>8, LedgerStepType
<1>. QED  BY <1>3, <1>4

\* A worker's clock-out, held or not.
LEMMA PunchOutType ==
    ASSUME TableTypes, NEW r \in Requests, PunchOut(r)
    PROVE  TableTypes'
<1>. DEFINE q == requests[r]
            w == requests[r].worker
<1>1. /\ w \in Workers /\ q.fix \in Fixes /\ q.site \in Fixes /\ q.gone \in Fixes
      /\ q.verdict \in Verdicts /\ PunchTypeOK'
  BY RequestType, FinishType DEF PunchOut
<1>2. OnShift(w) /\ ~Unconfirmed(r)
  BY DEF PunchOut, OutRefused
<1>3. /\ sessions[w].clockIn \in Nat /\ sessions[w].shift \in Nat
      /\ sessions[w].site \in Sites \cup {InTransit, Unassigned}
      /\ RecordedPaid(Elapsed(w), values) \in Nat /\ HeldHours(w) \in Nat
  BY <1>1, <1>2, OpenSession, FiguresType
<1>4. PICK site : site = IF q.site # NoSite THEN q.site ELSE ShiftSite(r)
  OBVIOUS
<1>5. site \in Sites \cup {InTransit, Unassigned}
  BY <1>1, <1>2, <1>3, <1>4 DEF ShiftSite, Unconfirmed, Fixes
<1>6. OutCode(r) \in PendingCodes \cup PayableCodes
  BY <1>1 DEF OutCode, Verdicts, PendingCodes, PayableCodes
<1>7. PICK row :
        row = [worker |-> w, clockIn |-> sessions[w].clockIn,
               shift |-> sessions[w].shift, action |-> "Clock Out", site |-> site,
               at |-> now, fix |-> q.fix, flagged |-> q.site = NoSite, score |-> q.verdict,
               source |-> "online", code |-> OutCode(r),
               hours |-> RecordedPaid(Elapsed(w), values),
               overtime |-> IF HeldForApproval(w) THEN HeldHours(w) ELSE 0, approved |-> Null]
  OBVIOUS
<1>8. row \in FieldRow
  <2>1. now \in Nat
    BY DEF TableTypes
  <2>. QED  BY <1>1, <1>3, <1>5, <1>6, <1>7, <2>1 DEF FieldRow, Moments, Verdicts, RowActions
<1>9. CloseShift(w, row) /\ UNCHANGED <<now, values, live, deleted>>
  BY <1>4, <1>7 DEF PunchOut
<1>10. logs' \in Seq(FieldRow) /\ DOMAIN decisions' = {}
  BY <1>8, <1>9, FiledType, NothingToSpend DEF CloseShift
<1>11. sessions' = [sessions EXCEPT ![w] = NoSession] /\ NoSession.clockIn = Null
  BY <1>9 DEF CloseShift, NoSession
<1>. QED  BY <1>1, <1>9, <1>10, <1>11, LedgerStepType

\* An arrival gives the open shift its site and files a row.
LEMMA ArriveType ==
    ASSUME TableTypes, NEW r \in Requests, Arrive(r)
    PROVE  TableTypes'
<1>. DEFINE w == requests[r].worker
<1>1. w \in Workers /\ ArrivalSite(r) \in Sites /\ requests[r].fix \in Fixes /\ PunchTypeOK'
  BY RequestType, FinishType DEF Arrive, ArrivalSite, Fixes
<1>2. /\ sessions[w] \in Session /\ sessions[w].clockIn \in Nat /\ sessions[w].shift \in Nat
      /\ sessions[w].clockIn <= now /\ now \in Nat
  BY <1>1, OpenSession DEF Arrive, Travelling, TableTypes
<1>3. PICK s : s = [sessions[w] EXCEPT !.site = ArrivalSite(r), !.transit = FALSE]
  OBVIOUS
<1>4. s \in Session /\ s.clockIn <= now
  BY <1>1, <1>2, <1>3 DEF Session
<1>5. sessions' = [sessions EXCEPT ![w] = s]
  BY <1>1, <1>3 DEF Arrive, TableTypes
<1>6. PICK row :
        row = [worker |-> w, clockIn |-> sessions[w].clockIn,
               shift |-> sessions[w].shift, action |-> "Transit Confirmed",
               site |-> ArrivalSite(r), at |-> now, fix |-> requests[r].fix,
               flagged |-> requests[r].site = NoSite, score |-> "none",
               source |-> "site_arrival", code |-> "approved", hours |-> 0, overtime |-> 0,
               approved |-> Null]
  OBVIOUS
<1>7. row \in FieldRow
  BY <1>1, <1>2, <1>6 DEF FieldRow, Moments, RowActions, PayableCodes
<1>8. logs' \in Seq(FieldRow)
  BY <1>6, <1>7, FiledType DEF Arrive
<1>9. DOMAIN decisions' = {} /\ UNCHANGED <<now, values, live, deleted>>
  BY DEF Arrive, TableTypes
<1>. QED  BY <1>1, <1>4, <1>5, <1>8, <1>9, LedgerStepType

\* Every step of an online request keeps the tables typed.
LEMMA SettleType ==
    ASSUME TableTypes, NEW r \in Requests, Settle(r)
    PROVE  TableTypes'
<1>1. CASE RefuseFrame(r) \/ RefuseIn(r) \/ RefuseOut(r) \/ RefuseArrival(r)
  BY <1>1, FinishType, RequestStepType DEF RefuseFrame, RefuseIn, RefuseOut, RefuseArrival
<1>. QED  BY <1>1, FaceCheckType, OpeningType, PunchOutType, ArriveType DEF Settle

-----------------------------------------------------------------------------
(* The queue of punches                                                     *)

\* A set of natural numbers with a member has a least one.
LEMMA LeastExists ==
    ASSUME NEW S \in SUBSET Nat, S # {}
    PROVE  \E x \in S : \A y \in S : x <= y
<1>. DEFINE R == OpToRel(<, Nat)
<1>1. \E x \in S : \A y \in S : ~(<<y, x>> \in R)
  <2>. HIDE DEF R
  <2>1. IsWellFoundedOn(R, Nat)
    BY NatLessThanWellFounded DEF R
  <2>. QED  BY <2>1, WFMin
<1>2. \A x, y \in Nat : <<y, x>> \in R <=> y < x
  BY DEF OpToRel
<1>. HIDE DEF R
<1>3. \A x, y \in Nat : ~(y < x) => x <= y
  OBVIOUS
<1>. QED  BY <1>1, <1>2, <1>3

\* A row of the queue.
LEMMA QueueRowType ==
    ASSUME QueueTypes, NEW k \in DOMAIN queue
    PROVE  /\ queue[k] \in QueueRow /\ queue[k].at <= now /\ k \in Nat
           /\ queue[k].worker \in Workers /\ queue[k].at \in Nat
           /\ queue[k].fix \in Fixes /\ queue[k].site \in Fixes
<1>1. queue[k] \in QueueRow /\ queue[k].at <= now
  BY DEF QueueTypes
<1>2. DOMAIN queue = 1 .. Len(queue) /\ Len(queue) \in Nat
  BY DEF QueueTypes
<1>. QED  BY <1>1, <1>2 DEF QueueRow, Moments

\* The punch the loop turns to is one that waits: there is a first one.
LEMMA FirstIsPending ==
    ASSUME QueueTypes, NEW w, Pending(w) # {}
    PROVE  First(w) \in Pending(w)
<1>1. \A k \in Pending(w) : k \in DOMAIN queue /\ k \in Nat /\ queue[k].at \in Nat
  BY QueueRowType DEF Pending
<1>2. PICK T : T = {queue[k].at : k \in Pending(w)}
  OBVIOUS
<1>3. T \in SUBSET Nat /\ T # {}
  BY <1>1, <1>2
<1>4. PICK a \in T : \A b \in T : a <= b
  BY <1>3, LeastExists
<1>5. PICK S : S = {k \in Pending(w) : queue[k].at = a}
  OBVIOUS
<1>6. S \in SUBSET Nat /\ S # {}
  BY <1>1, <1>2, <1>4, <1>5
<1>7. PICK k \in S : \A j \in S : k <= j
  BY <1>6, LeastExists
<1>8. k \in Pending(w) /\ queue[k].at = a
  BY <1>5, <1>7
<1>9. ASSUME NEW j \in Pending(w) PROVE Earlier(k, j)
  <2>1. a <= queue[j].at /\ a \in Nat /\ queue[j].at \in Nat
    BY <1>1, <1>2, <1>3, <1>4
  <2>2. queue[j].at = a => k <= j
    BY <1>5, <1>7
  <2>. QED  BY <1>8, <2>1, <2>2 DEF Earlier
<1>. QED  BY <1>8, <1>9 DEF First

\* The loop turns to a punch of the worker whose transaction it is, which no shift has yet.
LEMMA MaterialisingOne ==
    ASSUME QueueTypes, NEW k, Materialising(k)
    PROVE  /\ txn.open /\ txn.left = <<>> /\ k \in DOMAIN queue
           /\ queue[k].worker = txn.worker /\ queue[k].status \in Filed /\ queue[k].log = Null
BY FirstIsPending DEF Materialising, Pending

\* One row is marked.
LEMMA MarkType ==
    ASSUME QueueTypes, NEW k \in DOMAIN queue, NEW row \in QueueRow, row.at = queue[k].at,
           queue' = [queue EXCEPT ![k] = row], UNCHANGED <<now, revoked>>
    PROVE  QueueTypes'
<1>1. queue' \in Seq(QueueRow) /\ DOMAIN queue' = DOMAIN queue
  BY DEF QueueTypes
<1>2. \A j \in DOMAIN queue' : queue'[j].at <= now
  BY <1>1 DEF QueueTypes
<1>. QED  BY <1>1, <1>2 DEF QueueTypes

-----------------------------------------------------------------------------
(* A punch becomes attendance                                               *)

\* The hours a punch from the queue ends a shift with.
LEMMA WorkedType ==
    ASSUME TableTypes, QueueTypes, NEW k \in DOMAIN queue, OnShift(queue[k].worker)
    PROVE  /\ RecordedPaid(Worked(k), values) \in Nat
           /\ HeldAt(queue[k].worker, Worked(k)) \in Nat
<1>1. queue[k].worker \in Workers /\ queue[k].at \in Nat
  BY QueueRowType
<1>2. sessions[queue[k].worker].clockIn \in Nat /\ values \in ShiftRules
  BY <1>1, OpenSession DEF TableTypes
<1>3. Worked(k) \in Nat
  BY <1>1, <1>2 DEF Worked, Max2
<1>4. Paid(Worked(k), values) \in Nat /\ RecordedPaid(Worked(k), values) \in Nat
  BY <1>2, <1>3, PaidType
<1>. QED  BY <1>4, CeilingIsTheDay DEF HeldAt, Max2

\* A clock-in from the queue opens a shift at the moment it was taken.
LEMMA MaterialiseInType ==
    ASSUME TableTypes, QueueTypes, NEW k, MaterialiseIn(k), UNCHANGED requests
    PROVE  TableTypes' /\ QueueTypes'
<1>1. k \in DOMAIN queue
  BY MaterialisingOne DEF MaterialiseIn
<1>2. /\ queue[k] \in QueueRow /\ queue[k].at <= now /\ queue[k].at \in Nat
      /\ queue[k].worker \in Workers /\ queue[k].fix \in Fixes /\ queue[k].site \in Fixes
      /\ now \in Nat /\ Len(logs) \in Nat /\ Len(logs) + 1 \in Nat
  BY <1>1, QueueRowType DEF TableTypes
<1>3. PICK w \in Workers : w = queue[k].worker
  BY <1>2
<1>4. PICK site : site = IF queue[k].site = NoSite THEN Unassigned ELSE queue[k].site
  OBVIOUS
<1>5. site \in Sites \cup {Unassigned}
  BY <1>2, <1>4 DEF Fixes
<1>6. PICK s : s = [clockIn |-> queue[k].at, shift |-> Len(logs), site |-> site,
                    transit |-> FALSE, notified |-> FALSE]
  OBVIOUS
<1>7. s \in Session \cup OfflineSession \cup {NoSession} /\ s.clockIn <= now
  BY <1>2, <1>5, <1>6 DEF OfflineSession, Moments
<1>8. PICK row :
        row = [worker |-> w, clockIn |-> queue[k].at, shift |-> Len(logs), action |-> "Clock In",
               site |-> site, at |-> queue[k].at, fix |-> queue[k].fix, flagged |-> FALSE,
               score |-> "none", source |-> "offline", code |-> "unverified_offline",
               hours |-> 0, overtime |-> 0, approved |-> Null]
  OBVIOUS
<1>9. row \in FieldRow
  BY <1>2, <1>5, <1>8 DEF FieldRow, Moments, RowActions
<1>10. /\ sessions' = [sessions EXCEPT ![w] = s] /\ logs' = Append(logs, row)
       /\ UNCHANGED <<now, values, live, deleted>> /\ decisions' = decisions /\ revoked' = revoked
       /\ queue' = [queue EXCEPT ![k] = [queue[k] EXCEPT !.log = Len(logs) + 1]]
  BY <1>3, <1>4, <1>6, <1>8 DEF MaterialiseIn, Links
<1>11. TableTypes'
  <2>1. logs' \in Seq(FieldRow) /\ DOMAIN decisions' = {} /\ PunchTypeOK'
    BY <1>9, <1>10, FiledType DEF TableTypes, PunchTypeOK
  <2>. QED  BY <1>7, <1>10, <2>1, LedgerStepType
<1>12. QueueTypes'
  <2>1. PICK marked : marked = [queue[k] EXCEPT !.log = Len(logs) + 1]
    OBVIOUS
  <2>2. marked \in QueueRow /\ marked.at = queue[k].at
    BY <1>1, <1>2, <2>1 DEF QueueRow
  <2>. QED  BY <1>1, <1>10, <2>1, <2>2, MarkType
<1>. QED  BY <1>11, <1>12

\* A clock-out from the queue ends whichever shift is open.
LEMMA MaterialiseOutType ==
    ASSUME TableTypes, QueueTypes, NEW k, MaterialiseOut(k), UNCHANGED requests
    PROVE  TableTypes' /\ QueueTypes'
<1>1. k \in DOMAIN queue
  BY MaterialisingOne DEF MaterialiseOut
<1>2. /\ queue[k] \in QueueRow /\ queue[k].at <= now /\ queue[k].at \in Nat
      /\ queue[k].worker \in Workers /\ queue[k].fix \in Fixes
      /\ now \in Nat /\ Len(logs) \in Nat /\ Len(logs) + 1 \in Nat
  BY <1>1, QueueRowType DEF TableTypes
<1>3. PICK w \in Workers : w = queue[k].worker
  BY <1>2
<1>4. /\ OnShift(w) /\ sessions[w].clockIn \in Nat /\ sessions[w].shift \in Nat
      /\ sessions[w].site \in Sites \cup {InTransit, Unassigned}
      /\ RecordedPaid(Worked(k), values) \in Nat /\ HeldAt(w, Worked(k)) \in Nat
  BY <1>1, <1>3, OpenSession, WorkedType DEF MaterialiseOut
<1>5. PICK waits \in BOOLEAN :
          waits = (ReachesLine(Worked(k), values) /\ HeldAt(w, Worked(k)) > 0)
  OBVIOUS
<1>6. PICK row :
        row = [worker |-> w, clockIn |-> sessions[w].clockIn, shift |-> sessions[w].shift,
               action |-> "Clock Out", site |-> sessions[w].site, at |-> queue[k].at,
               fix |-> queue[k].fix, flagged |-> FALSE, score |-> "none", source |-> "offline",
               code |-> IF waits THEN "pending_overtime" ELSE "pending_review",
               hours |-> RecordedPaid(Worked(k), values),
               overtime |-> IF waits THEN HeldAt(w, Worked(k)) ELSE 0, approved |-> Null]
  OBVIOUS
<1>7. row \in FieldRow
  BY <1>2, <1>4, <1>6 DEF FieldRow, Moments, RowActions, PendingCodes
<1>8. /\ CloseShift(w, row) /\ UNCHANGED <<now, values, live, deleted>> /\ revoked' = revoked
      /\ queue' = [queue EXCEPT ![k] = [queue[k] EXCEPT !.log = Len(logs) + 1]]
  BY <1>3, <1>5, <1>6 DEF MaterialiseOut, Links
<1>9. TableTypes'
  <2>1. logs' \in Seq(FieldRow) /\ DOMAIN decisions' = {} /\ PunchTypeOK'
    BY <1>7, <1>8, FiledType, NothingToSpend DEF CloseShift, TableTypes, PunchTypeOK
  <2>2. sessions' = [sessions EXCEPT ![w] = NoSession] /\ NoSession.clockIn = Null
    BY <1>8 DEF CloseShift, NoSession
  <2>. QED  BY <1>8, <2>1, <2>2, LedgerStepType
<1>10. QueueTypes'
  <2>1. PICK marked : marked = [queue[k] EXCEPT !.log = Len(logs) + 1]
    OBVIOUS
  <2>2. marked \in QueueRow /\ marked.at = queue[k].at
    BY <1>1, <1>2, <2>1 DEF QueueRow
  <2>. QED  BY <1>1, <1>8, <2>1, <2>2, MarkType
<1>. QED  BY <1>9, <1>10

\* A row is refused or admitted by the loop or the desk.
LEMMA MarkedType ==
    ASSUME QueueTypes, NEW k \in DOMAIN queue,
           RefuseMaterial(k) \/ RejectPunch(k) \/ ApprovePunch(k)
    PROVE  QueueTypes'
<1>1. PICK status \in Filed \cup {"rejected"}, code \in Codes :
          queue' = [queue EXCEPT ![k].status = status, ![k].code = code]
  BY DEF RefuseMaterial, RejectPunch, ApprovePunch, Filed, Codes
<1>2. PICK row : row = [queue[k] EXCEPT !.status = status, !.code = code]
  OBVIOUS
<1>3. row \in QueueRow /\ row.at = queue[k].at
  BY <1>2, QueueRowType DEF QueueRow
<1>4. queue' = [queue EXCEPT ![k] = row]
  BY <1>1, <1>2 DEF QueueTypes
<1>5. UNCHANGED <<now, revoked>>
  BY DEF RefuseMaterial, RejectPunch, ApprovePunch, dbVars
<1>. QED  BY <1>3, <1>4, <1>5, MarkType

\* A punch is stored, refused ones included.
LEMMA StoreType ==
    ASSUME QueueTypes, TxnTypes, StorePunch, now \in Nat
    PROVE  QueueTypes'
<1>1. PICK p : p = Head(txn.left)
  OBVIOUS
<1>2. txn \in Txn
  BY DEF TxnTypes, StorePunch, NoTxn
<1>3. p \in SignedPunch /\ p.at <= now /\ txn.worker \in Workers
  BY <1>1, <1>2 DEF StorePunch, TxnTypes, Txn
<1>4. PICK row : row = Stored(txn.worker, p)
  OBVIOUS
<1>5. row \in QueueRow /\ row.at <= now
  <2>1. Refusal(p) \in Codes
    BY DEF Refusal, Codes
  <2>2. SiteAt(p.fix) \in Fixes /\ NoSite \in Fixes
    BY <1>3 DEF SiteAt, SignedPunch, Fixes
  <2>. QED  BY <1>3, <1>4, <2>1, <2>2 DEF Stored, SignedPunch, QueueRow, Filed, Moments
<1>6. queue' = Append(queue, row) /\ UNCHANGED <<now, revoked>>
  BY <1>1, <1>4 DEF StorePunch, dbVars
<1>7. queue' \in Seq(QueueRow)
  BY <1>5, <1>6 DEF QueueTypes
<1>8. ASSUME NEW j \in DOMAIN queue' PROVE queue'[j].at <= now
  BY <1>5, <1>6 DEF QueueTypes
<1>. QED  BY <1>6, <1>7, <1>8 DEF QueueTypes

\* The batch is a punch shorter, and its verdict is written down.
LEMMA AnswerType ==
    ASSUME TxnTypes, txn.open, txn.left # <<>>, NEW verdict \in SyncVerdicts, Answer(verdict),
           UNCHANGED now
    PROVE  /\ TxnTypes'
           /\ txn'.open /\ txn'.worker = txn.worker /\ txn'.phone = txn.phone
           /\ txn'.heard = txn.heard
           /\ txn'.left = Tail(txn.left) /\ txn'.verdicts = Append(txn.verdicts, verdict)
<1>1. txn \in Txn
  BY DEF TxnTypes, NoTxn
<1>2. txn' = [txn EXCEPT !.left = Tail(txn.left), !.verdicts = Append(txn.verdicts, verdict)]
  BY DEF Answer
<1>3. txn.left \in Seq(SignedPunch) /\ txn.verdicts \in Seq(SyncVerdicts)
  BY <1>1 DEF Txn
<1>4. Tail(txn.left) \in Seq(SignedPunch) /\ Append(txn.verdicts, verdict) \in Seq(SyncVerdicts)
  BY <1>3
<1>5. txn' \in Txn
  BY <1>1, <1>2, <1>4 DEF Txn
<1>6. /\ txn'.open /\ txn'.worker = txn.worker /\ txn'.phone = txn.phone
      /\ txn'.heard = txn.heard
      /\ txn'.left = Tail(txn.left) /\ txn'.verdicts = Append(txn.verdicts, verdict)
  BY <1>1, <1>2 DEF Txn
<1>7. \A a \in DOMAIN Tail(txn.left) : Tail(txn.left)[a] = txn.left[a + 1] /\ a + 1 \in DOMAIN txn.left
  BY <1>3
<1>. QED  BY <1>5, <1>6, <1>7 DEF TxnTypes

-----------------------------------------------------------------------------
(* The phones                                                               *)

\* A phone and what it keeps.
LEMMA PhoneType ==
    ASSUME PhoneTypes, NEW p \in Phones
    PROVE  /\ phones[p] \in Phone
           /\ phones[p].kept \in Seq(Kept) /\ phones[p].sync \in Sync
           /\ phones[p].sync.sent \in Seq(Nat \ {0})
           /\ phones[p].sync.verdicts \in Seq(SyncVerdicts)
           /\ Len(phones[p].kept) \in Nat
           /\ DOMAIN phones[p].kept = 1 .. Len(phones[p].kept)
           /\ \A i \in DOMAIN phones[p].kept : phones[p].kept[i] \in Kept
<1>1. phones[p] \in Phone
  BY DEF PhoneTypes, PhoneTypeOK
<1>2. phones[p].kept \in Seq(Kept) /\ phones[p].sync \in Sync
  BY <1>1 DEF Phone
<1>. QED  BY <1>1, <1>2 DEF Sync

\* A step of one phone.
LEMMA OnePhoneType ==
    ASSUME PhoneTypes, NEW p \in Phones, NEW ph \in Phone,
           \A i \in DOMAIN ph.kept : ph.kept[i].at <= now,
           phones' = [phones EXCEPT ![p] = ph], UNCHANGED now,
           network' \subseteq Request,
           \A m \in network' : \A a \in DOMAIN m.punches : m.punches[a].at <= now,
           patchy' \in BOOLEAN, tapped' \in [Phones -> Tap \cup {NoTap}]
    PROVE  PhoneTypes'
<1>1. phones' \in [Phones -> Phone]
  BY DEF PhoneTypes, PhoneTypeOK
<1>2. ASSUME NEW o \in Phones PROVE \A i \in DOMAIN phones'[o].kept : phones'[o].kept[i].at <= now
  <2>1. CASE o = p
    BY <2>1 DEF PhoneTypes, PhoneTypeOK
  <2>2. CASE o # p
    BY <2>2 DEF PhoneTypes, PhoneTypeOK
  <2>. QED  BY <2>1, <2>2
<1>. QED  BY <1>1, <1>2 DEF PhoneTypes, PhoneTypeOK

\* A punch is kept at the end of the queue, as of now.
LEMMA EnqueueType ==
    ASSUME PhoneTypes, now \in Nat, NEW p \in Phones, NEW action \in PunchActions,
           NEW fix \in Fixes, NEW tampered \in BOOLEAN, Enqueue(p, action, fix, tampered),
           UNCHANGED now, tapped' \in [Phones -> Tap \cup {NoTap}]
    PROVE  /\ PhoneTypes'
           /\ phones' = [phones EXCEPT ![p] = phones'[p]] /\ phones'[p].sync = phones[p].sync
           /\ \E row : row.status = "queued" /\ phones'[p].kept = Append(phones[p].kept, row)
<1>1. phones[p] \in Phone /\ phones[p].kept \in Seq(Kept) /\ phones[p].sync \in Sync
  BY PhoneType
<1>2. PICK row : row = [action |-> action, at |-> now, fix |-> fix, tampered |-> tampered,
                        status |-> "queued"]
  OBVIOUS
<1>3. row \in Kept /\ row.at = now /\ row.status = "queued"
  BY <1>2 DEF Kept, Moments, Statuses
<1>4. PICK ph : ph = [phones[p] EXCEPT !.kept = Append(phones[p].kept, row)]
  OBVIOUS
<1>5. ph.kept = Append(phones[p].kept, row) /\ ph.sync = phones[p].sync /\ ph \in Phone
  <2>1. Append(phones[p].kept, row) \in Seq(Kept)
    BY <1>1, <1>3
  <2>. QED  BY <1>1, <1>4, <2>1 DEF Phone
<1>6. phones' = [phones EXCEPT ![p] = ph] /\ UNCHANGED <<network, patchy>> /\ phones'[p] = ph
  BY <1>2, <1>4 DEF Enqueue, PhoneTypes, PhoneTypeOK
<1>7. ASSUME NEW i \in DOMAIN ph.kept PROVE ph.kept[i].at <= now
  <2>1. CASE i \in DOMAIN phones[p].kept
    BY <1>1, <1>5, <2>1 DEF PhoneTypes
  <2>2. CASE i \notin DOMAIN phones[p].kept
    <3>1. i = Len(phones[p].kept) + 1
      BY <1>1, <1>5, <2>2
    <3>. QED  BY <1>1, <1>3, <1>5, <3>1
  <2>. QED  BY <2>1, <2>2
<1>8. PhoneTypes'
  BY <1>5, <1>6, <1>7, OnePhoneType DEF PhoneTypes, PhoneTypeOK
<1>. QED  BY <1>3, <1>5, <1>6, <1>8

\* A function on an initial segment is a sequence of that length.
LEMMA SegmentIsSeq ==
    ASSUME NEW S, NEW n \in Nat, NEW f \in [1..n -> S]
    PROVE  f \in Seq(S) /\ Len(f) = n
<1>1. f \in Seq(S)
  BY SeqDef
<1>2. DOMAIN f = 1..n /\ DOMAIN f = 1..Len(f) /\ Len(f) \in Nat
  BY <1>1, LenProperties
<1>. QED  BY <1>1, <1>2

\* The punches a chunk is made of wait on the phone.
LEMMA ChunkType ==
    ASSUME PhoneTypes, NEW p \in Phones, NEW sent \in Chunks(p)
    PROVE  /\ sent \in Seq(Nat \ {0}) /\ Len(sent) \in Nat
           /\ DOMAIN sent = 1 .. Len(sent)
           /\ \A a \in DOMAIN sent : sent[a] \in DOMAIN phones[p].kept
<1>1. Queued(p) \subseteq 1 .. Len(phones[p].kept) /\ Len(phones[p].kept) \in Nat
  BY PhoneType DEF Queued
<1>2. Cardinality(Queued(p)) \in Nat
  <2>1. IsFiniteSet(1 .. Len(phones[p].kept))
    BY <1>1, FS_Interval
  <2>. QED  BY <1>1, <2>1, FS_Subset, FS_CardinalityType
<1>3. PICK n \in Nat : n = Min2(Batch, Cardinality(Queued(p)))
  BY <1>2, PhoneAssumption DEF Min2
<1>4. sent \in [1 .. n -> Queued(p)]
  BY <1>3 DEF Chunks
<1>5. sent \in [1 .. n -> Nat \ {0}]
  BY <1>1, <1>4
<1>6. sent \in Seq(Nat \ {0})
  BY <1>5, SeqDef
<1>. QED  BY <1>4, <1>6 DEF Queued

\* What a phone signs is the punch it kept.
LEMMA SignedType ==
    ASSUME PhoneTypes, NEW p \in Phones, NEW i \in DOMAIN phones[p].kept
    PROVE  /\ Signed(p, i) \in SignedPunch /\ Signed(p, i).at <= now
           /\ Signed(p, i).id = <<p, i>>
           /\ Signed(p, i).action = phones[p].kept[i].action
           /\ Signed(p, i).at = phones[p].kept[i].at
<1>1. phones[p].kept[i] \in Kept /\ i \in Nat \ {0} /\ phones[p].kept[i].at <= now
  BY PhoneType DEF PhoneTypes
<1>. QED  BY <1>1 DEF Signed, SignedPunch, PunchIds, Kept

\* A phone sends a chunk.
LEMMA StartSyncType ==
    ASSUME PhoneTypes, NEW p \in Phones, StartSync(p), UNCHANGED tapped
    PROVE  PhoneTypes'
<1>1. PICK sent \in Chunks(p) :
        /\ phones' = [phones EXCEPT ![p].sync = [Idling EXCEPT !.stage = "asked", !.sent = sent]]
        /\ network' = network \cup
                {[phone |-> p, punches |-> [a \in DOMAIN sent |-> Signed(p, sent[a])],
                  heard |-> TRUE]}
  BY DEF StartSync
<1>2. /\ sent \in Seq(Nat \ {0}) /\ Len(sent) \in Nat /\ DOMAIN sent = 1 .. Len(sent)
      /\ \A a \in DOMAIN sent : sent[a] \in DOMAIN phones[p].kept
  BY ChunkType
<1>3. PICK punches : punches = [a \in DOMAIN sent |-> Signed(p, sent[a])]
  OBVIOUS
<1>4. \A a \in DOMAIN punches : punches[a] \in SignedPunch /\ punches[a].at <= now
  BY <1>2, <1>3, SignedType
<1>5. punches \in Seq(SignedPunch)
  <2>1. punches \in [1 .. Len(sent) -> SignedPunch]
    BY <1>2, <1>3, <1>4
  <2>. QED  BY <1>2, <2>1, SegmentIsSeq
<1>6. PICK m : m = [phone |-> p, punches |-> punches, heard |-> TRUE]
  OBVIOUS
<1>7. m \in Request /\ m.punches = punches
  BY <1>5, <1>6 DEF Request
<1>8. network' = network \cup {m}
  BY <1>1, <1>3, <1>6
<1>9. /\ network' \subseteq Request
      /\ \A o \in network' : \A a \in DOMAIN o.punches : o.punches[a].at <= now
  BY <1>4, <1>7, <1>8 DEF PhoneTypes, PhoneTypeOK
<1>10. PICK sync : sync = [Idling EXCEPT !.stage = "asked", !.sent = sent]
  OBVIOUS
<1>11. sync \in Sync
  <2>1. <<>> \in Seq(SyncVerdicts)
    OBVIOUS
  <2>. QED  BY <1>2, <1>10, <2>1 DEF Idling, Sync
<1>12. PICK ph : ph = [phones[p] EXCEPT !.sync = sync]
  OBVIOUS
<1>13. ph \in Phone /\ ph.kept = phones[p].kept
  BY <1>11, <1>12, PhoneType DEF Phone
<1>14. phones' = [phones EXCEPT ![p] = ph] /\ UNCHANGED <<patchy, now>>
  BY <1>1, <1>10, <1>12 DEF StartSync, dbVars, PhoneTypes, PhoneTypeOK
<1>15. \A i \in DOMAIN ph.kept : ph.kept[i].at <= now
  BY <1>13 DEF PhoneTypes
<1>. QED  BY <1>9, <1>13, <1>14, <1>15, OnePhoneType DEF PhoneTypes, PhoneTypeOK

\* A phone that is idle again.
LEMMA IdleAgainType ==
    ASSUME PhoneTypes, NEW p \in Phones, phones' = [phones EXCEPT ![p].sync = Idling],
           UNCHANGED <<now, tapped>>, patchy' \in BOOLEAN, network' \subseteq Request,
           \A m \in network' : \A a \in DOMAIN m.punches : m.punches[a].at <= now
    PROVE  PhoneTypes'
<1>1. Idling \in Sync
  <2>1. <<>> \in Seq(SyncVerdicts) /\ <<>> \in Seq(Nat \ {0})
    OBVIOUS
  <2>. QED  BY <2>1 DEF Idling, Sync
<1>2. PICK ph : ph = [phones[p] EXCEPT !.sync = Idling]
  OBVIOUS
<1>3. ph \in Phone /\ ph.kept = phones[p].kept
  BY <1>1, <1>2, PhoneType DEF Phone
<1>4. phones' = [phones EXCEPT ![p] = ph]
  BY <1>2 DEF PhoneTypes, PhoneTypeOK
<1>5. \A i \in DOMAIN ph.kept : ph.kept[i].at <= now
  BY <1>3 DEF PhoneTypes
<1>. QED  BY <1>3, <1>4, <1>5, OnePhoneType DEF PhoneTypes

\* The requests of a phone that gives up are the same, but nobody listens.
Unheard(p) == {[m EXCEPT !.heard = @ /\ m.phone # p] : m \in network}

LEMMA UnheardRequests ==
    ASSUME PhoneTypes, NEW p
    PROVE  /\ Unheard(p) \subseteq Request
           /\ \A m \in Unheard(p) : \A a \in DOMAIN m.punches : m.punches[a].at <= now
           /\ \A m \in Unheard(p) : m.heard => m \in network /\ m.phone # p
<1>. SUFFICES ASSUME NEW m \in Unheard(p)
              PROVE  /\ m \in Request
                     /\ \A a \in DOMAIN m.punches : m.punches[a].at <= now
                     /\ m.heard => m \in network /\ m.phone # p
  OBVIOUS
<1>1. PICK o \in network : m = [o EXCEPT !.heard = o.heard /\ o.phone # p]
  BY DEF Unheard
<1>2. o \in Request
  BY DEF PhoneTypes, PhoneTypeOK
<1>3. PICK listens \in BOOLEAN : listens = (o.heard /\ o.phone # p)
  OBVIOUS
<1>4. m = [o EXCEPT !.heard = listens]
  BY <1>1, <1>3
<1>5. m \in Request /\ m.punches = o.punches /\ m.phone = o.phone /\ m.heard = listens
  BY <1>2, <1>4 DEF Request
<1>6. listens => m = o
  <2>1. listens => o.heard = TRUE
    BY <1>2, <1>3 DEF Request
  <2>. QED  BY <1>2, <1>4, <2>1 DEF Request
<1>. QED  BY <1>3, <1>5, <1>6 DEF PhoneTypes

\* A phone writes down the first verdict: that punch is told, and nothing else of it changes.
LEMMA SettledPhone ==
    ASSUME PhoneTypes, NEW p \in Phones, PhoneRecord(p), SettlePunch(p)
    PROVE  \E ph \in Phone, i \in DOMAIN phones[p].kept :
              /\ phones' = [phones EXCEPT ![p] = ph]
              /\ i = Head(phones[p].sync.sent)
              /\ ph.sync.stage = "settling"
              /\ ph.sync.sent = Tail(phones[p].sync.sent)
              /\ ph.sync.verdicts = Tail(phones[p].sync.verdicts)
              /\ DOMAIN ph.kept = DOMAIN phones[p].kept
              /\ \A j \in DOMAIN phones[p].kept :
                    /\ j # i => ph.kept[j] = phones[p].kept[j]
                    /\ ph.kept[j].action = phones[p].kept[j].action
                    /\ ph.kept[j].at = phones[p].kept[j].at
                    /\ ph.kept[j].fix = phones[p].kept[j].fix
                    /\ ph.kept[j].tampered = phones[p].kept[j].tampered
<1>1. /\ phones[p] \in Phone
      /\ phones[p].kept \in Seq(Kept) /\ phones[p].sync \in Sync
      /\ phones[p].sync.sent \in Seq(Nat \ {0}) /\ phones[p].sync.verdicts \in Seq(SyncVerdicts)
      /\ phones[p].sync.stage = "settling" /\ phones[p].sync.sent # <<>>
      /\ Len(phones[p].sync.verdicts) = Len(phones[p].sync.sent)
  BY PhoneType DEF SettlePunch, PhoneRecord
<1>2. PICK i : i = Head(phones[p].sync.sent)
  OBVIOUS
<1>3. i \in DOMAIN phones[p].kept
  BY <1>1, <1>2 DEF PhoneRecord
<1>4. phones[p].sync.verdicts # <<>>
  BY <1>1
<1>5. PICK status \in Statuses : status = LocalStatus(Head(phones[p].sync.verdicts))
  BY <1>1, <1>4 DEF LocalStatus, Statuses, SyncVerdicts, Filed
<1>6. PICK sync : sync = [phones[p].sync EXCEPT !.sent = Tail(phones[p].sync.sent),
                                               !.verdicts = Tail(phones[p].sync.verdicts)]
  OBVIOUS
<1>7. /\ sync \in Sync /\ sync.stage = "settling"
      /\ sync.sent = Tail(phones[p].sync.sent) /\ sync.verdicts = Tail(phones[p].sync.verdicts)
  <2>1. Tail(phones[p].sync.sent) \in Seq(Nat \ {0})
    BY <1>1
  <2>2. Tail(phones[p].sync.verdicts) \in Seq(SyncVerdicts)
    BY <1>1, <1>4
  <2>. QED  BY <1>1, <1>6, <2>1, <2>2 DEF Sync
<1>8. PICK row : row = [phones[p].kept[i] EXCEPT !.status = status]
  OBVIOUS
<1>9. /\ row \in Kept /\ row.action = phones[p].kept[i].action /\ row.at = phones[p].kept[i].at
      /\ row.fix = phones[p].kept[i].fix /\ row.tampered = phones[p].kept[i].tampered
  BY <1>1, <1>3, <1>8, PhoneType DEF Kept
<1>10. PICK kept : kept = [phones[p].kept EXCEPT ![i] = row]
  OBVIOUS
<1>11. /\ kept \in Seq(Kept) /\ DOMAIN kept = DOMAIN phones[p].kept
       /\ kept[i] = row /\ \A j \in DOMAIN phones[p].kept : j # i => kept[j] = phones[p].kept[j]
  BY <1>1, <1>3, <1>9, <1>10
<1>12. PICK ph : ph = [phones[p] EXCEPT !.kept = kept, !.sync = sync]
  OBVIOUS
<1>13. ph \in Phone /\ ph.kept = kept /\ ph.sync = sync
  BY <1>1, <1>7, <1>11, <1>12 DEF Phone
<1>14. phones' = [phones EXCEPT ![p] = ph]
  BY <1>2, <1>5, <1>6, <1>8, <1>10, <1>12 DEF SettlePunch
<1>15. \A j \in DOMAIN phones[p].kept :
          /\ j # i => ph.kept[j] = phones[p].kept[j]
          /\ ph.kept[j].action = phones[p].kept[j].action
          /\ ph.kept[j].at = phones[p].kept[j].at
          /\ ph.kept[j].fix = phones[p].kept[j].fix
          /\ ph.kept[j].tampered = phones[p].kept[j].tampered
  BY <1>9, <1>11, <1>13
<1>16. /\ ph.sync.stage = "settling"
       /\ ph.sync.sent = Tail(phones[p].sync.sent)
       /\ ph.sync.verdicts = Tail(phones[p].sync.verdicts)
       /\ DOMAIN ph.kept = DOMAIN phones[p].kept
  BY <1>7, <1>11, <1>13
<1>. QED  BY <1>2, <1>3, <1>13, <1>14, <1>15, <1>16

\* A verdict that is written down leaves the phone typed.
LEMMA SettlePunchType ==
    ASSUME PhoneTypes, NEW p \in Phones, PhoneRecord(p), SettlePunch(p), UNCHANGED tapped
    PROVE  PhoneTypes'
<1>1. PICK ph \in Phone :
        /\ phones' = [phones EXCEPT ![p] = ph]
        /\ DOMAIN ph.kept = DOMAIN phones[p].kept
        /\ \A j \in DOMAIN phones[p].kept : ph.kept[j].at = phones[p].kept[j].at
  BY SettledPhone
<1>2. \A i \in DOMAIN ph.kept : ph.kept[i].at <= now
  BY <1>1 DEF PhoneTypes
<1>3. UNCHANGED <<now, network, patchy>>
  BY DEF SettlePunch, dbVars
<1>. QED  BY <1>1, <1>2, <1>3, OnePhoneType DEF PhoneTypes, PhoneTypeOK

\* The answer reaches the phone that waits for it.
LEMMA AnsweredPhone ==
    ASSUME PhoneTypes, TxnTypes, CommitSync, txn.heard
    PROVE  /\ txn.phone \in Phones /\ txn.verdicts \in Seq(SyncVerdicts)
           /\ \E ph \in Phone :
                 /\ phones' = [phones EXCEPT ![txn.phone] = ph]
                 /\ ph.kept = phones[txn.phone].kept
                 /\ ph.sync.stage = "settling" /\ ph.sync.verdicts = txn.verdicts
                 /\ ph.sync.sent = phones[txn.phone].sync.sent
<1>1. txn \in Txn
  BY DEF CommitSync, Done, TxnTypes, NoTxn
<1>2. PICK p \in Phones : p = txn.phone
  BY <1>1 DEF CommitSync, Txn
<1>3. txn.verdicts \in Seq(SyncVerdicts)
  BY <1>1 DEF Txn
<1>4. phones[p] \in Phone /\ phones[p].sync \in Sync
  BY PhoneType
<1>5. PICK sync : sync = [phones[p].sync EXCEPT !.stage = "settling", !.verdicts = txn.verdicts]
  OBVIOUS
<1>6. /\ sync \in Sync /\ sync.stage = "settling" /\ sync.verdicts = txn.verdicts
      /\ sync.sent = phones[p].sync.sent
  BY <1>3, <1>4, <1>5 DEF Sync
<1>7. PICK ph : ph = [phones[p] EXCEPT !.sync = sync]
  OBVIOUS
<1>8. ph \in Phone /\ ph.kept = phones[p].kept /\ ph.sync = sync
  BY <1>4, <1>6, <1>7 DEF Phone
<1>9. phones' = [phones EXCEPT ![p] = ph]
  BY <1>2, <1>5, <1>7 DEF CommitSync
<1>. QED  BY <1>2, <1>3, <1>6, <1>8, <1>9

\* An answer, heard or not, leaves the phones typed.
LEMMA CommitSyncType ==
    ASSUME PhoneTypes, TxnTypes, CommitSync, UNCHANGED tapped
    PROVE  PhoneTypes'
<1>1. UNCHANGED <<now, network, patchy>>
  BY DEF CommitSync, dbVars
<1>2. CASE txn.heard
  <2>1. PICK p \in Phones : p = txn.phone
    BY <1>2, AnsweredPhone
  <2>2. PICK ph \in Phone : phones' = [phones EXCEPT ![p] = ph] /\ ph.kept = phones[p].kept
    BY <1>2, <2>1, AnsweredPhone
  <2>3. \A i \in DOMAIN ph.kept : ph.kept[i].at <= now
    BY <2>1, <2>2 DEF PhoneTypes
  <2>. QED  BY <1>1, <2>1, <2>2, <2>3, OnePhoneType DEF PhoneTypes, PhoneTypeOK
<1>3. CASE ~txn.heard
  BY <1>1, <1>3 DEF CommitSync, PhoneTypes, PhoneTypeOK
<1>. QED  BY <1>2, <1>3

\* A request is let in, or refused.
LEMMA ServeType ==
    ASSUME PhoneTypes, TxnTypes, NEW m \in network, BeginSync(m) \/ RefuseSync(m),
           UNCHANGED tapped
    PROVE  PhoneTypes' /\ TxnTypes'
<1>1. /\ m \in Request /\ m.phone \in Phones
      /\ \A a \in DOMAIN m.punches : m.punches[a].at <= now
  BY DEF PhoneTypes, PhoneTypeOK, Request
<1>2. /\ network' \subseteq Request
      /\ \A o \in network' : \A a \in DOMAIN o.punches : o.punches[a].at <= now
      /\ UNCHANGED <<now, patchy>>
  BY DEF BeginSync, RefuseSync, dbVars, PhoneTypes, PhoneTypeOK
<1>3. CASE BeginSync(m)
  <2>1. txn' \in Txn
    <3>1. <<>> \in Seq(SyncVerdicts)
      OBVIOUS
    <3>. QED  BY <1>1, <1>3, <3>1, PhonesAssumption DEF BeginSync, Txn, Request
  <2>2. txn'.left = m.punches
    BY <1>3 DEF BeginSync
  <2>. QED  BY <1>1, <1>2, <1>3, <2>1, <2>2 DEF BeginSync, PhoneTypes, PhoneTypeOK, TxnTypes
<1>4. CASE RefuseSync(m)
  <2>1. TxnTypes'
    BY <1>2, <1>4 DEF RefuseSync, syncVars, TxnTypes
  <2>2. CASE m.heard
    <3>1. PICK p \in Phones : p = m.phone
      BY <1>1
    <3>2. phones' = [phones EXCEPT ![p].sync = Idling]
      BY <1>4, <2>2, <3>1 DEF RefuseSync
    <3>3. patchy' \in BOOLEAN
      BY <1>2 DEF PhoneTypes, PhoneTypeOK
    <3>. QED  BY <1>2, <2>1, <3>2, <3>3, IdleAgainType
  <2>3. CASE ~m.heard
    BY <1>2, <1>4, <2>1, <2>3 DEF RefuseSync, PhoneTypes, PhoneTypeOK
  <2>. QED  BY <2>2, <2>3
<1>. QED  BY <1>3, <1>4

\* The phone gives up: the transaction goes on for nobody.
LEMMA GiveUpType ==
    ASSUME PhoneTypes, TxnTypes, NEW p \in Phones, GiveUp(p), UNCHANGED tapped
    PROVE  /\ PhoneTypes' /\ TxnTypes'
           /\ network' = Unheard(p) /\ txn'.open = txn.open
           /\ txn.open => /\ txn'.heard => txn.heard /\ txn.phone # p
                          /\ txn'.left = txn.left /\ txn'.verdicts = txn.verdicts
                          /\ txn'.worker = txn.worker /\ txn'.phone = txn.phone
<1>1. network' = Unheard(p) /\ UNCHANGED <<now, patchy>> /\ phones' = [phones EXCEPT ![p].sync = Idling]
  BY DEF GiveUp, Unheard, dbVars
<1>2. PhoneTypes'
  BY <1>1, UnheardRequests, IdleAgainType DEF PhoneTypes, PhoneTypeOK
<1>3. CASE txn.open /\ txn.phone = p
  <2>1. txn \in Txn /\ txn' = [txn EXCEPT !.heard = FALSE]
    BY <1>3 DEF TxnTypes, NoTxn, GiveUp
  <2>2. /\ txn' \in Txn /\ txn'.open = txn.open /\ ~txn'.heard
        /\ txn'.left = txn.left /\ txn'.verdicts = txn.verdicts
        /\ txn'.worker = txn.worker /\ txn'.phone = txn.phone
    BY <2>1 DEF Txn
  <2>. QED  BY <1>1, <1>2, <2>2 DEF TxnTypes
<1>4. CASE ~(txn.open /\ txn.phone = p)
  <2>1. txn' = txn
    BY <1>4 DEF GiveUp
  <2>. QED  BY <1>1, <1>2, <1>4, <2>1 DEF TxnTypes
<1>. QED  BY <1>3, <1>4

-----------------------------------------------------------------------------
(* What is on record stays on record                                        *)

\* No row of the queue goes, or becomes another punch.
QueueGrows ==
    \A k \in DOMAIN queue :
        /\ k \in DOMAIN queue'
        /\ queue'[k].id = queue[k].id /\ queue'[k].worker = queue[k].worker
        /\ queue'[k].action = queue[k].action /\ queue'[k].at = queue[k].at

\* A phone loses no punch, settles none, and has the same business with the server.
Steady(p) ==
    /\ phones'[p].sync = phones[p].sync
    /\ \A i \in DOMAIN phones[p].kept :
          /\ i \in DOMAIN phones'[p].kept
          /\ phones'[p].kept[i] = phones[p].kept[i]
    /\ \A i \in DOMAIN phones'[p].kept :
          i \notin DOMAIN phones[p].kept => phones'[p].kept[i].status = "queued"

\* A punch on record stays there, as long as the phone does not change when and what it was.
LEMMA RecordStays ==
    ASSUME QueueGrows, NEW p, NEW i, OnRecord(p, i),
           phones'[p].kept[i].action = phones[p].kept[i].action,
           phones'[p].kept[i].at = phones[p].kept[i].at
    PROVE  OnRecord(p, i)'
<1>1. PICK k \in DOMAIN queue :
        \/ queue[k].id = <<p, i>>
        \/ /\ queue[k].worker = Owner[p]
           /\ queue[k].action = phones[p].kept[i].action
           /\ queue[k].at - Window <= phones[p].kept[i].at
           /\ phones[p].kept[i].at <= queue[k].at + Window
  BY DEF OnRecord
<1>2. /\ k \in DOMAIN queue'
      /\ queue'[k].id = queue[k].id /\ queue'[k].worker = queue[k].worker
      /\ queue'[k].action = queue[k].action /\ queue'[k].at = queue[k].at
  BY DEF QueueGrows
<1>. QED  BY <1>1, <1>2 DEF OnRecord

\* A steady phone still has what it had on record.
LEMMA SteadyRecord ==
    ASSUME PhoneTypes, QueueGrows, NEW p \in Phones, PhoneRecord(p), Steady(p)
    PROVE  PhoneRecord(p)'
<1>1. \A i \in DOMAIN phones[p].kept : OnRecord(p, i) => OnRecord(p, i)'
  BY RecordStays DEF Steady
<1>2. \A a \in DOMAIN phones[p].sync.sent : phones[p].sync.sent[a] \in DOMAIN phones[p].kept
  BY DEF PhoneRecord
<1>3. \A a \in DOMAIN phones[p].sync.sent :
         phones[p].sync.sent[a] \in DOMAIN phones'[p].kept
  BY <1>2 DEF Steady
<1>4. phones[p].sync.stage = "settling" =>
         \A a \in DOMAIN phones[p].sync.sent : OnRecord(p, phones[p].sync.sent[a])'
  <2>. SUFFICES ASSUME phones[p].sync.stage = "settling", NEW a \in DOMAIN phones[p].sync.sent
                PROVE  OnRecord(p, phones[p].sync.sent[a])'
    OBVIOUS
  <2>1. PICK i \in DOMAIN phones[p].kept : i = phones[p].sync.sent[a]
    BY <1>2
  <2>2. OnRecord(p, i)
    BY <2>1 DEF PhoneRecord
  <2>3. phones'[p].sync.sent[a] = i
    BY <2>1 DEF Steady
  <2>. QED  BY <1>1, <2>2, <2>3
<1>5. ASSUME NEW i \in DOMAIN phones'[p].kept, Told(p, i)' PROVE OnRecord(p, i)'
  <2>1. i \in DOMAIN phones[p].kept
    BY <1>5 DEF Steady, Told
  <2>2. Told(p, i)
    BY <1>5, <2>1 DEF Steady, Told
  <2>. QED  BY <1>1, <2>1, <2>2 DEF PhoneRecord
<1>6. phones'[p].sync = phones[p].sync
  BY DEF Steady
<1>. QED  BY <1>3, <1>4, <1>5, <1>6 DEF PhoneRecord

\* What a steady phone waits for it still waits for.
LEMMA SteadyAwaits ==
    ASSUME PhoneTypes, QueueGrows, NEW p \in Phones, PhoneRecord(p), Steady(p),
           NEW punches \in Seq(SignedPunch), NEW n \in Nat, Awaits(p, punches, n)
    PROVE  Awaits(p, punches, n)'
<1>1. PICK sent \in Seq(Nat \ {0}) : sent = phones[p].sync.sent
  BY PhoneType
<1>2. /\ phones'[p].sync.stage = "asked" /\ phones'[p].sync.sent = sent
      /\ Len(sent) = n + Len(punches)
  BY <1>1 DEF Awaits, Steady
<1>3. \A a \in 1 .. Len(sent) : sent[a] \in DOMAIN phones[p].kept
  BY <1>1 DEF PhoneRecord
<1>4. ASSUME NEW a \in 1 .. n PROVE OnRecord(p, sent[a])'
  <2>1. PICK i : i = sent[a]
    OBVIOUS
  <2>2. i \in DOMAIN phones[p].kept
    <3>1. a \in 1 .. Len(sent)
      BY <1>2
    <3>. QED  BY <1>3, <2>1, <3>1
  <2>3. OnRecord(p, i)
    BY <1>1, <2>1 DEF Awaits
  <2>4. phones'[p].kept[i] = phones[p].kept[i]
    BY <2>2 DEF Steady
  <2>5. OnRecord(p, i)'
    BY <2>3, <2>4, RecordStays
  <2>. QED  BY <2>1, <2>5
<1>5. ASSUME NEW a \in DOMAIN punches PROVE punches[a] = Signed(p, sent[n + a])'
  <2>1. PICK i : i = sent[n + a]
    OBVIOUS
  <2>2. i \in DOMAIN phones[p].kept
    <3>1. n + a \in 1 .. Len(sent)
      BY <1>2
    <3>. QED  BY <1>3, <2>1, <3>1
  <2>3. punches[a] = Signed(p, i)
    BY <1>1, <2>1 DEF Awaits
  <2>4. phones'[p].kept[i] = phones[p].kept[i]
    BY <2>2 DEF Steady
  <2>. QED  BY <2>1, <2>3, <2>4 DEF Signed
<1>. QED  BY <1>2, <1>4, <1>5 DEF Awaits

\* The requests that phones still await are as they were.
LEMMA MailStays ==
    ASSUME PhoneTypes, RecordInv, QueueGrows,
           \A m \in network' : m.heard => m \in network /\ Steady(m.phone)
    PROVE  MailRecord'
<1>1. ASSUME NEW m \in network', m.heard PROVE Awaits(m.phone, m.punches, 0)'
  <2>1. m \in network /\ Steady(m.phone) /\ m \in Request
    BY <1>1 DEF PhoneTypes, PhoneTypeOK
  <2>2. m.phone \in Phones /\ m.punches \in Seq(SignedPunch) /\ Awaits(m.phone, m.punches, 0)
        /\ PhoneRecord(m.phone)
    BY <1>1, <2>1 DEF Request, RecordInv, MailRecord
  <2>. QED  BY <2>1, <2>2, SteadyAwaits
<1>. QED  BY <1>1 DEF RecordInv, MailRecord

\* The transaction that is under way is still about the phone that awaits it.
LEMMA TxnStays ==
    ASSUME PhoneTypes, TxnTypes, RecordInv, QueueGrows, txn.open,
           txn'.open, txn'.left = txn.left, txn'.verdicts = txn.verdicts,
           txn'.worker = txn.worker, txn'.phone = txn.phone,
           txn'.heard => txn.heard /\ Steady(txn.phone),
           \A m \in network' : m.heard => m \in network,
           txn.phone = Null => ~txn'.heard
    PROVE  TxnRecord'
<1>1. txn \in Txn
  BY DEF TxnTypes, NoTxn
<1>2. ASSUME txn'.heard PROVE Awaits(txn.phone, txn.left, Len(txn.verdicts))'
  <2>1. PICK p \in Phones, left \in Seq(SignedPunch), n \in Nat :
            p = txn.phone /\ left = txn.left /\ n = Len(txn.verdicts)
    BY <1>1, <1>2 DEF Txn, RecordInv, TxnRecord
  <2>2. Awaits(p, left, n) /\ Steady(p) /\ PhoneRecord(p)
    BY <1>2, <2>1 DEF RecordInv, TxnRecord
  <2>3. Awaits(p, left, n)'
    BY <2>2, SteadyAwaits
  <2>4. txn'.phone = p /\ txn'.left = left /\ Len(txn'.verdicts) = n
    BY <2>1
  <2>. QED  BY <2>3, <2>4
<1>3. txn'.heard => \A m \in network' : m.heard => m.phone # txn'.phone
  BY DEF RecordInv, TxnRecord
<1>. QED  BY <1>2, <1>3 DEF RecordInv, TxnRecord

\* Phones that change nothing, requests that stay or go, a transaction that stays or ends.
LEMMA AllSteady ==
    ASSUME PhoneTypes, TxnTypes, RecordInv, QueueGrows, \A p \in Phones : Steady(p),
           \A m \in network' : m.heard => m \in network, txn' = txn \/ ~txn'.open
    PROVE  RecordInv'
<1>1. \A p \in Phones : PhoneRecord(p)'
  BY SteadyRecord DEF RecordInv
<1>2. \A m \in network : m.phone \in Phones
  BY DEF PhoneTypes, PhoneTypeOK, Request
<1>3. MailRecord'
  BY <1>2, MailStays
<1>4. TxnRecord'
  <2>1. CASE txn'.open
    <3>1. txn' = txn /\ txn \in Txn
      BY <2>1 DEF TxnTypes, NoTxn
    <3>2. txn.open
      BY <2>1, <3>1
    <3>3. txn.heard => txn.phone \in Phones
      BY <3>1, <3>2 DEF Txn, RecordInv, TxnRecord
    <3>4. txn.phone = Null => ~txn.heard
      BY <3>2 DEF RecordInv, TxnRecord
    <3>. QED  BY <2>1, <3>1, <3>2, <3>3, <3>4, TxnStays
  <2>2. CASE ~txn'.open
    BY <2>2 DEF TxnRecord
  <2>. QED  BY <2>1, <2>2
<1>. QED  BY <1>1, <1>3, <1>4 DEF RecordInv

\* A phone that is left alone is steady.
LEMMA UntouchedIsSteady ==
    ASSUME NEW p, phones'[p] = phones[p]
    PROVE  Steady(p)
BY DEF Steady

\* The queue as it is grows.
LEMMA SameQueueGrows == queue' = queue => QueueGrows
BY DEF QueueGrows

\* Keeping a punch leaves the phone steady.
LEMMA EnqueueSteady ==
    ASSUME PhoneTypes, now \in Nat, NEW p \in Phones, NEW action \in PunchActions,
           NEW fix \in Fixes, NEW tampered \in BOOLEAN, Enqueue(p, action, fix, tampered),
           UNCHANGED now, tapped' \in [Phones -> Tap \cup {NoTap}]
    PROVE  \A o \in Phones : Steady(o)
<1>1. PICK row : row.status = "queued" /\ phones'[p].kept = Append(phones[p].kept, row)
  BY EnqueueType
<1>2. phones'[p].sync = phones[p].sync /\ phones' = [phones EXCEPT ![p] = phones'[p]]
  BY EnqueueType
<1>3. Steady(p)
  <2>1. phones[p].kept \in Seq(Kept)
    BY PhoneType
  <2>. QED  BY <1>1, <1>2, <2>1 DEF Steady
<1>4. ASSUME NEW o \in Phones, o # p PROVE Steady(o)
  <2>1. phones'[o] = phones[o]
    BY <1>2, <1>4 DEF PhoneTypes, PhoneTypeOK
  <2>. QED  BY <2>1, UntouchedIsSteady
<1>. QED  BY <1>3, <1>4

\* One phone moves on, and no request or transaction that is awaited is its own.
LEMMA OnlyOne ==
    ASSUME PhoneTypes, TxnTypes, RecordInv, QueueGrows, NEW p \in Phones, PhoneRecord(p)',
           \A o \in Phones : o # p => phones'[o] = phones[o],
           \A m \in network' : m.heard => m \in network /\ m.phone # p,
           txn'.open => /\ txn.open
                        /\ txn'.heard => txn.heard /\ txn.phone # p
                        /\ txn'.left = txn.left /\ txn'.verdicts = txn.verdicts
                        /\ txn'.worker = txn.worker /\ txn'.phone = txn.phone
    PROVE  RecordInv'
<1>1. \A o \in Phones : o # p => Steady(o)
  BY UntouchedIsSteady
<1>2. \A o \in Phones : PhoneRecord(o)'
  BY <1>1, SteadyRecord DEF RecordInv
<1>3. \A m \in network : m.phone \in Phones
  BY DEF PhoneTypes, PhoneTypeOK, Request
<1>4. MailRecord'
  BY <1>1, <1>3, MailStays
<1>5. TxnRecord'
  <2>1. CASE txn'.open
    <3>1. txn \in Txn /\ txn.open
      BY <2>1 DEF TxnTypes, NoTxn
    <3>2. txn.heard => txn.phone \in Phones
      BY <3>1 DEF Txn, RecordInv, TxnRecord
    <3>3. txn.phone = Null => ~txn.heard
      BY <3>1 DEF RecordInv, TxnRecord
    <3>. QED  BY <1>1, <2>1, <3>1, <3>2, <3>3, TxnStays
  <2>2. CASE ~txn'.open
    BY <2>2 DEF TxnRecord
  <2>. QED  BY <2>1, <2>2
<1>. QED  BY <1>2, <1>4, <1>5 DEF RecordInv

\* A phone that is idle, or that writes verdicts down, awaits nothing.
LEMMA OnlyAskersAwait ==
    ASSUME PhoneTypes, RecordInv, NEW p \in Phones, phones[p].sync.stage # "asked"
    PROVE  /\ \A m \in network : m.heard => m.phone # p
           /\ txn.open /\ txn.heard => txn.phone # p
BY DEF RecordInv, MailRecord, TxnRecord, Awaits

\* An idle phone has on record what it has told.
LEMMA IdleRecord ==
    ASSUME PhoneTypes, RecordInv, QueueGrows, NEW p \in Phones,
           phones' = [phones EXCEPT ![p].sync = Idling]
    PROVE  PhoneRecord(p)' /\ \A o \in Phones : o # p => phones'[o] = phones[o]
<1>1. phones'[p].sync = Idling /\ phones'[p].kept = phones[p].kept
  BY DEF PhoneTypes, PhoneTypeOK, Phone
<1>2. Idling.sent = <<>> /\ Idling.stage # "settling"
  BY DEF Idling
<1>3. ASSUME NEW i \in DOMAIN phones[p].kept, Told(p, i)' PROVE OnRecord(p, i)'
  <2>1. OnRecord(p, i)
    BY <1>1, <1>3 DEF Told, RecordInv, PhoneRecord
  <2>. QED  BY <1>1, <2>1, RecordStays
<1>4. \A o \in Phones : o # p => phones'[o] = phones[o]
  BY DEF PhoneTypes, PhoneTypeOK
<1>. QED  BY <1>1, <1>2, <1>3, <1>4 DEF PhoneRecord

\* A phone that gives up is idle, and nobody listens to its request any more.
LEMMA GiveUpRecord ==
    ASSUME PhoneTypes, TxnTypes, RecordInv, NEW p \in Phones, GiveUp(p), UNCHANGED tapped
    PROVE  RecordInv'
<1>1. QueueGrows
  BY SameQueueGrows DEF GiveUp
<1>2. PhoneRecord(p)' /\ \A o \in Phones : o # p => phones'[o] = phones[o]
  BY <1>1, IdleRecord DEF GiveUp
<1>3. \A m \in network' : m.heard => m \in network /\ m.phone # p
  BY GiveUpType, UnheardRequests
<1>4. txn'.open => /\ txn.open
                   /\ txn'.heard => txn.heard /\ txn.phone # p
                   /\ txn'.left = txn.left /\ txn'.verdicts = txn.verdicts
                   /\ txn'.worker = txn.worker /\ txn'.phone = txn.phone
  BY GiveUpType
<1>. QED  BY <1>1, <1>2, <1>3, <1>4, OnlyOne

\* A batch that is through leaves the phone idle.
LEMMA FinishSyncRecord ==
    ASSUME PhoneTypes, TxnTypes, RecordInv, NEW p \in Phones, FinishSync(p)
    PROVE  RecordInv'
<1>1. QueueGrows /\ UNCHANGED <<network, txn>>
  BY SameQueueGrows DEF FinishSync, syncVars
<1>2. PhoneRecord(p)' /\ \A o \in Phones : o # p => phones'[o] = phones[o]
  BY <1>1, IdleRecord DEF FinishSync
<1>3. /\ \A m \in network : m.heard => m.phone # p
      /\ txn.open /\ txn.heard => txn.phone # p
  BY OnlyAskersAwait DEF FinishSync
<1>. QED  BY <1>1, <1>2, <1>3, OnlyOne

\* A verdict the phone writes down is about a punch on record.
LEMMA SettlePunchRecord ==
    ASSUME PhoneTypes, TxnTypes, RecordInv, NEW p \in Phones, SettlePunch(p)
    PROVE  RecordInv'
<1>1. QueueGrows /\ UNCHANGED <<network, txn>> /\ phones[p].sync.stage = "settling"
  BY SameQueueGrows DEF SettlePunch, syncVars
<1>2. PhoneRecord(p)
  BY DEF RecordInv
<1>3. PICK sent \in Seq(Nat \ {0}), verdicts \in Seq(SyncVerdicts) :
          /\ sent = phones[p].sync.sent /\ verdicts = phones[p].sync.verdicts
          /\ sent # <<>> /\ Len(verdicts) = Len(sent)
  BY <1>2, PhoneType DEF SettlePunch, PhoneRecord
<1>4. PICK ph \in Phone, i \in DOMAIN phones[p].kept :
        /\ phones' = [phones EXCEPT ![p] = ph]
        /\ i = Head(sent) /\ ph.sync.stage = "settling"
        /\ ph.sync.sent = Tail(sent) /\ ph.sync.verdicts = Tail(verdicts)
        /\ DOMAIN ph.kept = DOMAIN phones[p].kept
        /\ \A j \in DOMAIN phones[p].kept :
              /\ j # i => ph.kept[j] = phones[p].kept[j]
              /\ ph.kept[j].action = phones[p].kept[j].action
              /\ ph.kept[j].at = phones[p].kept[j].at
  BY <1>2, <1>3, SettledPhone
<1>5. phones'[p] = ph /\ \A o \in Phones : o # p => phones'[o] = phones[o]
  BY <1>4 DEF PhoneTypes, PhoneTypeOK
<1>6. \A j \in DOMAIN phones[p].kept : OnRecord(p, j) => OnRecord(p, j)'
  BY <1>1, <1>4, <1>5, RecordStays
<1>7. \A a \in 1 .. Len(sent) : sent[a] \in DOMAIN phones[p].kept /\ OnRecord(p, sent[a])'
  <2>1. \A a \in 1 .. Len(sent) : sent[a] \in DOMAIN phones[p].kept /\ OnRecord(p, sent[a])
    BY <1>1, <1>2, <1>3 DEF PhoneRecord
  <2>. QED  BY <1>6, <2>1
<1>8. /\ Len(Tail(verdicts)) = Len(Tail(sent))
      /\ \A a \in DOMAIN Tail(sent) : Tail(sent)[a] = sent[a + 1] /\ a + 1 \in 1 .. Len(sent)
      /\ i = sent[1] /\ 1 \in 1 .. Len(sent)
  <2>1. verdicts # <<>> /\ Len(sent) \in Nat /\ Len(sent) > 0
    BY <1>3
  <2>2. Len(Tail(verdicts)) = Len(Tail(sent))
    <3>1. Len(Tail(verdicts)) = Len(verdicts) - 1
      BY <1>3, <2>1
    <3>2. Len(Tail(sent)) = Len(sent) - 1
      BY <1>3
    <3>. QED  BY <1>3, <3>1, <3>2
  <2>3. ASSUME NEW a \in DOMAIN Tail(sent)
        PROVE  Tail(sent)[a] = sent[a + 1] /\ a + 1 \in 1 .. Len(sent)
    BY <1>3, <2>1
  <2>4. i = sent[1] /\ 1 \in 1 .. Len(sent)
    BY <1>3, <1>4, <2>1
  <2>. QED  BY <2>2, <2>3, <2>4
<1>9. ASSUME NEW j \in DOMAIN phones[p].kept, Told(p, j)' PROVE OnRecord(p, j)'
  <2>1. CASE j = i
    BY <1>7, <1>8, <2>1
  <2>2. CASE j # i
    <3>1. Told(p, j)
      BY <1>4, <1>5, <1>9, <2>2 DEF Told
    <3>. QED  BY <1>2, <1>6, <3>1 DEF PhoneRecord
  <2>. QED  BY <2>1, <2>2
<1>10. PhoneRecord(p)'
  <2>1. \A a \in DOMAIN Tail(sent) :
           Tail(sent)[a] \in DOMAIN phones[p].kept /\ OnRecord(p, Tail(sent)[a])'
    BY <1>7, <1>8
  <2>. QED  BY <1>4, <1>5, <1>8, <1>9, <2>1 DEF PhoneRecord
<1>11. /\ \A m \in network : m.heard => m.phone # p
       /\ txn.open /\ txn.heard => txn.phone # p
  BY <1>1, OnlyAskersAwait
<1>. QED  BY <1>1, <1>5, <1>10, <1>11, OnlyOne

\* A phone that sends awaits the one request it has just sent, with the punches as signed.
LEMMA StartSyncRecord ==
    ASSUME PhoneTypes, TxnTypes, RecordInv, NEW p \in Phones, StartSync(p)
    PROVE  RecordInv'
<1>1. QueueGrows /\ UNCHANGED txn /\ phones[p].sync.stage # "asked"
  BY SameQueueGrows DEF StartSync, syncVars, Idling
<1>2. PICK sent \in Chunks(p) :
        /\ phones' = [phones EXCEPT ![p].sync = [Idling EXCEPT !.stage = "asked", !.sent = sent]]
        /\ network' = network \cup
                {[phone |-> p, punches |-> [a \in DOMAIN sent |-> Signed(p, sent[a])],
                  heard |-> TRUE]}
  BY DEF StartSync
<1>3. /\ sent \in Seq(Nat \ {0}) /\ Len(sent) \in Nat /\ DOMAIN sent = 1 .. Len(sent)
      /\ \A a \in DOMAIN sent : sent[a] \in DOMAIN phones[p].kept
  BY ChunkType
<1>4. /\ phones'[p].kept = phones[p].kept /\ phones'[p].sync.stage = "asked"
      /\ phones'[p].sync.sent = sent
      /\ \A o \in Phones : o # p => phones'[o] = phones[o]
  BY <1>2 DEF PhoneTypes, PhoneTypeOK, Phone, Idling
<1>5. PICK punches : punches = [a \in DOMAIN sent |-> Signed(p, sent[a])]
  OBVIOUS
<1>6. /\ punches \in Seq(SignedPunch) /\ Len(punches) = Len(sent)
      /\ \A a \in DOMAIN punches : punches[a] = Signed(p, sent[a])
  <2>1. punches \in [1 .. Len(sent) -> SignedPunch]
    BY <1>3, <1>5, SignedType
  <2>. QED  BY <1>3, <1>5, <2>1, SegmentIsSeq
<1>7. PICK m : m = [phone |-> p, punches |-> punches, heard |-> TRUE]
  OBVIOUS
<1>8. network' = network \cup {m} /\ m.phone = p /\ m.punches = punches
  BY <1>2, <1>5, <1>7
<1>9. Awaits(p, punches, 0)'
  <2>1. Len(sent) = 0 + Len(punches)
    BY <1>3, <1>6
  <2>2. \A a \in DOMAIN punches : punches[a] = Signed(p, sent[0 + a])'
    <3>1. \A a \in DOMAIN punches : 0 + a = a
      BY <1>3, <1>5
    <3>. QED  BY <1>4, <1>6, <3>1 DEF Signed
  <2>. QED  BY <1>4, <2>1, <2>2 DEF Awaits
<1>10. /\ \A o \in network : o.heard => o.phone # p
       /\ txn.open /\ txn.heard => txn.phone # p
  BY <1>1, OnlyAskersAwait
<1>11. \A o \in Phones : o # p => Steady(o)
  BY <1>4, UntouchedIsSteady
<1>12. PhoneRecord(p)'
  <2>1. ASSUME NEW i \in DOMAIN phones[p].kept, Told(p, i)' PROVE OnRecord(p, i)'
    <3>1. OnRecord(p, i)
      BY <1>4, <2>1 DEF Told, RecordInv, PhoneRecord
    <3>. QED  BY <1>1, <1>4, <3>1, RecordStays
  <2>. QED  BY <1>3, <1>4, <2>1 DEF PhoneRecord
<1>13. \A o \in Phones : PhoneRecord(o)'
  BY <1>1, <1>11, <1>12, SteadyRecord DEF RecordInv
<1>14. MailRecord'
  <2>1. ASSUME NEW o \in network, o.heard PROVE Awaits(o.phone, o.punches, 0)'
    <3>1. o.phone \in Phones /\ o.punches \in Seq(SignedPunch)
      BY DEF PhoneTypes, PhoneTypeOK, Request
    <3>2. Awaits(o.phone, o.punches, 0) /\ PhoneRecord(o.phone) /\ Steady(o.phone)
      BY <1>10, <1>11, <2>1, <3>1 DEF RecordInv, MailRecord
    <3>. QED  BY <1>1, <3>1, <3>2, SteadyAwaits
  <2>2. \A o, other \in network' :
            o.heard /\ other.heard /\ o.phone = other.phone => o = other
    BY <1>8, <1>10 DEF RecordInv, MailRecord
  <2>3. \A o \in network' : o.heard => Awaits(o.phone, o.punches, 0)'
    BY <1>8, <1>9, <2>1
  <2>. QED  BY <2>2, <2>3 DEF MailRecord
<1>15. TxnRecord'
  <2>1. CASE txn.open
    <3>1. txn \in Txn
      BY <2>1 DEF TxnTypes, NoTxn
    <3>2. txn.heard => txn.phone \in Phones /\ Steady(txn.phone)
      BY <1>10, <1>11, <2>1, <3>1 DEF Txn, RecordInv, TxnRecord
    <3>3. txn.heard => Awaits(txn.phone, txn.left, Len(txn.verdicts))'
      <4>. SUFFICES ASSUME txn.heard
                    PROVE  Awaits(txn.phone, txn.left, Len(txn.verdicts))'
        OBVIOUS
      <4>1. PICK o \in Phones, left \in Seq(SignedPunch), n \in Nat :
                o = txn.phone /\ left = txn.left /\ n = Len(txn.verdicts)
        BY <3>1, <3>2 DEF Txn
      <4>2. Awaits(o, left, n) /\ Steady(o) /\ PhoneRecord(o)
        BY <2>1, <3>2, <4>1 DEF RecordInv, TxnRecord
      <4>3. Awaits(o, left, n)'
        BY <1>1, <4>2, SteadyAwaits
      <4>. QED  BY <1>1, <4>1, <4>3
    <3>4. txn.heard => \A o \in network' : o.heard => o.phone # txn.phone
      BY <1>8, <1>10, <2>1 DEF RecordInv, TxnRecord
    <3>. QED  BY <1>1, <2>1, <3>3, <3>4 DEF RecordInv, TxnRecord
  <2>2. CASE ~txn.open
    BY <1>1, <2>2 DEF TxnRecord
  <2>. QED  BY <2>1, <2>2
<1>. QED  BY <1>13, <1>14, <1>15 DEF RecordInv

-----------------------------------------------------------------------------
(* The record at the server                                                 *)

\* The request that is let in is the one its phone awaits.
LEMMA BeginSyncRecord ==
    ASSUME PhoneTypes, TxnTypes, RecordInv, NEW m \in network, BeginSync(m)
    PROVE  RecordInv'
<1>1. QueueGrows /\ UNCHANGED phones /\ network' = network \ {m}
  BY SameQueueGrows DEF BeginSync
<1>2. /\ txn' = [open |-> TRUE, worker |-> Owner[m.phone], left |-> m.punches,
                 phone |-> m.phone, heard |-> m.heard, verdicts |-> <<>>]
      /\ m.phone \in Phones /\ m.punches \in Seq(SignedPunch)
  BY DEF BeginSync, PhoneTypes, PhoneTypeOK, Request
<1>3. \A p \in Phones : Steady(p) /\ PhoneRecord(p)
  BY <1>1, UntouchedIsSteady DEF RecordInv
<1>4. \A p \in Phones : PhoneRecord(p)'
  BY <1>1, <1>3, SteadyRecord
<1>5. MailRecord'
  <2>1. \A o \in network' : o \in network /\ o.phone \in Phones
    BY <1>1 DEF PhoneTypes, PhoneTypeOK, Request
  <2>. QED  BY <1>1, <1>3, <2>1, MailStays
<1>6. m.heard => Awaits(m.phone, m.punches, 0)'
  <2>1. m.heard => Awaits(m.phone, m.punches, 0)
    BY DEF RecordInv, MailRecord
  <2>. QED  BY <1>1, <1>2, <1>3, <2>1, SteadyAwaits
<1>7. m.heard => \A o \in network' : o.heard => o.phone # m.phone
  BY <1>1 DEF RecordInv, MailRecord
<1>8. TxnRecord'
  <2>1. Len(txn'.verdicts) = 0 /\ m.phone # Null
    BY <1>2, PhonesAssumption
  <2>. QED  BY <1>2, <1>6, <1>7, <2>1 DEF TxnRecord
<1>. QED  BY <1>4, <1>5, <1>8 DEF RecordInv

\* A request that is refused: its phone is idle again, if it still listens.
LEMMA RefuseSyncRecord ==
    ASSUME PhoneTypes, TxnTypes, RecordInv, NEW m \in network, RefuseSync(m)
    PROVE  RecordInv'
<1>1. QueueGrows /\ network' = network \ {m} /\ UNCHANGED txn /\ ~txn.open
  BY SameQueueGrows DEF RefuseSync, syncVars, Free, NoTxn
<1>2. CASE m.heard
  <2>1. PICK p \in Phones : p = m.phone
    BY DEF PhoneTypes, PhoneTypeOK, Request
  <2>2. phones' = [phones EXCEPT ![p].sync = Idling]
    BY <1>2, <2>1 DEF RefuseSync
  <2>3. PhoneRecord(p)' /\ \A o \in Phones : o # p => phones'[o] = phones[o]
    BY <1>1, <2>2, IdleRecord
  <2>4. \A o \in network' : o.heard => o \in network /\ o.phone # p
    BY <1>1, <1>2, <2>1 DEF RecordInv, MailRecord
  <2>. QED  BY <1>1, <2>3, <2>4, OnlyOne
<1>3. CASE ~m.heard
  <2>1. UNCHANGED phones
    BY <1>3 DEF RefuseSync
  <2>. QED  BY <1>1, <2>1, UntouchedIsSteady, AllSteady
<1>. QED  BY <1>2, <1>3

\* The answer that reaches a phone names, punch by punch, what is on record.
LEMMA CommitSyncRecord ==
    ASSUME PhoneTypes, TxnTypes, RecordInv, CommitSync
    PROVE  RecordInv'
<1>1. QueueGrows /\ UNCHANGED network /\ ~txn'.open
  BY SameQueueGrows DEF CommitSync, NoTxn
<1>2. CASE txn.heard
  <2>1. PICK p \in Phones, n \in Nat : p = txn.phone /\ n = Len(txn.verdicts)
    BY <1>2, AnsweredPhone
  <2>2. PICK ph \in Phone :
          /\ phones' = [phones EXCEPT ![p] = ph]
          /\ ph.kept = phones[p].kept /\ ph.sync.stage = "settling"
          /\ ph.sync.verdicts = txn.verdicts /\ ph.sync.sent = phones[p].sync.sent
    BY <1>2, <2>1, AnsweredPhone
  <2>3. phones'[p] = ph /\ \A o \in Phones : o # p => phones'[o] = phones[o]
    BY <2>2 DEF PhoneTypes, PhoneTypeOK
  <2>4. Awaits(p, <<>>, n) /\ PhoneRecord(p)
    BY <1>2, <2>1 DEF CommitSync, Done, RecordInv, TxnRecord
  <2>5. PICK sent \in Seq(Nat \ {0}) : sent = phones[p].sync.sent
    BY PhoneType
  <2>6. Len(sent) = n /\ \A a \in DOMAIN sent : OnRecord(p, sent[a])
    <3>1. Len(sent) = n + Len(<<>>) /\ \A a \in 1 .. n : OnRecord(p, sent[a])
      BY <2>4, <2>5 DEF Awaits
    <3>2. Len(sent) = n /\ DOMAIN sent = 1 .. n
      BY <2>1, <2>5, <3>1
    <3>. QED  BY <3>1, <3>2
  <2>7. \A i : OnRecord(p, i) => OnRecord(p, i)'
    BY <1>1, <2>2, <2>3, RecordStays
  <2>8. PhoneRecord(p)'
    <3>1. \A a \in DOMAIN sent : sent[a] \in DOMAIN phones[p].kept /\ OnRecord(p, sent[a])'
      BY <2>4, <2>5, <2>6, <2>7 DEF PhoneRecord
    <3>2. \A i \in DOMAIN phones[p].kept : Told(p, i)' => OnRecord(p, i)'
      BY <2>2, <2>3, <2>4, <2>7 DEF PhoneRecord, Told
    <3>. QED  BY <2>1, <2>2, <2>3, <2>5, <2>6, <3>1, <3>2 DEF PhoneRecord
  <2>9. \A m \in network : m.heard => m.phone # p
    BY <1>2, <2>1 DEF CommitSync, Done, RecordInv, TxnRecord
  <2>. QED  BY <1>1, <2>3, <2>8, <2>9, OnlyOne
<1>3. CASE ~txn.heard
  <2>1. UNCHANGED phones
    BY <1>3 DEF CommitSync
  <2>. QED  BY <1>1, <2>1, UntouchedIsSteady, AllSteady
<1>. QED  BY <1>2, <1>3

\* The next punch of the batch is answered once it is on record: already, or now.
LEMMA NextIsAnswered ==
    ASSUME PhoneTypes, TxnTypes, RecordInv, QueueGrows, UNCHANGED <<phones, network>>,
           txn.open, txn.left # <<>>, NEW verdict \in SyncVerdicts, Answer(verdict),
           UNCHANGED now,
           \A p \in Phones : \A i \in DOMAIN phones[p].kept :
               Head(txn.left) = Signed(p, i) /\ txn.worker = Owner[p] => OnRecord(p, i)'
    PROVE  RecordInv'
<1>1. /\ txn'.open /\ txn'.worker = txn.worker /\ txn'.phone = txn.phone
      /\ txn'.heard = txn.heard
      /\ txn'.left = Tail(txn.left) /\ txn'.verdicts = Append(txn.verdicts, verdict)
      /\ txn \in Txn
  BY AnswerType DEF TxnTypes, NoTxn
<1>2. \A p \in Phones : Steady(p) /\ PhoneRecord(p)
  BY UntouchedIsSteady DEF RecordInv
<1>3. \A p \in Phones : PhoneRecord(p)'
  BY <1>2, SteadyRecord
<1>4. MailRecord'
  <2>1. \A o \in network' : o \in network /\ o.phone \in Phones
    BY DEF PhoneTypes, PhoneTypeOK, Request
  <2>. QED  BY <1>2, <2>1, MailStays
<1>5. Len(txn'.verdicts) = Len(txn.verdicts) + 1
  BY <1>1 DEF Txn
<1>6. ASSUME txn.heard PROVE Awaits(txn.phone, txn.left, Len(txn.verdicts))'
  <2>1. PICK p \in Phones, left \in Seq(SignedPunch), n \in Nat :
            p = txn.phone /\ left = txn.left /\ n = Len(txn.verdicts)
    BY <1>1, <1>6 DEF Txn, RecordInv, TxnRecord
  <2>2. Awaits(p, left, n) /\ PhoneRecord(p) /\ txn.worker = Owner[p]
    <3>1. txn.phone # Null
      BY <1>6 DEF RecordInv, TxnRecord
    <3>. QED  BY <1>2, <1>6, <2>1, <3>1 DEF RecordInv, TxnRecord
  <2>3. PICK sent \in Seq(Nat \ {0}) : sent = phones[p].sync.sent
    BY PhoneType
  <2>4. /\ phones[p].sync.stage = "asked" /\ Len(sent) = n + Len(left)
        /\ \A a \in 1 .. n : OnRecord(p, sent[a])
        /\ \A a \in 1 .. Len(left) : left[a] = Signed(p, sent[n + a])
    BY <2>2, <2>3 DEF Awaits
  <2>5. Len(left) \in Nat \ {0} /\ Len(Tail(left)) = Len(left) - 1 /\ Head(left) = left[1]
    BY <2>1
  <2>6. OnRecord(p, sent[n + 1])'
    <3>1. PICK i : i = sent[n + 1]
      OBVIOUS
    <3>2. n + 1 \in 1 .. Len(sent) /\ 1 \in 1 .. Len(left)
      BY <2>4, <2>5
    <3>3. i \in DOMAIN phones[p].kept
      BY <2>2, <2>3, <3>1, <3>2 DEF PhoneRecord
    <3>4. Head(left) = Signed(p, i)
      BY <2>4, <2>5, <3>1, <3>2
    <3>. QED  BY <2>1, <2>2, <3>1, <3>3, <3>4
  <2>7. \A a \in 1 .. n + 1 : OnRecord(p, sent[a])'
    <3>1. \A i : OnRecord(p, i) => OnRecord(p, i)'
      BY RecordStays
    <3>2. \A a \in 1 .. n : OnRecord(p, sent[a])'
      BY <2>4, <3>1
    <3>3. \A a \in 1 .. n + 1 : a \in 1 .. n \/ a = n + 1
      OBVIOUS
    <3>. QED  BY <2>6, <3>2, <3>3
  <2>8. \A a \in DOMAIN Tail(left) : Tail(left)[a] = Signed(p, sent[(n + 1) + a])
    <3>. SUFFICES ASSUME NEW a \in DOMAIN Tail(left)
                  PROVE  Tail(left)[a] = Signed(p, sent[(n + 1) + a])
      OBVIOUS
    <3>1. Tail(left)[a] = left[a + 1] /\ a + 1 \in 1 .. Len(left) /\ a \in Nat
      BY <2>1, <2>5
    <3>2. left[a + 1] = Signed(p, sent[n + (a + 1)])
      BY <2>4, <3>1
    <3>3. n + (a + 1) = (n + 1) + a
      BY <3>1
    <3>. QED  BY <3>1, <3>2, <3>3
  <2>9. Len(sent) = (n + 1) + Len(Tail(left))
    BY <2>4, <2>5
  <2>10. \A a \in DOMAIN Tail(left) : Tail(left)[a] = Signed(p, sent[(n + 1) + a])'
    BY <2>8 DEF Signed
  <2>11. Awaits(p, Tail(left), n + 1)'
    BY <2>3, <2>4, <2>7, <2>9, <2>10 DEF Awaits
  <2>12. txn'.phone = p /\ txn'.left = Tail(left) /\ Len(txn'.verdicts) = n + 1
    BY <1>1, <1>5, <2>1
  <2>. QED  BY <2>11, <2>12
<1>7. txn.phone # Null
  BY DEF RecordInv, TxnRecord
<1>8. txn.heard => \A m \in network' : m.heard => m.phone # txn.phone
  BY DEF RecordInv, TxnRecord
<1>9. txn.worker = Owner[txn.phone]
  BY <1>7 DEF RecordInv, TxnRecord
<1>10. TxnRecord'
  BY <1>1, <1>6, <1>7, <1>8, <1>9 DEF TxnRecord
<1>. QED  BY <1>3, <1>4, <1>10 DEF RecordInv

\* A punch that is skipped is there already, itself or the tap it repeats.
LEMMA SkipPunchRecord ==
    ASSUME PhoneTypes, TxnTypes, QueueTypes, RecordInv, SkipPunch, UNCHANGED phoneVars
    PROVE  RecordInv'
<1>1. QueueGrows /\ UNCHANGED <<phones, network, now>>
  BY SameQueueGrows DEF SkipPunch, phoneVars, dbVars
<1>2. txn.open /\ txn.left # <<>> /\ Answer("duplicate") /\ "duplicate" \in SyncVerdicts
  BY DEF SkipPunch, SyncVerdicts
<1>3. ASSUME NEW p \in Phones, NEW i \in DOMAIN phones[p].kept,
             Head(txn.left) = Signed(p, i), txn.worker = Owner[p]
      PROVE  OnRecord(p, i)'
  <2>1. Known(Signed(p, i)) \/ DoubleTap(Owner[p], Signed(p, i))
    BY <1>3 DEF SkipPunch, Duplicate
  <2>2. /\ Signed(p, i).id = <<p, i>> /\ Signed(p, i).action = phones[p].kept[i].action
        /\ Signed(p, i).at = phones[p].kept[i].at /\ Signed(p, i).at \in Nat
    BY SignedType DEF SignedPunch, Moments
  <2>3. OnRecord(p, i)
    <3>1. CASE Known(Signed(p, i))
      BY <2>2, <3>1 DEF Known, OnRecord
    <3>2. CASE DoubleTap(Owner[p], Signed(p, i))
      <4>1. PICK k \in DOMAIN queue :
              /\ queue[k].worker = Owner[p] /\ queue[k].action = Signed(p, i).action
              /\ queue[k].at <= Signed(p, i).at + Window
              /\ Signed(p, i).at <= queue[k].at + Window
        BY <3>2 DEF DoubleTap
      <4>2. queue[k].at \in Nat
        BY QueueRowType
      <4>3. queue[k].at - Window <= Signed(p, i).at
        BY <2>2, <4>1, <4>2, PhonesAssumption
      <4>. QED  BY <2>2, <4>1, <4>3 DEF OnRecord
    <3>. QED  BY <2>1, <3>1, <3>2
  <2>. QED  BY <1>1, <2>3, RecordStays
<1>. QED  BY <1>1, <1>2, <1>3, NextIsAnswered

\* A punch that is stored is there from now on.
LEMMA StorePunchRecord ==
    ASSUME PhoneTypes, TxnTypes, QueueTypes, RecordInv, StorePunch, UNCHANGED phoneVars
    PROVE  RecordInv'
<1>1. PICK row : row = Stored(txn.worker, Head(txn.left))
  OBVIOUS
<1>2. /\ queue' = Append(queue, row) /\ Answer(row.status)
      /\ row.id = Head(txn.left).id /\ row.status \in SyncVerdicts
  BY <1>1 DEF StorePunch, Stored, SyncVerdicts, Filed
<1>3. QueueGrows /\ Len(queue) + 1 \in DOMAIN queue' /\ queue'[Len(queue) + 1] = row
  BY <1>2 DEF QueueTypes, QueueGrows
<1>4. UNCHANGED <<phones, network, now>> /\ txn.open /\ txn.left # <<>>
  BY DEF StorePunch, phoneVars, dbVars
<1>5. ASSUME NEW p \in Phones, NEW i \in DOMAIN phones[p].kept,
             Head(txn.left) = Signed(p, i), txn.worker = Owner[p]
      PROVE  OnRecord(p, i)'
  <2>1. row.id = <<p, i>>
    BY <1>2, <1>5, SignedType
  <2>. QED  BY <1>3, <2>1 DEF OnRecord
<1>. QED  BY <1>2, <1>3, <1>4, <1>5, NextIsAnswered

-----------------------------------------------------------------------------
(* Every step keeps the types                                               *)

\* What a step leaves alone stays typed while the clock runs.
LEMMA TypesStay ==
    ASSUME Types, now' \in Nat, now <= now'
    PROVE  /\ UNCHANGED <<revoked, queue>> => QueueTypes'
           /\ UNCHANGED txn => TxnTypes'
           /\ UNCHANGED <<phoneVars, tapped>> => PhoneTypes'
           /\ UNCHANGED <<values, live, deleted, sessions, logs, decisions, requests>> => TableTypes'
<1>1. now \in Nat
  BY DEF Types, TableTypes
<1>2. \A x \in Nat : x <= now => x <= now'
  BY <1>1
<1>3. UNCHANGED <<revoked, queue>> => QueueTypes'
  <2>1. \A k \in DOMAIN queue : queue[k].at \in Nat /\ queue[k].at <= now
    BY QueueRowType DEF Types
  <2>. QED  BY <1>2, <2>1 DEF Types, QueueTypes
<1>4. UNCHANGED txn => TxnTypes'
  <2>1. txn.open => \A a \in DOMAIN txn.left : txn.left[a].at \in Nat /\ txn.left[a].at <= now
    <3>. SUFFICES ASSUME txn.open, NEW a \in DOMAIN txn.left
                  PROVE  txn.left[a].at \in Nat /\ txn.left[a].at <= now
      OBVIOUS
    <3>1. txn \in Txn
      BY DEF Types, TxnTypes, NoTxn
    <3>2. txn.left[a] \in SignedPunch
      BY <3>1 DEF Txn
    <3>. QED  BY <3>2 DEF Types, TxnTypes, SignedPunch, Moments
  <2>. QED  BY <1>2, <2>1 DEF Types, TxnTypes
<1>5. UNCHANGED <<phoneVars, tapped>> => PhoneTypes'
  <2>1. \A p \in Phones : \A i \in DOMAIN phones[p].kept :
            phones[p].kept[i].at \in Nat /\ phones[p].kept[i].at <= now
    <3>. SUFFICES ASSUME NEW p \in Phones, NEW i \in DOMAIN phones[p].kept
                  PROVE  phones[p].kept[i].at \in Nat /\ phones[p].kept[i].at <= now
      OBVIOUS
    <3>. QED  BY SignedType DEF Types, SignedPunch, Moments
  <2>2. \A m \in network : \A a \in DOMAIN m.punches :
            m.punches[a].at \in Nat /\ m.punches[a].at <= now
    <3>. SUFFICES ASSUME NEW m \in network, NEW a \in DOMAIN m.punches
                  PROVE  m.punches[a].at \in Nat /\ m.punches[a].at <= now
      OBVIOUS
    <3>1. m.punches \in Seq(SignedPunch)
      BY DEF Types, PhoneTypes, PhoneTypeOK, Request
    <3>2. m.punches[a] \in SignedPunch
      BY <3>1
    <3>. QED  BY <3>2 DEF Types, PhoneTypes, SignedPunch, Moments
  <2>. QED  BY <1>2, <2>1, <2>2 DEF Types, PhoneTypes, PhoneTypeOK, phoneVars
<1>6. UNCHANGED <<values, live, deleted, sessions, logs, decisions, requests>> => TableTypes'
  <2>1. \A w \in Workers : OnShift(w) => sessions[w].clockIn \in Nat /\ sessions[w].clockIn <= now
    BY OpenSession DEF Types, TableTypes
  <2>. QED  BY <1>2, <2>1 DEF Types, TableTypes, PunchTypeOK, OnShift
<1>. QED  BY <1>3, <1>4, <1>5, <1>6

\* A step after which it is not later.
LEMMA SameMoment ==
    ASSUME Types, UNCHANGED now
    PROVE  now' \in Nat /\ now <= now'
BY DEF Types, TableTypes

\* What a phone waits for while it is online.
LEMMA TappedType ==
    ASSUME Types, NEW p \in Phones, NEW tap \in Tap \cup {NoTap},
           tapped' = [tapped EXCEPT ![p] = tap]
    PROVE  tapped' \in [Phones -> Tap \cup {NoTap}]
BY DEF Types, PhoneTypes

\* A tap, online or not, and its answer.
LEMMA TappingType ==
    ASSUME Types, NEW p \in Phones, Tapping(p)
    PROVE  Types'
<1>1. CASE \E action \in Taps \ {"Transit Checkpoint"}, fix \in Sites, r \in Requests :
              TapOnline(p, r, action, fix)
  <2>1. PICK action \in Taps \ {"Transit Checkpoint"}, fix \in Sites, r \in Requests :
            TapOnline(p, r, action, fix)
    BY <1>1
  <2>2. action \in PunchActions /\ fix \in Fixes /\ Owner[p] \in Workers
    BY PunchAssumption, PhonesAssumption DEF Actions, PunchActions, Fixes
  <2>3. TableTypes' /\ UNCHANGED dbVars
    BY <2>1, <2>2, GateType DEF TapOnline, Gate, Types
  <2>4. tapped' \in [Phones -> Tap \cup {NoTap}]
    <3>1. [request |-> r, action |-> action, fix |-> fix] \in Tap
      BY <2>2 DEF Tap
    <3>. QED  BY <2>1, <3>1, TappedType DEF TapOnline
  <2>5. UNCHANGED <<revoked, queue, txn, phones, network, patchy, now>>
    BY <2>1, <2>3 DEF TapOnline, syncVars, phoneVars, dbVars
  <2>6. PhoneTypes'
    BY <2>4, <2>5 DEF Types, PhoneTypes, PhoneTypeOK
  <2>. QED  BY <2>3, <2>5, <2>6, SameMoment, TypesStay DEF Types
<1>2. CASE \E action \in PunchActions, fix \in Spots, tampered \in Wavering :
              TapOffline(p, action, fix, tampered)
  <2>1. PICK action \in PunchActions, fix \in Spots, tampered \in Wavering :
            TapOffline(p, action, fix, tampered)
    BY <1>2
  <2>2. fix \in Fixes /\ tampered \in BOOLEAN
    BY FieldAssumption, PhoneAssumption
  <2>3. /\ Enqueue(p, action, fix, tampered)
        /\ UNCHANGED <<dbVars, requests, revoked, queue, txn, now, tapped>>
    BY <2>1 DEF TapOffline, syncVars, dbVars
  <2>4. PhoneTypes'
    BY <2>2, <2>3, EnqueueType DEF Types, TableTypes, PhoneTypes
  <2>. QED  BY <2>3, <2>4, SameMoment, TypesStay DEF Types, dbVars
<1>3. CASE HearAnswer(p)
  <2>1. /\ UNCHANGED <<dbVars, requests, syncVars, phoneVars>>
        /\ tapped' \in [Phones -> Tap \cup {NoTap}]
    BY <1>3, TappedType DEF HearAnswer
  <2>2. UNCHANGED <<requests, revoked, queue, txn, phones, network, patchy, now, values, live,
                    deleted, sessions, logs, decisions>>
    BY <2>1 DEF dbVars, syncVars, phoneVars
  <2>3. PhoneTypes'
    BY <2>1, <2>2 DEF Types, PhoneTypes, PhoneTypeOK
  <2>. QED  BY <2>2, <2>3, SameMoment, TypesStay DEF Types
<1>4. CASE FallBack(p)
  <2>1. tapped[p] \in Tap
    BY <1>4 DEF FallBack, Types, PhoneTypes
  <2>2. PICK action \in PunchActions, fix \in Fixes :
            action = tapped[p].action /\ fix = tapped[p].fix
    BY <2>1 DEF Tap
  <2>3. /\ Enqueue(p, action, fix, FALSE)
        /\ UNCHANGED <<dbVars, requests, revoked, queue, txn, now>>
        /\ tapped' \in [Phones -> Tap \cup {NoTap}]
    BY <1>4, <2>2, TappedType DEF FallBack, syncVars, dbVars
  <2>4. PhoneTypes'
    BY <2>3, EnqueueType DEF Types, TableTypes
  <2>. QED  BY <2>3, <2>4, SameMoment, TypesStay DEF Types, dbVars
<1>. QED  BY <1>1, <1>2, <1>3, <1>4 DEF Tapping

\* A step of a phone's sync.
LEMMA PhoneStepType ==
    ASSUME Types, RecordInv, NEW p \in Phones, PhoneStep(p), UNCHANGED <<requests, tapped>>
    PROVE  Types'
<1>1. UNCHANGED <<dbVars, revoked, queue>>
  BY DEF PhoneStep, StartSync, GiveUp, SettlePunch, FinishSync, syncVars
<1>2. TableTypes' /\ QueueTypes'
  <2>1. UNCHANGED <<now, values, live, deleted, sessions, logs, decisions>>
    BY <1>1 DEF dbVars
  <2>. QED  BY <1>1, <2>1, SameMoment, TypesStay
<1>3. PhoneTypes' /\ TxnTypes'
  <2>1. CASE StartSync(p)
    BY <1>1, <2>1, StartSyncType, SameMoment, TypesStay DEF Types, StartSync, syncVars, dbVars
  <2>2. CASE GiveUp(p)
    BY <2>2, GiveUpType DEF Types
  <2>3. CASE SettlePunch(p)
    BY <1>1, <2>3, SettlePunchType, SameMoment, TypesStay
    DEF Types, SettlePunch, syncVars, dbVars, RecordInv
  <2>4. CASE FinishSync(p)
    <3>1. /\ UNCHANGED <<now, txn, network, patchy>>
          /\ phones' = [phones EXCEPT ![p].sync = Idling]
      BY <1>1, <2>4 DEF FinishSync, syncVars, dbVars
    <3>. QED  BY <3>1, IdleAgainType, SameMoment, TypesStay DEF Types, PhoneTypes, PhoneTypeOK
  <2>. QED  BY <2>1, <2>2, <2>3, <2>4 DEF PhoneStep
<1>. QED  BY <1>2, <1>3 DEF Types

\* A step at the server's end of the sync, or at the desk.
LEMMA ServerStepType ==
    ASSUME Types, UNCHANGED <<requests, tapped>>,
           ServeSync \/ ((TxnStep \/ DeskStep) /\ UNCHANGED phoneVars)
    PROVE  Types'
<1>1. CASE ServeSync
  <2>1. UNCHANGED <<dbVars, revoked, queue>>
    BY <1>1 DEF ServeSync, BeginSync, RefuseSync, CommitSync, syncVars
  <2>2. TableTypes' /\ QueueTypes'
    <3>1. UNCHANGED <<now, values, live, deleted, sessions, logs, decisions>>
      BY <2>1 DEF dbVars
    <3>. QED  BY <2>1, <3>1, SameMoment, TypesStay
  <2>3. PhoneTypes' /\ TxnTypes'
    <3>1. CASE CommitSync
      <4>1. txn' = NoTxn
        BY <3>1 DEF CommitSync
      <4>2. TxnTypes'
        BY <4>1 DEF TxnTypes, NoTxn
      <4>. QED  BY <3>1, <4>2, CommitSyncType DEF Types
    <3>2. CASE \E m \in network : BeginSync(m) \/ RefuseSync(m)
      BY <3>2, ServeType DEF Types
    <3>. QED  BY <1>1, <3>1, <3>2 DEF ServeSync
  <2>. QED  BY <2>2, <2>3 DEF Types
<1>2. CASE (SkipPunch \/ StorePunch) /\ UNCHANGED phoneVars
  <2>1. UNCHANGED <<dbVars, revoked>> /\ txn.open /\ txn.left # <<>>
    BY <1>2 DEF SkipPunch, StorePunch
  <2>2. UNCHANGED <<now, values, live, deleted, sessions, logs, decisions>>
    BY <2>1 DEF dbVars
  <2>3. PICK verdict \in SyncVerdicts : Answer(verdict)
    BY <1>2 DEF SkipPunch, StorePunch, Stored, SyncVerdicts, Filed
  <2>4. TxnTypes'
    BY <2>1, <2>2, <2>3, AnswerType DEF Types
  <2>5. QueueTypes'
    <3>1. CASE SkipPunch
      BY <2>2, <3>1, SameMoment, TypesStay DEF SkipPunch
    <3>2. CASE StorePunch
      BY <3>2, StoreType DEF Types, TableTypes
    <3>. QED  BY <1>2, <3>1, <3>2
  <2>. QED  BY <1>2, <2>2, <2>4, <2>5, SameMoment, TypesStay DEF Types
<1>3. CASE Materialise /\ UNCHANGED phoneVars
  <2>1. PICK k \in DOMAIN queue : MaterialiseIn(k) \/ MaterialiseOut(k) \/ RefuseMaterial(k)
    BY <1>3 DEF Materialise
  <2>2. UNCHANGED <<now, txn>>
    BY <2>1 DEF MaterialiseIn, MaterialiseOut, RefuseMaterial, dbVars
  <2>3. TableTypes' /\ QueueTypes'
    <3>1. CASE MaterialiseIn(k) \/ MaterialiseOut(k)
      BY <3>1, MaterialiseInType, MaterialiseOutType DEF Types
    <3>2. CASE RefuseMaterial(k)
      BY <2>2, <3>2, MarkedType, SameMoment, TypesStay DEF Types, RefuseMaterial, dbVars
    <3>. QED  BY <2>1, <3>1, <3>2
  <2>. QED  BY <1>3, <2>2, <2>3, SameMoment, TypesStay DEF Types
<1>4. CASE DeskStep /\ UNCHANGED phoneVars
  <2>1. UNCHANGED dbVars
    BY <1>4 DEF DeskStep, RejectPunch, ApprovePunch, CommitApproval
  <2>2. UNCHANGED <<now, values, live, deleted, sessions, logs, decisions>>
    BY <2>1 DEF dbVars
  <2>3. QueueTypes' /\ TxnTypes'
    <3>1. CASE CommitApproval
      <4>1. txn' = NoTxn /\ UNCHANGED <<revoked, queue>>
        BY <3>1 DEF CommitApproval
      <4>2. TxnTypes'
        BY <4>1 DEF TxnTypes, NoTxn
      <4>. QED  BY <2>2, <4>1, <4>2, SameMoment, TypesStay
    <3>2. CASE \E k \in DOMAIN queue : RejectPunch(k)
      BY <2>2, <3>2, MarkedType, SameMoment, TypesStay DEF Types, RejectPunch
    <3>3. CASE \E k \in DOMAIN queue : ApprovePunch(k)
      <4>1. PICK k \in DOMAIN queue : ApprovePunch(k)
        BY <3>3
      <4>2. QueueTypes' /\ queue[k].worker \in Workers
        BY <4>1, MarkedType, QueueRowType DEF Types
      <4>3. txn' \in Txn
        <5>1. <<>> \in Seq(SignedPunch) /\ <<>> \in Seq(SyncVerdicts)
          OBVIOUS
        <5>. QED  BY <4>1, <4>2, <5>1 DEF ApprovePunch, Txn
      <4>4. txn'.left = <<>>
        BY <4>1 DEF ApprovePunch
      <4>. QED  BY <4>2, <4>3, <4>4 DEF TxnTypes
    <3>. QED  BY <1>4, <3>1, <3>2, <3>3 DEF DeskStep
  <2>. QED  BY <1>4, <2>2, <2>3, SameMoment, TypesStay DEF Types
<1>. QED  BY <1>1, <1>2, <1>3, <1>4 DEF TxnStep

\* Every step keeps the types.
LEMMA StepKeepsTypes ==
    ASSUME Types, RecordInv, [Next]_fieldVars
    PROVE  Types'
<1>1. ASSUME NEW p \in Phones, RevokeDevice(p) /\ UNCHANGED <<requests, phoneVars, tapped>>
      PROVE  Types'
  <2>1. UNCHANGED <<now, values, live, deleted, sessions, logs, decisions, queue, txn>>
    BY <1>1 DEF RevokeDevice, dbVars
  <2>2. QueueTypes'
    BY <1>1, <2>1 DEF RevokeDevice, Types, QueueTypes
  <2>. QED  BY <1>1, <2>1, <2>2, SameMoment, TypesStay DEF Types
<1>2. ASSUME SignalReturns /\ UNCHANGED <<requests, tapped>> PROVE Types'
  <2>1. UNCHANGED <<now, values, live, deleted, sessions, logs, decisions, revoked, queue, txn,
                    phones, network>> /\ patchy' \in BOOLEAN
    BY <1>2 DEF SignalReturns, syncVars, dbVars
  <2>2. PhoneTypes'
    BY <1>2, <2>1 DEF Types, PhoneTypes, PhoneTypeOK
  <2>. QED  BY <1>2, <2>1, <2>2, SameMoment, TypesStay DEF Types
<1>3. ASSUME NEW r \in Requests, Settle(r) /\ UNCHANGED offline PROVE Types'
  <2>1. UNCHANGED <<now, revoked, queue, txn, phoneVars, tapped>>
    BY <1>3 DEF offline, syncVars, Settle, JudgeFrame, RefuseFrame, Depart, PunchIn, RefuseIn, PunchOut,
                RefuseOut, Arrive, RefuseArrival, dbVars
  <2>2. TableTypes'
    BY <1>3, SettleType DEF Types
  <2>. QED  BY <2>1, <2>2, SameMoment, TypesStay DEF Types
<1>4. ASSUME Tick /\ UNCHANGED <<requests, offline>> PROVE Types'
  <2>1. now' \in Nat /\ now <= now'
    BY <1>4 DEF Tick, Types, TableTypes
  <2>2. UNCHANGED <<values, live, deleted, sessions, logs, decisions, requests, revoked, queue,
                    txn, phoneVars, tapped>>
    BY <1>4 DEF Tick, offline, syncVars
  <2>. QED  BY <2>1, <2>2, TypesStay DEF Types
<1>5. ASSUME UNCHANGED fieldVars PROVE Types'
  <2>1. UNCHANGED <<now, values, live, deleted, sessions, logs, decisions, requests, revoked,
                    queue, txn, phoneVars, tapped>>
    BY <1>5 DEF fieldVars, dbVars, syncVars
  <2>. QED  BY <2>1, SameMoment, TypesStay DEF Types
<1>6. ASSUME NEW p \in Phones,
             Tapping(p) \/ (PhoneStep(p) /\ UNCHANGED <<requests, tapped>>)
      PROVE  Types'
  BY <1>6, TappingType, PhoneStepType
<1>7. ASSUME \/ ServeSync /\ UNCHANGED <<requests, tapped>>
             \/ (TxnStep \/ DeskStep) /\ UNCHANGED <<requests, phoneVars, tapped>>
      PROVE  Types'
  BY <1>7, ServerStepType
<1>8. CASE Next
  <2>1. CASE \E p \in Phones :
                \/ Tapping(p)
                \/ PhoneStep(p) /\ UNCHANGED <<requests, tapped>>
                \/ p \in Revocable /\ RevokeDevice(p) /\ UNCHANGED <<requests, phoneVars, tapped>>
    <3>1. PICK p \in Phones :
            \/ Tapping(p)
            \/ PhoneStep(p) /\ UNCHANGED <<requests, tapped>>
            \/ p \in Revocable /\ RevokeDevice(p) /\ UNCHANGED <<requests, phoneVars, tapped>>
      BY <2>1
    <3>2. CASE Tapping(p)
      BY <1>6, <3>2
    <3>3. CASE PhoneStep(p) /\ UNCHANGED <<requests, tapped>>
      BY <1>6, <3>3
    <3>4. CASE RevokeDevice(p) /\ UNCHANGED <<requests, phoneVars, tapped>>
      BY <1>1, <3>4
    <3>. QED  BY <3>1, <3>2, <3>3, <3>4
  <2>2. CASE SignalReturns /\ UNCHANGED <<requests, tapped>>
    BY <1>2, <2>2
  <2>3. CASE (\E r \in Requests : Settle(r)) /\ UNCHANGED offline
    BY <1>3, <2>3
  <2>4. CASE Tick /\ UNCHANGED <<requests, offline>>
    BY <1>4, <2>4
  <2>5. CASE ServeSync /\ UNCHANGED <<requests, tapped>>
    BY <1>7, <2>5
  <2>6. CASE (TxnStep \/ DeskStep) /\ UNCHANGED <<requests, phoneVars, tapped>>
    BY <1>7, <2>6
  <2>. QED  BY <1>8, <2>1, <2>2, <2>3, <2>4, <2>5, <2>6 DEF Next
<1>. QED  BY <1>5, <1>8

\* The system starts typed, with nothing kept, sent or waiting.
LEMMA InitTypes ==
    ASSUME Init
    PROVE  Types
<1>1. TableTypes
  <2>1. /\ now \in Nat /\ values \in ShiftRules /\ live \subseteq Sites /\ deleted \subseteq Sites
        /\ sessions \in [Workers -> Session \cup OfflineSession \cup {NoSession}]
        /\ DOMAIN decisions = {} /\ PunchTypeOK
    BY RulesAssumption DEF Init, DBInit, PunchInit, PunchTypeOK
  <2>2. \A w \in Workers : ~OnShift(w)
    BY DEF Init, DBInit, OnShift, NoSession
  <2>3. logs \in Seq(FieldRow)
    BY DEF Init, DBInit
  <2>. QED  BY <2>1, <2>2, <2>3 DEF TableTypes
<1>2. TxnTypes /\ QueueTypes
  BY DEF Init, SyncInit, TxnTypes, QueueTypes, NoTxn
<1>3. PhoneTypes
  <2>1. PICK ph : ph = [kept |-> <<>>, sync |-> Idling]
    OBVIOUS
  <2>2. ph \in Phone /\ ph.kept = <<>>
    <3>1. <<>> \in Seq(SyncVerdicts) /\ <<>> \in Seq(Nat \ {0}) /\ <<>> \in Seq(Kept)
      OBVIOUS
    <3>. QED  BY <2>1, <3>1 DEF Phone, Idling, Sync
  <2>3. phones = [p \in Phones |-> ph] /\ network = {} /\ patchy \in BOOLEAN
    BY <2>1 DEF Init, PhoneInit
  <2>4. tapped \in [Phones -> Tap \cup {NoTap}]
    BY DEF Init
  <2>. QED  BY <2>2, <2>3, <2>4 DEF PhoneTypes, PhoneTypeOK
<1>. QED  BY <1>1, <1>2, <1>3 DEF Types

-----------------------------------------------------------------------------
(* Every step keeps the record                                              *)

\* A row that is marked, or that has become a row of the ledger, is the same punch.
LEMMA MarkedQueueGrows ==
    ASSUME QueueTypes, NEW k \in DOMAIN queue,
           \/ MaterialiseIn(k) \/ MaterialiseOut(k) \/ RefuseMaterial(k)
           \/ RejectPunch(k) \/ ApprovePunch(k)
    PROVE  QueueGrows /\ DOMAIN queue' = DOMAIN queue
<1>1. \A j \in DOMAIN queue : queue[j] \in QueueRow
  BY QueueRowType
<1>2. CASE MaterialiseIn(k) \/ MaterialiseOut(k)
  <2>1. queue' = [queue EXCEPT ![k].log = Len(logs) + 1]
    BY <1>2 DEF MaterialiseIn, MaterialiseOut, Links
  <2>. QED  BY <1>1, <2>1 DEF QueueGrows, QueueRow
<1>3. CASE RefuseMaterial(k) \/ RejectPunch(k) \/ ApprovePunch(k)
  <2>1. PICK status, code : queue' = [queue EXCEPT ![k].status = status, ![k].code = code]
    BY <1>3 DEF RefuseMaterial, RejectPunch, ApprovePunch
  <2>. QED  BY <1>1, <2>1 DEF QueueGrows, QueueRow
<1>. QED  BY <1>2, <1>3

\* A step that moves no phone, no message and no transaction: what is on record stays.
LEMMA Elsewhere ==
    ASSUME Types, RecordInv, QueueGrows, UNCHANGED phones, UNCHANGED network,
           txn' = txn \/ ~txn'.open
    PROVE  RecordInv'
BY UntouchedIsSteady, AllSteady DEF Types

\* A step of the transaction under way, or of the desk.
LEMMA TxnStepRecord ==
    ASSUME Types, RecordInv, UNCHANGED phoneVars, TxnStep \/ DeskStep
    PROVE  RecordInv'
<1>1. UNCHANGED phones /\ UNCHANGED network
  BY DEF phoneVars
<1>2. CASE SkipPunch \/ StorePunch
  BY <1>2, SkipPunchRecord, StorePunchRecord DEF Types
<1>3. CASE Materialise
  <2>1. PICK k \in DOMAIN queue : MaterialiseIn(k) \/ MaterialiseOut(k) \/ RefuseMaterial(k)
    BY <1>3 DEF Materialise
  <2>2. QueueGrows /\ UNCHANGED txn
    BY <2>1, MarkedQueueGrows DEF Types, MaterialiseIn, MaterialiseOut, RefuseMaterial
  <2>. QED  BY <1>1, <2>2, Elsewhere
<1>4. CASE CommitApproval
  <2>1. QueueGrows /\ ~txn'.open
    BY <1>4, SameQueueGrows DEF CommitApproval, NoTxn
  <2>. QED  BY <1>1, <2>1, Elsewhere
<1>5. ASSUME NEW k \in DOMAIN queue, RejectPunch(k) PROVE RecordInv'
  <2>1. QueueGrows /\ UNCHANGED txn
    BY <1>5, MarkedQueueGrows DEF Types, RejectPunch
  <2>. QED  BY <1>1, <2>1, Elsewhere
<1>6. ASSUME NEW k \in DOMAIN queue, ApprovePunch(k) PROVE RecordInv'
  <2>1. QueueGrows
    BY <1>6, MarkedQueueGrows DEF Types
  <2>2. \A p \in Phones : Steady(p) /\ PhoneRecord(p)
    BY <1>1, UntouchedIsSteady DEF RecordInv
  <2>3. \A p \in Phones : PhoneRecord(p)'
    BY <2>1, <2>2, SteadyRecord DEF Types
  <2>4. MailRecord'
    <3>1. \A m \in network' : m \in network /\ m.phone \in Phones
      BY <1>1 DEF Types, PhoneTypes, PhoneTypeOK, Request
    <3>. QED  BY <2>1, <2>2, <3>1, MailStays DEF Types
  <2>5. TxnRecord'
    <3>1. txn'.phone = Null /\ txn'.heard = FALSE /\ txn'.left = <<>>
      BY <1>6 DEF ApprovePunch
    <3>. QED  BY <3>1 DEF TxnRecord
  <2>. QED  BY <2>3, <2>4, <2>5 DEF RecordInv
<1>. QED  BY <1>2, <1>3, <1>4, <1>5, <1>6 DEF TxnStep, DeskStep

\* A tap changes no more of a phone than what it keeps.
LEMMA TappingRecord ==
    ASSUME Types, RecordInv, NEW p \in Phones, Tapping(p)
    PROVE  RecordInv'
<1>1. UNCHANGED syncVars /\ UNCHANGED network
  BY DEF Tapping, TapOnline, TapOffline, HearAnswer, FallBack, Enqueue, phoneVars
<1>2. QueueGrows /\ UNCHANGED txn
  BY <1>1, SameQueueGrows DEF syncVars
<1>3. \A o \in Phones : Steady(o)
  <2>1. CASE UNCHANGED phones
    BY <2>1, UntouchedIsSteady
  <2>2. ASSUME NEW action \in PunchActions, NEW fix \in Spots, NEW tampered \in Wavering,
               TapOffline(p, action, fix, tampered)
        PROVE  \A o \in Phones : Steady(o)
    <3>1. fix \in Fixes /\ tampered \in BOOLEAN
      BY FieldAssumption, PhoneAssumption
    <3>2. Enqueue(p, action, fix, tampered) /\ UNCHANGED now
          /\ tapped' \in [Phones -> Tap \cup {NoTap}]
      BY <2>2 DEF TapOffline, dbVars, Types, PhoneTypes
    <3>. QED  BY <3>1, <3>2, EnqueueSteady DEF Types, TableTypes
  <2>3. CASE FallBack(p)
    <3>1. tapped[p] \in Tap
      BY <2>3 DEF FallBack, Types, PhoneTypes
    <3>2. PICK action \in PunchActions, fix \in Fixes :
              action = tapped[p].action /\ fix = tapped[p].fix
      BY <3>1 DEF Tap
    <3>3. /\ Enqueue(p, action, fix, FALSE) /\ UNCHANGED now
          /\ tapped' \in [Phones -> Tap \cup {NoTap}]
      BY <2>3, <3>2, TappedType DEF FallBack, dbVars
    <3>. QED  BY <3>3, EnqueueSteady DEF Types, TableTypes
  <2>4. ASSUME NEW action, NEW fix, NEW r, TapOnline(p, r, action, fix) PROVE UNCHANGED phones
    BY <2>4 DEF TapOnline, phoneVars
  <2>5. HearAnswer(p) => UNCHANGED phones
    BY DEF HearAnswer, phoneVars
  <2>. QED  BY <2>1, <2>2, <2>3, <2>4, <2>5 DEF Tapping
<1>. QED  BY <1>1, <1>2, <1>3, AllSteady DEF Types

\* Every step keeps the record: what a phone has been told, or is about to be told, is there.
LEMMA StepKeepsRecord ==
    ASSUME Types, RecordInv, [Next]_fieldVars
    PROVE  RecordInv'
<1>1. ASSUME NEW p \in Phones, PhoneStep(p), UNCHANGED <<requests, tapped>> PROVE RecordInv'
  BY <1>1, StartSyncRecord, GiveUpRecord, SettlePunchRecord, FinishSyncRecord DEF PhoneStep, Types
<1>2. CASE ServeSync
  BY <1>2, BeginSyncRecord, RefuseSyncRecord, CommitSyncRecord DEF ServeSync, Types
<1>3. ASSUME UNCHANGED <<queue, txn, phones, network>> PROVE RecordInv'
  BY <1>3, SameQueueGrows, Elsewhere
<1>4. ASSUME NEW p \in Phones, RevokeDevice(p) /\ UNCHANGED <<requests, phoneVars, tapped>>
      PROVE  RecordInv'
  BY <1>3, <1>4 DEF RevokeDevice, phoneVars
<1>5. SignalReturns => RecordInv'
  BY <1>3 DEF SignalReturns, syncVars
<1>6. UNCHANGED offline \/ UNCHANGED fieldVars => RecordInv'
  BY <1>3 DEF offline, fieldVars, syncVars, phoneVars
<1>7. (TxnStep \/ DeskStep) /\ UNCHANGED phoneVars => RecordInv'
  BY TxnStepRecord
<1>8. CASE Next
  BY <1>1, <1>2, <1>4, <1>5, <1>6, <1>7, <1>8, TappingRecord DEF Next
<1>. QED  BY <1>6, <1>8

-----------------------------------------------------------------------------
(* Every step keeps who waits, and what is linked                           *)

\* Whoever waits while a transaction ends would have waited for it: nobody does.
LEMMA NobodyWaits ==
    ASSUME QueueTypes, WaitInv, Free \/ Done, NEW k \in DOMAIN queue,
           queue[k].status \in Filed
    PROVE  queue[k].log # Null
BY DEF WaitInv, Free, NoTxn, Done, Pending

\* Every step keeps who waits.
LEMMA StepKeepsWaiting ==
    ASSUME Types, WaitInv, [Next]_fieldVars
    PROVE  WaitInv'
<1>1. ASSUME UNCHANGED queue,
             txn.open => txn'.open /\ txn'.worker = txn.worker
      PROVE  WaitInv'
  BY <1>1 DEF WaitInv
<1>2. ASSUME UNCHANGED queue, Free \/ Done PROVE WaitInv'
  <2>1. \A k \in DOMAIN queue : queue[k].status \in Filed => queue[k].log # Null
    BY <1>2, NobodyWaits DEF Types
  <2>. QED  BY <1>2, <2>1 DEF WaitInv
<1>3. ASSUME NEW p \in Phones, Tapping(p) PROVE WaitInv'
  <2>1. UNCHANGED syncVars
    BY <1>3 DEF Tapping, TapOnline, TapOffline, HearAnswer, FallBack
  <2>. QED  BY <1>1, <2>1 DEF syncVars
<1>4. ASSUME NEW p \in Phones, PhoneStep(p), UNCHANGED <<requests, tapped>> PROVE WaitInv'
  <2>1. CASE GiveUp(p)
    <3>1. UNCHANGED queue
      BY <2>1 DEF GiveUp
    <3>. QED  BY <1>1, <1>4, <2>1, <3>1, GiveUpType DEF Types
  <2>2. CASE StartSync(p) \/ SettlePunch(p) \/ FinishSync(p)
    BY <1>1, <2>2 DEF StartSync, SettlePunch, FinishSync, syncVars
  <2>. QED  BY <1>4, <2>1, <2>2 DEF PhoneStep
<1>5. CASE ServeSync
  BY <1>2, <1>5 DEF ServeSync, BeginSync, RefuseSync, CommitSync, syncVars
<1>6. CASE SkipPunch \/ StorePunch
  <2>1. PICK verdict \in SyncVerdicts : Answer(verdict)
    BY <1>6 DEF SkipPunch, StorePunch, Stored, SyncVerdicts, Filed
  <2>2. txn'.open /\ txn'.worker = txn.worker
    BY <1>6, <2>1, AnswerType DEF Types, SkipPunch, StorePunch, dbVars
  <2>3. CASE SkipPunch
    BY <1>1, <2>2, <2>3 DEF SkipPunch
  <2>4. CASE StorePunch
    <3>1. PICK row : row = Stored(txn.worker, Head(txn.left))
      OBVIOUS
    <3>2. queue' = Append(queue, row) /\ row.worker = txn.worker
      BY <2>4, <3>1 DEF StorePunch, Stored
    <3>3. \A k \in DOMAIN queue' : queue'[k] = row \/ (k \in DOMAIN queue /\ queue'[k] = queue[k])
      <4>1. queue \in Seq(QueueRow)
        BY DEF Types, QueueTypes
      <4>2. DOMAIN queue' = 1 .. Len(queue) + 1 /\ DOMAIN queue = 1 .. Len(queue) /\ Len(queue) \in Nat
        BY <3>2, <4>1
      <4>3. ASSUME NEW k \in DOMAIN queue', k \notin DOMAIN queue PROVE queue'[k] = row
        <5>1. k = Len(queue) + 1
          BY <4>2, <4>3
        <5>. QED  BY <3>2, <4>1, <5>1
      <4>4. ASSUME NEW k \in DOMAIN queue PROVE queue'[k] = queue[k]
        BY <3>2, <4>1
      <4>. SUFFICES ASSUME NEW k \in DOMAIN queue'
                    PROVE  queue'[k] = row \/ (k \in DOMAIN queue /\ queue'[k] = queue[k])
        OBVIOUS
      <4>5. CASE k \in DOMAIN queue
        BY <4>4, <4>5
      <4>6. CASE k \notin DOMAIN queue
        BY <4>3, <4>6
      <4>. QED  BY <4>5, <4>6
    <3>. QED  BY <2>2, <3>2, <3>3 DEF WaitInv
  <2>. QED  BY <1>6, <2>3, <2>4
<1>7. ASSUME NEW k \in DOMAIN queue, Materialise, UNCHANGED txn PROVE WaitInv'
  <2>1. PICK j \in DOMAIN queue : MaterialiseIn(j) \/ MaterialiseOut(j) \/ RefuseMaterial(j)
    BY <1>7 DEF Materialise
  <2>2. txn.open /\ queue[j].worker = txn.worker
    BY <2>1, MaterialisingOne DEF Types, MaterialiseIn, MaterialiseOut, RefuseMaterial
  <2>3. QueueGrows /\ DOMAIN queue' = DOMAIN queue
    BY <2>1, MarkedQueueGrows DEF Types
  <2>4. \A i \in DOMAIN queue : i # j => queue'[i] = queue[i]
    BY <2>1 DEF MaterialiseIn, MaterialiseOut, RefuseMaterial, Links, Types, QueueTypes
  <2>. QED  BY <1>7, <2>2, <2>3, <2>4 DEF WaitInv, QueueGrows
<1>8. CASE DeskStep
  <2>1. CASE CommitApproval
    BY <1>2, <2>1 DEF CommitApproval
  <2>2. ASSUME NEW k \in DOMAIN queue, RejectPunch(k) \/ ApprovePunch(k) PROVE WaitInv'
    <3>1. DOMAIN queue' = DOMAIN queue /\ QueueGrows
      BY <2>2, MarkedQueueGrows DEF Types
    <3>2. \A i \in DOMAIN queue : i # k => queue'[i] = queue[i]
      BY <2>2 DEF RejectPunch, ApprovePunch, Types, QueueTypes
    <3>3. \A i \in DOMAIN queue : queue[i].status \in Filed => queue[i].log # Null
      BY <2>2, NobodyWaits DEF Types, RejectPunch, ApprovePunch
    <3>4. CASE RejectPunch(k)
      <4>1. queue'[k].status \notin Filed
        <5>1. queue[k] \in QueueRow /\ queue \in Seq(QueueRow)
          BY QueueRowType DEF Types, QueueTypes
        <5>2. queue'[k] = [queue[k] EXCEPT !.status = "rejected", !.code = "admin_rejected"]
          BY <3>4, <5>1 DEF RejectPunch
        <5>. QED  BY <5>1, <5>2 DEF QueueRow, Filed
      <4>. QED  BY <3>1, <3>2, <3>3, <4>1 DEF WaitInv
    <3>5. CASE ApprovePunch(k)
      <4>1. txn'.open /\ txn'.worker = queue'[k].worker
        BY <3>1, <3>5 DEF ApprovePunch, QueueGrows
      <4>. QED  BY <3>1, <3>2, <3>3, <4>1 DEF WaitInv
    <3>. QED  BY <2>2, <3>4, <3>5
  <2>. QED  BY <1>8, <2>1, <2>2 DEF DeskStep
<1>9. CASE UNCHANGED <<queue, txn>>
  BY <1>1, <1>9
<1>10. ASSUME NEW p, RevokeDevice(p) PROVE UNCHANGED <<queue, txn>>
  BY <1>10 DEF RevokeDevice
<1>11. SignalReturns \/ UNCHANGED offline \/ UNCHANGED fieldVars => UNCHANGED <<queue, txn>>
  BY DEF SignalReturns, offline, fieldVars, syncVars
<1>12. Materialise => UNCHANGED txn
  BY DEF Materialise, MaterialiseIn, MaterialiseOut, RefuseMaterial
<1>13. TxnStep => WaitInv'
  BY <1>6, <1>7, <1>12 DEF TxnStep, Materialise
<1>14. CASE Next
  BY <1>3, <1>4, <1>5, <1>8, <1>9, <1>10, <1>11, <1>13, <1>14 DEF Next
<1>. QED  BY <1>9, <1>11, <1>14

-----------------------------------------------------------------------------
(* Every step keeps what is linked                                          *)

\* A new row of the ledger comes last.
LEMMA NewRowIsLast ==
    ASSUME TableTypes, NEW row, logs' = Append(logs, row)
    PROVE  /\ Len(logs) \in Nat /\ DOMAIN logs = 1 .. Len(logs)
           /\ DOMAIN logs' = 1 .. Len(logs) + 1
           /\ \A i \in DOMAIN logs : logs'[i] = logs[i]
           /\ logs'[Len(logs) + 1] = row
BY DEF TableTypes

\* The ledger is as it was, or longer by a row that no queue has filed.
OnlineLedger ==
    logs' = logs \/ \E row : logs' = Append(logs, row) /\ row.source # "offline"

\* An online row, and a row of the queue that has not been applied, link nothing.
LEMMA LinksStay ==
    ASSUME TableTypes, QueueTypes, LinkInv, QueueGrows, OnlineLedger,
           \A k \in DOMAIN queue : queue'[k].log = queue[k].log,
           \A k \in DOMAIN queue' : k \notin DOMAIN queue => queue'[k].log = Null
    PROVE  LinkInv'
<1>1. \A i \in DOMAIN logs : i \in DOMAIN logs' /\ logs'[i] = logs[i]
  BY NewRowIsLast DEF OnlineLedger
<1>2. \A i \in DOMAIN logs' : logs'[i].source = "offline" => i \in DOMAIN logs
  <2>1. CASE logs' = logs
    BY <2>1
  <2>2. CASE \E row : logs' = Append(logs, row) /\ row.source # "offline"
    <3>1. PICK row : logs' = Append(logs, row) /\ row.source # "offline"
      BY <2>2
    <3>2. /\ Len(logs) \in Nat /\ DOMAIN logs = 1 .. Len(logs)
          /\ DOMAIN logs' = 1 .. Len(logs) + 1 /\ logs'[Len(logs) + 1] = row
      BY <3>1, NewRowIsLast
    <3>3. \A i \in 1 .. Len(logs) + 1 : i \in 1 .. Len(logs) \/ i = Len(logs) + 1
      BY <3>2
    <3>. QED  BY <3>1, <3>2, <3>3
  <2>. QED  BY <2>1, <2>2 DEF OnlineLedger
<1>3. \A k \in DOMAIN queue' : queue'[k].log # Null =>
          k \in DOMAIN queue /\ queue'[k].log = queue[k].log
  OBVIOUS
<1>4. \A k \in DOMAIN queue' : queue'[k].log # Null => queue'[k].log \in DOMAIN logs'
  BY <1>1, <1>3 DEF LinkInv
<1>5. \A k, j \in DOMAIN queue' : queue'[k].log = queue'[j].log /\ queue'[k].log # Null => k = j
  BY <1>3 DEF LinkInv, EveryPunchOnce
<1>6. ASSUME NEW i \in DOMAIN logs', logs'[i].source = "offline"
      PROVE  \E k \in DOMAIN queue' :
                /\ queue'[k].log = i
                /\ <<queue'[k].worker, queue'[k].action, queue'[k].at>> =
                       <<logs'[i].worker, logs'[i].action, logs'[i].at>>
  <2>1. i \in DOMAIN logs /\ logs'[i] = logs[i]
    BY <1>1, <1>2, <1>6
  <2>2. PICK k \in DOMAIN queue :
          /\ queue[k].log = i
          /\ <<queue[k].worker, queue[k].action, queue[k].at>> =
                 <<logs[i].worker, logs[i].action, logs[i].at>>
    BY <1>6, <2>1 DEF LinkInv, EveryPunchOnce, IsOffline
  <2>3. /\ k \in DOMAIN queue' /\ queue'[k].log = i
        /\ queue'[k].worker = queue[k].worker /\ queue'[k].action = queue[k].action
        /\ queue'[k].at = queue[k].at
    BY <2>2 DEF QueueGrows
  <2>. QED  BY <2>1, <2>2, <2>3
<1>. QED  BY <1>4, <1>5, <1>6 DEF LinkInv, EveryPunchOnce, IsOffline

\* A row of the queue that nothing has become is applied: it is linked to the row it becomes.
LEMMA LinkIsMade ==
    ASSUME TableTypes, QueueTypes, LinkInv, QueueGrows, NEW k \in DOMAIN queue,
           queue[k].log = Null, queue' = [queue EXCEPT ![k].log = Len(logs) + 1],
           NEW row, logs' = Append(logs, row),
           row.worker = queue[k].worker, row.action = queue[k].action, row.at = queue[k].at
    PROVE  LinkInv'
<1>1. /\ Len(logs) \in Nat /\ DOMAIN logs = 1 .. Len(logs)
      /\ DOMAIN logs' = 1 .. Len(logs) + 1
      /\ \A i \in DOMAIN logs : logs'[i] = logs[i]
      /\ logs'[Len(logs) + 1] = row
  BY NewRowIsLast
<1>2. PICK n : n = Len(logs) + 1
  OBVIOUS
<1>3. n \in DOMAIN logs' /\ n \notin DOMAIN logs /\ logs'[n] = row /\ n # Null
  BY <1>1, <1>2, NullIsNegative
<1>4. /\ DOMAIN queue' = DOMAIN queue /\ queue'[k].log = n
      /\ \A j \in DOMAIN queue : j # k => queue'[j] = queue[j]
  <2>1. queue \in Seq(QueueRow) /\ queue[k] \in QueueRow
    BY QueueRowType DEF QueueTypes
  <2>. QED  BY <1>2, <2>1 DEF QueueRow
<1>5. \A j \in DOMAIN queue' : queue'[j].log # Null => queue'[j].log \in DOMAIN logs'
  BY <1>1, <1>3, <1>4 DEF LinkInv
<1>6. \A j \in DOMAIN queue : j # k => queue'[j].log # n
  BY <1>3, <1>4 DEF LinkInv
<1>7. \A i, j \in DOMAIN queue' : queue'[i].log = queue'[j].log /\ queue'[i].log # Null => i = j
  BY <1>4, <1>6 DEF LinkInv, EveryPunchOnce
<1>8. ASSUME NEW i \in DOMAIN logs', logs'[i].source = "offline"
      PROVE  \E j \in DOMAIN queue' :
                /\ queue'[j].log = i
                /\ <<queue'[j].worker, queue'[j].action, queue'[j].at>> =
                       <<logs'[i].worker, logs'[i].action, logs'[i].at>>
  <2>1. CASE i = n
    <3>1. /\ k \in DOMAIN queue' /\ queue'[k].worker = queue[k].worker
          /\ queue'[k].action = queue[k].action /\ queue'[k].at = queue[k].at
      BY DEF QueueGrows
    <3>. QED  BY <1>3, <1>4, <2>1, <3>1
  <2>2. CASE i # n
    <3>1. i \in DOMAIN logs /\ logs'[i] = logs[i]
      BY <1>1, <1>2, <2>2
    <3>2. PICK j \in DOMAIN queue :
            /\ queue[j].log = i
            /\ <<queue[j].worker, queue[j].action, queue[j].at>> =
                   <<logs[i].worker, logs[i].action, logs[i].at>>
      BY <1>8, <3>1 DEF LinkInv, EveryPunchOnce, IsOffline
    <3>3. i # Null
      BY <1>1, <3>1, NullIsNegative
    <3>4. j # k /\ j \in DOMAIN queue' /\ queue'[j] = queue[j]
      BY <1>4, <3>2, <3>3
    <3>. QED  BY <3>1, <3>2, <3>4
  <2>. QED  BY <2>1, <2>2
<1>. QED  BY <1>5, <1>7, <1>8 DEF LinkInv, EveryPunchOnce, IsOffline

\* What a request files was not taken offline.
LEMMA SettleIsOnline ==
    ASSUME NEW r, Settle(r)
    PROVE  OnlineLedger
<1>1. CASE JudgeFrame(r) \/ RefuseFrame(r) \/ Depart(r) \/ RefuseIn(r) \/ RefuseOut(r)
           \/ RefuseArrival(r)
  BY <1>1 DEF JudgeFrame, RefuseFrame, Depart, RefuseIn, RefuseOut, RefuseArrival, dbVars, OnlineLedger
<1>. DEFINE q == requests[r]
            w == requests[r].worker
<1>2. CASE PunchIn(r)
  <2>1. PICK row :
          row = [worker |-> q.worker, clockIn |-> now, shift |-> Len(logs), action |-> q.action,
                 site |-> q.site, at |-> now, fix |-> q.fix, flagged |-> FALSE,
                 score |-> q.verdict, source |-> "online", code |-> q.verdict, hours |-> 0,
                 overtime |-> 0, approved |-> Null]
    OBVIOUS
  <2>2. logs' = Append(logs, row) /\ row.source # "offline"
    BY <1>2, <2>1 DEF PunchIn
  <2>. QED  BY <2>2 DEF OnlineLedger
<1>3. CASE PunchOut(r)
  <2>1. PICK row :
          row = [worker |-> w, clockIn |-> sessions[w].clockIn, shift |-> sessions[w].shift,
                 action |-> "Clock Out", site |-> IF q.site # NoSite THEN q.site ELSE ShiftSite(r),
                 at |-> now, fix |-> q.fix, flagged |-> q.site = NoSite, score |-> q.verdict,
                 source |-> "online", code |-> OutCode(r),
                 hours |-> RecordedPaid(Elapsed(w), values),
                 overtime |-> IF HeldForApproval(w) THEN HeldHours(w) ELSE 0, approved |-> Null]
    OBVIOUS
  <2>2. CloseShift(w, row) /\ row.source # "offline"
    BY <1>3, <2>1 DEF PunchOut
  <2>. QED  BY <2>2 DEF CloseShift, OnlineLedger
<1>4. CASE Arrive(r)
  <2>1. PICK row :
          row = [worker |-> w, clockIn |-> sessions[w].clockIn, shift |-> sessions[w].shift,
                 action |-> "Transit Confirmed", site |-> ArrivalSite(r), at |-> now,
                 fix |-> q.fix, flagged |-> q.site = NoSite, score |-> "none",
                 source |-> "site_arrival", code |-> "approved", hours |-> 0, overtime |-> 0,
                 approved |-> Null]
    OBVIOUS
  <2>2. logs' = Append(logs, row) /\ row.source # "offline"
    BY <1>4, <2>1 DEF Arrive
  <2>. QED  BY <2>2 DEF OnlineLedger
<1>. QED  BY <1>1, <1>2, <1>3, <1>4 DEF Settle

\* A punch that becomes attendance is linked to the row it becomes.
LEMMA MaterialiseLinks ==
    ASSUME Types, LinkInv, NEW k \in DOMAIN queue, MaterialiseIn(k) \/ MaterialiseOut(k)
    PROVE  LinkInv'
<1>1. QueueGrows /\ queue[k].log = Null /\ queue' = [queue EXCEPT ![k].log = Len(logs) + 1]
  BY MarkedQueueGrows, MaterialisingOne DEF Types, MaterialiseIn, MaterialiseOut, Links
<1>2. \E row : /\ logs' = Append(logs, row) /\ row.worker = queue[k].worker
               /\ row.action = queue[k].action /\ row.at = queue[k].at
  <2>. DEFINE q == queue[k]
              w == queue[k].worker
  <2>1. CASE MaterialiseIn(k)
    <3>1. PICK row :
            row = [worker |-> q.worker, clockIn |-> q.at, shift |-> Len(logs),
                   action |-> "Clock In", site |-> IF q.site = NoSite THEN Unassigned ELSE q.site,
                   at |-> q.at, fix |-> q.fix, flagged |-> FALSE, score |-> "none",
                   source |-> "offline", code |-> "unverified_offline", hours |-> 0,
                   overtime |-> 0, approved |-> Null]
      OBVIOUS
    <3>2. logs' = Append(logs, row) /\ q.action = "Clock In"
      BY <2>1, <3>1 DEF MaterialiseIn
    <3>3. row.worker = q.worker /\ row.action = q.action /\ row.at = q.at
      BY <3>1, <3>2
    <3>. QED  BY <3>2, <3>3
  <2>2. CASE MaterialiseOut(k)
    <3>1. PICK crossed : crossed = (ReachesLine(Worked(k), values) /\ HeldAt(w, Worked(k)) > 0)
      OBVIOUS
    <3>2. PICK row :
            row = [worker |-> w, clockIn |-> sessions[w].clockIn, shift |-> sessions[w].shift,
                   action |-> "Clock Out", site |-> sessions[w].site, at |-> q.at, fix |-> q.fix,
                   flagged |-> FALSE, score |-> "none", source |-> "offline",
                   code |-> IF crossed THEN "pending_overtime" ELSE "pending_review",
                   hours |-> RecordedPaid(Worked(k), values),
                   overtime |-> IF crossed THEN HeldAt(w, Worked(k)) ELSE 0, approved |-> Null]
      OBVIOUS
    <3>3. CloseShift(w, row) /\ q.action = "Clock Out"
      BY <2>2, <3>1, <3>2 DEF MaterialiseOut
    <3>4. logs' = Append(logs, row)
      BY <3>3 DEF CloseShift
    <3>5. row.worker = q.worker /\ row.action = q.action /\ row.at = q.at
      BY <3>2, <3>3
    <3>. QED  BY <3>4, <3>5
  <2>. QED  BY <2>1, <2>2
<1>. QED  BY <1>1, <1>2, LinkIsMade DEF Types

\* Every step keeps what is linked.
LEMMA StepKeepsLinks ==
    ASSUME Types, LinkInv, [Next]_fieldVars
    PROVE  LinkInv'
<1>1. ASSUME UNCHANGED queue, OnlineLedger PROVE LinkInv'
  <2>1. QueueGrows
    BY <1>1, SameQueueGrows
  <2>. QED  BY <1>1, <2>1, LinksStay DEF Types
<1>2. UNCHANGED dbVars => OnlineLedger
  BY DEF dbVars, OnlineLedger
<1>3. ASSUME NEW p \in Phones, Tapping(p) PROVE LinkInv'
  <2>1. UNCHANGED syncVars /\ UNCHANGED dbVars
    BY <1>3 DEF Tapping, TapOnline, TapOffline, HearAnswer, FallBack, Gate
  <2>. QED  BY <1>1, <1>2, <2>1 DEF syncVars
<1>4. ASSUME NEW p \in Phones, PhoneStep(p) PROVE LinkInv'
  <2>1. UNCHANGED queue /\ UNCHANGED dbVars
    BY <1>4 DEF PhoneStep, StartSync, GiveUp, SettlePunch, FinishSync, syncVars
  <2>. QED  BY <1>1, <1>2, <2>1
<1>5. CASE ServeSync
  <2>1. UNCHANGED queue /\ UNCHANGED dbVars
    BY <1>5 DEF ServeSync, BeginSync, RefuseSync, CommitSync, syncVars
  <2>. QED  BY <1>1, <1>2, <2>1
<1>6. CASE SkipPunch
  BY <1>1, <1>2, <1>6 DEF SkipPunch
<1>7. CASE StorePunch
  <2>1. PICK row : row = Stored(txn.worker, Head(txn.left))
    OBVIOUS
  <2>2. queue' = Append(queue, row) /\ row.log = Null /\ OnlineLedger
    BY <1>2, <1>7, <2>1 DEF StorePunch, Stored
  <2>3. queue \in Seq(QueueRow)
    BY DEF Types, QueueTypes
  <2>4. \A k \in DOMAIN queue : k \in DOMAIN queue' /\ queue'[k] = queue[k]
    BY <2>2, <2>3
  <2>5. QueueGrows
    BY <2>4 DEF QueueGrows
  <2>6. ASSUME NEW k \in DOMAIN queue', k \notin DOMAIN queue PROVE queue'[k].log = Null
    <3>1. k = Len(queue) + 1
      BY <2>2, <2>3, <2>6
    <3>. QED  BY <2>2, <2>3, <3>1
  <2>. QED  BY <2>2, <2>4, <2>5, <2>6, LinksStay DEF Types
<1>8. ASSUME NEW k \in DOMAIN queue, RefuseMaterial(k) \/ RejectPunch(k) \/ ApprovePunch(k)
      PROVE  LinkInv'
  <2>1. QueueGrows /\ DOMAIN queue' = DOMAIN queue /\ OnlineLedger
    BY <1>2, <1>8, MarkedQueueGrows DEF Types, RefuseMaterial, RejectPunch, ApprovePunch
  <2>2. PICK status, code : queue' = [queue EXCEPT ![k].status = status, ![k].code = code]
    BY <1>8 DEF RefuseMaterial, RejectPunch, ApprovePunch
  <2>3. \A j \in DOMAIN queue : queue[j] \in QueueRow
    BY QueueRowType DEF Types
  <2>4. \A j \in DOMAIN queue : queue'[j].log = queue[j].log
    BY <2>2, <2>3 DEF QueueRow
  <2>. QED  BY <2>1, <2>4, LinksStay DEF Types
<1>9. TxnStep => LinkInv'
  BY <1>6, <1>7, <1>8, MaterialiseLinks DEF TxnStep, Materialise
<1>10. CASE DeskStep
  <2>1. CASE CommitApproval
    BY <1>1, <1>2, <2>1 DEF CommitApproval
  <2>. QED  BY <1>8, <1>10, <2>1 DEF DeskStep
<1>11. ASSUME NEW r, Settle(r), UNCHANGED offline PROVE LinkInv'
  BY <1>1, <1>11, SettleIsOnline DEF offline, syncVars
<1>12. ASSUME NEW p, RevokeDevice(p) PROVE LinkInv'
  BY <1>1, <1>2, <1>12 DEF RevokeDevice
<1>13. (SignalReturns \/ UNCHANGED fieldVars) => LinkInv'
  BY <1>1, <1>2 DEF SignalReturns, fieldVars, syncVars
<1>14. ASSUME Tick, UNCHANGED offline PROVE LinkInv'
  BY <1>1, <1>14 DEF Tick, offline, syncVars, OnlineLedger
<1>15. CASE Next
  BY <1>3, <1>4, <1>5, <1>9, <1>10, <1>11, <1>12, <1>13, <1>14, <1>15 DEF Next
<1>. QED  BY <1>13, <1>15

-----------------------------------------------------------------------------
(* The theorems                                                             *)

\* The four invariants hold at the start.
LEMMA InitFieldInv ==
    ASSUME Init
    PROVE  Types /\ RecordInv /\ WaitInv /\ LinkInv
<1>1. Types
  BY InitTypes
<1>2. /\ network = {} /\ ~txn.open /\ queue = <<>> /\ logs = <<>>
      /\ \A p \in Phones : /\ phones[p].kept = <<>> /\ phones[p].sync.sent = <<>>
                           /\ phones[p].sync.stage = "idle"
  BY DEF Init, DBInit, SyncInit, PhoneInit, NoTxn, Idling
<1>3. RecordInv
  BY <1>2 DEF RecordInv, PhoneRecord, MailRecord, TxnRecord
<1>4. WaitInv /\ LinkInv
  BY <1>2 DEF WaitInv, LinkInv, EveryPunchOnce
<1>. QED  BY <1>1, <1>3, <1>4

\* Whatever phones, server and desk do, the four invariants hold.
LEMMA FieldInvHolds == Spec => [](Types /\ RecordInv /\ WaitInv /\ LinkInv)
<1>1. Types /\ RecordInv /\ WaitInv /\ LinkInv /\ [Next]_fieldVars =>
          (Types /\ RecordInv /\ WaitInv /\ LinkInv)'
  BY StepKeepsTypes, StepKeepsRecord, StepKeepsWaiting, StepKeepsLinks
<1>. QED  BY <1>1, InitFieldInv, PTL DEF Spec

\* Types: every table, message and phone holds rows of its kind, also while requests are
\* lost, repeated and answered to nobody.
THEOREM FieldTypesHold == Spec => []FieldTypeOK
<1>1. Types => FieldTypeOK
  BY DEF Types, TableTypes, TxnTypes, QueueTypes, PhoneTypes, FieldTypeOK, Moments
<1>. QED  BY <1>1, FieldInvHolds, PTL

\* A kept punch is in the ledger at most once, as what was signed, however often it is sent
\* and whatever the desk does with it (the UNIQUE client_punch_id, and the row's link).
THEOREM PunchesAreFiledOnce == Spec => []EveryPunchOnce
<1>1. LinkInv => EveryPunchOnce
  BY DEF LinkInv
<1>. QED  BY <1>1, FieldInvHolds, PTL

\* What a phone no longer holds back is on record at the server, whichever of its requests was
\* lost on the way and whichever was answered.
THEOREM SettledAreOnRecord == Spec => []SettledIsOnRecord
<1>1. RecordInv => SettledIsOnRecord
  BY DEF RecordInv, PhoneRecord, OnRecord, SettledIsOnRecord
<1>. QED  BY <1>1, FieldInvHolds, PTL

\* Between two transactions no verified punch waits to become attendance.
THEOREM NothingIsLeftWaiting == Spec => []NothingWaitsAtTheServer
<1>1. Types /\ WaitInv => NothingWaitsAtTheServer
  BY NobodyWaits DEF Types, NothingWaitsAtTheServer
<1>. QED  BY <1>1, FieldInvHolds, PTL
=============================================================================
