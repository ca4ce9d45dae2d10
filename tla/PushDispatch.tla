---------------------------- MODULE PushDispatch ----------------------------
(***************************************************************************)
(* Worker notices and the push that announces them (backend/push.py and the   *)
(* worker's half of notifications.py).  A notice is written in the            *)
(* transaction that produced it; a dispatch then runs on a daemon thread,      *)
(* sends what is undelivered and recent to each live subscription of its       *)
(* worker, and records what happened.                                       *)
(*                                                                          *)
(* One dispatch is one "with db(write=True)" block.  Its transaction begins   *)
(* at the first UPDATE: until then it reads what is committed and holds no     *)
(* lock, and from then on it holds SQLite's write lock, sends included, and    *)
(* its rows are a draft that is lost when the thread or the process ends.     *)
(***************************************************************************)
EXTENDS Naturals, Sequences, FiniteSets, SequencesExt

CONSTANTS
    Workers,
    Browsers,       \* push endpoints
    Notices,        \* rows of worker_notifications
    Addressee,      \* the worker each notice is written for
    Processes,      \* server processes: one dispatch each at a time (_dispatch_lock)
    Nobody,
    AttemptLimit,   \* settings.push_attempt_limit
    MaxAge,         \* settings.push_max_age_minutes
    Hour,           \* the moments of one ALERT_BUCKET
    Readable,       \* bound: the notices that are read in a run
    MaxDeaths,      \* bound: the dispatches that are cut off in a run
    MaxChanges,     \* bound: the changes workers make to their subscriptions in a run
    MaxNow          \* bound: the last moment of a run

ASSUME PushAssumption ==
    /\ Addressee \in [Notices -> Workers]
    /\ Nobody \notin Workers \cup Processes
    /\ IsFiniteSet(Browsers) /\ IsFiniteSet(Notices) /\ IsFiniteSet(Processes)
    /\ Readable \subseteq Notices
    /\ AttemptLimit \in Nat \ {0} /\ MaxAge \in Nat /\ Hour \in Nat \ {0}
    /\ MaxDeaths \in Nat /\ MaxChanges \in Nat /\ MaxNow \in Nat

VARIABLES
    now,
    tables,     \* what is committed: the notices, the subscriptions, the operator's alerts
    draft,      \* the same, as the holder of the lock has changed it
    lock,       \* the process that holds the write lock, or Nobody
    threads,    \* the dispatch of each process
    rings,      \* how often each browser rang for each notice
    deaths, changes
vars == <<now, tables, draft, lock, threads, rings, deaths, changes>>

-----------------------------------------------------------------------------
(* Rows                                                                     *)

\* A notice is written at most once (its dedupe key)
Notice ==
    [written: BOOLEAN, at: Nat, delivered: BOOLEAN, read: BOOLEAN, attempts: Nat]
Unwritten ==
    [written |-> FALSE, at |-> 0, delivered |-> FALSE, read |-> FALSE, attempts |-> 0]

\* The endpoint is the key: one row per browser, whoever is signed in on it
Subscription == [owner: Workers \cup {Nobody}, live: BOOLEAN]

Tables ==
    [inbox: [Notices -> Notice], subs: [Browsers -> Subscription], alerts: SUBSET Nat]

\* One dispatch: the notices it selected and has not settled, the subscriptions of the
\* first of them that are still to be tried, whether one was, and the last answer
Answers == {"ok", "gone", "error"}
Thread ==
    [stage: {"idle", "select", "next", "send", "record"}, moment: Nat,
     rows: Seq(Notices), subs: Seq(Browsers), sent: BOOLEAN, answer: Answers]
NoThread ==
    [stage |-> "idle", moment |-> 0, rows |-> <<>>, subs |-> <<>>, sent |-> FALSE,
     answer |-> "ok"]

\* Without a lock there is no draft, and a send or its record has something to be about
TypeOK ==
    /\ now \in Nat
    /\ tables \in Tables /\ draft \in Tables
    /\ lock \in Processes \cup {Nobody} /\ (lock = Nobody => draft = tables)
    /\ \A p \in Processes :
          threads[p].stage \in {"send", "record"} => threads[p].rows # <<>> /\ threads[p].subs # <<>>
    /\ threads \in [Processes -> Thread]
    /\ rings \in [Notices \X Browsers -> Nat]
    /\ deaths \in Nat /\ changes \in Nat

Init ==
    /\ now = 0
    /\ tables = [inbox |-> [n \in Notices |-> Unwritten],
                 subs |-> [b \in Browsers |-> [owner |-> Nobody, live |-> FALSE]],
                 alerts |-> {}]
    /\ draft = tables /\ lock = Nobody
    /\ threads = [p \in Processes |-> NoThread]
    /\ rings = [x \in Notices \X Browsers |-> 0]
    /\ deaths = 0 /\ changes = 0

\* What a process reads: its own draft if it holds the lock
View(p) == IF lock = p THEN draft ELSE tables

\* A short transaction of somebody else: the lock is free, and is again afterwards
Commits(new) == lock = Nobody /\ tables' = new /\ draft' = new /\ UNCHANGED lock

\* A statement that writes: the first of a transaction takes the lock
Writes(p, new) == lock \in {p, Nobody} /\ draft' = new /\ lock' = p /\ UNCHANGED tables

-----------------------------------------------------------------------------
(* Notices and subscriptions                                                *)

\* push.dispatch_async: refused while this process has a dispatch
Triggered(p) ==
    IF threads[p].stage = "idle" THEN [threads EXCEPT ![p].stage = "select"] ELSE threads

\* notify_worker in the caller's transaction, and dispatch_async after it
WriteNotice(n, p) ==
    /\ ~tables.inbox[n].written
    /\ Commits([tables EXCEPT !.inbox[n].written = TRUE, !.inbox[n].at = now])
    /\ threads' = Triggered(p)
    /\ UNCHANGED <<now, rings, deaths, changes>>

ReadNotice(n) ==
    /\ n \in Readable
    /\ tables.inbox[n].written /\ ~tables.inbox[n].read
    /\ Commits([tables EXCEPT !.inbox[n].read = TRUE])
    /\ UNCHANGED <<now, threads, rings, deaths, changes>>

\* The endpoint follows the account that uses the browser now, and lives again
Subscribe(b, w) ==
    /\ changes < MaxChanges /\ changes' = changes + 1
    /\ Commits([tables EXCEPT !.subs[b] = [owner |-> w, live |-> TRUE]])
    /\ UNCHANGED <<now, threads, rings, deaths>>

Unsubscribe(b) ==
    /\ changes < MaxChanges /\ changes' = changes + 1
    /\ tables.subs[b].live
    /\ Commits([tables EXCEPT !.subs[b].live = FALSE])
    /\ UNCHANGED <<now, threads, rings, deaths>>

-----------------------------------------------------------------------------
(* dispatch                                                                 *)

\* Broken on purpose, for the mutation checks: the filter on delivered_at is forgotten.
WorthSendingAgain(row) ==
    row.written /\ row.attempts < AttemptLimit /\ now <= row.at + MaxAge

\* Undelivered, not given up, and recent
WorthSending(row) ==
    /\ row.written /\ ~row.delivered
    /\ row.attempts < AttemptLimit
    /\ now <= row.at + MaxAge

\* ORDER BY created_at
Select(p) ==
    LET due == {n \in Notices : WorthSending(tables.inbox[n])} IN
    /\ threads[p].stage = "select"
    /\ \E rows \in SetToSeqs(due) :
          /\ \A i, j \in DOMAIN rows :
                i < j => tables.inbox[rows[i]].at <= tables.inbox[rows[j]].at
          /\ threads' = [threads EXCEPT ![p] =
                [NoThread EXCEPT !.stage = "next", !.moment = now, !.rows = rows]]
    /\ UNCHANGED <<now, tables, draft, lock, rings, deaths, changes>>

LiveSubs(t, w) == {b \in Browsers : t.subs[b].owner = w /\ t.subs[b].live}

\* deliver: the subscriptions of the next notice.  Without one it is left as it is.
NextNotice(p) ==
    LET T == threads[p] IN
    /\ T.stage = "next" /\ T.rows # <<>>
    /\ \E subs \in SetToSeqs(LiveSubs(View(p), Addressee[Head(T.rows)])) :
          threads' = [threads EXCEPT
            ![p].stage = IF subs = <<>> THEN "next" ELSE "send",
            ![p].rows = IF subs = <<>> THEN Tail(@) ELSE @,
            ![p].subs = subs, ![p].sent = FALSE]
    /\ UNCHANGED <<now, tables, draft, lock, rings, deaths, changes>>

\* The call to the push service: it takes its time, with or without the lock
Send(p) ==
    LET T == threads[p] IN
    /\ T.stage = "send"
    /\ \E answer \in Answers :
          /\ threads' = [threads EXCEPT ![p].stage = "record", ![p].answer = answer]
          /\ rings' = IF answer # "ok" THEN rings
                      ELSE [rings EXCEPT ![<<Head(T.rows), Head(T.subs)>>] = @ + 1]
    /\ UNCHANGED <<now, tables, draft, lock, deaths, changes>>

\* Broken on purpose, for the mutation checks: every attempt counts as a delivery.
SettledAsSent(row, sent) ==
    [row EXCEPT !.attempts = @ + 1, !.delivered = TRUE]

\* What the notice's row says after its last subscription
Settled(row, sent) ==
    [row EXCEPT !.attempts = @ + 1, !.delivered = @ \/ sent]

\* A 404 or 410 retires the subscription.  After the last one the notice is settled in the
\* same breath: nothing of another thread comes between the two UPDATEs.
Record(p) ==
    LET T == threads[p]
        n == Head(T.rows)
        sent == T.sent \/ T.answer = "ok"
        last == Len(T.subs) = 1
        subs == IF T.answer = "gone" THEN [View(p).subs EXCEPT ![Head(T.subs)].live = FALSE]
                ELSE View(p).subs
        inbox == IF last THEN [View(p).inbox EXCEPT ![n] = Settled(@, sent)]
                 ELSE View(p).inbox
    IN
    /\ T.stage = "record"
    /\ Writes(p, [View(p) EXCEPT !.subs = subs, !.inbox = inbox])
    /\ threads' = [threads EXCEPT
            ![p].stage = IF last THEN "next" ELSE "send",
            ![p].rows = IF last THEN Tail(@) ELSE @,
            ![p].subs = Tail(@), ![p].sent = sent]
    /\ UNCHANGED <<now, rings, deaths, changes>>

-----------------------------------------------------------------------------
(* The backlog, said out loud                                               *)

\* stranded_notices: undelivered, unread, and too old to be pushed
Stranded(t, n, moment) ==
    /\ t.inbox[n].written /\ ~t.inbox[n].delivered /\ ~t.inbox[n].read
    /\ moment > t.inbox[n].at + MaxAge

\* Broken on purpose, for the mutation checks: a retired device silences its failures.
FailedOnLiveDevice(t, n) == LiveSubs(t, Addressee[n]) # {}

\* channel_failures: the channel was asked to deliver it, or could have been
ChannelFailed(t, n) == t.inbox[n].attempts > 0 \/ LiveSubs(t, Addressee[n]) # {}

\* _record_stranded: one alert an hour
Reported(t, moment) ==
    IF /\ \E n \in Notices : Stranded(t, n, moment) /\ ChannelFailed(t, n)
       /\ \A a \in t.alerts : a \div Hour # moment \div Hour
      THEN [t EXCEPT !.alerts = @ \cup {moment}] ELSE t

\* The end of a dispatch: its own reading of the backlog, and the commit
Commit(p) ==
    LET T == threads[p]
        new == Reported(View(p), T.moment)
    IN
    /\ T.stage = "next" /\ T.rows = <<>>
    /\ lock \in {p, Nobody} \/ new = View(p)
    /\ IF lock \in {p, Nobody} THEN tables' = new /\ draft' = new /\ lock' = Nobody
       ELSE UNCHANGED <<tables, draft, lock>>
    /\ threads' = [threads EXCEPT ![p] = NoThread]
    /\ UNCHANGED <<now, rings, deaths, changes>>

\* alert_stranded_notices, from the watcher's timer
WatchBacklog ==
    /\ Commits(Reported(tables, now))
    /\ UNCHANGED <<now, threads, rings, deaths, changes>>

\* The dispatch does not come to its end: the lock is not to be had in time, or the process
\* dies.  Everything since its first UPDATE is rolled back; what rang has rung.
Die(p) ==
    /\ deaths < MaxDeaths /\ deaths' = deaths + 1
    /\ threads[p].stage # "idle"
    /\ threads' = [threads EXCEPT ![p] = NoThread]
    /\ IF lock = p THEN draft' = tables /\ lock' = Nobody ELSE UNCHANGED <<draft, lock>>
    /\ UNCHANGED <<now, tables, rings, changes>>

Tick ==
    /\ now < MaxNow /\ now' = now + 1
    /\ UNCHANGED <<tables, draft, lock, threads, rings, deaths, changes>>

-----------------------------------------------------------------------------
DispatchStep(p) == Select(p) \/ NextNotice(p) \/ Send(p) \/ Record(p) \/ Commit(p)

Next ==
    \/ \E n \in Notices, p \in Processes : WriteNotice(n, p)
    \/ \E n \in Notices : ReadNotice(n)
    \/ \E b \in Browsers : Unsubscribe(b) \/ \E w \in Workers : Subscribe(b, w)
    \/ \E p \in Processes : DispatchStep(p) \/ Die(p)
    \/ WatchBacklog
    \/ Tick

Spec == Init /\ [][Next]_vars

\* The clock runs, the watcher's timer fires, and a dispatch goes on until it ends or dies:
\* the push service answers, one way or another.
Fairness ==
    /\ WF_vars(Tick) /\ WF_vars(WatchBacklog)
    /\ \A p \in Processes : WF_vars(DispatchStep(p))

FairSpec == Spec /\ Fairness

-----------------------------------------------------------------------------
(* Safety                                                                   *)

\* A notice that is recorded as delivered has rung on a phone, whatever was cut off, rolled
\* back or sent again on the way.
DeliveredHasRung ==
    \A n \in Notices :
        View(lock).inbox[n].delivered => \E b \in Browsers : rings[n, b] > 0

\* A process rings a phone once for a notice (delivered_at IS NULL, behind _dispatch_lock), and
\* again only for a dispatch that was cut off before its commit.
RingsOnce ==
    \A x \in Notices \X Browsers : rings[x] <= Cardinality(Processes) + deaths

-----------------------------------------------------------------------------
(* Progress                                                                 *)

HasDevice(n) == LiveSubs(tables, Addressee[n]) # {}
ToldSince(moment) == \E a \in tables.alerts : a > moment

\* The run is long enough for the notice to grow too old, and for the next hour's alert
TimeFor(n) == tables.inbox[n].at + MaxAge + Hour < MaxNow

\* No notice is lost in silence: one for a worker who has a phone is delivered, or read, or
\* the operator hears of it once it is too old, unless the worker gave up the phone before
\* anything was tried.  A dispatch that is refused because another one runs, that dies, or
\* whose device is retired changes nothing about that ("a channel that went quiet does not
\* fall silent").
NothingIsLostInSilence ==
    \A n \in Notices :
        (tables.inbox[n].written /\ HasDevice(n) /\ TimeFor(n)) ~>
            \/ tables.inbox[n].delivered \/ tables.inbox[n].read
            \/ ToldSince(tables.inbox[n].at + MaxAge)
            \/ ~HasDevice(n) /\ tables.inbox[n].attempts = 0

-----------------------------------------------------------------------------
(* What the source says of itself and the code does not do (README)         *)

\* "The network is never in the transaction"
NetworkOutsideTransaction == \A p \in Processes : threads[p].stage = "send" => lock # p
=============================================================================
