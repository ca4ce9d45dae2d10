----------------------------- MODULE FaceProcess -----------------------------
(***************************************************************************)
(* The face models in a process of their own (face_process.FaceProcess and   *)
(* face_worker.serve): the transport that JudgeFrame of module Punch waits   *)
(* for.  The threads of the engine's pool call in; one reader thread per      *)
(* child matches the replies; a child may crash or hang at any moment; stop() *)
(* may be called while calls are in flight.                                  *)
(*                                                                          *)
(* self._lock is held for a few assignments and never while a thread waits,   *)
(* so each "with self._lock" block is one action.  self._write_lock is held   *)
(* while a frame is written, and a photograph does not fit the pipe: the      *)
(* writer waits, lock in hand, until the child reads.                        *)
(*                                                                          *)
(* A reply is stored just after the lock under which its request was taken    *)
(* from the table is released; here, in the same step: a deadline that passes  *)
(* in between is one that passed just before.                                *)
(*                                                                          *)
(* self._generation is left out: it differs from a reader's own exactly when  *)
(* self._proc is not that reader's child, which _reap tests as well.          *)
(***************************************************************************)
EXTENDS Integers, Sequences

CONSTANTS
    Calls,       \* threads of the pool, each with one call at a time
    Stopper,     \* the thread that stops the transport
    Nobody,      \* the holder of a free lock
    PipeHolds,   \* frames that a pipe takes beyond what its child is reading
    MaxChildren, \* bound: a spawn past it fails
    MaxAsks      \* bound: the calls made in a run

Children == 1..MaxChildren

ASSUME FaceAssumption ==
    /\ Stopper \notin Calls /\ Nobody \notin Calls /\ Stopper # Nobody
    /\ PipeHolds \in Nat /\ MaxChildren \in Nat /\ MaxAsks \in Nat

VARIABLES
    current,    \* self._proc, 0 for None
    spawned,    \* children started so far
    child,      \* the children, and their pipes
    reader,     \* the reader thread of each child
    lastId,     \* the last of self._ids
    pending,    \* the ids in self._pending
    writer,     \* who holds self._write_lock
    asked,      \* calls made so far, which number the photographs
    calls,      \* what each thread is doing
    stopper     \* what stop() is doing

vars == <<current, spawned, child, reader, lastId, pending, writer, asked, calls, stopper>>

-----------------------------------------------------------------------------
(* State                                                                    *)

NoReply == 0
Unavailable == -1   \* the reply _fail_all makes up
NoChild == 0
NoFrame == [id |-> 0, photo |-> 0]
IdleCall == [stage |-> "idle", id |-> 0, photo |-> 0, served |-> 0, target |-> 0,
             reply |-> NoReply]
Fresh == [alive |-> TRUE, work |-> NoFrame, inbox |-> <<>>, outbox |-> <<>>]

Frame == [id: Nat, photo: Nat]
Child == [alive: BOOLEAN, work: Frame, inbox: Seq(Frame), outbox: Seq(Frame)]

\* The stages of reply_of.  "photo" is what was asked, "served" the child it was
\* sent to, "target" the child _kill took.
Stages == {"idle", "started", "send", "write", "waiting", "expired", "kill", "fail"}
Call == [stage: Stages, id: Nat, photo: Nat, reply: Nat \cup {Unavailable},
         served: Children \cup {NoChild}, target: Children \cup {NoChild}]

\* The tables, the pipes and the threads have their types.
TypeOK ==
    /\ current \in Children \cup {NoChild}
    /\ spawned \in Children \cup {0}
    /\ child \in [Children -> Child]
    /\ reader \in [Children -> {"none", "reading", "failing", "ended"}]
    /\ lastId \in Nat
    /\ pending \subseteq Nat
    /\ writer \in Calls \cup {Nobody}
    /\ asked \in Nat
    /\ calls \in [Calls -> Call]
    /\ stopper \in [stage: {"idle", "send", "wait", "fail", "done"},
                    target: Children \cup {NoChild}]

Init ==
    /\ current = NoChild
    /\ spawned = 0
    /\ child = [p \in Children |-> [Fresh EXCEPT !.alive = FALSE]]
    /\ reader = [p \in Children |-> "none"]
    /\ lastId = 0
    /\ pending = {}
    /\ writer = Nobody
    /\ asked = 0
    /\ calls = [c \in Calls |-> IdleCall]
    /\ stopper = [stage |-> "idle", target |-> NoChild]

-----------------------------------------------------------------------------
(* What several steps share                                                 *)

Running == current # NoChild /\ child[current].alive

\* A request that is in self._pending
Listed(c) ==
    /\ calls[c].stage \in {"send", "write", "waiting"}
    /\ calls[c].id \in pending

\* _fail_all: self._pending is emptied and every request in it is told so.
\* "others" are the calls once the thread that does this has moved on.
FailAll(others) ==
    /\ pending' = {}
    /\ calls' = [c \in Calls |->
                    IF Listed(c) THEN [others[c] EXCEPT !.reply = Unavailable] ELSE others[c]]

\* A child that dies answers nothing more; what it wrote can still be read.
Buried(p) ==
    [child EXCEPT ![p] = [alive |-> FALSE, work |-> NoFrame, inbox |-> <<>>, outbox |-> @.outbox]]

\* Broken on purpose, for the mutation checks: every child numbers its requests from 1.
SpawnRenumbering ==
    /\ spawned < MaxChildren
    /\ spawned' = spawned + 1
    /\ current' = spawned + 1
    /\ child' = [child EXCEPT ![spawned + 1] = Fresh]
    /\ reader' = [reader EXCEPT ![spawned + 1] = "reading"]
    /\ lastId' = 0

\* _spawn_locked
Spawn ==
    /\ spawned < MaxChildren
    /\ spawned' = spawned + 1
    /\ current' = spawned + 1
    /\ child' = [child EXCEPT ![spawned + 1] = Fresh]
    /\ reader' = [reader EXCEPT ![spawned + 1] = "reading"]
    /\ UNCHANGED lastId

-----------------------------------------------------------------------------
(* reply_of                                                                 *)

\* start(): a child that is running is used, a dead or missing one replaced.  A
\* spawn that fails ends the call and changes nothing.
Start(c) ==
    /\ calls[c].stage = "idle"
    /\ asked < MaxAsks
    /\ asked' = asked + 1
    /\ calls' = [calls EXCEPT ![c].stage = "started", ![c].photo = asked + 1]
    /\ IF Running THEN UNCHANGED <<current, spawned, child, reader, lastId>> ELSE Spawn
    /\ UNCHANGED <<pending, writer, stopper>>

Register(c) ==
    /\ calls[c].stage = "started"
    /\ Running
    /\ lastId' = lastId + 1
    /\ pending' = pending \cup {lastId'}
    /\ calls' = [calls EXCEPT ![c].stage = "send", ![c].id = lastId', ![c].served = current]
    /\ UNCHANGED <<current, spawned, child, reader, writer, asked, stopper>>

\* "the face model process is not running"
NotRunning(c) ==
    /\ calls[c].stage = "started"
    /\ ~Running
    /\ calls' = [calls EXCEPT ![c] = IdleCall]
    /\ UNCHANGED <<current, spawned, child, reader, lastId, pending, writer, asked, stopper>>

TakeWriteLock(c) ==
    /\ calls[c].stage = "send"
    /\ writer = Nobody
    /\ writer' = c
    /\ calls' = [calls EXCEPT ![c].stage = "write"]
    /\ UNCHANGED <<current, spawned, child, reader, lastId, pending, asked, stopper>>

\* A frame is written once the child reads it or the pipe has room for it.
Room(p) ==
    \/ Len(child[p].inbox) < PipeHolds
    \/ child[p].inbox = <<>> /\ child[p].work = NoFrame

Write(c) ==
    LET p == calls[c].served IN
    /\ calls[c].stage = "write"
    /\ child[p].alive
    /\ Room(p)
    /\ child' = [child EXCEPT ![p].inbox =
                    Append(@, [id |-> calls[c].id, photo |-> calls[c].photo])]
    /\ writer' = Nobody
    /\ calls' = [calls EXCEPT ![c].stage = "waiting"]
    /\ UNCHANGED <<current, spawned, reader, lastId, pending, asked, stopper>>

\* Broken on purpose, for the mutation checks: the request stays in self._pending.
WriteFailsListed(c) ==
    /\ calls[c].stage = "write"
    /\ ~child[calls[c].served].alive
    /\ writer' = Nobody
    /\ calls' = [calls EXCEPT ![c] = IdleCall]
    /\ UNCHANGED <<current, spawned, child, reader, lastId, pending, asked, stopper>>

\* "the model process went away while sending"
WriteFails(c) ==
    /\ calls[c].stage = "write"
    /\ ~child[calls[c].served].alive
    /\ writer' = Nobody
    /\ pending' = pending \ {calls[c].id}
    /\ calls' = [calls EXCEPT ![c] = IdleCall]
    /\ UNCHANGED <<current, spawned, child, reader, lastId, asked, stopper>>

\* The wait ends with a reply, which is returned or raised.
Answered(c) ==
    /\ calls[c].stage = "waiting"
    /\ calls[c].reply # NoReply
    /\ calls' = [calls EXCEPT ![c] = IdleCall]
    /\ UNCHANGED <<current, spawned, child, reader, lastId, pending, writer, asked, stopper>>

\* Broken on purpose, for the mutation checks: a dead child is left to its reader.
ExpireUnlessDead(c) ==
    /\ calls[c].stage = "waiting"
    /\ calls[c].reply = NoReply
    /\ child[calls[c].served].alive
    /\ pending' = pending \ {calls[c].id}
    /\ calls' = [calls EXCEPT ![c].stage = "expired"]
    /\ UNCHANGED <<current, spawned, child, reader, lastId, writer, asked, stopper>>

\* The wait ends at the deadline.
Expire(c) ==
    /\ calls[c].stage = "waiting"
    /\ calls[c].reply = NoReply
    /\ pending' = pending \ {calls[c].id}
    /\ calls' = [calls EXCEPT ![c].stage = "expired"]
    /\ UNCHANGED <<current, spawned, child, reader, lastId, writer, asked, stopper>>

\* _kill: the child that is current is taken out of service, ...
TakeChild(c) ==
    /\ calls[c].stage = "expired"
    /\ current' = NoChild
    /\ calls' = [calls EXCEPT ![c] =
                    IF current = NoChild THEN IdleCall
                    ELSE [@ EXCEPT !.stage = "kill", !.target = current]]
    /\ UNCHANGED <<spawned, child, reader, lastId, pending, writer, asked, stopper>>

\* ... killed, ...
Kill(c) ==
    /\ calls[c].stage = "kill"
    /\ child' = Buried(calls[c].target)
    /\ calls' = [calls EXCEPT ![c].stage = "fail"]
    /\ UNCHANGED <<current, spawned, reader, lastId, pending, writer, asked, stopper>>

\* ... and every request in flight is failed.
FailInFlight(c) ==
    /\ calls[c].stage = "fail"
    /\ FailAll([calls EXCEPT ![c] = IdleCall])
    /\ UNCHANGED <<current, spawned, child, reader, lastId, writer, asked, stopper>>

CallerStep(c) ==
    \/ Register(c) \/ NotRunning(c) \/ TakeWriteLock(c) \/ Write(c) \/ WriteFails(c)
    \/ Answered(c) \/ Expire(c) \/ TakeChild(c) \/ Kill(c) \/ FailInFlight(c)

-----------------------------------------------------------------------------
(* The reader thread of a child: _read_loop, _deliver, _reap                *)

\* A reply goes to the request with its id, or to nobody.
Deliver(p) ==
    LET reply == Head(child[p].outbox) IN
    /\ reader[p] = "reading"
    /\ child[p].outbox # <<>>
    /\ child' = [child EXCEPT ![p].outbox = Tail(@)]
    /\ pending' = pending \ {reply.id}
    /\ calls' = [c \in Calls |->
                    IF Listed(c) /\ calls[c].id = reply.id
                      THEN [calls[c] EXCEPT !.reply = reply.photo] ELSE calls[c]]
    /\ UNCHANGED <<current, spawned, reader, lastId, writer, asked, stopper>>

\* Broken on purpose, for the mutation checks: a late reader takes the successor out of service.
ReapWhoever(p) ==
    /\ reader[p] = "reading"
    /\ child[p].outbox = <<>>
    /\ ~child[p].alive
    /\ current' = NoChild
    /\ reader' = [reader EXCEPT ![p] = "failing"]
    /\ UNCHANGED <<spawned, child, lastId, pending, writer, asked, calls, stopper>>

\* The child's stdout ended.  If another child has taken over there is nothing to do.
Reap(p) ==
    /\ reader[p] = "reading"
    /\ child[p].outbox = <<>>
    /\ ~child[p].alive
    /\ current' = IF current = p THEN NoChild ELSE current
    /\ reader' = [reader EXCEPT ![p] = IF current = p THEN "failing" ELSE "ended"]
    /\ UNCHANGED <<spawned, child, lastId, pending, writer, asked, calls, stopper>>

FailReaped(p) ==
    /\ reader[p] = "failing"
    /\ FailAll(calls)
    /\ reader' = [reader EXCEPT ![p] = "ended"]
    /\ UNCHANGED <<current, spawned, child, lastId, writer, asked, stopper>>

ReaderStep(p) == Deliver(p) \/ Reap(p) \/ FailReaped(p)

-----------------------------------------------------------------------------
(* The child: face_worker.serve                                             *)

\* One request at a time.  Shutdown, a frame with no photograph, is answered at once.
TakeRequest(p) ==
    LET frame == Head(child[p].inbox) IN
    /\ child[p].alive
    /\ child[p].work = NoFrame
    /\ child[p].inbox # <<>>
    /\ child' = IF frame.photo = 0
                  THEN [Buried(p) EXCEPT ![p].outbox = Append(@, frame)]
                  ELSE [child EXCEPT ![p].inbox = Tail(@), ![p].work = frame]
    /\ UNCHANGED <<current, spawned, reader, lastId, pending, writer, asked, calls, stopper>>

Reply(p) ==
    /\ child[p].work # NoFrame
    /\ child' = [child EXCEPT ![p].outbox = Append(@, child[p].work), ![p].work = NoFrame]
    /\ UNCHANGED <<current, spawned, reader, lastId, pending, writer, asked, calls, stopper>>

\* Killed for its memory, crashed in native code, exited
Crash(p) ==
    /\ child[p].alive
    /\ child' = Buried(p)
    /\ UNCHANGED <<current, spawned, reader, lastId, pending, writer, asked, calls, stopper>>

-----------------------------------------------------------------------------
(* stop(), once in a run                                                    *)

Stop ==
    /\ stopper.stage = "idle"
    /\ current' = NoChild
    /\ stopper' = IF current = NoChild THEN [stopper EXCEPT !.stage = "done"]
                  ELSE [stage |-> "send", target |-> current]
    /\ UNCHANGED <<spawned, child, reader, lastId, pending, writer, asked, calls>>

\* The polite shutdown, once nobody else is writing.  It fits the pipe; a child
\* that has gone is no matter.
SendShutdown ==
    LET p == stopper.target IN
    /\ stopper.stage = "send"
    /\ writer = Nobody
    /\ lastId' = lastId + 1
    /\ child' = IF child[p].alive
                  THEN [child EXCEPT ![p].inbox = Append(@, [id |-> lastId', photo |-> 0])]
                  ELSE child
    /\ stopper' = [stopper EXCEPT !.stage = "wait"]
    /\ UNCHANGED <<current, spawned, reader, pending, writer, asked, calls>>

\* It has exited, or is killed when the time is up.
MakeSure ==
    /\ stopper.stage = "wait"
    /\ child' = Buried(stopper.target)
    /\ stopper' = [stopper EXCEPT !.stage = "fail"]
    /\ UNCHANGED <<current, spawned, reader, lastId, pending, writer, asked, calls>>

FailStopped ==
    /\ stopper.stage = "fail"
    /\ FailAll(calls)
    /\ stopper' = [stopper EXCEPT !.stage = "done"]
    /\ UNCHANGED <<current, spawned, child, reader, lastId, writer, asked>>

StopStep == SendShutdown \/ MakeSure \/ FailStopped

-----------------------------------------------------------------------------
ServiceNext ==
    \/ \E c \in Calls : Start(c) \/ CallerStep(c)
    \/ \E p \in Children : ReaderStep(p) \/ TakeRequest(p) \/ Reply(p) \/ Crash(p)

Next == ServiceNext \/ Stop \/ StopStep

Spec == Init /\ [][Next]_vars

\* The threads run, deadlines pass, and a child that is between two requests
\* reads its pipe.
ThreadsRun ==
    /\ \A c \in Calls : WF_vars(CallerStep(c))
    /\ \A p \in Children : WF_vars(ReaderStep(p)) /\ WF_vars(TakeRequest(p))
    /\ WF_vars(StopStep)

\* As long as it does not die, a child answers.
FairSpec == Spec /\ ThreadsRun /\ \A p \in Children : WF_vars(Reply(p))

\* Nobody stops the transport, and a child may hang in the middle of a request:
\* nothing makes it answer.
HangingSpec == Init /\ [][ServiceNext]_vars /\ ThreadsRun

-----------------------------------------------------------------------------
(* Safety                                                                   *)

\* No caller is ever handed the answer to another caller's photograph, whatever
\* is late, lost or sent to a child that was replaced.
OwnReply ==
    \A c \in Calls : calls[c].reply \in {NoReply, Unavailable, calls[c].photo}

\* A request is in self._pending exactly while its caller can still be answered:
\* none is left behind and none waits without being listed.
ListedWhileUnanswered ==
    /\ \A i \in pending : \E c \in Calls : Listed(c) /\ calls[c].id = i
    /\ \A c \in Calls : calls[c].stage \in {"send", "write", "waiting"} =>
            (calls[c].reply = NoReply <=> calls[c].id \in pending)

\* A child that is no longer the transport's own is about to be put down: the
\* models are never left in memory in a process nobody will end.
Ending(p) ==
    \/ \E c \in Calls : calls[c].stage = "kill" /\ calls[c].target = p
    \/ stopper.stage \in {"send", "wait"} /\ stopper.target = p

NoStrayChild == \A p \in Children : child[p].alive /\ p # current => Ending(p)

\* "Every request still in flight fails" when its child has died: once the reader
\* is done with that child, somebody has told its callers or is about to.
DeathFailsItsCalls ==
    \A c \in Calls :
        (/\ calls[c].stage = "waiting" /\ calls[c].reply = NoReply
         /\ reader[calls[c].served] = "ended")
        => \/ \E k \in Calls : calls[k].stage \in {"kill", "fail"}
           \/ \E p \in Children : reader[p] = "failing"
           \/ stopper.stage \in {"send", "wait", "fail"}

-----------------------------------------------------------------------------
(* Liveness                                                                 *)

\* Every call ends, with a reply or at its deadline, whichever children die and
\* whenever the transport is stopped.
EveryCallEnds == \A c \in Calls : calls[c].stage # "idle" ~> calls[c].stage = "idle"
=============================================================================
