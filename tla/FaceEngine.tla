----------------------------- MODULE FaceEngine -----------------------------
(***************************************************************************)
(* The face engine (backend/face_engine.py, class FaceEngine): one bounded    *)
(* queue and a pool of worker threads, in front of every call of the face     *)
(* models.  The pool starts on first use, stops when the application stops,    *)
(* and starts again when somebody submits after that.                        *)
(*                                                                          *)
(* Threads are alike, so they are counted: "idle" of them wait in              *)
(* queue.get, and each job in "running" has one.  queue.Queue's operations are  *)
(* atomic; start and shutdown exclude each other by _start_lock.              *)
(***************************************************************************)
EXTENDS Naturals, Sequences, FiniteSets

CONSTANTS
    Jobs,           \* submissions, one job each
    Nesting,        \* the jobs whose body submits to the engine it runs on
    Capacity,       \* face_inference_concurrency
    Depth,          \* the queue's maxsize
    MaxShutdowns    \* bound: the shutdowns of a run

\* What shutdown puts in the queue for each thread: None
Sentinel == "sentinel"

ASSUME JobsAssumption == IsFiniteSet(Jobs) /\ Nesting \subseteq Jobs /\ Sentinel \notin Jobs
ASSUME PoolAssumption ==
    Capacity \in Nat \ {0} /\ Depth \in Nat \ {0} /\ MaxShutdowns \in Nat

VARIABLES
    slots,          \* _slots, the queue
    stage,          \* how far each submission has come
    idle,           \* live threads that wait for a job
    running,        \* the jobs being run
    pool,           \* _threads is not empty
    closed,         \* _closed
    stopping,       \* sentinels that a shutdown, which holds _start_lock, has still to put
    shutdowns
vars == <<slots, stage, idle, running, pool, closed, stopping, shutdowns>>

Stages == {"new", "admission", "queued", "running", "done", "failed", "busy"}
Ended == {"done", "failed"}

TypeOK ==
    /\ slots \in Seq(Jobs \cup {Sentinel}) /\ Len(slots) <= Depth
    /\ stage \in [Jobs -> Stages]
    /\ idle \in Nat
    /\ running = {j \in Jobs : stage[j] = "running"}
    /\ pool \in BOOLEAN /\ closed \in BOOLEAN
    /\ stopping \in 0..Capacity
    /\ shutdowns \in Nat

Init ==
    /\ slots = <<>> /\ stage = [j \in Jobs |-> "new"]
    /\ idle = 0 /\ running = {}
    /\ pool = FALSE /\ closed = FALSE /\ stopping = 0 /\ shutdowns = 0

-----------------------------------------------------------------------------
(* submit                                                                   *)

\* start(): the threads of a pool that has none, whatever threads of an earlier pool still run
Start(j) ==
    /\ stage[j] = "new"
    /\ stopping = 0
    /\ stage' = [stage EXCEPT ![j] = "admission"]
    /\ IF pool THEN UNCHANGED <<idle, pool, closed>>
       ELSE idle' = idle + Capacity /\ pool' = TRUE /\ closed' = FALSE
    /\ UNCHANGED <<slots, running, stopping, shutdowns>>

Admit(j) ==
    /\ stage[j] = "admission"
    /\ Len(slots) < Depth
    /\ slots' = Append(slots, j)
    /\ stage' = [stage EXCEPT ![j] = "queued"]
    /\ UNCHANGED <<idle, running, pool, closed, stopping, shutdowns>>

\* FaceEngineBusy: full for wait_seconds
RefuseBusy(j) ==
    /\ stage[j] = "admission"
    /\ Len(slots) = Depth
    /\ stage' = [stage EXCEPT ![j] = "busy"]
    /\ UNCHANGED <<slots, idle, running, pool, closed, stopping, shutdowns>>

-----------------------------------------------------------------------------
(* _work, one thread's loop                                                 *)

TakeJob(j) ==
    /\ idle > 0 /\ slots # <<>> /\ Head(slots) = j
    /\ slots' = Tail(slots)
    /\ stage' = [stage EXCEPT ![j] = "running"]
    /\ running' = running \cup {j} /\ idle' = idle - 1
    /\ UNCHANGED <<pool, closed, stopping, shutdowns>>

\* A sentinel ends whichever thread takes it, one of the pool it was meant for or not
TakeSentinel ==
    /\ idle > 0 /\ slots # <<>> /\ Head(slots) = Sentinel
    /\ slots' = Tail(slots)
    /\ idle' = idle - 1
    /\ UNCHANGED <<stage, running, pool, closed, stopping, shutdowns>>

\* Broken on purpose, for the mutation checks: an exception ends the thread.
FinishLosingThread(j) ==
    /\ j \in running \ Nesting
    /\ \E outcome \in Ended :
          /\ stage' = [stage EXCEPT ![j] = outcome]
          /\ idle' = IF outcome = "failed" THEN idle ELSE idle + 1
    /\ running' = running \ {j}
    /\ UNCHANGED <<slots, pool, closed, stopping, shutdowns>>

\* The job's outcome, of either kind, is the future's, and the thread waits again
Finish(j) ==
    /\ j \in running \ Nesting
    /\ \E outcome \in Ended : stage' = [stage EXCEPT ![j] = outcome]
    /\ running' = running \ {j} /\ idle' = idle + 1
    /\ UNCHANGED <<slots, pool, closed, stopping, shutdowns>>

\* Broken on purpose, for the mutation checks: the job waits until the queue is empty.
NestUnchecked(j) ==
    /\ j \in running \cap Nesting
    /\ slots = <<>> /\ running = {j}
    /\ stage' = [stage EXCEPT ![j] = "failed"]
    /\ running' = running \ {j} /\ idle' = idle + 1
    /\ UNCHANGED <<slots, pool, closed, stopping, shutdowns>>

\* FaceEngineNested: the submission is refused without waiting, and the job fails with it
RefuseNested(j) ==
    /\ j \in running \cap Nesting
    /\ stage' = [stage EXCEPT ![j] = "failed"]
    /\ running' = running \ {j} /\ idle' = idle + 1
    /\ UNCHANGED <<slots, pool, closed, stopping, shutdowns>>

-----------------------------------------------------------------------------
(* shutdown                                                                 *)

BeginShutdown ==
    /\ shutdowns < MaxShutdowns
    /\ stopping = 0 /\ ~closed
    /\ closed' = TRUE
    /\ stopping' = IF pool THEN Capacity ELSE 0
    /\ shutdowns' = shutdowns + 1
    /\ UNCHANGED <<slots, stage, idle, running, pool>>

\* Broken on purpose, for the mutation checks: the sentinel overtakes the waiting jobs.
PutSentinelFirst ==
    /\ stopping > 0
    /\ Len(slots) < Depth
    /\ slots' = <<Sentinel>> \o slots
    /\ stopping' = stopping - 1
    /\ pool' = (stopping > 1)
    /\ UNCHANGED <<stage, idle, running, closed, shutdowns>>

PutSentinel ==
    /\ stopping > 0
    /\ Len(slots) < Depth
    /\ slots' = Append(slots, Sentinel)
    /\ stopping' = stopping - 1
    /\ pool' = (stopping > 1)
    /\ UNCHANGED <<stage, idle, running, closed, shutdowns>>

\* queue.Full: the threads that get no sentinel are forgotten, and live on
GiveUpSentinels ==
    /\ stopping > 0
    /\ Len(slots) = Depth
    /\ stopping' = 0 /\ pool' = FALSE
    /\ UNCHANGED <<slots, stage, idle, running, closed, shutdowns>>

-----------------------------------------------------------------------------
Submitting(j) == Start(j) \/ Admit(j) \/ RefuseBusy(j)
Running(j) == Finish(j) \/ RefuseNested(j)
Take == TakeSentinel \/ \E j \in Jobs : TakeJob(j)
Stopping == PutSentinel \/ GiveUpSentinels

Next ==
    \/ \E j \in Jobs : Submitting(j) \/ Running(j)
    \/ Take
    \/ BeginShutdown \/ Stopping

Spec == Init /\ [][Next]_vars

\* Threads run, a model call ends, and a wait for admission has a deadline.  Nobody has
\* to submit anything, or to shut the engine down.
Fairness ==
    /\ WF_vars(Take) /\ WF_vars(Stopping)
    /\ \A j \in Jobs : WF_vars(Admit(j) \/ RefuseBusy(j)) /\ WF_vars(Running(j))

FairSpec == Spec /\ Fairness

-----------------------------------------------------------------------------
(* Safety                                                                   *)

Sentinels == {k \in DOMAIN slots : slots[k] = Sentinel}

\* A pool that counts as started has its workers, although a sentinel may end a thread of a
\* later pool than the one it was put for: the live threads are enough for every sentinel in
\* the queue, and for the pool beside them.  Otherwise "if self._threads: return self" would
\* answer for a pool that nobody serves.
EnoughWorkers ==
    idle + Cardinality(running) >=
        Cardinality(Sentinels) +
            (IF stopping > 0 THEN stopping ELSE IF pool THEN Capacity ELSE 0)

-----------------------------------------------------------------------------
(* Progress                                                                 *)

\* While the engine is not shut down, a job that was accepted is run: no earlier shutdown has
\* left a sentinel too many, no job that fails or nests takes its thread with it.  A job that
\* was admitted behind the sentinels of a shutdown is run once somebody starts the pool again.
AcceptedJobIsRun ==
    \A j \in Jobs : (stage[j] = "queued" /\ pool /\ ~closed) ~> (stage[j] \in Ended \/ closed)

\* "A sentinel per worker goes behind the waiting jobs, so a job that was accepted is still
\* run": a job that is accepted before the shutdown has put its last sentinel is run, also
\* when the queue has no room for the sentinels.
ShutdownRunsWhatWaits ==
    \A j \in Jobs : (stage[j] = "queued" /\ stopping > 0) ~> (stage[j] \in Ended)

-----------------------------------------------------------------------------
(* What the source says of itself and the code does not do (README)         *)

\* "One queue, a fixed number of worker threads": no more jobs run at once than the capacity.
CapacityIsFixed == Cardinality(running) <= Capacity
=============================================================================
