-------------------------- MODULE FaceEngineProofs --------------------------
(***************************************************************************)
(* For every number of jobs, every capacity and depth, and every number of    *)
(* shutdowns: types, and a pool that counts as started has its threads.        *)
(***************************************************************************)
EXTENDS FaceEngine, FiniteSetTheorems, FunctionTheorems, TLAPS

-----------------------------------------------------------------------------
(* Counting the sentinels of a queue                                        *)

SentinelsOf(q) == {k \in DOMAIN q : q[k] = Sentinel}

\* A queue holds finitely many sentinels.
LEMMA FiniteSentinels ==
    ASSUME NEW q \in Seq(Jobs \cup {Sentinel})
    PROVE  IsFiniteSet(SentinelsOf(q)) /\ Cardinality(SentinelsOf(q)) \in Nat
<1>1. IsFiniteSet(1 .. Len(q))
  BY FS_Interval
<1>2. SentinelsOf(q) \subseteq 1 .. Len(q)
  BY DEF SentinelsOf
<1>. QED  BY <1>1, <1>2, FS_Subset, FS_CardinalityType

\* A job that is appended is no sentinel; a sentinel that is appended is one more.
LEMMA AppendCounts ==
    ASSUME NEW q \in Seq(Jobs \cup {Sentinel}), NEW e \in Jobs \cup {Sentinel}
    PROVE  /\ e \in Jobs => SentinelsOf(Append(q, e)) = SentinelsOf(q)
           /\ e = Sentinel =>
                 Cardinality(SentinelsOf(Append(q, e))) = Cardinality(SentinelsOf(q)) + 1
<1>1. CASE e \in Jobs
  <2>1. e # Sentinel
    BY <1>1, JobsAssumption
  <2>. QED  BY <2>1 DEF SentinelsOf
<1>2. CASE e = Sentinel
  <2>1. SentinelsOf(Append(q, e)) = SentinelsOf(q) \cup {Len(q) + 1}
    BY <1>2 DEF SentinelsOf
  <2>2. Len(q) + 1 \notin SentinelsOf(q)
    BY DEF SentinelsOf
  <2>3. Cardinality(SentinelsOf(q) \cup {Len(q) + 1}) = Cardinality(SentinelsOf(q)) + 1
    BY <2>2, FiniteSentinels, FS_AddElement
  <2>. QED  BY <1>2, <2>1, <2>3, JobsAssumption
<1>. QED  BY <1>1, <1>2

\* Taking a job leaves the sentinels; taking a sentinel leaves one fewer.
LEMMA TailCounts ==
    ASSUME NEW q \in Seq(Jobs \cup {Sentinel}), q # <<>>
    PROVE  Cardinality(SentinelsOf(q)) =
               Cardinality(SentinelsOf(Tail(q))) + (IF Head(q) = Sentinel THEN 1 ELSE 0)
<1>. DEFINE later == SentinelsOf(q) \ {1}
            shift == [k \in SentinelsOf(Tail(q)) |-> k + 1]
<1>1. Tail(q) \in Seq(Jobs \cup {Sentinel}) /\ Len(Tail(q)) = Len(q) - 1
  OBVIOUS
<1>2. \A k \in SentinelsOf(Tail(q)) : k \in Nat /\ k + 1 \in later
  BY <1>1 DEF SentinelsOf
<1>3. \A m \in later : m - 1 \in SentinelsOf(Tail(q)) /\ (m - 1) + 1 = m
  BY <1>1 DEF SentinelsOf
<1>4. shift \in Bijection(SentinelsOf(Tail(q)), later)
  <2>1. shift \in [SentinelsOf(Tail(q)) -> later]
    BY <1>2
  <2>2. \A a, b \in SentinelsOf(Tail(q)) : shift[a] = shift[b] => a = b
    BY <1>2
  <2>3. \A m \in later : \E k \in SentinelsOf(Tail(q)) : shift[k] = m
    BY <1>3
  <2>. QED  BY <2>1, <2>2, <2>3, Fun_IsBij
<1>5. Cardinality(SentinelsOf(Tail(q))) = Cardinality(later)
  <2>1. IsFiniteSet(SentinelsOf(Tail(q)))
    BY <1>1, FiniteSentinels
  <2>2. ExistsBijection(SentinelsOf(Tail(q)), later)
    BY <1>4 DEF ExistsBijection
  <2>. QED  BY <2>1, <2>2, FS_Bijection
<1>6. 1 \in SentinelsOf(q) <=> Head(q) = Sentinel
  BY DEF SentinelsOf
<1>7. Cardinality(later) =
          IF 1 \in SentinelsOf(q) THEN Cardinality(SentinelsOf(q)) - 1
          ELSE Cardinality(SentinelsOf(q))
  BY FiniteSentinels, FS_RemoveElement
<1>. QED  BY <1>5, <1>6, <1>7, FiniteSentinels

-----------------------------------------------------------------------------
(* Types                                                                    *)

\* A job that waits in the queue waits there once, and counts as waiting.
QueueInv ==
    /\ \A k \in DOMAIN slots : slots[k] \in Jobs => stage[slots[k]] = "queued"
    /\ \A k, m \in DOMAIN slots : slots[k] = slots[m] /\ slots[k] \in Jobs => k = m

IInv == TypeOK /\ QueueInv

\* What a step takes from the front of the queue leaves the rest in order.
LEMMA TailOfSlots ==
    ASSUME IInv, slots # <<>>, slots' = Tail(slots)
    PROVE  /\ slots' \in Seq(Jobs \cup {Sentinel}) /\ Len(slots') <= Depth
           /\ \A k \in DOMAIN slots' : k + 1 \in DOMAIN slots /\ slots'[k] = slots[k + 1]
           /\ \A k \in DOMAIN slots' : slots'[k] \in Jobs => slots'[k] # Head(slots)
           /\ Head(slots) \in Jobs \cup {Sentinel}
<1>1. slots \in Seq(Jobs \cup {Sentinel}) /\ Len(slots) <= Depth /\ Depth \in Nat
  BY PoolAssumption DEF IInv, TypeOK
<1>2. slots' \in Seq(Jobs \cup {Sentinel}) /\ Len(slots') = Len(slots) - 1
  BY <1>1
<1>3. \A k \in DOMAIN slots' : k \in Nat /\ k # 0 /\ k + 1 \in DOMAIN slots /\ slots'[k] = slots[k + 1]
  BY <1>1, <1>2
<1>4. Head(slots) = slots[1] /\ 1 \in DOMAIN slots
  BY <1>1
<1>5. ASSUME NEW k \in DOMAIN slots', slots'[k] \in Jobs
      PROVE  slots'[k] # Head(slots)
  <2>1. k + 1 # 1 /\ k + 1 \in DOMAIN slots /\ slots'[k] = slots[k + 1]
    BY <1>3
  <2>. QED  BY <1>4, <1>5, <2>1 DEF IInv, QueueInv
<1>. QED  BY <1>1, <1>2, <1>3, <1>4, <1>5

\* A job that moves from one stage to another, outside the queue, disturbs nothing in it.
LEMMA StageKeepsQueue ==
    ASSUME IInv, NEW j \in Jobs, stage[j] # "queued", NEW st, slots' = slots,
           stage' = [stage EXCEPT ![j] = st]
    PROVE  QueueInv'
<1>1. \A i \in Jobs \ {j} : stage'[i] = stage[i]
  BY DEF IInv, TypeOK
<1>2. \A k \in DOMAIN slots : slots[k] \in Jobs => slots[k] # j
  BY DEF IInv, QueueInv
<1>. QED  BY <1>1, <1>2 DEF IInv, QueueInv

\* What a step adds to the queue is a sentinel, or a job that waits from then on.
LEMMA AppendKeepsQueue ==
    ASSUME IInv, NEW e \in Jobs \cup {Sentinel}, Len(slots) < Depth, slots' = Append(slots, e),
           \A i \in Jobs : i # e => stage'[i] = stage[i],
           e \in Jobs => stage[e] # "queued" /\ stage'[e] = "queued"
    PROVE  QueueInv' /\ slots' \in Seq(Jobs \cup {Sentinel}) /\ Len(slots') <= Depth
<1>1. slots \in Seq(Jobs \cup {Sentinel}) /\ Len(slots) \in Nat /\ Depth \in Nat
  BY PoolAssumption DEF IInv, TypeOK
<1>2. slots' \in Seq(Jobs \cup {Sentinel}) /\ Len(slots') = Len(slots) + 1
  BY <1>1
<1>3. \A k \in DOMAIN slots' : \/ k \in DOMAIN slots /\ slots'[k] = slots[k]
                               \/ k = Len(slots) + 1 /\ slots'[k] = e
  BY <1>1, <1>2
<1>4. \A k \in DOMAIN slots : slots[k] \in Jobs => slots[k] # e
  BY DEF IInv, QueueInv
<1>5. QueueInv'
  BY <1>3, <1>4 DEF IInv, QueueInv
<1>. QED  BY <1>1, <1>2, <1>5

\* Taking a job or a sentinel keeps the rest of the queue as it was.
LEMMA TakeKeepsQueue ==
    ASSUME IInv, slots # <<>>, slots' = Tail(slots),
           \A i \in Jobs : i # Head(slots) => stage'[i] = stage[i]
    PROVE  QueueInv'
<1>1. \A k \in DOMAIN slots' : /\ k + 1 \in DOMAIN slots /\ slots'[k] = slots[k + 1]
                               /\ slots'[k] \in Jobs => slots'[k] # Head(slots)
  BY TailOfSlots
<1>2. \A k \in DOMAIN slots' : slots'[k] \in Jobs => stage'[slots'[k]] = "queued"
  BY <1>1 DEF IInv, QueueInv
<1>3. ASSUME NEW k \in DOMAIN slots', NEW m \in DOMAIN slots',
             slots'[k] = slots'[m], slots'[k] \in Jobs
      PROVE  k = m
  <2>1. k + 1 = m + 1
    BY <1>1, <1>3 DEF IInv, QueueInv
  <2>2. k \in Int /\ m \in Int
    BY TailOfSlots
  <2>. QED  BY <2>1, <2>2
<1>. QED  BY <1>2, <1>3 DEF QueueInv

\* A submission keeps the types and the queue.
LEMMA SubmitKeepsTypes ==
    ASSUME IInv, NEW j \in Jobs, Submitting(j)
    PROVE  IInv'
<1>0. /\ slots \in Seq(Jobs \cup {Sentinel}) /\ Len(slots) <= Depth
      /\ stage \in [Jobs -> Stages] /\ idle \in Nat /\ Capacity \in Nat
      /\ running = {i \in Jobs : stage[i] = "running"}
      /\ pool \in BOOLEAN /\ closed \in BOOLEAN /\ stopping \in 0..Capacity /\ shutdowns \in Nat
  BY PoolAssumption DEF IInv, TypeOK
<1>1. CASE Start(j)
  <2>1. stage' \in [Jobs -> Stages] /\ running' = {i \in Jobs : stage'[i] = "running"}
    BY <1>0, <1>1 DEF Start, Stages
  <2>2. idle' \in Nat /\ pool' \in BOOLEAN /\ closed' \in BOOLEAN
    <3>1. CASE pool
      BY <1>0, <1>1, <3>1, Zenon DEF Start
    <3>2. CASE ~pool
      <4>1. idle' = idle + Capacity
        BY <1>1, <3>2 DEF Start
      <4>2. pool' \in BOOLEAN /\ closed' \in BOOLEAN
        BY <1>1, <3>2, Zenon DEF Start
      <4>. QED  BY <1>0, <4>1, <4>2
    <3>. QED  BY <3>1, <3>2
  <2>3. QueueInv'
    BY <1>1, StageKeepsQueue DEF Start
  <2>. QED  BY <1>0, <1>1, <2>1, <2>2, <2>3 DEF Start, IInv, TypeOK
<1>2. CASE Admit(j)
  <2>1. stage' \in [Jobs -> Stages] /\ running' = {i \in Jobs : stage'[i] = "running"}
    BY <1>0, <1>2 DEF Admit, Stages
  <2>2. /\ \A i \in Jobs : i # j => stage'[i] = stage[i]
        /\ stage[j] # "queued" /\ stage'[j] = "queued"
        /\ slots' = Append(slots, j) /\ Len(slots) < Depth
    BY <1>0, <1>2 DEF Admit
  <2>3. QueueInv' /\ slots' \in Seq(Jobs \cup {Sentinel}) /\ Len(slots') <= Depth
    BY <2>2, AppendKeepsQueue
  <2>. QED  BY <1>0, <1>2, <2>1, <2>3 DEF Admit, IInv, TypeOK
<1>3. CASE RefuseBusy(j)
  <2>1. stage' \in [Jobs -> Stages] /\ running' = {i \in Jobs : stage'[i] = "running"}
    BY <1>0, <1>3 DEF RefuseBusy, Stages
  <2>2. QueueInv'
    BY <1>3, StageKeepsQueue DEF RefuseBusy
  <2>. QED  BY <1>0, <1>3, <2>1, <2>2 DEF RefuseBusy, IInv, TypeOK
<1>. QED  BY <1>1, <1>2, <1>3 DEF Submitting

\* A thread that ends a job, or takes one or a sentinel, keeps them.
LEMMA WorkKeepsTypes ==
    ASSUME IInv, Take \/ \E j \in Jobs : Running(j)
    PROVE  IInv'
<1>0. /\ slots \in Seq(Jobs \cup {Sentinel}) /\ Len(slots) <= Depth
      /\ stage \in [Jobs -> Stages] /\ idle \in Nat
      /\ running = {i \in Jobs : stage[i] = "running"}
      /\ pool \in BOOLEAN /\ closed \in BOOLEAN /\ stopping \in 0..Capacity /\ shutdowns \in Nat
  BY DEF IInv, TypeOK
<1>1. ASSUME NEW j \in Jobs, TakeJob(j) PROVE IInv'
  <2>1. stage' \in [Jobs -> Stages] /\ running' = {i \in Jobs : stage'[i] = "running"}
    BY <1>0, <1>1 DEF TakeJob, Stages
  <2>2. slots # <<>> /\ slots' = Tail(slots) /\ \A i \in Jobs : i # Head(slots) => stage'[i] = stage[i]
    BY <1>0, <1>1 DEF TakeJob
  <2>3. QueueInv' /\ slots' \in Seq(Jobs \cup {Sentinel}) /\ Len(slots') <= Depth
    BY <2>2, TakeKeepsQueue, TailOfSlots
  <2>4. idle' \in Nat
    BY <1>0, <1>1 DEF TakeJob
  <2>. QED  BY <1>0, <1>1, <2>1, <2>3, <2>4 DEF TakeJob, IInv, TypeOK
<1>2. CASE TakeSentinel
  <2>1. slots # <<>> /\ slots' = Tail(slots) /\ stage' = stage
    BY <1>2 DEF TakeSentinel
  <2>2. QueueInv' /\ slots' \in Seq(Jobs \cup {Sentinel}) /\ Len(slots') <= Depth
    BY <2>1, TakeKeepsQueue, TailOfSlots
  <2>3. idle' \in Nat
    BY <1>0, <1>2 DEF TakeSentinel
  <2>. QED  BY <1>0, <1>2, <2>1, <2>2, <2>3 DEF TakeSentinel, IInv, TypeOK
<1>3. ASSUME NEW j \in Jobs, Finish(j) PROVE IInv'
  <2>1. PICK outcome \in Ended : stage' = [stage EXCEPT ![j] = outcome]
    BY <1>3 DEF Finish
  <2>2. stage' \in [Jobs -> Stages] /\ running' = {i \in Jobs : stage'[i] = "running"}
    BY <1>0, <1>3, <2>1 DEF Finish, Stages, Ended
  <2>3. stage[j] = "running"
    BY <1>0, <1>3 DEF Finish
  <2>4. QueueInv'
    BY <1>3, <2>1, <2>3, StageKeepsQueue DEF Finish
  <2>. QED  BY <1>0, <1>3, <2>2, <2>4 DEF Finish, IInv, TypeOK
<1>4. ASSUME NEW j \in Jobs, RefuseNested(j) PROVE IInv'
  <2>1. stage' \in [Jobs -> Stages] /\ running' = {i \in Jobs : stage'[i] = "running"}
    BY <1>0, <1>4 DEF RefuseNested, Stages
  <2>2. stage[j] = "running"
    BY <1>0, <1>4 DEF RefuseNested
  <2>3. QueueInv'
    BY <1>4, <2>2, StageKeepsQueue DEF RefuseNested
  <2>. QED  BY <1>0, <1>4, <2>1, <2>3 DEF RefuseNested, IInv, TypeOK
<1>. QED  BY <1>1, <1>2, <1>3, <1>4 DEF Take, Running

\* So does every step of a shutdown.
LEMMA ShutdownKeepsTypes ==
    ASSUME IInv, BeginShutdown \/ Stopping
    PROVE  IInv'
<1>0. /\ slots \in Seq(Jobs \cup {Sentinel}) /\ Len(slots) <= Depth
      /\ stage \in [Jobs -> Stages] /\ idle \in Nat /\ Capacity \in Nat
      /\ running = {i \in Jobs : stage[i] = "running"}
      /\ pool \in BOOLEAN /\ closed \in BOOLEAN /\ stopping \in 0..Capacity /\ shutdowns \in Nat
  BY PoolAssumption DEF IInv, TypeOK
<1>1. CASE BeginShutdown
  BY <1>0, <1>1 DEF BeginShutdown, IInv, TypeOK, QueueInv
<1>2. CASE PutSentinel
  <2>1. Sentinel \notin Jobs
    BY JobsAssumption
  <2>2. QueueInv' /\ slots' \in Seq(Jobs \cup {Sentinel}) /\ Len(slots') <= Depth
    BY <1>2, <2>1, AppendKeepsQueue DEF PutSentinel
  <2>3. stopping' \in 0..Capacity /\ pool' \in BOOLEAN
    BY <1>0, <1>2 DEF PutSentinel
  <2>. QED  BY <1>0, <1>2, <2>2, <2>3 DEF PutSentinel, IInv, TypeOK
<1>3. CASE GiveUpSentinels
  <2>1. stopping' \in 0..Capacity
    BY <1>0, <1>3 DEF GiveUpSentinels
  <2>2. pool' \in BOOLEAN
    BY <1>3, Zenon DEF GiveUpSentinels
  <2>3. /\ slots' = slots /\ stage' = stage /\ idle' = idle /\ running' = running
        /\ closed' = closed /\ shutdowns' = shutdowns
    BY <1>3 DEF GiveUpSentinels
  <2>. QED  BY <1>0, <2>1, <2>2, <2>3 DEF IInv, TypeOK, QueueInv
<1>. QED  BY <1>1, <1>2, <1>3 DEF Stopping

\* Types, and what the queue and the stages say of each other, hold in every reachable state.
THEOREM QueueAndTypes == Spec => []IInv
<1>1. Init => IInv
  <2>. SUFFICES ASSUME Init PROVE IInv
    OBVIOUS
  <2>1. <<>> \in Seq(Jobs \cup {Sentinel}) /\ Len(<<>>) = 0 /\ DOMAIN <<>> = {}
    OBVIOUS
  <2>2. pool \in BOOLEAN /\ closed \in BOOLEAN
    BY Zenon DEF Init
  <2>3. /\ slots \in Seq(Jobs \cup {Sentinel}) /\ Len(slots) <= Depth
        /\ stage \in [Jobs -> Stages] /\ idle \in Nat
        /\ running = {j \in Jobs : stage[j] = "running"}
        /\ stopping \in 0..Capacity /\ shutdowns \in Nat
    BY <2>1, PoolAssumption DEF Init, Stages
  <2>4. QueueInv
    BY <2>1 DEF Init, QueueInv
  <2>. QED  BY <2>2, <2>3, <2>4, Zenon DEF IInv, TypeOK
<1>2. IInv /\ [Next]_vars => IInv'
  <2>. SUFFICES ASSUME IInv, [Next]_vars PROVE IInv'
    OBVIOUS
  <2>1. ASSUME NEW j \in Jobs, Submitting(j) PROVE IInv'
    BY <2>1, SubmitKeepsTypes
  <2>2. CASE Take \/ \E j \in Jobs : Running(j)
    BY <2>2, WorkKeepsTypes
  <2>3. CASE BeginShutdown \/ Stopping
    BY <2>3, ShutdownKeepsTypes
  <2>4. CASE UNCHANGED vars
    BY <2>4 DEF vars, IInv, TypeOK, QueueInv
  <2>. QED  BY <2>1, <2>2, <2>3, <2>4 DEF Next
<1>. QED  BY <1>1, <1>2, PTL DEF Spec

-----------------------------------------------------------------------------
(* The pool                                                                 *)

Owed == IF stopping > 0 THEN stopping ELSE IF pool THEN Capacity ELSE 0

\* The counts the property adds up are natural numbers.
LEMMA CountsAreNaturals ==
    ASSUME IInv
    PROVE  /\ Sentinels = SentinelsOf(slots)
           /\ IsFiniteSet(running) /\ Cardinality(running) \in Nat
           /\ Cardinality(Sentinels) \in Nat /\ Owed \in Nat /\ idle \in Nat
<1>1. Sentinels = SentinelsOf(slots)
  BY DEF Sentinels, SentinelsOf
<1>2. slots \in Seq(Jobs \cup {Sentinel}) /\ running \subseteq Jobs /\ idle \in Nat
  BY DEF IInv, TypeOK
<1>3. IsFiniteSet(running) /\ Cardinality(running) \in Nat
  BY <1>2, JobsAssumption, FS_Subset, FS_CardinalityType
<1>4. Owed \in Nat
  BY PoolAssumption DEF IInv, TypeOK, Owed
<1>. QED  BY <1>1, <1>2, <1>3, <1>4, FiniteSentinels

\* A job's thread is one the job holds: it is counted once when it is taken and when it ends.
LEMMA HoldingThreads ==
    ASSUME IInv, NEW j \in Jobs
    PROVE  /\ j \notin running => Cardinality(running \cup {j}) = Cardinality(running) + 1
           /\ j \in running => Cardinality(running \ {j}) = Cardinality(running) - 1
BY CountsAreNaturals, FS_AddElement, FS_RemoveElement

\* A pool that counts as started has its threads, and every sentinel one to end.
THEOREM PoolHasItsThreads == Spec => []EnoughWorkers
<1>. DEFINE Live == idle + Cardinality(running)
            Inv == Live >= Cardinality(Sentinels) + Owed
<1>0. EnoughWorkers <=> Inv
  BY DEF EnoughWorkers, Owed
<1>1. Init => Inv
  <2>. SUFFICES ASSUME Init PROVE Inv
    OBVIOUS
  <2>1. Sentinels = {} /\ Cardinality(Sentinels) = 0 /\ Cardinality(running) = 0
    BY FS_EmptySet DEF Init, Sentinels
  <2>. QED  BY <2>1 DEF Init, Owed
<1>2. ASSUME IInv, IInv', [Next]_vars, Inv
      PROVE  Inv'
  <2>0. /\ slots \in Seq(Jobs \cup {Sentinel}) /\ Capacity \in Nat \ {0}
        /\ Sentinels = SentinelsOf(slots) /\ Sentinels' = SentinelsOf(slots')
        /\ Cardinality(running) \in Nat /\ Cardinality(Sentinels) \in Nat
        /\ Owed \in Nat /\ idle \in Nat /\ stopping \in Nat
    BY <1>2, CountsAreNaturals, PoolAssumption DEF IInv, TypeOK, Sentinels, SentinelsOf
  <2>1. CASE UNCHANGED vars
    BY <1>2, <2>1 DEF vars, Sentinels, Owed
  <2>2. ASSUME NEW j \in Jobs, Start(j) PROVE Inv'
    <3>1. Sentinels' = Sentinels /\ running' = running
      BY <2>2 DEF Start, Sentinels
    <3>2. \/ Owed' = Owed /\ idle' = idle
          \/ Owed' = Owed + Capacity /\ idle' = idle + Capacity
      BY <2>0, <2>2 DEF Start, Owed
    <3>. QED  BY <1>2, <2>0, <3>1, <3>2
  <2>3. ASSUME NEW j \in Jobs, Admit(j) PROVE Inv'
    <3>1. Sentinels' = Sentinels
      BY <2>0, <2>3, AppendCounts DEF Admit
    <3>. QED  BY <1>2, <2>3, <3>1 DEF Admit, Owed
  <2>4. ASSUME NEW j \in Jobs, RefuseBusy(j) PROVE Inv'
    BY <1>2, <2>4 DEF RefuseBusy, Sentinels, Owed
  <2>5. ASSUME NEW j \in Jobs, TakeJob(j) PROVE Inv'
    <3>1. j \notin running
      BY <1>2, <2>0, <2>5 DEF TakeJob, IInv, TypeOK, QueueInv
    <3>2. Cardinality(running') = Cardinality(running) + 1 /\ idle' = idle - 1
      BY <1>2, <2>5, <3>1, HoldingThreads DEF TakeJob
    <3>3. Head(slots) # Sentinel
      BY <2>5, JobsAssumption DEF TakeJob
    <3>4. Cardinality(SentinelsOf(slots)) = Cardinality(SentinelsOf(slots')) + 0
      BY <2>0, <2>5, <3>3, TailCounts DEF TakeJob
    <3>5. Cardinality(Sentinels') \in Nat
      BY <1>2, CountsAreNaturals, FiniteSentinels, <2>0 DEF IInv, TypeOK
    <3>6. Owed' = Owed
      BY <2>5 DEF TakeJob, Owed
    <3>. QED  BY <1>2, <2>0, <3>2, <3>4, <3>5, <3>6
  <2>6. CASE TakeSentinel
    <3>1. Cardinality(SentinelsOf(slots)) = Cardinality(SentinelsOf(slots')) + 1
      BY <2>0, <2>6, TailCounts DEF TakeSentinel
    <3>2. Cardinality(Sentinels') \in Nat
      BY <1>2, FiniteSentinels, <2>0 DEF IInv, TypeOK
    <3>3. Owed' = Owed /\ running' = running /\ idle' = idle - 1
      BY <2>6 DEF TakeSentinel, Owed
    <3>. QED  BY <1>2, <2>0, <3>1, <3>2, <3>3
  <2>7. ASSUME NEW j \in Jobs, Running(j) PROVE Inv'
    <3>1. Cardinality(running') = Cardinality(running) - 1 /\ idle' = idle + 1
      BY <1>2, <2>7, HoldingThreads DEF Running, Finish, RefuseNested
    <3>2. Sentinels' = Sentinels /\ Owed' = Owed
      BY <2>7 DEF Running, Finish, RefuseNested, Sentinels, Owed
    <3>. QED  BY <1>2, <2>0, <3>1, <3>2
  <2>8. CASE BeginShutdown
    <3>1. Sentinels' = Sentinels /\ running' = running /\ idle' = idle
      BY <2>8 DEF BeginShutdown, Sentinels
    <3>2. Owed' = Owed
      BY <2>0, <2>8 DEF BeginShutdown, Owed
    <3>. QED  BY <1>2, <3>1, <3>2
  <2>9. CASE PutSentinel
    <3>1. Cardinality(Sentinels') = Cardinality(Sentinels) + 1
      BY <2>0, <2>9, AppendCounts DEF PutSentinel
    <3>2. running' = running /\ idle' = idle
      BY <2>9 DEF PutSentinel
    <3>3. Owed' = Owed - 1
      <4>1. Owed = stopping /\ stopping' = stopping - 1 /\ stopping > 0
        BY <2>9 DEF PutSentinel, Owed
      <4>2. CASE stopping > 1
        BY <2>0, <4>1, <4>2 DEF Owed
      <4>3. CASE ~(stopping > 1)
        <5>1. ~pool'
          BY <2>9, <4>3, Zenon DEF PutSentinel
        <5>2. stopping' = 0
          BY <2>0, <4>1, <4>3
        <5>3. Owed' = 0
          BY <5>1, <5>2 DEF Owed
        <5>. QED  BY <2>0, <4>1, <5>2, <5>3
      <4>. QED  BY <4>2, <4>3
    <3>. QED  BY <1>2, <2>0, <3>1, <3>2, <3>3
  <2>10. CASE GiveUpSentinels
    <3>1. Sentinels' = Sentinels /\ running' = running /\ idle' = idle
      BY <2>10 DEF GiveUpSentinels, Sentinels
    <3>2. Owed' = 0
      BY <2>0, <2>10 DEF GiveUpSentinels, Owed
    <3>. QED  BY <1>2, <2>0, <3>1, <3>2
  <2>. QED
    BY <1>2, <2>1, <2>2, <2>3, <2>4, <2>5, <2>6, <2>7, <2>8, <2>9, <2>10
       DEF Next, Submitting, Take, Stopping
<1>3. IInv /\ IInv' /\ [Next]_vars /\ Inv => Inv'
  BY <1>2
<1>. QED  BY <1>0, <1>1, <1>3, QueueAndTypes, PTL DEF Spec
=============================================================================
