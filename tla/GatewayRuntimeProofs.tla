------------------------ MODULE GatewayRuntimeProofs ------------------------
(***************************************************************************)
(* Proofs about GatewayRuntime: for any number of workers and chunks, any  *)
(* size classes and any moment at which Shutdown begins, no pinned buffer  *)
(* outlives cuObjServer and the worker pool never sleeps on work.          *)
(***************************************************************************)
EXTENDS GatewayRuntime, WellFoundedInduction, TLAPS

-----------------------------------------------------------------------------
(* PickClass: a non-empty set of classes has a smallest member.            *)

LEMMA SmallestOf ==
    ASSUME NEW S \in SUBSET Nat, S # {}
    PROVE  \E m \in S : \A n \in S : m <= n
<1> DEFINE R == OpToRel(<, Nat)
<1>1. \E m \in S : \A n \in S : ~(<<n, m>> \in R)
  <2> HIDE DEF R
  <2>1. IsWellFoundedOn(R, Nat)
    BY NatLessThanWellFounded DEF R
  <2> QED
    BY Zenon, <2>1, WFMin
<1>2. \A m, n \in Nat : <<n, m>> \in R <=> n < m
  BY DEF OpToRel
<1> HIDE DEF R
<1>3. PICK m \in S : \A n \in S : ~(<<n, m>> \in R)
  BY <1>1
<1>4. \A n \in S : m \in Nat /\ n \in Nat /\ ~(n < m)
  BY Zenon, <1>2, <1>3
<1>5. \A n \in S : m <= n
  BY <1>4
<1> QED
  BY <1>3, <1>5

\* The class that PickClass returns is large enough, or the oversize one.
LEMMA PickClassIs ==
    ASSUME NEW size \in Nat
    PROVE  /\ PickClass(size) \in 1..Oversize
           /\ PickClass(size) \in Classes => SizeClasses[PickClass(size)] >= size
           /\ PickClass(size) # Oversize => PickClass(size) \in Classes
<1>1. Len(SizeClasses) \in Nat /\ \A c \in Classes : SizeClasses[c] \in Nat
  BY ClassAssumption DEF Classes
<1>2. CASE \E c \in Classes : SizeClasses[c] >= size
  <2> DEFINE S == {c \in Classes : SizeClasses[c] >= size}
  <2>1. S \in SUBSET Nat /\ S # {}
    BY <1>2 DEF Classes
  <2>2. PICK m \in S : \A n \in S : m <= n
    <3> HIDE DEF S
    <3> QED BY <2>1, SmallestOf
  <2>3. m \in Classes /\ SizeClasses[m] >= size
    BY <2>2
  <2>4. \A d \in Classes : d < m => SizeClasses[d] < size
    BY <1>1, <2>2 DEF Classes
  <2>5. /\ PickClass(size) \in Classes
        /\ SizeClasses[PickClass(size)] >= size
    BY <1>2, <2>3, <2>4 DEF PickClass
  <2> QED
    BY <1>1, <2>5 DEF Classes, Oversize
<1>3. CASE ~\E c \in Classes : SizeClasses[c] >= size
  BY <1>1, <1>3 DEF PickClass, Oversize, Classes
<1> QED
  BY <1>2, <1>3

-----------------------------------------------------------------------------
(* The strengthening.                                                      *)

\* Requests may be under way.
Open == {"serving", "sweeper", "joining"}

Pushed == {"notify_all", "notify_one", "done"}

Queued(t) == \E i \in 1..Len(queue) : queue[i] = t

\* A submitted task is in one place: on its way to the queue, in the queue, with
\* a worker, or run by its submitter.
PlaceOK(t) ==
    /\ Queued(t) =>
         /\ submit[t] \in Pushed
         /\ chunk[t].pos = "none"
         /\ \A w \in Workers : worker[w].task # t
    /\ submit[t] \notin Pushed => \A w \in Workers : worker[w].task # t
    /\ submit[t] \in {"idle", "check", "push"} => chunk[t].pos = "none"

OnePlace ==
    /\ \A i, j \in 1..Len(queue) : queue[i] = queue[j] => i = j
    /\ \A t \in Tasks : PlaceOK(t)

\* Nobody pushes, and no worker takes a task, while a worker is between its
\* test of the queue and cv_.wait.
MutexIsHeld == ~MutexFree => queue = <<>>

\* Outside the open phases nothing is under way; the pool is stopped, and a
\* worker leaves, only then.
QuietPhases ==
    /\ accepting => phase \in {"serving", "sweeper"}
    /\ phase \notin Open => \A t \in Tasks : Answered(t)
    /\ ~running => phase \notin Open \cup {"init", "init_ucx", "init_server"}
    /\ \A w \in Workers : worker[w].pos = "left" => ~running

\* A chunk holds a lease from Acquire to Release, of a class when it is put back.
LeaseOfChunk ==
    \A t \in Tasks :
        /\ lease[t] # 0 => chunk[t].pos \in {"leased", "putback"}
        /\ chunk[t].pos = "putback" => lease[t] \in Classes
        /\ chunk[t].pos = "leased" => lease[t] # 0

\* Without a buffer pool there is no free buffer, but for the one that
\* GdsExecutor::Stop is draining.
Drained ==
    /\ phase \in Open \cup {"init_ucx", "init_server"} => pool_set
    /\ ~pool_set /\ phase \notin {"gds_shut", "gds_drain"} =>
         \A c \in Classes : bucket[c] = 0
    /\ phase \in {"gds_shut", "gds_drain", "gds_reset", "ucx", "late_pool_flag",
                  "late_pool_notify", "late_pool_join", "down"} => ~pool_set

GInv ==
    /\ TypeOK /\ OnePlace /\ MutexIsHeld /\ QuietPhases /\ LeaseOfChunk /\ Drained
    /\ NoSleepOnWork

-----------------------------------------------------------------------------
LEMMA InitGInv == Init => GInv
<1> SUFFICES ASSUME Init PROVE GInv
  OBVIOUS
<1> USE DEF Init, WorkersInit, BuffersInit
<1>0. queue = <<>> /\ Len(queue) = 0
  OBVIOUS
<1>1. TypeOK
  <2>1. queue \in Seq(Tasks) /\ worker \in [Workers -> Worker] /\ submit \in [Tasks -> Submit]
    BY DEF Worker, Submit
  <2>2. bucket \in [Classes -> 0..MaxPerClass] /\ lease \in [Leases -> 0..Oversize]
    BY ClassAssumption DEF Classes, Oversize
  <2>3. \A t \in Leases : lease[t] \in Classes => SizeClasses[lease[t]] >= chunk[t].length
    BY DEF Classes
  <2>4. phase \in Phase /\ chunk \in [Tasks -> Chunk]
    BY DEF Phase, Chunk
  <2> QED
    BY Zenon, <2>1, <2>2, <2>3, <2>4 DEF TypeOK
<1>2. OnePlace
  BY <1>0, WorkerAssumption DEF OnePlace, PlaceOK, Queued, Pushed
<1>3. MutexIsHeld /\ NoSleepOnWork
  BY DEF MutexIsHeld, NoSleepOnWork
<1>4. QuietPhases
  BY DEF QuietPhases, Open, Answered
<1>5. LeaseOfChunk
  BY LeaseAssumption DEF LeaseOfChunk
<1>6. Drained
  BY DEF Drained, Open
<1> QED
  BY Zenon, <1>1, <1>2, <1>3, <1>4, <1>5, <1>6 DEF GInv

-----------------------------------------------------------------------------
(* Steps of Initialize, of Shutdown and of the commit: no task moves.      *)

\* The queue stays, no worker gets a task, and a task's submitter and chunk stay
\* or are such as to say nothing of it.
LEMMA PlacesStay ==
    ASSUME OnePlace, queue' = queue,
           \A s \in Tasks, w \in Workers : worker'[w].task = s => worker[w].task = s,
           \A s \in Tasks : submit'[s] \in Pushed <=> submit[s] \in Pushed,
           \A s \in Tasks : submit'[s] \in {"idle", "check", "push"}
                           => chunk'[s].pos = "none",
           \A s \in Tasks : Queued(s) => chunk'[s].pos = chunk[s].pos
    PROVE  OnePlace'
<1>1. ASSUME NEW s \in Tasks PROVE PlaceOK(s)'
  <2>1. (Queued(s))' <=> Queued(s)
    BY DEF Queued
  <2>2. ASSUME Queued(s)
        PROVE  /\ submit'[s] \in Pushed /\ chunk'[s].pos = "none"
               /\ \A w \in Workers : worker'[w].task # s
    BY <2>2 DEF OnePlace, PlaceOK
  <2>3. ASSUME submit'[s] \notin Pushed PROVE \A w \in Workers : worker'[w].task # s
    BY <2>3 DEF OnePlace, PlaceOK
  <2> QED
    BY <2>1, <2>2, <2>3 DEF PlaceOK
<1> QED
  BY <1>1 DEF OnePlace

\* What is said of tasks, workers and leases only.
LEMMA TasksStay ==
    ASSUME GInv, UNCHANGED <<queue, worker, submit, chunk, lease>>
    PROVE  OnePlace' /\ MutexIsHeld' /\ NoSleepOnWork' /\ LeaseOfChunk'
<1>1. OnePlace'
  BY PlacesStay DEF GInv, OnePlace, PlaceOK
<1>2. MutexIsHeld' /\ NoSleepOnWork'
  BY DEF GInv, MutexIsHeld, MutexFree, NoSleepOnWork
<1>3. LeaseOfChunk'
  BY DEF GInv, LeaseOfChunk
<1> QED
  BY <1>1, <1>2, <1>3

\* The types, when only flags, the phase and the free lists change.
LEMMA FlagTypes ==
    ASSUME TypeOK, UNCHANGED <<queue, worker, submit, missed, chunk, lease>>,
           phase' \in Phase, bucket' \in [Classes -> 0..MaxPerClass],
           running' \in BOOLEAN, commit' \in BOOLEAN,
           {accepting', sweeper', cuobj', pool_set', ucx', shut'} \subseteq BOOLEAN
    PROVE  TypeOK'
BY DEF TypeOK

LEMMA InitializeStep == ASSUME GInv, Initialize PROVE GInv'
<1>0. UNCHANGED <<queue, worker, submit, missed, chunk, lease, bucket, shut, running, commit>>
  BY Zenon DEF Initialize, GdsStart, UcxStart, ServerStart, InitializeFails, poolVars, bufferVars
<1>1. TypeOK'
  <2>0. TypeOK
    BY DEF GInv
  <2>1. phase' \in Phase
    BY Zenon DEF Initialize, GdsStart, UcxStart, ServerStart, InitializeFails, Phase
  <2>2. {accepting', sweeper', cuobj', pool_set', ucx', shut'} \subseteq BOOLEAN
    BY Zenon, <1>0, <2>0 DEF Initialize, GdsStart, UcxStart, ServerStart, InitializeFails, TypeOK
  <2> QED
    BY <1>0, <2>0, <2>1, <2>2, FlagTypes DEF TypeOK
<1>2. QuietPhases'
  BY <1>0 DEF GInv, QuietPhases, Initialize, GdsStart, UcxStart, ServerStart,
              InitializeFails, Open, Answered
<1>3. Drained'
  BY <1>0 DEF GInv, Drained, Initialize, GdsStart, UcxStart, ServerStart,
              InitializeFails, Open
<1> QED
  BY <1>0, <1>1, <1>2, <1>3, TasksStay DEF GInv

LEMMA CommitStep == ASSUME GInv, CommitArrives \/ CommitNotified PROVE GInv'
<1>0. UNCHANGED <<queue, worker, submit, missed, chunk, lease, bucket, shut, running,
                  phase, accepting, sweeper, cuobj, pool_set, ucx>> /\ commit' \in BOOLEAN
  BY Zenon DEF CommitArrives, CommitNotified, poolVars, bufferVars, lifecycle
<1>1. TypeOK'
  BY <1>0, FlagTypes DEF GInv, TypeOK
<1>2. QuietPhases'
  BY <1>0 DEF GInv, QuietPhases, Answered
<1>3. Drained'
  BY <1>0 DEF GInv, Drained
<1> QED
  BY <1>0, <1>1, <1>2, <1>3, TasksStay DEF GInv

LEMMA OpenRuns == ASSUME GInv, phase \in Open PROVE running
BY Zenon DEF GInv, QuietPhases

\* Stopping the sweeper and the server, and waiting for the requests.
LEMMA ServerStep == ASSUME GInv, StopSweeper \/ ServerStop \/ ServerJoin PROVE GInv'
<1> USE DEF StopSweeper, ServerStop, ServerJoin, Advance, poolVars, bufferVars
<1>0. UNCHANGED <<queue, worker, submit, missed, chunk, lease, bucket, shut, running,
                  cuobj, pool_set, ucx, commit>>
  BY Zenon
<1>1. TypeOK'
  <2>1. phase' \in Phase /\ {accepting', sweeper'} \subseteq BOOLEAN
    BY Zenon DEF Phase, GInv, TypeOK
  <2> QED
    BY Zenon, <1>0, <2>1, FlagTypes DEF GInv, TypeOK
<1>2. QuietPhases'
  <2>0. phase \in Open
    BY DEF Open
  <2>1. running
    BY <2>0, OpenRuns
  <2>2. (accepting' => phase' \in {"serving", "sweeper"}) /\ phase' \notin {"init", "init_ucx", "init_server"}
    BY DEF GInv, QuietPhases, Open
  <2>3. phase' \notin Open => \A t \in Tasks : Answered(t)
    BY DEF Open
  <2> QED
    BY <1>0, <2>0, <2>1, <2>2, <2>3 DEF GInv, QuietPhases, Answered
<1>3. Drained'
  BY <1>0 DEF GInv, Drained, Open
<1> QED
  BY <1>0, <1>1, <1>2, <1>3, TasksStay DEF GInv

\* The worker pool is told to stop, and joined.
LEMMA PoolStopStep == ASSUME GInv, PoolStopFlag \/ PoolStopJoin PROVE GInv'
<1> USE DEF PoolStopFlag, PoolStopJoin, StopFlag, Advance, poolVars, bufferVars
<1>0. UNCHANGED <<queue, worker, submit, missed, chunk, lease, bucket, shut,
                  accepting, sweeper, cuobj, pool_set, ucx, commit>>
  OBVIOUS
<1>1. TypeOK'
  <2>1. phase' \in Phase /\ running' \in BOOLEAN
    BY Zenon DEF Phase, GInv, TypeOK
  <2> QED
    BY <1>0, <2>1, FlagTypes DEF GInv, TypeOK
<1>2. QuietPhases'
  BY <1>0 DEF GInv, QuietPhases, Open, Answered
<1>3. Drained'
  BY <1>0 DEF GInv, Drained, Open
<1> QED
  BY <1>0, <1>1, <1>2, <1>3, TasksStay DEF GInv

\* GdsExecutor::Stop and UcxExecutor::Stop.
LEMMA GdsStopStep ==
    ASSUME GInv,
           \/ GdsTakePool \/ GdsShutdownFlag \/ (\E c \in Classes : GdsDrain(c))
           \/ GdsDrained \/ GdsReset \/ UcxStop
    PROVE  GInv'
<1> USE DEF GdsTakePool, GdsShutdownFlag, GdsDrain, GdsDrained, GdsReset, UcxStop,
            ShutdownFlag, DrainBucket, Advance, poolVars, bufferVars, lifecycle
<1>0. UNCHANGED <<queue, worker, submit, missed, chunk, lease, running, accepting, sweeper,
                  commit>>
  OBVIOUS
<1>1. TypeOK'
  <2>1. phase' \in Phase
    BY Zenon DEF Phase, GInv, TypeOK
  <2>2. {shut', cuobj', pool_set', ucx'} \subseteq BOOLEAN
    BY Zenon DEF GInv, TypeOK
  <2>3. bucket' \in [Classes -> 0..MaxPerClass]
    <3>1. 0 \in 0..MaxPerClass /\ bucket \in [Classes -> 0..MaxPerClass]
      BY ClassAssumption DEF GInv, TypeOK
    <3>2. bucket' = bucket \/ \E c \in Classes : bucket' = [bucket EXCEPT ![c] = 0]
      OBVIOUS
    <3> QED
      BY <3>1, <3>2
  <2> QED
    BY <1>0, <2>1, <2>2, <2>3, FlagTypes DEF GInv, TypeOK
<1>2. QuietPhases'
  <2>1. phase \notin Open /\ phase' \notin Open \cup {"init", "init_ucx", "init_server"}
    BY DEF Open
  <2> QED
    BY <1>0, <2>1 DEF GInv, QuietPhases, Answered
<1>3. Drained'
  <2>1. CASE GdsTakePool
    BY <2>1 DEF GInv, Drained, Open
  <2>2. CASE GdsShutdownFlag
    BY <2>2 DEF GInv, Drained, Open
  <2>3. CASE \E c \in Classes : GdsDrain(c)
    <3>1. phase = "gds_drain" /\ phase' = phase /\ pool_set' = pool_set
      BY <2>3
    <3> QED
      BY <3>1 DEF GInv, Drained, Open
  <2>4. CASE GdsDrained
    BY <2>4 DEF GInv, Drained, Open
  <2>5. CASE GdsReset
    BY Zenon, <2>5 DEF GInv, Drained, Open
  <2>6. CASE UcxStop
    BY Zenon, <2>6 DEF GInv, Drained, Open
  <2> QED
    BY Zenon, <2>1, <2>2, <2>3, <2>4, <2>5, <2>6
<1> QED
  BY <1>0, <1>1, <1>2, <1>3, TasksStay DEF GInv

-----------------------------------------------------------------------------
(* Steps of the worker pool.                                               *)

LEMMA PoolTypes ==
    ASSUME TypeOK, UNCHANGED <<bufferVars, lifecycle, chunk, commit>>,
           running' \in BOOLEAN, missed' \in BOOLEAN, queue' \in Seq(Tasks),
           worker' \in [Workers -> Worker], submit' \in [Tasks -> Submit]
    PROVE  TypeOK'
BY DEF TypeOK, bufferVars, lifecycle

\* What is said of leases and free lists only.
LEMMA BuffersStay ==
    ASSUME GInv, UNCHANGED <<bucket, lease, chunk, phase, pool_set>>
    PROVE  LeaseOfChunk' /\ Drained'
<1>1. LeaseOfChunk'
  BY DEF GInv, LeaseOfChunk
<1>2. Drained'
  BY DEF GInv, Drained
<1> QED
  BY <1>1, <1>2

LEMMA WakeIs ==
    ASSUME worker \in [Workers -> Worker], NEW ws \in SUBSET Asleep, worker' = Wake(ws)
    PROVE  /\ worker' \in [Workers -> Worker]
           /\ \A w \in Workers : /\ worker'[w].task = worker[w].task
                                 /\ worker'[w].pos = IF w \in ws THEN "check" ELSE worker[w].pos
<1>1. ASSUME NEW w \in Workers
      PROVE  /\ worker'[w] \in Worker
             /\ worker'[w].task = worker[w].task
             /\ worker'[w].pos = IF w \in ws THEN "check" ELSE worker[w].pos
  BY DEF Wake, Worker
<1>2. worker' = [w \in Workers |-> worker'[w]]
  BY DEF Wake
<1> QED
  BY <1>1, <1>2

\* While a task is queued requests are under way, and so no worker has left
\* and none is about to sleep.
LEMMA QueuedKeepsWorkers ==
    ASSUME GInv, queue # <<>>
    PROVE  /\ phase \in Open
           /\ \A w \in Workers : worker[w].pos \notin {"left", "asleep_next"}
<1>1. queue \in Seq(Tasks) /\ Len(queue) \in Nat /\ Len(queue) # 0
  BY DEF GInv, TypeOK
<1>2. 1 \in 1..Len(queue) /\ queue[1] \in Tasks
  BY <1>1
<1>3. ~Answered(queue[1])
  BY <1>2 DEF GInv, OnePlace, PlaceOK, Queued, Pushed, Answered
<1>4. phase \in Open
  BY <1>2, <1>3 DEF GInv, QuietPhases
<1>5. running
  BY <1>4, OpenRuns
<1>6. MutexFree
  BY DEF GInv, MutexIsHeld
<1>7. \A w \in Workers : worker[w].pos # "left"
  BY Zenon, <1>5 DEF GInv, QuietPhases
<1> QED
  BY Zenon, <1>4, <1>6, <1>7 DEF MutexFree

\* Waking workers touches neither the mutex nor the tasks, and takes nothing
\* away from what keeps work from being slept on.
LEMMA WakeKeeps ==
    ASSUME GInv, NEW ws \in SUBSET Asleep, worker' = Wake(ws),
           UNCHANGED <<queue, chunk, running>>
    PROVE  /\ worker' \in [Workers -> Worker]
           /\ MutexIsHeld'
           /\ \A w \in Workers : worker'[w].pos = "left" => ~running'
           /\ submit' = submit => OnePlace' /\ NoSleepOnWork'
<1>0. worker \in [Workers -> Worker] /\ ws \subseteq Workers
  BY DEF GInv, TypeOK, Asleep
<1>1. /\ worker' \in [Workers -> Worker]
      /\ \A w \in Workers : /\ worker'[w].task = worker[w].task
                            /\ worker'[w].pos = IF w \in ws THEN "check" ELSE worker[w].pos
  BY <1>0, WakeIs
<1>2. \A w \in ws : worker[w].pos = "asleep"
  BY Zenon DEF Asleep
<1>3. MutexIsHeld'
  BY Zenon, <1>1, <1>2 DEF GInv, MutexIsHeld, MutexFree
<1>4. \A w \in Workers : worker'[w].pos = "left" => ~running'
  BY Zenon, <1>1 DEF GInv, QuietPhases
<1>5. ASSUME submit' = submit PROVE OnePlace'
  BY Zenon, <1>1, <1>5, PlacesStay DEF GInv, OnePlace, PlaceOK
<1>6. ASSUME submit' = submit PROVE NoSleepOnWork'
  BY Zenon, <1>1, <1>2, <1>6 DEF GInv, NoSleepOnWork
<1> QED
  BY Zenon, <1>1, <1>3, <1>4, <1>5, <1>6

LEMMA StopNotifyStep == ASSUME GInv, PoolStopNotify PROVE GInv'
<1> USE DEF PoolStopNotify, StopNotify, Advance, bufferVars
<1>0. UNCHANGED <<queue, submit, chunk, lease, bucket, shut, running,
                  accepting, sweeper, cuobj, pool_set, ucx, commit>>
  BY Zenon
<1>1. Asleep \in SUBSET Asleep /\ worker' = Wake(Asleep) /\ missed' \in BOOLEAN
  BY Zenon DEF MutexFree
<1>2. /\ worker' \in [Workers -> Worker]
      /\ MutexIsHeld' /\ OnePlace' /\ NoSleepOnWork'
      /\ \A w \in Workers : worker'[w].pos = "left" => ~running'
  BY Zenon, <1>0, <1>1, WakeKeeps
<1>3. TypeOK'
  <2>1. phase' \in Phase
    BY Zenon DEF Phase
  <2> QED
    BY <1>0, <1>1, <1>2, <2>1 DEF GInv, TypeOK
<1>4. QuietPhases'
  <2>1. phase \notin Open /\ phase' \notin Open \cup {"init", "init_ucx", "init_server"}
    BY Zenon DEF Open
  <2>2. ~accepting
    BY Zenon, <2>1 DEF GInv, QuietPhases, Open
  <2>3. \A t \in Tasks : (Answered(t))'
    BY Zenon, <1>0, <2>1 DEF GInv, QuietPhases, Answered
  <2> QED
    BY <1>0, <1>2, <2>1, <2>2, <2>3 DEF QuietPhases
<1>5. LeaseOfChunk' /\ Drained'
  <2>1. LeaseOfChunk'
    BY <1>0 DEF GInv, LeaseOfChunk
  <2>2. Drained'
    BY <1>0 DEF GInv, Drained, Open
  <2> QED
    BY Zenon, <2>1, <2>2
<1> QED
  BY <1>2, <1>3, <1>4, <1>5 DEF GInv

LEMMA SpuriousKeeps == ASSUME GInv, SpuriousStep PROVE GInv'
<1>1. PICK w \in Workers : WorkerSpurious(w)
  BY Zenon DEF SpuriousStep
<1>2. /\ {w} \in SUBSET Asleep /\ worker' = Wake({w})
      /\ UNCHANGED <<running, queue, submit, missed>>
  BY <1>1 DEF WorkerSpurious, Asleep
<1>3. UNCHANGED <<bufferVars, lifecycle, chunk, commit>>
  BY Zenon DEF SpuriousStep
<1>4. /\ worker' \in [Workers -> Worker]
      /\ MutexIsHeld' /\ OnePlace' /\ NoSleepOnWork'
      /\ \A v \in Workers : worker'[v].pos = "left" => ~running'
  BY Zenon, <1>2, <1>3, WakeKeeps
<1>5. TypeOK'
  BY Zenon, <1>2, <1>3, <1>4, PoolTypes DEF GInv, TypeOK
<1>6. QuietPhases'
  BY Zenon, <1>2, <1>3, <1>4 DEF GInv, QuietPhases, Answered, lifecycle
<1>7. LeaseOfChunk' /\ Drained'
  BY <1>3, BuffersStay DEF bufferVars, lifecycle
<1> QED
  BY Zenon, <1>4, <1>5, <1>6, <1>7 DEF GInv

\* A submitter announces its task: if a task is queued, no worker is left
\* asleep without another one that is awake.
LEMMA NotifyStep ==
    ASSUME GInv, NEW t \in Tasks, SubmitNotify(t),
           UNCHANGED <<bufferVars, lifecycle, chunk, commit>>
    PROVE  GInv'
<1>0. UNCHANGED <<running, queue, missed>> /\ submit[t] \in {"notify_all", "notify_one"}
  BY DEF SubmitNotify
<1>1. submit' = [submit EXCEPT ![t] = "done"] /\ submit \in [Tasks -> Submit]
  BY DEF SubmitNotify, GInv, TypeOK
<1>2. PICK ws \in SUBSET Asleep : worker' = Wake(ws) /\ (ws # {} \/ Asleep = {})
  <2>1. CASE submit[t] = "notify_all" \/ Asleep = {}
    BY <2>1 DEF SubmitNotify
  <2>2. CASE ~(submit[t] = "notify_all" \/ Asleep = {})
    <3>1. PICK w \in Asleep : worker' = Wake({w})
      BY Zenon, <2>2 DEF SubmitNotify
    <3> QED
      BY <3>1
  <2> QED
    BY <2>1, <2>2
<1>3. /\ worker' \in [Workers -> Worker]
      /\ MutexIsHeld'
      /\ \A w \in Workers : worker'[w].pos = "left" => ~running'
  BY <1>0, <1>2, WakeKeeps
<1>4. \A w \in Workers : /\ worker'[w].task = worker[w].task
                         /\ worker'[w].pos = IF w \in ws THEN "check" ELSE worker[w].pos
  BY <1>2, WakeIs DEF GInv, TypeOK
<1>5. TypeOK'
  BY <1>0, <1>1, <1>3, PoolTypes DEF GInv, TypeOK, Submit
<1>6. OnePlace'
  <2>1. \A s \in Tasks : submit'[s] \in Pushed <=> submit[s] \in Pushed
    BY <1>0, <1>1 DEF Pushed
  <2>2. \A s \in Tasks : submit'[s] \in {"idle", "check", "push"}
                         => submit[s] \in {"idle", "check", "push"}
    BY Zenon, <1>1
  <2> QED
    BY Zenon, <1>0, <1>4, <2>1, <2>2, PlacesStay DEF GInv, OnePlace, PlaceOK
<1>7. QuietPhases'
  <2>1. \A s \in Tasks : submit[s] = "idle" => submit'[s] = "idle"
    BY Zenon, <1>0, <1>1
  <2> QED
    BY Zenon, <1>0, <1>3, <2>1 DEF GInv, QuietPhases, Answered, lifecycle
<1>8. NoSleepOnWork'
  <2> SUFFICES ASSUME queue # <<>>
               PROVE  \E w \in Workers : worker'[w].pos \in {"check", "run"}
    BY Zenon, <1>0 DEF NoSleepOnWork
  <2>1. \A w \in Workers : worker[w].pos \in {"check", "asleep", "run"}
    BY Zenon, QueuedKeepsWorkers DEF GInv, TypeOK, Worker
  <2>2. CASE ws # {}
    BY Zenon, <1>4, <2>2 DEF Asleep
  <2>3. CASE Asleep = {}
    <3>1. \A w \in Workers : worker[w].pos \in {"check", "run"}
      BY Zenon, <2>1, <2>3 DEF Asleep
    <3> QED
      BY Zenon, <1>4, <3>1, WorkerAssumption
  <2> QED
    BY Zenon, <1>2, <2>2, <2>3
<1>9. LeaseOfChunk' /\ Drained'
  BY Zenon, BuffersStay DEF bufferVars, lifecycle
<1> QED
  BY <1>3, <1>5, <1>6, <1>7, <1>8, <1>9 DEF GInv

LEMMA SubmitCheckStep ==
    ASSUME GInv, NEW t \in Tasks, SubmitCheck(t),
           UNCHANGED <<bufferVars, lifecycle, chunk, commit>>
    PROVE  GInv'
<1>0. UNCHANGED <<running, queue, worker, missed>> /\ submit[t] = "check"
  BY Zenon DEF SubmitCheck
<1>1. PICK x \in {"push", "inline"} : submit' = [submit EXCEPT ![t] = x]
  BY Zenon DEF SubmitCheck
<1>2. submit \in [Tasks -> Submit]
  BY DEF GInv, TypeOK
<1>3. TypeOK'
  BY <1>0, <1>1, <1>2, PoolTypes DEF GInv, TypeOK, Submit
<1>4. OnePlace'
  <2>1. \A s \in Tasks : submit'[s] \in Pushed <=> submit[s] \in Pushed
    BY Zenon, <1>0, <1>1, <1>2 DEF Pushed
  <2>2. \A s \in Tasks : submit'[s] \in {"idle", "check", "push"}
                         => submit[s] \in {"idle", "check", "push"}
    BY Zenon, <1>0, <1>1, <1>2
  <2> QED
    BY <1>0, <2>1, <2>2, PlacesStay DEF GInv, OnePlace, PlaceOK
<1>5. QuietPhases'
  <2>1. \A s \in Tasks : submit[s] = "idle" => submit'[s] = "idle"
    BY Zenon, <1>0, <1>1, <1>2
  <2> QED
    BY Zenon, <1>0, <2>1 DEF GInv, QuietPhases, Answered, lifecycle
<1>6. MutexIsHeld' /\ NoSleepOnWork'
  <2>1. \A s \in Tasks : submit[s] \in {"notify_all", "notify_one"} => submit'[s] = submit[s]
    BY Zenon, <1>0, <1>1, <1>2
  <2> QED
    BY <1>0, <2>1 DEF GInv, MutexIsHeld, MutexFree, NoSleepOnWork
<1>7. LeaseOfChunk' /\ Drained'
  BY Zenon, BuffersStay DEF bufferVars, lifecycle
<1> QED
  BY Zenon, <1>3, <1>4, <1>5, <1>6, <1>7 DEF GInv

LEMMA PushStep ==
    ASSUME GInv, NEW t \in Tasks, SubmitPush(t),
           UNCHANGED <<bufferVars, lifecycle, chunk, commit>>
    PROVE  GInv'
<1>0. UNCHANGED <<running, worker, missed>> /\ submit[t] = "push" /\ MutexFree
  BY DEF SubmitPush
<1>1. PICK x \in {"notify_all", "notify_one"} : submit' = [submit EXCEPT ![t] = x]
  BY Zenon DEF SubmitPush
<1>2. submit \in [Tasks -> Submit] /\ queue \in Seq(Tasks)
  BY DEF GInv, TypeOK
<1>3. queue' = Append(queue, t)
  BY DEF SubmitPush
<1>4. /\ queue' \in Seq(Tasks) /\ Len(queue) \in Nat /\ Len(queue') = Len(queue) + 1
      /\ \A i \in 1..Len(queue) : queue'[i] = queue[i]
      /\ queue'[Len(queue) + 1] = t
  BY <1>2, <1>3
<1>5. TypeOK'
  BY Zenon, <1>0, <1>1, <1>2, <1>4, PoolTypes DEF GInv, TypeOK, Submit
<1>6. OnePlace'
  <2>1. \A s \in Tasks : (Queued(s))' => Queued(s) \/ s = t
    BY SMTT(30), <1>4 DEF Queued
  <2>2. ~Queued(t) /\ chunk[t].pos = "none" /\ \A w \in Workers : worker[w].task # t
    BY Zenon, <1>0 DEF GInv, OnePlace, PlaceOK, Pushed
  <2>3. \A s \in Tasks : submit'[s] = IF s = t THEN x ELSE submit[s]
    BY Zenon, <1>1, <1>2
  <2>4. ASSUME NEW i \in 1..Len(queue'), NEW j \in 1..Len(queue'), queue'[i] = queue'[j]
        PROVE  i = j
    <3>1. \A n \in 1..Len(queue) : queue[n] # t
      BY Zenon, <2>2 DEF Queued
    <3>2. \A m, n \in 1..Len(queue) : queue[m] = queue[n] => m = n
      BY Zenon DEF GInv, OnePlace
    <3>3. /\ i \in 1..Len(queue) \/ i = Len(queue) + 1
          /\ j \in 1..Len(queue) \/ j = Len(queue) + 1
      BY <1>4
    <3>4. CASE i \in 1..Len(queue)
      BY Zenon, <1>4, <2>4, <3>1, <3>2, <3>3, <3>4
    <3>5. CASE i = Len(queue) + 1
      BY <1>4, <2>4, <3>1, <3>3, <3>5
    <3> QED
      BY Zenon, <3>3, <3>4, <3>5
  <2>5. x \in Pushed /\ x \notin {"idle", "check", "push"}
    BY Zenon, <1>1 DEF Pushed
  <2>6. ASSUME NEW s \in Tasks, (Queued(s))'
        PROVE  /\ submit'[s] \in Pushed
               /\ chunk'[s].pos = "none"
               /\ \A w \in Workers : worker'[w].task # s
    BY Zenon, <1>0, <2>1, <2>2, <2>3, <2>5, <2>6 DEF GInv, OnePlace, PlaceOK
  <2>7. ASSUME NEW s \in Tasks, submit'[s] \notin Pushed
        PROVE  \A w \in Workers : worker'[w].task # s
    BY Zenon, <1>0, <2>3, <2>5, <2>7 DEF GInv, OnePlace, PlaceOK
  <2>8. ASSUME NEW s \in Tasks, submit'[s] \in {"idle", "check", "push"}
        PROVE  chunk'[s].pos = "none"
    BY Zenon, <2>3, <2>5, <2>8 DEF GInv, OnePlace, PlaceOK
  <2> QED
    BY Zenon, <2>4, <2>6, <2>7, <2>8 DEF OnePlace, PlaceOK
<1>7. QuietPhases'
  <2>1. \A s \in Tasks : submit[s] = "idle" => submit'[s] = "idle"
    BY Zenon, <1>0, <1>1, <1>2
  <2> QED
    BY Zenon, <1>0, <2>1 DEF GInv, QuietPhases, Answered, lifecycle
<1>8. MutexIsHeld' /\ NoSleepOnWork'
  <2>1. submit'[t] \in {"notify_all", "notify_one"}
    BY Zenon, <1>1, <1>2
  <2> QED
    BY <1>0, <2>1 DEF MutexIsHeld, MutexFree, NoSleepOnWork
<1>9. LeaseOfChunk' /\ Drained'
  BY Zenon, BuffersStay DEF bufferVars, lifecycle
<1> QED
  BY <1>5, <1>6, <1>7, <1>8, <1>9 DEF GInv

\* A worker takes the first task.
LEMMA WorkerTakes ==
    ASSUME GInv, NEW w \in Workers, WorkerCheck(w), queue # <<>>,
           UNCHANGED <<bufferVars, lifecycle, chunk, commit>>
    PROVE  GInv'
<1>0. UNCHANGED <<running, submit, missed>> /\ MutexFree
  BY Zenon DEF WorkerCheck
<1> DEFINE h == Head(queue)
<1>1. /\ worker' = [worker EXCEPT ![w] = [pos |-> "run", task |-> h]]
      /\ queue' = Tail(queue)
  BY Zenon DEF WorkerCheck
<1>2. worker \in [Workers -> Worker] /\ queue \in Seq(Tasks)
  BY Zenon DEF GInv, TypeOK
<1>3. /\ queue' \in Seq(Tasks) /\ Len(queue) \in Nat /\ Len(queue) > 0
      /\ Len(queue') = Len(queue) - 1
      /\ \A i \in 1..Len(queue') : i + 1 \in 1..Len(queue) /\ queue'[i] = queue[i + 1]
      /\ h = queue[1] /\ 1 \in 1..Len(queue) /\ h \in Tasks
  BY <1>1, <1>2
<1> HIDE DEF h
<1>4. \A v \in Workers : worker'[v] = IF v = w THEN [pos |-> "run", task |-> h] ELSE worker[v]
  BY Zenon, <1>1, <1>2
<1>5. TypeOK'
  <2>1. worker' \in [Workers -> Worker]
    BY Zenon, <1>1, <1>2, <1>3 DEF Worker
  <2> QED
    BY Zenon, <1>0, <1>3, <2>1, PoolTypes DEF GInv, TypeOK
<1>6. OnePlace'
  <2>1. Queued(h)
    BY Zenon, <1>3 DEF Queued
  <2>2. ASSUME NEW s \in Tasks, (Queued(s))' PROVE Queued(s) /\ s # h
    <3>1. PICK i \in 1..Len(queue') : queue'[i] = s
      BY Zenon, <2>2 DEF Queued
    <3>2. i + 1 \in 1..Len(queue) /\ queue[i + 1] = s /\ i + 1 # 1
      BY <1>3, <3>1
    <3> QED
      BY Zenon, <1>3, <3>2 DEF GInv, OnePlace, PlaceOK, Queued
  <2>3. \A i, j \in 1..Len(queue') : queue'[i] = queue'[j] => i = j
    <3> SUFFICES ASSUME NEW i \in 1..Len(queue'), NEW j \in 1..Len(queue'),
                        queue'[i] = queue'[j]
                 PROVE  i = j
      BY Zenon
    <3>1. i + 1 = j + 1
      BY <1>3 DEF GInv, OnePlace, PlaceOK
    <3> QED
      BY <1>3, <3>1
  <2>4. submit[h] \in Pushed
    BY Zenon, <1>3, <2>1 DEF GInv, OnePlace, PlaceOK
  <2>5. ASSUME NEW s \in Tasks, (Queued(s))'
        PROVE  /\ submit'[s] \in Pushed
               /\ chunk'[s].pos = "none"
               /\ \A v \in Workers : worker'[v].task # s
    BY SMTT(30), <1>0, <1>4, <2>2, <2>5 DEF GInv, OnePlace, PlaceOK
  <2>6. ASSUME NEW s \in Tasks, submit'[s] \notin Pushed
        PROVE  \A v \in Workers : worker'[v].task # s
    BY SMTT(30), <1>0, <1>4, <2>4, <2>6 DEF GInv, OnePlace, PlaceOK
  <2>7. \A s \in Tasks : submit'[s] \in {"idle", "check", "push"} => chunk'[s].pos = "none"
    BY Zenon, <1>0 DEF GInv, OnePlace, PlaceOK
  <2> QED
    BY Zenon, <2>3, <2>5, <2>6, <2>7 DEF OnePlace, PlaceOK
<1>7. MutexIsHeld' /\ NoSleepOnWork'
  <2>1. MutexFree'
    BY SMTT(30), <1>0, <1>4 DEF MutexFree
  <2> QED
    BY <1>4, <2>1 DEF MutexIsHeld, NoSleepOnWork
<1>8. QuietPhases'
  BY <1>0, <1>4 DEF GInv, QuietPhases, Answered, lifecycle
<1>9. LeaseOfChunk' /\ Drained'
  BY Zenon, BuffersStay DEF bufferVars, lifecycle
<1> QED
  BY Zenon, <1>5, <1>6, <1>7, <1>8, <1>9 DEF GInv

\* A worker finds nothing and gets ready to sleep or leaves, or goes to sleep.
LEMMA WorkerRests ==
    ASSUME GInv, NEW w \in Workers,
           WorkerSleep(w) \/ (WorkerCheck(w) /\ queue = <<>>),
           UNCHANGED <<bufferVars, lifecycle, chunk, commit>>
    PROVE  GInv'
<1>0. UNCHANGED <<running, queue, submit, missed>> /\ queue = <<>>
  BY Zenon DEF WorkerSleep, WorkerCheck, GInv, MutexIsHeld, MutexFree
<1>1. worker \in [Workers -> Worker] /\ Len(queue) = 0
  BY Zenon, <1>0 DEF GInv, TypeOK
<1>2. PICK x \in Worker : /\ worker' = [worker EXCEPT ![w] = x]
                          /\ x.task \in {None, worker[w].task}
                          /\ x.pos = "left" => ~running
  <2>1. CASE WorkerSleep(w)
    <3> DEFINE y == [worker[w] EXCEPT !.pos = "asleep"]
    <3>1. /\ y \in Worker /\ worker' = [worker EXCEPT ![w] = y]
          /\ y.task = worker[w].task /\ y.pos = "asleep"
      BY <1>1, <2>1 DEF WorkerSleep, Worker
    <3> HIDE DEF y
    <3> QED
      BY Zenon, <3>1
  <2>2. CASE WorkerCheck(w)
    <3> DEFINE y == [pos |-> IF running THEN "asleep_next" ELSE "left", task |-> None]
    <3>1. /\ y \in Worker /\ worker' = [worker EXCEPT ![w] = y]
          /\ y.task = None /\ (y.pos = "left" => ~running)
      BY <1>0, <1>1, <2>2 DEF WorkerCheck, Worker
    <3> HIDE DEF y
    <3> QED
      BY Zenon, <3>1
  <2> QED
    BY Zenon, <2>1, <2>2
<1>3. \A v \in Workers : worker'[v] = IF v = w THEN x ELSE worker[v]
  BY Zenon, <1>1, <1>2
<1>4. TypeOK'
  BY Zenon, <1>0, <1>1, <1>2, PoolTypes DEF GInv, TypeOK
<1>5. OnePlace'
  <2>2. \A s \in Tasks : s # None
    BY Zenon, WorkerAssumption
  <2>3. \A s \in Tasks, v \in Workers : worker'[v].task = s => worker[v].task = s
    BY Zenon, <1>2, <1>3, <2>2
  <2> QED
    BY <1>0, <2>3, PlacesStay DEF GInv, OnePlace, PlaceOK
<1>6. MutexIsHeld' /\ NoSleepOnWork'
  BY Zenon, <1>0 DEF MutexIsHeld, NoSleepOnWork
<1>7. QuietPhases'
  BY <1>0, <1>2, <1>3 DEF GInv, QuietPhases, Answered, lifecycle
<1>8. LeaseOfChunk' /\ Drained'
  BY BuffersStay DEF bufferVars, lifecycle
<1> QED
  BY Zenon, <1>4, <1>5, <1>6, <1>7, <1>8 DEF GInv

-----------------------------------------------------------------------------
(* Steps of a chunk.                                                       *)

LEMMA ArriveStep ==
    ASSUME GInv, NEW t \in Tasks, NEW n \in Lengths, Arrive(t, n)
    PROVE  GInv'
<1> USE DEF Arrive
<1>0. /\ UNCHANGED <<running, queue, worker, missed, bufferVars, lifecycle, commit>>
      /\ submit[t] = "idle" /\ accepting
  OBVIOUS
<1>1. submit \in [Tasks -> Submit] /\ chunk \in [Tasks -> Chunk]
  BY DEF GInv, TypeOK
<1>2. /\ \A s \in Tasks : submit'[s] = IF s = t THEN "check" ELSE submit[s]
      /\ submit' \in [Tasks -> Submit]
  BY <1>1 DEF Submit
<1>3. /\ \A s \in Tasks : chunk'[s].pos = chunk[s].pos /\ (s # t => chunk'[s] = chunk[s])
      /\ chunk' \in [Tasks -> Chunk]
  BY <1>1, LengthAssumption DEF Chunk
<1>4. chunk[t].pos = "none" /\ lease[t] = 0
  BY Zenon, <1>0 DEF GInv, OnePlace, PlaceOK, LeaseOfChunk
<1>5. TypeOK'
  <2>1. \A s \in Leases : lease'[s] \in Classes => SizeClasses[lease'[s]] >= chunk'[s].length
    BY <1>0, <1>3, <1>4, LeaseAssumption DEF GInv, TypeOK, Classes, bufferVars
  <2> QED
    BY Zenon, <1>0, <1>2, <1>3, <2>1 DEF GInv, TypeOK, bufferVars, lifecycle
<1>6. OnePlace'
  <2>1. \A s \in Tasks : submit'[s] \in Pushed <=> submit[s] \in Pushed
    BY <1>0, <1>2 DEF Pushed
  <2> QED
    BY <1>0, <1>2, <1>3, <1>4, <2>1, PlacesStay DEF GInv, OnePlace, PlaceOK
<1>7. QuietPhases'
  <2>1. phase \in Open /\ phase' = phase
    BY <1>0 DEF GInv, QuietPhases, Open, lifecycle
  <2> QED
    BY <1>0, <2>1 DEF GInv, QuietPhases, lifecycle
<1>8. MutexIsHeld' /\ NoSleepOnWork'
  <2>1. \A s \in Tasks : submit[s] \in {"notify_all", "notify_one"} => submit'[s] = submit[s]
    BY <1>0, <1>2
  <2> QED
    BY <1>0, <2>1 DEF GInv, MutexIsHeld, MutexFree, NoSleepOnWork
<1>9. LeaseOfChunk' /\ Drained'
  <2>1. LeaseOfChunk'
    BY <1>0, <1>3 DEF GInv, LeaseOfChunk, bufferVars
  <2>2. Drained'
    BY <1>0 DEF GInv, Drained, bufferVars, lifecycle
  <2> QED
    BY <2>1, <2>2
<1> QED
  BY Zenon, <1>5, <1>6, <1>7, <1>8, <1>9 DEF GInv

\* The chunk's closure runs.
Active(t) ==
    chunk[t].pos \notin {"none", "answered"} \/ (chunk[t].pos = "none" /\ Executing(t))

LEMMA ActiveIs ==
    ASSUME GInv, NEW t \in Tasks, Active(t)
    PROVE  /\ ~Queued(t) /\ submit[t] \notin {"idle", "check", "push"}
           /\ phase \in Open /\ pool_set
<1>1. ~Queued(t)
  BY Zenon DEF Active, Executing, GInv, OnePlace, PlaceOK, Pushed
<1>2. submit[t] \notin {"idle", "check", "push"}
  BY Zenon DEF Active, Executing, GInv, OnePlace, PlaceOK, Pushed
<1>3. ~Answered(t)
  BY Zenon, <1>2 DEF Active, Answered
<1>4. phase \in Open
  BY Zenon, <1>3 DEF GInv, QuietPhases
<1> QED
  BY Zenon, <1>1, <1>2, <1>4 DEF GInv, Drained

\* A running chunk moves on: nothing is said of it elsewhere.
LEMMA ChunkFrame ==
    ASSUME GInv, NEW t \in Tasks, Active(t), NEW c \in Chunk,
           chunk' = [chunk EXCEPT ![t] = c], UNCHANGED <<poolVars, lifecycle>>
    PROVE  OnePlace' /\ MutexIsHeld' /\ NoSleepOnWork' /\ QuietPhases' /\ Drained'
<1>0. /\ ~Queued(t) /\ submit[t] \notin {"idle", "check", "push"}
      /\ phase \in Open /\ pool_set
  BY Zenon, ActiveIs
<1>1. \A s \in Tasks : s # t => chunk'[s] = chunk[s]
  BY Zenon DEF GInv, TypeOK
<1>2. OnePlace'
  <2>1. \A s \in Tasks : Queued(s) => chunk'[s].pos = chunk[s].pos
    BY Zenon, <1>0, <1>1
  <2>2. UNCHANGED <<queue, worker, submit>>
    BY Zenon DEF poolVars
  <2>3. \A s \in Tasks : submit'[s] \in {"idle", "check", "push"} => chunk'[s].pos = "none"
    BY Zenon, <1>0, <1>1, <2>2 DEF GInv, OnePlace, PlaceOK
  <2> QED
    BY Zenon, <2>1, <2>2, <2>3, PlacesStay DEF GInv
<1>3. MutexIsHeld' /\ NoSleepOnWork'
  BY Zenon DEF GInv, MutexIsHeld, MutexFree, NoSleepOnWork, poolVars
<1>4. QuietPhases'
  BY Zenon, <1>0 DEF GInv, QuietPhases, poolVars, lifecycle
<1>5. Drained'
  <2>1. phase' = phase /\ pool_set' = pool_set
    BY Zenon DEF lifecycle
  <2> QED
    BY Zenon, <1>0, <2>1 DEF Drained, Open
<1> QED
  BY Zenon, <1>2, <1>3, <1>4, <1>5

\* The chunk's own lease, and the free lists, after its step.
LEMMA ChunkTypes ==
    ASSUME GInv, NEW t \in Tasks, NEW c \in Chunk, NEW l \in 0..Oversize,
           chunk' = [chunk EXCEPT ![t] = c], lease' = [lease EXCEPT ![t] = l],
           bucket' \in [Classes -> 0..MaxPerClass], shut' = shut,
           UNCHANGED <<poolVars, lifecycle, commit>>,
           l \in Classes => SizeClasses[l] >= c.length,
           l # 0 => c.pos \in {"leased", "putback"},
           c.pos = "putback" => l \in Classes,
           c.pos = "leased" => l # 0
    PROVE  TypeOK' /\ LeaseOfChunk'
<1>0. /\ chunk \in [Tasks -> Chunk] /\ lease \in [Tasks -> 0..Oversize]
      /\ \A s \in Tasks : lease[s] \in Classes => SizeClasses[lease[s]] >= chunk[s].length
  BY Zenon, LeaseAssumption DEF GInv, TypeOK
<1>1. /\ chunk' \in [Tasks -> Chunk] /\ lease' \in [Tasks -> 0..Oversize]
      /\ \A s \in Tasks : /\ chunk'[s] = IF s = t THEN c ELSE chunk[s]
                          /\ lease'[s] = IF s = t THEN l ELSE lease[s]
  BY Zenon, <1>0
<1>2. \A s \in Tasks : lease'[s] \in Classes => SizeClasses[lease'[s]] >= chunk'[s].length
  BY Zenon, <1>0, <1>1
<1>3. TypeOK'
  BY Zenon, <1>1, <1>2, LeaseAssumption DEF GInv, TypeOK, poolVars, lifecycle
<1>4. LeaseOfChunk'
  BY <1>1 DEF GInv, LeaseOfChunk
<1> QED
  BY Zenon, <1>3, <1>4

LEMMA ChunkGoto ==
    ASSUME GInv, NEW t \in Tasks,
           NEW x \in {"none", "pool", "leased", "putback", "answer", "answered"},
           chunk' = [chunk EXCEPT ![t].pos = x]
    PROVE  \E c \in Chunk : /\ chunk' = [chunk EXCEPT ![t] = c]
                            /\ c.pos = x /\ c.length = chunk[t].length
<1> DEFINE c == [chunk[t] EXCEPT !.pos = x]
<1>1. /\ c \in Chunk /\ c.pos = x /\ c.length = chunk[t].length
      /\ chunk' = [chunk EXCEPT ![t] = c]
  BY Zenon DEF GInv, TypeOK, Chunk
<1> HIDE DEF c
<1> QED
  BY Zenon, <1>1

\* What is known of a lease and the free lists before a step.
LEMMA LeaseTypes ==
    ASSUME GInv, NEW t \in Tasks
    PROVE  /\ bucket \in [Classes -> 0..MaxPerClass] /\ lease \in [Tasks -> 0..Oversize]
           /\ lease[t] \in 0..Oversize /\ Oversize \in Nat /\ 0 \notin Classes
           /\ lease[t] = 0 \/ lease[t] = Oversize \/ lease[t] \in Classes
           /\ lease[t] # 0 => chunk[t].pos \in {"leased", "putback"}
           /\ chunk[t].pos = "putback" => lease[t] \in Classes
           /\ chunk[t].pos = "leased" => lease[t] # 0
           /\ lease[t] \in Classes => SizeClasses[lease[t]] >= chunk[t].length
           /\ chunk[t].length \in Nat
<1>1. Len(SizeClasses) \in Nat
  BY ClassAssumption
<1>2. bucket \in [Classes -> 0..MaxPerClass] /\ lease \in [Tasks -> 0..Oversize]
  BY Zenon, LeaseAssumption DEF GInv, TypeOK
<1>3. /\ lease[t] \in 0..Oversize /\ Oversize \in Nat /\ 0 \notin Classes
      /\ lease[t] = 0 \/ lease[t] = Oversize \/ lease[t] \in Classes
  BY <1>1, <1>2 DEF Oversize, Classes
<1>4. chunk[t].length \in Nat
  <2>1. chunk[t] \in Chunk
    BY Zenon DEF GInv, TypeOK
  <2>2. chunk[t].length \in Lengths \cup {0}
    BY Zenon, <2>1 DEF Chunk
  <2>3. \A n \in Lengths \cup {0} : n \in Nat
    BY LengthAssumption
  <2> QED
    BY Zenon, <2>2, <2>3
<1> QED
  BY <1>2, <1>3, <1>4, LeaseAssumption DEF GInv, TypeOK, LeaseOfChunk

LEMMA StartStep ==
    ASSUME GInv, NEW t \in Tasks, ChunkStart(t) \/ ChunkNoBuffer(t)
    PROVE  GInv'
<1>0. UNCHANGED <<poolVars, bufferVars, lifecycle, commit>> /\ Active(t)
  BY DEF ChunkStart, ChunkNoBuffer, AcquireFails, Active
<1>1. PICK x \in {"pool", "answer"} : chunk' = [chunk EXCEPT ![t].pos = x]
  BY DEF ChunkStart, ChunkNoBuffer
<1>x. x \in {"none", "pool", "leased", "putback", "answer", "answered"}
  OBVIOUS
<1>2. PICK c \in Chunk : /\ chunk' = [chunk EXCEPT ![t] = c]
                         /\ c.pos = x /\ c.length = chunk[t].length
  BY Zenon, <1>1, <1>x, ChunkGoto
<1>3. lease[t] = 0
  BY LeaseTypes DEF ChunkStart, ChunkNoBuffer
<1>4. /\ lease' = [lease EXCEPT ![t] = 0] /\ bucket' \in [Classes -> 0..MaxPerClass]
      /\ shut' = shut /\ 0 \in 0..Oversize /\ 0 \notin Classes
  BY <1>0, <1>3, LeaseTypes DEF bufferVars
<1>5. TypeOK' /\ LeaseOfChunk'
  BY Zenon, <1>0, <1>1, <1>2, <1>4, ChunkTypes
<1> QED
  BY Zenon, <1>0, <1>2, <1>5, ChunkFrame DEF GInv

LEMMA AcquireStep ==
    ASSUME GInv, NEW t \in Tasks, ChunkAcquire(t)
    PROVE  GInv'
<1> DEFINE l == PickClass(chunk[t].length)
<1>0. UNCHANGED <<poolVars, lifecycle, commit>> /\ Active(t) /\ shut' = shut
  BY DEF ChunkAcquire, Acquire, Active
<1>1. PICK c \in Chunk : /\ chunk' = [chunk EXCEPT ![t] = c]
                         /\ c.pos = "leased" /\ c.length = chunk[t].length
  BY Zenon, ChunkGoto DEF ChunkAcquire
<1>2. /\ l \in 1..Oversize /\ (l \in Classes => SizeClasses[l] >= chunk[t].length)
      /\ (l # Oversize => l \in Classes)
  BY LeaseTypes, PickClassIs
<1>3. lease' = [lease EXCEPT ![t] = l]
  BY DEF ChunkAcquire, Acquire
<1>4. bucket' \in [Classes -> 0..MaxPerClass]
  <2>1. bucket' = bucket \/ (/\ l \in Classes /\ bucket[l] > 0
                             /\ bucket' = [bucket EXCEPT ![l] = @ - 1])
    BY <1>2 DEF ChunkAcquire, Acquire
  <2> HIDE DEF l
  <2>2. bucket \in [Classes -> 0..MaxPerClass] /\ MaxPerClass \in Nat
    BY LeaseTypes, ClassAssumption
  <2>3. ASSUME l \in Classes, bucket[l] > 0 PROVE bucket[l] - 1 \in 0..MaxPerClass
    BY SMTT(30), <2>2, <2>3
  <2> QED
    BY <2>1, <2>2, <2>3
<1> HIDE DEF l
<1>5. l \in 0..Oversize /\ l # 0
  BY <1>2
<1>6. TypeOK' /\ LeaseOfChunk'
  BY Zenon, <1>0, <1>1, <1>2, <1>3, <1>4, <1>5, ChunkTypes
<1> QED
  BY Zenon, <1>0, <1>1, <1>6, ChunkFrame DEF GInv

LEMMA ReleaseStep ==
    ASSUME GInv, NEW t \in Tasks, ChunkTransfer(t) \/ ChunkPutback(t)
    PROVE  GInv'
<1>0. UNCHANGED <<poolVars, lifecycle, commit>> /\ Active(t) /\ shut' = shut
  BY DEF ChunkTransfer, ChunkPutback, ReleaseToBucket, Dispose, Active, bufferVars
<1>1. 0 \in 0..Oversize /\ 0 \notin Classes
  BY LeaseTypes
<1>2. CASE ChunkTransfer(t) /\ ReleasesNow(t)
  <2>1. PICK c \in Chunk : /\ chunk' = [chunk EXCEPT ![t] = c]
                           /\ c.pos = "answer" /\ c.length = chunk[t].length
    BY <1>2, ChunkGoto DEF ChunkTransfer
  <2>2. lease' = [lease EXCEPT ![t] = 0] /\ bucket' \in [Classes -> 0..MaxPerClass]
    BY <1>2, LeaseTypes DEF ChunkTransfer, Dispose
  <2>3. TypeOK' /\ LeaseOfChunk'
    BY Zenon, <1>0, <1>1, <2>1, <2>2, ChunkTypes
  <2> QED
    BY Zenon, <1>0, <2>1, <2>3, ChunkFrame DEF GInv
<1>3. CASE ChunkTransfer(t) /\ ~ReleasesNow(t)
  <2>1. PICK c \in Chunk : /\ chunk' = [chunk EXCEPT ![t] = c]
                           /\ c.pos = "putback" /\ c.length = chunk[t].length
    BY <1>3, ChunkGoto DEF ChunkTransfer
  <2>2. /\ lease' = [lease EXCEPT ![t] = lease[t]] /\ bucket' \in [Classes -> 0..MaxPerClass]
        /\ lease[t] \in 0..Oversize
    BY <1>3, LeaseTypes DEF ChunkTransfer, bufferVars
  <2>3. lease[t] \in Classes /\ lease[t] # 0 /\ SizeClasses[lease[t]] >= chunk[t].length
    BY <1>3, LeaseTypes DEF ChunkTransfer, ReleasesNow
  <2>4. TypeOK' /\ LeaseOfChunk'
    BY Zenon, <1>0, <2>1, <2>2, <2>3, ChunkTypes
  <2> QED
    BY Zenon, <1>0, <2>1, <2>4, ChunkFrame DEF GInv
<1>4. CASE ChunkPutback(t)
  <2>1. PICK c \in Chunk : /\ chunk' = [chunk EXCEPT ![t] = c]
                           /\ c.pos = "answer" /\ c.length = chunk[t].length
    BY Zenon, <1>4, ChunkGoto DEF ChunkPutback
  <2>2. lease[t] \in Classes
    BY <1>4, LeaseTypes DEF ChunkPutback
  <2>3. lease' = [lease EXCEPT ![t] = 0]
    BY <1>4 DEF ChunkPutback, ReleaseToBucket
  <2>4. bucket' \in [Classes -> 0..MaxPerClass]
    <3>1. bucket \in [Classes -> 0..MaxPerClass] /\ MaxPerClass \in Nat
      BY Zenon, LeaseTypes, ClassAssumption
    <3>2. \A n \in 0..MaxPerClass : (IF n >= MaxPerClass THEN n ELSE n + 1) \in 0..MaxPerClass
      BY <3>1
    <3> QED
      BY <1>4, <2>2, <3>1, <3>2 DEF ChunkPutback, ReleaseToBucket
  <2>5. TypeOK' /\ LeaseOfChunk'
    BY Zenon, <1>0, <1>1, <2>1, <2>3, <2>4, ChunkTypes
  <2> QED
    BY <1>0, <2>1, <2>5, ChunkFrame DEF GInv
<1> QED
  BY <1>2, <1>3, <1>4

LEMMA AnswerStep ==
    ASSUME GInv, NEW t \in Tasks, ChunkAnswer(t)
    PROVE  GInv'
<1>0. /\ UNCHANGED <<running, queue, missed, bucket, lease, shut, phase, accepting, sweeper,
                     cuobj, pool_set, ucx, commit>>
      /\ Active(t) /\ chunk[t].pos = "answer"
      /\ chunk' = [chunk EXCEPT ![t] = [pos |-> "answered", length |-> 0]]
  BY DEF ChunkAnswer, Active, bufferVars, lifecycle
<1>1. /\ ~Queued(t) /\ submit[t] \notin {"idle", "check", "push"}
      /\ phase \in Open /\ pool_set
  BY Zenon, <1>0, ActiveIs
<1>2. /\ worker \in [Workers -> Worker] /\ submit \in [Tasks -> Submit]
      /\ chunk \in [Tasks -> Chunk]
  BY Zenon DEF GInv, TypeOK
<1>3. /\ \A s \in Tasks : s # t => chunk'[s] = chunk[s]
      /\ chunk'[t] = [pos |-> "answered", length |-> 0]
      /\ chunk' \in [Tasks -> Chunk]
  BY Zenon, <1>0, <1>2 DEF Chunk
<1>4. lease[t] = 0
  BY Zenon, <1>0, LeaseTypes
<1>5. \/ /\ submit[t] = "inline" /\ worker' = worker
         /\ submit' = [submit EXCEPT ![t] = "done"]
      \/ /\ submit' = submit
         /\ \E w \in Workers : /\ worker[w].task = t
                               /\ worker' = [worker EXCEPT ![w] = [pos |-> "check", task |-> None]]
  BY Zenon DEF ChunkAnswer, WorkerDone
<1>6. /\ worker' \in [Workers -> Worker] /\ submit' \in [Tasks -> Submit]
      /\ \A s \in Tasks : submit'[s] # submit[s] => s = t /\ submit'[s] = "done"
      /\ \A w \in Workers : worker'[w] = worker[w] \/ worker'[w] = [pos |-> "check", task |-> None]
  BY SMTT(30), <1>2, <1>5 DEF Worker, Submit
<1>7. TypeOK'
  <2>1. \A s \in Leases : lease'[s] \in Classes => SizeClasses[lease'[s]] >= chunk'[s].length
    BY Zenon, <1>0, <1>3, <1>4, LeaseTypes, LeaseAssumption DEF GInv, TypeOK
  <2> QED
    BY Zenon, <1>0, <1>3, <1>6, <2>1 DEF GInv, TypeOK
<1>8. OnePlace'
  <2>1. \A s \in Tasks : s # None
    BY Zenon, WorkerAssumption
  <2>2. ASSUME NEW s \in Tasks, NEW w \in Workers, worker'[w].task = s
        PROVE  worker[w].task = s
    <3>0. worker'[w] = worker[w] \/ worker'[w] = [pos |-> "check", task |-> None]
      BY Zenon, <1>6
    <3>1. worker'[w] = worker[w] \/ worker'[w].task = None
      BY <3>0
    <3> QED
      BY Zenon, <2>1, <2>2, <3>1
  <2>3. \A s \in Tasks : Queued(s) => chunk'[s].pos = chunk[s].pos
    BY Zenon, <1>1, <1>3
  <2>4. \A s \in Tasks : submit'[s] \in {"idle", "check", "push"} => submit'[s] = submit[s] /\ s # t
    BY Zenon, <1>1, <1>6
  <2>5. \A s \in Tasks : submit'[s] \in {"idle", "check", "push"} => chunk'[s].pos = "none"
    BY Zenon, <1>3, <2>4 DEF GInv, OnePlace, PlaceOK
  <2>6. CASE submit' = submit
    BY Zenon, <1>0, <2>2, <2>3, <2>5, <2>6, PlacesStay DEF GInv
  <2>7. CASE submit' # submit
    <3>1. submit[t] = "inline" /\ worker' = worker /\ submit' = [submit EXCEPT ![t] = "done"]
      BY Zenon, <1>5, <2>7
    <3>2. \A s \in Tasks : s # t => submit'[s] = submit[s]
      BY Zenon, <1>2, <3>1
    <3>3. submit'[t] \in Pushed /\ ~Queued(t)
      BY Zenon, <1>1, <1>2, <3>1 DEF Pushed
    <3>4. \A s \in Tasks : PlaceOK(s)
      BY Zenon DEF GInv, OnePlace
    <3>5. \A s \in Tasks : (Queued(s))' <=> Queued(s)
      BY Zenon, <1>0 DEF Queued
    <3>6. ASSUME NEW s \in Tasks PROVE PlaceOK(s)'
      BY Zenon, <1>3, <2>5, <3>1, <3>2, <3>3, <3>4, <3>5 DEF PlaceOK
    <3>7. \A i, j \in 1..Len(queue') : queue'[i] = queue'[j] => i = j
      BY Zenon, <1>0 DEF GInv, OnePlace
    <3> QED
      BY Zenon, <3>6, <3>7 DEF OnePlace
  <2> QED
    BY Zenon, <2>6, <2>7
<1>9. MutexIsHeld'
  <2>1. \A w \in Workers : worker'[w].pos \in {worker[w].pos, "check"}
    BY <1>6
  <2>2. ~MutexFree' => ~MutexFree
    BY Zenon, <2>1 DEF MutexFree
  <2> QED
    BY Zenon, <1>0, <2>2 DEF GInv, MutexIsHeld
<1>10. NoSleepOnWork'
  <2>1. \A s \in Tasks : submit[s] \in {"notify_all", "notify_one"} /\ worker' = worker
                         => submit'[s] = submit[s]
    BY Zenon, <1>2, <1>5
  <2>2. worker' = worker \/ \E w \in Workers : worker'[w].pos = "check"
    BY SMTT(30), <1>2, <1>5
  <2> QED
    BY Zenon, <1>0, <2>1, <2>2 DEF GInv, NoSleepOnWork
<1>11. QuietPhases'
  <2>0. \A w \in Workers : worker'[w].pos \in {worker[w].pos, "check"}
    BY <1>6
  <2>1. \A w \in Workers : worker'[w].pos = "left" => ~running'
    BY Zenon, <1>0, <2>0 DEF GInv, QuietPhases
  <2> QED
    BY Zenon, <1>0, <1>1, <2>1 DEF GInv, QuietPhases
<1>12. LeaseOfChunk' /\ Drained'
  <2>1. LeaseOfChunk'
    BY Zenon, <1>0, <1>3, <1>4 DEF GInv, LeaseOfChunk
  <2>2. Drained'
    BY Zenon, <1>0 DEF GInv, Drained
  <2> QED
    BY Zenon, <2>1, <2>2
<1> QED
  BY <1>7, <1>8, <1>9, <1>10, <1>11, <1>12 DEF GInv

-----------------------------------------------------------------------------
LEMMA NextGInv == GInv /\ [Next]_vars => GInv'
<1> SUFFICES ASSUME GInv, [Next]_vars PROVE GInv'
  BY Zenon
<1>1. ASSUME NEW t \in Tasks, Submitting(t) PROVE GInv'
  BY Zenon, <1>1, SubmitCheckStep, PushStep, NotifyStep DEF Submitting
<1>2. ASSUME NEW t \in Tasks, ChunkStep(t) PROVE GInv'
  BY Zenon, <1>2, StartStep, AcquireStep, ReleaseStep, AnswerStep DEF ChunkStep
<1>3. ASSUME NEW w \in Workers, Looping(w) PROVE GInv'
  BY Zenon, <1>3, WorkerTakes, WorkerRests DEF Looping
<1>4. CASE Shutdown
  BY Zenon, <1>4, ServerStep, PoolStopStep, StopNotifyStep, GdsStopStep DEF Shutdown
<1>5. CASE UNCHANGED vars
  <2>1. TypeOK' /\ QuietPhases'
    BY Zenon, <1>5 DEF vars, GInv, TypeOK, QuietPhases, Answered, poolVars, bufferVars
  <2>2. UNCHANGED <<queue, worker, submit, chunk, lease, bucket, phase, pool_set>>
    BY <1>5 DEF vars, poolVars, bufferVars
  <2> QED
    BY Zenon, <2>1, <2>2, TasksStay, BuffersStay DEF GInv
<1> QED
  BY Zenon, <1>1, <1>2, <1>3, <1>4, <1>5, InitializeStep, ArriveStep, SpuriousKeeps, CommitStep,
     ServerStep DEF Next

(***************************************************************************)
(* The inductive invariant holds at every moment of the life of a gateway. *)
(***************************************************************************)
THEOREM GInvHolds == Spec => []GInv
BY InitGInv, NextGInv, PTL DEF Spec

(***************************************************************************)
(* Queue, workers, submitters, free lists, leases and phases keep their    *)
(* types: a free list never grows beyond max_per_class_, and a lease is    *)
(* never of a class smaller than its chunk.                                *)
(***************************************************************************)
THEOREM RuntimeKeepsItsTypes == Spec => []TypeOK
BY GInvHolds, PTL DEF GInv

(***************************************************************************)
(* While a task is queued, some worker is awake or some submitter has yet  *)
(* to notify: the notify_all that Submit sends only for the first task of  *)
(* an empty queue, outside the mutex, loses no wake-up.                    *)
(***************************************************************************)
THEOREM WorkIsNotSleptOn == Spec => []NoSleepOnWork
BY GInvHolds, PTL DEF GInv

(***************************************************************************)
(* When cuObjServer is reset no registered buffer is left, neither free    *)
(* nor leased, whether Shutdown follows a run or a failed Initialize.      *)
(***************************************************************************)
THEOREM BuffersGoFirst == Spec => []NoBufferOutlivesServer
<1>1. GInv => NoBufferOutlivesServer
  <2> SUFFICES ASSUME GInv,
                      phase \in {"ucx", "late_pool_flag", "late_pool_notify",
                                 "late_pool_join", "down"}
               PROVE  /\ \A c \in Classes : bucket[c] = 0
                      /\ \A t \in Leases : lease[t] = 0
    BY DEF NoBufferOutlivesServer
  <2>1. phase \notin Open
    BY Zenon DEF Open
  <2>2. \A t \in Tasks : chunk[t].pos \in {"none", "answered"}
    BY Zenon, <2>1 DEF GInv, QuietPhases, Answered, OnePlace, PlaceOK
  <2>3. \A t \in Leases : lease[t] = 0
    BY Zenon, <2>2, LeaseAssumption DEF GInv, LeaseOfChunk
  <2>4. \A c \in Classes : bucket[c] = 0
    BY DEF GInv, Drained
  <2> QED
    BY Zenon, <2>3, <2>4
<1> QED
  BY <1>1, GInvHolds, PTL

(***************************************************************************)
(* Once the server is joined nothing is queued and no chunk is under way,  *)
(* so a pool that is told to stop has nothing left to drain.               *)
(***************************************************************************)
THEOREM StoppedPoolIsEmpty ==
    Spec => [](phase \notin Open => queue = <<>> /\ \A t \in Tasks : ~Active(t))
<1>1. GInv => (phase \notin Open => queue = <<>> /\ \A t \in Tasks : ~Active(t))
  BY QueuedKeepsWorkers, ActiveIs
<1> QED
  BY <1>1, GInvHolds, PTL
=============================================================================
