--------------------------- MODULE GatewayRuntime ---------------------------
(***************************************************************************)
(* The life of a gateway process (gateway/src/runtime/gateway_runtime):    *)
(* Initialize, the GDS chunks that the RPC server hands to the worker pool,*)
(* a commit that waits for its AM in the UCX executor, the sweeper thread, *)
(* and Shutdown in the order of the code.  IoWorkerPool and                *)
(* PinnedBufferPool are composed here with the GDS executor.               *)
(*                                                                         *)
(* server_.Join() returns when every request that was accepted has been    *)
(* answered (external: brpc).                                              *)
(***************************************************************************)
EXTENDS IoWorkerPool, PinnedBufferPool

CONSTANTS
    Lengths,     \* the lengths a chunk may have
    MaxChunk     \* GdsOptions::max_chunk_bytes

ASSUME LeaseAssumption == Leases = Tasks
ASSUME LengthAssumption == Lengths \subseteq Nat /\ MaxChunk \in Nat

VARIABLES
    phase,       \* where Initialize or Shutdown stands
    accepting,   \* the RPC server takes requests
    sweeper,     \* the sweeper thread runs
    cuobj,       \* GdsExecutor::server_ is set
    pool_set,    \* GdsExecutor::buffer_pool_ is set
    ucx,         \* the UCX executor runs
    chunk,       \* the GDS chunks: position and length
    commit       \* a commit RPC waits for its AM

vars == <<poolVars, bufferVars, phase, accepting, sweeper, cuobj, pool_set, ucx,
          chunk, commit>>

lifecycle == <<phase, accepting, sweeper, cuobj, pool_set, ucx>>

Phase == {"init", "init_ucx", "init_server", "serving", "sweeper", "joining",
          "pool_flag", "pool_notify", "pool_join", "gds",
          "gds_shut", "gds_drain", "gds_reset", "ucx", "late_pool_flag",
          "late_pool_notify", "late_pool_join", "down"}

Chunk == [pos : {"none", "pool", "leased", "putback", "answer", "answered"},
          length : Lengths \cup {0}]

Init ==
    /\ WorkersInit
    /\ BuffersInit
    /\ phase = "init"
    /\ accepting = FALSE
    /\ sweeper = FALSE
    /\ cuobj = FALSE /\ pool_set = FALSE /\ ucx = FALSE
    /\ chunk = [t \in Tasks |-> [pos |-> "none", length |-> 0]]
    /\ commit = FALSE

-----------------------------------------------------------------------------
(* Initialize.  The stores and the worker pool are made first; a step that *)
(* fails ends it, and the destructor runs Shutdown with started_ = false.  *)

GdsStart ==
    /\ phase = "init"
    /\ cuobj' = TRUE /\ pool_set' = TRUE
    /\ phase' = "init_ucx"
    /\ UNCHANGED <<poolVars, bufferVars, accepting, sweeper, ucx, chunk, commit>>

UcxStart ==
    /\ phase = "init_ucx"
    /\ ucx' = TRUE
    /\ phase' = "init_server"
    /\ UNCHANGED <<poolVars, bufferVars, accepting, sweeper, cuobj, pool_set, chunk, commit>>

\* server_.Start; then the sweeper starts and started_ is set, and nothing of
\* that can fail.
ServerStart ==
    /\ phase = "init_server"
    /\ accepting' = TRUE
    /\ sweeper' = TRUE
    /\ phase' = "serving"
    /\ UNCHANGED <<poolVars, bufferVars, cuobj, pool_set, ucx, chunk, commit>>

InitializeFails ==
    /\ phase \in {"init", "init_ucx", "init_server"}
    /\ phase' = "gds"
    /\ UNCHANGED <<poolVars, bufferVars, accepting, sweeper, cuobj, pool_set, ucx,
                   chunk, commit>>

-----------------------------------------------------------------------------
(* A GDS chunk: GetChunk, PutChunk or PutPart, run by a worker.            *)

\* GdsGet and GdsPut submit the chunk and return; the RPC stays open.
Arrive(t, n) ==
    /\ accepting
    /\ submit[t] = "idle"
    /\ submit' = [submit EXCEPT ![t] = "check"]
    /\ chunk' = [chunk EXCEPT ![t].length = n]
    /\ UNCHANGED <<running, queue, worker, missed, bufferVars, lifecycle, commit>>

\* The closure that GdsGet or GdsPut has submitted runs.
Executing(t) == submit[t] = "inline" \/ \E w \in Workers : worker[w].task = t

\* Faulty: a chunk that is refused returns before its done closure is guarded.
ChunkStartSilent(t) ==
    /\ Executing(t)
    /\ chunk[t].pos = "none"
    /\ IF chunk[t].length \in 1..MaxChunk /\ cuobj
         THEN chunk' = [chunk EXCEPT ![t].pos = "pool"] /\ UNCHANGED worker
         ELSE (\E w \in Workers : worker[w].task = t /\ WorkerDone(w)) /\ UNCHANGED chunk
    /\ UNCHANGED <<running, queue, submit, missed, bufferVars, lifecycle, commit>>

\* The length is checked and the server looked up.
ChunkStart(t) ==
    /\ Executing(t)
    /\ chunk[t].pos = "none"
    /\ chunk' = [chunk EXCEPT ![t].pos =
           IF chunk[t].length \in 1..MaxChunk /\ cuobj THEN "pool" ELSE "answer"]
    /\ UNCHANGED <<poolVars, bufferVars, lifecycle, commit>>

\* GetChunk, PutChunk and PutPart take their buffer in the same way.
ChunkAcquire(t) ==
    /\ chunk[t].pos = "pool"
    /\ pool_set
    /\ Acquire(t, chunk[t].length)
    /\ chunk' = [chunk EXCEPT ![t].pos = "leased"]
    /\ UNCHANGED <<poolVars, lifecycle, commit>>

\* No pool, or no memory.
ChunkNoBuffer(t) ==
    /\ chunk[t].pos = "pool"
    /\ IF pool_set THEN AcquireFails(chunk[t].length) ELSE UNCHANGED bufferVars
    /\ chunk' = [chunk EXCEPT ![t].pos = "answer"]
    /\ UNCHANGED <<poolVars, lifecycle, commit>>

\* The transfer and the backend's read or write are over, well or not; the
\* lease is given back on the way out.
ChunkTransfer(t) ==
    /\ chunk[t].pos = "leased"
    /\ IF ReleasesNow(t)
         THEN Dispose(t) /\ chunk' = [chunk EXCEPT ![t].pos = "answer"]
         ELSE UNCHANGED bufferVars /\ chunk' = [chunk EXCEPT ![t].pos = "putback"]
    /\ UNCHANGED <<poolVars, lifecycle, commit>>

ChunkPutback(t) ==
    /\ chunk[t].pos = "putback"
    /\ ReleaseToBucket(t)
    /\ chunk' = [chunk EXCEPT ![t].pos = "answer"]
    /\ UNCHANGED <<poolVars, lifecycle, commit>>

\* The done closure answers the RPC.
ChunkAnswer(t) ==
    /\ chunk[t].pos = "answer"
    /\ chunk' = [chunk EXCEPT ![t] = [pos |-> "answered", length |-> 0]]
    /\ IF submit[t] = "inline"
         THEN submit' = [submit EXCEPT ![t] = "done"] /\ UNCHANGED worker
         ELSE (\E w \in Workers : worker[w].task = t /\ WorkerDone(w)) /\ UNCHANGED submit
    /\ UNCHANGED <<running, queue, missed, bufferVars, lifecycle, commit>>

-----------------------------------------------------------------------------
(* A commit that waits in the UCX executor.                                *)

CommitArrives ==
    /\ accepting /\ ucx
    /\ ~commit
    /\ commit' = TRUE
    /\ UNCHANGED <<poolVars, bufferVars, lifecycle, chunk>>

\* OnAmWriteDone runs it in the progress thread.
CommitNotified ==
    /\ commit /\ ucx
    /\ commit' = FALSE
    /\ UNCHANGED <<poolVars, bufferVars, lifecycle, chunk>>

-----------------------------------------------------------------------------
(* Shutdown.                                                               *)

\* A step of Shutdown that only moves on.
Advance(from, to) == phase = from /\ phase' = to

StopSweeper ==
    /\ Advance("serving", "sweeper")
    /\ UNCHANGED <<poolVars, bufferVars, accepting, sweeper, cuobj, pool_set, ucx,
                   chunk, commit>>

\* SessionSweeper::Run finds running_ cleared after its wait (a missed wake-up
\* costs one interval) or after the round it was in, and leaves; it is joined,
\* and server_.Stop(0) refuses what comes next.
ServerStop ==
    /\ Advance("sweeper", "joining")
    /\ sweeper' = FALSE
    /\ accepting' = FALSE
    /\ UNCHANGED <<poolVars, bufferVars, cuobj, pool_set, ucx, chunk, commit>>

Answered(t) == submit[t] = "idle" \/ chunk[t].pos = "answered"

\* server_.Join() (external): every accepted request is answered.
ServerJoin ==
    /\ Advance("joining", "pool_flag")
    /\ \A t \in Tasks : Answered(t)
    /\ ~commit
    /\ UNCHANGED <<poolVars, bufferVars, accepting, sweeper, cuobj, pool_set, ucx,
                   chunk, commit>>

\* io_pool_->Stop(), or its destructor when Initialize had failed.
PoolStopFlag ==
    /\ Advance("pool_flag", "pool_notify") \/ Advance("late_pool_flag", "late_pool_notify")
    /\ StopFlag
    /\ UNCHANGED <<bufferVars, accepting, sweeper, cuobj, pool_set, ucx, chunk, commit>>

PoolStopNotify ==
    /\ Advance("pool_notify", "pool_join") \/ Advance("late_pool_notify", "late_pool_join")
    /\ StopNotify
    /\ UNCHANGED <<bufferVars, accepting, sweeper, cuobj, pool_set, ucx, chunk, commit>>

PoolStopJoin ==
    /\ Advance("pool_join", "gds") \/ Advance("late_pool_join", "down")
    /\ WorkersLeft
    /\ UNCHANGED <<poolVars, bufferVars, accepting, sweeper, cuobj, pool_set, ucx,
                   chunk, commit>>

\* GdsExecutor::Stop: take the pool, shut it down, then reset the server.
GdsTakePool ==
    /\ phase = "gds"
    /\ phase' = IF pool_set THEN "gds_shut" ELSE "gds_reset"
    /\ pool_set' = FALSE
    /\ UNCHANGED <<poolVars, bufferVars, accepting, sweeper, cuobj, ucx, chunk, commit>>

GdsShutdownFlag ==
    /\ Advance("gds_shut", "gds_drain")
    /\ ShutdownFlag
    /\ UNCHANGED <<poolVars, accepting, sweeper, cuobj, pool_set, ucx, chunk, commit>>

\* Buckets are drained in order.
GdsDrain(c) ==
    /\ phase = "gds_drain"
    /\ bucket[c] > 0
    /\ \A d \in Classes : d < c => bucket[d] = 0
    /\ DrainBucket(c)
    /\ UNCHANGED <<poolVars, lifecycle, chunk, commit>>

\* Faulty: the loop leaves out the last bucket.
GdsDrainedShort ==
    /\ Advance("gds_drain", "gds_reset")
    /\ \A c \in Classes : c < Len(SizeClasses) => bucket[c] = 0
    /\ UNCHANGED <<poolVars, bufferVars, accepting, sweeper, cuobj, pool_set, ucx,
                   chunk, commit>>

GdsDrained ==
    /\ Advance("gds_drain", "gds_reset")
    /\ \A c \in Classes : bucket[c] = 0
    /\ UNCHANGED <<poolVars, bufferVars, accepting, sweeper, cuobj, pool_set, ucx,
                   chunk, commit>>

GdsReset ==
    /\ Advance("gds_reset", "ucx")
    /\ cuobj' = FALSE
    /\ UNCHANGED <<poolVars, bufferVars, accepting, sweeper, pool_set, ucx, chunk, commit>>

\* UcxExecutor::Stop joins the progress thread and drops the registry.  What is
\* left, the worker pool included, is reset.
UcxStop ==
    /\ phase = "ucx"
    /\ phase' = IF running THEN "late_pool_flag" ELSE "down"
    /\ ucx' = FALSE
    /\ UNCHANGED <<poolVars, bufferVars, accepting, sweeper, cuobj, pool_set, chunk,
                   commit>>

-----------------------------------------------------------------------------
Submitting(t) ==
    /\ SubmitCheck(t) \/ SubmitPush(t) \/ SubmitNotify(t)
    /\ UNCHANGED <<bufferVars, lifecycle, chunk, commit>>

Looping(w) ==
    /\ WorkerCheck(w) \/ WorkerSleep(w)
    /\ UNCHANGED <<bufferVars, lifecycle, chunk, commit>>

SpuriousStep ==
    /\ \E w \in Workers : WorkerSpurious(w)
    /\ UNCHANGED <<bufferVars, lifecycle, chunk, commit>>

\* The steps of GetChunk, PutChunk or PutPart.
ChunkStep(t) ==
    \/ ChunkStart(t) \/ ChunkAcquire(t) \/ ChunkNoBuffer(t)
    \/ ChunkTransfer(t) \/ ChunkPutback(t) \/ ChunkAnswer(t)

\* The thread of a worker, and the thread that submits a chunk.
WorkerThread(w) ==
    \/ Looping(w)
    \/ \E t \in Tasks : worker[w].task = t /\ ChunkStep(t)

SubmitThread(t) == Submitting(t) \/ (submit[t] = "inline" /\ ChunkStep(t))

Initialize ==
    GdsStart \/ UcxStart \/ ServerStart \/ InitializeFails

\* Everything Shutdown does once it has begun.
Shutdown ==
    \/ ServerStop \/ ServerJoin
    \/ PoolStopFlag \/ PoolStopNotify \/ PoolStopJoin
    \/ GdsTakePool \/ GdsShutdownFlag \/ (\E c \in Classes : GdsDrain(c)) \/ GdsDrained
    \/ GdsReset \/ UcxStop

Next ==
    \/ Initialize
    \/ \E t \in Tasks : \E n \in Lengths : Arrive(t, n)
    \/ \E t \in Tasks : Submitting(t) \/ ChunkStep(t)
    \/ (\E w \in Workers : Looping(w)) \/ SpuriousStep
    \/ CommitArrives \/ CommitNotified
    \/ StopSweeper \/ Shutdown

\* Threads are scheduled: submitters, workers, the sweeper and the thread in
\* Shutdown; the mutex of the pool is not withheld for ever from a
\* thread that waits for it, whatever spurious wake-ups there are (strong
\* fairness).  No fairness for clients, for the AM of a commit, for a spurious
\* wake-up or for the signal that starts Shutdown.
Spec ==
    /\ Init /\ [][Next]_vars
    /\ \A t \in Tasks : SF_vars(SubmitThread(t))
    /\ \A w \in Workers : SF_vars(WorkerThread(w))
    /\ WF_vars(Shutdown)

-----------------------------------------------------------------------------
\* The variables keep their types, a free list stays within max_per_class_, and
\* a lease is of a class that is large enough for its chunk.
TypeOK ==
    /\ running \in BOOLEAN /\ missed \in BOOLEAN
    /\ queue \in Seq(Tasks)
    /\ worker \in [Workers -> Worker]
    /\ submit \in [Tasks -> Submit]
    /\ bucket \in [Classes -> 0..MaxPerClass]
    /\ lease \in [Leases -> 0..Oversize]
    /\ \A t \in Leases : lease[t] \in Classes => SizeClasses[lease[t]] >= chunk[t].length
    /\ phase \in Phase
    /\ chunk \in [Tasks -> Chunk]
    /\ commit \in BOOLEAN
    /\ {accepting, sweeper, cuobj, pool_set, ucx, shut} \subseteq BOOLEAN

\* When GdsExecutor::Stop resets cuObjServer no registered buffer is left,
\* neither in a free list nor in a lease: a lease that comes back between the
\* flag and the drain of PinnedBufferPool::Shutdown, or after it, would be.
\* Shutdown's order is what keeps the chunks away.
NoBufferOutlivesServer ==
    phase \in {"ucx", "late_pool_flag", "late_pool_notify", "late_pool_join", "down"} =>
        /\ \A c \in Classes : bucket[c] = 0
        /\ \A t \in Leases : lease[t] = 0

\* The worker pool never sleeps on work: while a task is queued, some worker is
\* awake or the thread that queued a task has yet to notify.
NoSleepOnWork ==
    queue # <<>> =>
        \/ \E w \in Workers : worker[w].pos \in {"check", "run"}
        \/ \E t \in Tasks : submit[t] \in {"notify_all", "notify_one"}

\* Every chunk the server has accepted is answered, also when Shutdown begins
\* between any two steps of Submit and of the workers.
EveryChunkIsAnswered ==
    \A t \in Tasks : submit[t] # "idle" ~> chunk[t].pos = "answered"

\* Shutdown comes to its end, except for the two ways in which it hangs: a
\* commit whose AM never comes keeps server_.Join() waiting, and a worker that
\* fell asleep just after Stop had notified is never joined.
ShutdownEnds ==
    []<>~commit => (phase = "sweeper" ~> (phase = "down" \/ missed))
=============================================================================
