# Us3TurboAccess in TLA+

A verification project for Us3TurboAccess: its gateway, client library, proxy
and backend server. Paths below are relative to the repository root.

## 1. The system

A client library moves objects between GPU or host memory and an object store.
Bytes travel over one of two data paths, GDS (the gateway pulls from GPU memory
through cuObject) and UCX (the client writes into a registered buffer of the
gateway and sends an active message); control messages are brpc calls.

| Part | State | Operations | What makes it hard |
|---|---|---|---|
| Byte store, `gateway/src/backend/memory_data_store` | bodies in 32 shards, staged parts, `used_bytes_` | Reserve, WriteRange, DeleteObject, WritePart, AbortMultipartData, AssembleObject | one counter charged under many mutexes; AssembleObject runs in several critical sections |
| Index store and composite backend, `gateway/src/backend/{memory_index_store,composite_backend}` | object entries, upload records, `mpu_targets_` | PutObjectIndex, StartMultipart, CommitMultipart, AbortMultipart, WriteRange, CompleteMultipart | one operation touches three stores under three mutexes |
| Multipart uploads, `gateway/src/core/multipart` | table of uploads, their state, recorded parts, last activity | CreateUpload, RegisterPart, CompleteUpload, AbortUpload, SweepExpired | completion, abort and sweep of one upload at once; rollback on every error path |
| Sweeper, `gateway/src/core/session/session_sweeper` | its thread | Start, Run, Stop | acts on uploads and sessions in use |
| Sessions, `gateway/src/core/session`, `session_opener` | three indexes, atomic state, deadline | Create, Find, FindByTicket, BumpActive, MarkFailed, SweepExpired | indexes updated one after the other; unconditional stores of the state |
| UCX path, `gateway/src/data_path/ucx` | registry, registered slots, `write_done`, `pending_commit` | PrepareTransfer, OnAmWriteDone, CommitObjectAsync, CommitPartDataAsync, AbortSession, Stop | message and RPC in either order on different threads; slot ownership |
| GDS path, `gateway/src/data_path/gds` | server handle, pinned buffers, running MD5 | OnSessionOpened, PutChunk, PutPart, GetChunk, Acquire, Release, Shutdown | chunks in any order; leases beyond shutdown |
| Runtime, `gateway/src/runtime` | task queue, workers | Submit, Stop, Initialize, Shutdown | stop racing submit; order of shutdown |
| RPC services, `gateway/src/api` | none | dispatch | composition of the above |
| Client uploads, `client/src/core/client` | recorded parts, `finished` | UploadPart, UploadParts, Complete, Abort, destructor | workers, fail-fast, finish races |
| Client paths and transports, `client/src/core/{rdma,gds}`, `client/src/transports` | endpoint pool, registrations | put, get, retry, deadline | retry of what already happened, late writes |
| Client core and executor, `client/src/core/{client,async}` | initialized flag, task counter, stop flag | Initialize, Submit, Shutdown | submit racing shutdown; tasks that outlive their executor |
| Proxy and backend server, `proxy/src`, `backend/src` | session table | OpenSession, ReportGdsPut, CompleteUpload, GdsPut | lost, late and doubled reports |

How they interact: an RPC service opens a session, the data path moves bytes
into the composite backend, and for a multipart upload the path handler records
each part with the coordinator. The coordinator completes or aborts through the
composite backend. The sweeper thread removes idle uploads and dead sessions
beside all of this, and the runtime starts and stops the whole. The client
drives one of three flows: a put or a part over RDMA, a put or a get over GDS,
or a GDS put whose control plane is the proxy and whose data plane is the
backend server. `PROJECT.json` lists each part with its status, and under
`hazards` the places where an order of events is hard to test.

## 2. Modules

| Module | Models |
|---|---|
| `MemoryDataStore` | the byte store and its capacity accounting |
| `CompositeBackend` | the index store and `mpu_targets_` beside the byte store, as the steps an operation of the backend is made of |
| `Multipart` | the requests of the gateway on uploads and objects, and the sweeper, over `CompositeBackend` |
| `UploadCommit` | abstract: the right to commit an upload is exclusive and one-shot |
| `Sessions` | the session store's three indexes, opens with and without an idempotency key, chunks, aborts and the sweep of sessions |
| `UcxExecutor` | the gateway's side of an RDMA write: registry, slots, write-done message, commit, abort |
| `RdmaPut` | the client's put and part over RDMA with deadline, retries and endpoint pool, composed with `UcxExecutor` |
| `IoWorkerPool`, `PinnedBufferPool` | the worker pool's queue and wake-ups; the free lists and leases of pinned buffers |
| `GatewayRuntime` | `Initialize`, GDS chunks, a parked commit and `Shutdown`, composed of the two pools |
| `ClientUpload` | a multipart upload as the client drives it, over requests that are lost, late or doubled |
| `ClientGet` | `GetObject`, `PutObject`, `HeadObject` and their asynchronous forms over GDS, the client's executor and life cycle, and the registration of memory |
| `ProxiedPut` | a GDS put through proxy and backend server |
| `MemoryDataStoreProofs`, `MultipartProofs`, `CommitProofs`, `SessionsProofs`, `GatewayRuntimeProofs`, `ProxiedPutProofs` | theorems |
| `MC...` | constants for TLC |

**Granularity.** An action is one critical section of the code. In the byte
store `size` and `bodies` are the shards, `mpu` the staging table, `used` the
atomic counter, and `asm[t]` what a running `AssembleObject` carries between its
sections (entry taken, parts joined and charge released, body stored). A section
that touches the counter does so once, so it is atomic for every other thread;
only inside the last section of `AssembleObject`, and while joined bytes wait to
be stored, does the process hold bytes that are not charged.

In `Multipart`, `jobs[a].at` is the section actor `a` enters next.
`CompleteUpload` becomes `CompleteUpload`, `Claim` (with the validation of the
private snapshot), `LookupTarget`, `Take`, `Join`, `Store`, `Unrecord`, `Enter`,
`Untarget`, `Finish`, `Erase`, and `Rollback` for the guard that every failure
after the claim runs. `AbortUpload` becomes `AbortUpload`, `Mark`, `AbortData`,
`AbortIndex`, `AbortTarget`, `Erase`; the sweeper shares the abort sections
after `SweepExpired` and `SweepOne`. A part is `UploadPart` (lookup),
`StagePart` or `TransferFails`, `RegisterPart`. Whole objects are
`ReserveObject` or `WriteObject`, then `PutIndex`. No chunk is checked against
the announced total: one that ends beyond it makes the body longer, while the
index gets the total.

In `Sessions`, a call is at the section it enters next: `Create` is `CreateHit`
or `CreateMiss` (the lookup of the key), then `PutId`, `PutTicket` and `PutKey`,
since the three entries of a session lie in shards with mutexes of their own;
the executor's hook follows. The sweep is `SweepShard` for every
shard of `by_id`, then `SweepTicket` and `SweepKey` for each session it took. A session is named by its
ticket. `Claim`, `MarkActive`, `Transition` and `MarkCompleted` have no caller
in the repository.

In `UcxExecutor`, `entry->slot` is under no lock, so every access to it is a
step. `registry` maps a session id to the entry registered under it, `mem` is
what lies in a slot, `progress` the progress thread. `PrepareTransfer` is
`PrepareFails`, `PrepareAgain`, or `PrepareAcquire` and `PrepareAssign`;
`OnAmWriteDone` is `AmFind` and `AmNotify`; a commit is `CommitCheck` (the test
of `write_done` outside the lock), `CommitPark` (the one under it), `DoCommit`
or `StoreFails`, `CommitReturn`, `CommitFinish`. `CommitPart` takes the steps of
`CommitObject` after a lookup of its upload. In `RdmaPut` every failure of
`PrepareAndWrite` and of the commit ends in `GiveUp`, which sends
`AbortSession`, and `NextAttempt`, which is `RetryIfRetryable`. Two handlers
that work on one entry at once race on `entry->slot`; `raced` records it, and
from there the properties about slots and bytes claim nothing.

In `GatewayRuntime`, `phase` is where `Initialize` or `Shutdown` stands. A chunk
is submitted (`SubmitCheck`, `SubmitPush`, `SubmitNotify`), run by a worker and
answered; the condition variable has lost and spurious wake-ups. `GetChunk`,
`PutChunk` and `PutPart` use their buffer alike and share the `Chunk` actions.

In `ClientUpload`, `pos[a]` is where thread `a` stands and `rpc[a]` the request
it waits for. The gateway is seen through its handlers. `CompleteUpload` is two
sections (`HandleComplete`, `Commit`), and a part three, those of
`GdsMultipartPathHandler::UploadPart`: `LookupPart`, `WritePart`,
`RegisterPart`; other requests may come between any two. `Timeout` makes the
client give up a request, which still arrives or, when its handler has begun,
goes on later (`late`); `Resend` and `PutObjectPart` send it again.

In `ClientGet`, a call has a body, in the caller's thread or in a bthread, and
the body has pieces. `Submit` of the executor is two steps, the test of `stop_`
and the increment of `inflight_`. What a thread does to an executor that has
been destroyed is undefined: the step sets `undefined` and nothing follows. The
platform (GPU, libcufile, the cuObject libraries found on the search path and
their symbols) is chosen once.

In `ProxiedPut`, messages are the set `net`; `OpenSession`, `ReportGdsPut` and
`GdsPut` take one out, and `GdsPut` goes through `GdsPut`, `Receive`, the report
and `GdsPutDone`. Proxy and backend may be restarted; the proxy's sessions are
in memory only. `CompleteUpload` of the proxy is two steps, because
`GetCompletedSession` hands out a pointer beyond its lock. The report is made as
the code makes it: `GdsPut` waits for it, for at most `kNotifyTimeoutMs`, and
answers whatever came of it. `OpenSession` refuses an `expected_size` of 0, which
is what the SDK of this repository sends (section 6): the puts of the run that
state a size stand for a client of the proxy's RPCs that fills in the field.

**Abstractions.** Bytes are lengths; etags of a completion are one Boolean
input; the TTL is the set `idle`, entered at any time and left when a part is
registered; an upload id is never reused. A request that is refused before it
changes anything is no step. `commits`, `removed`, `late` and `torn` are history
variables that no action reads. The other modules group theirs under `history`;
of these only `orphans` of `ClientGet` and `raced` of `ProxiedPut` are read, where
what a thread does to a destroyed executor, or reads from an entry that is being
written, depends on them. An RDMA write is one step, and what it carries is the put it
belongs to; rkeys are not modelled, so a write the client gave up may land in
a slot that was freed and allocated again, which the real key might prevent.

**Assumptions about callers and libraries.** An RDMA
transfer moves all its bytes or fails. The upload TTL is positive. `size_t` does
not wrap: lengths are far below 2^64, and `used_bytes_` never goes below zero,
which is proved. brpc may send a request again on a
new connection (`max_retry` of `channel_registry.cpp`), and `Join` returns when
every accepted request was answered. Callers of the client do not use a buffer
for two calls at once, nor destroy an upload handle while another thread is in
one of its methods. A GDS request is not longer than its buffer.

## 3. Runs

| Run | Instance | Result |
|---|---|---|
| `data_store` | 2 keys, 2 uploads, 2 parts, 2 threads, capacity 3, lengths and offsets 0 to 2, all four sets symmetric | passes, about 17,600 distinct states |
| `multipart` | 1 key, 1 upload, 2 parts, 2 request threads and the sweeper, capacity 2 | passes, about 421,500 distinct states |
| `multipart_live` | 2 uploads, 1 request thread and the sweeper, under fairness | passes, about 33,000 distinct states |
| `terminal_state` | small instance of `multipart`, under fairness | violated, see section 6 |
| `staged_after_abort` | small instance of `multipart` | violated, see section 6 |
| `sessions` | 2 calls at a time, 4 in all, 2 sessions, 2 ids, 1 key, 2 targets; ids and targets symmetric | passes, about 2,400,000 distinct states |
| `ucx` | a keyed put with 2 attempts and a part with 1, 1 slot, 1 idle slot, 1 fault | passes, about 1,580,000 distinct states |
| `ucx_answered` | 1 put, under fairness | violated, see section 6 |
| `runtime` | 2 workers, 2 chunks of length 0, 2 or 3, size classes 1 and 2, 1 buffer per class | passes, about 57,500 distinct states |
| `client_upload` | 2 workers, lists of 0, 1 and 2 parts, 2 calls, 1 fault | passes, about 2,460,000 distinct states |
| `client_get` | 3 calls on one buffer, 3 platforms, pages of 2 bytes, 1 fault | passes, about 1,940,000 distinct states |
| `proxied_put` | 3 puts (one over the sink's limit, one without a size), 2 attempts, 2 faults | passes, about 1,283,000 distinct states |

What the properties say:

- `ExactAccounting`, `ReservedIsStaged`, `WithinCapacity`: `used_bytes_` is what
  bodies, staged parts and running assemblies hold, `reserved_bytes` is what an
  entry holds, and the limit is kept.
- `CommitIsExclusive`: `CompleteUpload` implements `UploadCommit`. The mapping
  takes as owner of an upload the thread between claim and end of the guard,
  and as committed the uploads whose index entry was written and whose
  completer is past the guard. It holds although aborts and the sweeper
  overwrite `kCompleting`.
- `NothingAckedIsLost`: a completion joins at least the recorded length of the
  parts it lists. Exempt (`late`) are uploads that had a part staged again after
  a completion or abort removed their staged bytes: there a refused write can
  leave an empty part behind a recorded one.
- `IndexedIsStored`: outside a publication, the indexed length is not beyond the
  body, and no entry means no body; a chunk past the announced total makes the
  body longer than its entry, never shorter.
  Exempt (`torn`) are objects whose publications overlapped and objects whose
  completion lost its record to an abort after replacing the body; the code lets
  both diverge.
- `RemovedIsReclaimed`: an upload that left the store and is not being aborted
  by the sweeper has no record, no target and no staged bytes except late ones.
- `CompletingEnds`, `IdleIsReclaimed`: a claim ends; an upload that stays idle
  loses its records.
- `OneLiveSessionPerKey`, `RetryFindsItsSession`: of one idempotency key at most
  one session is live, and while a session that was handed out is live its key
  leads to it. Exempt (`raced`) are keys for which two opens both missed the
  lookup of `Create`; the code has no lock over lookup and insertion.
- `IndexesAgree`: what the ticket or key index names is also in `by_id`, or is
  being created or swept. Exempt (`torn`) are sessions swept while they were
  being created and sessions whose id a second open took over.
- `EndedStaysEnded`: a chunk under way does not revive a failed or expired
  session.
- `AnsweredAtMostOnce`, `PendingAwaitsTheWrite`: the double check of
  `write_done` neither answers a commit twice nor leaves its callback behind a
  message that has already come.
- `CommitsItsOwnBytes`, `DoneIsDelivered`: a commit stores the bytes of its own
  put, and a put reported as done has been delivered. Exempt are commits let
  through by the message of an earlier attempt under the same session id
  (`early`) and bytes that a write given up by the client put into a slot with a
  new user (`stray`).
- `OneOwnerPerSlot`, `SlotIsUsable`: a slot is in the pool, in one handler or in
  one entry, and is large enough; both only while no two handlers have worked on
  one entry at once (`raced`).
- `NoBufferOutlivesServer`, `NoSleepOnWork`, `EveryChunkIsAnswered`,
  `ShutdownEnds`: the order of `Shutdown` keeps chunks away from a reset server;
  queued work has a worker that is awake or about to be woken; every accepted
  chunk is answered; `Shutdown` ends unless a parked commit is never answered or
  a worker missed the notification of `Stop` (`missed`).
- `UploadPartsIsWhole`: when `UploadParts` succeeds every part of its list is
  acknowledged and recorded, and no part is taken by two workers.
- `CompleteTellsTheTruth`: after a success the object has every part recorded
  before the snapshot (parts recorded later are `overtaken`), and an object that
  exists was reported, unless the request timed out or was sent twice.
- `NothingIsLeftOpen`: once the handle is gone, and unless the abort was lost,
  the gateway has neither the upload nor its target, and no staged part but those
  whose handler had looked the upload up and not yet written when it ended
  (`crossed`): these are staged afterwards and stay, which is the disagreement
  that `staged_after_abort` shows (section 6).
- `ReturnedIsRead`: a call that returned success has no piece at work, and a
  get has filled its whole range with its own bytes. Exempt are bytes that the
  pieces of a failed call write later (`stray`) and a later get (`reused`).
- `CleanShutdownIsQuiet`: after `Shutdown` returned true no task runs, except
  those between the test of `stop_` and the increment (`raced`).
- `TokenIsPinned`: a token is asked for memory that is registered for at least
  the bytes of the transfer, but for an entry of another length that a different
  call left at the same address.
- `AckedIsReceived`, `ReceivedWasOpened`, `CompleteIsReceived`: the bytes of an
  acknowledged put were pulled in the session of the attempt that was
  acknowledged, whatever became of earlier attempts, doubled requests and the
  report; bytes are pulled only in sessions the proxy opened, although the
  backend does not ask; `CompleteUpload` answers with the etag of bytes that were
  received in that session, unless the entry was written while it was read.
  That the session of an acknowledged put is completed is not claimed: a lost
  report, a second `OpenSession` and a restart of the proxy each leave it
  pending or unknown.

An exemption is a history variable that is set exactly where the code opens the
window it stands for, and each is named with the hazard it belongs to.

**Bounds.** Two request threads and the sweeper give every pair and triple of a
completion, an abort, a part and a sweep on one upload, which is where the
shared state is; a second upload only matters for the sweeper's list, and is in
`multipart_live`. Two parts make a listed part go missing and make part order
matter. Capacity 2 with lengths 1 and offsets 0 and 1 makes
every write fit in some states and be refused in others. With
one length no part is shorter than `MinPart`, so the runs kept here never refuse
a completion for a short part. A larger instance of `multipart` does (lengths 1
and 2, offset 0, `MinPart` 2, about 1,680,000 states) and passes as well; it
takes more than five minutes and is not among the runs. Its capacity of 2
cannot hold a long part and another one, so an object of two full parts is what
`multipart` shows.
Threads are symmetric; the liveness run uses no symmetry.

Two calls at a time and four in all let two opens of one key meet, a retry come
after a sweep, and a chunk or an abort come between; two ids let two requests
carry one id or different ones. In `ucx` one slot is shared by a put and a part,
so that it is handed on, reused and missing; the key makes two attempts share a
session id; one fault is any one lost, late, refused or repeated call. Two
workers and two chunks are the least in which a wake-up can go to the wrong
worker; lengths 0, 2 and 3 are refused, pooled and oversize. In `client_upload`
the lists of one part are a part number used before with another size, and a
part that is too large, so that a part is replaced and an upload fails half-way.
In
`client_get` a call of 4 bytes is split evenly, one of 5 leaves a remainder, and
a put of 1 byte registers a shorter range at the same address. In `proxied_put`
two faults are needed to lose a report and resend a request. `MaxFaults`,
`MaxCalls`, `MaxSessions` and `Tries` bound what the code repeats without end;
`Tries` is `RetryPolicy::max_attempts`. These runs say `CHECK_DEADLOCK FALSE`:
when all calls are done, and the bound on further ones is reached, nothing is
left to happen.

**Fairness.** Weak fairness of each request thread's next section, of each
abort and of the sweeper: handlers contain no wait once their bytes are there,
mutexes are released, and the sweeper wakes up every `sweep_interval_`. Nothing
makes a request arrive. A transfer may fail but does not hang.

`ucx_answered`: weak fairness of the gateway's commit and abort handlers and of
what is on the wire of an endpoint that is still in use; a write on a discarded
endpoint may be lost. `runtime`: strong fairness of each submitting thread and
each worker, since a mutex that is free again and again is eventually obtained
however often others take it, and weak fairness of the thread in `Shutdown`;
none for clients, for the write-done message, for spurious wake-ups or for the
signal that starts `Shutdown`.

## 4. Theorems

All are checked by TLAPS for every value of the constants that satisfies the
named assumptions: arbitrary finite sets of keys, uploads, parts and threads,
any capacity and any lengths for the byte store and uploads; any number of
calls, sessions, ids and keys for `Sessions`; any number of workers, chunks and
size classes for `GatewayRuntime`; any set of puts, any number of
attempts and any number of faults for `ProxiedPut`. The assumptions are
`FiniteAssumption`, `CapacityAssumption`, `KeyOfAssumption`,
`MultipartAssumption`, `BoundAssumption`, `NoneAssumption`,
`WorkerAssumption`, `ClassAssumption`, `LeaseAssumption`, `LengthAssumption`
and `ProxyAssumption`; they say that bounds and
lengths are natural numbers, that size classes are in ascending order, that there
is a worker and that each chunk has its own lease, and that `None` is no element
of the sets it is used beside.

- `AccountingIsExact`, `CapacityIsRespected` (`MemoryDataStoreProofs`). A sum is
  the number of cells of a function, so that lemmas about changing one value
  follow from cardinality theorems. The inductive invariant is type correctness,
  `ExactAccounting`, `ReservedIsStaged`, that only a call in step "taken" carries
  an entry, and `used <= Capacity`. `ReservedIsStaged` is needed because the
  charge is released by `reserved_bytes` while the bound is about the bytes.
- `GatewayAccounting` (`MultipartProofs`). The invariant
  `MInv` adds to `TypeOK` that a job carries what its section needs (an upload
  while it works on one, a key and a list while it completes). Each action is
  then a step of the byte store or leaves it alone, so what is proved of the
  store carries over.
- `CompleteIsOneShot` (`CommitProofs`), the refinement of `UploadCommit`. `CInv`
  has four parts: an upload has one holder; a held upload is `kCompleting` or
  `kAborted`, so that a second claim fails; a holder before its entry was
  written holds an uncommitted upload; a committed upload without a holder is
  not `kActive`. The last two are what makes it hold although `Rollback` can
  turn `kAborted` back into `kActive`: only an uncommitted upload is ever rolled
  back.
- `AKeyHasOneLiveSession`, `ARetryFindsItsSession`, `TheIndexesAgree`,
  `NoSessionComesBack` (`SessionsProofs`). The inductive invariant `SInv` has
  three parts. `Typed`: calls hold sessions that exist, and every index entry
  names a session with that id or key. `Indexed`: a session has one creator and
  is live until its creation ends, unless it is `torn`; what the sweep has taken
  out of `by_id` is not put back; and `IndexesAgree`. `KeysOK`: for every key
  without a race, at most one call creates for it and none while `by_idem` has an
  entry for it, a session of the key that is live or being swept is the one
  `by_idem` names or is being created, and one that was answered is no longer
  being created. `KeysOK` is why erasing a key without looking at the session it
  names does no harm outside a race: the session being swept is the one the key
  leads to.
- `WorkIsNotSleptOn`, `BuffersGoFirst` (`GatewayRuntimeProofs`), with
  `RuntimeKeepsItsTypes` and `StoppedPoolIsEmpty`. `GInv` relates the phase of
  `Initialize` or `Shutdown` to what may still be going on: a submitted task is in
  one place, nobody pushes while a worker is between its test of the queue and its
  wait, a chunk holds a lease from `Acquire` to `Release`, and outside the phases
  in which requests are served nothing is under way, so that a buffer pool that
  was drained gets no lease back.
- `AcknowledgedPutWasReceived`, `OnlyOpenedIsReceived`,
  `CompletedUploadWasReceived` (`ProxiedPutProofs`). `PInv` says that reports and
  completed sessions are of bytes that were received; that a handler past the
  pull, and a client that was answered, are too; that clients past `OpenSession`,
  their requests to the backend and the handlers of these are of sessions that
  were opened; and that a query in progress holds a completed session until the
  entry is written again.

Only model-checked: `NothingAckedIsLost`, `IndexedIsStored`,
`RemovedIsReclaimed`, and the invariants of `RdmaPut`, `ClientUpload` and
`ClientGet` (all candidates for proof); and the liveness properties, which are
beyond the prover.

## 5. Mutants

Operators commented "Faulty" stand before the definition they vary. Each is a
plausible slip (a guard dropped, a release forgotten, an early return outside
the guard, an off-by-one) and makes one property of a run fail.

## 6. Where the documents and the code differ

Shown by a run:

- `TerminalIsFinal`: `docs/architecture.md:632` says that terminal states are
  irreversible. `AbortUpload` and the sweeper set `kAborted` on an upload that is
  `kCompleting`, and the completion then sets `kActive` (it failed) or
  `kCompleted` (it succeeded).
- `NothingStaysStaged`: `gateway/src/backend/backend.h:141` says that an abort
  frees what was written, and `docs/architecture.md:606` that it keeps parts from
  occupying the backend; `client/include/us3_turbo_access/client/client.h:121` says
  of the client's `Abort` that it releases any gateway-side state. A part whose
  bytes arrive after that creates the staging entry anew, and nothing frees it.
  From the client it takes a part that timed out, and an abort while the gateway
  still pulls its bytes.
- `EveryCommitIsAnswered`: `gateway/src/data_path/ucx/ucx_executor.cpp:457` leaves
  the timeout of a parked commit to its caller, which sets none. A lost message,
  or an abort that drops the entry, leaves the commit unanswered.

Seen while modelling; the models follow the code:

- `gateway_runtime.cpp:201-202` says that stopping the UCX executor drains all
  `pending_commit` callbacks. `UcxExecutor::Stop` drops them, and `Shutdown` has
  waited for those RPCs in `Join` before.
- `docs/architecture.md:444` says that `write_done` is set when the commit
  arrives. RPC and message travel apart; the slow path that line 441 describes
  is needed.
- `docs/architecture.md:476` describes a check of the CRC by the gateway; the
  calls of `VerifyCrc32c` are commented out (`ucx_executor.cpp:419` and `443`).
- `io_worker_pool.h:37` says that `Stop` discards queued tasks;
  `io_worker_pool.cpp:54` and the code run them.
- `buffer_pool.h:73-76` says that a lease returned after `Shutdown` never enters
  the pool. `Release` tests the flag before it takes the mutex, so it can; in
  the composed gateway the order of `Shutdown` prevents it.
- `session_store.h:26` says that a sweep clears the three indexes together; the
  entries that a sweep during `Create` leaves behind stay.
- `client.h:115` calls `Complete` idempotent at the gateway; a second request
  for a completed upload is refused, so a completion that was sent twice, or
  whose answer was lost, is reported as failed. A `StartUpload` sent twice leaves
  an upload to the sweeper.
- `client.h:169` says that a client cannot be initialised again after
  `Shutdown`; `Initialize` works.
- `client_executor.h:45-47` says that tasks in flight may use a destroyed
  executor after an unclean shutdown. A synchronous parallel `GetObject` beside
  `Shutdown` may too, and so may a task in the window of `Submit`.
- `options.h:135-140` describes a client with the proxy as its control plane.
  The proxy refuses an `expected_size` of 0
  (`proxy_control_plane_service.cpp:61-63`), which is what `OpenSessionForPut`
  sends (`metadata_client.cpp:55`), on every retry.
- `backend_data_plane_service.cpp:100` and `backend_data_plane_service.h:21,90`
  call the backend's report to the proxy asynchronous, without influence on the
  answer to the client. `ReportGdsPut` is called without a closure (line 110), so
  `GdsPut` waits for the proxy, for up to `kNotifyTimeoutMs`: a proxy that hangs
  delays the answer, and a client may time out, and put again, although its bytes
  were received. What the report returns does not change the answer, as the
  comment says. None of the properties of `proxied_put` rests on the wait.
- `composite_backend.cpp:73-74` enters the announced total in the index, while
  `memory_data_store.cpp:93` lets a chunk beyond it lengthen the body, so an
  object may hold more bytes than `HeadObject` answers; `PutChunk` does not check.
- `session_manager.h:53` and `proxy/skill.md:123` speak of expiry; the proxy's
  sessions never expire. `AbortSession` is not implemented there.
- The capability probe looks for libcufile, not for the cuObject client library
  that is used; `CuObjState` keeps its first failure for the life of the process;
  unregistering a buffer leaves the registrations of pieces inside it; a failed
  parallel get returns while its other pieces still write.
- `UcxExecutor::Stop` destroys the UCX context before `UcxBufferPool::Drain`
  unmaps memory through it (`ucx_executor.cpp:230-231`). Not modelled.

## 7. Not modelled, and what could come next

Partly modelled, with the reason:

- GDS and RDMA data: contents, digests and short transfers are abstracted, so the
  order in which the MD5 of a part is accumulated and the pairing of etag and
  bytes under concurrent uploads of one part (both among the hazards) are not
  covered.
- Index and composite backend: `Head` and `Read` change nothing; the overloads
  for IOBuf and `DeleteObjectIndex` have no caller.
- UCX: rkeys, the exchange of addresses, the limit of the endpoint pool, and
  `Stop` beyond its effect on the runtime. The registry of UCX sessions has no
  sweep of its own. A `transfer_bytes` that differs between two
  `PrepareTransfer` calls of a session cannot come from the client.
- GDS sessions for a part: `GdsExecutor::OnSessionOpened` (`gds_executor.cpp:138`)
  does not look at `is_multipart_part` and would reserve the whole object with the
  size of the part; the client sends an expected size of 0 for a part, for which
  nothing is reserved.
- Runtime: both executors are enabled; with one disabled there are fewer steps.
- RPC services: conversion, validation of fields and wording of errors.

Not modelled: the gateway's, proxy's and backend's flag parsing, null backends
(no state), logging, metrics, ids, checksums, `ParseHttpRange` (no caller),
message formats, the UCX, cuObject and brpc libraries themselves, benchmarks and
examples.

Next, in order of use: proofs of `AnsweredAtMostOnce` and
`PendingAwaitsTheWrite`, and of `RemovedIsReclaimed`; a model
of part contents for the two hazards above; a kept run in which `CompleteUpload`
refuses a short part and accepts a long one followed by a short one.
