---------------------------- MODULE UcxExecutor ----------------------------
(***************************************************************************)
(* The gateway's side of an RDMA write: the session registry, the buffer   *)
(* pool and the executor of gateway/src/data_path/ucx, entered through the *)
(* handlers of RdmaDataPlaneService.                                       *)
(*                                                                         *)
(* A put p of the client makes up to Tries[p] attempts.  Attempt           *)
(* <<p, n>> opens a session, whose registration creates the UcxSessionEntry*)
(* of that name; Sid(a) is the session id the attempt works under.  With   *)
(* an idempotency key every attempt of a put is given the session of the   *)
(* first, so the entries of its attempts replace one another in the        *)
(* registry.  A request is named <<p, n, k>>: k = 2 is the same request    *)
(* sent again by the RPC layer.                                            *)
(*                                                                         *)
(* A step is one critical section, or one access to the fields of an entry *)
(* that no lock protects: entry->slot is read and written by every handler *)
(* without one.  A freed slot's number is given to the next slot allocated.*)
(***************************************************************************)
EXTENDS Naturals, Sequences, FiniteSets, SequencesExt

CONSTANTS
    Puts,          \* the client's PutObject and PutObjectPart calls
    Keyed,         \* the puts that carry an idempotency key
    PartPuts,      \* the puts that are parts of an upload
    Tries,         \* bound on the attempts of every put (RetryPolicy)
    MaxFaults,     \* bound on failed, late and repeated calls
    Bytes,         \* the length of every put's body
    MaxMsgBytes,   \* UcxExecutorOptions::max_msg_bytes
    PageSize,      \* kPageSize
    MaxSlots,      \* bound on the registered buffers the gateway can allocate
    MaxIdle,       \* UcxBufferPool: idle slots kept
    None

ASSUME PutAssumption == Keyed \subseteq Puts /\ PartPuts \subseteq Puts
ASSUME AttemptAssumption == Tries \in [Puts -> Nat \ {0}] /\ MaxFaults \in Nat
ASSUME SizeAssumption == /\ Bytes \in [Puts -> Nat]
                         /\ MaxMsgBytes \in Nat
                         /\ PageSize \in Nat \ {0}
ASSUME SlotAssumption == MaxSlots \in Nat /\ MaxIdle \in Nat
ASSUME NoneAssumption == None \notin Puts /\ None \notin Nat

VARIABLES
    registry,   \* UcxSessionRegistry: session id -> entry
    entry,      \* the entries: slot, write_done, pending_commit
    mem,        \* the bytes in every slot: the put they came from
    capacity,   \* the size of every slot; 0 when it is not allocated
    pool,       \* UcxBufferPool: the idle slots
    prepare,    \* the PrepareTransfer handlers
    commit,     \* the CommitObject and CommitPart handlers
    abort,      \* the AbortSession handlers
    wire,       \* every attempt's RMA write and the AM behind it
    progress,   \* the AM or the commit the progress thread is busy with
    faults,     \* failed, late and repeated calls so far
    crashed,    \* a handler read through the null pointer of a released slot
    stored,     \* history: what every commit wrote to the backend
    early,      \* history: entries notified by another attempt's AM
    stray,      \* history: entries whose slot another attempt wrote
    raced       \* history: entries two handlers worked on at once

data    == <<registry, entry, mem, capacity, pool>>
history == <<stored, early, stray, raced>>
gateway == <<data, prepare, commit, abort, wire, progress, faults, crashed, history>>

Slots    == 1..MaxSlots
Attempts == UNION {{p} \X (1..Tries[p]) : p \in Puts}
Requests == {<<a[1], a[2], k>> : a \in Attempts, k \in {1, 2}}

AttemptOf(r) == <<r[1], r[2]>>

\* The session id the attempt is given by OpenSession.
Sid(a) == IF a[1] \in Keyed THEN <<a[1], 1>> ELSE a

\* UcxSessionEntry
Entry == [slot : Slots \cup {None}, write_done : BOOLEAN,
          pending : Requests \cup {None}]

PrepareCall == [pos : {"idle", "sent", "assign", "done"},
                entry : Attempts \cup {None}, slot : Slots \cup {None}]

CommitCall == [pos : {"idle", "sent", "park", "waiting", "store", "return",
                      "clear", "done"},
               entry : Attempts \cup {None}, ok : BOOLEAN, answers : 0..2]

AbortCall == [pos : {"idle", "sent", "clear", "done"},
              entry : Attempts \cup {None}]

Wire == [pos : {"none", "write", "notify", "found", "gone"},
         slot : Slots \cup {None}, entry : Attempts \cup {None}]

NoPrepare == [pos |-> "idle", entry |-> None, slot |-> None]
NoCommit  == [pos |-> "idle", entry |-> None, ok |-> FALSE, answers |-> 0]
NoAbort   == [pos |-> "idle", entry |-> None]
NoWire    == [pos |-> "none", slot |-> None, entry |-> None]
NewEntry  == [slot |-> None, write_done |-> FALSE, pending |-> None]

GatewayInit ==
    /\ registry = [s \in Attempts |-> None]
    /\ entry = [e \in Attempts |-> NewEntry]
    /\ mem = [s \in Slots |-> None]
    /\ capacity = [s \in Slots |-> 0]
    /\ pool = <<>>
    /\ prepare = [r \in Requests |-> NoPrepare]
    /\ commit = [r \in Requests |-> NoCommit]
    /\ abort = [a \in Attempts |-> NoAbort]
    /\ wire = [a \in Attempts |-> NoWire]
    /\ progress = None
    /\ faults = 0
    /\ crashed = FALSE
    /\ stored = {} /\ early = {} /\ stray = {} /\ raced = {}

-----------------------------------------------------------------------------
(* Who is at work on an entry.                                             *)

Working(e) ==
    {<<"prepare", r>> : r \in {q \in Requests :
        prepare[q].entry = e /\ prepare[q].pos = "assign"}}
    \cup {<<"commit", r>> : r \in {q \in Requests :
        /\ commit[q].entry = e
        /\ commit[q].pos \in {"park", "store", "return", "clear"}}}
    \cup {<<"abort", a>> : a \in {b \in Attempts :
        abort[b].entry = e /\ abort[b].pos = "clear"}}
    \cup {<<"notify", a>> : a \in {b \in Attempts :
        wire[b].entry = e /\ wire[b].pos = "found"}}

\* A handler starts on e while another is still at work on it.
Race(e) == raced' = IF Working(e) = {} THEN raced ELSE raced \cup {e}

Fault == faults < MaxFaults /\ faults' = faults + 1

-----------------------------------------------------------------------------
(* The session registry and the buffer pool.                               *)

\* OnSessionOpened: UcxSessionRegistry::Create overwrites the entry that is
\* registered under the same session id.
OnSessionOpened(a) == registry' = [registry EXCEPT ![Sid(a)] = a]

\* RoundUpPage, and the size PrepareTransfer asks for.
RoundUpPage(n) == ((n + PageSize - 1) \div PageSize) * PageSize

Alloc(p) == RoundUpPage(IF Bytes[p] < PageSize THEN PageSize ELSE Bytes[p])

\* Faulty: the size of an idle slot is not looked at.
FitsAny(need) == 1..Len(pool)

\* The positions of the idle slots that are large enough.
Fits(need) == {i \in 1..Len(pool) : capacity[pool[i]] >= need}

\* UcxBufferPool::Acquire takes the first slot that fits; PrepareTransfer
\* allocates one when there is none.
AcquirePooled(s, need) ==
    \E i \in Fits(need) :
        /\ \A j \in Fits(need) : i <= j
        /\ s = pool[i]
        /\ pool' = RemoveAt(pool, i)
        /\ UNCHANGED capacity

AllocateNew(s, need) ==
    /\ Fits(need) = {}
    /\ capacity[s] = 0
    /\ \A t \in 1..(s - 1) : capacity[t] # 0
    /\ capacity' = [capacity EXCEPT ![s] = need]
    /\ UNCHANGED pool

\* Faulty: one slot too many is kept.
ReturnOneMore(s) ==
    IF Len(pool) <= MaxIdle
      THEN pool' = Append(pool, s) /\ UNCHANGED capacity
      ELSE capacity' = [capacity EXCEPT ![s] = 0] /\ UNCHANGED pool

\* UcxBufferPool::Return: keep the slot, or unmap and free it.
Return(s) ==
    IF Len(pool) < MaxIdle
      THEN pool' = Append(pool, s) /\ UNCHANGED capacity
      ELSE capacity' = [capacity EXCEPT ![s] = 0] /\ UNCHANGED pool

-----------------------------------------------------------------------------
(* DiscoverRdmaEndpoint: PrepareTransfer.                                  *)

PrepareDone(r, s) ==
    prepare' = [prepare EXCEPT ![r] = [pos |-> "done", entry |-> None, slot |-> s]]

\* The entry the handler's Find returns.
Found(r) == registry[Sid(AttemptOf(r))]

\* The session is unknown, the size is out of range, or no buffer can be
\* allocated, locked and mapped.
Refused(r) ==
    IF Found(r) = None \/ Bytes[r[1]] \notin 1..MaxMsgBytes
      THEN TRUE
      ELSE /\ entry[Found(r)].slot = None
           /\ Fits(Alloc(r[1])) = {}
           /\ \A s \in Slots : capacity[s] # 0

PrepareFails(r) ==
    /\ prepare[r].pos = "sent"
    /\ Refused(r)
    /\ PrepareDone(r, None)
    /\ UNCHANGED <<data, commit, abort, wire, progress, faults, crashed, history>>

\* A second call with the same size is given the slot of the first.
PrepareAgain(r) ==
    /\ prepare[r].pos = "sent"
    /\ ~Refused(r)
    /\ entry[Found(r)].slot # None
    /\ PrepareDone(r, entry[Found(r)].slot)
    /\ UNCHANGED <<data, commit, abort, wire, progress, faults, crashed, history>>

\* The entry has no slot: take one.
PrepareAcquire(r, s) ==
    /\ prepare[r].pos = "sent"
    /\ ~Refused(r)
    /\ entry[Found(r)].slot = None
    /\ AcquirePooled(s, Alloc(r[1])) \/ AllocateNew(s, Alloc(r[1]))
    /\ prepare' = [prepare EXCEPT ![r] =
                      [pos |-> "assign", entry |-> Found(r), slot |-> s]]
    /\ Race(Found(r))
    /\ UNCHANGED <<registry, entry, mem, commit, abort, wire, progress, faults, crashed,
                   stored, early, stray>>

\* entry->slot = slot: whatever was there, nobody looks again.
PrepareAssign(r) ==
    /\ prepare[r].pos = "assign"
    /\ entry' = [entry EXCEPT ![prepare[r].entry].slot = prepare[r].slot]
    /\ PrepareDone(r, prepare[r].slot)
    /\ UNCHANGED <<registry, mem, capacity, pool, commit, abort, wire, progress,
                   faults, crashed, history>>

-----------------------------------------------------------------------------
(* The RMA write lands in the slot without the gateway taking part; the AM *)
(* behind it, on the same endpoint, is handled by the progress thread.     *)

\* The entries other than a that hold the slot.
Holders(s, a) == {e \in Attempts : e # a /\ entry[e].slot = s}

WriteLands(a) ==
    LET s == wire[a].slot
    IN  /\ wire[a].pos = "write"
        /\ wire' = [wire EXCEPT ![a].pos = "notify", ![a].slot = None]
        /\ IF capacity[s] > 0
             THEN mem' = [mem EXCEPT ![s] = a[1]] /\ stray' = stray \cup Holders(s, a)
             ELSE UNCHANGED <<mem, stray>>
        /\ UNCHANGED <<registry, entry, capacity, pool, prepare, commit, abort,
                       progress, faults, crashed, stored, early, raced>>

\* OnAmWriteDone looks the session up; an AM of an unknown session is dropped.
AmFind(a) ==
    LET e == registry[Sid(a)]
    IN  /\ wire[a].pos = "notify"
        /\ progress = None
        /\ wire' = [wire EXCEPT ![a].pos = IF e = None THEN "gone" ELSE "found",
                                ![a].entry = e]
        /\ progress' = IF e = None THEN None ELSE a
        /\ UNCHANGED <<data, prepare, commit, abort, faults, crashed, history>>

\* Under commit_mu: note that the bytes are there, and take the commit that is
\* waiting for them; it is then run by this thread.
AmNotify(a) ==
    LET e == wire[a].entry
        c == entry[e].pending
    IN  /\ wire[a].pos = "found"
        /\ entry' = [entry EXCEPT ![e].write_done = TRUE, ![e].pending = None]
        /\ wire' = [wire EXCEPT ![a].pos = "gone", ![a].entry = None]
        /\ early' = IF e = a THEN early ELSE early \cup {e}
        /\ IF c = None
             THEN progress' = None /\ UNCHANGED <<commit, raced>>
             ELSE /\ progress' = c
                  /\ commit' = [commit EXCEPT ![c].pos = "store"]
                  /\ raced' = IF Working(e) = {<<"notify", a>>} THEN raced
                                                                ELSE raced \cup {e}
        /\ UNCHANGED <<registry, mem, capacity, pool, prepare, abort, faults, crashed,
                       stored, stray>>

-----------------------------------------------------------------------------
(* CommitObject and CommitPart.  on_done answers the RPC.                  *)

Answer(c, ok) ==
    commit' = [commit EXCEPT ![c] = [pos |-> "done", entry |-> None, ok |-> ok,
                                     answers |-> @.answers + 1]]

\* CommitPartAsync looks the upload up first: an upload that is unknown or over
\* is answered at once, and the session is left as it is.
LookupFails(c) ==
    /\ commit[c].pos = "sent"
    /\ c[1] \in PartPuts
    /\ Fault
    /\ Answer(c, FALSE)
    /\ UNCHANGED <<data, prepare, abort, wire, progress, crashed, history>>

\* The session is not registered, or nothing was prepared for it.
CommitFails(c) ==
    /\ commit[c].pos = "sent"
    /\ IF Found(c) = None THEN TRUE ELSE entry[Found(c)].slot = None
    /\ Answer(c, FALSE)
    /\ UNCHANGED <<data, prepare, abort, wire, progress, faults, crashed, history>>

\* Faulty: the commit does not wait for the notification.
CommitCheckNoWait(c) ==
    LET e == Found(c)
    IN  /\ commit[c].pos = "sent"
        /\ e # None
        /\ entry[e].slot # None
        /\ commit' = [commit EXCEPT ![c].entry = e, ![c].pos = "store"]
        /\ Race(e)
        /\ UNCHANGED <<data, prepare, abort, wire, progress, faults, crashed,
                       stored, early, stray>>

\* The check of write_done outside the lock: store at once, or go and park.
CommitCheck(c) ==
    LET e == Found(c)
    IN  /\ commit[c].pos = "sent"
        /\ e # None
        /\ entry[e].slot # None
        /\ commit' = [commit EXCEPT ![c].entry = e,
                        ![c].pos = IF entry[e].write_done THEN "store" ELSE "park"]
        /\ Race(e)
        /\ UNCHANGED <<data, prepare, abort, wire, progress, faults, crashed,
                       stored, early, stray>>

\* Faulty: the flag is not read again under the lock.
CommitParkBlindly(c) ==
    LET e == commit[c].entry
    IN  /\ commit[c].pos = "park"
        /\ commit' = [commit EXCEPT ![c].pos = "waiting"]
        /\ entry' = [entry EXCEPT ![e].pending = c]
        /\ UNCHANGED <<registry, mem, capacity, pool, prepare, abort, wire, progress,
                       faults, crashed, history>>

\* Under commit_mu the flag is read again; only then is the callback left for
\* OnAmWriteDone, in the place of the one that may be there.
CommitPark(c) ==
    LET e == commit[c].entry
    IN  /\ commit[c].pos = "park"
        /\ IF entry[e].write_done
             THEN commit' = [commit EXCEPT ![c].pos = "store"] /\ UNCHANGED entry
             ELSE /\ commit' = [commit EXCEPT ![c].pos = "waiting"]
                  /\ entry' = [entry EXCEPT ![e].pending = c]
        /\ UNCHANGED <<registry, mem, capacity, pool, prepare, abort, wire, progress,
                       faults, crashed, history>>

\* DoCommitObject and DoWritePartData hand the bytes of entry->slot to the
\* backend.
DoCommit(c) ==
    LET s == entry[commit[c].entry].slot
    IN  /\ commit[c].pos = "store"
        /\ s # None
        /\ commit' = [commit EXCEPT ![c].pos = "return", ![c].ok = TRUE]
        /\ stored' = stored \cup {[by |-> commit[c].entry, put |-> c[1], body |-> mem[s]]}
        /\ UNCHANGED <<data, prepare, abort, wire, progress, faults, crashed,
                       early, stray, raced>>

\* The backend refuses them: PutObject, or UploadPart in DoWritePartData.
StoreFails(c) ==
    /\ commit[c].pos = "store"
    /\ entry[commit[c].entry].slot # None
    /\ Fault
    /\ commit' = [commit EXCEPT ![c].pos = "return"]
    /\ UNCHANGED <<data, prepare, abort, wire, progress, crashed, history>>

\* entry->slot->buf after another handler has released the slot.
CommitCrashes(c) ==
    /\ commit[c].pos = "store"
    /\ entry[commit[c].entry].slot = None
    /\ crashed' = TRUE
    /\ UNCHANGED <<data, prepare, commit, abort, wire, progress, faults, history>>

\* ReleaseEntry: return the slot if there is one; it is forgotten in a step of
\* its own.
ReleaseSlot(e) ==
    IF entry[e].slot = None THEN UNCHANGED <<pool, capacity>> ELSE Return(entry[e].slot)

\* release_and_erase: UcxSessionRegistry::Erase drops whatever is registered
\* under the session id.
CommitReturn(c) ==
    /\ commit[c].pos = "return"
    /\ registry' = [registry EXCEPT ![Sid(AttemptOf(c))] = None]
    /\ ReleaseSlot(commit[c].entry)
    /\ commit' = [commit EXCEPT ![c].pos = "clear"]
    /\ UNCHANGED <<entry, mem, prepare, abort, wire, progress, faults, crashed,
                   history>>

\* The slot is forgotten and the callback answers; CommitPartAsync records the
\* part in its own.
CommitFinish(c) ==
    /\ commit[c].pos = "clear"
    /\ entry' = [entry EXCEPT ![commit[c].entry].slot = None]
    /\ Answer(c, commit[c].ok)
    /\ progress' = IF progress = c THEN None ELSE progress
    /\ UNCHANGED <<registry, mem, capacity, pool, prepare, abort, wire, faults, crashed,
                   history>>

-----------------------------------------------------------------------------
(* AbortSession: erase the entry and release its slot.  A commit that waits*)
(* in the entry is not answered.                                           *)

AbortMissing(a) ==
    /\ abort[a].pos = "sent"
    /\ registry[Sid(a)] = None
    /\ abort' = [abort EXCEPT ![a].pos = "done"]
    /\ UNCHANGED <<data, prepare, commit, wire, progress, faults, crashed, history>>

\* Faulty: the waiting commit is answered, and left in the entry.
AbortEraseAnswers(a) ==
    LET e == registry[Sid(a)]
    IN  /\ abort[a].pos = "sent"
        /\ e # None
        /\ registry' = [registry EXCEPT ![Sid(a)] = None]
        /\ ReleaseSlot(e)
        /\ abort' = [abort EXCEPT ![a] = [pos |-> "clear", entry |-> e]]
        /\ IF entry[e].pending = None
             THEN UNCHANGED commit
             ELSE commit' = [commit EXCEPT ![entry[e].pending].pos = "done",
                                           ![entry[e].pending].answers = 1]
        /\ Race(e)
        /\ UNCHANGED <<entry, mem, prepare, wire, progress, faults, crashed,
                       stored, early, stray>>

AbortErase(a) ==
    LET e == registry[Sid(a)]
    IN  /\ abort[a].pos = "sent"
        /\ e # None
        /\ registry' = [registry EXCEPT ![Sid(a)] = None]
        /\ ReleaseSlot(e)
        /\ abort' = [abort EXCEPT ![a] = [pos |-> "clear", entry |-> e]]
        /\ Race(e)
        /\ UNCHANGED <<entry, mem, prepare, commit, wire, progress, faults, crashed,
                       stored, early, stray>>

\* Faulty: the slot is returned and not forgotten.
AbortFinishKeeps(a) ==
    /\ abort[a].pos = "clear"
    /\ abort' = [abort EXCEPT ![a] = [pos |-> "done", entry |-> None]]
    /\ UNCHANGED <<data, prepare, commit, wire, progress, faults, crashed, history>>

AbortFinish(a) ==
    /\ abort[a].pos = "clear"
    /\ entry' = [entry EXCEPT ![abort[a].entry].slot = None]
    /\ abort' = [abort EXCEPT ![a] = [pos |-> "done", entry |-> None]]
    /\ UNCHANGED <<registry, mem, capacity, pool, prepare, commit, wire, progress,
                   faults, crashed, history>>

-----------------------------------------------------------------------------
PrepareStep(r) ==
    \/ PrepareFails(r)
    \/ PrepareAgain(r)
    \/ \E s \in Slots : PrepareAcquire(r, s)
    \/ PrepareAssign(r)

\* The steps of a CommitObject or a CommitPart that has reached the gateway.
CommitStep(c) ==
    \/ CommitPark(c)
    \/ DoCommit(c)
    \/ StoreFails(c)
    \/ CommitCrashes(c)
    \/ CommitReturn(c)
    \/ CommitFinish(c)

\* CommitObjectAsync, and CommitPartDataAsync, which makes the same checks.
CommitArrives(c) == LookupFails(c) \/ CommitFails(c) \/ CommitCheck(c)

AbortStep(a) == AbortMissing(a) \/ AbortErase(a) \/ AbortFinish(a)

\* What a write brings about; ProgressLoop runs OnAmWriteDone.
WireStep(a) == WriteLands(a) \/ AmFind(a) \/ AmNotify(a)

GatewayNext ==
    \/ \E r \in Requests : PrepareStep(r) \/ CommitArrives(r) \/ CommitStep(r)
    \/ \E a \in Attempts : AbortStep(a) \/ WireStep(a)
=============================================================================
