------------------------------- MODULE Multipart -------------------------------
(***************************************************************************)
(* The gateway's multipart uploads: MultipartCoordinator over              *)
(* MultipartStore and the backend, called by RPC threads that upload       *)
(* parts, complete and abort, beside threads that write whole objects and  *)
(* the SessionSweeper thread that expires idle uploads.                    *)
(*                                                                         *)
(* A request runs as a sequence of critical sections (a shard of the       *)
(* store, the mutex of an upload, a section of the backend); jobs[a].at    *)
(* names the section that actor a enters next.  Requests refused before    *)
(* they change anything (an empty part list, an unknown upload, another    *)
(* data_flow) are left out.  The etags of a CompleteUpload are reduced to  *)
(* one input, whether they match the recorded ones.                        *)
(***************************************************************************)
EXTENDS CompositeBackend

CONSTANTS
    Sweeper,    \* the SessionSweeper thread
    Offsets,    \* offsets at which callers write
    Lengths,    \* lengths and total sizes that callers give
    MinPart,    \* min_part_size_
    None

ASSUME MultipartAssumption ==
    /\ Parts \subseteq Nat \ {0}
    /\ Sweeper \notin Threads
    /\ Offsets \cup Lengths \subseteq Nat
    /\ MinPart \in Nat
    /\ None \notin Uploads \cup Keys \cup Threads

VARIABLES
    store,      \* uploads in the table of MultipartStore
    state,      \* state[u]: upload->state, "kNew" before CreateUpload
    recorded,   \* recorded[u][p]: upload->parts[p].size, or NoPart
    idle,       \* uploads whose last_activity_at is older than the TTL
    expired,    \* uploads the sweeper has removed and not yet aborted
    jobs        \* jobs[a]: the request actor a is serving

(***************************************************************************)
(* History of what happened, read by no action: how often an upload was    *)
(* committed, whose staged bytes were removed, who had bytes staged after  *)
(* that, and which objects had two publications overlap or one fail        *)
(* between its body and its index entry.                                   *)
(***************************************************************************)
VARIABLES commits, removed, late, torn

coordVars == <<store, state, recorded, idle, expired>>
history == <<commits, removed, late, torn>>
vars == <<backendVars, coordVars, jobs, history>>

Actors == Threads \cup {Sweeper}

NoPart == -1

State == {"kNew", "kActive", "kCompleting", "kCompleted", "kAborted"}

\* Between the claim of kCompleting and the end of CompleteUpload's guard.
Claimed == {"lookup", "assemble", "unrecord", "entry", "untarget", "finish", "rollback"}

\* The body of an object is written, its index entry is not.
Publishing == {"unrecord", "entry", "index"}

Aborting == {"abortData", "abortRecord", "abortTarget", "abortErase"}

Labels == Claimed \cup Publishing \cup Aborting
          \cup {"idle", "claim", "erase", "write", "register", "mark", "sweep"}

Job == [at : Labels,
        u : Uploads \cup {None}, k : Keys \cup {None},
        p : Parts \cup {0}, len : Nat,
        listed : SUBSET Parts, need : Nat]

NoJob == [at |-> "idle", u |-> None, k |-> None, p |-> 0, len |-> 0,
          listed |-> {}, need |-> 0]

TypeOK ==
    /\ BackendTypeOK
    /\ store \subseteq Uploads
    /\ state \in [Uploads -> State]
    /\ recorded \in [Uploads -> [Parts -> Nat \cup {NoPart}]]
    /\ idle \subseteq Uploads
    /\ expired \subseteq Uploads
    /\ jobs \in [Actors -> Job]
    /\ commits \in [Uploads -> Nat]
    /\ removed \subseteq Uploads
    /\ late \subseteq Uploads
    /\ torn \subseteq Keys

Init ==
    /\ BackendInit
    /\ store = {}
    /\ state = [u \in Uploads |-> "kNew"]
    /\ recorded = [u \in Uploads |-> [p \in Parts |-> NoPart]]
    /\ idle = {}
    /\ expired = {}
    /\ jobs = [a \in Actors |-> NoJob]
    /\ commits = [u \in Uploads |-> 0]
    /\ removed = {}
    /\ late = {}
    /\ torn = {}

-----------------------------------------------------------------------------
At(a, label) == jobs[a].at = label

Goto(a, label) == jobs' = [jobs EXCEPT ![a].at = label]

Return(a) == jobs' = [jobs EXCEPT ![a] = NoJob]

Begin(t, job) == At(t, "idle") /\ jobs' = [jobs EXCEPT ![t] = job]

\* MultipartStore::Find, the first section of every request on an upload.
Find(t, u, job) ==
    /\ u \in store
    /\ Begin(t, job)
    /\ UNCHANGED <<backendVars, coordVars, history>>

Create(u) ==
    /\ store' = store \cup {u}
    /\ state' = [state EXCEPT ![u] = "kActive"]

CreateUpload(u) ==
    /\ state[u] = "kNew"
    /\ StartMultipart(u)
    /\ Create(u)
    /\ UNCHANGED <<recorded, idle, expired, jobs, history>>

\* More than ttl_ has passed since the last activity of u.
TtlElapses(u) ==
    /\ u \in store \ idle
    /\ idle' = idle \cup {u}
    /\ UNCHANGED <<backendVars, store, state, recorded, expired, jobs, history>>

-----------------------------------------------------------------------------
(***************************************************************************)
(* A part, over UCX (CommitPartAsync, FinishCommitPart) or GDS             *)
(* (UploadPart): the upload is looked up, the bytes are staged, the part   *)
(* is recorded.  Neither of the last two looks at the upload's state.  A   *)
(* transfer moves all of its bytes or fails.                               *)
(***************************************************************************)
UploadPart(t, u, p, len) ==
    Find(t, u, [NoJob EXCEPT !.at = "write", !.u = u, !.p = p, !.len = len])

\* Faulty: the part is recorded although its write was refused.
StagePartUnchecked(t, offset) ==
    LET u == jobs[t].u
    IN  /\ At(t, "write")
        /\ \/ WritePart(u, jobs[t].p, offset, jobs[t].len)
           \/ WritePartRefused(u, jobs[t].p, offset, jobs[t].len)
        /\ Goto(t, "register")
        /\ late' = IF u \in removed THEN late \cup {u} ELSE late
        /\ DataOnly
        /\ UNCHANGED <<coordVars, commits, removed, torn>>

\* The bytes arrive; offset is 0 over UCX, the chunk's offset over GDS.
StagePart(t, offset) ==
    LET u == jobs[t].u
    IN  /\ At(t, "write")
        /\ \/ WritePart(u, jobs[t].p, offset, jobs[t].len) /\ Goto(t, "register")
           \/ WritePartRefused(u, jobs[t].p, offset, jobs[t].len) /\ Return(t)
        /\ late' = IF u \in removed THEN late \cup {u} ELSE late
        /\ DataOnly
        /\ UNCHANGED <<coordVars, commits, removed, torn>>

\* ... or do not: no UCX buffer, no cuObjServer, no channel, a failed transfer.
TransferFails(t) ==
    /\ At(t, "write")
    /\ Return(t)
    /\ UNCHANGED <<backendVars, coordVars, history>>

RegisterPart(t) ==
    LET u == jobs[t].u
    IN  /\ At(t, "register")
        /\ recorded' = [recorded EXCEPT ![u][jobs[t].p] = jobs[t].len]
        /\ idle' = idle \ {u}
        /\ Return(t)
        /\ UNCHANGED <<backendVars, store, state, expired, history>>

-----------------------------------------------------------------------------
(***************************************************************************)
(* CompleteUpload: claim the upload, validate the list, run the backend's  *)
(* CompleteMultipart section by section, then mark and erase the upload.   *)
(* Every failure after the claim runs the rollback guard.                  *)
(***************************************************************************)
CompleteUpload(t, u) ==
    Find(t, u, [NoJob EXCEPT !.at = "claim", !.u = u])

\* Part numbers 1..N, recorded, with matching etags, none but the last short.
Valid(u, listed, match) ==
    /\ match
    /\ listed = 1 .. Cardinality(listed)
    /\ \A p \in listed :
          /\ recorded[u][p] # NoPart
          /\ p # Cardinality(listed) => recorded[u][p] >= MinPart

\* Faulty: kCompleting does not keep a second caller out.
ClaimShared(t, listed, match) ==
    LET u == jobs[t].u
    IN  /\ At(t, "claim")
        /\ state[u] \in {"kActive", "kCompleting"}
        /\ state' = [state EXCEPT ![u] = "kCompleting"]
        /\ jobs' = [jobs EXCEPT ![t] =
              IF Valid(u, listed, match)
                THEN [jobs[t] EXCEPT !.at = "lookup", !.k = KeyOf[u], !.listed = listed,
                       !.need = Total([p \in listed |-> recorded[u][p]])]
                ELSE [jobs[t] EXCEPT !.at = "rollback"]]
        /\ UNCHANGED <<backendVars, store, recorded, idle, expired, history>>

\* Faulty: the early returns of the validation come before the guard.
ClaimUnguarded(t, listed, match) ==
    LET u == jobs[t].u
    IN  /\ At(t, "claim")
        /\ state[u] = "kActive"
        /\ state' = [state EXCEPT ![u] = "kCompleting"]
        /\ jobs' = [jobs EXCEPT ![t] =
              IF Valid(u, listed, match)
                THEN [jobs[t] EXCEPT !.at = "lookup", !.k = KeyOf[u], !.listed = listed,
                       !.need = Total([p \in listed |-> recorded[u][p]])]
                ELSE NoJob]
        /\ UNCHANGED <<backendVars, store, recorded, idle, expired, history>>

\* The snapshot of upload->parts is private: it is validated on the spot.
Claim(t, listed, match) ==
    LET u == jobs[t].u
    IN  /\ At(t, "claim")
        /\ state[u] = "kActive"
        /\ state' = [state EXCEPT ![u] = "kCompleting"]
        /\ jobs' = [jobs EXCEPT ![t] =
              IF Valid(u, listed, match)
                THEN [jobs[t] EXCEPT !.at = "lookup", !.k = KeyOf[u], !.listed = listed,
                       !.need = Total([p \in listed |-> recorded[u][p]])]
                ELSE [jobs[t] EXCEPT !.at = "rollback"]]
        /\ UNCHANGED <<backendVars, store, recorded, idle, expired, history>>

ClaimRefused(t) ==
    /\ At(t, "claim")
    /\ state[jobs[t].u] # "kActive"
    /\ Return(t)
    /\ UNCHANGED <<backendVars, coordVars, history>>

\* The rollback guard's destructor.
Rollback(t) ==
    /\ At(t, "rollback")
    /\ state' = [state EXCEPT ![jobs[t].u] = "kActive"]
    /\ Return(t)
    /\ UNCHANGED <<backendVars, store, recorded, idle, expired, history>>

\* CompositeBackend::CompleteMultipart resolves the target ...
LookupTarget(t) ==
    /\ At(t, "lookup")
    /\ Goto(t, IF jobs[t].u \in targets THEN "assemble" ELSE "rollback")
    /\ UNCHANGED <<backendVars, coordVars, history>>

\* ... and calls AssembleObject, whose sections are those of the byte store.
Take(t) ==
    LET u == jobs[t].u
    IN  /\ At(t, "assemble")
        /\ AssembleTake(t, u)
        /\ removed' = removed \cup {u}
        /\ DataOnly
        /\ UNCHANGED <<coordVars, jobs, commits, late, torn>>

\* No staging entry: kNotFound.
TakeNothing(t) ==
    /\ At(t, "assemble")
    /\ asm[t].step = "idle"
    /\ ~mpu[jobs[t].u].live
    /\ Goto(t, "rollback")
    /\ UNCHANGED <<backendVars, coordVars, history>>

Join(t) ==
    /\ At(t, "assemble")
    /\ \/ AssembleJoin(t, jobs[t].listed) /\ UNCHANGED jobs
       \/ AssembleMissing(t, jobs[t].listed) /\ Goto(t, "rollback")
    /\ DataOnly
    /\ UNCHANGED <<coordVars, history>>

\* Object k, whose body a writes now, has a publication of another under way.
Overlap(a, k) == \E b \in Actors \ {a} : jobs[b].k = k /\ jobs[b].at \in Publishing

Tear(a, k) == torn' = IF Overlap(a, k) THEN torn \cup {k} ELSE torn

Store(t) ==
    LET k == jobs[t].k
    IN  /\ At(t, "assemble")
        /\ \/ /\ AssembleStore(t, k)
              /\ jobs' = [jobs EXCEPT ![t].at = "unrecord", ![t].len = asm[t].total]
              /\ Tear(t, k)
           \/ /\ AssembleRefused(t, k)
              /\ Goto(t, "rollback")
              /\ UNCHANGED torn
        /\ DataOnly
        /\ UNCHANGED <<coordVars, commits, removed, late>>

\* IndexStore::CommitMultipart: no record means that an abort came first.
Unrecord(t) ==
    /\ At(t, "unrecord")
    /\ \/ EraseRecord(jobs[t].u) /\ Goto(t, "entry") /\ UNCHANGED torn
       \/ /\ jobs[t].u \notin records
          /\ Goto(t, "rollback")
          /\ torn' = torn \cup {jobs[t].k}
          /\ UNCHANGED backendVars
    /\ UNCHANGED <<coordVars, commits, removed, late>>

Enter(t) ==
    LET u == jobs[t].u
    IN  /\ At(t, "entry")
        /\ CommitEntry(u, jobs[t].len)
        /\ commits' = [commits EXCEPT ![u] = @ + 1]
        /\ Goto(t, "untarget")
        /\ UNCHANGED <<coordVars, removed, late, torn>>

Untarget(t) ==
    /\ At(t, "untarget")
    /\ EraseTarget(jobs[t].u)
    /\ Goto(t, "finish")
    /\ UNCHANGED <<coordVars, history>>

\* The guard is disarmed and the state becomes kCompleted ...
Finish(t) ==
    /\ At(t, "finish")
    /\ state' = [state EXCEPT ![jobs[t].u] = "kCompleted"]
    /\ Goto(t, "erase")
    /\ UNCHANGED <<backendVars, store, recorded, idle, expired, history>>

\* ... MultipartStore::Erase, after a completion or an abort.
Erase(t) ==
    /\ jobs[t].at \in {"erase", "abortErase"}
    /\ store' = store \ {jobs[t].u}
    /\ Return(t)
    /\ UNCHANGED <<backendVars, state, recorded, idle, expired, history>>

-----------------------------------------------------------------------------
(***************************************************************************)
(* AbortUpload, and the sweep of idle uploads.  Both mark the upload       *)
(* whatever its state and run CompositeBackend::AbortMultipart; the        *)
(* sweeper has already taken the upload out of the store.                  *)
(***************************************************************************)
AbortUpload(t, u) ==
    Find(t, u, [NoJob EXCEPT !.at = "mark", !.u = u])

Mark(t) ==
    /\ At(t, "mark")
    /\ state' = [state EXCEPT ![jobs[t].u] = "kAborted"]
    /\ Goto(t, "abortData")
    /\ UNCHANGED <<backendVars, store, recorded, idle, expired, history>>

\* MultipartStore::SweepExpired takes an idle upload out of the store ...
SweepExpired(u) ==
    /\ At(Sweeper, "idle")
    /\ u \in store \cap idle
    /\ store' = store \ {u}
    /\ expired' = expired \cup {u}
    /\ UNCHANGED <<backendVars, state, recorded, idle, jobs, history>>

\* Faulty: an upload that is being completed is left to its completer.
SweepOneActive(u) ==
    /\ jobs[Sweeper].at \in {"idle", "sweep"}
    /\ u \in expired
    /\ expired' = expired \ {u}
    /\ IF state[u] = "kCompleting" THEN UNCHANGED <<jobs, state>>
       ELSE /\ jobs' = [jobs EXCEPT ![Sweeper] =
                          [NoJob EXCEPT !.at = "abortData", !.u = u]]
            /\ state' = [state EXCEPT ![u] = "kAborted"]
    /\ UNCHANGED <<backendVars, store, recorded, idle, history>>

\* ... and SessionSweeper::Run aborts those it took, one after the other.
SweepOne(u) ==
    /\ jobs[Sweeper].at \in {"idle", "sweep"}
    /\ u \in expired
    /\ jobs' = [jobs EXCEPT ![Sweeper] = [NoJob EXCEPT !.at = "abortData", !.u = u]]
    /\ expired' = expired \ {u}
    /\ state' = [state EXCEPT ![u] = "kAborted"]
    /\ UNCHANGED <<backendVars, store, recorded, idle, history>>

AbortData(a) ==
    /\ At(a, "abortData")
    /\ AbortMultipartData(jobs[a].u)
    /\ removed' = removed \cup {jobs[a].u}
    /\ Goto(a, "abortRecord")
    /\ DataOnly
    /\ UNCHANGED <<coordVars, commits, late, torn>>

AbortIndex(a) ==
    /\ At(a, "abortRecord")
    /\ AbortRecord(jobs[a].u)
    /\ Goto(a, "abortTarget")
    /\ UNCHANGED <<coordVars, history>>

AbortTarget(a) ==
    /\ At(a, "abortTarget")
    /\ EraseTarget(jobs[a].u)
    /\ IF a # Sweeper THEN Goto(a, "abortErase")
       ELSE IF expired = {} THEN Return(a)
       ELSE jobs' = [jobs EXCEPT ![a] = [NoJob EXCEPT !.at = "sweep"]]
    /\ UNCHANGED <<coordVars, history>>

-----------------------------------------------------------------------------
(***************************************************************************)
(* Whole objects: CompositeBackend::Reserve (GDS session open) and         *)
(* WriteRange (UCX commit, GDS chunk) write the body, then the entry.  The *)
(* total size is the session's expected_size, or none; a chunk may end     *)
(* beyond it, and then the body is longer than the entry says.             *)
(***************************************************************************)
FinalSize(end, total) == IF total = NoTotal THEN end ELSE total

\* The object's entry is written next, or the request ends with the refusal.
PutBody(t, k, len, Stored, Refused) ==
    /\ \/ /\ Stored
          /\ Begin(t, [NoJob EXCEPT !.at = "index", !.k = k, !.len = len])
          /\ Tear(t, k)
       \/ /\ Refused
          /\ At(t, "idle")
          /\ UNCHANGED <<jobs, torn>>
    /\ DataOnly
    /\ UNCHANGED <<coordVars, commits, removed, late>>

ReserveObject(t, k, total) ==
    PutBody(t, k, total, Reserve(k, total), ReserveRefused(k, total))

\* Faulty: the result of the byte store is not looked at.
WriteObjectUnchecked(t, k, offset, len, total) ==
    PutBody(t, k, FinalSize(offset + len, total),
            \/ WriteRange(k, offset, len, total)
            \/ WriteRangeRefused(k, offset, len, total),
            FALSE)

WriteObject(t, k, offset, len, total) ==
    PutBody(t, k, FinalSize(offset + len, total),
            WriteRange(k, offset, len, total),
            WriteRangeRefused(k, offset, len, total))

PutIndex(t) ==
    /\ At(t, "index")
    /\ PutObjectIndex(jobs[t].k, jobs[t].len)
    /\ Return(t)
    /\ UNCHANGED <<coordVars, history>>

-----------------------------------------------------------------------------
\* A request arrives, or time passes.
Arrive ==
    \/ \E u \in Uploads : CreateUpload(u) \/ TtlElapses(u)
    \/ \E t \in Threads, u \in Uploads :
          \/ \E p \in Parts, len \in Lengths : UploadPart(t, u, p, len)
          \/ CompleteUpload(t, u)
          \/ AbortUpload(t, u)
    \/ \E t \in Threads, k \in Keys, total \in Lengths : ReserveObject(t, k, total)
    \/ \E t \in Threads, k \in Keys, offset \in Offsets, len \in Lengths,
          total \in Lengths \cup {NoTotal} : WriteObject(t, k, offset, len, total)

\* The next section of the request that thread t is serving.
Serve(t) ==
    \/ \E offset \in Offsets : StagePart(t, offset)
    \/ TransferFails(t)
    \/ RegisterPart(t)
    \/ \E listed \in SUBSET Parts \ {{}}, match \in BOOLEAN : Claim(t, listed, match)
    \/ ClaimRefused(t)
    \/ LookupTarget(t)
    \/ Take(t) \/ TakeNothing(t) \/ Join(t) \/ Store(t)
    \/ Unrecord(t) \/ Enter(t) \/ Untarget(t)
    \/ Finish(t) \/ Rollback(t) \/ Erase(t)
    \/ Mark(t)
    \/ PutIndex(t)

Abort(a) == AbortData(a) \/ AbortIndex(a) \/ AbortTarget(a)

Sweep == \E u \in Uploads : SweepExpired(u) \/ SweepOne(u)

Next ==
    \/ Arrive
    \/ \E t \in Threads : Serve(t)
    \/ \E a \in Actors : Abort(a)
    \/ Sweep

Spec == Init /\ [][Next]_vars

(***************************************************************************)
(* RPC handlers run to their end, and so does the sweeper, which wakes up  *)
(* every sweep_interval_; nothing makes a request arrive.                  *)
(***************************************************************************)
Fairness ==
    /\ \A t \in Threads : WF_vars(Serve(t))
    /\ \A a \in Actors : WF_vars(Abort(a))
    /\ WF_vars(Sweep)

FairSpec == Spec /\ Fairness

-----------------------------------------------------------------------------
Holders(u) == {t \in Threads : jobs[t].u = u /\ jobs[t].at \in Claimed}

Owner == [u \in Uploads |->
    IF Holders(u) = {} THEN None ELSE CHOOSE t \in Threads : t \in Holders(u)]

Committed == {u \in Uploads : commits[u] > 0 /\ Holders(u) = {}}

UC == INSTANCE UploadCommit WITH Nobody <- None, owner <- Owner, committed <- Committed

(***************************************************************************)
(* CompleteUpload implements the one-shot commit, also when aborts and the *)
(* sweeper change the state of an upload that is being completed.          *)
(***************************************************************************)
CommitIsExclusive == UC!Spec

(***************************************************************************)
(* What CompleteUpload joins is at least as long as the parts it listed    *)
(* were when they were recorded, unless the upload had parts staged again  *)
(* after an abort or a failed completion removed its staged bytes.         *)
(***************************************************************************)
NothingAckedIsLost ==
    \A t \in Threads :
        asm[t].step = "joined" /\ jobs[t].u \notin late => asm[t].total >= jobs[t].need

(***************************************************************************)
(* What the index announces is there: outside a publication, the length in *)
(* the entry of an object, which HeadObject answers, is not beyond its     *)
(* body (a get of that length would come back short, and as a success),    *)
(* and no entry means no body; through refused writes, chunks past the     *)
(* announced total, writes without one that shorten the body, and failed   *)
(* completions.  Not so only when publications of the object overlapped,   *)
(* or when an abort took the record of a completion that had already       *)
(* replaced the body.                                                      *)
(***************************************************************************)
IndexedIsStored ==
    \A k \in Keys \ torn :
        (\A a \in Actors : ~(jobs[a].k = k /\ jobs[a].at \in Publishing))
        => IF index[k] = NoEntry THEN size[k] = 0 ELSE index[k] <= size[k]

(***************************************************************************)
(* An upload that left the store, and that the sweeper is not aborting,    *)
(* has no record and no target left in the backend, and no staged bytes    *)
(* but those of a part written after the others were removed.              *)
(***************************************************************************)
RemovedIsReclaimed ==
    \A u \in Uploads \ (store \cup expired) :
        state[u] # "kNew" /\ jobs[Sweeper].u # u =>
            /\ u \notin records
            /\ u \notin targets
            /\ mpu[u].live => u \in late

\* A claim ends: a completing upload is committed, given back or aborted.
CompletingEnds ==
    \A u \in Uploads : state[u] = "kCompleting" ~> state[u] # "kCompleting"

\* The sweeper gets to every upload that stays idle, and reclaims its records.
IdleIsReclaimed ==
    \A u \in Uploads :
        u \in store /\ u \in idle ~> u \notin idle \/ (u \notin records /\ u \notin targets)

-----------------------------------------------------------------------------
(***************************************************************************)
(* "Terminal states are irreversible" (docs/architecture.md:632): no step  *)
(* changes the state of a completed or an aborted upload.                  *)
(***************************************************************************)
TerminalIsFinal ==
    [][\A u \in Uploads :
          state[u] \in {"kCompleted", "kAborted"} => state'[u] = state[u]]_vars

(***************************************************************************)
(* Aborting gives the staged bytes back (gateway/src/backend/backend.h:141,*)
(* docs/architecture.md:606): an upload that is gone, and that no request  *)
(* is working on, holds no staging entry.                                  *)
(***************************************************************************)
NothingStaysStaged ==
    \A u \in Uploads \ (store \cup expired) :
        (\A a \in Actors : jobs[a].u # u) => ~mpu[u].live
=============================================================================
