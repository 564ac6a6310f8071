---------------------------- MODULE ClientUpload ----------------------------
(***************************************************************************)
(* A multipart upload as the client drives it (client/src/core/client/     *)
(* multipart_upload.cpp): StartUpload, the worker threads of UploadParts,  *)
(* UploadPart, Complete, Abort and the destructor, over RPCs that may be   *)
(* lost, answered late or sent twice.  Main owns the handle; Other is a    *)
(* second thread that finishes it once.                                    *)
(*                                                                         *)
(* The gateway is seen through its handlers: StartUpload, AbortUpload,     *)
(* CompleteUpload in two sections (Multipart has the detail), and a part   *)
(* in three, its lookup, its bytes and its record, between which the       *)
(* upload may be completed or aborted.  A part is a pair <<number, size>>, *)
(* which is what its etag spells; the transfer of a part is one request    *)
(* (RdmaPut has the detail).                                               *)
(***************************************************************************)
EXTENDS Naturals, Sequences, FiniteSets, SequencesExt

CONSTANTS
    Main, Other,    \* the owner of the handle; another thread that finishes it
    Concurrency,    \* the argument of UploadParts
    PartLists,      \* the lists UploadParts may be called with
    MaxPartSize,    \* as StartUpload answered
    MinPartSize,    \* multipart_min_part_size of the gateway
    MaxCalls,       \* bound: calls of UploadPart and UploadParts
    MaxFaults       \* bound: timeouts, resends and failed cudaSetDevice calls

Parts == UNION {Range(l) : l \in PartLists}

ASSUME UploadAssumption ==
    /\ Main # Other
    /\ \A l \in PartLists : l \in Seq((Nat \ {0}) \X Nat)
    /\ {Concurrency, MaxPartSize, MinPartSize, MaxCalls, MaxFaults} \subseteq Nat

\* NormalizeUploadPartsConcurrency
Normalize(concurrency, count) ==
    IF concurrency = 0 THEN 1 ELSE IF concurrency > count THEN count ELSE concurrency

Workers == 1 .. Normalize(Concurrency, Concurrency + 1)
Actors  == Workers \cup {Main, Other}

VARIABLES
    finished, parts,                \* MultipartUpload::Impl
    specs, next_index, first_error, outcomes,   \* UploadPartsSharedState
    pos,        \* where every thread is
    idx,        \* the index a worker holds, the part Main uploads
    rpc,        \* the request a thread waits for
    upload,     \* the gateway's upload
    commit,     \* the CompleteUpload the gateway runs
    object,     \* the list of the committed object
    late,       \* requests whose client no longer waits, and how far they are
    calls, faults,
    told,       \* history: what Complete returned
    unsure,     \* history: operations that timed out or were sent twice
    overtaken,  \* history: parts recorded after a Complete took its snapshot
    crossed     \* history: the upload went while a part had been looked up only

handle  == <<finished, parts>>
batch   == <<specs, next_index, first_error, outcomes, idx>>
gateway == <<upload, commit, object>>
bounds  == <<calls, faults>>
history == <<told, unsure, overtaken, crossed>>
vars    == <<handle, batch, pos, rpc, gateway, late, bounds, history>>

NoRpc == [op |-> "none", arg |-> <<>>, status |-> "none"]
Sent(op, arg) == [op |-> op, arg |-> arg, status |-> "sent"]

\* The requests of a session: RpcCreateMultipartUpload, the transfer of a part
\* under the flow's data path, RpcCompleteMultipartUpload, RpcAbortMultipartUpload.
StartRequest == Sent("start", <<>>)
\* UploadPart of the session.
PartRequest(part) == Sent("part", <<part>>)
CompleteRequest(list) == Sent("complete", list)
AbortRequest == Sent("abort", <<>>)

\* The gateway's upload: in its store, with its state and recorded parts; in
\* the backend, with its target, and the numbers of the parts staged for it.
NoUpload == [stored |-> FALSE, state |-> "kActive", parts |-> {},
             target |-> FALSE, staged |-> {}]

Init ==
    /\ finished = FALSE /\ parts = <<>>
    /\ specs = <<>> /\ next_index = 1 /\ first_error = FALSE /\ outcomes = {}
    /\ pos = [a \in Actors |-> IF a = Main THEN "new" ELSE "idle"]
    /\ idx = [a \in Actors |-> 0]
    /\ rpc = [a \in Actors |-> NoRpc]
    /\ upload = NoUpload
    /\ commit = [running |-> FALSE, list |-> <<>>, client |-> {}]
    /\ object = <<>>
    /\ late = {}
    /\ calls = 0 /\ faults = 0
    /\ told = {} /\ unsure = {} /\ overtaken = {} /\ crossed = FALSE

\* A thread calls a method of its session and waits: GdsMultipartSession and
\* RdmaMultipartSession pass the call on in the same way.
Call(a, to, request) ==
    /\ pos' = [pos EXCEPT ![a] = to]
    /\ rpc' = [rpc EXCEPT ![a] = request]

\* The call, if any, has returned (CheckRpcFailure), and the thread goes on.
Goto(a, to) == pos' = [pos EXCEPT ![a] = to] /\ rpc' = [rpc EXCEPT ![a] = NoRpc]

Waits(a, at, status) == pos[a] = at /\ rpc[a].status = status

\* Where a call of the API returns to.
Returns(a) == IF a = Main THEN "open" ELSE "done"

-----------------------------------------------------------------------------
(* Client::StartUpload and the flows' CreateSession.                       *)

StartUpload ==
    /\ pos[Main] = "new"
    /\ Call(Main, "starting", StartRequest)
    /\ UNCHANGED <<handle, batch, gateway, late, bounds, history>>

Started ==
    /\ \/ Waits(Main, "starting", "ok") /\ Goto(Main, "open")
       \/ Waits(Main, "starting", "fail") /\ Goto(Main, "gone")
    /\ UNCHANGED <<handle, batch, gateway, late, bounds, history>>

-----------------------------------------------------------------------------
(* UploadParts: the threads, fetch_add, fail-fast, join.                   *)

UploadParts(list) ==
    /\ pos[Main] = "open" /\ calls < MaxCalls
    /\ calls' = calls + 1
    /\ IF list = <<>>
         THEN UNCHANGED <<batch, pos>>
         ELSE /\ specs' = list /\ next_index' = 1 /\ first_error' = FALSE /\ outcomes' = {}
              /\ pos' = [a \in Actors |->
                     IF a = Main THEN "joining"
                     ELSE IF a \in 1..Normalize(Concurrency, Len(list)) THEN "device"
                     ELSE pos[a]]
              /\ UNCHANGED idx
    /\ UNCHANGED <<handle, rpc, gateway, late, faults, history>>

\* cudaSetDevice
BindDevice(w) ==
    /\ pos[w] = "device"
    /\ \/ Goto(w, "fetch") /\ UNCHANGED <<first_error, faults>>
       \/ /\ faults < MaxFaults /\ faults' = faults + 1
          /\ Goto(w, "left") /\ first_error' = TRUE
    /\ UNCHANGED <<handle, specs, next_index, outcomes, idx, gateway, late, calls, history>>

\* Faulty: the test of the index is off by one.
FetchShort(w) ==
    /\ pos[w] = "fetch"
    /\ next_index' = next_index + 1
    /\ IF next_index >= Len(specs)
         THEN Goto(w, "left") /\ idx' = [idx EXCEPT ![w] = 0]
         ELSE Goto(w, "error?") /\ idx' = [idx EXCEPT ![w] = next_index]
    /\ UNCHANGED <<handle, specs, first_error, outcomes, gateway, late, bounds, history>>

Fetch(w) ==
    /\ pos[w] = "fetch"
    /\ next_index' = next_index + 1
    /\ IF next_index > Len(specs)
         THEN Goto(w, "left") /\ idx' = [idx EXCEPT ![w] = 0]
         ELSE Goto(w, "error?") /\ idx' = [idx EXCEPT ![w] = next_index]
    /\ UNCHANGED <<handle, specs, first_error, outcomes, gateway, late, bounds, history>>

HasError(w) ==
    /\ pos[w] = "error?"
    /\ Goto(w, IF first_error THEN "left" ELSE "part")
    /\ idx' = IF first_error THEN [idx EXCEPT ![w] = 0] ELSE idx
    /\ UNCHANGED <<handle, specs, next_index, first_error, outcomes, gateway, late, bounds,
                   history>>

\* A part by itself, in Main's thread.
UploadOnePart(list, i) ==
    /\ pos[Main] = "open" /\ calls < MaxCalls
    /\ calls' = calls + 1
    /\ specs' = list /\ idx' = [idx EXCEPT ![Main] = i]
    /\ Goto(Main, "part")
    /\ UNCHANGED <<handle, next_index, first_error, outcomes, gateway, late, faults, history>>

\* The part a thread uploads.
PartOf(a) == specs[idx[a]]

\* RecordError in a worker; Main returns the error.
PartFails(a) ==
    /\ Goto(a, IF a = Main THEN "open" ELSE "fetch")
    /\ first_error' = IF a = Main THEN first_error ELSE TRUE
    /\ idx' = [idx EXCEPT ![a] = 0]
    /\ specs' = IF a = Main THEN <<>> ELSE specs

\* UploadPart up to its transfer: the size, then finished under the mutex.
UploadPart(a) ==
    /\ pos[a] = "part"
    /\ IF PartOf(a)[2] = 0 \/ (MaxPartSize # 0 /\ PartOf(a)[2] > MaxPartSize) \/ finished
         THEN PartFails(a)
         ELSE Call(a, "transfer", PartRequest(PartOf(a))) /\ UNCHANGED <<first_error, idx, specs>>
    /\ UNCHANGED <<handle, next_index, outcomes, gateway, late, bounds, history>>

UploadPartFails(a) ==
    /\ Waits(a, "transfer", "fail")
    /\ PartFails(a)
    /\ UNCHANGED <<handle, next_index, outcomes, gateway, late, bounds, history>>

\* RecordUploadedPart, then RecordSuccess; finished is not looked at again.
RecordUploadedPart(a) ==
    /\ Waits(a, "transfer", "ok")
    /\ parts' = Append(parts, PartOf(a))
    /\ outcomes' = IF a = Main THEN outcomes ELSE outcomes \cup {idx[a]}
    /\ overtaken' = IF finished \/ \E b \in {Main, Other} : pos[b] = "completing"
                      THEN overtaken \cup {PartOf(a)} ELSE overtaken
    /\ Goto(a, IF a = Main THEN "open" ELSE "fetch")
    /\ idx' = [idx EXCEPT ![a] = 0]
    /\ specs' = IF a = Main THEN <<>> ELSE specs
    /\ UNCHANGED <<finished, next_index, first_error, gateway, late, bounds, told, unsure, crossed>>

Joined == pos[Main] = "joining" /\ \A w \in Workers : pos[w] \in {"idle", "left"}

\* All threads are joined: success, or Abort and the first error.
UploadPartsReturn ==
    /\ Joined
    /\ pos' = [a \in Actors |-> IF a = Main THEN IF first_error THEN "abort" ELSE "open"
                                ELSE IF a \in Workers THEN "idle" ELSE pos[a]]
    /\ specs' = <<>> /\ next_index' = 1 /\ first_error' = FALSE /\ outcomes' = {}
    /\ UNCHANGED <<handle, idx, rpc, gateway, late, bounds, history>>

-----------------------------------------------------------------------------
(* Complete, Abort and the destructor.                                     *)

\* A thread that may finish the upload; Other comes once, after StartUpload.
MayFinish(a) ==
    \/ a = Main /\ pos[Main] = "open"
    \/ a = Other /\ pos[Other] = "idle" /\ pos[Main] \notin {"new", "starting", "destroying", "gone"}

\* Faulty: the snapshot misses the part that was recorded last.
CompleteShort(a) ==
    /\ MayFinish(a)
    /\ IF finished THEN Goto(a, Returns(a)) /\ told' = told \cup {"refused"}
                   ELSE Call(a, "completing", CompleteRequest(SubSeq(parts, 1, Len(parts) - 1)))
                        /\ UNCHANGED told
    /\ UNCHANGED <<handle, batch, gateway, late, bounds, unsure, overtaken, crossed>>

\* SnapshotPartsForComplete
Complete(a) ==
    /\ MayFinish(a)
    /\ IF finished THEN Goto(a, Returns(a)) /\ told' = told \cup {"refused"}
                   ELSE Call(a, "completing", CompleteRequest(parts)) /\ UNCHANGED told
    /\ UNCHANGED <<handle, batch, gateway, late, bounds, unsure, overtaken, crossed>>

\* Success: MarkUploadFinished.
CompleteOk(a) ==
    /\ Waits(a, "completing", "ok")
    /\ finished' = TRUE
    /\ told' = told \cup {"ok"}
    /\ Goto(a, Returns(a))
    /\ UNCHANGED <<parts, batch, gateway, late, bounds, unsure, overtaken, crossed>>

\* Faulty: a failed Complete marks the upload finished and leaves it at that.
CompleteFailsOpen(a) ==
    /\ Waits(a, "completing", "fail")
    /\ finished' = TRUE
    /\ told' = told \cup {"fail"}
    /\ Goto(a, Returns(a))
    /\ UNCHANGED <<parts, batch, gateway, late, bounds, unsure, overtaken, crossed>>

\* Failure: the session is aborted first, whatever comes of that.
CompleteFails(a) ==
    /\ Waits(a, "completing", "fail")
    /\ told' = told \cup {"fail"}
    /\ Call(a, "aborting", AbortRequest)
    /\ UNCHANGED <<handle, batch, gateway, late, bounds, unsure, overtaken, crossed>>

\* Abort of the API, and the one UploadParts ends with.
Abort(a) ==
    /\ MayFinish(a) \/ (a = Main /\ pos[Main] = "abort")
    /\ IF finished THEN Goto(a, Returns(a))
                   ELSE Call(a, "aborting", AbortRequest)
    /\ UNCHANGED <<handle, batch, gateway, late, bounds, history>>

Aborted(a) ==
    /\ pos[a] = "aborting" /\ rpc[a].status \in {"ok", "fail"}
    /\ finished' = TRUE
    /\ Goto(a, Returns(a))
    /\ UNCHANGED <<parts, batch, gateway, late, bounds, history>>

\* ~MultipartUpload, once no other thread uses the handle.
Destroy ==
    /\ pos[Main] = "open" /\ pos[Other] \in {"idle", "done"}
    /\ IF finished THEN Goto(Main, "gone") ELSE Call(Main, "destroying", AbortRequest)
    /\ UNCHANGED <<handle, batch, gateway, late, bounds, history>>

Destroyed ==
    /\ pos[Main] = "destroying" /\ rpc[Main].status \in {"ok", "fail"}
    /\ Goto(Main, "gone")
    /\ UNCHANGED <<handle, batch, gateway, late, bounds, history>>

-----------------------------------------------------------------------------
(* The gateway's handlers.                                                 *)

\* 1..N without a gap, recorded with the same etag, none but the last short.
Valid(list) ==
    /\ list # <<>>
    /\ {r[1] : r \in Range(list)} = 1..Len(list)
    /\ Range(list) \subseteq upload.parts
    /\ \A r \in Range(list) : r[1] # Len(list) => r[2] >= MinPartSize

\* Requests under way for a part that has been looked up and not yet staged.
Found(request) == request.op = "part" /\ request.status = "found"

Crosses == (\E a \in Actors : Found(rpc[a])) \/ (\E r \in late : Found(r))

HandleStart(request) ==
    /\ request.op = "start"
    /\ upload' = [NoUpload EXCEPT !.stored = TRUE, !.target = TRUE]
    /\ UNCHANGED crossed

\* An unknown upload is aborted already.
HandleAbort(request) ==
    /\ request.op = "abort"
    /\ IF upload.stored
         THEN /\ upload' = [NoUpload EXCEPT !.state = "kAborted"]
              /\ crossed' = (crossed \/ Crosses)
         ELSE UNCHANGED <<upload, crossed>>

\* The sections of a part, the same over GDS and UCX.  The upload is looked up
\* in the store; ...
LookupPart(request, status) ==
    /\ request.op = "part" /\ request.status = "sent"
    /\ status = IF upload.stored THEN "found" ELSE "fail"
    /\ UNCHANGED upload

\* ... the bytes go to the byte store, which asks for no upload; ...
WritePart(request, status) ==
    /\ Found(request)
    /\ status = "written"
    /\ upload' = [upload EXCEPT !.staged = @ \cup {request.arg[1][1]}]

\* ... and the part is recorded in the upload that was looked up, which nobody
\* reads once it has left the store.
RegisterPart(request, status) ==
    /\ request.op = "part" /\ request.status = "written"
    /\ status = "ok"
    /\ LET part == request.arg[1]
       IN  upload' = [upload EXCEPT !.parts =
                         IF upload.stored THEN {r \in @ : r[1] # part[1]} \cup {part} ELSE @]

PartSection(request, status) ==
    /\ \/ LookupPart(request, status)
       \/ WritePart(request, status)
       \/ RegisterPart(request, status)
    /\ UNCHANGED crossed

\* A section of a request's handler, and how far the request is then.
Section(request, status) ==
    \/ PartSection(request, status)
    \/ request.status = "sent" /\ status = "ok" /\ (HandleStart(request) \/ HandleAbort(request))

Handle(a) ==
    /\ \E status \in {"found", "written", "ok", "fail"} :
          Section(rpc[a], status) /\ rpc' = [rpc EXCEPT ![a].status = status]
    /\ UNCHANGED <<handle, batch, pos, commit, object, late, bounds, told, unsure, overtaken>>

\* CompleteUpload takes the upload, or refuses.
Claims(list) == upload.stored /\ upload.state = "kActive" /\ Valid(list)

HandleComplete(a) ==
    /\ rpc[a].status = "sent" /\ rpc[a].op = "complete"
    /\ IF Claims(rpc[a].arg)
         THEN /\ upload' = [upload EXCEPT !.state = "kCompleting"]
              /\ commit' = [running |-> TRUE, list |-> rpc[a].arg, client |-> {a}]
              /\ rpc' = [rpc EXCEPT ![a].status = "running"]
         ELSE /\ rpc' = [rpc EXCEPT ![a].status = "fail"]
              /\ UNCHANGED <<upload, commit>>
    /\ UNCHANGED <<handle, batch, pos, object, late, bounds, history>>

\* The backend has the upload's target and a staged part for each one listed.
Assembles(list) == upload.target /\ {r[1] : r \in Range(list)} \subseteq upload.staged

\* The backend commits, unless an abort has removed target and parts meanwhile;
\* the client is answered if it still waits.
Commit ==
    LET whole == Assembles(commit.list)
    IN  /\ commit.running
        /\ commit' = [commit EXCEPT !.running = FALSE, !.list = <<>>, !.client = {}]
        /\ IF whole
             THEN /\ object' = commit.list
                  /\ upload' = [NoUpload EXCEPT !.state = "kCompleted"]
                  /\ crossed' = (crossed \/ Crosses)
             ELSE /\ upload' = [upload EXCEPT !.state = "kActive",
                                              !.staged = IF upload.target THEN {} ELSE @]
                  /\ UNCHANGED <<object, crossed>>
        /\ rpc' = [a \in Actors |->
                      IF a \in commit.client /\ rpc[a].status = "running"
                        THEN [rpc[a] EXCEPT !.status = IF whole THEN "ok" ELSE "fail"]
                        ELSE rpc[a]]
        /\ UNCHANGED <<handle, batch, pos, late, bounds, told, unsure, overtaken>>

-----------------------------------------------------------------------------
(* Faults: a client gives up waiting, or its channel sends a request again *)
(* (max_retry = 2); what it gave up may still arrive, once, at any time.   *)

GivesUp(a, status) ==
    /\ rpc[a].status \in {"sent", "found", "written", "running"} /\ faults < MaxFaults
    /\ faults' = faults + 1
    /\ unsure' = unsure \cup {<<rpc[a].op, status>>}
    /\ late' = IF rpc[a].status = "running" THEN late ELSE late \cup {rpc[a]}
    /\ rpc' = [rpc EXCEPT ![a].status = status]
    /\ UNCHANGED <<handle, batch, pos, gateway, calls, told, overtaken, crossed>>

Timeout(a) == GivesUp(a, "fail")

\* brpc sends the request again on a new connection.
Resend(a) == rpc[a].op # "part" /\ GivesUp(a, "sent")

\* The same for a part, or PutObjectPart tries it again under a new session.
PutObjectPart(a) == rpc[a].op = "part" /\ GivesUp(a, "sent")

\* A StartUpload nobody waits for makes an upload of its own, which is left to
\* the gateway's sweeper.
ArriveStart(request) ==
    /\ request.op = "start"
    /\ late' = late \ {request}
    /\ UNCHANGED <<upload, commit, crossed>>

ArriveComplete(request) ==
    /\ request.op = "complete"
    /\ late' = late \ {request}
    /\ IF Claims(request.arg)
         THEN /\ upload' = [upload EXCEPT !.state = "kCompleting"]
              /\ commit' = [running |-> TRUE, list |-> request.arg, client |-> {}]
         ELSE UNCHANGED <<upload, commit>>
    /\ UNCHANGED crossed

\* A part or an abort goes on section by section.
ArriveSection(request) ==
    /\ request.op # "start"
    /\ \E status \in {"found", "written", "ok", "fail"} :
          /\ Section(request, status)
          /\ late' = (late \ {request}) \cup
                        IF status \in {"ok", "fail"} THEN {}
                        ELSE {[request EXCEPT !.status = status]}
    /\ UNCHANGED commit

Arrive(request) ==
    /\ ArriveStart(request) \/ ArriveComplete(request) \/ ArriveSection(request)
    /\ UNCHANGED <<handle, batch, pos, rpc, object, bounds, told, unsure, overtaken>>

-----------------------------------------------------------------------------
Threads(a) ==
    \/ UploadPart(a) \/ UploadPartFails(a) \/ RecordUploadedPart(a)
    \/ a \in Workers /\ (BindDevice(a) \/ Fetch(a) \/ HasError(a))
    \/ a \notin Workers /\ (Complete(a) \/ CompleteOk(a) \/ CompleteFails(a)
                              \/ Abort(a) \/ Aborted(a))

Next ==
    \/ StartUpload \/ Started
    \/ \E l \in PartLists : UploadParts(l) \/ \E i \in DOMAIN l : UploadOnePart(l, i)
    \/ \E a \in Actors : Threads(a) \/ Handle(a) \/ HandleComplete(a)
    \/ UploadPartsReturn \/ Destroy \/ Destroyed
    \/ Commit
    \/ \E a \in Actors : Timeout(a) \/ Resend(a) \/ PutObjectPart(a)
    \/ \E r \in late : Arrive(r)

Spec == Init /\ [][Next]_vars

-----------------------------------------------------------------------------
\* When UploadParts is about to return success, every part of its list was
\* acknowledged by the gateway and is recorded in the handle: no worker left
\* its part behind, whichever of them failed, bound no device or came late to
\* fetch_add; and no two workers ever hold the same part.
UploadPartsIsWhole ==
    /\ Joined /\ ~first_error =>
          /\ outcomes = DOMAIN specs
          /\ Range(specs) \subseteq Range(parts)
    /\ \A v, w \in Workers : v # w /\ idx[v] # 0 => idx[v] # idx[w]

\* What Complete returns is what became of the object.  After a success the
\* object holds every part that was acknowledged before the snapshot; and an
\* object exists only if some Complete has reported it or is about to, unless
\* the request timed out or was sent twice, when the client is told of a
\* failure although the gateway committed.
CompleteTellsTheTruth ==
    /\ "ok" \in told => Range(parts) \subseteq Range(object) \cup overtaken
    /\ object # <<>> /\ (\A s \in {"fail", "sent"} : <<"complete", s>> \notin unsure) =>
          "ok" \in told \/ \E a \in {Main, Other} : Waits(a, "completing", "ok")

\* What Abort promises (it "releases any gateway-side state"), for every way a
\* handle can end: once it is gone, by whatever mixture of failed parts,
\* Complete, Abort and the destructor, the gateway has neither the upload nor
\* its target, unless the abort itself was lost; and no staged bytes either,
\* but those of a part that was between its lookup and its write when the
\* upload went, which the code lets stay.
NothingIsLeftOpen ==
    pos[Main] = "gone" /\ <<"abort", "fail">> \notin unsure
        => ~upload.stored /\ ~upload.target /\ (upload.staged = {} \/ crossed)
=============================================================================
