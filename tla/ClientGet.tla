------------------------------ MODULE ClientGet ------------------------------
(***************************************************************************)
(* GetObject, PutObject and HeadObject of a client whose data flow is GDS: *)
(* ClientCore's Initialize and Shutdown, the ClientExecutor behind the     *)
(* asynchronous calls, GetObjectParallel with its split and its futures,   *)
(* the loading of the cuObject library, and the descriptor table of        *)
(* GdsMemoryRegistry.                                                      *)
(*                                                                         *)
(* A call has a body, which runs in the caller's thread (GetObject) or in  *)
(* a bthread of the executor (GetObjectAsync).  The body does the work     *)
(* itself, as piece 0, or has pieces 1..K transferred by bthreads.         *)
(* The tasks of the executor are the pieces <<c, i>>, i > 0, and the       *)
(* asynchronous bodies, written <<c, 0>>.                                  *)
(***************************************************************************)
EXTENDS Naturals, FiniteSets

CONSTANTS
    Calls, Async,   \* the calls; those made with the Async methods
    Ops,            \* what each may be: "get", "put", "head"
    Buffer,         \* the device buffer of every call
    Length,         \* request.length of a get, at most the buffer's size; of a put, that
    Symbols,        \* the entry points ResolveApi asks for
    Platforms,      \* what may be installed, see Platform
    PutMax,         \* gds.put_single_max_bytes, 0 for no limit
    Threshold,      \* gds.parallel_get_threshold
    Chunks,         \* gds.parallel_get_chunks
    PageSize,       \* kGpuPageSize
    MaxFaults,      \* bound: failures of the network, the SDK, bthreads, the grace
    None

ASSUME GetAssumption ==
    /\ Async \subseteq Calls /\ DOMAIN Buffer = Calls
    /\ Ops \in [Calls -> SUBSET {"get", "put", "head"}]
    /\ Length \in [Calls -> Nat \ {0}]
    /\ {Threshold, Chunks, PutMax, MaxFaults} \subseteq Nat /\ PageSize \in Nat \ {0}
    /\ None \notin Calls

VARIABLES
    platform,           \* one of Platforms
    initialized,        \* ClientCore::Impl::initialized
    executor,           \* async_executor is not null
    stop, inflight,     \* ClientExecutor: stop_, inflight_
    shutdown,           \* where ClientCore::Shutdown stands
    call,               \* GetObject or GetObjectAsync, as the caller sees it
    body,               \* the body: what it does, position, and the piece it is at
    piece,              \* the pieces: position, and result
    cuobj,              \* what the static holder of CuObjState::Get keeps
    registered,         \* the descriptor table: size by pointer, 0 for none
    content,            \* which call filled a byte of a buffer
    faults,
    clean,              \* history: the executor's Shutdown returned true
    raced,              \* history: tasks past the test of stop_ but uncounted then
    orphans,            \* history: tasks and submitters of a destroyed executor
    stray,              \* history: bytes filled by a call that had returned
    reused,             \* history: <<c, d>>: get d began on get c's buffer after c returned
    undefined           \* history: a destroyed executor was used

core    == <<initialized, executor, stop, inflight, shutdown>>
memory  == <<platform, cuobj, registered, content>>
history == <<clean, raced, orphans, stray, reused>>
threads == <<call, body, piece>>
vars    == <<core, threads, memory, faults, history, undefined>>

Pieces   == Calls \X (0..Chunks)
Buffers  == {Buffer[c] : c \in Calls}
MaxBytes == CHOOSE n \in {Length[c] : c \in Calls} : \A c \in Calls : Length[c] <= n
Pointers == Buffers \X (0..MaxBytes - 1)
Returned == {"ok", "failed"}
Busy     == {"head", "open", "lookup", "register", "token", "transfer"}
First(S) == CHOOSE i \in S : \A j \in S : i <= j

Init ==
    /\ platform \in Platforms
    /\ initialized = FALSE /\ executor = FALSE
    /\ stop = FALSE /\ inflight = 0 /\ shutdown = "no"
    /\ call = [c \in Calls |-> "idle"]
    /\ body = [c \in Calls |-> [op |-> None, pos |-> "none", at |-> 0]]
    /\ piece = [p \in Pieces |-> [pos |-> "none", ok |-> FALSE]]
    /\ cuobj = "unset"
    /\ registered = [x \in Pointers |-> 0]
    /\ content = [x \in Pointers |-> None]
    /\ faults = 0
    /\ clean = FALSE /\ raced = {} /\ orphans = {} /\ stray = {} /\ reused = {}
    /\ undefined = FALSE

Fault == faults < MaxFaults /\ faults' = faults + 1

-----------------------------------------------------------------------------
(* The platform: the CUDA runtime and libcufile, each there or not, and    *)
(* for every path where libcuobjclient is looked for None or the symbols   *)
(* of the library found there.                                             *)

\* DetectPlatformCapabilities: available() of the GDS path.
Available == platform.cuda /\ platform.cufile

\* ResolveApi: the first symbol that is missing fails it.
ResolveApi(library) == Symbols \subseteq library

\* Load: the first path that has a library decides.
Load ==
    LET found == {i \in DOMAIN platform.cuobj : platform.cuobj[i] # None}
    IN  found # {} /\ ResolveApi(platform.cuobj[First(found)])

\* CuObjState::Get succeeds; its first outcome is kept for the process.
Loads ==
    /\ IF cuobj = "unset" THEN Load ELSE cuobj = "ok"
    /\ cuobj' = "ok"

\* It fails: there is no library, or the client made with it, CuObjState's
\* constructor, is not connected.
LoadFails ==
    /\ cuobj # "ok"
    /\ IF cuobj = "unset" /\ Load THEN Fault ELSE UNCHANGED faults
    /\ cuobj' = IF cuobj # "unset" THEN cuobj ELSE IF Load THEN "disconnected" ELSE "missing"

-----------------------------------------------------------------------------
(* The split of GetObjectParallel.                                         *)

K(total) == IF Chunks < total THEN Chunks ELSE total

Base(total) == ((total \div K(total)) \div PageSize) * PageSize

\* Faulty: the last piece is no longer than the others.
PieceLengthShort(total, i) ==
    IF i = 0 THEN total ELSE Base(total)

PieceLength(total, i) ==
    IF i = 0 THEN total
    ELSE IF i = K(total) THEN Base(total) + (total - Base(total) * K(total))
    ELSE Base(total)

\* cursor_buf when piece i is made.
PieceStart(total, i) == IF i = 0 THEN 0 ELSE Base(total) * (i - 1)

Pointer(p) == <<Buffer[p[1]], PieceStart(Length[p[1]], p[2])>>

Bytes(p) ==
    LET s == PieceStart(Length[p[1]], p[2])
    IN  {Buffer[p[1]]} \X (s .. (s + PieceLength(Length[p[1]], p[2]) - 1))

-----------------------------------------------------------------------------
(* ClientCore and the executor's shutdown.                                 *)

Running ==
    {p \in Pieces : p[2] > 0 /\ piece[p].pos \in Busy \cup {"set"}}
        \cup {<<c, 0>> : c \in {c \in Async : body[c].pos \notin {"none", "gone"}}}

\* The tasks whose submitter has read stop_ and not yet incremented inflight_.
Uncounted ==
    {<<c, body[c].at>> : c \in {c \in Calls : body[c].pos = "count"}}
        \cup {<<c, 0>> : c \in {c \in Calls : call[c] = "count"}}

\* Those that hold a reference to the executor: its tasks, the submitters
\* about to count, and the bodies in the loop of GetObjectParallel.
Holders == Running \cup Uncounted \cup
    {<<c, body[c].at>> : c \in {c \in Calls : body[c].pos = "submit"}}

\* Stubs, executor and upload coordinator are made; after Shutdown it works
\* the same way again, since the channels stay up.
Initialize ==
    /\ ~initialized /\ shutdown \in {"no", "done"}
    /\ initialized' = TRUE /\ executor' = TRUE
    /\ stop' = FALSE /\ inflight' = 0 /\ shutdown' = "no"
    /\ clean' = FALSE /\ raced' = {}
    /\ UNCHANGED <<threads, memory, faults, orphans, stray, reused, undefined>>

\* ClientExecutor::Shutdown: no more tasks ...
ShutdownStop ==
    /\ shutdown = "no" /\ executor
    /\ stop' = TRUE /\ shutdown' = "drain"
    /\ UNCHANGED <<initialized, executor, inflight, threads, memory, faults, history, undefined>>

\* Faulty: one task may still be in flight.
ShutdownDrainedEarly ==
    /\ shutdown = "drain" /\ inflight <= 1
    /\ shutdown' = "reset" /\ clean' = TRUE /\ raced' = Uncounted
    /\ UNCHANGED <<initialized, executor, stop, inflight, threads, memory, faults,
                   orphans, stray, reused, undefined>>

\* ... wait for those counted: true,
ShutdownDrained ==
    /\ shutdown = "drain" /\ inflight = 0
    /\ shutdown' = "reset" /\ clean' = TRUE /\ raced' = Uncounted
    /\ UNCHANGED <<initialized, executor, stop, inflight, threads, memory, faults,
                   orphans, stray, reused, undefined>>

\* or the grace is over: false.
ShutdownUnclean ==
    /\ shutdown = "drain" /\ inflight > 0
    /\ Fault
    /\ shutdown' = "reset"
    /\ UNCHANGED <<initialized, executor, stop, inflight, threads, memory, history, undefined>>

\* async_executor.reset(): the destructor drains once more, with a grace.
ExecutorReset ==
    /\ shutdown = "reset"
    /\ IF inflight = 0 THEN UNCHANGED faults ELSE Fault
    /\ executor' = FALSE /\ inflight' = 0 /\ shutdown' = "stubs"
    /\ orphans' = orphans \cup Holders
    /\ UNCHANGED <<initialized, stop, threads, memory, clean, raced, stray, reused, undefined>>

\* The coordinator and the stubs go, and only then initialized.
ShutdownDone ==
    /\ shutdown = "stubs"
    /\ initialized' = FALSE /\ shutdown' = "done"
    /\ UNCHANGED <<executor, stop, inflight, threads, memory, faults, history, undefined>>

-----------------------------------------------------------------------------
(* Submit, and the calls.                                                  *)

\* The destroyed executor is read or written: nothing is defined from here.
Destroyed ==
    /\ undefined' = TRUE
    /\ UNCHANGED <<core, threads, memory, faults, history>>

\* The calls that use a buffer; HeadObject has none.
Users(b) == {c \in Calls : Buffer[c] = b /\ body[c].op \in {"get", "put"}}

\* The caller uses a buffer for one call at a time.
Begin(c, op, pos, started) ==
    /\ call[c] = "idle" /\ op \in Ops[c]
    /\ op = "head" \/ \A d \in Users(Buffer[c]) : call[d] \in Returned
    /\ call' = [call EXCEPT ![c] = IF initialized THEN pos ELSE "failed"]
    /\ body' = [body EXCEPT ![c].op = op, ![c].pos = IF initialized THEN started ELSE "none"]
    /\ reused' = reused \cup
          {<<d, c>> : d \in {d \in Users(Buffer[c]) : call[d] = "ok" /\ {op, body[d].op} = {"get"}}}
    /\ UNCHANGED <<core, piece, memory, faults, clean, raced, orphans, stray, undefined>>

HeadObject(c) == c \notin Async /\ Begin(c, "head", "waits", "route")
GetObject(c)  == c \notin Async /\ Begin(c, "get", "waits", "route")
PutObject(c)  == c \notin Async /\ Begin(c, "put", "waits", "route")

HeadObjectAsync(c) == c \in Async /\ Begin(c, "head", "submit", "none")
GetObjectAsync(c)  == c \in Async /\ Begin(c, "get", "submit", "none")
PutObjectAsync(c)  == c \in Async /\ Begin(c, "put", "submit", "none")

\* async_executor().Submit: the test of stop_, which throws ...
AsyncStopTest(c) ==
    /\ call[c] = "submit"
    /\ IF ~executor THEN Destroyed
       ELSE /\ call' = [call EXCEPT ![c] = IF stop THEN "failed" ELSE "count"]
            /\ UNCHANGED <<core, body, piece, memory, faults, history, undefined>>

\* ... and the task's start.  One that cannot have a bthread runs in the
\* caller's thread: for the caller the same wait.
AsyncCount(c) ==
    /\ call[c] = "count"
    /\ IF <<c, 0>> \in orphans THEN Destroyed
       ELSE /\ inflight' = inflight + 1
            /\ call' = [call EXCEPT ![c] = "waits"]
            /\ body' = [body EXCEPT ![c].pos = "route"]
            /\ UNCHANGED <<initialized, executor, stop, shutdown, piece, memory, faults,
                           history, undefined>>

-----------------------------------------------------------------------------
(* The body: MetadataClient::HeadObject, or TransferRouter's GetObject and *)
(* PutObject, which lead to GdsTransferPath.                               *)

Parallel(c) ==
    Length[c] >= Threshold /\ Chunks >= 2 /\ executor /\ K(Length[c]) > 1

At(c) == <<c, body[c].at>>

\* The pieces the loop makes: those of length 0 are skipped.
Made(c) == {i \in 1..K(Length[c]) : PieceLength(Length[c], i) > 0}
Later(c) == {i \in Made(c) : i > body[c].at}

\* The body has one piece, in its own thread.
InOnePiece(c, pos) ==
    /\ body' = [body EXCEPT ![c].pos = "single"]
    /\ piece' = [piece EXCEPT ![<<c, 0>>].pos = pos]
    /\ UNCHANGED call

\* The result reaches the caller, by return or through the future; an
\* asynchronous body still has inflight_ to decrement.
Finish(c, result) ==
    /\ call' = [call EXCEPT ![c] = result]
    /\ body' = [body EXCEPT ![c].pos = IF c \in Async THEN "set" ELSE "gone", ![c].at = 0]

RouteHead(c) ==
    /\ body[c].pos = "route" /\ body[c].op = "head"
    /\ InOnePiece(c, "head")
    /\ UNCHANGED <<core, memory, faults, history, undefined>>

\* PreflightGds, and the choice between one piece and several.
RouteGet(c) ==
    /\ body[c].pos = "route" /\ body[c].op = "get"
    /\ IF ~Available THEN Finish(c, "failed") /\ UNCHANGED piece
       ELSE IF Parallel(c)
       THEN /\ body' = [body EXCEPT ![c].pos = "submit", ![c].at = First(Made(c))]
            /\ UNCHANGED <<call, piece>>
       ELSE InOnePiece(c, "open")
    /\ UNCHANGED <<core, memory, faults, history, undefined>>

RoutePut(c) ==
    /\ body[c].pos = "route" /\ body[c].op = "put"
    /\ IF ~Available \/ (PutMax # 0 /\ Length[c] > PutMax)
       THEN Finish(c, "failed") /\ UNCHANGED piece
       ELSE InOnePiece(c, "open")
    /\ UNCHANGED <<core, memory, faults, history, undefined>>

Single(c) ==
    /\ body[c].pos = "single" /\ piece[<<c, 0>>].pos = "set"
    /\ Finish(c, IF piece[<<c, 0>>].ok THEN "ok" ELSE "failed")
    /\ piece' = [piece EXCEPT ![<<c, 0>>].pos = "gone"]
    /\ UNCHANGED <<core, memory, faults, history, undefined>>

\* executor.Submit for the piece at hand: when it throws, the pieces already
\* started are left running.
StopTest(c) ==
    /\ body[c].pos = "submit"
    /\ IF At(c) \in orphans THEN Destroyed
       ELSE /\ IF stop THEN Finish(c, "failed")
               ELSE body' = [body EXCEPT ![c].pos = "count"] /\ UNCHANGED call
            /\ UNCHANGED <<core, piece, memory, faults, history, undefined>>

Advance(c) ==
    body' = IF Later(c) = {}
            THEN [body EXCEPT ![c].pos = "collect", ![c].at = First(Made(c))]
            ELSE [body EXCEPT ![c].pos = "submit", ![c].at = First(Later(c))]

Count(c) ==
    /\ body[c].pos = "count"
    /\ IF At(c) \in orphans THEN Destroyed
       ELSE /\ inflight' = inflight + 1
            /\ piece' = [piece EXCEPT ![At(c)].pos = "open"]
            /\ \/ Advance(c) /\ UNCHANGED faults
               \/ Fault /\ body' = [body EXCEPT ![c].pos = "inline"]
            /\ UNCHANGED <<initialized, executor, stop, shutdown, call, memory, history,
                           undefined>>

\* bthread_start_background failed: the piece ran in this thread.
InlineDone(c) ==
    /\ body[c].pos = "inline" /\ piece[At(c)].pos = "gone"
    /\ Advance(c)
    /\ UNCHANGED <<core, call, piece, memory, faults, history, undefined>>

\* f.get(), in the order of the pieces, up to the first that failed.
Collect(c) ==
    /\ body[c].pos = "collect" /\ piece[At(c)].pos \in {"set", "gone"}
    /\ IF ~piece[At(c)].ok THEN Finish(c, "failed")
       ELSE IF Later(c) = {} THEN Finish(c, "ok")
       ELSE body' = [body EXCEPT ![c].at = First(Later(c))] /\ UNCHANGED call
    /\ UNCHANGED <<core, piece, memory, faults, history, undefined>>

\* inflight_.fetch_sub, after the packaged task has run.
Uncount ==
    /\ inflight' = inflight - 1
    /\ UNCHANGED <<initialized, executor, stop, shutdown, call, memory, faults, history,
                   undefined>>

BodyDone(c) ==
    /\ body[c].pos = "set"
    /\ IF <<c, 0>> \in orphans THEN Destroyed
       ELSE /\ Uncount
            /\ body' = [body EXCEPT ![c].pos = "gone"]
            /\ UNCHANGED piece

PieceDone(p) ==
    /\ p[2] > 0 /\ piece[p].pos = "set"
    /\ IF p \in orphans THEN Destroyed
       ELSE /\ Uncount
            /\ piece' = [piece EXCEPT ![p].pos = "gone"]
            /\ UNCHANGED body

-----------------------------------------------------------------------------
(* A piece: GetObjectSingle, one attempt of PutObject, or HeadObject.      *)

PieceGoes(p, pos) == piece' = [piece EXCEPT ![p].pos = pos]

\* OpenSession; with the stub gone it fails at once.
OpenSession(p) ==
    /\ piece[p].pos = "open" /\ initialized
    /\ PieceGoes(p, "lookup")
    /\ UNCHANGED <<core, call, body, memory, faults, history, undefined>>

\* Faulty: the descriptor is taken to be there.
LookupTrusts(p) ==
    /\ piece[p].pos = "lookup" /\ Loads
    /\ PieceGoes(p, "token")
    /\ UNCHANGED <<core, call, body, platform, registered, content, faults, history, undefined>>

\* AcquireToken: CuObjState::Get, and the look into the table under the lock.
Lookup(p) ==
    /\ piece[p].pos = "lookup" /\ Loads
    /\ PieceGoes(p, IF registered[Pointer(p)] = 0 THEN "register" ELSE "token")
    /\ UNCHANGED <<core, call, body, platform, registered, content, faults, history, undefined>>

\* RegisterUnderLock: what is already in the table stays as it is.
Enter(x, size) ==
    registered' = IF registered[x] = 0 THEN [registered EXCEPT ![x] = size] ELSE registered

LazyRegister(p) ==
    /\ piece[p].pos = "register"
    /\ Enter(Pointer(p), PieceLength(Length[p[1]], p[2]))
    /\ PieceGoes(p, "token")
    /\ UNCHANGED <<core, call, body, platform, cuobj, content, faults, history, undefined>>

GetRdmaToken(p) ==
    /\ piece[p].pos = "token"
    /\ PieceGoes(p, "transfer")
    /\ UNCHANGED <<core, call, body, memory, faults, history, undefined>>

\* Dispatch: the gateway writes the range, or reads it, and answers.
Transfer(p) ==
    LET written == IF body[p[1]].op = "get" THEN Bytes(p) ELSE {}
    IN  /\ piece[p].pos = "transfer" /\ initialized
        /\ content' = [x \in Pointers |-> IF x \in written THEN p[1] ELSE content[x]]
        /\ stray' = IF call[p[1]] \in Returned THEN stray \cup written ELSE stray
        /\ piece' = [piece EXCEPT ![p] = [pos |-> "set", ok |-> TRUE]]
        /\ UNCHANGED <<core, call, body, platform, cuobj, registered, faults, clean, raced,
                       orphans, reused, undefined>>

Head(p) ==
    /\ piece[p].pos = "head" /\ initialized
    /\ piece' = [piece EXCEPT ![p] = [pos |-> "set", ok |-> TRUE]]
    /\ UNCHANGED <<core, call, body, memory, faults, history, undefined>>

\* The library is not there, a stub is gone, or an RPC or a call of the SDK
\* fails.
Failure(p) ==
    /\ piece[p].pos \in Busy
    /\ IF piece[p].pos = "lookup" THEN LoadFails
       ELSE /\ IF piece[p].pos \in {"head", "open", "transfer"} /\ ~initialized
               THEN UNCHANGED faults ELSE Fault
            /\ UNCHANGED cuobj
    /\ UNCHANGED <<core, call, body, platform, registered, content, history, undefined>>

PieceFails(p) ==
    /\ Failure(p)
    /\ piece' = [piece EXCEPT ![p] = [pos |-> "set", ok |-> FALSE]]

\* PutObject tries again, under a new session, what is worth it.
PutAgain(p) ==
    /\ Failure(p)
    /\ body[p[1]].op = "put"
    /\ piece[p].pos = "lookup" => cuobj' = "disconnected"
    /\ PieceGoes(p, "open")

-----------------------------------------------------------------------------
(* RegisterDeviceBuffer and UnregisterDeviceBuffer, of a buffer no call is *)
(* using.                                                                  *)

InUse(b) == \E c \in Users(b) : call[c] \notin Returned

RegisterBuffer(b) ==
    /\ initialized /\ ~InUse(b) /\ Loads
    /\ Enter(<<b, 0>>, MaxBytes)
    /\ UNCHANGED <<core, threads, platform, content, faults, history, undefined>>

\* Either call, when the library is not there or cannot be used.
RegisterFails(b) ==
    /\ initialized /\ ~InUse(b) /\ LoadFails
    /\ UNCHANGED <<core, threads, platform, registered, content, history, undefined>>

\* The entry of this pointer goes, those inside the buffer stay.
UnregisterBuffer(b) ==
    /\ initialized /\ ~InUse(b) /\ Loads
    /\ registered' = [registered EXCEPT ![<<b, 0>>] = 0]
    /\ UNCHANGED <<core, threads, platform, content, faults, history, undefined>>

-----------------------------------------------------------------------------

CoreStep ==
    Initialize \/ ShutdownStop \/ ShutdownDrained \/ ShutdownUnclean \/ ExecutorReset
        \/ ShutdownDone

CallStep(c) ==
    \/ HeadObject(c) \/ GetObject(c) \/ PutObject(c)
    \/ HeadObjectAsync(c) \/ GetObjectAsync(c) \/ PutObjectAsync(c)
    \/ AsyncStopTest(c) \/ AsyncCount(c)
    \/ RouteHead(c) \/ RouteGet(c) \/ RoutePut(c) \/ Single(c) \/ StopTest(c) \/ Count(c) \/ InlineDone(c) \/ Collect(c)
    \/ BodyDone(c)

PieceStep(p) ==
    \/ OpenSession(p) \/ Lookup(p) \/ LazyRegister(p) \/ GetRdmaToken(p) \/ Transfer(p)
    \/ Head(p) \/ PieceFails(p) \/ PutAgain(p) \/ PieceDone(p)

Next ==
    /\ ~undefined
    /\ \/ CoreStep
       \/ \E c \in Calls : CallStep(c)
       \/ \E p \in Pieces : PieceStep(p)
       \/ \E b \in Buffers : RegisterBuffer(b) \/ RegisterFails(b) \/ UnregisterBuffer(b)

Spec == Init /\ [][Next]_vars

-----------------------------------------------------------------------------

\* No piece of a call that returned success is still at work, and a GetObject
\* has filled its range, all of it and with its own bytes; what a later call on
\* the buffer writes, or a failed one had left running, is not its doing
\* (GetObjectParallel's split and its loop over the futures).
ReturnedIsRead ==
    \A c \in Calls : call[c] = "ok" =>
        /\ \A p \in Pieces : p[1] = c => piece[p].pos \notin Busy
        /\ body[c].op = "get" => \A x \in {Buffer[c]} \X (0..Length[c] - 1) :
              content[x] = c \/ x \in stray \/ <<c, content[x]>> \in reused

\* Once ClientExecutor::Shutdown has returned true no task of that executor
\* runs, but for a task whose Submit had passed the test of stop_ and had not
\* been counted when inflight_ was read.
CleanShutdownIsQuiet ==
    clean => Running \ orphans \subseteq raced

\* A token is asked for, and used, only on a pointer in the descriptor table,
\* registered for at least the bytes of the transfer; unless the call has
\* returned and left the piece behind, or the entry was made for a shorter
\* piece of another call that began at the same address.
TokenIsPinned ==
    \A p \in Pieces :
        (piece[p].pos \in {"token", "transfer"} /\ call[p[1]] \notin Returned) =>
            LET size == registered[Pointer(p)]
            IN  /\ size > 0
                /\ \/ size >= PieceLength(Length[p[1]], p[2])
                   \/ \E q \in Pieces : /\ q[1] # p[1] /\ Pointer(q) = Pointer(p)
                                        /\ size = PieceLength(Length[q[1]], q[2])
=============================================================================
