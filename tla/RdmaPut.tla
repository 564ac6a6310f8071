------------------------------ MODULE RdmaPut ------------------------------
(***************************************************************************)
(* A client's RDMA puts against the gateway: RdmaTransferPath::PutObject   *)
(* and PutObjectPart (client/src/core/rdma), with the endpoint pool and    *)
(* the retries of RetryIfRetryable, composed with UcxExecutor.             *)
(*                                                                         *)
(* An attempt opens a session, asks for a slot, writes into it, and asks   *)
(* the gateway to commit.  Every failure on the way sends AbortSession and *)
(* may be followed by another attempt.  An RPC may be reported as failed   *)
(* to the client while its handler runs, late or never: the request stays  *)
(* in position "sent" and the gateway may take it up at any time.          *)
(***************************************************************************)
EXTENDS UcxExecutor

VARIABLES
    client,        \* the puts of the client
    idle           \* UcxEndpointPool: the idle endpoints

vars == <<gateway, client, idle>>

\* PutObject's locals: the attempt, whether the deadline has passed, the
\* endpoint (named after the attempt that connected it).
Put == [pos : {"open", "preparing", "writing", "committing", "aborting",
               "done", "failed"},
        attempt : Nat \ {0}, late : BOOLEAN, ep : Attempts \cup {None}]

\* UCX gives the client a context and a worker, or does not.
ContextCreated == BOOLEAN
WorkerCreated == BOOLEAN

\* RdmaTransferPath makes both when it is constructed; PutObject fails at once
\* when one is missing, or when the body is over max_msg_bytes.
Init ==
    /\ GatewayInit
    /\ \E ctx \in ContextCreated, worker \in WorkerCreated :
          client = [p \in Puts |->
              [pos |-> IF ctx /\ worker /\ Bytes[p] <= MaxMsgBytes THEN "open" ELSE "failed",
               attempt |-> 1, late |-> FALSE, ep |-> None]]
    /\ idle = {}

Attempt(p) == <<p, client[p].attempt>>
Request(p) == <<p, client[p].attempt, 1>>

-----------------------------------------------------------------------------
\* AbortSession(session_id) is sent; an endpoint in use is discarded.
GiveUp(p, late) ==
    /\ client' = [client EXCEPT ![p].pos = "aborting", ![p].late = late,
                                ![p].ep = None]
    /\ abort' = [abort EXCEPT ![Attempt(p)].pos = "sent"]

\* RetryIfRetryable: the next attempt, unless it was the last or time is up.
\* An attempt that starts after the deadline fails before it opens a session.
NextAttempt(p, late) ==
    client' = [client EXCEPT ![p] =
        IF late \/ @.attempt = Tries[p]
          THEN [@ EXCEPT !.pos = "failed", !.late = late]
          ELSE [@ EXCEPT !.pos = "open", !.attempt = @ + 1]]

\* OpenSession answers, and PrepareTransfer is called in time.
Open(p) ==
    /\ client[p].pos = "open"
    /\ OnSessionOpened(Attempt(p))
    /\ client' = [client EXCEPT ![p].pos = "preparing"]
    /\ prepare' = [prepare EXCEPT ![Request(p)].pos = "sent"]
    /\ UNCHANGED <<entry, mem, capacity, pool, commit, abort, wire, progress, crashed,
                   history, idle, faults>>

\* OpenSession fails, on the way there or on the way back: no abort is sent,
\* and a session that was registered stays registered.
OpenFails(p) ==
    /\ client[p].pos = "open"
    /\ Fault
    /\ OnSessionOpened(Attempt(p)) \/ UNCHANGED registry
    /\ NextAttempt(p, FALSE)
    /\ UNCHANGED <<entry, mem, capacity, pool, prepare, commit, abort, wire, progress,
                   crashed, history, idle>>

\* The deadline passes before PrepareTransfer is called.
OpenTooLate(p) ==
    /\ client[p].pos = "open"
    /\ Fault
    /\ OnSessionOpened(Attempt(p))
    /\ GiveUp(p, TRUE)
    /\ UNCHANGED <<entry, mem, capacity, pool, prepare, commit, wire, progress, crashed,
                   history, idle>>

-----------------------------------------------------------------------------
\* A reply to PrepareTransfer or to its copy.
Prepared(p) == {r \in Requests : AttemptOf(r) = Attempt(p) /\ prepare[r].pos = "done"}

\* UcxEndpointPool::Acquire: an idle endpoint, or a new one.
AcquireEndpoint(p, ep) ==
    IF idle # {} THEN ep \in idle /\ idle' = idle \ {ep}
                 ELSE ep = Attempt(p) /\ UNCHANGED idle

\* PutAndNotify: the write and, behind it, the AM.
Write(p) ==
    \E r \in Prepared(p), ep \in Attempts :
        /\ client[p].pos = "preparing"
        /\ prepare[r].slot # None
        /\ AcquireEndpoint(p, ep)
        /\ client' = [client EXCEPT ![p].pos = "writing", ![p].ep = ep]
        /\ wire' = [wire EXCEPT ![Attempt(p)].pos = "write",
                                ![Attempt(p)].slot = prepare[r].slot]
        /\ UNCHANGED <<data, prepare, commit, abort, progress, crashed, history, faults>>

\* PrepareTransfer is refused.
PrepareRefused(p) ==
    /\ client[p].pos = "preparing"
    /\ \E r \in Prepared(p) : prepare[r].slot = None
    /\ GiveUp(p, FALSE)
    /\ UNCHANGED <<data, prepare, commit, wire, progress, crashed, history, idle, faults>>

\* The call fails, or the endpoint cannot be connected.
PrepareLost(p) ==
    /\ client[p].pos = "preparing"
    /\ Fault
    /\ GiveUp(p, FALSE)
    /\ UNCHANGED <<data, prepare, commit, wire, progress, crashed, history, idle>>

-----------------------------------------------------------------------------
\* The future is ready: the write is complete on this side.
Commit(p) ==
    /\ client[p].pos = "writing"
    /\ client' = [client EXCEPT ![p].pos = "committing"]
    /\ commit' = [commit EXCEPT ![Request(p)].pos = "sent"]
    /\ UNCHANGED <<data, prepare, abort, wire, progress, crashed, history, idle, faults>>

\* The write ends with an error: no AM follows it.
WriteFails(p) ==
    /\ client[p].pos = "writing"
    /\ wire[Attempt(p)].pos \in {"write", "notify"}
    /\ Fault
    /\ wire' = [wire EXCEPT ![Attempt(p)] = [NoWire EXCEPT !.pos = "gone"]]
    /\ GiveUp(p, FALSE)
    /\ UNCHANGED <<data, prepare, commit, progress, crashed, history, idle>>

\* wait_until gives up: the write is still under way.
WriteTooLate(p) ==
    /\ client[p].pos = "writing"
    /\ Fault
    /\ GiveUp(p, TRUE)
    /\ UNCHANGED <<data, prepare, commit, wire, progress, crashed, history, idle>>

-----------------------------------------------------------------------------
Committed(p) == {r \in Requests : AttemptOf(r) = Attempt(p) /\ commit[r].pos = "done"}

\* Faulty: any reply to the commit is taken for success.
CommitOkAny(p) ==
    /\ client[p].pos = "committing"
    /\ Committed(p) # {}
    /\ client' = [client EXCEPT ![p].pos = "done", ![p].ep = None]
    /\ idle' = idle \cup {client[p].ep}
    /\ UNCHANGED gateway

\* release(true): the endpoint goes back to the pool.
CommitOk(p) ==
    /\ client[p].pos = "committing"
    /\ \E r \in Committed(p) : commit[r].ok
    /\ client' = [client EXCEPT ![p].pos = "done", ![p].ep = None]
    /\ idle' = idle \cup {client[p].ep}
    /\ UNCHANGED gateway

\* release(false) discards the endpoint, and the session is aborted.
CommitRefused(p) ==
    /\ client[p].pos = "committing"
    /\ \E r \in Committed(p) : ~commit[r].ok
    /\ GiveUp(p, FALSE)
    /\ UNCHANGED <<data, prepare, commit, wire, progress, crashed, history, idle, faults>>

\* CommitObject, or CommitPart for a part, fails on the way there or back.
CommitLost(p) ==
    /\ client[p].pos = "committing"
    /\ Fault
    /\ GiveUp(p, FALSE)
    /\ UNCHANGED <<data, prepare, commit, wire, progress, crashed, history, idle>>

-----------------------------------------------------------------------------
\* AbortSession has returned.  Its result is not looked at: the call may have
\* failed, and its handler may still run later.
Aborted(p) ==
    /\ client[p].pos = "aborting"
    /\ NextAttempt(p, client[p].late)
    /\ UNCHANGED <<gateway, idle>>

\* brpc sends a request again when the connection breaks (max_retry = 2).
Resend(p) ==
    LET r == <<p, client[p].attempt, 2>>
    IN  /\ Fault
        /\ \/ /\ client[p].pos = "preparing" /\ prepare[r].pos = "idle"
              /\ prepare' = [prepare EXCEPT ![r].pos = "sent"]
              /\ UNCHANGED commit
           \/ /\ client[p].pos = "committing" /\ commit[r].pos = "idle"
              /\ commit' = [commit EXCEPT ![r].pos = "sent"]
              /\ UNCHANGED prepare
        /\ UNCHANGED <<data, abort, wire, progress, crashed, history, client, idle>>

\* What is under way on a discarded endpoint may be lost.
Discarded(a) ==
    \/ client[a[1]].attempt > a[2]
    \/ client[a[1]].pos \in {"aborting", "failed"}

WireLost(a) ==
    /\ wire[a].pos \in {"write", "notify"}
    /\ Discarded(a)
    /\ wire' = [wire EXCEPT ![a] = [NoWire EXCEPT !.pos = "gone"]]
    /\ UNCHANGED <<data, prepare, commit, abort, progress, crashed, history, client,
                   idle, faults>>

-----------------------------------------------------------------------------
\* The steps of PutObject, and of PutObjectPart, which takes the same ones.
ClientStep(p) ==
    \/ Open(p) \/ OpenFails(p) \/ OpenTooLate(p)
    \/ Write(p) \/ PrepareRefused(p) \/ PrepareLost(p)
    \/ Commit(p) \/ WriteFails(p) \/ WriteTooLate(p)
    \/ CommitOk(p) \/ CommitRefused(p) \/ CommitLost(p)
    \/ Aborted(p)
    \/ Resend(p)

Next ==
    /\ ~crashed
    /\ \/ GatewayNext /\ UNCHANGED <<client, idle>>
       \/ \E p \in Puts : ClientStep(p)
       \/ \E a \in Attempts : WireLost(a)

Spec == Init /\ [][Next]_vars

\* The gateway's threads run, and the network delivers what is sent on an
\* endpoint that has not been discarded.  Requests may never arrive.
FairSpec ==
    /\ Spec
    /\ \A c \in Requests : WF_vars(CommitStep(c) /\ UNCHANGED <<client, idle>>)
    /\ \A a \in Attempts : WF_vars(WireStep(a) /\ UNCHANGED <<client, idle>>)
    /\ \A a \in Attempts : WF_vars(AbortStep(a) /\ UNCHANGED <<client, idle>>)

-----------------------------------------------------------------------------
\* The variables keep their types; in particular the pool never keeps more
\* idle slots than max_idle (UcxBufferPool::Return).
TypeOK ==
    /\ registry \in [Attempts -> Attempts \cup {None}]
    /\ entry \in [Attempts -> Entry]
    /\ mem \in [Slots -> Puts \cup {None}]
    /\ capacity \in [Slots -> Nat]
    /\ pool \in Seq(Slots) /\ Len(pool) <= MaxIdle
    /\ prepare \in [Requests -> PrepareCall]
    /\ commit \in [Requests -> CommitCall]
    /\ abort \in [Attempts -> AbortCall]
    /\ wire \in [Attempts -> Wire]
    /\ progress \in Attempts \cup Requests \cup {None}
    /\ crashed \in BOOLEAN
    /\ faults \in 0..MaxFaults
    /\ client \in [Puts -> Put]
    /\ idle \subseteq Attempts

\* A commit RPC is answered at most once: on_done runs either in the handler or
\* in the progress thread, never in both, whatever the order of the handler,
\* the AM, an abort and a second copy of the request.
AnsweredAtMostOnce == \A c \in Requests : commit[c].answers <= 1

\* No lost wake-up: a callback that is left in pending_commit belongs to a
\* commit that is waiting there, and OnAmWriteDone has not come by yet.  This
\* is what reading write_done again under commit_mu is for.
PendingAwaitsTheWrite ==
    \A e \in Attempts : \A c \in Requests :
        entry[e].pending = c =>
            /\ ~entry[e].write_done
            /\ commit[c].pos = "waiting"
            /\ commit[c].entry = e

\* What a commit hands to the backend is the body of its own put.  The two
\* exceptions are named: the AM of an earlier attempt under the same session id
\* arrives after the session was opened again, or a write the client had given
\* up lands in a slot that serves another session by then.
CommitsItsOwnBytes ==
    raced = {} => \A x \in stored : x.body = x.put \/ x.by \in early \cup stray

\* The entries that own the slot they name: not those a handler has just
\* returned it for.
Holding(s) ==
    {e \in Attempts :
        /\ entry[e].slot = s
        /\ \A c \in Requests : ~(commit[c].entry = e /\ commit[c].pos = "clear")
        /\ \A a \in Attempts : ~(abort[a].entry = e /\ abort[a].pos = "clear")}

Owners(s) ==
    {<<"pool", i>> : i \in {j \in 1..Len(pool) : pool[j] = s}}
    \cup {<<"prepare", r>> : r \in {q \in Requests :
              prepare[q].pos = "assign" /\ prepare[q].slot = s}}
    \cup {<<"entry", e>> : e \in Holding(s)}

\* A registered buffer is in exactly one place: idle in the pool, in the hands
\* of PrepareTransfer, or in one entry.  Holds as long as no two handlers work
\* on one entry at once: nothing in the code keeps a commit and an abort apart.
OneOwnerPerSlot ==
    raced = {} => \A s \in Slots :
        Cardinality(Owners(s)) = IF capacity[s] = 0 THEN 0 ELSE 1

\* The slot of an entry holds the whole transfer (the client writes that many
\* bytes at its address), and a commit finds the slot it reads from.
SlotIsUsable ==
    raced = {} =>
        /\ ~crashed
        /\ \A s \in Slots : \A e \in Holding(s) : capacity[s] >= Bytes[e[1]]

\* When a put is reported as done its write has landed and its notification is
\* used up, so the endpoint that release(true) hands back is quiet; unless the
\* commit was let through by the AM of an earlier attempt.
DoneIsDelivered ==
    \A p \in Puts : client[p].pos = "done" =>
        wire[Attempt(p)].pos = "gone" \/ Attempt(p) \in early

-----------------------------------------------------------------------------
\* "pending_commit is handled by the caller (RdmaDataPlaneService) with a
\* timeout timer ... commit_data_timeout=5s" (ucx_executor.cpp:457): a commit the
\* gateway has taken up is answered sooner or later.
EveryCommitIsAnswered ==
    \A c \in Requests : commit[c].pos = "waiting" ~> commit[c].pos = "done"
=============================================================================
