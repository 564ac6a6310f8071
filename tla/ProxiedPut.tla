----------------------------- MODULE ProxiedPut -----------------------------
(***************************************************************************)
(* A GDS PUT with the control plane and the data plane in two processes:   *)
(* GdsTransferPath::PutObject opens a session at the proxy, has the        *)
(* backend pull the bytes with GdsPut, and the backend tells the proxy     *)
(* with ReportGdsPut before it answers: its comments call the notification *)
(* asynchronous, but the stub is called with no closure, and GdsPut waits  *)
(* for the answer or kNotifyTimeoutMs.  The backend asks nobody whether    *)
(* the session exists.  The proxy keeps its sessions in a map;             *)
(* CompleteUpload looks one up by ticket.                                  *)
(*                                                                         *)
(* A session id is <<p, n>>, made at random by attempt n of put p; its     *)
(* ticket is a function of it.  An etag, the CRC of the bytes, is p.       *)
(* Requests may be late, lost and, resent by brpc, doubled: copy k of an   *)
(* RPC is <<op, id, k>>.                                                   *)
(***************************************************************************)
EXTENDS Naturals, FiniteSets

CONSTANTS
    Puts,
    Expected,       \* expected_size in the OpenSession of every put
    Size,           \* buffer.size
    MaxChunk,       \* kMaxChunkBytes of the sink
    Tries,          \* RetryPolicy::max_attempts
    MaxFaults,      \* bound: lost, late and doubled messages, failures, restarts
    None

Ids == Puts \X (1..Tries)

Session == [status : {"pending", "completed"}, etag : Puts \cup {None}]

ASSUME ProxyAssumption ==
    /\ Expected \in [Puts -> Nat] /\ Size \in [Puts -> Nat \ {0}]
    /\ {MaxChunk, Tries, MaxFaults} \subseteq Nat /\ Tries > 0
    /\ None \notin Puts \cup Session

VARIABLES
    channel,        \* where gds_data_std() leads: "backend" or "proxy"
    backend,        \* its process: "up", "stopping" or "down"
    notify,         \* the backend has a stub for the proxy
    client,         \* PutObject: position, and attempt
    sessions,       \* SessionManager::sessions_: None or status and etag
    net,            \* requests on their way
    handler,        \* GdsPut in the backend, by id and copy: its position
    query,          \* CompleteUpload in the proxy, for the ticket of a put
    faults,
    opened,         \* history: the ids the proxy has made a session of
    received,       \* history: the ids whose bytes the backend has pulled
    raced           \* history: ids written while a query held their pointer

history == <<opened, received, raced>>
deployment == <<channel, backend, notify>>
vars == <<deployment, client, sessions, net, handler, query, faults, history>>

Fault == faults < MaxFaults /\ faults' = faults + 1

\* BackendDataPlaneService's constructor: no proxy configured, or a channel that
\* cannot be set up, leaves the service without a stub, and it goes on.
ProxyStub == BOOLEAN

\* ChannelRegistry's constructor: when the second channel cannot be set up the
\* first is kept, the later Initialize finds the registry ready, and
\* gds_data_std() falls back to the control plane.
Init ==
    /\ channel \in {"backend", "proxy"} /\ backend = "up" /\ notify \in ProxyStub
    /\ client = [p \in Puts |-> [pos |-> "idle", n |-> 0]]
    /\ sessions = [i \in Ids |-> None]
    /\ net = {}
    /\ handler = [h \in Ids \X {1, 2} |-> "none"]
    /\ query = [p \in Puts |-> [pos |-> "none", etag |-> None]]
    /\ faults = 0
    /\ opened = {} /\ received = {} /\ raced = {}

-----------------------------------------------------------------------------
(* The client: PutObject under RetryIfRetryable.                           *)

Id(p) == <<p, client[p].n>>

Waits(p, pos) == client[p].pos = pos

Goes(p, pos) == client' = [client EXCEPT ![p].pos = pos]

\* An attempt, unless the deadline has passed; then every further one fails
\* the same way.
Attempt(p) ==
    /\ client[p].pos \in {"idle", "again"}
    /\ \/ /\ client' = [client EXCEPT ![p] = [pos |-> "opening", n |-> @.n + 1]]
          /\ net' = net \cup {<<"open", <<p, client[p].n + 1>>, 1>>}
          /\ UNCHANGED faults
       \/ Fault /\ Goes(p, "failed") /\ UNCHANGED net
    /\ UNCHANGED <<deployment, sessions, handler, query, history>>

\* The attempt failed; every failure of an RPC is retryable.
AfterFailure(p) == IF client[p].n < Tries THEN "again" ELSE "failed"

\* The RPC times out while its request, or its answer, is on the way.
Timeout(p) ==
    /\ client[p].pos \in {"opening", "putting"}
    /\ Fault
    /\ Goes(p, IF Waits(p, "opening") THEN AfterFailure(p) ELSE "abort")
    /\ UNCHANGED <<deployment, sessions, net, handler, query, history>>

\* brpc sends the request once more on a new connection.
Resend(p) ==
    /\ client[p].pos \in {"opening", "putting"}
    /\ LET m == <<IF Waits(p, "opening") THEN "open" ELSE "put", Id(p), 2>>
       IN  m \notin net /\ handler[<<Id(p), 2>>] = "none" /\ net' = net \cup {m}
    /\ Fault
    /\ UNCHANGED <<deployment, client, sessions, handler, query, history>>

\* ExecutePut: the token, and the GdsPut on the data channel.
ExecutePut(p) ==
    /\ Waits(p, "opened")
    /\ \/ /\ Goes(p, "putting")
          /\ net' = net \cup {<<"put", Id(p), 1>>}
          /\ UNCHANGED faults
       \/ Fault /\ Goes(p, "abort") /\ UNCHANGED net
    /\ UNCHANGED <<deployment, sessions, handler, query, history>>

\* AbortSession, which the proxy does not implement: the session stays.
AbortSession(p) ==
    /\ Waits(p, "abort")
    /\ Goes(p, AfterFailure(p))
    /\ UNCHANGED <<deployment, sessions, net, handler, query, faults, history>>

\* The answer of a request reaches the client if it still waits for it.
Answer(p, id, pos, next) ==
    client' = IF Waits(p, pos) /\ Id(p) = id THEN [client EXCEPT ![p].pos = next] ELSE client

-----------------------------------------------------------------------------
(* The proxy.                                                              *)

\* The query, if any, that holds the pointer to the session.
Races(id) == IF query[id[1]].pos = "read" /\ Id(id[1]) = id THEN raced \cup {id} ELSE raced

\* CreateSession writes the entry whether or not there is one.
CreateSession(id) ==
    /\ sessions' = [sessions EXCEPT ![id] = [status |-> "pending", etag |-> None]]
    /\ opened' = opened \cup {id}
    /\ raced' = Races(id)

\* CompleteSession: false when there is no such session.
CompleteSession(id) ==
    IF sessions[id] = None
    THEN UNCHANGED <<sessions, raced>>
    ELSE /\ sessions' = [sessions EXCEPT ![id] = [status |-> "completed", etag |-> id[1]]]
         /\ raced' = Races(id)

\* Faulty: the client does not look at the status of the answer.
OpenSessionUnchecked(m) ==
    LET id == m[2] p == id[1]
    IN  /\ m \in net /\ m[1] = "open"
        /\ net' = net \ {m}
        /\ IF Expected[p] = 0
           THEN /\ Answer(p, id, "opening", "opened")
                /\ UNCHANGED <<sessions, opened, raced>>
           ELSE /\ CreateSession(id)
                /\ Answer(p, id, "opening", "opened")
        /\ UNCHANGED <<deployment, handler, query, faults, received>>

\* OpenSession refuses an expected size of 0.
OpenSession(m) ==
    LET id == m[2] p == id[1]
    IN  /\ m \in net /\ m[1] = "open"
        /\ net' = net \ {m}
        /\ IF Expected[p] = 0
           THEN /\ Answer(p, id, "opening", AfterFailure(p))
                /\ UNCHANGED <<sessions, opened, raced>>
           ELSE /\ CreateSession(id)
                /\ Answer(p, id, "opening", "opened")
        /\ UNCHANGED <<deployment, handler, query, faults, received>>

\* ReportGdsPut.  The backend waits for the answer, or has
\* given up by now.
ReportGdsPut(m) ==
    LET id == m[2] h == <<id, m[3]>>
    IN  /\ m \in net /\ m[1] = "report"
        /\ net' = net \ {m}
        /\ CompleteSession(id)
        /\ handler' = [handler EXCEPT ![h] = IF @ = "reporting" THEN "answer" ELSE @]
        /\ UNCHANGED <<deployment, client, query, faults, opened, received>>

\* Faulty: any session with the ticket will do.
CompleteUploadAny(p) ==
    /\ Waits(p, "ok") /\ query[p].pos \in {"none", "notfound"}
    /\ query' = [query EXCEPT ![p].pos = IF sessions[Id(p)] # None THEN "read" ELSE "notfound"]
    /\ UNCHANGED <<deployment, client, sessions, net, handler, faults, history>>

\* CompleteUpload: GetCompletedSession finds the entry under the lock ...
CompleteUpload(p) ==
    /\ Waits(p, "ok") /\ query[p].pos \in {"none", "notfound"}
    /\ query' = [query EXCEPT ![p].pos =
          IF sessions[Id(p)] # None /\ sessions[Id(p)].status = "completed"
          THEN "read" ELSE "notfound"]
    /\ UNCHANGED <<deployment, client, sessions, net, handler, faults, history>>

\* ... and the etag is read without it: anything, if the entry was written.
ReadEtag(p) ==
    /\ query[p].pos = "read"
    /\ \E e \in IF Id(p) \in raced THEN Puts \cup {None} ELSE {sessions[Id(p)].etag} :
          query' = [query EXCEPT ![p] = [pos |-> "answered", etag |-> e]]
    /\ UNCHANGED <<deployment, client, sessions, net, handler, faults, history>>

\* The process is killed and main runs again; the map was only in memory.
Restart ==
    /\ Fault
    /\ query' = [p \in Puts |-> IF query[p].pos = "read" THEN [query[p] EXCEPT !.pos = "notfound"]
                               ELSE query[p]]
    /\ sessions' = [i \in Ids |-> None]
    /\ UNCHANGED <<deployment, client, net, handler, history>>

\* GdsPut at the proxy: not implemented.
Misdirected(m) ==
    /\ m \in net /\ m[1] = "put" /\ channel = "proxy"
    /\ net' = net \ {m}
    /\ Answer(m[2][1], m[2], "putting", "abort")
    /\ UNCHANGED <<deployment, sessions, handler, query, faults, history>>

-----------------------------------------------------------------------------
(* The backend: GdsPut.                                                    *)

\* The request is accepted; ReceiveAndDiscard is under way.
GdsPut(m) ==
    LET h == <<m[2], m[3]>>
    IN  /\ m \in net /\ m[1] = "put" /\ channel = "backend" /\ backend = "up"
        /\ net' = net \ {m}
        /\ handler' = [handler EXCEPT ![h] = "receive"]
        /\ UNCHANGED <<deployment, client, sessions, query, faults, history>>

\* No server listens.
Refused(m) ==
    /\ m \in net /\ m[1] = "put" /\ channel = "backend" /\ backend # "up"
    /\ net' = net \ {m}
    /\ Answer(m[2][1], m[2], "putting", "abort")
    /\ UNCHANGED <<deployment, sessions, handler, query, faults, history>>

\* Faulty: the outcome of ReceiveAndDiscard is not looked at.
ReceiveFailsUnchecked(h) ==
    /\ handler[h] = "receive"
    /\ IF Size[h[1][1]] > MaxChunk THEN UNCHANGED faults ELSE Fault
    /\ handler' = [handler EXCEPT ![h] = IF notify THEN "reporting" ELSE "answer"]
    /\ net' = IF notify THEN net \cup {<<"report", h[1], h[2]>>} ELSE net
    /\ UNCHANGED <<deployment, client, sessions, query, history>>

\* The sink is not available, has no buffer or channel, or the pull fails; a
\* chunk over the limit is refused.
ReceiveFails(h) ==
    /\ handler[h] = "receive"
    /\ IF Size[h[1][1]] > MaxChunk THEN UNCHANGED faults ELSE Fault
    /\ handler' = [handler EXCEPT ![h] = "done"]
    /\ Answer(h[1][1], h[1], "putting", "abort")
    /\ UNCHANGED <<deployment, sessions, net, query, history>>

\* The bytes are pulled and discarded, the etag is their CRC, and the proxy is
\* told, if there is a stub for it.
Receive(h) ==
    /\ handler[h] = "receive" /\ Size[h[1][1]] <= MaxChunk
    /\ received' = received \cup {h[1]}
    /\ handler' = [handler EXCEPT ![h] = IF notify THEN "reporting" ELSE "answer"]
    /\ net' = IF notify THEN net \cup {<<"report", h[1], h[2]>>} ELSE net
    /\ UNCHANGED <<deployment, client, sessions, query, faults, opened, raced>>

\* The report is lost, or late: a warning, no more.
ReportFails(h) ==
    /\ handler[h] = "reporting"
    /\ Fault
    /\ handler' = [handler EXCEPT ![h] = "answer"]
    /\ net' \in {net, net \ {<<"report", h[1], h[2]>>}}
    /\ UNCHANGED <<deployment, client, sessions, query, history>>

GdsPutDone(h) ==
    /\ handler[h] = "answer"
    /\ handler' = [handler EXCEPT ![h] = "done"]
    /\ Answer(h[1][1], h[1], "putting", "ok")
    /\ UNCHANGED <<deployment, sessions, net, query, faults, history>>

\* The backend's main.  A signal: the server takes no more requests, ...
BackendStop ==
    /\ backend = "up"
    /\ Fault
    /\ backend' = "stopping"
    /\ UNCHANGED <<channel, notify, client, sessions, net, handler, query, history>>

\* ... Join waits for those it has, and the sink and the process end.
SinkStop ==
    /\ backend = "stopping"
    /\ \A h \in DOMAIN handler : handler[h] \in {"none", "done"}
    /\ backend' = "down"
    /\ UNCHANGED <<channel, notify, client, sessions, net, handler, query, faults, history>>

\* The process is killed, with the requests it was serving.
BackendKilled ==
    /\ backend # "down"
    /\ Fault
    /\ backend' = "down"
    /\ handler' = [h \in DOMAIN handler |-> IF handler[h] = "none" THEN "none" ELSE "done"]
    /\ UNCHANGED <<channel, notify, client, sessions, net, query, history>>

\* main runs again: the sink comes first, or the process ends.
SinkStart ==
    /\ backend = "down"
    /\ backend' = "up"
    /\ notify' \in ProxyStub
    /\ UNCHANGED <<channel, client, sessions, net, handler, query, faults, history>>

-----------------------------------------------------------------------------

ClientStep(p) == Attempt(p) \/ Timeout(p) \/ Resend(p) \/ ExecutePut(p) \/ AbortSession(p)

ProxyStep ==
    \/ \E m \in net : OpenSession(m) \/ ReportGdsPut(m) \/ Misdirected(m)
    \/ \E p \in Puts : CompleteUpload(p) \/ ReadEtag(p)
    \/ Restart

BackendStep ==
    \/ \E m \in net : GdsPut(m) \/ Refused(m)
    \/ \E h \in DOMAIN handler : ReceiveFails(h) \/ Receive(h) \/ ReportFails(h) \/ GdsPutDone(h)
    \/ BackendStop \/ SinkStop \/ BackendKilled \/ SinkStart

Next == (\E p \in Puts : ClientStep(p)) \/ ProxyStep \/ BackendStep

Spec == Init /\ [][Next]_vars

-----------------------------------------------------------------------------

\* A put that PutObject acknowledged was pulled by the backend in the session
\* of the very attempt that was acknowledged: no late answer of an
\* attempt that was given up, no answer of a misdirected, refused, oversized or
\* failed GdsPut, and nothing that becomes of the report, is taken for it.
AckedIsReceived ==
    \A p \in Puts : client[p].pos = "ok" => Id(p) \in received

\* The backend pulls bytes only in a session that the proxy opened.  GdsPut asks
\* nobody about the session: it is the client that does not get so far when
\* OpenSession refuses it, as it does a put whose expected_size is 0.
ReceivedWasOpened ==
    received \subseteq opened

\* What CompleteUpload answers is the etag of bytes the backend has pulled in
\* that session, unless the entry was written between GetCompletedSession,
\* which lets go of the lock, and the read of its etag.
CompleteIsReceived ==
    \A p \in Puts : query[p].pos = "answered" =>
        \/ query[p].etag = p /\ Id(p) \in received
        \/ Id(p) \in raced
=============================================================================
