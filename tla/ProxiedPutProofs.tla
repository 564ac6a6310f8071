-------------------------- MODULE ProxiedPutProofs --------------------------
(***************************************************************************)
(* Proofs about ProxiedPut: for any number of puts, attempts and faults,   *)
(* an acknowledged put was received in its own session, what was received  *)
(* was opened, and what CompleteUpload answers was received.               *)
(***************************************************************************)
EXTENDS ProxiedPut, TLAPS

-----------------------------------------------------------------------------
(* Types, and what the position of an attempt says of its number.          *)

Handlers == Ids \X {1, 2}

Requests == {"open", "put", "report"} \X Ids \X {1, 2}

Tried == {"opening", "opened", "putting", "abort", "ok"}

ClientState == [pos : Tried \cup {"idle", "again", "failed"}, n : 0..Tries]

TriedOK(c) ==
    /\ c.pos \in Tried => c.n \in 1..Tries
    /\ c.pos \in {"idle", "again"} => c.n < Tries

PTypeOK ==
    /\ client \in [Puts -> ClientState]
    /\ \A p \in Puts : TriedOK(client[p])
    /\ sessions \in [Ids -> Session \cup {None}]
    /\ net \subseteq Requests
    /\ handler \in [Handlers -> {"none", "receive", "reporting", "answer", "done"}]
    /\ query \in [Puts -> [pos : {"none", "notfound", "read", "answered"},
                           etag : Puts \cup {None}]]

-----------------------------------------------------------------------------
(* The strengthening.                                                      *)

Completed(i) == sessions[i] # None /\ sessions[i].status = "completed"

\* A report, and a completed session, are of bytes that were received.
CompletedWasReceived ==
    /\ \A m \in net : m[1] = "report" => m[2] \in received
    /\ \A i \in Ids : Completed(i) => sessions[i].etag = i[1] /\ i \in received

\* A handler past the pull, and a client that was answered, are of bytes that
\* were received.
AnswerIsReceived ==
    /\ \A h \in Handlers : handler[h] \in {"reporting", "answer"} => h[1] \in received
    /\ \A p \in Puts : client[p].pos = "ok" => Id(p) \in received

\* Whoever is on the way to a pull has passed OpenSession.
PutIsOpened ==
    /\ \A p \in Puts : client[p].pos \in {"opened", "putting"} => Id(p) \in opened
    /\ \A m \in net : m[1] = "put" => m[2] \in opened
    /\ \A h \in Handlers : handler[h] = "receive" => h[1] \in opened
    /\ received \subseteq opened

\* A query is of an acknowledged put, and the pointer it holds is to a completed
\* session until the entry is written again.
QueryIsOfCompleted ==
    /\ \A p \in Puts : query[p].pos # "none" => client[p].pos = "ok"
    /\ \A p \in Puts : query[p].pos = "read" => Completed(Id(p)) \/ Id(p) \in raced

PInv ==
    /\ PTypeOK
    /\ CompletedWasReceived
    /\ AnswerIsReceived
    /\ PutIsOpened
    /\ QueryIsOfCompleted
    /\ CompleteIsReceived
-----------------------------------------------------------------------------
(* Requests and handlers taken apart.                                      *)

LEMMA RequestParts ==
    ASSUME NEW m \in Requests
    PROVE  /\ m[2] \in Ids /\ m[2][1] \in Puts
           /\ <<m[2], m[3]>> \in Handlers
           /\ <<m[2], m[3]>>[1] = m[2]
BY DEF Requests, Handlers, Ids

LEMMA HandlerParts ==
    ASSUME NEW h \in Handlers
    PROVE  /\ h[1] \in Ids /\ h[1][1] \in Puts
           /\ <<"report", h[1], h[2]>> \in Requests
BY DEF Requests, Handlers, Ids

LEMMA IdOK ==
    ASSUME PTypeOK, NEW p \in Puts, client[p].pos \in Tried
    PROVE  Id(p) \in Ids /\ Id(p)[1] = p
BY DEF PTypeOK, TriedOK, Id, Ids

\* The positions a client may be sent to.
LEMMA AfterFailureOK ==
    ASSUME PTypeOK, NEW p \in Puts, client[p].pos \in Tried
    PROVE  /\ AfterFailure(p) \in {"again", "failed"}
           /\ AfterFailure(p) = "again" => client[p].n < Tries
BY DEF AfterFailure

LEMMA GoesOK ==
    ASSUME PTypeOK, NEW p \in Puts, client[p].pos \in Tried,
           NEW pos \in Tried \cup {"again", "failed"},
           pos = "again" => client[p].n < Tries,
           client' = [client EXCEPT ![p].pos = pos]
    PROVE  client' \in [Puts -> ClientState] /\ \A q \in Puts : TriedOK(client'[q])
<1>1. client[p] \in ClientState /\ TriedOK(client[p])
  BY DEF PTypeOK
<1> DEFINE c == [client[p] EXCEPT !.pos = pos]
<1>2. c \in ClientState /\ c.pos = pos /\ c.n = client[p].n
  BY <1>1 DEF ClientState
<1>3. TriedOK(c)
  BY <1>1, <1>2 DEF TriedOK, Tried
<1>4. client' = [client EXCEPT ![p] = c]
  OBVIOUS
<1> HIDE DEF c
<1> QED
  BY <1>2, <1>3, <1>4 DEF PTypeOK

LEMMA AnswerOK ==
    ASSUME PTypeOK, NEW p \in Puts, NEW id, NEW pos \in Tried,
           NEW next \in Tried \cup {"again", "failed"},
           next = "again" => client[p].n < Tries,
           Answer(p, id, pos, next)
    PROVE  client' \in [Puts -> ClientState] /\ \A q \in Puts : TriedOK(client'[q])
<1>1. CASE Waits(p, pos) /\ Id(p) = id
  <2>1. client[p].pos \in Tried /\ client' = [client EXCEPT ![p].pos = next]
    BY <1>1 DEF Waits, Answer
  <2> QED
    BY <2>1, GoesOK
<1>2. CASE ~(Waits(p, pos) /\ Id(p) = id)
  BY <1>2 DEF Answer, PTypeOK
<1> QED
  BY <1>1, <1>2
-----------------------------------------------------------------------------
(* The client's part of the types, one step per action.                    *)

LEMMA StepClient ==
    ASSUME PTypeOK, Next
    PROVE  client' \in [Puts -> ClientState] /\ \A q \in Puts : TriedOK(client'[q])
<1> DEFINE Good == client' \in [Puts -> ClientState] /\ \A q \in Puts : TriedOK(client'[q])
<1>u. UNCHANGED client => Good
  BY DEF PTypeOK
<1> SUFFICES Good
  OBVIOUS
<1> HIDE DEF Good
<1>1. ASSUME NEW p \in Puts, ClientStep(p) PROVE Good
  <2>0. client[p] \in ClientState /\ TriedOK(client[p])
    BY DEF PTypeOK
  <2>1. CASE Attempt(p)
    <3> DEFINE c == [pos |-> "opening", n |-> client[p].n + 1]
    <3>1. CASE client' = [client EXCEPT ![p] = [pos |-> "opening", n |-> @.n + 1]]
      <4>1. client' = [client EXCEPT ![p] = c]
        BY <3>1
      <4>2. c \in ClientState /\ TriedOK(c)
        BY <2>0, <2>1, ProxyAssumption DEF Attempt, ClientState, TriedOK, Tried
      <4> HIDE DEF c
      <4> QED
        BY <4>1, <4>2 DEF PTypeOK, Good
    <3>2. CASE Goes(p, "failed")
      <4> DEFINE d == [client[p] EXCEPT !.pos = "failed"]
      <4>1. client' = [client EXCEPT ![p] = d]
        BY <3>2 DEF Goes
      <4>2. d \in ClientState /\ TriedOK(d)
        BY <2>0 DEF ClientState, TriedOK, Tried
      <4> HIDE DEF d
      <4> QED
        BY <4>1, <4>2 DEF PTypeOK, Good
    <3> QED
      BY <2>1, <3>1, <3>2 DEF Attempt
  <2>2. CASE Timeout(p)
    <3>1. client[p].pos \in Tried
      BY <2>2 DEF Timeout, Tried
    <3>2. CASE Waits(p, "opening")
      BY <2>2, <3>1, <3>2, GoesOK, AfterFailureOK DEF Timeout, Goes, Good
    <3>3. CASE ~Waits(p, "opening")
      BY <2>2, <3>1, <3>3, GoesOK DEF Timeout, Goes, Tried, Good
    <3> QED
      BY <3>2, <3>3
  <2>3. CASE Resend(p)
    BY <2>3, <1>u DEF Resend
  <2>4. CASE ExecutePut(p)
    BY <2>4, GoesOK DEF ExecutePut, Waits, Goes, Tried, Good
  <2>5. CASE AbortSession(p)
    BY <2>5, GoesOK, AfterFailureOK DEF AbortSession, Waits, Goes, Tried, Good
  <2> QED
    BY <1>1, <2>1, <2>2, <2>3, <2>4, <2>5 DEF ClientStep
<1>2. ASSUME NEW m \in net, OpenSession(m) PROVE Good
  <2>1. m[2] \in Ids /\ m[2][1] \in Puts
    BY RequestParts DEF PTypeOK
  <2> DEFINE p == m[2][1]
  <2>2. CASE Answer(p, m[2], "opening", "opened")
    BY <2>1, <2>2, AnswerOK DEF Tried, Good
  <2>3. CASE Answer(p, m[2], "opening", AfterFailure(p))
    <3>1. CASE Waits(p, "opening")
      <4>1. client[p].pos \in Tried
        BY <3>1 DEF Waits, Tried
      <4>2. /\ AfterFailure(p) \in Tried \cup {"again", "failed"}
            /\ AfterFailure(p) = "again" => client[p].n < Tries
        BY <2>1, <4>1, AfterFailureOK
      <4> QED
        BY <2>1, <2>3, <4>2, AnswerOK DEF Tried, Good
    <3>2. CASE ~Waits(p, "opening")
      BY <2>3, <3>2, <1>u DEF Answer
    <3> QED
      BY <3>1, <3>2
  <2> QED
    BY <1>2, <2>2, <2>3 DEF OpenSession
<1>3. ASSUME NEW m \in net, Misdirected(m) \/ Refused(m) PROVE Good
  <2>1. m[2][1] \in Puts
    BY RequestParts DEF PTypeOK
  <2>2. Answer(m[2][1], m[2], "putting", "abort")
    BY <1>3 DEF Misdirected, Refused
  <2> QED
    BY <2>1, <2>2, AnswerOK DEF Tried, Good
<1>4. ASSUME NEW h \in Handlers, ReceiveFails(h) \/ GdsPutDone(h) PROVE Good
  <2>1. h[1][1] \in Puts
    BY HandlerParts
  <2>2. CASE ReceiveFails(h)
    BY <2>1, <2>2, AnswerOK DEF ReceiveFails, Tried, Good
  <2>3. CASE GdsPutDone(h)
    BY <2>1, <2>3, AnswerOK DEF GdsPutDone, Tried, Good
  <2> QED
    BY <1>4, <2>2, <2>3
<1>5. ASSUME NEW m \in net, ReportGdsPut(m) \/ GdsPut(m) PROVE Good
  BY <1>5, <1>u DEF ReportGdsPut, GdsPut
<1>6. ASSUME NEW h, Receive(h) \/ ReportFails(h) PROVE Good
  BY <1>6, <1>u DEF Receive, ReportFails
<1>7. ASSUME NEW p, CompleteUpload(p) \/ ReadEtag(p) PROVE Good
  BY <1>7, <1>u DEF CompleteUpload, ReadEtag
<1>8. CASE Restart \/ BackendStop \/ SinkStop \/ BackendKilled \/ SinkStart
  BY <1>8, <1>u DEF Restart, BackendStop, SinkStop, BackendKilled, SinkStart
<1>9. DOMAIN handler = Handlers
  BY DEF PTypeOK
<1> QED
  BY <1>1, <1>2, <1>3, <1>4, <1>5, <1>6, <1>7, <1>8, <1>9 DEF Next, ProxyStep, BackendStep
-----------------------------------------------------------------------------
(* The other types.                                                        *)

\* The entries the proxy writes.
LEMMA WrittenOK ==
    ASSUME NEW id \in Ids
    PROVE  /\ [status |-> "pending", etag |-> None] \in Session
           /\ [status |-> "completed", etag |-> id[1]] \in Session
BY DEF Session, Ids

LEMMA StepSessions ==
    ASSUME PTypeOK, Next
    PROVE  sessions' \in [Ids -> Session \cup {None}]
<1>u. UNCHANGED sessions => sessions' \in [Ids -> Session \cup {None}]
  BY DEF PTypeOK
<1>1. ASSUME NEW p \in Puts, ClientStep(p) PROVE UNCHANGED sessions
  BY <1>1 DEF ClientStep, Attempt, Timeout, Resend, ExecutePut, AbortSession
<1>2. ASSUME NEW m \in net, OpenSession(m) PROVE sessions' \in [Ids -> Session \cup {None}]
  <2>1. m[2] \in Ids
    BY RequestParts DEF PTypeOK
  <2> QED
    BY <1>2, <1>u, <2>1, WrittenOK DEF OpenSession, CreateSession, PTypeOK
<1>3. ASSUME NEW m \in net, ReportGdsPut(m) PROVE sessions' \in [Ids -> Session \cup {None}]
  <2>1. m[2] \in Ids
    BY RequestParts DEF PTypeOK
  <2> QED
    BY <1>3, <1>u, <2>1, WrittenOK DEF ReportGdsPut, CompleteSession, PTypeOK
<1>4. CASE Restart
  BY <1>4 DEF Restart
<1>5. ASSUME NEW m, Misdirected(m) \/ GdsPut(m) \/ Refused(m) PROVE UNCHANGED sessions
  BY <1>5 DEF Misdirected, GdsPut, Refused
<1>6. ASSUME NEW h, ReceiveFails(h) \/ Receive(h) \/ ReportFails(h) \/ GdsPutDone(h)
      PROVE  UNCHANGED sessions
  BY <1>6 DEF ReceiveFails, Receive, ReportFails, GdsPutDone
<1>7. ASSUME NEW p, CompleteUpload(p) \/ ReadEtag(p) PROVE UNCHANGED sessions
  BY <1>7 DEF CompleteUpload, ReadEtag
<1>8. CASE BackendStop \/ SinkStop \/ BackendKilled \/ SinkStart
  BY <1>8, <1>u DEF BackendStop, SinkStop, BackendKilled, SinkStart
<1> QED
  BY <1>u, <1>1, <1>2, <1>3, <1>4, <1>5, <1>6, <1>7, <1>8 DEF Next, ProxyStep, BackendStep

\* Requests are made of ids and copies, and only taken away otherwise.
LEMMA StepNet ==
    ASSUME PTypeOK, Next
    PROVE  net' \subseteq Requests
<1>0. net \subseteq Requests
  BY DEF PTypeOK
<1>1. ASSUME NEW p \in Puts, ClientStep(p) PROVE net' \subseteq Requests
  <2>1. CASE Attempt(p)
    <3>1. client[p] \in ClientState /\ TriedOK(client[p])
      BY DEF PTypeOK
    <3>2. <<p, client[p].n + 1>> \in Ids
      BY <2>1, <3>1, ProxyAssumption DEF Attempt, ClientState, TriedOK, Ids
    <3> QED
      BY <1>0, <2>1, <3>2 DEF Attempt, Requests
  <2>2. CASE Timeout(p) \/ AbortSession(p)
    BY <1>0, <2>2 DEF Timeout, AbortSession
  <2>3. CASE Resend(p)
    <3>1. Id(p) \in Ids
      BY <2>3, IdOK DEF Resend, Tried
    <3>2. net' = net \cup {<<IF Waits(p, "opening") THEN "open" ELSE "put", Id(p), 2>>}
      BY <2>3 DEF Resend
    <3> QED
      BY <1>0, <3>1, <3>2 DEF Requests
  <2>4. CASE ExecutePut(p)
    <3>1. Id(p) \in Ids
      BY <2>4, IdOK DEF ExecutePut, Waits, Tried
    <3> QED
      BY <1>0, <2>4, <3>1 DEF ExecutePut, Requests
  <2> QED
    BY <1>1, <2>1, <2>2, <2>3, <2>4 DEF ClientStep
<1>2. ASSUME NEW m \in net,
             OpenSession(m) \/ ReportGdsPut(m) \/ Misdirected(m) \/ GdsPut(m) \/ Refused(m)
      PROVE  net' \subseteq Requests
  BY <1>0, <1>2 DEF OpenSession, ReportGdsPut, Misdirected, GdsPut, Refused
<1>3. ASSUME NEW h \in Handlers,
             ReceiveFails(h) \/ Receive(h) \/ ReportFails(h) \/ GdsPutDone(h)
      PROVE  net' \subseteq Requests
  BY <1>0, <1>3, HandlerParts DEF ReceiveFails, Receive, ReportFails, GdsPutDone
<1>4. ASSUME NEW p, CompleteUpload(p) \/ ReadEtag(p) PROVE net' \subseteq Requests
  BY <1>0, <1>4 DEF CompleteUpload, ReadEtag
<1>5. CASE Restart \/ BackendStop \/ SinkStop \/ BackendKilled \/ SinkStart
  BY <1>0, <1>5 DEF Restart, BackendStop, SinkStop, BackendKilled, SinkStart
<1>6. DOMAIN handler = Handlers
  BY DEF PTypeOK
<1> QED
  BY <1>1, <1>2, <1>3, <1>4, <1>5, <1>6 DEF Next, ProxyStep, BackendStep
LEMMA StepHandler ==
    ASSUME PTypeOK, Next
    PROVE  handler' \in [Handlers -> {"none", "receive", "reporting", "answer", "done"}]
<1> DEFINE HT == [Handlers -> {"none", "receive", "reporting", "answer", "done"}]
<1>0. handler \in HT
  BY DEF PTypeOK
<1>1. ASSUME NEW p \in Puts, ClientStep(p) PROVE UNCHANGED handler
  BY <1>1 DEF ClientStep, Attempt, Timeout, Resend, ExecutePut, AbortSession
<1>2. ASSUME NEW m \in net, ReportGdsPut(m) \/ GdsPut(m) PROVE handler' \in HT
  <2>1. <<m[2], m[3]>> \in Handlers
    BY RequestParts DEF PTypeOK
  <2>2. CASE ReportGdsPut(m)
    BY <1>0, <2>1, <2>2 DEF ReportGdsPut
  <2>3. CASE GdsPut(m)
    BY <1>0, <2>1, <2>3 DEF GdsPut
  <2> QED
    BY <1>2, <2>2, <2>3
<1>3. ASSUME NEW h \in Handlers,
             ReceiveFails(h) \/ Receive(h) \/ ReportFails(h) \/ GdsPutDone(h)
      PROVE  handler' \in HT
  BY <1>0, <1>3 DEF ReceiveFails, Receive, ReportFails, GdsPutDone
<1>4. ASSUME NEW m, OpenSession(m) \/ Misdirected(m) \/ Refused(m) PROVE UNCHANGED handler
  BY <1>4 DEF OpenSession, Misdirected, Refused
<1>5. ASSUME NEW p, CompleteUpload(p) \/ ReadEtag(p) PROVE UNCHANGED handler
  BY <1>5 DEF CompleteUpload, ReadEtag
<1>6. CASE Restart \/ BackendStop \/ SinkStop \/ SinkStart
  BY <1>0, <1>6 DEF Restart, BackendStop, SinkStop, SinkStart
<1>7. CASE BackendKilled
  BY <1>0, <1>7 DEF BackendKilled
<1>8. DOMAIN handler = Handlers
  BY <1>0
<1> QED
  BY <1>0, <1>1, <1>2, <1>3, <1>4, <1>5, <1>6, <1>7, <1>8 DEF Next, ProxyStep, BackendStep

\* Steps of the clients and the backend leave the queries alone.
LEMMA StepQuery ==
    ASSUME PTypeOK, QueryIsOfCompleted, Next
    PROVE  query' \in [Puts -> [pos : {"none", "notfound", "read", "answered"},
                                etag : Puts \cup {None}]]
<1> DEFINE QT == [pos : {"none", "notfound", "read", "answered"}, etag : Puts \cup {None}]
<1>0. query \in [Puts -> QT]
  BY DEF PTypeOK
<1>1. ASSUME NEW p \in Puts, ClientStep(p) PROVE UNCHANGED query
  BY <1>1 DEF ClientStep, Attempt, Timeout, Resend, ExecutePut, AbortSession
<1>2. ASSUME NEW p \in Puts, CompleteUpload(p) PROVE query' \in [Puts -> QT]
  BY <1>0, <1>2 DEF CompleteUpload
<1>3. ASSUME NEW p \in Puts, ReadEtag(p) PROVE query' \in [Puts -> QT]
  <2>1. query[p].pos = "read" /\ client[p].pos = "ok"
    BY <1>3 DEF ReadEtag, QueryIsOfCompleted
  <2>2. Id(p) \in Ids
    BY <2>1, IdOK DEF Tried
  <2>3. PICK e \in IF Id(p) \in raced THEN Puts \cup {None} ELSE {sessions[Id(p)].etag} :
           query' = [query EXCEPT ![p] = [pos |-> "answered", etag |-> e]]
    BY <1>3 DEF ReadEtag
  <2>4. e \in Puts \cup {None}
    <3>1. CASE Id(p) \in raced
      BY <2>3, <3>1
    <3>2. CASE Id(p) \notin raced
      <4>1. sessions[Id(p)] \in Session
        BY <2>1, <2>2, <3>2 DEF QueryIsOfCompleted, Completed, PTypeOK
      <4> QED
        BY <2>3, <3>2, <4>1 DEF Session
    <3> QED
      BY <3>1, <3>2
  <2> QED
    BY <1>0, <2>3, <2>4
<1>4. CASE Restart
  <2>1. ASSUME NEW p \in Puts
        PROVE  (IF query[p].pos = "read" THEN [query[p] EXCEPT !.pos = "notfound"]
                ELSE query[p]) \in QT
    BY <1>0
  <2> QED
    BY <1>4, <2>1 DEF Restart
<1>5. ASSUME NEW m, \/ OpenSession(m) \/ ReportGdsPut(m) \/ Misdirected(m)
                    \/ GdsPut(m) \/ Refused(m)
      PROVE  UNCHANGED query
  BY <1>5 DEF OpenSession, ReportGdsPut, Misdirected, GdsPut, Refused
<1>6. ASSUME NEW h, ReceiveFails(h) \/ Receive(h) \/ ReportFails(h) \/ GdsPutDone(h)
      PROVE  UNCHANGED query
  BY <1>6 DEF ReceiveFails, Receive, ReportFails, GdsPutDone
<1>7. CASE BackendStop \/ SinkStop \/ BackendKilled \/ SinkStart
  BY <1>0, <1>7 DEF BackendStop, SinkStop, BackendKilled, SinkStart
<1> QED
  BY <1>0, <1>1, <1>2, <1>3, <1>4, <1>5, <1>6, <1>7 DEF Next, ProxyStep, BackendStep

LEMMA StepTypes ==
    ASSUME PTypeOK, QueryIsOfCompleted, Next
    PROVE  PTypeOK'
BY StepClient, StepSessions, StepNet, StepHandler, StepQuery DEF PTypeOK

-----------------------------------------------------------------------------
(* What has been opened, received and raced stays so.                      *)

LEMMA HistoryGrows ==
    ASSUME Next
    PROVE  opened \subseteq opened' /\ received \subseteq received' /\ raced \subseteq raced'
<1> DEFINE Grows ==
        opened \subseteq opened' /\ received \subseteq received' /\ raced \subseteq raced'
<1>1. ASSUME NEW h, Receive(h) PROVE Grows
  BY <1>1 DEF Receive
<1>2. ASSUME NEW m, OpenSession(m) \/ ReportGdsPut(m) PROVE Grows
  BY <1>2 DEF OpenSession, CreateSession, ReportGdsPut, CompleteSession, Races
<1> QED
  BY <1>1, <1>2 DEF Next, ClientStep, ProxyStep, BackendStep, history, Attempt, Timeout, Resend,
     ExecutePut, AbortSession, Misdirected, CompleteUpload, ReadEtag, Restart, GdsPut, Refused,
     ReceiveFails, ReportFails, GdsPutDone, BackendStop, SinkStop, BackendKilled, SinkStart

-----------------------------------------------------------------------------
(* What a step does to the sessions: an entry that is written is written   *)
(* by CreateSession or CompleteSession, or all are gone with the process.  *)

LEMMA StepReceived ==
    ASSUME PTypeOK, CompletedWasReceived, Next
    PROVE  CompletedWasReceived'
<1>0. received \subseteq received'
  BY HistoryGrows
<1>1. ASSUME NEW m \in net', m[1] = "report" PROVE m[2] \in received'
  <2>1. CASE m \in net
    BY <1>0, <1>1, <2>1 DEF CompletedWasReceived
  <2>2. CASE m \notin net
    <3>1. PICK h \in Handlers : Receive(h)
      <4>1. DOMAIN handler = Handlers
        BY DEF PTypeOK
      <4>2. ASSUME NEW p, ClientStep(p) PROVE FALSE
        BY <1>1, <2>2, <4>2
           DEF ClientStep, Attempt, Timeout, Resend, ExecutePut, AbortSession
      <4>3. ~ProxyStep
        BY <2>2 DEF ProxyStep, OpenSession, ReportGdsPut, Misdirected, CompleteUpload,
             ReadEtag, Restart
      <4> QED
        BY <2>2, <4>1, <4>2, <4>3 DEF Next, BackendStep, GdsPut, Refused, ReceiveFails,
             ReportFails, GdsPutDone, BackendStop, SinkStop, BackendKilled, SinkStart
    <3>2. m = <<"report", h[1], h[2]>> /\ received' = received \cup {h[1]}
      BY <2>2, <3>1 DEF Receive
    <3> QED
      BY <3>2
  <2> QED
    BY <2>1, <2>2
<1>2. ASSUME NEW i \in Ids, Completed(i)' PROVE sessions'[i].etag = i[1] /\ i \in received'
  <2>1. CASE sessions'[i] = sessions[i]
    BY <1>0, <1>2, <2>1 DEF CompletedWasReceived, Completed
  <2>2. CASE sessions'[i] # sessions[i]
    <3>1. ASSUME NEW m \in net, OpenSession(m) PROVE FALSE
      <4>1. m[2] \in Ids
        BY RequestParts DEF PTypeOK
      <4> QED
        BY <1>2, <2>2, <3>1, <4>1 DEF OpenSession, CreateSession, Completed, PTypeOK
    <3>2. ~Restart
      BY <1>2 DEF Restart, Completed
    <3>3. PICK m \in net : ReportGdsPut(m)
      BY <2>2, <3>1, <3>2 DEF Next, ClientStep, ProxyStep, BackendStep, Attempt, Timeout, Resend,
         ExecutePut, AbortSession, Misdirected, CompleteUpload, ReadEtag, GdsPut, Refused,
         ReceiveFails, Receive, ReportFails, GdsPutDone, BackendStop, SinkStop, BackendKilled,
         SinkStart
    <3>4. m[2] \in Ids /\ m[1] = "report"
      BY <3>3, RequestParts DEF PTypeOK, ReportGdsPut
    <3>5. i = m[2] /\ sessions'[i] = [status |-> "completed", etag |-> i[1]]
      BY <2>2, <3>3, <3>4 DEF ReportGdsPut, CompleteSession, PTypeOK
    <3> QED
      BY <1>0, <3>3, <3>4, <3>5 DEF CompletedWasReceived
  <2> QED
    BY <2>1, <2>2
<1> QED
  BY <1>1, <1>2 DEF CompletedWasReceived
-----------------------------------------------------------------------------
(* What a client knows when it is answered.                                *)

\* PutObject returned: neither a late answer nor a timeout moves it.
LEMMA OkStays ==
    ASSUME PTypeOK, Next, NEW p \in Puts, client[p].pos = "ok"
    PROVE  client'[p] = client[p] /\ Id(p)' = Id(p)
<1>1. client'[p] = client[p]
  <2>0. client \in [Puts -> ClientState]
    BY DEF PTypeOK
  <2>1. ASSUME NEW q \in Puts, ClientStep(q) PROVE client'[p] = client[p]
    BY <2>0, <2>1 DEF ClientStep, Attempt, Timeout, Resend, ExecutePut, AbortSession, Waits, Goes
  <2>2. ASSUME NEW q, NEW id, NEW pos \in {"opening", "putting"}, NEW next,
               Answer(q, id, pos, next)
        PROVE  client'[p] = client[p]
    BY <2>0, <2>2 DEF Answer, Waits
  <2> QED
    BY <2>1, <2>2 DEF Next, ProxyStep, BackendStep, OpenSession, ReportGdsPut, Misdirected,
       CompleteUpload, ReadEtag, Restart, GdsPut, Refused, ReceiveFails, Receive, ReportFails,
       GdsPutDone, BackendStop, SinkStop, BackendKilled, SinkStart
<1> QED
  BY <1>1 DEF Id

\* ... and only GdsPutDone takes a client there.
LEMMA OkComesFromAnswer ==
    ASSUME PTypeOK, Next, NEW p \in Puts, client[p].pos # "ok", client'[p].pos = "ok"
    PROVE  \E h \in Handlers : handler[h] = "answer" /\ Id(p)' = h[1] /\ UNCHANGED received
<1>0. client \in [Puts -> ClientState] /\ DOMAIN handler = Handlers
  BY DEF PTypeOK
<1>1. ASSUME NEW q \in Puts, ClientStep(q) PROVE FALSE
  <2>1. ASSUME NEW pos, pos # "ok", Goes(q, pos) PROVE FALSE
    BY <1>0, <2>1 DEF Goes, ClientState
  <2>2. AfterFailure(q) # "ok"
    BY DEF AfterFailure
  <2>3. CASE Attempt(q)
    <3>1. ~Goes(q, "failed")
      BY <2>1
    <3> QED
      BY <1>0, <2>3, <3>1 DEF Attempt
  <2>4. CASE Timeout(q) \/ Resend(q) \/ ExecutePut(q) \/ AbortSession(q)
    BY <2>1, <2>2, <2>4 DEF Timeout, Resend, ExecutePut, AbortSession
  <2> QED
    BY <1>1, <2>3, <2>4 DEF ClientStep
<1>2. ASSUME NEW q \in Puts, NEW id, NEW pos, NEW next, next # "ok", Answer(q, id, pos, next)
      PROVE  FALSE
  BY <1>0, <1>2 DEF Answer
<1>3. ASSUME NEW m \in net, OpenSession(m) \/ Misdirected(m) \/ Refused(m) PROVE FALSE
  <2>1. m[2][1] \in Puts /\ AfterFailure(m[2][1]) # "ok"
    BY RequestParts DEF PTypeOK, AfterFailure
  <2> QED
    BY <1>2, <1>3, <2>1 DEF OpenSession, Misdirected, Refused
<1>4. ASSUME NEW h \in Handlers, ReceiveFails(h) PROVE FALSE
  BY <1>2, <1>4, HandlerParts DEF ReceiveFails
<1>5. PICK h \in Handlers : GdsPutDone(h)
  BY <1>0, <1>1, <1>3, <1>4 DEF Next, ProxyStep, BackendStep, ReportGdsPut, CompleteUpload,
     ReadEtag, Restart, GdsPut, Receive, ReportFails, BackendStop, SinkStop, BackendKilled,
     SinkStart
<1>6. p = h[1][1] /\ Id(p) = h[1] /\ client' = [client EXCEPT ![p].pos = "ok"]
  BY <1>0, <1>5, HandlerParts DEF GdsPutDone, Answer
<1>7. Id(p)' = h[1]
  BY <1>0, <1>6 DEF Id, ClientState
<1> QED
  BY <1>5, <1>7 DEF GdsPutDone, history

\* Steps other than these leave the proxy's entries alone.
LEMMA SessionsKept ==
    ASSUME Next,
           \A m \in net : ~OpenSession(m) /\ ~ReportGdsPut(m),
           ~Restart
    PROVE  UNCHANGED sessions
BY DEF Next, ClientStep, ProxyStep, BackendStep, Attempt, Timeout, Resend, ExecutePut,
   AbortSession, Misdirected, CompleteUpload, ReadEtag, GdsPut, Refused, ReceiveFails, Receive,
   ReportFails, GdsPutDone, BackendStop, SinkStop, BackendKilled, SinkStart

\* A handler comes to its positions one by one.
LEMMA HandlerMoves ==
    ASSUME PTypeOK, Next, NEW h \in Handlers, handler'[h] # handler[h]
    PROVE  \/ handler'[h] = "receive" /\ \E m \in net : m[1] = "put" /\ h[1] = m[2]
           \/ handler[h] = "receive" /\ handler'[h] \in {"reporting", "answer"}
                /\ h[1] \in received'
           \/ handler[h] = "reporting" /\ handler'[h] = "answer"
           \/ handler'[h] = "done"
<1>0. handler \in [Handlers -> {"none", "receive", "reporting", "answer", "done"}]
  BY DEF PTypeOK
<1>1. ASSUME NEW m \in net, ReportGdsPut(m)
      PROVE  handler[h] = "reporting" /\ handler'[h] = "answer"
  <2>1. <<m[2], m[3]>> \in Handlers
    BY RequestParts DEF PTypeOK
  <2> QED
    BY <1>0, <1>1, <2>1 DEF ReportGdsPut
<1>2. ASSUME NEW m \in net, GdsPut(m)
      PROVE  handler'[h] = "receive" /\ m[1] = "put" /\ h[1] = m[2]
  <2>1. <<m[2], m[3]>> \in Handlers /\ <<m[2], m[3]>>[1] = m[2]
    BY RequestParts DEF PTypeOK
  <2>2. h = <<m[2], m[3]>>
    BY <1>0, <1>2, <2>1 DEF GdsPut
  <2> QED
    BY <1>0, <1>2, <2>1, <2>2 DEF GdsPut
<1>3. ASSUME NEW g \in Handlers, ReceiveFails(g) \/ GdsPutDone(g) PROVE handler'[h] = "done"
  BY <1>0, <1>3 DEF ReceiveFails, GdsPutDone
<1>4. ASSUME NEW g \in Handlers, Receive(g)
      PROVE  /\ handler[h] = "receive" /\ handler'[h] \in {"reporting", "answer"}
             /\ h[1] \in received'
  BY <1>0, <1>4 DEF Receive
<1>5. ASSUME NEW g \in Handlers, ReportFails(g)
      PROVE  handler[h] = "reporting" /\ handler'[h] = "answer"
  BY <1>0, <1>5 DEF ReportFails
<1>6. CASE BackendKilled
  BY <1>0, <1>6 DEF BackendKilled
<1>7. DOMAIN handler = Handlers
  BY <1>0
<1> QED
  BY <1>1, <1>2, <1>3, <1>4, <1>5, <1>6, <1>7 DEF Next, ClientStep, ProxyStep, BackendStep,
     Attempt, Timeout, Resend, ExecutePut, AbortSession, OpenSession, Misdirected,
     CompleteUpload, ReadEtag, Restart, Refused, BackendStop, SinkStop, SinkStart

LEMMA StepAnswers ==
    ASSUME PTypeOK, AnswerIsReceived, Next
    PROVE  AnswerIsReceived'
<1>0. received \subseteq received'
  BY HistoryGrows
<1>1. ASSUME NEW h \in Handlers, handler'[h] \in {"reporting", "answer"} PROVE h[1] \in received'
  BY <1>0, <1>1, HandlerMoves DEF AnswerIsReceived
<1>2. ASSUME NEW p \in Puts, client'[p].pos = "ok" PROVE Id(p)' \in received'
  <2>1. CASE client[p].pos = "ok"
    BY <1>0, <2>1, OkStays DEF AnswerIsReceived
  <2>2. CASE client[p].pos # "ok"
    BY <1>2, <2>2, OkComesFromAnswer DEF AnswerIsReceived
  <2> QED
    BY <2>1, <2>2
<1> QED
  BY <1>1, <1>2 DEF AnswerIsReceived

-----------------------------------------------------------------------------
(* What is open when bytes are pulled.                                     *)

\* A client comes to "opened" by the answer to its own OpenSession, and goes
\* from there to "putting" in the same attempt.
LEMMA OpenedComesFirst ==
    ASSUME PTypeOK, Next, NEW p \in Puts, client'[p].pos \in {"opened", "putting"}
    PROVE  \/ client[p].pos \in {"opened", "putting"} /\ Id(p)' = Id(p)
           \/ Id(p)' \in opened'
<1>0. client \in [Puts -> ClientState] /\ DOMAIN handler = Handlers
  BY DEF PTypeOK
<1> DEFINE Kept == client[p].pos \in {"opened", "putting"} /\ Id(p)' = Id(p)
<1>u. client'[p] = client[p] => Kept
  BY DEF Id
<1>1. ASSUME NEW q \in Puts, ClientStep(q) PROVE Kept
  <2>1. CASE q # p
    <3>1. client'[p] = client[p]
      BY <1>0, <1>1, <2>1
         DEF ClientStep, Attempt, Timeout, Resend, ExecutePut, AbortSession, Goes
    <3> QED
      BY <3>1, <1>u
  <2>2. CASE q = p
    <3>1. ASSUME NEW pos, pos \notin {"opened", "putting"}, Goes(p, pos) PROVE FALSE
      BY <1>0, <3>1 DEF Goes, ClientState
    <3>2. AfterFailure(p) \notin {"opened", "putting"}
      BY DEF AfterFailure
    <3>3. CASE Attempt(p)
      <4>1. ~Goes(p, "failed")
        BY <3>1
      <4> QED
        BY <1>0, <3>3, <4>1 DEF Attempt
    <3>4. CASE Timeout(p) \/ AbortSession(p)
      BY <3>1, <3>2, <3>4 DEF Timeout, AbortSession
    <3>5. CASE Resend(p)
      BY <3>5, <1>u DEF Resend
    <3>6. CASE ExecutePut(p)
      <4>1. ~Goes(p, "abort")
        BY <3>1
      <4> QED
        BY <1>0, <3>6, <4>1 DEF ExecutePut, Waits, Goes, Id, ClientState
    <3> QED
      BY <1>1, <2>2, <3>3, <3>4, <3>5, <3>6 DEF ClientStep
  <2> QED
    BY <2>1, <2>2
<1>2. ASSUME NEW q \in Puts, NEW id, NEW pos, NEW next, next \notin {"opened", "putting"},
             Answer(q, id, pos, next)
      PROVE  Kept
  <2>1. client'[p] = client[p]
    BY <1>0, <1>2 DEF Answer, ClientState
  <2> QED
    BY <2>1, <1>u
<1>3. ASSUME NEW m \in net, OpenSession(m) PROVE Kept \/ Id(p)' \in opened'
  <2> DEFINE q == m[2][1]
  <2>1. q \in Puts /\ AfterFailure(q) \notin {"opened", "putting"}
    BY RequestParts DEF PTypeOK, AfterFailure
  <2>2. CASE Answer(q, m[2], "opening", AfterFailure(q))
    BY <1>2, <2>1, <2>2
  <2>3. CASE CreateSession(m[2]) /\ Answer(q, m[2], "opening", "opened")
    <3>1. CASE client'[p] = client[p]
      BY <3>1, <1>u
    <3>2. CASE client'[p] # client[p]
      <4>1. p = q /\ Id(p) = m[2] /\ client' = [client EXCEPT ![p].pos = "opened"]
        BY <1>0, <2>3, <3>2 DEF Answer
      <4>2. Id(p)' = m[2]
        BY <1>0, <4>1 DEF Id, ClientState
      <4> QED
        BY <2>3, <4>2 DEF CreateSession
    <3> QED
      BY <3>1, <3>2
  <2> QED
    BY <1>3, <2>2, <2>3 DEF OpenSession
<1>4. ASSUME NEW m \in net, Misdirected(m) \/ Refused(m) PROVE Kept
  <2>1. m[2][1] \in Puts
    BY RequestParts DEF PTypeOK
  <2> QED
    BY <1>2, <1>4, <2>1 DEF Misdirected, Refused
<1>5. ASSUME NEW h \in Handlers, ReceiveFails(h) \/ GdsPutDone(h) PROVE Kept
  <2>1. h[1][1] \in Puts
    BY HandlerParts
  <2>2. \E next \in {"abort", "ok"} : Answer(h[1][1], h[1], "putting", next)
    BY <1>5 DEF ReceiveFails, GdsPutDone
  <2> QED
    BY <1>2, <2>1, <2>2
<1> HIDE DEF Kept
<1> QED
  BY <1>0, <1>u, <1>1, <1>3, <1>4, <1>5 DEF Kept, Next, ProxyStep, BackendStep, ReportGdsPut,
     CompleteUpload, ReadEtag, Restart, GdsPut, Receive, ReportFails, BackendStop, SinkStop,
     BackendKilled, SinkStart

\* Requests to the backend come from clients that wait for one.
LEMMA PutComesFromOpened ==
    ASSUME PTypeOK, Next, NEW m \in net', m \notin net, m[1] = "put"
    PROVE  \E p \in Puts : client[p].pos \in {"opened", "putting"} /\ m[2] = Id(p)
<1>1. ASSUME NEW h, Receive(h) PROVE FALSE
  BY <1>1 DEF Receive
<1>2. PICK p \in Puts : ClientStep(p)
  BY <1>1 DEF Next, ProxyStep, BackendStep, OpenSession, ReportGdsPut, Misdirected,
     CompleteUpload, ReadEtag, Restart, GdsPut, Refused, ReceiveFails, ReportFails, GdsPutDone,
     BackendStop, SinkStop, BackendKilled, SinkStart
<1>3. ~Attempt(p) /\ ~Timeout(p) /\ ~AbortSession(p)
  BY DEF Attempt, Timeout, AbortSession
<1>4. CASE Resend(p)
  <2>1. ~Waits(p, "opening") /\ client[p].pos = "putting"
    BY <1>4 DEF Resend, Waits
  <2>2. m[2] = Id(p)
    BY <1>4, <2>1 DEF Resend
  <2> QED
    BY <2>1, <2>2
<1>5. CASE ExecutePut(p)
  BY <1>5 DEF ExecutePut, Waits
<1> QED
  BY <1>2, <1>3, <1>4, <1>5 DEF ClientStep

\* Only Receive adds to what was received.
LEMMA ReceivedComesFromHandler ==
    ASSUME PTypeOK, Next, NEW i \in received', i \notin received
    PROVE  \E h \in Handlers : handler[h] = "receive" /\ i = h[1]
<1>1. PICK h \in Handlers : Receive(h)
  <2>1. DOMAIN handler = Handlers
    BY DEF PTypeOK
  <2>2. ASSUME NEW m, OpenSession(m) \/ ReportGdsPut(m) PROVE FALSE
    BY <2>2 DEF OpenSession, ReportGdsPut
  <2> QED
    BY <2>1, <2>2 DEF Next, ClientStep, ProxyStep, BackendStep, history, Attempt, Timeout,
       Resend, ExecutePut, AbortSession, Misdirected, CompleteUpload, ReadEtag, Restart, GdsPut,
       Refused, ReceiveFails, ReportFails, GdsPutDone, BackendStop, SinkStop, BackendKilled,
       SinkStart
<1> QED
  BY <1>1 DEF Receive

LEMMA StepOpened ==
    ASSUME PTypeOK, PutIsOpened, Next
    PROVE  PutIsOpened'
<1>0. opened \subseteq opened'
  BY HistoryGrows
<1>1. ASSUME NEW p \in Puts, client'[p].pos \in {"opened", "putting"} PROVE Id(p)' \in opened'
  BY <1>0, <1>1, OpenedComesFirst DEF PutIsOpened
<1>2. ASSUME NEW m \in net', m[1] = "put" PROVE m[2] \in opened'
  BY <1>0, <1>2, PutComesFromOpened DEF PutIsOpened
<1>3. ASSUME NEW h \in Handlers, handler'[h] = "receive" PROVE h[1] \in opened'
  BY <1>0, <1>3, HandlerMoves DEF PutIsOpened
<1>4. received' \subseteq opened'
  BY <1>0, ReceivedComesFromHandler DEF PutIsOpened
<1> QED
  BY <1>1, <1>2, <1>3, <1>4 DEF PutIsOpened
-----------------------------------------------------------------------------
(* Queries.                                                                *)

\* Only the query's own steps and a restart change it.
LEMMA QueryMoves ==
    ASSUME PTypeOK, Next, NEW p \in Puts, query'[p] # query[p]
    PROVE  CompleteUpload(p) \/ ReadEtag(p) \/ Restart
<1>0. query \in [Puts -> [pos : {"none", "notfound", "read", "answered"},
                          etag : Puts \cup {None}]]
  BY DEF PTypeOK
<1>1. ASSUME NEW q \in Puts, q # p, CompleteUpload(q) \/ ReadEtag(q) PROVE FALSE
  BY <1>0, <1>1 DEF CompleteUpload, ReadEtag
<1> QED
  BY <1>1 DEF Next, ClientStep, ProxyStep, BackendStep, Attempt, Timeout, Resend,
     ExecutePut, AbortSession, OpenSession, ReportGdsPut, Misdirected, GdsPut, Refused,
     ReceiveFails, Receive, ReportFails, GdsPutDone, BackendStop, SinkStop, BackendKilled,
     SinkStart

LEMMA StepQueries ==
    ASSUME PTypeOK, QueryIsOfCompleted, Next
    PROVE  QueryIsOfCompleted'
<1>0. query \in [Puts -> [pos : {"none", "notfound", "read", "answered"},
                          etag : Puts \cup {None}]]
  BY DEF PTypeOK
<1>1. ASSUME NEW p \in Puts, query'[p].pos # "none" PROVE client'[p].pos = "ok"
  <2>1. client[p].pos = "ok"
    <3>1. CASE query[p].pos # "none"
      BY <3>1 DEF QueryIsOfCompleted
    <3>2. CASE query[p].pos = "none"
      <4>1. ~Restart
        BY <1>1, <3>2 DEF Restart
      <4> QED
        BY <1>1, <3>2, <4>1, QueryMoves DEF CompleteUpload, ReadEtag, Waits
    <3> QED
      BY <3>1, <3>2
  <2> QED
    BY <2>1, OkStays
<1>2. ASSUME NEW p \in Puts, query'[p].pos = "read" PROVE (Completed(Id(p)) \/ Id(p) \in raced)'
  <2>0. ~Restart
    BY <1>0, <1>2 DEF Restart
  <2>1. ~ReadEtag(p)
    BY <1>0, <1>2 DEF ReadEtag
  <2>2. CASE CompleteUpload(p)
    BY <1>0, <1>2, <2>2 DEF CompleteUpload, Completed, Id, history
  <2>3. CASE ~CompleteUpload(p)
    <3>1. query[p].pos = "read" /\ client[p].pos = "ok"
      BY <1>2, <2>0, <2>1, <2>3, QueryMoves DEF QueryIsOfCompleted
    <3>2. Id(p) \in Ids /\ Id(p)[1] = p /\ Id(p)' = Id(p)
      BY <3>1, IdOK, OkStays DEF Tried
    <3>3. Completed(Id(p)) \/ Id(p) \in raced
      BY <3>1 DEF QueryIsOfCompleted
    <3>4. ASSUME NEW id \in Ids, Races(id) = raced', id = Id(p) PROVE Id(p) \in raced'
      BY <3>1, <3>2, <3>4 DEF Races
    <3>5. ASSUME NEW m \in net, OpenSession(m) PROVE sessions'[Id(p)] = sessions[Id(p)] \/ Id(p) \in raced'
      <4>1. m[2] \in Ids
        BY RequestParts DEF PTypeOK
      <4> QED
        BY <3>2, <3>4, <3>5, <4>1 DEF OpenSession, CreateSession, PTypeOK
    <3>6. ASSUME NEW m \in net, ReportGdsPut(m) PROVE sessions'[Id(p)] = sessions[Id(p)] \/ Id(p) \in raced'
      <4>1. m[2] \in Ids
        BY RequestParts DEF PTypeOK
      <4> QED
        BY <3>2, <3>4, <3>6, <4>1 DEF ReportGdsPut, CompleteSession, PTypeOK
    <3>7. sessions'[Id(p)] = sessions[Id(p)] \/ Id(p) \in raced'
      BY <2>0, <3>5, <3>6, SessionsKept
    <3>8. raced \subseteq raced'
      BY HistoryGrows
    <3> QED
      BY <3>2, <3>3, <3>7, <3>8 DEF Completed
  <2> QED
    BY <2>2, <2>3
<1> QED
  BY <1>1, <1>2 DEF QueryIsOfCompleted

LEMMA StepAnswered ==
    ASSUME PTypeOK, CompletedWasReceived, QueryIsOfCompleted, CompleteIsReceived, Next
    PROVE  CompleteIsReceived'
<1>0. query \in [Puts -> [pos : {"none", "notfound", "read", "answered"},
                          etag : Puts \cup {None}]]
  BY DEF PTypeOK
<1> SUFFICES ASSUME NEW p \in Puts, query'[p].pos = "answered"
             PROVE  ((query[p].etag = p /\ Id(p) \in received) \/ Id(p) \in raced)'
  BY DEF CompleteIsReceived
<1>1. CASE query'[p] = query[p]
  <2>1. client[p].pos = "ok" /\ Id(p)' = Id(p)
    BY <1>1, OkStays DEF QueryIsOfCompleted
  <2>2. (query[p].etag = p /\ Id(p) \in received) \/ Id(p) \in raced
    BY <1>1 DEF CompleteIsReceived
  <2> QED
    BY <1>1, <2>1, <2>2, HistoryGrows
<1>2. CASE query'[p] # query[p]
  <2>1. ReadEtag(p)
    <3>1. ~CompleteUpload(p)
      BY <1>0 DEF CompleteUpload
    <3>2. ~Restart
      BY <1>0, <1>2 DEF Restart
    <3> QED
      BY <1>2, <3>1, <3>2, QueryMoves
  <2>2. client[p].pos = "ok" /\ Id(p)' = Id(p) /\ query[p].pos = "read"
    BY <2>1, OkStays DEF ReadEtag, QueryIsOfCompleted
  <2>3. Id(p) \in Ids /\ Id(p)[1] = p
    BY <2>2, IdOK DEF Tried
  <2>4. CASE Id(p) \in raced
    BY <2>2, <2>4, HistoryGrows
  <2>5. CASE Id(p) \notin raced
    <3>1. Completed(Id(p))
      BY <2>2, <2>5 DEF QueryIsOfCompleted
    <3>2. sessions[Id(p)].etag = p /\ Id(p) \in received
      BY <2>3, <3>1 DEF CompletedWasReceived
    <3>3. query'[p].etag = sessions[Id(p)].etag
      BY <1>0, <2>1, <2>5 DEF ReadEtag
    <3> QED
      BY <2>2, <3>2, <3>3, HistoryGrows
  <2> QED
    BY <2>4, <2>5
<1> QED
  BY <1>1, <1>2

-----------------------------------------------------------------------------
(* The theorems.                                                           *)

LEMMA InitPInv ==
    Init => PInv
<1> SUFFICES ASSUME Init PROVE PInv
  OBVIOUS
<1>1. PTypeOK
  <2>1. [pos |-> "idle", n |-> 0] \in ClientState /\ TriedOK([pos |-> "idle", n |-> 0])
    BY ProxyAssumption DEF ClientState, TriedOK, Tried
  <2> QED
    BY <2>1 DEF Init, PTypeOK, Handlers
<1>2. /\ CompletedWasReceived /\ AnswerIsReceived /\ PutIsOpened
      /\ QueryIsOfCompleted /\ CompleteIsReceived
  BY DEF Init, CompletedWasReceived, AnswerIsReceived, PutIsOpened, QueryIsOfCompleted, CompleteIsReceived,
     Completed, Handlers
<1> QED
  BY <1>1, <1>2 DEF PInv

LEMMA StutterPInv ==
    PInv /\ UNCHANGED vars => PInv'
BY DEF PInv, vars, deployment, history, PTypeOK, CompletedWasReceived, AnswerIsReceived,
   PutIsOpened, QueryIsOfCompleted, CompleteIsReceived, Completed, Id

(***************************************************************************)
(* PInv is an invariant of the client, the proxy and the backend together, *)
(* for any puts, sizes, number of attempts and number of faults.           *)
(***************************************************************************)
THEOREM PInvHolds == Spec => []PInv
<1>1. PInv /\ Next => PInv'
  BY StepTypes, StepReceived, StepAnswers, StepOpened, StepQueries, StepAnswered DEF PInv
<1> QED
  BY <1>1, InitPInv, StutterPInv, PTL DEF Spec

(***************************************************************************)
(* An acknowledged PUT was pulled by the backend in the session of the     *)
(* attempt that was acknowledged, whatever became of the attempts before   *)
(* it, of doubled requests and of the report to the proxy.                 *)
(***************************************************************************)
THEOREM AcknowledgedPutWasReceived == Spec => []AckedIsReceived
<1>1. PInv => AckedIsReceived
  BY DEF PInv, AnswerIsReceived, AckedIsReceived
<1> QED
  BY <1>1, PInvHolds, PTL

(***************************************************************************)
(* Bytes are pulled only in sessions the proxy opened, although the        *)
(* backend does not ask it: whatever is late or doubled, and whichever     *)
(* process restarts, a GdsPut is sent only after OpenSession granted it.   *)
(***************************************************************************)
THEOREM OnlyOpenedIsReceived == Spec => []ReceivedWasOpened
<1>1. PInv => ReceivedWasOpened
  BY DEF PInv, PutIsOpened, ReceivedWasOpened
<1> QED
  BY <1>1, PInvHolds, PTL

(***************************************************************************)
(* CompleteUpload answers with the etag of bytes that were received, or    *)
(* the entry was written while it held the pointer without the lock.       *)
(***************************************************************************)
THEOREM CompletedUploadWasReceived == Spec => []CompleteIsReceived
BY PInvHolds, PTL DEF PInv
=============================================================================
