------------------------------- MODULE Sessions -------------------------------
(***************************************************************************)
(* Transfer sessions of the gateway: SessionStore (core/session), the      *)
(* SessionOpener and SessionAppService that use it, the control plane RPCs *)
(* OpenSession, GdsGet, GdsPut and AbortSession as far as they touch a     *)
(* session, and the sweep of SessionSweeper.                               *)
(*                                                                         *)
(* The store keeps three indexes, spread over 64 shards by the hash of     *)
(* each key, so the three entries of one session are written and erased in *)
(* separate critical sections.  Every id, ticket and idempotency key is in *)
(* a shard of its own here: keys that share one only lose interleavings.   *)
(*                                                                         *)
(* A session is named by its ticket, which Create draws at random and      *)
(* never draws twice.  Its id comes from the request: the client draws one *)
(* per handshake, and its RPC layer may resend the request                 *)
(* (max_retry in ChannelRegistry::Initialize), so two requests             *)
(* may carry one id.  Target stands for bucket, object and operation, kept *)
(* for the sessions with a key: only Create reads it.                      *)
(* Claim, MarkActive and MarkCompleted have no caller and are left out,    *)
(* and with them the states kClaimed and kCompleted.                       *)
(***************************************************************************)
EXTENDS Naturals, FiniteSets

CONSTANTS
    NCalls,     \* RPCs the gateway serves at a time
    MaxSessions, \* bounds the number of sessions created
    MaxCalls,   \* bounds the number of RPCs sent
    Ids,        \* session ids the clients draw
    Keys,       \* idempotency keys
    Targets,    \* bucket, object and operation of a request
    None

ASSUME BoundAssumption == NCalls \in Nat /\ MaxSessions \in Nat /\ MaxCalls \in Nat

State == {"opened", "active", "failed", "expired"}
Ended == {"failed", "expired"}

Session == [id : Ids, key : Keys \cup {None}, target : Targets \cup {None},
            state : State, due : BOOLEAN]

ASSUME NoneAssumption == None \notin Nat \cup Ids \cup Keys \cup Targets \cup Session

VARIABLES
    session,    \* session[t]: the Session with ticket t, or None
    by_id,      \* by_id[i], by_idem[k]: ticket of the session indexed, or None
    by_idem,
    by_ticket,  \* tickets indexed
    call,       \* call[c]: progress of an RPC
    sweep,      \* progress of SweepExpired
    granted,    \* tickets some OpenSession has answered with
    raced,      \* keys for which two opens have both missed the lookup
    torn,       \* sessions whose id was taken over, or swept while created
    calls       \* RPCs sent so far

vars == <<session, by_id, by_idem, by_ticket, call, sweep, granted, raced, torn, calls>>

Calls == 1..NCalls
Tickets == 1..MaxSessions

\* Positions of a call: the next critical section or atomic access it makes.
Creating == {"put_id", "put_ticket", "put_key"}
Pos == Creating \cup {"idle", "lookup", "hook", "resolve", "resolve_ticket",
                      "bump_find", "bump_cas", "work", "fail_find", "fail_store"}

Call == [pos : Pos, id : Ids \cup {None}, key : Keys \cup {None},
         target : Targets \cup {None},
         hold : Tickets \cup {None},    \* the session the handler works for
         found : Tickets \cup {None}]   \* the one it looked up to change

Idle == [pos |-> "idle", id |-> None, key |-> None, target |-> None,
         hold |-> None, found |-> None]

Sweep == [ids : SUBSET Ids,             \* shards of by_id still to visit
          todo : SUBSET Tickets,        \* taken out of by_id by this sweep
          half : Tickets \cup {None}]   \* ticket entry erased, key entry not

SweepIdle == [ids |-> {}, todo |-> {}, half |-> None]

\* Every index names a ticket that was drawn, and a session is in a state that
\* OpenSession, a chunk, an abort or the sweep puts it in; kClaimed and
\* kCompleted never arise.
TypeOK ==
    /\ session \in [Tickets -> Session \cup {None}]
    /\ by_id \in [Ids -> Tickets \cup {None}]
    /\ by_idem \in [Keys -> Tickets \cup {None}]
    /\ by_ticket \subseteq Tickets
    /\ call \in [Calls -> Call]
    /\ sweep \in Sweep
    /\ granted \subseteq Tickets
    /\ raced \subseteq Keys
    /\ torn \subseteq Tickets
    /\ calls \in 0..MaxCalls

Init ==
    /\ session = [t \in Tickets |-> None]
    /\ by_id = [i \in Ids |-> None]
    /\ by_idem = [k \in Keys |-> None]
    /\ by_ticket = {}
    /\ call = [c \in Calls |-> Idle]
    /\ sweep = SweepIdle
    /\ granted = {}
    /\ raced = {}
    /\ torn = {}
    /\ calls = 0

Goto(c, p) == call' = [call EXCEPT ![c].pos = p]
Return(c) == call' = [call EXCEPT ![c] = Idle]

indexes == <<by_id, by_idem, by_ticket>>
history == <<raced, torn>>

\* A call begins.  Calls are interchangeable: the first free place is taken.
Begin(c, r) ==
    /\ call[c] = Idle
    /\ \A d \in 1..(c - 1) : call[d] # Idle
    /\ calls < MaxCalls
    /\ calls' = calls + 1
    /\ call' = [call EXCEPT ![c] = r]
    /\ UNCHANGED <<session, indexes, sweep, granted, history>>

\* A call that goes on at p and no longer needs what it looked up before.
At(c, p) == call' = [call EXCEPT ![c] = [Idle EXCEPT !.pos = p, !.id = call[c].id]]
-----------------------------------------------------------------------------
(***************************************************************************)
(* OpenSession: SessionStore::Create, then the hook of the data path.      *)
(***************************************************************************)
OpenSession(c, i, k, g) ==
    Begin(c, [Idle EXCEPT !.pos = IF k = None THEN "put_id" ELSE "lookup",
                          !.id = i, !.key = k, !.target = g])

\* The key is known: its session is the answer whatever its state, and a
\* request for another target is refused.
CreateHit(c) ==
    LET t == by_idem[call[c].key] IN
    /\ call[c].pos = "lookup"
    /\ t # None
    /\ IF session[t].target = call[c].target
       THEN call' = [call EXCEPT ![c] = [Idle EXCEPT !.pos = "hook", !.hold = t]]
       ELSE Return(c)
    /\ UNCHANGED <<session, indexes, sweep, granted, history, calls>>

\* Faulty: a session that has ended no longer counts as a hit.
CreateMissReopens(c) ==
    /\ call[c].pos = "lookup"
    /\ by_idem[call[c].key] \in {None} \cup {t \in granted : session[t].state \in Ended}
    /\ Goto(c, "put_id")
    /\ UNCHANGED <<session, indexes, sweep, granted, history, calls>>

CreateMiss(c) ==
    LET k == call[c].key IN
    /\ call[c].pos = "lookup"
    /\ by_idem[k] = None
    /\ raced' = IF \E d \in Calls \ {c} : call[d].key = k /\ call[d].pos \in Creating
                THEN raced \cup {k} ELSE raced
    /\ Goto(c, "put_id")
    /\ UNCHANGED <<session, indexes, sweep, granted, torn, calls>>

\* The new session replaces whatever by_id held under its id.
PutId(c, t) ==
    LET i == call[c].id IN
    /\ call[c].pos = "put_id"
    /\ session[t] = None
    /\ \A s \in 1..(t - 1) : session[s] # None
    /\ session' = [session EXCEPT ![t] =
           [id |-> i, key |-> call[c].key, target |-> call[c].target,
            state |-> "opened", due |-> FALSE]]
    /\ torn' = torn \cup ({by_id[i]} \ {None})
    /\ by_id' = [by_id EXCEPT ![i] = t]
    /\ call' = [call EXCEPT ![c] = [Idle EXCEPT !.pos = "put_ticket",
                                                !.key = call[c].key, !.hold = t]]
    /\ UNCHANGED <<by_idem, by_ticket, sweep, granted, raced, calls>>

PutTicket(c) ==
    /\ call[c].pos = "put_ticket"
    /\ by_ticket' = by_ticket \cup {call[c].hold}
    /\ Goto(c, IF call[c].key = None THEN "hook" ELSE "put_key")
    /\ UNCHANGED <<session, by_id, by_idem, sweep, granted, history, calls>>

PutKey(c) ==
    /\ call[c].pos = "put_key"
    /\ by_idem' = [by_idem EXCEPT ![call[c].key] = call[c].hold]
    /\ call' = [call EXCEPT ![c] = [Idle EXCEPT !.pos = "hook", !.hold = call[c].hold]]
    /\ UNCHANGED <<session, by_id, by_ticket, sweep, granted, history, calls>>

\* SessionOpener::Open after Create.  OnSessionOpened succeeds ...
HookDone(c) ==
    /\ call[c].pos = "hook"
    /\ granted' = granted \cup {call[c].hold}
    /\ Return(c)
    /\ UNCHANGED <<session, indexes, sweep, history, calls>>

\* ... or fails, and the session is marked failed; ...
HookFails(c) ==
    /\ call[c].pos = "hook"
    /\ call' = [call EXCEPT ![c] = [Idle EXCEPT !.pos = "fail_find",
                                                !.id = session[call[c].hold].id]]
    /\ UNCHANGED <<session, indexes, sweep, granted, history, calls>>

\* ... or the data flow has no executor, and the session is left as it is.
NoExecutor(c) ==
    /\ call[c].pos = "hook"
    /\ Return(c)
    /\ UNCHANGED <<session, indexes, sweep, granted, history, calls>>
-----------------------------------------------------------------------------
(***************************************************************************)
(* GdsGet and GdsPut: the session is resolved by its id, then by its       *)
(* ticket, made active, and marked failed when the transfer fails.  Its    *)
(* state is not looked at.                                                 *)
(***************************************************************************)
GdsChunk(c, t) ==
    /\ t \in granted
    /\ Begin(c, [Idle EXCEPT !.pos = "resolve", !.id = session[t].id, !.hold = t])

ResolveById(c) ==
    LET t == by_id[call[c].id] IN
    /\ call[c].pos = "resolve"
    /\ call' = IF t = None
               THEN [call EXCEPT ![c].pos = "resolve_ticket"]
               ELSE [call EXCEPT ![c].pos = "bump_find", ![c].hold = None]
    /\ UNCHANGED <<session, indexes, sweep, granted, history, calls>>

ResolveByTicket(c) ==
    /\ call[c].pos = "resolve_ticket"
    /\ IF call[c].hold \in by_ticket THEN At(c, "bump_find") ELSE Return(c)
    /\ UNCHANGED <<session, indexes, sweep, granted, history, calls>>

\* BumpActive looks the id up again; a session found by ticket may be gone.
BumpFind(c) ==
    LET t == by_id[call[c].id] IN
    /\ call[c].pos = "bump_find"
    /\ call' = IF t = None
               THEN [call EXCEPT ![c].pos = "work"]
               ELSE [call EXCEPT ![c].pos = "bump_cas", ![c].found = t]
    /\ UNCHANGED <<session, indexes, sweep, granted, history, calls>>

\* Faulty: a plain store instead of compare_exchange.
BumpActiveStores(c) ==
    /\ call[c].pos = "bump_cas"
    /\ session' = [session EXCEPT ![call[c].found].state = "active"]
    /\ call' = [call EXCEPT ![c].pos = "work", ![c].found = None]
    /\ UNCHANGED <<indexes, sweep, granted, history, calls>>

\* compare_exchange from kOpened to kActive.
BumpActive(c) ==
    LET t == call[c].found IN
    /\ call[c].pos = "bump_cas"
    /\ session' = [session EXCEPT ![t].state = IF @ = "opened" THEN "active" ELSE @]
    /\ call' = [call EXCEPT ![c].pos = "work", ![c].found = None]
    /\ UNCHANGED <<indexes, sweep, granted, history, calls>>

\* The transfer succeeds, or is refused before it touches the session ...
ChunkDone(c) ==
    /\ call[c].pos \in {"resolve", "work"}
    /\ Return(c)
    /\ UNCHANGED <<session, indexes, sweep, granted, history, calls>>

\* ... or fails: no object, no buffer, a failed or short RDMA transfer.
ChunkFails(c) ==
    /\ call[c].pos = "work"
    /\ Goto(c, "fail_find")
    /\ UNCHANGED <<session, indexes, sweep, granted, history, calls>>

\* AbortSession: MarkFailed by the id the client sends.
AbortSession(c, t) ==
    /\ t \in granted
    /\ Begin(c, [Idle EXCEPT !.pos = "fail_find", !.id = session[t].id])

\* MarkFailed: look up under the lock, store after it is released.
MarkFailedFind(c) ==
    LET t == by_id[call[c].id] IN
    /\ call[c].pos = "fail_find"
    /\ IF t = None
       THEN Return(c)
       ELSE call' = [call EXCEPT ![c].pos = "fail_store", ![c].found = t]
    /\ UNCHANGED <<session, indexes, sweep, granted, history, calls>>


MarkFailed(c) ==
    /\ call[c].pos = "fail_store"
    /\ session' = [session EXCEPT ![call[c].found].state = "failed"]
    /\ Return(c)
    /\ UNCHANGED <<indexes, sweep, granted, history, calls>>
-----------------------------------------------------------------------------
(***************************************************************************)
(* SweepExpired, run by the sweeper thread every sweep_interval.           *)
(***************************************************************************)
SweepStart ==
    /\ sweep = SweepIdle
    /\ \E i \in Ids : by_id[i] # None
    /\ sweep' = [SweepIdle EXCEPT !.ids = Ids]
    /\ UNCHANGED <<session, indexes, call, granted, history, calls>>

\* Faulty: the session is listed for step two but stays in by_id.
SweepShardKeeps(i) ==
    LET t == by_id[i] IN
    /\ i \in sweep.ids
    /\ sweep' = [sweep EXCEPT !.ids = @ \ {i},
           !.todo = IF t # None /\ session[t].due THEN @ \cup {t} ELSE @]
    /\ UNCHANGED <<session, indexes, call, granted, history, calls>>

\* The session under id i, if past its deadline or failed, leaves by_id.
\* The state is loaded and stored in two accesses: a kFailed stored between
\* them ends as kExpired, here as kFailed.  Nothing reads which of the two.
SweepShard(i) ==
    LET t == by_id[i]
        out == t # None /\ (session[t].due \/ session[t].state = "failed")
    IN
    /\ i \in sweep.ids
    /\ IF out
       THEN /\ session' = [session EXCEPT ![t].state =
                              IF @ = "failed" THEN @ ELSE "expired"]
            /\ by_id' = [by_id EXCEPT ![i] = None]
            /\ sweep' = [sweep EXCEPT !.ids = @ \ {i}, !.todo = @ \cup {t}]
            /\ torn' = IF \E c \in Calls : call[c].pos \in Creating /\ call[c].hold = t
                       THEN torn \cup {t} ELSE torn
       ELSE /\ sweep' = [sweep EXCEPT !.ids = @ \ {i}]
            /\ UNCHANGED <<session, by_id, torn>>
    /\ UNCHANGED <<by_idem, by_ticket, call, granted, raced, calls>>

\* Faulty: only sessions with a key have their ticket erased.
SweepTicketKeyed(t) ==
    /\ sweep.ids = {}
    /\ sweep.half = None
    /\ t \in sweep.todo
    /\ by_ticket' = IF session[t].key = None THEN by_ticket ELSE by_ticket \ {t}
    /\ sweep' = [sweep EXCEPT !.todo = @ \ {t},
                              !.half = IF session[t].key = None THEN None ELSE t]
    /\ UNCHANGED <<session, by_id, by_idem, call, granted, history, calls>>

SweepTicket(t) ==
    /\ sweep.ids = {}
    /\ sweep.half = None
    /\ t \in sweep.todo
    /\ by_ticket' = by_ticket \ {t}
    /\ sweep' = [sweep EXCEPT !.todo = @ \ {t},
                              !.half = IF session[t].key = None THEN None ELSE t]
    /\ UNCHANGED <<session, by_id, by_idem, call, granted, history, calls>>

\* The entry is erased by key, whichever session it names by now.
SweepKey ==
    /\ sweep.half # None
    /\ by_idem' = [by_idem EXCEPT ![session[sweep.half].key] = None]
    /\ sweep' = [sweep EXCEPT !.half = None]
    /\ UNCHANGED <<session, by_id, by_ticket, call, granted, history, calls>>

\* The deadline of a session passes.
Expire(t) ==
    /\ session[t] # None
    /\ ~session[t].due
    /\ session' = [session EXCEPT ![t].due = TRUE]
    /\ UNCHANGED <<indexes, call, sweep, granted, history, calls>>
-----------------------------------------------------------------------------
CallStep(c) ==
    \/ CreateHit(c) \/ CreateMiss(c) \/ PutTicket(c) \/ PutKey(c)
    \/ \E t \in Tickets : PutId(c, t)
    \/ HookDone(c) \/ HookFails(c) \/ NoExecutor(c)
    \/ ResolveById(c) \/ ResolveByTicket(c) \/ BumpFind(c) \/ BumpActive(c)
    \/ ChunkDone(c) \/ ChunkFails(c) \/ MarkFailedFind(c) \/ MarkFailed(c)

\* The bound on sessions: every open under way can have a ticket.
TicketLeft ==
    Cardinality({d \in Calls : call[d].pos \in {"lookup", "put_id"}})
      < Cardinality({t \in Tickets : session[t] = None})

CallStart(c) ==
    \/ /\ TicketLeft
       /\ \E i \in Ids : \/ OpenSession(c, i, None, None)
                         \/ \E k \in Keys, g \in Targets : OpenSession(c, i, k, g)
    \/ \E t \in Tickets : GdsChunk(c, t) \/ AbortSession(c, t)

SweepStep ==
    \/ SweepStart \/ SweepKey
    \/ \E i \in Ids : SweepShard(i)
    \/ \E t \in Tickets : SweepTicket(t)

Next ==
    \/ \E c \in Calls : CallStart(c) \/ CallStep(c)
    \/ SweepStep
    \/ \E t \in Tickets : Expire(t)

Spec == Init /\ [][Next]_vars
-----------------------------------------------------------------------------
Live(t) == session[t] # None /\ by_id[session[t].id] = t
BeingCreated(t) == \E c \in Calls : call[c].pos \in Creating /\ call[c].hold = t
BeingSwept(t) == t \in sweep.todo \/ t = sweep.half

(***************************************************************************)
(* No session comes back: once it is failed or expired, no chunk that was  *)
(* under way (BumpActive) makes it opened or active again.                 *)
(***************************************************************************)
EndedStaysEnded ==
    [][\A t \in Tickets :
         session[t] # None /\ session[t].state \in Ended
           => session'[t].state \in Ended]_vars

(***************************************************************************)
(* Idempotency: two sessions of one key are never live (found by id) at    *)
(* once, whatever opens, failures and sweeps come between, unless two      *)
(* opens of the key overlapped so that both missed the lookup of Create.   *)
(***************************************************************************)
OneLiveSessionPerKey ==
    \A s, t \in Tickets :
      /\ Live(s) /\ Live(t) /\ s # t
      /\ session[s].key = session[t].key /\ session[s].key # None
      => session[s].key \in raced

(***************************************************************************)
(* The indexes agree: a session found by ticket or by idempotency key is   *)
(* found by id too, or is being created or swept.  The exceptions are the  *)
(* sessions whose id another open took over and those swept before Create  *)
(* was done with them: what SweepExpired leaves of these stays for ever.   *)
(***************************************************************************)
IndexesAgree ==
    \A t \in Tickets :
      t \in by_ticket \/ (\E k \in Keys : by_idem[k] = t)
        => Live(t) \/ BeingCreated(t) \/ BeingSwept(t) \/ t \in torn

(***************************************************************************)
(* A retry of an open that was answered finds the session it opened: while *)
(* the session is live its key leads to it, unless opens of the key raced. *)
(* (The sweep erases a key without looking at the session it names.)       *)
(***************************************************************************)
RetryFindsItsSession ==
    \A t \in granted :
      Live(t) /\ session[t].key # None
        => by_idem[session[t].key] = t \/ session[t].key \in raced
=============================================================================
