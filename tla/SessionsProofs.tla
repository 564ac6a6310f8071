---------------------------- MODULE SessionsProofs ----------------------------
(***************************************************************************)
(* Proofs about Sessions: for any number of sessions, keys, calls and      *)
(* targets, no session comes back, the three indexes agree, and a key      *)
(* whose opens did not race has one live session that its retries find.    *)
(***************************************************************************)
EXTENDS Sessions, TLAPS

-----------------------------------------------------------------------------
(* What a call carries at each position, and what the indexes point to.    *)

Named == {"put_ticket", "put_key"}      \* the session being created is in by_id

OnId == {"lookup", "put_id", "resolve", "resolve_ticket", "bump_find", "bump_cas",
         "work", "fail_find", "fail_store"}

CallOK(r, s) ==
    /\ r.pos \in Named \cup {"hook"} => r.hold \in Tickets /\ s[r.hold] # None
    /\ r.pos \in Named => r.key = s[r.hold].key
    /\ r.pos \in {"lookup", "put_id"} => r.hold = None
    /\ r.pos \in {"lookup", "put_key"} => r.key \in Keys
    /\ r.pos \in OnId => r.id \in Ids
    /\ r.pos \in {"bump_cas", "fail_store"} => r.found \in Tickets /\ s[r.found] # None

CallsOK == \A c \in Calls : CallOK(call[c], session)

StoreOK ==
    /\ \A i \in Ids : by_id[i] # None => session[by_id[i]] # None /\ session[by_id[i]].id = i
    /\ \A k \in Keys : by_idem[k] # None => session[by_idem[k]] # None /\ session[by_idem[k]].key = k
    /\ \A t \in by_ticket \cup granted \cup sweep.todo : session[t] # None
    /\ sweep.half # None => session[sweep.half] # None /\ session[sweep.half].key \in Keys

Typed == TypeOK /\ CallsOK /\ StoreOK

-----------------------------------------------------------------------------
(* Why the indexes agree.                                                  *)

\* A session is created by one call, and is live until Create is done with it
\* or its id is lost to another open or to the sweep.
OneCreator ==
    \A c, d \in Calls :
      call[c].pos \in Named /\ call[d].pos \in Named /\ call[c].hold = call[d].hold => c = d

CreatedIsLive == \A c \in Calls : call[c].pos \in Named => Live(call[c].hold) \/ call[c].hold \in torn

\* What the sweep has taken out of by_id is not put back.
SweptIsOut ==
    /\ \A t \in Tickets : BeingSwept(t) => ~Live(t)
    /\ sweep.half # None => sweep.half \notin by_ticket \/ sweep.half \in torn
    /\ sweep.half \notin sweep.todo

Indexed == OneCreator /\ CreatedIsLive /\ SweptIsOut /\ IndexesAgree

-----------------------------------------------------------------------------
(* Why a key has one session.  Until two opens of a key race, at most one  *)
(* call creates for it, and none while by_idem has an entry for it; a      *)
(* session with the key that is live or being swept is the one by_idem     *)
(* names, or is being created; and one that was answered, or is about to   *)
(* be, is no longer being created.                                         *)

Creates(c, k) == call[c].pos \in Creating /\ call[c].key = k

HasKey(t, k) == session[t] # None /\ session[t].key = k

InStore(t) == Live(t) \/ BeingSwept(t)

Answering(t) == t \in granted \/ \E c \in Calls : call[c].pos = "hook" /\ call[c].hold = t

KeyInv(k) ==
    /\ \A c, d \in Calls : Creates(c, k) /\ Creates(d, k) => c = d
    /\ by_idem[k] # None => \A c \in Calls : ~Creates(c, k)
    /\ \A t \in Tickets : HasKey(t, k) /\ InStore(t) => by_idem[k] = t \/ BeingCreated(t)
    /\ \A t \in Tickets : HasKey(t, k) /\ Answering(t) => ~BeingCreated(t)

KeysOK == \A k \in Keys \ raced : KeyInv(k)

SInv == Typed /\ Indexed /\ KeysOK
-----------------------------------------------------------------------------
(* Sessions: what a step may do to one.                                    *)

LEMMA NoneFacts ==
    /\ None \notin Tickets /\ None \notin Session
    /\ None \notin Ids /\ None \notin Keys /\ None \notin Targets
BY BoundAssumption, NoneAssumption DEF Tickets

\* A session never goes away, keeps its id and key, and stays ended.
Grows ==
    \A t \in Tickets : session[t] # None =>
      /\ session'[t] # None
      /\ session'[t].id = session[t].id /\ session'[t].key = session[t].key
      /\ session[t].state \in Ended => session'[t].state \in Ended

\* One session changes its state or its deadline passes.
LEMMA Rewrite ==
    ASSUME TypeOK, NEW t \in Tickets, session[t] # None,
           NEW st \in State, NEW due \in BOOLEAN,
           session[t].state \in Ended => st \in Ended,
           session' = [session EXCEPT ![t] = [session[t] EXCEPT !.state = st, !.due = due]]
    PROVE  session' \in [Tickets -> Session \cup {None}] /\ Grows
<1> DEFINE s == [session[t] EXCEPT !.state = st, !.due = due]
<1>1. session[t] \in Session
  BY DEF TypeOK
<1>2. s \in Session /\ s.id = session[t].id /\ s.key = session[t].key /\ s.state = st
  BY Zenon, <1>1 DEF Session
<1>3. s # None
  BY <1>2, NoneFacts
<1>4. session \in [Tickets -> Session \cup {None}]
  BY DEF TypeOK
<1>5. session' = [session EXCEPT ![t] = s]
  OBVIOUS
<1> HIDE DEF s
<1> QED
  BY <1>2, <1>3, <1>4, <1>5 DEF Grows

LEMMA StepSession ==
    ASSUME Typed, Next
    PROVE  session' \in [Tickets -> Session \cup {None}] /\ Grows
<1> DEFINE Good == session' \in [Tickets -> Session \cup {None}] /\ Grows
<1>u. UNCHANGED session => Good
  BY DEF Typed, TypeOK, Grows
<1> SUFFICES Good
  OBVIOUS
<1> HIDE DEF Good
<1>0. TypeOK /\ session \in [Tickets -> Session \cup {None}]
  BY DEF Typed, TypeOK
<1>1. ASSUME NEW c \in Calls, CallStart(c) PROVE Good
  BY Zenon, <1>1, <1>u DEF CallStart, OpenSession, GdsChunk, AbortSession, Begin
<1>2. ASSUME NEW c \in Calls, NEW t \in Tickets, PutId(c, t) PROVE Good
  <2> DEFINE s == [id |-> call[c].id, key |-> call[c].key, target |-> call[c].target,
                   state |-> "opened", due |-> FALSE]
  <2>1. s \in Session
    <3>1. call[c] \in Call /\ call[c].id \in Ids
      BY <1>2 DEF Typed, TypeOK, CallsOK, CallOK, PutId, OnId
    <3> QED
      BY <3>1 DEF Call, Session, State
  <2>2. session[t] = None /\ session' = [session EXCEPT ![t] = s]
    BY Zenon, <1>2 DEF PutId
  <2> HIDE DEF s
  <2> QED
    BY <1>0, <2>1, <2>2 DEF Good, Grows
<1>3. ASSUME NEW c \in Calls, BumpActive(c) \/ MarkFailed(c) PROVE Good
  <2> DEFINE t == call[c].found
  <2>1. t \in Tickets /\ session[t] # None
    BY <1>3 DEF Typed, CallsOK, CallOK, BumpActive, MarkFailed
  <2>2. session[t] \in Session
    BY Zenon, <1>0, <2>1
  <2>3. PICK st \in State : /\ session[t].state \in Ended => st \in Ended
                            /\ session' = [session EXCEPT ![t].state = st]
    <3>1. CASE BumpActive(c) /\ session[t].state = "opened"
      BY <2>2, <3>1 DEF BumpActive, State, Ended
    <3>2. CASE BumpActive(c) /\ session[t].state # "opened"
      BY Zenon, <2>2, <3>2 DEF BumpActive, Session
    <3>3. CASE MarkFailed(c)
      BY <3>3 DEF MarkFailed, State, Ended
    <3> QED
      BY Zenon, <1>3, <3>1, <3>2, <3>3
  <2>4. session' = [session EXCEPT ![t] = [session[t] EXCEPT !.state = st, !.due = session[t].due]]
    BY Zenon, <2>2, <2>3 DEF Session
  <2>5. session[t].due \in BOOLEAN
    BY <2>2 DEF Session
  <2> HIDE DEF t
  <2> QED
    BY Zenon, <1>0, <2>1, <2>3, <2>4, <2>5, Rewrite DEF Good
<1>4. ASSUME NEW c \in Calls, CallStep(c), \A t \in Tickets : ~PutId(c, t),
             ~BumpActive(c), ~MarkFailed(c)
      PROVE  Good
  BY <1>4, <1>u DEF CallStep, CreateHit, CreateMiss, PutTicket, PutKey, HookDone, HookFails,
     NoExecutor, ResolveById, ResolveByTicket, BumpFind, ChunkDone, ChunkFails, MarkFailedFind
<1>5. ASSUME NEW i \in Ids, SweepShard(i) PROVE Good
  <2> DEFINE t == by_id[i]
  <2>1. CASE t # None /\ (session[t].due \/ session[t].state = "failed")
    <3>1. t \in Tickets /\ session[t] # None
      BY <2>1 DEF Typed, TypeOK, StoreOK
    <3>2. session[t] \in Session
      BY <1>0, <3>1
    <3> DEFINE st == IF session[t].state = "failed" THEN session[t].state ELSE "expired"
    <3>3. st \in State /\ st \in Ended
      BY DEF State, Ended
    <3>4. session' = [session EXCEPT ![t] = [session[t] EXCEPT !.state = st, !.due = session[t].due]]
      BY Zenon, <1>5, <2>1, <3>2 DEF SweepShard, Session
    <3>5. session[t].due \in BOOLEAN
      BY <3>2 DEF Session
    <3> HIDE DEF t, st
    <3> QED
      BY <1>0, <3>1, <3>3, <3>4, <3>5, Rewrite DEF Good
  <2>2. CASE ~(t # None /\ (session[t].due \/ session[t].state = "failed"))
    BY <1>5, <1>u, <2>2 DEF SweepShard
  <2> QED
    BY <2>1, <2>2
<1>6. ASSUME NEW t \in Tickets, Expire(t) PROVE Good
  <2>1. session[t] \in Session /\ session[t] # None
    BY <1>0, <1>6 DEF Expire
  <2>2. session' = [session EXCEPT ![t] = [session[t] EXCEPT !.state = session[t].state, !.due = TRUE]]
    BY Zenon, <1>6, <2>1 DEF Expire, Session
  <2>3. session[t].state \in State
    BY <2>1 DEF Session
  <2> QED
    BY <1>0, <2>1, <2>2, <2>3, Rewrite DEF Good
<1>7. ASSUME SweepStart \/ SweepKey \/ \E t \in Tickets : SweepTicket(t) PROVE Good
  BY Zenon, <1>7, <1>u DEF SweepStart, SweepKey, SweepTicket
<1> QED
  BY <1>1, <1>2, <1>3, <1>4, <1>5, <1>6, <1>7 DEF Next, CallStep, SweepStep
-----------------------------------------------------------------------------
(* Calls.                                                                  *)

LEMMA IdleOK == Idle \in Call /\ CallOK(Idle, session)
BY DEF Idle, Call, CallOK, Pos, Named, OnId

\* What a call needs of the sessions outlives any step.
LEMMA CallOKStays ==
    ASSUME Grows, NEW r \in Call, CallOK(r, session)
    PROVE  CallOK(r, session')
BY DEF Grows, CallOK

LEMMA CallUpdate ==
    ASSUME Typed, Grows, NEW c \in Calls, NEW r \in Call, CallOK(r, session'),
           call' = [call EXCEPT ![c] = r]
    PROVE  call' \in [Calls -> Call] /\ CallsOK'
<1>1. call \in [Calls -> Call]
  BY DEF Typed, TypeOK
<1>2. ASSUME NEW d \in Calls PROVE CallOK(call'[d], session')
  <2>1. CASE d = c
    BY Zenon, <1>1, <2>1 DEF CallOK
  <2>2. CASE d # c
    <3>1. call'[d] = call[d] /\ CallOK(call[d], session)
      BY <1>1, <2>2 DEF Typed, CallsOK
    <3> QED
      BY <3>1 DEF Grows, CallOK
  <2> QED
    BY <2>1, <2>2
<1> QED
  BY <1>1, <1>2 DEF CallsOK
\* A call that moves on within its handler.
LEMMA MovesOK ==
    ASSUME Grows, NEW r \in Call, r.pos \in OnId \ {"lookup", "put_id"}, r.id \in Ids,
           r.pos \in {"bump_cas", "fail_store"} => r.found \in Tickets /\ session[r.found] # None
    PROVE  CallOK(r, session')
BY DEF Grows, CallOK, OnId, Named

LEMMA StepReturn ==
    ASSUME Typed, Grows, NEW c \in Calls, Return(c)
    PROVE  call' \in [Calls -> Call] /\ CallsOK'
BY Zenon, IdleOK, CallOKStays, CallUpdate DEF Return

LEMMA StepCall ==
    ASSUME Typed, Grows, Next
    PROVE  call' \in [Calls -> Call] /\ CallsOK'
<1> DEFINE Good == call' \in [Calls -> Call] /\ CallsOK'
<1>u. UNCHANGED call => Good
  <2>1. ASSUME UNCHANGED call, NEW c \in Calls PROVE CallOK(call'[c], session')
    BY <2>1 DEF Typed, CallsOK, CallOK, Grows
  <2> QED
    BY <2>1 DEF Typed, TypeOK, CallsOK
<1> SUFFICES Good
  OBVIOUS
<1>m. ASSUME NEW c \in Calls, NEW r \in Call, CallOK(r, session'), call' = [call EXCEPT ![c] = r]
      PROVE  Good
  BY Zenon, <1>m, CallUpdate
<1>r. ASSUME NEW c \in Calls, Return(c) PROVE Good
  BY <1>r, StepReturn
<1> HIDE DEF Good
<1>0. /\ TypeOK /\ call \in [Calls -> Call]
      /\ \A c \in Calls : call[c] \in Call /\ CallOK(call[c], session)
      /\ session \in [Tickets -> Session \cup {None}]
  BY DEF Typed, TypeOK, CallsOK
<1>1. ASSUME NEW c \in Calls, CallStart(c) PROVE Good
  <2>1. ASSUME NEW i \in Ids, NEW k \in Keys \cup {None}, NEW g \in Targets \cup {None},
               OpenSession(c, i, k, g)
        PROVE  Good
    <3> DEFINE r == [Idle EXCEPT !.pos = IF k = None THEN "put_id" ELSE "lookup",
                                 !.id = i, !.key = k, !.target = g]
    <3>0. (IF k = None THEN "put_id" ELSE "lookup") \in Pos
      BY DEF Pos, Creating
    <3>1. /\ r \in Call /\ r.pos = (IF k = None THEN "put_id" ELSE "lookup")
          /\ r.id = i /\ r.key = k /\ r.hold = Idle.hold
      BY Zenon, <3>0, IdleOK DEF Call
    <3>2. CallOK(r, session')
      BY <3>1 DEF Idle, CallOK, Named, OnId
    <3>3. call' = [call EXCEPT ![c] = r]
      BY <2>1 DEF OpenSession, Begin
    <3> HIDE DEF r
    <3> QED
      BY Zenon, <1>m, <3>1, <3>2, <3>3
  <2>2. ASSUME NEW t \in Tickets, GdsChunk(c, t) \/ AbortSession(c, t) PROVE Good
    <3>1. session[t] \in Session
      BY <1>0, <2>2 DEF GdsChunk, AbortSession, Typed, StoreOK
    <3>2. CASE GdsChunk(c, t)
      <4> DEFINE r == [Idle EXCEPT !.pos = "resolve", !.id = session[t].id, !.hold = t]
      <4>1. r \in Call /\ r.pos = "resolve" /\ r.id = session[t].id
        BY Zenon, <3>1, IdleOK DEF Call, Pos, Session
      <4>2. CallOK(r, session')
        BY <3>1, <4>1 DEF CallOK, Named, OnId, Session
      <4>3. call' = [call EXCEPT ![c] = r]
        BY <3>2 DEF GdsChunk, Begin
      <4> HIDE DEF r
      <4> QED
        BY Zenon, <1>m, <4>1, <4>2, <4>3
    <3>3. CASE AbortSession(c, t)
      <4> DEFINE r == [Idle EXCEPT !.pos = "fail_find", !.id = session[t].id]
      <4>1. r \in Call /\ r.pos = "fail_find" /\ r.id = session[t].id
        BY Zenon, <3>1, IdleOK DEF Call, Pos, Session
      <4>2. CallOK(r, session')
        BY <3>1, <4>1 DEF CallOK, Named, OnId, Session
      <4>3. call' = [call EXCEPT ![c] = r]
        BY <3>3 DEF AbortSession, Begin
      <4> HIDE DEF r
      <4> QED
        BY Zenon, <1>m, <4>1, <4>2, <4>3
    <3> QED
      BY <2>2, <3>2, <3>3
  <2> QED
    BY <1>1, <2>1, <2>2 DEF CallStart
<1>2. ASSUME NEW c \in Calls, CreateHit(c) PROVE Good
  <2> DEFINE t == by_idem[call[c].key]
             r == [Idle EXCEPT !.pos = "hook", !.hold = t]
  <2>1. call[c].key \in Keys /\ t \in Tickets /\ session[t] # None
    BY <1>0, <1>2 DEF CreateHit, CallOK, Typed, TypeOK, StoreOK
  <2>2. r \in Call /\ r.pos = "hook" /\ r.hold = t
    BY Zenon, <2>1, IdleOK DEF Call, Pos
  <2>3. CallOK(r, session')
    BY <2>1, <2>2 DEF CallOK, Named, OnId, Grows
  <2>4. call' = [call EXCEPT ![c] = r] \/ Return(c)
    BY <1>2 DEF CreateHit
  <2> HIDE DEF r
  <2> QED
    BY <1>m, <1>r, <2>2, <2>3, <2>4
<1>3. ASSUME NEW c \in Calls, CreateMiss(c) PROVE Good
  <2> DEFINE r == [call[c] EXCEPT !.pos = "put_id"]
  <2>0. call[c].hold = None /\ call[c].id \in Ids
    BY <1>0, <1>3 DEF CreateMiss, CallOK, OnId
  <2>1. r \in Call /\ r.pos = "put_id" /\ r.hold = call[c].hold /\ r.id = call[c].id
    BY <1>0 DEF Call, Pos, Creating
  <2>2. CallOK(r, session')
    BY <2>0, <2>1 DEF CallOK, Named
  <2>3. call' = [call EXCEPT ![c] = r]
    BY <1>3 DEF CreateMiss, Goto
  <2> HIDE DEF r
  <2> QED
    BY Zenon, <1>m, <2>1, <2>2, <2>3
<1>4. ASSUME NEW c \in Calls, NEW t \in Tickets, PutId(c, t) PROVE Good
  <2> DEFINE r == [Idle EXCEPT !.pos = "put_ticket", !.key = call[c].key, !.hold = t]
  <2>1. r \in Call /\ r.pos = "put_ticket" /\ r.key = call[c].key /\ r.hold = t
    BY Zenon, <1>0, IdleOK DEF Call, Pos, Creating
  <2> DEFINE s == [id |-> call[c].id, key |-> call[c].key, target |-> call[c].target,
                   state |-> "opened", due |-> FALSE]
  <2>2. s \in Session /\ s.key = call[c].key
    BY <1>0, <1>4 DEF PutId, Call, CallOK, OnId, Session, State
  <2>3. session'[t] = s
    BY <1>0, <1>4 DEF PutId
  <2> HIDE DEF s
  <2>4. session'[t] # None /\ session'[t].key = call[c].key
    BY <2>2, <2>3, NoneFacts
  <2>5. CallOK(r, session')
    BY <2>1, <2>4 DEF CallOK, Named, OnId
  <2>6. call' = [call EXCEPT ![c] = r]
    BY <1>4 DEF PutId
  <2> HIDE DEF r
  <2> QED
    BY Zenon, <1>m, <2>1, <2>5, <2>6
<1>5. ASSUME NEW c \in Calls, PutTicket(c) PROVE Good
  <2> DEFINE r == [call[c] EXCEPT !.pos = IF call[c].key = None THEN "hook" ELSE "put_key"]
  <2>1. /\ call[c].hold \in Tickets /\ session[call[c].hold] # None
        /\ call[c].key = session[call[c].hold].key
    BY <1>0, <1>5 DEF PutTicket, CallOK, Named
  <2>2. /\ r \in Call /\ r.hold = call[c].hold /\ r.key = call[c].key
        /\ r.pos = IF call[c].key = None THEN "hook" ELSE "put_key"
    BY <1>0 DEF Call, Pos, Creating
  <2>3. call[c].key \in Keys \cup {None}
    BY <1>0 DEF Call
  <2>4. CallOK(r, session')
    BY <2>1, <2>2, <2>3 DEF CallOK, Named, OnId, Grows
  <2>5. call' = [call EXCEPT ![c] = r]
    BY <1>5 DEF PutTicket, Goto
  <2> HIDE DEF r
  <2> QED
    BY Zenon, <1>m, <2>2, <2>4, <2>5
<1>6. ASSUME NEW c \in Calls, PutKey(c) PROVE Good
  <2> DEFINE r == [Idle EXCEPT !.pos = "hook", !.hold = call[c].hold]
  <2>1. call[c].hold \in Tickets /\ session[call[c].hold] # None
    BY <1>0, <1>6 DEF PutKey, CallOK, Named
  <2>2. r \in Call /\ r.pos = "hook" /\ r.hold = call[c].hold
    BY Zenon, <2>1, IdleOK DEF Call, Pos
  <2>3. CallOK(r, session')
    BY <2>1, <2>2 DEF CallOK, Named, OnId, Grows
  <2>4. call' = [call EXCEPT ![c] = r]
    BY <1>6 DEF PutKey
  <2> HIDE DEF r
  <2> QED
    BY Zenon, <1>m, <2>2, <2>3, <2>4
<1>7. ASSUME NEW c \in Calls, HookFails(c) PROVE Good
  <2> DEFINE r == [Idle EXCEPT !.pos = "fail_find", !.id = session[call[c].hold].id]
  <2>1. session[call[c].hold] \in Session
    BY <1>0, <1>7 DEF HookFails, CallOK
  <2>2. r \in Call /\ r.pos = "fail_find" /\ r.id = session[call[c].hold].id
    BY Zenon, <2>1, IdleOK DEF Call, Pos, Session
  <2>3. CallOK(r, session')
    BY <2>1, <2>2 DEF CallOK, Named, OnId, Session
  <2>4. call' = [call EXCEPT ![c] = r]
    BY <1>7 DEF HookFails
  <2> HIDE DEF r
  <2> QED
    BY Zenon, <1>m, <2>2, <2>3, <2>4
<1>8. ASSUME NEW c \in Calls, HookDone(c) \/ NoExecutor(c) \/ ChunkDone(c) \/ MarkFailed(c)
      PROVE  Good
  BY <1>8, <1>r DEF HookDone, NoExecutor, ChunkDone, MarkFailed
<1>9. ASSUME NEW c \in Calls,
             \/ ResolveById(c) \/ ResolveByTicket(c) \/ BumpFind(c) \/ BumpActive(c)
             \/ ChunkFails(c) \/ MarkFailedFind(c)
      PROVE  Good
  <2>0. call[c].pos \in OnId /\ call[c].id \in Ids
    BY <1>0, <1>9 DEF ResolveById, ResolveByTicket, BumpFind, BumpActive, ChunkFails,
       MarkFailedFind, OnId, CallOK
  <2>1. /\ call[c].hold \in Tickets \cup {None} /\ call[c].found \in Tickets \cup {None}
        /\ call[c].key \in Keys \cup {None} /\ call[c].target \in Targets \cup {None}
        /\ call[c] \in Call
    BY <1>0 DEF Call
  <2>2. by_id[call[c].id] # None
          => by_id[call[c].id] \in Tickets /\ session[by_id[call[c].id]] # None
    BY <2>0 DEF Typed, TypeOK, StoreOK
  <2>m. ASSUME NEW r \in Call, r.pos \in OnId \ {"lookup", "put_id"}, r.id \in Ids,
               r.pos \in {"bump_cas", "fail_store"} => r.found \in Tickets /\ session[r.found] # None,
               call' = [call EXCEPT ![c] = r]
        PROVE  Good
    BY Zenon, <1>m, <2>m, MovesOK
  <2>3. CASE ResolveById(c)
    <3> DEFINE r == [call[c] EXCEPT !.pos = "resolve_ticket"]
               q == [call[c] EXCEPT !.pos = "bump_find", !.hold = None]
    <3>1. /\ r \in Call /\ r.pos = "resolve_ticket" /\ r.id = call[c].id
          /\ q \in Call /\ q.pos = "bump_find" /\ q.id = call[c].id
      BY Zenon, <2>1 DEF Call, Pos
    <3>2. call' = [call EXCEPT ![c] = r] \/ call' = [call EXCEPT ![c] = q]
      BY Zenon, <1>0, <2>3 DEF ResolveById
    <3> HIDE DEF r, q
    <3> QED
      BY <2>0, <2>m, <3>1, <3>2 DEF OnId
  <2>4. CASE ResolveByTicket(c)
    <3> DEFINE r == [Idle EXCEPT !.pos = "bump_find", !.id = call[c].id]
    <3>1. r \in Call /\ r.pos = "bump_find" /\ r.id = call[c].id
      BY Zenon, <2>0, IdleOK DEF Call, Pos
    <3>2. CallOK(r, session')
      BY <2>0, <3>1 DEF CallOK, Named, OnId
    <3>3. call' = [call EXCEPT ![c] = r] \/ Return(c)
      BY <2>4 DEF ResolveByTicket, At
    <3> HIDE DEF r
    <3> QED
      BY <1>m, <1>r, <3>1, <3>2, <3>3
  <2>5. CASE BumpFind(c)
    <3> DEFINE r == [call[c] EXCEPT !.pos = "work"]
               q == [call[c] EXCEPT !.pos = "bump_cas", !.found = by_id[call[c].id]]
    <3>1. CASE by_id[call[c].id] = None
      <4>1. r \in Call /\ r.pos = "work" /\ r.id = call[c].id
        BY <2>1 DEF Call, Pos
      <4>2. call' = [call EXCEPT ![c] = r]
        BY <2>5, <3>1 DEF BumpFind
      <4> HIDE DEF r
      <4> QED
        BY Zenon, <2>0, <2>m, <4>1, <4>2 DEF OnId
    <3>2. CASE by_id[call[c].id] # None
      <4>1. q \in Call /\ q.pos = "bump_cas" /\ q.id = call[c].id /\ q.found = by_id[call[c].id]
        BY Zenon, <2>1, <2>2, <3>2 DEF Call, Pos
      <4>2. call' = [call EXCEPT ![c] = q]
        BY Zenon, <1>0, <2>5, <3>2 DEF BumpFind
      <4> HIDE DEF q
      <4> QED
        BY Zenon, <2>0, <2>2, <2>m, <3>2, <4>1, <4>2 DEF OnId
    <3> QED
      BY <3>1, <3>2
  <2>6. CASE BumpActive(c)
    <3> DEFINE r == [call[c] EXCEPT !.pos = "work", !.found = None]
    <3>1. r \in Call /\ r.pos = "work" /\ r.id = call[c].id
      BY Zenon, <2>1 DEF Call, Pos
    <3>2. call' = [call EXCEPT ![c] = r]
      BY Zenon, <1>0, <2>6 DEF BumpActive
    <3> HIDE DEF r
    <3> QED
      BY <2>0, <2>m, <3>1, <3>2 DEF OnId
  <2>7. CASE ChunkFails(c)
    <3> DEFINE r == [call[c] EXCEPT !.pos = "fail_find"]
    <3>1. r \in Call /\ r.pos = "fail_find" /\ r.id = call[c].id
      BY <2>1 DEF Call, Pos
    <3>2. call' = [call EXCEPT ![c] = r]
      BY <1>0, <2>7 DEF ChunkFails, Goto
    <3> HIDE DEF r
    <3> QED
      BY Zenon, <2>0, <2>m, <3>1, <3>2 DEF OnId
  <2>8. CASE MarkFailedFind(c)
    <3> DEFINE q == [call[c] EXCEPT !.pos = "fail_store", !.found = by_id[call[c].id]]
    <3>1. CASE by_id[call[c].id] = None
      BY <1>r, <2>8, <3>1 DEF MarkFailedFind
    <3>2. CASE by_id[call[c].id] # None
      <4>1. q \in Call /\ q.pos = "fail_store" /\ q.id = call[c].id /\ q.found = by_id[call[c].id]
        BY Zenon, <2>1, <2>2, <3>2 DEF Call, Pos
      <4>2. call' = [call EXCEPT ![c] = q]
        BY Zenon, <1>0, <2>8, <3>2 DEF MarkFailedFind
      <4> HIDE DEF q
      <4> QED
        BY Zenon, <2>0, <2>2, <2>m, <3>2, <4>1, <4>2 DEF OnId
    <3> QED
      BY <3>1, <3>2
  <2> QED
    BY <1>9, <2>3, <2>4, <2>5, <2>6, <2>7, <2>8
<1>10. ASSUME SweepStep \/ \E t \in Tickets : Expire(t) PROVE Good
  BY Zenon, <1>10, <1>u DEF SweepStep, SweepStart, SweepKey, SweepShard, SweepTicket, Expire
<1> QED
  BY <1>1, <1>2, <1>3, <1>4, <1>5, <1>6, <1>7, <1>8, <1>9, <1>10 DEF Next, CallStep
-----------------------------------------------------------------------------
(* The indexes and the sweep.                                              *)

IndexTypes ==
    /\ by_id \in [Ids -> Tickets \cup {None}]
    /\ by_idem \in [Keys -> Tickets \cup {None}]
    /\ by_ticket \subseteq Tickets /\ granted \subseteq Tickets
    /\ sweep \in Sweep

\* The steps that write none of the five.
LEMMA StoreStays ==
    ASSUME Typed, Grows, UNCHANGED <<by_id, by_idem, by_ticket, granted, sweep>>
    PROVE  IndexTypes' /\ StoreOK'
<1>1. IndexTypes'
  BY DEF Typed, TypeOK, IndexTypes
<1>2. sweep.todo \subseteq Tickets /\ sweep.half \in Tickets \cup {None}
  BY Zenon DEF Typed, TypeOK, Sweep
<1>3. StoreOK'
  BY <1>2 DEF Typed, TypeOK, StoreOK, Grows
<1> QED
  BY Zenon, <1>1, <1>3

LEMMA StepStore ==
    ASSUME Typed, Grows, Next
    PROVE  IndexTypes' /\ StoreOK'
<1> DEFINE Good == IndexTypes' /\ StoreOK'
<1> SUFFICES Good
  OBVIOUS
<1>u. UNCHANGED <<by_id, by_idem, by_ticket, granted, sweep>> => Good
  BY StoreStays
<1> HIDE DEF Good
<1>0. /\ IndexTypes
      /\ sweep.todo \subseteq Tickets /\ sweep.half \in Tickets \cup {None}
      /\ sweep.ids \subseteq Ids
      /\ \A c \in Calls : call[c] \in Call /\ CallOK(call[c], session)
      /\ session \in [Tickets -> Session \cup {None}]
  BY Zenon DEF Typed, TypeOK, CallsOK, IndexTypes, Sweep
<1>1. ASSUME NEW c \in Calls, CallStart(c) PROVE Good
  BY Zenon, <1>1, <1>u DEF CallStart, OpenSession, GdsChunk, AbortSession, Begin, indexes
<1>2. ASSUME NEW c \in Calls, NEW t \in Tickets, PutId(c, t) PROVE Good
  <2> DEFINE s == [id |-> call[c].id, key |-> call[c].key, target |-> call[c].target,
                   state |-> "opened", due |-> FALSE]
  <2>1. call[c].id \in Ids
    BY Zenon, <1>0, <1>2 DEF PutId, CallOK, OnId
  <2>2. s \in Session /\ s.id = call[c].id
    BY <1>0, <2>1 DEF Call, Session, State
  <2>3. session'[t] = s /\ s # None
    BY Zenon, <1>0, <1>2, <2>2, NoneFacts DEF PutId
  <2> HIDE DEF s
  <2>4. by_id' = [by_id EXCEPT ![call[c].id] = t] /\ UNCHANGED <<by_idem, by_ticket, granted, sweep>>
    BY <1>2 DEF PutId
  <2>5. IndexTypes'
    BY <1>0, <2>1, <2>4 DEF IndexTypes
  <2>6. ASSUME NEW i \in Ids, by_id'[i] # None
        PROVE  session'[by_id'[i]] # None /\ session'[by_id'[i]].id = i
    <3>1. CASE i = call[c].id
      BY <1>0, <2>1, <2>2, <2>3, <2>4, <3>1 DEF IndexTypes
    <3>2. CASE i # call[c].id
      BY <1>0, <2>1, <2>4, <2>6, <3>2 DEF IndexTypes, Typed, StoreOK, Grows
    <3> QED
      BY <3>1, <3>2
  <2>7. /\ \A k \in Keys : by_idem'[k] # None
                            => session'[by_idem'[k]] # None /\ session'[by_idem'[k]].key = k
        /\ \A u \in by_ticket' \cup granted' \cup sweep'.todo : session'[u] # None
        /\ sweep'.half # None => session'[sweep'.half] # None /\ session'[sweep'.half].key \in Keys
    BY <1>0, <2>4 DEF IndexTypes, Typed, StoreOK, Grows
  <2> QED
    BY Zenon, <2>5, <2>6, <2>7 DEF StoreOK, Good
<1>3. ASSUME NEW c \in Calls, PutTicket(c) PROVE Good
  <2>1. call[c].hold \in Tickets /\ session[call[c].hold] # None
    BY Zenon, <1>0, <1>3 DEF PutTicket, CallOK, Named
  <2>2. by_ticket' = by_ticket \cup {call[c].hold} /\ UNCHANGED <<session, by_id, by_idem, granted, sweep>>
    BY Zenon, <1>3 DEF PutTicket
  <2> QED
    BY <1>0, <2>1, <2>2 DEF IndexTypes, Typed, StoreOK, Good
<1>4. ASSUME NEW c \in Calls, PutKey(c) PROVE Good
  <2>1. /\ call[c].hold \in Tickets /\ session[call[c].hold] # None /\ call[c].key \in Keys
        /\ call[c].key = session[call[c].hold].key
    BY <1>0, <1>4 DEF PutKey, CallOK, Named
  <2>2. /\ by_idem' = [by_idem EXCEPT ![call[c].key] = call[c].hold]
        /\ UNCHANGED <<session, by_id, by_ticket, granted, sweep>>
    BY Zenon, <1>4 DEF PutKey
  <2>3. IndexTypes'
    BY Zenon, <1>0, <2>1, <2>2 DEF IndexTypes
  <2>4. ASSUME NEW k \in Keys, by_idem'[k] # None
        PROVE  session'[by_idem'[k]] # None /\ session'[by_idem'[k]].key = k
    BY <1>0, <2>1, <2>2, <2>4 DEF IndexTypes, Typed, StoreOK
  <2> QED
    BY <2>2, <2>3, <2>4 DEF Typed, StoreOK, Good
<1>5. ASSUME NEW c \in Calls, HookDone(c) PROVE Good
  <2>1. call[c].hold \in Tickets /\ session[call[c].hold] # None
    BY <1>0, <1>5 DEF HookDone, CallOK
  <2>2. granted' = granted \cup {call[c].hold} /\ UNCHANGED <<session, by_id, by_idem, by_ticket, sweep>>
    BY Zenon, <1>5 DEF HookDone, indexes
  <2> QED
    BY <1>0, <2>1, <2>2 DEF IndexTypes, Typed, StoreOK, Good
<1>6. ASSUME NEW c \in Calls, CallStep(c), \A t \in Tickets : ~PutId(c, t),
             ~PutTicket(c), ~PutKey(c), ~HookDone(c)
      PROVE  Good
  BY Zenon, <1>6, <1>u DEF CallStep, CreateHit, CreateMiss, HookFails, NoExecutor, ResolveById,
     ResolveByTicket, BumpFind, BumpActive, ChunkDone, ChunkFails, MarkFailedFind, MarkFailed,
     indexes
<1>7. CASE SweepStart
  <2> DEFINE w == [SweepIdle EXCEPT !.ids = Ids]
  <2>1. SweepIdle \in Sweep /\ SweepIdle.todo = {} /\ SweepIdle.half = None
    BY DEF SweepIdle, Sweep
  <2>2. w \in Sweep /\ w.todo = SweepIdle.todo /\ w.half = SweepIdle.half
    BY <2>1 DEF Sweep
  <2>3. sweep' = w /\ UNCHANGED <<session, by_id, by_idem, by_ticket, granted>>
    BY <1>7 DEF SweepStart, indexes
  <2> HIDE DEF w
  <2> QED
    BY <1>0, <2>1, <2>2, <2>3 DEF IndexTypes, Typed, StoreOK, Good
<1>8. ASSUME NEW i \in Ids, SweepShard(i) PROVE Good
  <2> DEFINE t == by_id[i]
             w == [sweep EXCEPT !.ids = @ \ {i}]
             v == [sweep EXCEPT !.ids = @ \ {i}, !.todo = @ \cup {t}]
  <2>1. CASE t # None /\ (session[t].due \/ session[t].state = "failed")
    <3>1. t \in Tickets /\ session[t] # None
      BY <1>0, <2>1 DEF IndexTypes, Typed, StoreOK
    <3>2. v \in Sweep /\ v.todo = sweep.todo \cup {t} /\ v.half = sweep.half
      BY Zenon, <1>0, <3>1 DEF IndexTypes, Sweep
    <3>3. /\ sweep' = v /\ by_id' = [by_id EXCEPT ![i] = None]
          /\ UNCHANGED <<by_idem, by_ticket, granted>>
      BY <1>8, <2>1 DEF SweepShard
    <3> HIDE DEF t, v
    <3>4. IndexTypes'
      BY <1>0, <3>2, <3>3 DEF IndexTypes
    <3>5. \A j \in Ids : by_id'[j] # None => session'[by_id'[j]] # None /\ session'[by_id'[j]].id = j
      BY <1>0, <3>3 DEF IndexTypes, Typed, StoreOK, Grows
    <3>6. /\ \A k \in Keys : by_idem'[k] # None
                            => session'[by_idem'[k]] # None /\ session'[by_idem'[k]].key = k
          /\ \A u \in by_ticket' \cup granted' \cup sweep'.todo : session'[u] # None
          /\ sweep'.half # None => session'[sweep'.half] # None /\ session'[sweep'.half].key \in Keys
      BY <1>0, <3>1, <3>2, <3>3 DEF IndexTypes, Typed, StoreOK, Grows
    <3> QED
      BY Zenon, <3>4, <3>5, <3>6 DEF StoreOK, Good
  <2>2. CASE ~(t # None /\ (session[t].due \/ session[t].state = "failed"))
    <3>1. w \in Sweep /\ w.todo = sweep.todo /\ w.half = sweep.half
      BY <1>0 DEF IndexTypes, Sweep
    <3>2. sweep' = w /\ UNCHANGED <<session, by_id, by_idem, by_ticket, granted>>
      BY <1>8, <2>2 DEF SweepShard
    <3> HIDE DEF w
    <3> QED
      BY <1>0, <3>1, <3>2 DEF IndexTypes, Typed, StoreOK, Good
  <2> QED
    BY Zenon, <2>1, <2>2
<1>9. ASSUME NEW t \in Tickets, SweepTicket(t) PROVE Good
  <2> DEFINE h == IF session[t].key = None THEN None ELSE t
             w == [sweep EXCEPT !.todo = @ \ {t}, !.half = h]
  <2>1. h \in Tickets \cup {None}
    OBVIOUS
  <2>2. w \in Sweep /\ w.todo = sweep.todo \ {t} /\ w.half = h
    BY Zenon, <1>0, <2>1 DEF IndexTypes, Sweep
  <2>3. /\ sweep' = w /\ by_ticket' = by_ticket \ {t}
        /\ UNCHANGED <<session, by_id, by_idem, granted>>
    BY <1>9 DEF SweepTicket
  <2>4. session[t] # None /\ session[t] \in Session
    BY <1>0, <1>9 DEF SweepTicket, Typed, StoreOK
  <2>5. h # None => session[h] # None /\ session[h].key \in Keys
    BY <2>4 DEF Session
  <2> HIDE DEF w, h
  <2> QED
    BY <1>0, <2>2, <2>3, <2>5 DEF IndexTypes, Typed, StoreOK, Good
<1>10. CASE SweepKey
  <2> DEFINE w == [sweep EXCEPT !.half = None]
  <2>1. w \in Sweep /\ w.todo = sweep.todo /\ w.half = None
    BY <1>0 DEF IndexTypes, Sweep
  <2>2. /\ sweep' = w /\ by_idem' = [by_idem EXCEPT ![session[sweep.half].key] = None]
        /\ UNCHANGED <<session, by_id, by_ticket, granted>>
    BY <1>10 DEF SweepKey
  <2> HIDE DEF w
  <2>3. IndexTypes'
    BY Zenon, <1>0, <2>1, <2>2 DEF IndexTypes
  <2>4. ASSUME NEW k \in Keys, by_idem'[k] # None
        PROVE  session'[by_idem'[k]] # None /\ session'[by_idem'[k]].key = k
    BY <1>0, <2>2, <2>4 DEF IndexTypes, Typed, StoreOK
  <2> QED
    BY <1>0, <2>1, <2>2, <2>3, <2>4 DEF Typed, StoreOK, Good
<1>11. ASSUME NEW t \in Tickets, Expire(t) PROVE Good
  BY <1>11, <1>u DEF Expire, indexes
<1> QED
  BY <1>1, <1>2, <1>3, <1>4, <1>5, <1>6, <1>7, <1>8, <1>9, <1>10, <1>11
     DEF Next, CallStep, SweepStep

\* Only an open that misses its key can find that another is creating for it.
LEMMA RacedStep ==
    ASSUME Next
    PROVE  raced' = raced \/ \E c \in Calls : CreateMiss(c)
<1>1. ASSUME NEW c \in Calls, CallStart(c) PROVE raced' = raced
  BY Zenon, <1>1 DEF CallStart, OpenSession, GdsChunk, AbortSession, Begin, history
<1>2. ASSUME NEW c \in Calls, CallStep(c), ~CreateMiss(c) PROVE raced' = raced
  BY Zenon, <1>2 DEF CallStep, CreateHit, PutId, PutTicket, PutKey, HookDone, HookFails, NoExecutor,
     ResolveById, ResolveByTicket, BumpFind, BumpActive, ChunkDone, ChunkFails, MarkFailedFind,
     MarkFailed, history
<1>3. ASSUME SweepStep \/ \E t \in Tickets : Expire(t) PROVE raced' = raced
  BY Zenon, <1>3 DEF SweepStep, SweepStart, SweepShard, SweepTicket, SweepKey, Expire, history
<1> QED
  BY <1>1, <1>2, <1>3 DEF Next

LEMMA StepTyped ==
    ASSUME Typed, Next
    PROVE  Typed'
<1>0. Grows /\ session' \in [Tickets -> Session \cup {None}]
  BY StepSession
<1>1. call' \in [Calls -> Call] /\ CallsOK'
  BY <1>0, StepCall
<1>2. IndexTypes' /\ StoreOK'
  BY <1>0, StepStore
<1>3. raced' \subseteq Keys
  <2>1. ASSUME NEW c \in Calls, CreateMiss(c) PROVE raced' \subseteq Keys
    BY Zenon, <2>1 DEF CreateMiss, Typed, TypeOK, CallsOK, CallOK
  <2> QED
    BY Zenon, <2>1, RacedStep DEF Typed, TypeOK
<1>4. torn' \subseteq Tickets
  <2>0. by_id \in [Ids -> Tickets \cup {None}] /\ torn \subseteq Tickets
    BY DEF Typed, TypeOK
  <2>1. ASSUME NEW c \in Calls, NEW t \in Tickets, PutId(c, t) PROVE torn' \subseteq Tickets
    <3>1. call[c].id \in Ids
      BY <2>1 DEF PutId, Typed, CallsOK, CallOK, OnId
    <3> QED
      BY <2>0, <2>1, <3>1 DEF PutId
  <2>2. ASSUME NEW i \in Ids, SweepShard(i) PROVE torn' \subseteq Tickets
    BY <2>0, <2>2 DEF SweepShard
  <2> QED
    BY <2>0, <2>1, <2>2 DEF Next, CallStart, CallStep, SweepStep, OpenSession, GdsChunk,
       AbortSession, Begin, CreateHit, CreateMiss, PutTicket, PutKey, HookDone, HookFails,
       NoExecutor, ResolveById, ResolveByTicket, BumpFind, BumpActive, ChunkDone, ChunkFails,
       MarkFailedFind, MarkFailed, SweepStart, SweepTicket, SweepKey, Expire, history
<1>5. calls' \in 0..MaxCalls
  <2>0. calls \in 0..MaxCalls
    BY DEF Typed, TypeOK
  <2>1. ASSUME NEW c, NEW r, Begin(c, r) PROVE calls' \in 0..MaxCalls
    BY <2>0, <2>1, BoundAssumption DEF Begin
  <2>2. ASSUME NEW c \in Calls, CallStart(c) PROVE calls' \in 0..MaxCalls
    BY Zenon, <2>1, <2>2 DEF CallStart, OpenSession, GdsChunk, AbortSession
  <2> QED
    BY Zenon, <2>0, <2>2 DEF Next, CallStep, SweepStep, CreateHit, CreateMiss, PutId, PutTicket,
       PutKey, HookDone, HookFails, NoExecutor, ResolveById, ResolveByTicket, BumpFind, BumpActive,
       ChunkDone, ChunkFails, MarkFailedFind, MarkFailed, SweepStart, SweepShard, SweepTicket,
       SweepKey, Expire
<1> QED
  BY <1>0, <1>1, <1>2, <1>3, <1>4, <1>5 DEF Typed, TypeOK, IndexTypes

-----------------------------------------------------------------------------
(* The steps that have no part in creating a session.                      *)

QuietCall(c) ==
    \/ CallStart(c) \/ HookDone(c) \/ HookFails(c) \/ NoExecutor(c)
    \/ ResolveById(c) \/ ResolveByTicket(c) \/ BumpFind(c) \/ BumpActive(c)
    \/ ChunkDone(c) \/ ChunkFails(c) \/ MarkFailedFind(c) \/ MarkFailed(c)

LEMMA QuietIndexes ==
    ASSUME NEW c \in Calls, QuietCall(c)
    PROVE  UNCHANGED <<by_id, by_idem, by_ticket, sweep, raced, torn>>
BY Zenon DEF QuietCall, CallStart, OpenSession, GdsChunk, AbortSession, Begin, HookDone, HookFails,
   NoExecutor, ResolveById, ResolveByTicket, BumpFind, BumpActive, ChunkDone, ChunkFails,
   MarkFailedFind, MarkFailed, indexes, history

LEMMA QuietCalls ==
    ASSUME Typed, NEW c \in Calls, QuietCall(c)
    PROVE  /\ \A d \in Calls : d # c => call'[d] = call[d]
           /\ call[c].pos \notin Creating
           /\ call'[c].pos \notin Named \cup {"hook"}
           /\ call'[c].pos \in Creating => call'[c].key = None
<1>0. call \in [Calls -> Call] /\ call[c] \in Call
  BY Zenon DEF Typed, TypeOK
<1>i. Idle \in Call /\ Idle.pos = "idle" /\ Idle.key = None
  BY Zenon, IdleOK DEF Idle
<1>1. \A d \in Calls : d # c => call'[d] = call[d]
  BY Zenon, <1>0 DEF QuietCall, CallStart, OpenSession, GdsChunk, AbortSession, Begin, HookDone,
     HookFails, NoExecutor, ResolveById, ResolveByTicket, BumpFind, BumpActive, ChunkDone,
     ChunkFails, MarkFailedFind, MarkFailed, Return, Goto, At
<1>2. call[c].pos \notin Creating
  BY Zenon, <1>i DEF QuietCall, CallStart, OpenSession, GdsChunk, AbortSession, Begin, HookDone,
     HookFails, NoExecutor, ResolveById, ResolveByTicket, BumpFind, BumpActive, ChunkDone,
     ChunkFails, MarkFailedFind, MarkFailed, Creating
<1>3. CASE CallStart(c)
  <2>1. ASSUME NEW r, Begin(c, r), r.pos \notin Named \cup {"hook"},
               r.pos \in Creating => r.key = None
        PROVE  /\ call'[c].pos \notin Named \cup {"hook"}
               /\ call'[c].pos \in Creating => call'[c].key = None
    BY Zenon, <1>0, <2>1 DEF Begin
  <2>2. ASSUME NEW i \in Ids, NEW k \in Keys \cup {None}, NEW g, OpenSession(c, i, k, g)
        PROVE  /\ call'[c].pos \notin Named \cup {"hook"}
               /\ call'[c].pos \in Creating => call'[c].key = None
    <3> DEFINE r == [Idle EXCEPT !.pos = IF k = None THEN "put_id" ELSE "lookup",
                                 !.id = i, !.key = k, !.target = g]
    <3>1. r.pos = (IF k = None THEN "put_id" ELSE "lookup") /\ r.key = k
      BY <1>i DEF Call
    <3>2. Begin(c, r)
      BY Zenon, <2>2 DEF OpenSession
    <3> HIDE DEF r
    <3> QED
      BY Zenon, <2>1, <3>1, <3>2 DEF Named, Creating
  <2>3. ASSUME NEW t \in Tickets, GdsChunk(c, t)
        PROVE  /\ call'[c].pos \notin Named \cup {"hook"}
               /\ call'[c].pos \in Creating => call'[c].key = None
    <3> DEFINE r == [Idle EXCEPT !.pos = "resolve", !.id = session[t].id, !.hold = t]
    <3>1. r.pos = "resolve"
      BY <1>i DEF Call
    <3>2. Begin(c, r)
      BY Zenon, <2>3 DEF GdsChunk
    <3> HIDE DEF r
    <3> QED
      BY Zenon, <2>1, <3>1, <3>2 DEF Named, Creating
  <2>4. ASSUME NEW t \in Tickets, AbortSession(c, t)
        PROVE  /\ call'[c].pos \notin Named \cup {"hook"}
               /\ call'[c].pos \in Creating => call'[c].key = None
    <3> DEFINE r == [Idle EXCEPT !.pos = "fail_find", !.id = session[t].id]
    <3>1. r.pos = "fail_find"
      BY <1>i DEF Call
    <3>2. Begin(c, r)
      BY Zenon, <2>4 DEF AbortSession
    <3> HIDE DEF r
    <3> QED
      BY <2>1, <3>1, <3>2 DEF Named, Creating
  <2> QED
    BY Zenon, <1>1, <1>2, <1>3, <2>2, <2>3, <2>4 DEF CallStart
<1>4. CASE HookDone(c) \/ NoExecutor(c) \/ ChunkDone(c) \/ MarkFailed(c)
  <2>1. call'[c] = Idle
    BY Zenon, <1>0, <1>4 DEF HookDone, NoExecutor, ChunkDone, MarkFailed, Return
  <2> QED
    BY Zenon, <1>1, <1>2, <1>i, <2>1 DEF Named, Creating
<1>5. CASE \/ HookFails(c) \/ ResolveById(c) \/ ResolveByTicket(c) \/ BumpFind(c)
           \/ BumpActive(c) \/ ChunkFails(c) \/ MarkFailedFind(c)
  <2>1. call'[c].pos \in {"fail_find", "resolve_ticket", "bump_find", "idle", "work",
                          "bump_cas", "fail_store"}
    <3>1. CASE HookFails(c)
      BY <1>0, <1>i, <3>1 DEF HookFails, Call
    <3>2. CASE ResolveById(c)
      BY Zenon, <1>0, <3>2 DEF ResolveById, Call
    <3>3. CASE ResolveByTicket(c)
      <4>1. CASE At(c, "bump_find")
        BY Zenon, <1>0, <1>i, <4>1 DEF At, Call
      <4>2. CASE Return(c)
        BY Zenon, <1>0, <1>i, <4>2 DEF Return
      <4> QED
        BY <3>3, <4>1, <4>2 DEF ResolveByTicket
    <3>4. CASE BumpFind(c)
      BY <1>0, <3>4 DEF BumpFind, Call
    <3>5. CASE BumpActive(c)
      BY <1>0, <3>5 DEF BumpActive, Call
    <3>6. CASE ChunkFails(c)
      BY Zenon, <1>0, <3>6 DEF ChunkFails, Goto, Call
    <3>7. CASE MarkFailedFind(c)
      BY <1>0, <1>i, <3>7 DEF MarkFailedFind, Return, Call
    <3> QED
      BY Zenon, <1>5, <3>1, <3>2, <3>3, <3>4, <3>5, <3>6, <3>7
  <2> QED
    BY Zenon, <1>1, <1>2, <2>1 DEF Named, Creating
<1> QED
  BY Zenon, <1>1, <1>2, <1>3, <1>4, <1>5 DEF QuietCall
-----------------------------------------------------------------------------
(* The indexes agree.                                                      *)

\* A session is created by a call that has put it into by_id.
LEMMA CreatedBy ==
    ASSUME Typed, NEW t \in Tickets
    PROVE  BeingCreated(t) <=> \E c \in Calls : call[c].pos \in Named /\ call[c].hold = t
BY Zenon, NoneFacts DEF Typed, CallsOK, CallOK, BeingCreated, Creating, Named

LEMMA CreatedByNext ==
    ASSUME Typed', NEW t \in Tickets
    PROVE  BeingCreated(t)' <=> \E c \in Calls : call'[c].pos \in Named /\ call'[c].hold = t
BY Zenon, NoneFacts DEF Typed, CallsOK, CallOK, BeingCreated, Creating, Named

LEMMA CreatedStays ==
    ASSUME Typed, Typed', NEW t \in Tickets,
           \A d \in Calls : call'[d].pos \in Named /\ call'[d].hold = t
                            <=> call[d].pos \in Named /\ call[d].hold = t
    PROVE  BeingCreated(t)' <=> BeingCreated(t)
BY Zenon, CreatedBy, CreatedByNext

LEMMA LiveStays ==
    ASSUME Grows, NEW t \in Tickets, session[t] # None, by_id'[session[t].id] = by_id[session[t].id]
    PROVE  Live(t)' <=> Live(t)
BY Zenon DEF Grows, Live

\* The calls that create are the same and for the same sessions.
NamedStays ==
    \A c \in Calls : call[c].pos \in Named \/ call'[c].pos \in Named =>
      call[c].pos \in Named /\ call'[c].pos \in Named /\ call'[c].hold = call[c].hold

LEMMA SweptExists ==
    ASSUME Typed, NEW t \in Tickets, BeingSwept(t)
    PROVE  session[t] # None
BY Zenon, NoneFacts DEF Typed, StoreOK, BeingSwept

LEMMA IndexedStays ==
    ASSUME Typed, Typed', Indexed, Grows, NamedStays,
           UNCHANGED <<by_id, by_idem, by_ticket, torn>>,
           sweep'.todo = sweep.todo, sweep'.half = sweep.half
    PROVE  Indexed'
<1>0. \A c \in Calls : call[c].pos \in Named => call[c].hold \in Tickets /\ session[call[c].hold] # None
  BY Zenon DEF Typed, CallsOK, CallOK
<1>1. OneCreator'
  BY DEF Indexed, OneCreator, NamedStays
<1>2. \A t \in Tickets : session[t] # None => (Live(t)' <=> Live(t))
  BY Zenon, LiveStays
<1>3. CreatedIsLive'
  <2> SUFFICES ASSUME NEW c \in Calls, call'[c].pos \in Named
               PROVE  (Live(call[c].hold) \/ call[c].hold \in torn)'
    BY Zenon DEF CreatedIsLive
  <2>1. call[c].pos \in Named /\ call'[c].hold = call[c].hold
    BY Zenon DEF NamedStays
  <2>2. Live(call[c].hold) \/ call[c].hold \in torn
    BY Zenon, <2>1 DEF Indexed, CreatedIsLive
  <2>3. /\ session[call[c].hold] # None /\ session'[call[c].hold] # None
        /\ session'[call[c].hold].id = session[call[c].hold].id
    BY Zenon, <1>0, <2>1 DEF Grows
  <2> QED
    BY Zenon, <2>1, <2>2, <2>3 DEF Live
<1>4. SweptIsOut'
  <2>1. \A t \in Tickets : BeingSwept(t)' <=> BeingSwept(t)
    BY Zenon DEF BeingSwept
  <2> QED
    BY Zenon, <1>2, <2>1, SweptExists DEF Indexed, SweptIsOut
<1>5. IndexesAgree'
  <2> SUFFICES ASSUME NEW t \in Tickets, t \in by_ticket' \/ \E k \in Keys : by_idem'[k] = t
               PROVE  (Live(t) \/ BeingCreated(t) \/ BeingSwept(t) \/ t \in torn)'
    BY Zenon DEF IndexesAgree
  <2>1. Live(t) \/ BeingCreated(t) \/ BeingSwept(t) \/ t \in torn
    BY Zenon DEF Indexed, IndexesAgree
  <2>2. session[t] # None
    BY SMTT(30), NoneFacts DEF Typed, StoreOK
  <2>3. BeingCreated(t) => BeingCreated(t)'
    BY SMTT(30), CreatedBy, CreatedByNext DEF NamedStays
  <2> QED
    BY Zenon, <1>2, <2>1, <2>2, <2>3 DEF BeingSwept
<1> QED
  BY Zenon, <1>1, <1>3, <1>4, <1>5 DEF Indexed
\* What the sections of Create do to their call.
LEMMA CreateCalls ==
    ASSUME Typed, NEW c \in Calls
    PROVE  /\ CreateHit(c) =>
                /\ \A d \in Calls : d # c => call'[d] = call[d]
                /\ \/ call'[c].pos = "hook" /\ call'[c].hold = by_idem[call[c].key]
                   \/ call'[c].pos = "idle"
           /\ CreateMiss(c) =>
                /\ \A d \in Calls : d # c => call'[d] = call[d]
                /\ call'[c].pos = "put_id" /\ call'[c].key = call[c].key
           /\ \A t \in Tickets : PutId(c, t) =>
                /\ \A d \in Calls : d # c => call'[d] = call[d]
                /\ call'[c].pos = "put_ticket" /\ call'[c].hold = t /\ call'[c].key = call[c].key
           /\ PutTicket(c) =>
                /\ \A d \in Calls : d # c => call'[d] = call[d]
                /\ call'[c].pos = IF call[c].key = None THEN "hook" ELSE "put_key"
                /\ call'[c].hold = call[c].hold /\ call'[c].key = call[c].key
           /\ PutKey(c) =>
                /\ \A d \in Calls : d # c => call'[d] = call[d]
                /\ call'[c].pos = "hook" /\ call'[c].hold = call[c].hold
<1>0. call \in [Calls -> Call] /\ call[c] \in Call
  BY Zenon DEF Typed, TypeOK
<1>i. Idle \in Call /\ Idle.pos = "idle"
  BY Zenon, IdleOK DEF Idle
<1>1. ASSUME CreateHit(c)
      PROVE  /\ \A d \in Calls : d # c => call'[d] = call[d]
             /\ \/ call'[c].pos = "hook" /\ call'[c].hold = by_idem[call[c].key]
                \/ call'[c].pos = "idle"
  <2> DEFINE r == [Idle EXCEPT !.pos = "hook", !.hold = by_idem[call[c].key]]
  <2>1. r.pos = "hook" /\ r.hold = by_idem[call[c].key]
    BY Zenon, <1>i DEF Call
  <2>2. call' = [call EXCEPT ![c] = r] \/ call' = [call EXCEPT ![c] = Idle]
    BY Zenon, <1>1 DEF CreateHit, Return
  <2> HIDE DEF r
  <2> QED
    BY <1>0, <1>i, <2>1, <2>2
<1>2. ASSUME CreateMiss(c)
      PROVE  /\ \A d \in Calls : d # c => call'[d] = call[d]
             /\ call'[c].pos = "put_id" /\ call'[c].key = call[c].key
  BY <1>0, <1>2 DEF CreateMiss, Goto, Call
<1>3. ASSUME NEW t \in Tickets, PutId(c, t)
      PROVE  /\ \A d \in Calls : d # c => call'[d] = call[d]
             /\ call'[c].pos = "put_ticket" /\ call'[c].hold = t /\ call'[c].key = call[c].key
  <2> DEFINE r == [Idle EXCEPT !.pos = "put_ticket", !.key = call[c].key, !.hold = t]
  <2>1. r.pos = "put_ticket" /\ r.hold = t /\ r.key = call[c].key
    BY <1>i DEF Call
  <2>2. call' = [call EXCEPT ![c] = r]
    BY <1>3 DEF PutId
  <2> HIDE DEF r
  <2> QED
    BY <1>0, <2>1, <2>2
<1>4. ASSUME PutTicket(c)
      PROVE  /\ \A d \in Calls : d # c => call'[d] = call[d]
             /\ call'[c].pos = IF call[c].key = None THEN "hook" ELSE "put_key"
             /\ call'[c].hold = call[c].hold /\ call'[c].key = call[c].key
  BY <1>0, <1>4 DEF PutTicket, Goto, Call
<1>5. ASSUME PutKey(c)
      PROVE  /\ \A d \in Calls : d # c => call'[d] = call[d]
             /\ call'[c].pos = "hook" /\ call'[c].hold = call[c].hold
  <2> DEFINE r == [Idle EXCEPT !.pos = "hook", !.hold = call[c].hold]
  <2>1. r.pos = "hook" /\ r.hold = call[c].hold
    BY <1>i DEF Call
  <2>2. call' = [call EXCEPT ![c] = r]
    BY <1>5 DEF PutKey
  <2> HIDE DEF r
  <2> QED
    BY <1>0, <2>1, <2>2
<1> QED
  BY Zenon, <1>1, <1>2, <1>3, <1>4, <1>5

LEMMA IndexedPutId ==
    ASSUME Typed, Typed', Indexed, Grows, NEW c \in Calls, NEW t \in Tickets, PutId(c, t)
    PROVE  Indexed'
<1>1. /\ \A d \in Calls : d # c => call'[d] = call[d]
      /\ call'[c].pos = "put_ticket" /\ call'[c].hold = t
  BY Zenon, CreateCalls
<1>2. /\ session[t] = None /\ call[c].pos = "put_id" /\ call[c].id \in Ids
      /\ by_id' = [by_id EXCEPT ![call[c].id] = t]
      /\ torn' = torn \cup ({by_id[call[c].id]} \ {None})
      /\ UNCHANGED <<by_idem, by_ticket, sweep>>
  BY Zenon DEF PutId, Typed, CallsOK, CallOK, OnId
<1>3. by_id \in [Ids -> Tickets \cup {None}] /\ session \in [Tickets -> Session \cup {None}]
  BY Zenon DEF Typed, TypeOK
<1>4. \A d \in Calls : call[d].pos \in Named => call[d].hold \in Tickets /\ session[call[d].hold] # None
  BY Zenon DEF Typed, CallsOK, CallOK
<1>5. ASSUME NEW s \in Tickets, session[s] # None
      PROVE  /\ Live(s) => Live(s)' \/ s \in torn'
             /\ Live(s)' => Live(s)
  <2>1. s # t /\ session[s].id \in Ids
    BY Zenon, <1>2, <1>3, <1>5 DEF Session
  <2>2. session'[s] # None /\ session'[s].id = session[s].id
    BY Zenon, <1>5 DEF Grows
  <2>3. CASE session[s].id = call[c].id
    BY Zenon, <1>2, <1>3, <2>1, <2>2, <2>3, NoneFacts DEF Live
  <2>4. CASE session[s].id # call[c].id
    BY Zenon, <1>2, <1>3, <1>5, <2>1, <2>2, <2>4 DEF Live
  <2> QED
    BY Zenon, <2>3, <2>4
<1>6. Live(t)'
  <2>1. session'[t] = [id |-> call[c].id, key |-> call[c].key, target |-> call[c].target,
                       state |-> "opened", due |-> FALSE]
    BY Zenon, <1>3 DEF PutId
  <2>2. session'[t].id = call[c].id
    BY SMTT(30), <2>1
  <2>3. session'[t] # None
    BY Zenon, <1>1 DEF Typed, CallsOK, CallOK, Named
  <2> QED
    BY Zenon, <1>2, <1>3, <2>2, <2>3 DEF Live
<1>7. OneCreator'
  BY <1>1, <1>2, <1>4 DEF Indexed, OneCreator, Named
<1>8. CreatedIsLive'
  <2> SUFFICES ASSUME NEW d \in Calls, call'[d].pos \in Named
               PROVE  (Live(call[d].hold) \/ call[d].hold \in torn)'
    BY Zenon DEF CreatedIsLive
  <2>1. CASE d = c
    BY Zenon, <1>1, <1>6, <2>1 DEF Live
  <2>2. CASE d # c
    <3>1. call'[d] = call[d] /\ call[d].hold \in Tickets /\ session[call[d].hold] # None
      BY Zenon, <1>1, <1>4, <2>2
    <3>2. Live(call[d].hold) \/ call[d].hold \in torn
      BY Zenon, <3>1 DEF Indexed, CreatedIsLive
    <3> DEFINE s == call[d].hold
    <3>3. Live(s) => by_id'[session'[s].id] = s \/ s \in torn'
      BY Zenon, <1>5, <3>1 DEF Live
    <3>4. session'[s] # None
      BY Zenon, <3>1 DEF Grows
    <3> QED
      BY Zenon, <1>2, <3>1, <3>2, <3>3, <3>4 DEF Live
  <2> QED
    BY Zenon, <2>1, <2>2
<1>9. SweptIsOut'
  <2>1. ASSUME NEW s \in Tickets, BeingSwept(s)' PROVE ~Live(s)'
    <3>1. BeingSwept(s)
      BY Zenon, <1>2, <2>1 DEF BeingSwept
    <3> QED
      BY Zenon, <1>5, <3>1, SweptExists DEF Indexed, SweptIsOut
  <2>2. /\ (sweep.half # None => sweep.half \notin by_ticket \/ sweep.half \in torn)'
        /\ (sweep.half \notin sweep.todo)'
    BY Zenon, <1>2 DEF Indexed, SweptIsOut
  <2> QED
    BY Zenon, <2>1, <2>2 DEF SweptIsOut
<1>10. IndexesAgree'
  <2> SUFFICES ASSUME NEW s \in Tickets, s \in by_ticket' \/ \E k \in Keys : by_idem'[k] = s
               PROVE  (Live(s) \/ BeingCreated(s) \/ BeingSwept(s) \/ s \in torn)'
    BY Zenon DEF IndexesAgree
  <2>1. Live(s) \/ BeingCreated(s) \/ BeingSwept(s) \/ s \in torn
    BY Zenon, <1>2 DEF Indexed, IndexesAgree
  <2>2. session[s] # None
    BY SMTT(30), <1>2, NoneFacts DEF Typed, StoreOK
  <2>3. BeingCreated(s) => BeingCreated(s)'
    BY <1>1, <1>2, CreatedBy, CreatedByNext DEF Named
  <2>4. BeingSwept(s) => BeingSwept(s)'
    BY <1>2 DEF BeingSwept
  <2> QED
    BY Zenon, <1>2, <1>5, <2>1, <2>2, <2>3, <2>4
<1> QED
  BY Zenon, <1>7, <1>8, <1>9, <1>10 DEF Indexed
\* The other two entries of a new session, which is live or torn by then.
LEMMA IndexedPut ==
    ASSUME Typed, Typed', Indexed, NEW c \in Calls, PutTicket(c) \/ PutKey(c)
    PROVE  Indexed'
<1> DEFINE t == call[c].hold
<1>1. /\ \A d \in Calls : d # c => call'[d] = call[d]
      /\ call[c].pos \in Named /\ call'[c].hold = t
  BY Zenon, CreateCalls DEF PutTicket, PutKey, Named
<1>2. /\ UNCHANGED <<session, by_id, sweep, torn>>
      /\ by_ticket' \subseteq by_ticket \cup {t}
      /\ \A k \in Keys : by_idem'[k] = by_idem[k] \/ by_idem'[k] = t
  BY Zenon DEF PutTicket, PutKey, Typed, TypeOK, history
<1>3. t \in Tickets /\ (Live(t) \/ t \in torn)
  BY Zenon, <1>1 DEF Typed, CallsOK, CallOK, Indexed, CreatedIsLive
<1>4. \A s \in Tickets : (Live(s)' <=> Live(s)) /\ (BeingSwept(s)' <=> BeingSwept(s))
  BY Zenon, <1>2 DEF Live, BeingSwept
<1>5. \A d \in Calls : call'[d].pos \in Named => call[d].pos \in Named /\ call'[d].hold = call[d].hold
  BY Zenon, <1>1
<1>6. OneCreator'
  BY Zenon, <1>5 DEF Indexed, OneCreator
<1>7. CreatedIsLive'
  BY Zenon, <1>2, <1>5 DEF Indexed, CreatedIsLive, Live
<1>8. SweptIsOut'
  <2>1. \A s \in Tickets : BeingSwept(s)' => ~Live(s)'
    BY Zenon, <1>4 DEF Indexed, SweptIsOut
  <2>2. ASSUME sweep'.half # None PROVE sweep'.half \notin by_ticket' \/ sweep'.half \in torn'
    <3>1. sweep.half \in Tickets /\ ~Live(sweep.half)
      BY Zenon, <1>2, <2>2 DEF Typed, TypeOK, Sweep, Indexed, SweptIsOut, BeingSwept
    <3> QED
      BY Zenon, <1>2, <1>3, <2>2, <3>1 DEF Indexed, SweptIsOut
  <2>3. (sweep.half \notin sweep.todo)'
    BY Zenon, <1>2 DEF Indexed, SweptIsOut
  <2> QED
    BY Zenon, <2>1, <2>2, <2>3 DEF SweptIsOut
<1>9. IndexesAgree'
  <2> SUFFICES ASSUME NEW s \in Tickets, s \in by_ticket' \/ \E k \in Keys : by_idem'[k] = s
               PROVE  (Live(s) \/ BeingCreated(s) \/ BeingSwept(s) \/ s \in torn)'
    BY Zenon DEF IndexesAgree
  <2>1. CASE s = t
    BY Zenon, <1>2, <1>3, <1>4, <2>1
  <2>2. CASE s # t
    <3>1. Live(s) \/ BeingCreated(s) \/ BeingSwept(s) \/ s \in torn
      BY Zenon, <1>2, <2>2 DEF Indexed, IndexesAgree
    <3>2. BeingCreated(s) => BeingCreated(s)'
      BY Zenon, <1>1, <2>2, CreatedBy, CreatedByNext
    <3> QED
      BY Zenon, <1>2, <1>4, <3>1, <3>2
  <2> QED
    BY Zenon, <2>1, <2>2
<1> QED
  BY Zenon, <1>6, <1>7, <1>8, <1>9 DEF Indexed

\* Step one of the sweep: out of by_id, and on the list.
LEMMA IndexedShard ==
    ASSUME Typed, Typed', Indexed, Grows, NEW i \in Ids, SweepShard(i)
    PROVE  Indexed'
<1> DEFINE out == by_id[i] # None /\ (session[by_id[i]].due \/ session[by_id[i]].state = "failed")
           w == [sweep EXCEPT !.ids = @ \ {i}]
<1>0. sweep \in Sweep /\ by_id \in [Ids -> Tickets \cup {None}]
  BY DEF Typed, TypeOK
<1>1. CASE out
  <2>1. PICK t \in Tickets : by_id[i] = t /\ session[t] # None /\ session[t].id = i
    BY <1>0, <1>1 DEF Typed, StoreOK
  <2> DEFINE v == [sweep EXCEPT !.ids = @ \ {i}, !.todo = @ \cup {t}]
  <2>2. v.todo = sweep.todo \cup {t} /\ v.half = sweep.half
    BY <1>0 DEF Sweep
  <2>3. /\ sweep' = v /\ by_id' = [by_id EXCEPT ![i] = None]
        /\ torn' = IF \E c \in Calls : call[c].pos \in Creating /\ call[c].hold = t
                   THEN torn \cup {t} ELSE torn
        /\ UNCHANGED <<by_idem, by_ticket, call>>
    BY <1>1, <2>1 DEF SweepShard
  <2>4. \A s \in Tickets : BeingSwept(s)' <=> BeingSwept(s) \/ s = t
    BY <2>2, <2>3 DEF BeingSwept
  <2>5. torn \subseteq torn' /\ sweep'.half = sweep.half
    BY <2>2, <2>3
  <2>6. ASSUME NEW s \in Tickets, session[s] # None, s # t
        PROVE  Live(s)' <=> Live(s)
    <3>1. session[s].id \in Ids
      BY Zenon, <2>6 DEF Typed, TypeOK, Session
    <3>2. session'[s] # None /\ session'[s].id = session[s].id
      BY Zenon, <2>6 DEF Grows
    <3> QED
      BY Zenon, <1>0, <2>1, <2>3, <2>6, <3>1, <3>2, NoneFacts DEF Live
  <2>7. ~Live(t)'
    <3>1. session'[t].id = i
      BY <2>1 DEF Grows
    <3>2. by_id'[i] = None
      BY Zenon, <1>0, <2>3
    <3> QED
      BY Zenon, <2>1, <3>1, <3>2, NoneFacts DEF Live
  <2> HIDE DEF v, w
  <2>8. OneCreator'
    BY Zenon, <2>3 DEF Indexed, OneCreator
  <2>9. CreatedIsLive'
    <3> SUFFICES ASSUME NEW c \in Calls, call[c].pos \in Named
                 PROVE  \/ /\ by_id'[session'[call[c].hold].id] = call[c].hold
                           /\ session'[call[c].hold] # None
                        \/ call[c].hold \in torn'
      BY Zenon, <2>3 DEF CreatedIsLive, Live
    <3>1. /\ call[c].hold \in Tickets /\ session[call[c].hold] # None
          /\ Live(call[c].hold) \/ call[c].hold \in torn
      BY Zenon DEF Typed, CallsOK, CallOK, Indexed, CreatedIsLive
    <3>2. CASE call[c].hold = t
      BY Zenon, <2>3, <3>2 DEF Named, Creating
    <3>3. CASE call[c].hold # t
      BY Zenon, <2>5, <2>6, <3>1, <3>3 DEF Live
    <3> QED
      BY Zenon, <3>2, <3>3
  <2>10. SweptIsOut'
    <3>1. ASSUME NEW s \in Tickets, BeingSwept(s)' PROVE ~Live(s)'
      BY Zenon, <2>4, <2>6, <2>7, <3>1, SweptExists DEF Indexed, SweptIsOut
    <3>2. (sweep.half # None => sweep.half \notin by_ticket \/ sweep.half \in torn)'
      BY Zenon, <2>3, <2>5 DEF Indexed, SweptIsOut
    <3>3. sweep.half # t
      BY Zenon, <2>1, NoneFacts DEF Indexed, SweptIsOut, BeingSwept, Live
    <3>4. (sweep.half \notin sweep.todo)'
      BY Zenon, <2>2, <2>3, <3>3 DEF Indexed, SweptIsOut
    <3> QED
      BY Zenon, <3>1, <3>2, <3>4 DEF SweptIsOut
  <2>11. IndexesAgree'
    <3> SUFFICES ASSUME NEW s \in Tickets, s \in by_ticket' \/ \E k \in Keys : by_idem'[k] = s
                 PROVE  (Live(s) \/ BeingCreated(s) \/ BeingSwept(s) \/ s \in torn)'
      BY Zenon DEF IndexesAgree
    <3>1. Live(s) \/ BeingCreated(s) \/ BeingSwept(s) \/ s \in torn
      BY Zenon, <2>3 DEF Indexed, IndexesAgree
    <3>2. session[s] # None
      BY <2>3, NoneFacts DEF Typed, StoreOK
    <3>3. BeingCreated(s) => BeingCreated(s)'
      BY Zenon, <2>3 DEF BeingCreated
    <3> QED
      BY <2>4, <2>5, <2>6, <3>1, <3>2, <3>3
  <2> QED
    BY Zenon, <2>8, <2>9, <2>10, <2>11 DEF Indexed
<1>2. CASE ~out
  <2>1. w.todo = sweep.todo /\ w.half = sweep.half
    BY Zenon, <1>0 DEF Sweep
  <2>2. sweep' = w /\ UNCHANGED <<by_id, by_idem, by_ticket, torn, call>>
    BY Zenon, <1>2 DEF SweepShard
  <2> HIDE DEF w
  <2>3. NamedStays
    BY Zenon, <2>2 DEF NamedStays
  <2> QED
    BY <2>1, <2>2, <2>3, IndexedStays
<1> QED
  BY Zenon, <1>1, <1>2

\* Step two: the ticket's entry, then the key's.
LEMMA IndexedSweep ==
    ASSUME Typed, Typed', Indexed, SweepKey \/ \E t \in Tickets : SweepTicket(t)
    PROVE  Indexed'
<1>0. /\ UNCHANGED <<session, by_id, torn, call>>
      /\ sweep \in Sweep
  BY Zenon DEF SweepKey, SweepTicket, Typed, TypeOK, history
<1>1. OneCreator' /\ CreatedIsLive'
  BY Zenon, <1>0 DEF Indexed, OneCreator, CreatedIsLive, Live
<1>2. \A s \in Tickets : (Live(s)' <=> Live(s)) /\ (BeingCreated(s)' <=> BeingCreated(s))
  BY Zenon, <1>0 DEF Live, BeingCreated
<1>3. ASSUME NEW t \in Tickets, SweepTicket(t) PROVE SweptIsOut' /\ IndexesAgree'
  <2> DEFINE h == IF session[t].key = None THEN None ELSE t
             w == [sweep EXCEPT !.todo = @ \ {t}, !.half = h]
  <2>1. w.todo = sweep.todo \ {t} /\ w.half = h
    BY Zenon, <1>0 DEF Sweep
  <2>2. /\ sweep' = w /\ by_ticket' = by_ticket \ {t} /\ UNCHANGED by_idem
        /\ sweep.half = None /\ t \in sweep.todo
    BY Zenon, <1>3 DEF SweepTicket
  <2>3. /\ session[t].key = None => h = None
        /\ session[t].key # None => h = t
    BY Zenon
  <2> HIDE DEF h, w
  <2>4. \A s \in Tickets : BeingSwept(s)' => BeingSwept(s)
    BY Zenon, <2>1, <2>2, <2>3, NoneFacts DEF BeingSwept
  <2>5. SweptIsOut'
    <3>1. None \notin sweep.todo
      BY Zenon, <1>0, NoneFacts DEF Sweep
    <3> QED
      BY Zenon, <1>2, <2>1, <2>2, <2>3, <2>4, <3>1 DEF Indexed, SweptIsOut
  <2>6. ASSUME NEW s \in Tickets, s \in by_ticket' \/ \E k \in Keys : by_idem'[k] = s
        PROVE  (Live(s) \/ BeingCreated(s) \/ BeingSwept(s) \/ s \in torn)'
    <3>1. Live(s) \/ BeingCreated(s) \/ BeingSwept(s) \/ s \in torn
      BY Zenon, <2>2, <2>6 DEF Indexed, IndexesAgree
    <3>2. CASE s # t
      <4>1. BeingSwept(s) => BeingSwept(s)'
        BY Zenon, <2>1, <2>2, <3>2, NoneFacts DEF BeingSwept
      <4> QED
        BY Zenon, <1>0, <1>2, <3>1, <4>1
    <3>3. CASE s = t
      <4>1. PICK k \in Keys : by_idem[k] = t
        BY Zenon, <2>2, <2>6, <3>3
      <4>2. session[t].key = k
        BY Zenon, <4>1, NoneFacts DEF Typed, StoreOK
      <4>3. sweep'.half = t
        BY Zenon, <2>1, <2>2, <2>3, <4>2, NoneFacts
      <4> QED
        BY Zenon, <3>3, <4>3 DEF BeingSwept
    <3> QED
      BY Zenon, <3>2, <3>3
  <2> QED
    BY <2>5, <2>6 DEF IndexesAgree
<1>4. ASSUME SweepKey PROVE SweptIsOut' /\ IndexesAgree'
  <2> DEFINE h == sweep.half
             w == [sweep EXCEPT !.half = None]
  <2>1. w.todo = sweep.todo /\ w.half = None
    BY <1>0 DEF Sweep
  <2>2. /\ sweep' = w /\ by_idem' = [by_idem EXCEPT ![session[h].key] = None]
        /\ UNCHANGED by_ticket /\ h # None
    BY Zenon, <1>4 DEF SweepKey
  <2>3. h \in Tickets /\ session[h].key \in Keys /\ by_idem \in [Keys -> Tickets \cup {None}]
    BY Zenon, <1>0, <2>2 DEF Typed, TypeOK, StoreOK, Sweep
  <2> HIDE DEF w
  <2>4. \A s \in Tickets : BeingSwept(s)' => BeingSwept(s)
    BY Zenon, <2>1, <2>2, NoneFacts DEF BeingSwept
  <2>5. SweptIsOut'
    <3>1. None \notin sweep.todo
      BY Zenon, <1>0, NoneFacts DEF Sweep
    <3> QED
      BY Zenon, <1>2, <2>1, <2>2, <2>4, <3>1 DEF Indexed, SweptIsOut
  <2>6. ASSUME NEW s \in Tickets, s \in by_ticket' \/ \E k \in Keys : by_idem'[k] = s
        PROVE  (Live(s) \/ BeingCreated(s) \/ BeingSwept(s) \/ s \in torn)'
    <3>0. s \in by_ticket \/ \E k \in Keys : k # session[h].key /\ by_idem[k] = s
      BY Zenon, <2>2, <2>3, <2>6, NoneFacts
    <3>1. Live(s) \/ BeingCreated(s) \/ BeingSwept(s) \/ s \in torn
      BY Zenon, <3>0 DEF Indexed, IndexesAgree
    <3>2. CASE s # h
      <4>1. BeingSwept(s) => BeingSwept(s)'
        BY <2>1, <2>2, <3>2 DEF BeingSwept
      <4> QED
        BY Zenon, <1>0, <1>2, <3>1, <4>1
    <3>3. CASE s = h
      <4>1. s \in by_ticket
        BY Zenon, <3>0, <3>3, NoneFacts DEF Typed, StoreOK
      <4>2. s \in torn
        BY Zenon, <2>2, <3>3, <4>1 DEF Indexed, SweptIsOut
      <4> QED
        BY Zenon, <1>0, <4>2
    <3> QED
      BY Zenon, <3>2, <3>3
  <2> QED
    BY <2>5, <2>6 DEF IndexesAgree
<1> QED
  BY Zenon, <1>1, <1>3, <1>4 DEF Indexed
LEMMA StepIndexed ==
    ASSUME Typed, Typed', Indexed, Next
    PROVE  Indexed'
<1>0. Grows
  BY Zenon, StepSession
<1>1. ASSUME NEW c \in Calls, QuietCall(c) PROVE Indexed'
  <2>1. NamedStays
    BY <1>1, QuietCalls DEF NamedStays, Named, Creating
  <2> QED
    BY Zenon, <1>0, <1>1, <2>1, QuietIndexes, IndexedStays
<1>2. ASSUME NEW c \in Calls, CreateHit(c) \/ CreateMiss(c) PROVE Indexed'
  <2>1. NamedStays
    BY Zenon, <1>2, CreateCalls DEF NamedStays, Named, CreateHit, CreateMiss
  <2>2. UNCHANGED <<by_id, by_idem, by_ticket, sweep, torn>>
    BY <1>2 DEF CreateHit, CreateMiss, indexes, history
  <2> QED
    BY Zenon, <1>0, <2>1, <2>2, IndexedStays
<1>3. ASSUME NEW c \in Calls, NEW t \in Tickets, PutId(c, t) PROVE Indexed'
  BY Zenon, <1>0, <1>3, IndexedPutId
<1>4. ASSUME NEW c \in Calls, PutTicket(c) \/ PutKey(c) PROVE Indexed'
  BY <1>4, IndexedPut
<1>5. ASSUME NEW i \in Ids, SweepShard(i) PROVE Indexed'
  BY <1>0, <1>5, IndexedShard
<1>6. ASSUME SweepKey \/ \E t \in Tickets : SweepTicket(t) PROVE Indexed'
  BY <1>6, IndexedSweep
<1>7. CASE SweepStart
  <2>1. /\ UNCHANGED <<by_id, by_idem, by_ticket, torn, call>>
        /\ sweep = SweepIdle /\ sweep' = [SweepIdle EXCEPT !.ids = Ids]
    BY Zenon, <1>7 DEF SweepStart, indexes, history
  <2>2. SweepIdle \in Sweep
    BY DEF SweepIdle, Sweep
  <2>3. sweep'.todo = sweep.todo /\ sweep'.half = sweep.half
    BY <2>1, <2>2 DEF Sweep
  <2>4. NamedStays
    BY Zenon, <2>1 DEF NamedStays
  <2> QED
    BY <1>0, <2>1, <2>3, <2>4, IndexedStays
<1>8. ASSUME NEW t \in Tickets, Expire(t) PROVE Indexed'
  <2>1. UNCHANGED <<by_id, by_idem, by_ticket, torn, call, sweep>>
    BY Zenon, <1>8 DEF Expire, indexes, history
  <2>2. NamedStays
    BY Zenon, <2>1 DEF NamedStays
  <2> QED
    BY <1>0, <2>1, <2>2, IndexedStays
<1> QED
  BY <1>1, <1>2, <1>3, <1>4, <1>5, <1>6, <1>7, <1>8 DEF Next, CallStep, QuietCall, SweepStep

-----------------------------------------------------------------------------
(* A key has one session.                                                  *)

\* A step that adds nothing to what KeyInv speaks of.
LEMMA KeyStays ==
    ASSUME NEW k \in Keys, KeyInv(k),
           \A c \in Calls : Creates(c, k)' => Creates(c, k),
           by_idem'[k] = by_idem[k],
           \A t \in Tickets : HasKey(t, k)' =>
             /\ HasKey(t, k)
             /\ InStore(t)' => InStore(t)
             /\ BeingCreated(t)' <=> BeingCreated(t)
             /\ Answering(t)' => Answering(t)
    PROVE  KeyInv(k)'
BY Zenon DEF KeyInv

\* The call that creates a session with a key creates for that key.
LEMMA CreatorOfKey ==
    ASSUME Typed, NEW k \in Keys, NEW t \in Tickets, HasKey(t, k), BeingCreated(t)
    PROVE  \E c \in Calls : call[c].pos \in Named /\ call[c].hold = t /\ Creates(c, k)
BY SMTT(30), CreatedBy DEF Typed, CallsOK, CallOK, HasKey, Creates, Creating, Named
\* Only PutId makes a session.
LEMMA NoNewSession ==
    ASSUME Typed, Next, \A c \in Calls, t \in Tickets : ~PutId(c, t)
    PROVE  \A t \in Tickets : session'[t] # None => session[t] # None
<1>0. session \in [Tickets -> Session \cup {None}]
  BY DEF Typed, TypeOK
<1>1. ASSUME NEW c \in Calls, BumpActive(c) \/ MarkFailed(c), NEW t \in Tickets, session'[t] # None
      PROVE  session[t] # None
  BY <1>0, <1>1 DEF Typed, CallsOK, CallOK, BumpActive, MarkFailed
<1>2. ASSUME NEW i \in Ids, SweepShard(i), NEW t \in Tickets, session'[t] # None
      PROVE  session[t] # None
  BY <1>0, <1>2 DEF Typed, StoreOK, SweepShard
<1>3. ASSUME NEW s \in Tickets, Expire(s), NEW t \in Tickets, session'[t] # None
      PROVE  session[t] # None
  BY <1>0, <1>3 DEF Expire
<1> QED
  BY <1>1, <1>2, <1>3 DEF Next, CallStart, CallStep, SweepStep, OpenSession, GdsChunk,
     AbortSession, Begin, CreateHit, CreateMiss, PutTicket, PutKey, HookDone, HookFails,
     NoExecutor, ResolveById, ResolveByTicket, BumpFind, ChunkDone, ChunkFails, MarkFailedFind,
     SweepStart, SweepTicket, SweepKey

\* A key's sessions before and after a step that makes none.
LEMMA HasKeyStays ==
    ASSUME Grows, \A t \in Tickets : session'[t] # None => session[t] # None,
           NEW k, NEW t \in Tickets, HasKey(t, k)'
    PROVE  HasKey(t, k) /\ session[t] # None
BY Zenon DEF Grows, HasKey

LEMMA KeyQuiet ==
    ASSUME Typed, Typed', Grows, Next, NEW c \in Calls, QuietCall(c),
           NEW k \in Keys, KeyInv(k)
    PROVE  KeyInv(k)'
<1>1. /\ \A d \in Calls : d # c => call'[d] = call[d]
      /\ call[c].pos \notin Creating
      /\ call'[c].pos \notin Named \cup {"hook"}
      /\ call'[c].pos \in Creating => call'[c].key = None
      /\ UNCHANGED <<by_id, by_idem, by_ticket, sweep, raced, torn>>
  BY Zenon, QuietCalls, QuietIndexes
<1>2. \A t \in Tickets : session'[t] # None => session[t] # None
  <2>1. \A d \in Calls, t \in Tickets : ~PutId(d, t)
    <3> SUFFICES ASSUME NEW d \in Calls, NEW t \in Tickets, PutId(d, t) PROVE FALSE
      BY Zenon
    <3>1. call[d].pos = "put_id" /\ call'[d].pos = "put_ticket"
      BY Zenon, CreateCalls DEF PutId
    <3> QED
      BY Zenon, <1>1, <3>1 DEF Named
  <2> QED
    BY Zenon, <2>1, NoNewSession
<1>3. \A d \in Calls : Creates(d, k)' => Creates(d, k)
  BY Zenon, <1>1, NoneFacts DEF Creates
<1>4. ASSUME NEW t \in Tickets, HasKey(t, k)'
      PROVE  /\ HasKey(t, k)
             /\ InStore(t)' => InStore(t)
             /\ BeingCreated(t)' <=> BeingCreated(t)
             /\ Answering(t)' => Answering(t)
  <2>1. HasKey(t, k) /\ session[t] # None
    BY Zenon, <1>2, <1>4, HasKeyStays
  <2>2. InStore(t)' => InStore(t)
    BY Zenon, <1>1, <2>1, LiveStays DEF InStore, BeingSwept
  <2>3. BeingCreated(t)' <=> BeingCreated(t)
    BY SMTT(30), <1>1, CreatedBy, CreatedByNext DEF Named, Creating
  <2>4. t \in granted' => t \in granted \/ \E d \in Calls : call[d].pos = "hook" /\ call[d].hold = t
    BY Zenon DEF QuietCall, CallStart, OpenSession, GdsChunk, AbortSession, Begin, HookDone, HookFails,
       NoExecutor, ResolveById, ResolveByTicket, BumpFind, BumpActive, ChunkDone, ChunkFails,
       MarkFailedFind, MarkFailed
  <2>5. Answering(t)' => Answering(t)
    BY Zenon, <1>1, <2>4 DEF Answering
  <2> QED
    BY Zenon, <2>1, <2>2, <2>3, <2>5
<1> QED
  BY Zenon, <1>1, <1>3, <1>4, KeyStays

\* The sweep, and a deadline that passes.
LEMMA KeySweep ==
    ASSUME Typed, Typed', Indexed, Grows, Next,
           SweepStep \/ \E t \in Tickets : Expire(t),
           NEW k \in Keys, KeyInv(k)
    PROVE  KeyInv(k)'
<1>0. /\ UNCHANGED <<call, granted>> /\ sweep \in Sweep
      /\ by_id \in [Ids -> Tickets \cup {None}] /\ by_idem \in [Keys -> Tickets \cup {None}]
  BY Zenon DEF SweepStep, SweepStart, SweepShard, SweepTicket, SweepKey, Expire, Typed, TypeOK
<1>1. \A t \in Tickets : session'[t] # None => session[t] # None
  <2>1. \A d \in Calls, t \in Tickets : ~PutId(d, t)
    <3> SUFFICES ASSUME NEW d \in Calls, NEW t \in Tickets, PutId(d, t) PROVE FALSE
      BY Zenon
    <3>1. call[d].pos = "put_id" /\ call'[d].pos = "put_ticket"
      BY Zenon, CreateCalls DEF PutId
    <3> QED
      BY Zenon, <1>0, <3>1
  <2> QED
    BY Zenon, <2>1, NoNewSession
<1>2. \A d \in Calls : Creates(d, k)' => Creates(d, k)
  BY Zenon, <1>0 DEF Creates
<1>3. \A t \in Tickets : (BeingCreated(t)' <=> BeingCreated(t)) /\ (Answering(t)' <=> Answering(t))
  BY Zenon, <1>0 DEF BeingCreated, Answering
<1>4. ASSUME NEW t \in Tickets, session[t] # None, InStore(t)' PROVE InStore(t)
  <2>0. session[t].id \in Ids /\ session'[t].id = session[t].id
    BY Zenon, <1>4 DEF Typed, TypeOK, Session, Grows
  <2>1. ASSUME NEW i \in Ids, SweepShard(i) PROVE InStore(t)
    <3>1. CASE by_id'[session[t].id] = t
      <4>1. by_id[session[t].id] = t
        BY Zenon, <1>0, <2>0, <2>1, <3>1, NoneFacts DEF SweepShard
      <4> QED
        BY Zenon, <1>4, <4>1 DEF InStore, Live
    <3>2. CASE by_id'[session[t].id] # t
      <4>1. BeingSwept(t)'
        BY Zenon, <1>4, <2>0, <3>2 DEF InStore, Live
      <4>2. sweep'.half = sweep.half /\ sweep'.todo \subseteq sweep.todo \cup ({by_id[i]} \ {None})
        <5> DEFINE v == [sweep EXCEPT !.ids = @ \ {i}, !.todo = @ \cup {by_id[i]}]
                   w == [sweep EXCEPT !.ids = @ \ {i}]
        <5>1. /\ v.half = sweep.half /\ v.todo = sweep.todo \cup {by_id[i]}
              /\ w.half = sweep.half /\ w.todo = sweep.todo
          BY Zenon, <1>0 DEF Sweep
        <5>2. (by_id[i] # None /\ sweep' = v) \/ sweep' = w
          BY Zenon, <2>1 DEF SweepShard
        <5> HIDE DEF v, w
        <5> QED
          BY <5>1, <5>2
      <4>3. CASE t = by_id[i]
        BY Zenon, <1>4, <4>3, NoneFacts DEF Typed, StoreOK, InStore, Live
      <4>4. CASE t # by_id[i]
        BY Zenon, <4>1, <4>2, <4>4 DEF BeingSwept, InStore
      <4> QED
        BY Zenon, <4>3, <4>4
    <3> QED
      BY Zenon, <3>1, <3>2
  <2>2. ASSUME SweepStart \/ SweepKey \/ \E s \in Tickets : SweepTicket(s) \/ Expire(s)
        PROVE  InStore(t)
    <3>1. UNCHANGED by_id
      BY Zenon, <2>2 DEF SweepStart, SweepKey, SweepTicket, Expire, indexes
    <3>2. BeingSwept(t)' => BeingSwept(t)
      <4>1. CASE SweepStart
        <5>1. SweepIdle \in Sweep
          BY DEF SweepIdle, Sweep
        <5> QED
          BY Zenon, <4>1, <5>1 DEF SweepStart, BeingSwept, Sweep
      <4>2. CASE SweepKey
        BY <1>0, <4>2, NoneFacts DEF SweepKey, BeingSwept, Sweep
      <4>3. ASSUME NEW s \in Tickets, SweepTicket(s) PROVE BeingSwept(t)' => BeingSwept(t)
        BY <1>0, <4>3, NoneFacts DEF SweepTicket, BeingSwept, Sweep
      <4>4. ASSUME NEW s \in Tickets, Expire(s) PROVE BeingSwept(t)' => BeingSwept(t)
        BY Zenon, <4>4 DEF Expire, BeingSwept
      <4> QED
        BY <2>2, <4>1, <4>2, <4>3, <4>4
    <3> QED
      BY Zenon, <1>4, <3>1, <3>2, LiveStays DEF InStore
  <2> QED
    BY Zenon, <2>1, <2>2 DEF SweepStep
<1>5. CASE by_idem'[k] = by_idem[k]
  <2>1. ASSUME NEW t \in Tickets, HasKey(t, k)'
        PROVE  HasKey(t, k) /\ (InStore(t)' => InStore(t))
    BY Zenon, <1>1, <1>4, <2>1, HasKeyStays
  <2> QED
    BY Zenon, <1>2, <1>3, <1>5, <2>1, KeyStays
\* SweepKey takes the entry of k: the session it swept was the one named there,
\* or is still being created, and then nothing was.
<1>6. CASE by_idem'[k] # by_idem[k]
  <2>1. /\ SweepKey /\ UNCHANGED <<session, by_id>>
        /\ sweep.half # None /\ session[sweep.half].key = k /\ by_idem'[k] = None
    BY Zenon, <1>0, <1>6 DEF SweepStep, SweepStart, SweepShard, SweepTicket, SweepKey, Expire, indexes
  <2>2. PICK h \in Tickets : h = sweep.half /\ HasKey(h, k) /\ BeingSwept(h) /\ ~Live(h)
    BY Zenon, <1>0, <2>1 DEF Sweep, Typed, StoreOK, HasKey, BeingSwept, Indexed, SweptIsOut
  <2>3. by_idem[k] = h \/ BeingCreated(h)
    BY Zenon, <2>2 DEF KeyInv, InStore
  <2>4. ASSUME NEW t \in Tickets, HasKey(t, k)', InStore(t)' PROVE BeingCreated(t)'
    <3>1. HasKey(t, k) /\ InStore(t)
      BY Zenon, <1>1, <1>4, <2>4, HasKeyStays
    <3>2. by_idem[k] = t \/ BeingCreated(t)
      BY Zenon, <3>1 DEF KeyInv
    <3>3. CASE BeingCreated(t)
      BY Zenon, <1>3, <3>3
    <3>4. CASE by_idem[k] = t
      <4>1. ~BeingCreated(h)
        BY Zenon, <2>2, <3>4, CreatorOfKey, NoneFacts DEF KeyInv
      <4>2. t = h
        BY Zenon, <2>3, <3>4, <4>1
      <4>3. ~Live(t)' /\ ~BeingSwept(t)'
        <5>1. sweep'.half = None /\ sweep'.todo = sweep.todo
          BY Zenon, <1>0, <2>1 DEF SweepKey, Sweep
        <5>2. h \notin sweep.todo
          BY Zenon, <2>2 DEF Indexed, SweptIsOut
        <5> QED
          BY Zenon, <2>1, <2>2, <4>2, <5>1, <5>2, NoneFacts DEF BeingSwept, Live
      <4> QED
        BY Zenon, <2>4, <4>3 DEF InStore
    <3> QED
      BY Zenon, <3>2, <3>3, <3>4
  <2> QED
    BY Zenon, <1>2, <1>3, <2>1, <2>4, HasKeyStays, <1>1 DEF KeyInv
<1> QED
  BY Zenon, <1>5, <1>6
\* What KeyInv(k)' asks when the key may change hands.
LEMMA KeyChanges ==
    ASSUME NEW k \in Keys,
           \A c, d \in Calls : Creates(c, k)' /\ Creates(d, k)' => c = d,
           by_idem'[k] # None => \A c \in Calls : ~Creates(c, k)',
           \A t \in Tickets : HasKey(t, k)' =>
             /\ InStore(t)' => by_idem'[k] = t \/ BeingCreated(t)'
             /\ Answering(t)' => ~BeingCreated(t)'
    PROVE  KeyInv(k)'
BY DEF KeyInv

LEMMA KeyHit ==
    ASSUME Typed, Typed', Grows, Next, NEW c \in Calls, CreateHit(c),
           NEW k \in Keys, KeyInv(k)
    PROVE  KeyInv(k)'
<1>1. /\ \A d \in Calls : d # c => call'[d] = call[d]
      /\ \/ call'[c].pos = "hook" /\ call'[c].hold = by_idem[call[c].key]
         \/ call'[c].pos = "idle"
      /\ call[c].pos = "lookup" /\ call[c].key \in Keys /\ by_idem[call[c].key] # None
      /\ UNCHANGED <<session, by_id, by_idem, sweep, granted>>
  BY Zenon, CreateCalls DEF CreateHit, Typed, CallsOK, CallOK, indexes
<1>2. \A d \in Calls : Creates(d, k)' => Creates(d, k)
  BY Zenon, <1>1 DEF Creates, Creating
<1>3. ASSUME NEW t \in Tickets, HasKey(t, k)'
      PROVE  /\ HasKey(t, k)
             /\ InStore(t)' => InStore(t)
             /\ BeingCreated(t)' <=> BeingCreated(t)
  BY Zenon, <1>1, <1>3 DEF HasKey, InStore, Live, BeingSwept, BeingCreated, Creating
<1>i. by_idem'[k] = by_idem[k]
  BY Zenon, <1>1
<1>4. CASE call[c].key = k
  \* The session found is named by by_idem, so nothing is created for the key.
  <2>1. ASSUME NEW t \in Tickets, HasKey(t, k)'
        PROVE  /\ InStore(t)' => by_idem'[k] = t \/ BeingCreated(t)'
               /\ ~BeingCreated(t)'
    <3>1. ~BeingCreated(t)
      BY Zenon, <1>1, <1>3, <1>4, <2>1, CreatorOfKey DEF KeyInv
    <3> QED
      BY Zenon, <1>i, <1>3, <2>1, <3>1 DEF KeyInv
  <2>2. \A d \in Calls : ~Creates(d, k)'
    BY Zenon, <1>1, <1>2, <1>4 DEF KeyInv
  <2> QED
    BY Zenon, <2>1, <2>2, KeyChanges
<1>5. CASE call[c].key # k
  <2>1. ASSUME NEW t \in Tickets, HasKey(t, k)', Answering(t)' PROVE Answering(t)
    <3>1. session[by_idem[call[c].key]].key # k /\ session[t].key = k
      BY Zenon, <1>1, <1>5, <2>1 DEF Typed, StoreOK, HasKey
    <3> QED
      BY Zenon, <1>1, <2>1, <3>1 DEF Answering
  <2>2. ASSUME NEW t \in Tickets, HasKey(t, k)'
        PROVE  /\ HasKey(t, k)
               /\ InStore(t)' => InStore(t)
               /\ BeingCreated(t)' <=> BeingCreated(t)
               /\ Answering(t)' => Answering(t)
    BY Zenon, <1>3, <2>1, <2>2
  <2> QED
    BY Zenon, <1>i, <1>2, <2>2, KeyStays
<1> QED
  BY Zenon, <1>4, <1>5

LEMMA KeyMiss ==
    ASSUME Typed, Typed', Grows, Next, NEW c \in Calls, CreateMiss(c),
           NEW k \in Keys, k \notin raced', KeyInv(k)
    PROVE  KeyInv(k)'
<1>1. /\ \A d \in Calls : d # c => call'[d] = call[d]
      /\ call'[c].pos = "put_id" /\ call'[c].key = call[c].key
      /\ call[c].pos = "lookup" /\ call[c].key \in Keys /\ by_idem[call[c].key] = None
      /\ UNCHANGED <<session, by_id, by_idem, sweep, granted>>
  BY Zenon, CreateCalls DEF CreateMiss, Typed, CallsOK, CallOK, indexes
<1>2. ASSUME NEW t \in Tickets, HasKey(t, k)'
      PROVE  /\ HasKey(t, k)
             /\ InStore(t)' => InStore(t)
             /\ BeingCreated(t)' <=> BeingCreated(t)
             /\ Answering(t)' => Answering(t)
  <2>1. BeingCreated(t)' <=> BeingCreated(t)
    <3>1. \A d \in Calls : call'[d].pos \in Named /\ call'[d].hold = t
                              <=> call[d].pos \in Named /\ call[d].hold = t
      BY Zenon, <1>1 DEF Named
    <3> QED
      BY Zenon, <3>1, CreatedStays
  <2> QED
    BY Zenon, <1>1, <1>2, <2>1 DEF HasKey, InStore, Live, BeingSwept, Answering
<1>i. by_idem'[k] = by_idem[k]
  BY Zenon, <1>1
<1>4. CASE call[c].key = k
  <2>1. \A d \in Calls : ~Creates(d, k)
    <3>1. \A d \in Calls \ {c} : ~(call[d].key = k /\ call[d].pos \in Creating)
      BY Zenon, <1>4 DEF CreateMiss
    <3> QED
      BY Zenon, <1>1, <3>1 DEF Creates, Creating
  <2>2. \A d \in Calls : Creates(d, k)' => d = c
    BY Zenon, <1>1, <2>1 DEF Creates
  <2>3. ASSUME NEW t \in Tickets, HasKey(t, k)'
        PROVE  /\ InStore(t)' => by_idem'[k] = t \/ BeingCreated(t)'
               /\ Answering(t)' => ~BeingCreated(t)'
    BY Zenon, <1>i, <1>2, <2>3 DEF KeyInv
  <2> QED
    BY Zenon, <1>i, <1>1, <1>4, <2>2, <2>3, KeyChanges
<1>5. CASE call[c].key # k
  <2>1. \A d \in Calls : Creates(d, k)' => Creates(d, k)
    BY Zenon, <1>1, <1>5 DEF Creates
  <2> QED
    BY Zenon, <1>i, <1>2, <2>1, KeyStays
<1> QED
  BY Zenon, <1>4, <1>5

LEMMA KeyPutId ==
    ASSUME Typed, Typed', Grows, NEW c \in Calls, NEW t \in Tickets, PutId(c, t),
           NEW k \in Keys, KeyInv(k)
    PROVE  KeyInv(k)'
<1>1. /\ \A d \in Calls : d # c => call'[d] = call[d]
      /\ call'[c].pos = "put_ticket" /\ call'[c].hold = t /\ call'[c].key = call[c].key
  BY Zenon, CreateCalls
<1>2. /\ session[t] = None /\ call[c].pos = "put_id" /\ call[c].id \in Ids
      /\ by_id' = [by_id EXCEPT ![call[c].id] = t]
      /\ \A s \in Tickets : s # t => session'[s] = session[s]
      /\ UNCHANGED <<by_idem, sweep, granted>>
  BY DEF PutId, Typed, TypeOK, CallsOK, CallOK, OnId
<1>3. by_id \in [Ids -> Tickets \cup {None}] /\ session \in [Tickets -> Session \cup {None}]
  BY Zenon DEF Typed, TypeOK
<1>4. \A d \in Calls : Creates(d, k)' <=> Creates(d, k)
  BY Zenon, <1>1, <1>2 DEF Creates, Creating
<1>5. BeingCreated(t)' /\ ~Answering(t)'
  <2>1. BeingCreated(t)'
    BY Zenon, <1>1 DEF BeingCreated, Creating
  <2>2. t \notin granted'
    BY Zenon, <1>2 DEF Typed, StoreOK
  <2>3. ASSUME NEW d \in Calls, call'[d].pos = "hook" PROVE call'[d].hold # t
    <3>1. call[d].pos = "hook" /\ call'[d].hold = call[d].hold
      BY Zenon, <1>1, <2>3
    <3>2. session[call[d].hold] # None
      BY Zenon, <3>1 DEF Typed, CallsOK, CallOK
    <3> QED
      BY Zenon, <1>2, <3>1, <3>2
  <2> QED
    BY Zenon, <2>1, <2>2, <2>3 DEF Answering
<1>6. ASSUME NEW s \in Tickets, s # t, HasKey(s, k)'
      PROVE  /\ InStore(s)' => by_idem'[k] = s \/ BeingCreated(s)'
             /\ Answering(s)' => ~BeingCreated(s)'
  <2>1. session'[s] = session[s] /\ session[s] # None /\ HasKey(s, k)
    BY Zenon, <1>2, <1>6 DEF HasKey
  <2>2. Live(s)' => Live(s)
    <3>1. session[s].id \in Ids
      BY Zenon, <1>3, <2>1 DEF Session
    <3>2. CASE session[s].id = call[c].id
      BY Zenon, <1>2, <1>3, <1>6, <2>1, <3>1, <3>2 DEF Live
    <3>3. CASE session[s].id # call[c].id
      BY Zenon, <1>2, <1>3, <2>1, <3>1, <3>3 DEF Live
    <3> QED
      BY Zenon, <3>2, <3>3
  <2>3. InStore(s)' => InStore(s)
    BY Zenon, <1>2, <2>2 DEF InStore, BeingSwept
  <2>4. BeingCreated(s)' <=> BeingCreated(s)
    <3>1. \A d \in Calls : call'[d].pos \in Named /\ call'[d].hold = s
                              <=> call[d].pos \in Named /\ call[d].hold = s
      BY Zenon, <1>1, <1>2, <1>6 DEF Named
    <3> QED
      BY Zenon, <3>1, CreatedStays
  <2>5. Answering(s)' => Answering(s)
    BY Zenon, <1>1, <1>2 DEF Answering
  <2>6. by_idem'[k] = by_idem[k]
    BY Zenon, <1>2
  <2> QED
    BY Zenon, <2>1, <2>3, <2>4, <2>5, <2>6 DEF KeyInv
<1>7. ASSUME NEW s \in Tickets, HasKey(s, k)'
      PROVE  /\ InStore(s)' => by_idem'[k] = s \/ BeingCreated(s)'
             /\ Answering(s)' => ~BeingCreated(s)'
  BY Zenon, <1>5, <1>6, <1>7
<1>8. /\ \A d, e \in Calls : Creates(d, k)' /\ Creates(e, k)' => d = e
      /\ by_idem'[k] # None => \A d \in Calls : ~Creates(d, k)'
  BY Zenon, <1>2, <1>4 DEF KeyInv
<1> QED
  BY Zenon, <1>7, <1>8, KeyChanges

LEMMA KeyPutTicket ==
    ASSUME Typed, Typed', Grows, NEW c \in Calls, PutTicket(c), NEW k \in Keys, KeyInv(k)
    PROVE  KeyInv(k)'
<1>1. /\ \A d \in Calls : d # c => call'[d] = call[d]
      /\ call'[c].pos = IF call[c].key = None THEN "hook" ELSE "put_key"
      /\ call'[c].hold = call[c].hold /\ call'[c].key = call[c].key
  BY Zenon, CreateCalls
<1>2. /\ call[c].pos = "put_ticket" /\ call[c].hold \in Tickets
      /\ call[c].key = session[call[c].hold].key
      /\ UNCHANGED <<session, by_id, by_idem, sweep, granted>>
  BY Zenon DEF PutTicket, Typed, CallsOK, CallOK, Named
<1>3. \A d \in Calls : Creates(d, k)' => Creates(d, k)
  BY Zenon, <1>1, <1>2 DEF Creates, Creating
<1>4. ASSUME NEW t \in Tickets, HasKey(t, k)'
      PROVE  /\ HasKey(t, k)
             /\ InStore(t)' => InStore(t)
             /\ BeingCreated(t)' <=> BeingCreated(t)
             /\ Answering(t)' => Answering(t)
  <2>1. HasKey(t, k) /\ session[t].key = k /\ (InStore(t)' => InStore(t))
    BY Zenon, <1>2, <1>4 DEF HasKey, InStore, Live, BeingSwept
  <2>2. call[c].key = None => t # call[c].hold
    BY Zenon, <1>2, <2>1, NoneFacts
  <2>3. BeingCreated(t)' <=> BeingCreated(t)
    <3>1. \A d \in Calls : call'[d].pos \in Named /\ call'[d].hold = t
                              <=> call[d].pos \in Named /\ call[d].hold = t
      BY Zenon, <1>1, <1>2, <2>2 DEF Named
    <3> QED
      BY Zenon, <3>1, CreatedStays
  <2>4. Answering(t)' => Answering(t)
    BY Zenon, <1>1, <1>2, <2>2 DEF Answering
  <2> QED
    BY Zenon, <2>1, <2>3, <2>4
<1>5. by_idem'[k] = by_idem[k]
  BY Zenon, <1>2
<1> QED
  BY Zenon, <1>3, <1>4, <1>5, KeyStays

LEMMA KeyPutKey ==
    ASSUME Typed, Typed', Grows, NEW c \in Calls, PutKey(c), NEW k \in Keys, KeyInv(k)
    PROVE  KeyInv(k)'
<1>1. /\ \A d \in Calls : d # c => call'[d] = call[d]
      /\ call'[c].pos = "hook" /\ call'[c].hold = call[c].hold
  BY Zenon, CreateCalls
<1>2. /\ call[c].pos = "put_key" /\ call[c].hold \in Tickets /\ call[c].key \in Keys
      /\ call[c].key = session[call[c].hold].key
      /\ by_idem' = [by_idem EXCEPT ![call[c].key] = call[c].hold]
      /\ UNCHANGED <<session, by_id, sweep, granted>>
  BY Zenon DEF PutKey, Typed, CallsOK, CallOK, Named
<1>3. by_idem \in [Keys -> Tickets \cup {None}]
  BY Zenon DEF Typed, TypeOK
<1>4. \A t \in Tickets : /\ HasKey(t, k)' => HasKey(t, k) /\ session[t].key = k
                         /\ InStore(t)' => InStore(t)
  BY Zenon, <1>2 DEF HasKey, InStore, Live, BeingSwept
<1>5. CASE call[c].key = k
  \* The one call that creates for the key is done, and its session named.
  <2>1. Creates(c, k) /\ \A d \in Calls : Creates(d, k) => d = c
    BY Zenon, <1>2, <1>5 DEF KeyInv, Creates, Creating
  <2>2. \A d \in Calls : ~Creates(d, k)'
    BY Zenon, <1>1, <2>1 DEF Creates, Creating
  <2>3. by_idem[k] = None /\ by_idem'[k] = call[c].hold
    BY Zenon, <1>2, <1>3, <1>5, <2>1 DEF KeyInv
  <2>4. ASSUME NEW t \in Tickets, HasKey(t, k)', InStore(t)' PROVE by_idem'[k] = t
    <3>1. BeingCreated(t) /\ HasKey(t, k)
      BY Zenon, <1>4, <2>3, <2>4, NoneFacts DEF KeyInv
    <3>2. PICK d \in Calls : call[d].hold = t /\ Creates(d, k)
      BY Zenon, <3>1, CreatorOfKey
    <3> QED
      BY Zenon, <2>1, <2>3, <3>2
  <2>5. ASSUME NEW t \in Tickets, HasKey(t, k)', BeingCreated(t)' PROVE FALSE
    <3>1. PICK d \in Calls : call'[d].pos \in Named /\ call'[d].hold = t
      BY Zenon, <2>5, CreatedByNext
    <3>2. d # c /\ call'[d] = call[d]
      BY Zenon, <1>1, <3>1 DEF Named
    <3>3. call[d].key = k
      BY Zenon, <1>4, <2>5, <3>1, <3>2 DEF Typed, CallsOK, CallOK
    <3> QED
      BY Zenon, <2>1, <3>1, <3>2, <3>3 DEF Creates, Creating, Named
  <2> QED
    BY Zenon, <2>2, <2>4, <2>5, KeyChanges
<1>6. CASE call[c].key # k
  <2>1. by_idem'[k] = by_idem[k]
    BY Zenon, <1>2, <1>3, <1>6
  <2>2. \A d \in Calls : Creates(d, k)' => Creates(d, k)
    BY Zenon, <1>1 DEF Creates, Creating
  <2>3. ASSUME NEW t \in Tickets, HasKey(t, k)'
        PROVE  /\ HasKey(t, k)
               /\ InStore(t)' => InStore(t)
               /\ BeingCreated(t)' <=> BeingCreated(t)
               /\ Answering(t)' => Answering(t)
    <3>1. t # call[c].hold
      BY Zenon, <1>2, <1>4, <1>6, <2>3
    <3>2. BeingCreated(t)' <=> BeingCreated(t)
      <4>1. \A d \in Calls : call'[d].pos \in Named /\ call'[d].hold = t
                              <=> call[d].pos \in Named /\ call[d].hold = t
        BY Zenon, <1>1, <1>2, <3>1 DEF Named
      <4> QED
        BY Zenon, <4>1, CreatedStays
    <3>3. Answering(t)' => Answering(t)
      BY Zenon, <1>1, <1>2, <3>1 DEF Answering
    <3> QED
      BY Zenon, <1>4, <2>3, <3>2, <3>3
  <2> QED
    BY Zenon, <2>1, <2>2, <2>3, KeyStays
<1> QED
  BY Zenon, <1>5, <1>6

LEMMA StepKeys ==
    ASSUME Typed, Typed', Indexed, KeysOK, Next
    PROVE  KeysOK'
<1> SUFFICES ASSUME NEW k \in Keys, k \notin raced' PROVE KeyInv(k)'
  BY DEF KeysOK
<1>0. Grows
  BY Zenon, StepSession
<1>1. raced \subseteq raced'
  BY RacedStep DEF CreateMiss
<1>2. KeyInv(k)
  BY <1>1 DEF KeysOK
<1>3. ASSUME NEW c \in Calls, QuietCall(c) PROVE KeyInv(k)'
  BY Zenon, <1>0, <1>2, <1>3, KeyQuiet
<1>4. ASSUME NEW c \in Calls, CreateHit(c) PROVE KeyInv(k)'
  BY Zenon, <1>0, <1>2, <1>4, KeyHit
<1>5. ASSUME NEW c \in Calls, CreateMiss(c) PROVE KeyInv(k)'
  BY Zenon, <1>0, <1>2, <1>5, KeyMiss
<1>6. ASSUME NEW c \in Calls, NEW t \in Tickets, PutId(c, t) PROVE KeyInv(k)'
  BY Zenon, <1>0, <1>2, <1>6, KeyPutId
<1>7. ASSUME NEW c \in Calls, PutTicket(c) PROVE KeyInv(k)'
  BY <1>0, <1>2, <1>7, KeyPutTicket
<1>8. ASSUME NEW c \in Calls, PutKey(c) PROVE KeyInv(k)'
  BY <1>0, <1>2, <1>8, KeyPutKey
<1>9. ASSUME SweepStep \/ \E t \in Tickets : Expire(t) PROVE KeyInv(k)'
  BY <1>0, <1>2, <1>9, KeySweep
<1> QED
  BY Zenon, <1>3, <1>4, <1>5, <1>6, <1>7, <1>8, <1>9 DEF Next, CallStep, QuietCall

-----------------------------------------------------------------------------
(* The inductive invariant and what follows from it.                       *)

LEMMA InitSInv == Init => SInv
<1> SUFFICES ASSUME Init PROVE SInv
  BY Zenon
<1>0. Idle \in Call /\ Idle.pos = "idle" /\ SweepIdle \in Sweep
      /\ SweepIdle.todo = {} /\ SweepIdle.half = None
  BY Zenon, IdleOK DEF Idle, SweepIdle, Sweep
<1>1. \A c \in Calls : call[c].pos = "idle"
  BY <1>0 DEF Init
<1>2. Typed
  <2>1. TypeOK
    BY <1>0, BoundAssumption DEF Init, TypeOK
  <2>2. CallsOK
    BY Zenon, <1>1 DEF CallsOK, CallOK, Named, OnId
  <2>3. StoreOK
    BY Zenon, <1>0 DEF Init, StoreOK
  <2> QED
    BY Zenon, <2>1, <2>2, <2>3 DEF Typed
<1>3. \A t \in Tickets : ~Live(t) /\ ~BeingSwept(t) /\ ~BeingCreated(t)
  BY Zenon, <1>0, <1>1, NoneFacts DEF Init, Live, BeingSwept, BeingCreated, Creating
<1>4. Indexed
  BY Zenon, <1>0, <1>1, <1>3, NoneFacts DEF Init, Indexed, OneCreator, CreatedIsLive, SweptIsOut,
     IndexesAgree, Named
<1>5. KeysOK
  BY <1>1, <1>3 DEF Init, KeysOK, KeyInv, Creates, Creating, InStore
<1> QED
  BY <1>2, <1>4, <1>5 DEF SInv

LEMMA StutterSInv == SInv /\ UNCHANGED vars => SInv'
<1> SUFFICES ASSUME SInv, UNCHANGED vars PROVE SInv'
  BY Zenon
<1>1. Typed'
  BY Zenon DEF SInv, vars, Typed, TypeOK, CallsOK, StoreOK
<1>2. Indexed'
  BY Zenon DEF SInv, vars, Indexed, OneCreator, CreatedIsLive, SweptIsOut, IndexesAgree, Live,
     BeingCreated, BeingSwept
<1>3. KeysOK'
  <2> SUFFICES ASSUME NEW k \in Keys, k \notin raced', KeyInv(k) PROVE KeyInv(k)'
    BY Zenon DEF SInv, vars, KeysOK
  <2>1. /\ \A c \in Calls : Creates(c, k)' => Creates(c, k)
        /\ by_idem'[k] = by_idem[k]
    BY Zenon DEF vars, Creates
  <2>2. \A t \in Tickets :
          /\ HasKey(t, k)' => HasKey(t, k)
          /\ InStore(t)' => InStore(t)
    BY Zenon DEF vars, HasKey, InStore, Live, BeingSwept
  <2>3. \A t \in Tickets :
          /\ BeingCreated(t)' <=> BeingCreated(t)
          /\ Answering(t)' => Answering(t)
    BY DEF vars, BeingCreated, Answering
  <2> QED
    BY Zenon, <2>1, <2>2, <2>3, KeyStays
<1> QED
  BY Zenon, <1>1, <1>2, <1>3 DEF SInv

(***************************************************************************)
(* The inductive invariant: the types, what keeps the three indexes of     *)
(* SessionStore together, and what keeps a key to one session.             *)
(***************************************************************************)
THEOREM SInvHolds == Spec => []SInv
<1>1. SInv /\ Next => SInv'
  BY StepTyped, StepIndexed, StepKeys DEF SInv
<1> QED
  BY <1>1, InitSInv, StutterSInv, PTL DEF Spec

(***************************************************************************)
(* The sessions, the three indexes, the calls, the sweep and the history   *)
(* keep their types, whatever is opened, failed and swept at once.         *)
(***************************************************************************)
THEOREM SessionsKeepTheirTypes == Spec => []TypeOK
BY SInvHolds, PTL DEF SInv, Typed

(***************************************************************************)
(* No session comes back: a session that failed or expired stays ended,    *)
(* whatever chunk was under way, because BumpActive compares before it     *)
(* writes.                                                                 *)
(***************************************************************************)
THEOREM NoSessionComesBack == Spec => EndedStaysEnded
<1>1. SInv /\ [Next]_vars =>
        [\A t \in Tickets : session[t] # None /\ session[t].state \in Ended
           => session'[t].state \in Ended]_vars
  BY StepSession DEF SInv, Grows
<1> QED
  BY <1>1, SInvHolds, PTL DEF Spec, EndedStaysEnded

(***************************************************************************)
(* A session found by its ticket or its key is found by its id, or is      *)
(* being created or swept, or is one of the torn ones: Create and          *)
(* SweepExpired write the three entries in the same order.                 *)
(***************************************************************************)
THEOREM TheIndexesAgree == Spec => []IndexesAgree
BY SInvHolds, PTL DEF SInv, Indexed

(***************************************************************************)
(* A key whose opens did not race has one live session: Create looks the   *)
(* key up first, and a session found by its key is in by_id or swept.      *)
(***************************************************************************)
THEOREM AKeyHasOneLiveSession == Spec => []OneLiveSessionPerKey
<1>1. SInv => OneLiveSessionPerKey
  <2> SUFFICES ASSUME SInv, NEW s \in Tickets, NEW t \in Tickets, Live(s), Live(t), s # t,
                      session[s].key = session[t].key, session[s].key # None,
                      session[s].key \notin raced
               PROVE  FALSE
    BY Zenon DEF OneLiveSessionPerKey
  <2>1. session[s].key \in Keys
    BY Zenon DEF SInv, Typed, TypeOK, Session, Live
  <2>2. PICK k \in Keys : k = session[s].key
    BY Zenon, <2>1
  <2>3. KeyInv(k) /\ HasKey(s, k) /\ HasKey(t, k) /\ InStore(s) /\ InStore(t)
    BY Zenon, <2>2 DEF SInv, KeysOK, HasKey, InStore, Live
  <2>4. by_idem[k] = s \/ BeingCreated(s)
    BY Zenon, <2>3 DEF KeyInv
  <2>5. by_idem[k] = t \/ BeingCreated(t)
    BY Zenon, <2>3 DEF KeyInv
  <2>6. BeingCreated(s) => by_idem[k] = None
    BY Zenon, <2>3, CreatorOfKey DEF KeyInv, SInv
  <2>7. BeingCreated(t) => by_idem[k] = None
    BY Zenon, <2>3, CreatorOfKey DEF KeyInv, SInv
  <2>8. ~(BeingCreated(s) /\ BeingCreated(t))
    <3> SUFFICES ASSUME BeingCreated(s), BeingCreated(t) PROVE FALSE
      BY Zenon
    <3>1. PICK c \in Calls : call[c].hold = s /\ Creates(c, k)
      BY Zenon, <2>3, CreatorOfKey DEF SInv
    <3>2. PICK d \in Calls : call[d].hold = t /\ Creates(d, k)
      BY Zenon, <2>3, CreatorOfKey DEF SInv
    <3> QED
      BY Zenon, <2>3, <3>1, <3>2 DEF KeyInv
  <2> QED
    BY Zenon, <2>4, <2>5, <2>6, <2>7, <2>8, NoneFacts
<1> QED
  BY <1>1, SInvHolds, PTL

(***************************************************************************)
(* A retry of an answered open finds its session by its key while the      *)
(* session is live, unless opens of the key raced: the key's entry is      *)
(* written before OpenSession answers and erased only with the session.    *)
(***************************************************************************)
THEOREM ARetryFindsItsSession == Spec => []RetryFindsItsSession
<1>1. SInv => RetryFindsItsSession
  <2> SUFFICES ASSUME SInv, NEW t \in granted, Live(t), session[t].key # None,
                      session[t].key \notin raced
               PROVE  by_idem[session[t].key] = t
    BY Zenon DEF RetryFindsItsSession
  <2>1. t \in Tickets /\ session[t].key \in Keys
    BY Zenon DEF SInv, Typed, TypeOK, Session, Live
  <2>2. KeyInv(session[t].key) /\ HasKey(t, session[t].key) /\ InStore(t) /\ Answering(t)
    BY <2>1 DEF SInv, KeysOK, HasKey, InStore, Live, Answering
  <2> QED
    BY Zenon, <2>1, <2>2 DEF KeyInv
<1> QED
  BY <1>1, SInvHolds, PTL
=============================================================================
