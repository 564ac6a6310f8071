----------------------------- MODULE CommitProofs -----------------------------
(***************************************************************************)
(* Proof that CompleteUpload implements UploadCommit, the one-shot commit, *)
(* whatever aborts and sweeps do to the state of the upload meanwhile.     *)
(***************************************************************************)
EXTENDS MultipartProofs

Holds(t, u) == jobs[t].u = u /\ jobs[t].at \in Claimed

\* The entry of the object is written, the upload not yet kCompleted.
Past(t) == jobs[t].at \in {"untarget", "finish"}

(***************************************************************************)
(* The inductive invariant: one holder per upload; a held upload is        *)
(* completing or was aborted meanwhile; a holder is past the commit iff    *)
(* the upload is committed; and without a holder a committed upload is in  *)
(* a final state, from which it cannot be claimed again.                   *)
(***************************************************************************)
OneHolder ==
    \A u \in Uploads, t1, t2 \in Threads : Holds(t1, u) /\ Holds(t2, u) => t1 = t2

HeldState ==
    \A u \in Uploads, t \in Threads :
        Holds(t, u) => state[u] \in {"kCompleting", "kAborted"}

HeldCommit ==
    \A u \in Uploads, t \in Threads : Holds(t, u) => (commits[u] > 0 <=> Past(t))

CommittedState ==
    \A u \in Uploads : commits[u] > 0 =>
        state[u] \in {"kCompleted", "kAborted"} \/ \E t \in Threads : Holds(t, u)

CInv == OneHolder /\ HeldState /\ HeldCommit /\ CommittedState

-----------------------------------------------------------------------------
(* What the steps do to claims.                                            *)

\* The jobs of all threads but t, as far as claims are concerned.
Others(t) == \A s \in Threads \ {t} : jobs'[s] = jobs[s]

\* No claim is taken, given up or committed.
Same ==
    /\ \A t \in Threads, u \in Uploads : Holds(t, u)' <=> Holds(t, u)
    /\ \A t \in Threads, u \in Uploads : Holds(t, u) => (Past(t)' <=> Past(t))
    /\ commits' = commits
    /\ \A u \in Uploads : \/ state'[u] \in {state[u], "kAborted"}
                          \/ state[u] = "kNew" /\ state'[u] = "kActive"

Claims(t, u) ==
    /\ jobs[t].at = "claim" /\ state[u] = "kActive"
    /\ Others(t) /\ jobs'[t].u = u /\ jobs'[t].at \in {"lookup", "rollback"}
    /\ commits' = commits
    /\ state' = [state EXCEPT ![u] = "kCompleting"]

Commits(t, u) ==
    /\ jobs[t].at = "entry" /\ jobs[t].u = u
    /\ Others(t) /\ jobs'[t].u = u /\ jobs'[t].at = "untarget"
    /\ commits' = [commits EXCEPT ![u] = @ + 1]
    /\ state' = state

GivesUp(t, u, from, to) ==
    /\ jobs[t].at = from /\ jobs[t].u = u
    /\ Others(t) /\ jobs'[t].at \notin Claimed
    /\ commits' = commits
    /\ state' = [state EXCEPT ![u] = to]

LEMMA SameByMove ==
    ASSUME jobs \in [Actors -> Job], NEW a \in Actors,
           \A b \in Actors \ {a} : jobs'[b] = jobs[b],
           jobs'[a].at \in Claimed <=> jobs[a].at \in Claimed,
           jobs[a].at \in Claimed => jobs'[a].u = jobs[a].u /\ (Past(a)' <=> Past(a)),
           commits' = commits,
           \A u \in Uploads : \/ state'[u] \in {state[u], "kAborted"}
                              \/ state[u] = "kNew" /\ state'[u] = "kActive"
    PROVE  Same
BY DEF Same, Holds, Past, Actors

LEMMA GotoEffect ==
    ASSUME jobs \in [Actors -> Job], NEW a \in Actors, NEW label \in Labels, Goto(a, label)
    PROVE  /\ \A b \in Actors \ {a} : jobs'[b] = jobs[b]
           /\ jobs'[a].at = label /\ jobs'[a].u = jobs[a].u
<1>1. jobs' = [jobs EXCEPT ![a] = [jobs[a] EXCEPT !.at = label]]
  BY GotoIs
<1>2. jobs[a] \in Job
  OBVIOUS
<1> QED
  BY <1>1, <1>2 DEF Job

LEMMA ReturnEffect ==
    ASSUME jobs \in [Actors -> Job], NEW a \in Actors, Return(a)
    PROVE  /\ \A b \in Actors \ {a} : jobs'[b] = jobs[b]
           /\ jobs'[a].at = "idle"
BY DEF Return, NoJob

ClaimStep(t, u) ==
    \/ Claims(t, u)
    \/ Commits(t, u)
    \/ GivesUp(t, u, "finish", "kCompleted")
    \/ GivesUp(t, u, "rollback", "kActive")

\* Claim, Enter, Finish and Rollback are the only sections that touch claims.
LEMMA StepKinds ==
    ASSUME MInv, Next
    PROVE  Same \/ \E t \in Threads, u \in Uploads : ClaimStep(t, u)
<1> DEFINE Good == Same \/ \E t \in Threads, u \in Uploads : ClaimStep(t, u)
<1> SUFFICES Good
  OBVIOUS
<1>0. /\ jobs \in [Actors -> Job] /\ JobsOK /\ Threads \subseteq Actors /\ Sweeper \in Actors
      /\ state \in [Uploads -> State]
  BY DEF MInv, TypeOK, Actors
<1>s. ASSUME NEW a \in Actors,
             \A b \in Actors \ {a} : jobs'[b] = jobs[b],
             jobs'[a].at \in Claimed <=> jobs[a].at \in Claimed,
             jobs[a].at \in Claimed => jobs'[a].u = jobs[a].u /\ (Past(a)' <=> Past(a)),
             commits' = commits,
             \A u \in Uploads : \/ state'[u] \in {state[u], "kAborted"}
                                \/ state[u] = "kNew" /\ state'[u] = "kActive"
      PROVE  Good
  BY <1>s, <1>0, SameByMove
<1>u. ASSUME jobs' = jobs, commits' = commits,
             \A u \in Uploads : \/ state'[u] \in {state[u], "kAborted"}
                                \/ state[u] = "kNew" /\ state'[u] = "kActive"
      PROVE  Good
  BY <1>u DEF Same, Holds, Past
<1>c. ASSUME NEW t \in Threads, NEW u \in Uploads, ClaimStep(t, u) PROVE Good
  BY <1>c
<1> HIDE DEF Good
<1> USE DEF backendVars, coordVars, history
<1>1. CASE Arrive
  <2>n. ASSUME NEW t \in Threads, NEW j, j.at \notin Claimed, Begin(t, j),
               commits' = commits, state' = state
        PROVE  Good
    <3>1. jobs[t].at \notin Claimed /\ jobs'[t] = j
      BY <2>n, <1>0 DEF Begin, At, Claimed
    <3>2. \A b \in Actors \ {t} : jobs'[b] = jobs[b]
      BY <2>n, <1>0 DEF Begin
    <3> QED
      BY <2>n, <3>1, <3>2, <1>0, <1>s
  <2>1. ASSUME NEW u \in Uploads, CreateUpload(u) \/ TtlElapses(u) PROVE Good
    <3>1. jobs' = jobs /\ commits' = commits
      BY <2>1 DEF CreateUpload, Create, TtlElapses
    <3>2. \A v \in Uploads : \/ state'[v] \in {state[v], "kAborted"}
                             \/ state[v] = "kNew" /\ state'[v] = "kActive"
      BY <2>1, <1>0 DEF CreateUpload, Create, TtlElapses
    <3> QED
      BY <3>1, <3>2, <1>u
  <2>2. ASSUME NEW t \in Threads, NEW u \in Uploads, NEW p \in Parts, NEW len \in Lengths,
               UploadPart(t, u, p, len)
        PROVE  Good
    BY <2>2, <2>n DEF UploadPart, Find, NoJob, Claimed
  <2>3. ASSUME NEW t \in Threads, NEW u \in Uploads,
               CompleteUpload(t, u) \/ AbortUpload(t, u)
        PROVE  Good
    BY <2>3, <2>n DEF CompleteUpload, AbortUpload, Find, NoJob, Claimed
  <2>4. ASSUME NEW t \in Threads, NEW k \in Keys, NEW n,
               \/ Begin(t, [NoJob EXCEPT !.at = "index", !.k = k, !.len = n])
               \/ UNCHANGED jobs,
               UNCHANGED <<coordVars, commits>>
        PROVE  Good
    <3> DEFINE j == [NoJob EXCEPT !.at = "index", !.k = k, !.len = n]
    <3>1. j.at \notin Claimed
      BY DEF NoJob, Claimed
    <3>2. commits' = commits /\ state' = state
      BY <2>4
    <3>3. CASE UNCHANGED jobs
      BY <3>2, <3>3, <1>u
    <3> HIDE DEF j
    <3>4. CASE Begin(t, j)
      BY <3>1, <3>2, <3>4, <2>n
    <3> QED
      BY <2>4, <3>3, <3>4 DEF j
  <2>5. (\E t \in Threads, k \in Keys, total \in Lengths : ReserveObject(t, k, total)) => Good
    BY <2>4 DEF ReserveObject, PutBody
  <2>6. (\E t \in Threads, k \in Keys, offset \in Offsets, len \in Lengths,
            total \in Lengths \cup {NoTotal} : WriteObject(t, k, offset, len, total)) => Good
    BY <2>4 DEF WriteObject, PutBody
  <2>7. (\E u \in Uploads : CreateUpload(u) \/ TtlElapses(u)) => Good
    BY <2>1
  <2>8. (\E t \in Threads, u \in Uploads :
            \/ \E p \in Parts, len \in Lengths : UploadPart(t, u, p, len)
            \/ CompleteUpload(t, u)
            \/ AbortUpload(t, u)) => Good
    BY <2>2, <2>3
  <2> QED
    BY <1>1, <2>5, <2>6, <2>7, <2>8, Zenon DEF Arrive
<1>2. ASSUME NEW t \in Threads, Serve(t) PROVE Good
  <2>0. t \in Actors /\ jobs[t] \in Job /\ JobOK(jobs[t])
    BY <1>0 DEF JobsOK
  <2>o. Others(t) <=> \A b \in Threads \ {t} : jobs'[b] = jobs[b]
    BY DEF Others
  <2>k. \A u \in Uploads : state'[u] = state[u] => state'[u] \in {state[u], "kAborted"}
    OBVIOUS
  <2>m. ASSUME NEW label \in Labels, Goto(t, label), commits' = commits, state' = state,
               label \in Claimed <=> jobs[t].at \in Claimed,
               ~Past(t), label \notin {"untarget", "finish"}
        PROVE  Good
    <3>1. /\ \A b \in Actors \ {t} : jobs'[b] = jobs[b]
          /\ jobs'[t].at = label /\ jobs'[t].u = jobs[t].u
      BY <2>m, <2>0, <1>0, GotoEffect
    <3>2. Past(t)' <=> Past(t)
      BY <2>m, <3>1 DEF Past
    <3> QED
      BY <2>m, <2>0, <3>1, <3>2, <1>s
  <2>r. ASSUME Return(t), jobs[t].at \notin Claimed, commits' = commits, state' = state
        PROVE  Good
    <3>1. /\ \A b \in Actors \ {t} : jobs'[b] = jobs[b]
          /\ jobs'[t].at \notin Claimed
      BY <2>r, <2>0, <1>0, ReturnEffect DEF Claimed
    <3> QED
      BY <2>r, <2>0, <3>1, <1>s
  <2> USE DEF Claimed, Labels, Publishing, Aborting, At
  <2>1. ASSUME NEW offset \in Offsets, StagePart(t, offset) PROVE Good
    BY <2>1, <2>m, <2>r DEF StagePart, Past
  <2>2. CASE RegisterPart(t) \/ TransferFails(t) \/ ClaimRefused(t) \/ Erase(t) \/ PutIndex(t)
    BY <2>2, <2>r DEF RegisterPart, TransferFails, ClaimRefused, Erase, PutIndex
  <2>3. ASSUME NEW listed \in SUBSET Parts \ {{}}, NEW match \in BOOLEAN,
               Claim(t, listed, match)
        PROVE  Good
    <3> DEFINE u == jobs[t].u
    <3>1. u \in Uploads /\ jobs[t].at = "claim"
      BY <2>0, <2>3 DEF Claim, JobOK, OnUpload
    <3>2. /\ \A b \in Actors \ {t} : jobs'[b] = jobs[b]
          /\ jobs'[t].u = u /\ jobs'[t].at \in {"lookup", "rollback"}
      BY <2>0, <2>3, <1>0 DEF Claim, Job
    <3>3. /\ state[u] = "kActive" /\ state' = [state EXCEPT ![u] = "kCompleting"]
          /\ commits' = commits
      BY <2>3 DEF Claim
    <3>4. Claims(t, u)
      BY <3>1, <3>2, <3>3, <1>0 DEF Claims, Others
    <3> QED
      BY <3>1, <3>4, <1>c DEF ClaimStep
  <2>4. CASE LookupTarget(t) \/ TakeNothing(t)
    BY <2>4, <2>m DEF LookupTarget, TakeNothing, Past
  <2>5. CASE Take(t)
    BY <2>5, <1>u DEF Take
  <2>6. CASE Join(t)
    BY <2>6, <2>m, <1>u DEF Join, Past
  <2>7. CASE Store(t)
    <3>1. CASE Goto(t, "rollback")
      BY <2>7, <3>1, <2>m DEF Store, Past
    <3>2. CASE jobs' = [jobs EXCEPT ![t].at = "unrecord", ![t].len = asm[t].total]
      <4>1. /\ \A b \in Actors \ {t} : jobs'[b] = jobs[b]
            /\ jobs'[t].at = "unrecord" /\ jobs'[t].u = jobs[t].u
        BY <3>2, <2>0, <1>0 DEF Job
      <4>2. commits' = commits /\ state' = state /\ jobs[t].at = "assemble"
        BY <2>7 DEF Store
      <4> QED
        BY <4>1, <4>2, <2>0, <1>s DEF Past
    <3> QED
      BY <2>7, <3>1, <3>2 DEF Store
  <2>8. CASE Unrecord(t)
    BY <2>8, <2>m DEF Unrecord, Past
  <2>9. CASE Enter(t)
    <3> DEFINE u == jobs[t].u
    <3>1. u \in Uploads /\ jobs[t].at = "entry" /\ Goto(t, "untarget")
      BY <2>0, <2>9 DEF Enter, JobOK, OnUpload
    <3>2. Others(t) /\ jobs'[t].u = u /\ jobs'[t].at = "untarget"
      BY <3>1, <2>0, <1>0, GotoEffect DEF Others
    <3>3. commits' = [commits EXCEPT ![u] = @ + 1] /\ state' = state
      BY <2>9 DEF Enter
    <3>4. Commits(t, u)
      BY <3>1, <3>2, <3>3 DEF Commits
    <3> QED
      BY <3>1, <3>4, <1>c DEF ClaimStep
  <2>10. CASE Untarget(t)
    <3>1. jobs[t].at = "untarget" /\ Goto(t, "finish") /\ commits' = commits /\ state' = state
      BY <2>10 DEF Untarget
    <3>2. /\ \A b \in Actors \ {t} : jobs'[b] = jobs[b]
          /\ jobs'[t].at = "finish" /\ jobs'[t].u = jobs[t].u
      BY <3>1, <2>0, <1>0, GotoEffect
    <3> QED
      BY <3>1, <3>2, <2>0, <1>s DEF Past
  <2>11. CASE Finish(t)
    <3> DEFINE u == jobs[t].u
    <3>1. u \in Uploads /\ jobs[t].at = "finish" /\ Goto(t, "erase")
      BY <2>0, <2>11 DEF Finish, JobOK, OnUpload
    <3>2. Others(t) /\ jobs'[t].at \notin Claimed
      BY <3>1, <2>0, <1>0, GotoEffect DEF Others
    <3>3. commits' = commits /\ state' = [state EXCEPT ![u] = "kCompleted"]
      BY <2>11 DEF Finish
    <3>4. GivesUp(t, u, "finish", "kCompleted")
      BY <3>1, <3>2, <3>3 DEF GivesUp
    <3> QED
      BY <3>1, <3>4, <1>c DEF ClaimStep
  <2>12. CASE Rollback(t)
    <3> DEFINE u == jobs[t].u
    <3>1. u \in Uploads /\ jobs[t].at = "rollback" /\ Return(t)
      BY <2>0, <2>12 DEF Rollback, JobOK, OnUpload
    <3>2. Others(t) /\ jobs'[t].at \notin Claimed
      BY <3>1, <2>0, <1>0, ReturnEffect DEF Others
    <3>3. commits' = commits /\ state' = [state EXCEPT ![u] = "kActive"]
      BY <2>12 DEF Rollback
    <3>4. GivesUp(t, u, "rollback", "kActive")
      BY <3>1, <3>2, <3>3 DEF GivesUp
    <3> QED
      BY <3>1, <3>4, <1>c DEF ClaimStep
  <2>13. CASE Mark(t)
    <3>1. /\ jobs[t].at = "mark" /\ Goto(t, "abortData") /\ commits' = commits
          /\ state' = [state EXCEPT ![jobs[t].u] = "kAborted"]
      BY <2>13 DEF Mark
    <3>2. /\ \A b \in Actors \ {t} : jobs'[b] = jobs[b]
          /\ jobs'[t].at = "abortData"
      BY <3>1, <2>0, <1>0, GotoEffect
    <3>3. \A v \in Uploads : state'[v] \in {state[v], "kAborted"}
      BY <3>1, <1>0
    <3> QED
      BY <3>1, <3>2, <3>3, <2>0, <1>s
  <2> QED
    BY <1>2, <2>1, <2>2, <2>3, <2>4, <2>5, <2>6, <2>7, <2>8, <2>9, <2>10, <2>11, <2>12,
       <2>13, Zenon
    DEF Serve
<1>3. ASSUME NEW a \in Actors, Abort(a) PROVE Good
  <2>1. jobs[a].at \in Aborting /\ commits' = commits /\ state' = state
    BY <1>3 DEF Abort, AbortData, AbortIndex, AbortTarget, At, Aborting
  <2>2. /\ \A b \in Actors \ {a} : jobs'[b] = jobs[b]
        /\ jobs'[a].at \in Aborting \cup {"idle", "sweep"}
    <3>1. ASSUME NEW label \in Aborting, Goto(a, label)
          PROVE  /\ \A b \in Actors \ {a} : jobs'[b] = jobs[b]
                 /\ jobs'[a].at \in Aborting
      BY <3>1, <1>0, LabelFacts, GotoEffect
    <3>2. CASE AbortData(a) \/ AbortIndex(a)
      BY <3>1, <3>2 DEF AbortData, AbortIndex, Aborting
    <3>3. CASE AbortTarget(a)
      <4>1. CASE Goto(a, "abortErase")
        BY <3>1, <4>1 DEF Aborting
      <4>2. CASE Return(a)
        BY <4>2, <1>0, ReturnEffect
      <4>3. CASE jobs' = [jobs EXCEPT ![a] = [NoJob EXCEPT !.at = "sweep"]]
        BY <4>3, <1>0 DEF NoJob
      <4> QED
        BY <3>3, <4>1, <4>2, <4>3 DEF AbortTarget
    <3> QED
      BY <1>3, <3>2, <3>3 DEF Abort
  <2>3. jobs[a].at \notin Claimed /\ jobs'[a].at \notin Claimed
    BY <2>1, <2>2 DEF Aborting, Claimed
  <2> QED
    BY <2>1, <2>2, <2>3, <1>s
<1>4. CASE Sweep
  <2>1. ASSUME NEW u \in Uploads, SweepExpired(u) PROVE Good
    BY <2>1, <1>u DEF SweepExpired
  <2>2. ASSUME NEW u \in Uploads, SweepOne(u) PROVE Good
    <3>1. /\ jobs[Sweeper].at \notin Claimed /\ jobs'[Sweeper].at \notin Claimed
          /\ \A b \in Actors \ {Sweeper} : jobs'[b] = jobs[b]
      BY <2>2, <1>0 DEF SweepOne, NoJob, Claimed
    <3>2. commits' = commits /\ \A v \in Uploads : state'[v] \in {state[v], "kAborted"}
      BY <2>2, <1>0 DEF SweepOne
    <3> QED
      BY <3>1, <3>2, <1>0, <1>s
  <2> QED
    BY <1>4, <2>1, <2>2 DEF Sweep
<1> QED
  BY <1>1, <1>2, <1>3, <1>4 DEF Next

-----------------------------------------------------------------------------
(* The invariant.                                                          *)

LEMMA InitCInv == Init => CInv
BY DEF Init, CInv, OneHolder, HeldState, HeldCommit, CommittedState, Holds, NoJob, Claimed,
       Actors

LEMMA SameCInv ==
    ASSUME MInv, CInv, Same
    PROVE  CInv'
<1>1. OneHolder'
  BY DEF CInv, OneHolder, Same
<1>2. HeldState'
  BY DEF CInv, HeldState, Same
<1>3. HeldCommit'
  BY DEF CInv, HeldCommit, Same
<1>4. CommittedState'
  <2> SUFFICES ASSUME NEW u \in Uploads, commits'[u] > 0
               PROVE  state'[u] \in {"kCompleted", "kAborted"} \/ \E t \in Threads : Holds(t, u)'
    BY DEF CommittedState
  <2>1. commits[u] > 0
    BY DEF Same
  <2>2. CASE \E t \in Threads : Holds(t, u)
    BY <2>2 DEF Same
  <2>3. CASE state[u] \in {"kCompleted", "kAborted"}
    BY <2>3 DEF Same
  <2> QED
    BY <2>1, <2>2, <2>3 DEF CInv, CommittedState
<1> QED
  BY <1>1, <1>2, <1>3, <1>4 DEF CInv

\* What a step on the claim of t leaves of the claims of the others.
LEMMA OthersHold ==
    ASSUME NEW t \in Threads, Others(t), NEW s \in Threads, s # t
    PROVE  (\A u \in Uploads : Holds(s, u)' <=> Holds(s, u)) /\ (Past(s)' <=> Past(s))
BY DEF Others, Holds, Past

\* An active upload has no holder and is not committed.
LEMMA ActiveIsFree ==
    ASSUME MInv, CInv, NEW u \in Uploads, state[u] = "kActive"
    PROVE  (\A s \in Threads : ~Holds(s, u)) /\ commits[u] = 0
<1>1. commits[u] \in Nat
  BY DEF MInv, TypeOK
<1> QED
  BY <1>1 DEF CInv, HeldState, CommittedState

LEMMA ClaimsCInv ==
    ASSUME MInv, CInv, NEW t \in Threads, NEW u \in Uploads, Claims(t, u)
    PROVE  CInv'
<1>0. /\ Others(t) /\ commits' = commits /\ state \in [Uploads -> State]
      /\ state' = [state EXCEPT ![u] = "kCompleting"] /\ state[u] = "kActive"
  BY DEF Claims, MInv, TypeOK
<1>1. (\A s \in Threads : ~Holds(s, u)) /\ commits[u] = 0
  BY <1>0, ActiveIsFree
<1>2. /\ \A v \in Uploads : Holds(t, v)' <=> v = u
      /\ \A v \in Uploads : ~Holds(t, v)
      /\ ~Past(t)'
  BY DEF Claims, Holds, Past, Claimed
<1>3. \A s \in Threads \ {t}, v \in Uploads :
         (Holds(s, v)' <=> Holds(s, v)) /\ (Past(s)' <=> Past(s))
  BY <1>0, OthersHold
<1>4. OneHolder'
  BY <1>1, <1>2, <1>3 DEF CInv, OneHolder
<1>5. HeldState'
  BY <1>0, <1>1, <1>2, <1>3 DEF CInv, HeldState
<1>6. HeldCommit'
  BY <1>0, <1>1, <1>2, <1>3 DEF CInv, HeldCommit
<1>7. CommittedState'
  BY <1>0, <1>1, <1>2, <1>3 DEF CInv, CommittedState
<1> QED
  BY <1>4, <1>5, <1>6, <1>7 DEF CInv

LEMMA CommitsCInv ==
    ASSUME MInv, CInv, NEW t \in Threads, NEW u \in Uploads, Commits(t, u)
    PROVE  CInv'
<1>0. /\ Others(t) /\ state' = state /\ commits \in [Uploads -> Nat]
      /\ commits' = [commits EXCEPT ![u] = commits[u] + 1]
  BY DEF Commits, MInv, TypeOK
<1>1. commits'[u] > 0 /\ \A v \in Uploads \ {u} : commits'[v] = commits[v]
  BY <1>0
<1>2. /\ Holds(t, u)
      /\ \A v \in Uploads : (Holds(t, v) <=> v = u) /\ (Holds(t, v)' <=> v = u)
      /\ Past(t)'
  BY DEF Commits, Holds, Past, Claimed
<1>3. \A s \in Threads \ {t}, v \in Uploads :
         (Holds(s, v)' <=> Holds(s, v)) /\ (Past(s)' <=> Past(s))
  BY <1>0, OthersHold
<1>4. OneHolder'
  BY <1>2, <1>3 DEF CInv, OneHolder
<1>5. HeldState'
  BY <1>0, <1>2, <1>3 DEF CInv, HeldState
<1>6. HeldCommit'
  <2> SUFFICES ASSUME NEW v \in Uploads, NEW s \in Threads, Holds(s, v)'
               PROVE  commits'[v] > 0 <=> Past(s)'
    BY DEF HeldCommit
  <2>1. CASE s = t
    BY <2>1, <1>1, <1>2
  <2>2. CASE s # t
    <3>1. v # u
      BY <2>2, <1>2, <1>3 DEF CInv, OneHolder
    <3> QED
      BY <2>2, <3>1, <1>1, <1>3 DEF CInv, HeldCommit
  <2> QED
    BY <2>1, <2>2
<1>7. CommittedState'
  BY <1>0, <1>1, <1>2, <1>3 DEF CInv, CommittedState
<1> QED
  BY <1>4, <1>5, <1>6, <1>7 DEF CInv

\* Finish leaves a committed upload, Rollback one that is not.
LEMMA GivesUpCInv ==
    ASSUME MInv, CInv, NEW t \in Threads, NEW u \in Uploads, NEW from, NEW to,
           GivesUp(t, u, from, to),
           \/ from = "finish" /\ to = "kCompleted"
           \/ from = "rollback" /\ to = "kActive"
    PROVE  /\ CInv'
           /\ Holds(t, u)
           /\ commits[u] > 0 <=> from = "finish"
           /\ \A s \in Threads : ~Holds(s, u)'
<1>0. /\ Others(t) /\ state \in [Uploads -> State] /\ commits' = commits
      /\ state' = [state EXCEPT ![u] = to]
  BY DEF GivesUp, MInv, TypeOK
<1>1. /\ Holds(t, u)
      /\ \A v \in Uploads : (Holds(t, v) <=> v = u) /\ ~Holds(t, v)'
      /\ Past(t) <=> from = "finish"
  BY DEF GivesUp, Holds, Past, Claimed
<1>2. \A s \in Threads \ {t}, v \in Uploads :
         (Holds(s, v)' <=> Holds(s, v)) /\ (Past(s)' <=> Past(s))
  BY <1>0, OthersHold
<1>3. commits[u] > 0 <=> from = "finish"
  BY <1>1 DEF CInv, HeldCommit
<1>4. \A s \in Threads : ~Holds(s, u)'
  BY <1>1, <1>2 DEF CInv, OneHolder
<1>5. OneHolder'
  BY <1>1, <1>2 DEF CInv, OneHolder
<1>6. HeldState'
  <2> SUFFICES ASSUME NEW v \in Uploads, NEW s \in Threads, Holds(s, v)'
               PROVE  state'[v] \in {"kCompleting", "kAborted"}
    BY DEF HeldState
  <2>1. v # u /\ s # t /\ Holds(s, v)
    BY <1>1, <1>2, <1>4
  <2> QED
    BY <2>1, <1>0 DEF CInv, HeldState
<1>7. HeldCommit'
  BY <1>0, <1>1, <1>2 DEF CInv, HeldCommit
<1>8. CommittedState'
  <2> SUFFICES ASSUME NEW v \in Uploads, commits'[v] > 0
               PROVE  state'[v] \in {"kCompleted", "kAborted"} \/ \E s \in Threads : Holds(s, v)'
    BY DEF CommittedState
  <2>1. CASE v = u
    BY <2>1, <1>0, <1>3
  <2>2. CASE v # u
    <3>1. state'[v] = state[v] /\ commits[v] > 0
      BY <2>2, <1>0
    <3>2. \A s \in Threads : Holds(s, v)' <=> Holds(s, v)
      BY <2>2, <1>1, <1>2
    <3> QED
      BY <3>1, <3>2 DEF CInv, CommittedState
  <2> QED
    BY <2>1, <2>2
<1> QED
  BY <1>1, <1>3, <1>4, <1>5, <1>6, <1>7, <1>8 DEF CInv

LEMMA NextCInv == MInv /\ CInv /\ [Next]_vars => CInv'
<1> SUFFICES ASSUME MInv, CInv, [Next]_vars PROVE CInv'
  OBVIOUS
<1>1. CASE UNCHANGED vars
  <2>1. jobs' = jobs /\ commits' = commits /\ state' = state
    BY <1>1 DEF vars, coordVars, history
  <2> QED
    BY <2>1 DEF CInv, OneHolder, HeldState, HeldCommit, CommittedState, Holds, Past
<1>2. ASSUME NEW t \in Threads, NEW u \in Uploads, ClaimStep(t, u) PROVE CInv'
  BY <1>2, ClaimsCInv, CommitsCInv, GivesUpCInv DEF ClaimStep
<1>3. CASE Next
  BY <1>2, <1>3, StepKinds, SameCInv
<1> QED
  BY <1>1, <1>3

-----------------------------------------------------------------------------
(* The refinement.                                                         *)

LEMMA HoldersAre ==
    ASSUME NEW u
    PROVE  /\ Holders(u) = {t \in Threads : Holds(t, u)}
           /\ Holders(u)' = {t \in Threads : Holds(t, u)'}
BY DEF Holders, Holds

LEMMA OwnerFrame ==
    ASSUME NEW u \in Uploads, \A v \in Uploads \ {u} : Holders(v)' = Holders(v)
    PROVE  Owner' = [Owner EXCEPT ![u] = Owner'[u]]
<1>1. DOMAIN Owner = Uploads /\ Owner = [v \in Uploads |-> Owner[v]]
  BY DEF Owner
<1>2. Owner' = [v \in Uploads |-> Owner'[v]]
  BY DEF Owner
<1>3. ASSUME NEW v \in Uploads, v # u PROVE Owner'[v] = Owner[v]
  <2>1. Holders(v)' = Holders(v)
    BY <1>3
  <2> QED
    BY <2>1 DEF Owner
<1> QED
  BY <1>1, <1>2, <1>3

LEMMA OwnersAgree ==
    ASSUME \A u \in Uploads : Holders(u)' = Holders(u)
    PROVE  Owner' = Owner
<1>1. Owner = [v \in Uploads |-> Owner[v]] /\ Owner' = [v \in Uploads |-> Owner'[v]]
  BY DEF Owner
<1>2. ASSUME NEW v \in Uploads PROVE Owner'[v] = Owner[v]
  <2>1. Holders(v)' = Holders(v)
    OBVIOUS
  <2> QED
    BY <2>1 DEF Owner
<1> QED
  BY <1>1, <1>2

LEMMA InitUC == Init => UC!Init
<1> SUFFICES ASSUME Init PROVE UC!Init
  OBVIOUS
<1>1. \A u : Holders(u) = {}
  BY DEF Init, Holders, NoJob, Claimed, Actors
<1>2. Owner = [u \in Uploads |-> None]
  BY <1>1 DEF Owner
<1>3. Committed = {}
  BY DEF Init, Committed
<1> QED
  BY <1>2, <1>3 DEF UC!Init

LEMMA SameUC ==
    ASSUME \A u \in Uploads : Holders(u)' = Holders(u), commits' = commits
    PROVE  UNCHANGED UC!vars
<1>1. Owner' = Owner
  BY OwnersAgree
<1>2. Committed' = Committed
  BY DEF Committed
<1> QED
  BY <1>1, <1>2 DEF UC!vars

LEMMA NextUC == MInv /\ CInv /\ CInv' /\ [Next]_vars => [UC!Next]_(UC!vars)
<1> SUFFICES ASSUME MInv, CInv, CInv', [Next]_vars PROVE [UC!Next]_(UC!vars)
  OBVIOUS
<1>u. None \notin Threads /\ commits \in [Uploads -> Nat]
  BY MultipartAssumption DEF MInv, TypeOK
<1>1. CASE UNCHANGED vars
  <2>1. jobs' = jobs /\ commits' = commits
    BY <1>1 DEF vars, history
  <2> QED
    BY <2>1, SameUC DEF Holders
<1>2. CASE Same
  <2>1. \A u \in Uploads : Holders(u)' = Holders(u)
    BY <1>2, HoldersAre DEF Same
  <2> QED
    BY <2>1, <1>2, SameUC DEF Same
<1>3. ASSUME NEW t \in Threads, NEW u \in Uploads, Claims(t, u) PROVE UC!Next
  <2>0. state[u] = "kActive" /\ Others(t) /\ commits' = commits
    BY <1>3 DEF Claims
  <2>1. \A s \in Threads \ {t}, v \in Uploads : Holds(s, v)' <=> Holds(s, v)
    BY <2>0, OthersHold
  <2>2. \A v \in Uploads : ~Holds(t, v) /\ (Holds(t, v)' <=> v = u)
    BY <1>3 DEF Claims, Holds, Claimed
  <2>3. (\A s \in Threads : ~Holds(s, u)) /\ commits[u] = 0
    BY <2>0, ActiveIsFree
  <2>4. Holders(u) = {} /\ Holders(u)' = {t}
    BY <2>1, <2>2, <2>3, HoldersAre
  <2>5. \A v \in Uploads \ {u} : Holders(v)' = Holders(v)
    BY <2>1, <2>2, HoldersAre
  <2>6. Owner[u] = None /\ Owner'[u] = t
    BY <2>4 DEF Owner
  <2>7. Owner' = [Owner EXCEPT ![u] = t]
    BY <2>5, <2>6, OwnerFrame
  <2>8. u \notin Committed /\ Committed' = Committed
    BY <2>0, <2>3, <2>5 DEF Committed
  <2>9. UC!Claim(u, t)
    BY <2>6, <2>7, <2>8 DEF UC!Claim
  <2> QED
    BY <2>9 DEF UC!Next
<1>4. ASSUME NEW t \in Threads, NEW u \in Uploads, Commits(t, u) PROVE UNCHANGED UC!vars
  <2>0. Others(t) /\ commits' = [commits EXCEPT ![u] = commits[u] + 1]
    BY <1>4 DEF Commits
  <2>1. \A s \in Threads \ {t}, v \in Uploads : Holds(s, v)' <=> Holds(s, v)
    BY <2>0, OthersHold
  <2>2. \A v \in Uploads : (Holds(t, v) <=> v = u) /\ (Holds(t, v)' <=> v = u)
    BY <1>4 DEF Commits, Holds, Claimed
  <2>3. \A v \in Uploads : Holders(v)' = Holders(v)
    BY <2>1, <2>2, HoldersAre
  <2>4. t \in Holders(u)
    BY <2>2, HoldersAre
  <2>5. Owner' = Owner
    BY <2>3, OwnersAgree
  <2>6. Committed' = Committed
    BY <2>0, <2>3, <2>4, <1>u DEF Committed
  <2> QED
    BY <2>5, <2>6 DEF UC!vars
<1>5. ASSUME NEW t \in Threads, NEW u \in Uploads, NEW from, NEW to,
             GivesUp(t, u, from, to),
             \/ from = "finish" /\ to = "kCompleted"
             \/ from = "rollback" /\ to = "kActive"
      PROVE  UC!Next
  <2>0. Others(t) /\ commits' = commits
    BY <1>5 DEF GivesUp
  <2>1. \A s \in Threads \ {t}, v \in Uploads : Holds(s, v)' <=> Holds(s, v)
    BY <2>0, OthersHold
  <2>2. \A v \in Uploads : (Holds(t, v) <=> v = u) /\ ~Holds(t, v)'
    BY <1>5 DEF GivesUp, Holds, Claimed
  <2>3. (commits[u] > 0 <=> from = "finish") /\ \A s \in Threads : ~Holds(s, u)'
    BY <1>5, GivesUpCInv
  <2>4. Holders(u) = {t} /\ Holders(u)' = {}
    BY <2>2, <2>3, HoldersAre DEF CInv, OneHolder
  <2>5. \A v \in Uploads \ {u} : Holders(v)' = Holders(v)
    BY <2>1, <2>2, HoldersAre
  <2>6. Owner[u] = t /\ Owner'[u] = None
    BY <2>4 DEF Owner
  <2>7. Owner[u] # None /\ Owner' = [Owner EXCEPT ![u] = None]
    BY <2>5, <2>6, <1>u, OwnerFrame
  <2>8. CASE from = "finish"
    <3>1. Committed' = Committed \cup {u}
      BY <2>8, <2>0, <2>3, <2>4, <2>5 DEF Committed
    <3>2. UC!Commit(u)
      BY <2>7, <3>1 DEF UC!Commit
    <3> QED
      BY <3>2 DEF UC!Next
  <2>9. CASE from = "rollback"
    <3>1. Committed' = Committed
      BY <2>9, <2>0, <2>3, <2>4, <2>5 DEF Committed
    <3>2. UC!GiveBack(u)
      BY <2>7, <3>1 DEF UC!GiveBack
    <3> QED
      BY <3>2 DEF UC!Next
  <2> QED
    BY <1>5, <2>8, <2>9
<1>6. ASSUME NEW t \in Threads, NEW u \in Uploads, ClaimStep(t, u)
      PROVE  [UC!Next]_(UC!vars)
  BY <1>3, <1>4, <1>5, <1>6 DEF ClaimStep
<1> QED
  BY <1>1, <1>2, <1>6, StepKinds

(***************************************************************************)
(* CompleteUpload is a one-shot commit: an upload has at most one          *)
(* committer at a time, every committer either gives it back through the   *)
(* rollback guard or commits it, and once committed it is never claimed    *)
(* again, for any number of uploads and threads and whatever aborts and    *)
(* sweeps do in between.                                                   *)
(***************************************************************************)
THEOREM CompleteIsOneShot == Spec => CommitIsExclusive
<1>1. MInv /\ [Next]_vars => MInv'
  BY NextMInv
<1> QED
  BY <1>1, InitMInv, InitCInv, NextCInv, InitUC, NextUC, PTL DEF Spec, CommitIsExclusive, UC!Spec
=============================================================================
