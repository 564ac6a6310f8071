---------------------------- MODULE MultipartProofs ----------------------------
(***************************************************************************)
(* Proofs about Multipart: its types, and the accounting of the byte store *)
(* under the requests of the whole gateway.  CommitProofs goes on from its *)
(* invariant.                                                              *)
(***************************************************************************)
EXTENDS Multipart, MemoryDataStoreProofs

-----------------------------------------------------------------------------
(* What a job carries at each section.                                     *)

OnUpload == Labels \ {"idle", "index", "sweep"}

OnObject == (Claimed \ {"rollback"}) \cup {"index"}

JobOK(j) ==
    /\ j.at \in OnUpload => j.u \in Uploads
    /\ j.at \in OnObject => j.k \in Keys
    /\ j.at \in {"write", "register"} => j.p \in Parts /\ j.len \in Lengths

JobsOK == \A a \in Actors : JobOK(jobs[a])

(***************************************************************************)
(* The inductive invariant behind the composition: types, the invariant of *)
(* the byte store, and the arguments every section finds in its job.       *)
(***************************************************************************)
MInv == TypeOK /\ DSInv /\ JobsOK

\* The labels, one fact each, so that proofs need not expand the sets.
LEMMA LabelFacts ==
    /\ Claimed \subseteq Labels /\ Publishing \subseteq Labels /\ Aborting \subseteq Labels
    /\ OnUpload \subseteq Labels /\ OnObject \subseteq Labels
    /\ {"idle", "claim", "erase", "write", "register", "mark", "sweep"} \subseteq Labels
BY DEF Labels, OnUpload, OnObject, Publishing, Claimed

LEMMA NoJobOK == NoJob \in Job /\ JobOK(NoJob)
BY DEF NoJob, Job, JobOK, Labels, OnUpload, OnObject, Claimed

\* An actor's new job, typed and with its arguments, keeps the table so.
LEMMA JobUpdate ==
    ASSUME jobs \in [Actors -> Job], JobsOK,
           NEW a \in Actors, NEW j \in Job, JobOK(j),
           jobs' = [jobs EXCEPT ![a] = j]
    PROVE  jobs' \in [Actors -> Job] /\ JobsOK'
<1>1. \A b \in Actors : jobs'[b] = IF b = a THEN j ELSE jobs[b]
  OBVIOUS
<1>2. jobs' \in [Actors -> Job]
  OBVIOUS
<1>3. ASSUME NEW b \in Actors PROVE JobOK(jobs'[b])
  BY <1>1, <1>3 DEF JobsOK
<1> QED
  BY <1>2, <1>3 DEF JobsOK

LEMMA GotoIs ==
    ASSUME jobs \in [Actors -> Job], NEW a \in Actors, NEW label \in Labels,
           Goto(a, label)
    PROVE  /\ jobs' = [jobs EXCEPT ![a] = [jobs[a] EXCEPT !.at = label]]
           /\ [jobs[a] EXCEPT !.at = label] \in Job
BY DEF Goto, Job

\* Moving on within a request keeps the arguments.
LEMMA GotoOK ==
    ASSUME jobs \in [Actors -> Job], JobsOK, NEW a \in Actors, NEW label \in Labels,
           Goto(a, label),
           label \in OnUpload => jobs[a].at \in OnUpload,
           label \in OnObject => jobs[a].at \in OnObject,
           label \in {"write", "register"} => jobs[a].at \in {"write", "register"}
    PROVE  jobs' \in [Actors -> Job] /\ JobsOK'
<1> DEFINE j == [jobs[a] EXCEPT !.at = label]
<1>1. jobs' = [jobs EXCEPT ![a] = j] /\ j \in Job
  BY GotoIs
<1>2. /\ j.at = label /\ j.u = jobs[a].u /\ j.k = jobs[a].k
      /\ j.p = jobs[a].p /\ j.len = jobs[a].len
  BY DEF Job
<1>3. JobOK(j)
  BY <1>2 DEF JobsOK, JobOK
<1> HIDE DEF j
<1> QED
  BY <1>1, <1>3, JobUpdate

LEMMA ReturnOK ==
    ASSUME jobs \in [Actors -> Job], JobsOK, NEW a \in Actors, Return(a)
    PROVE  jobs' \in [Actors -> Job] /\ JobsOK'
BY NoJobOK, JobUpdate DEF Return

LEMMA FindOK ==
    ASSUME jobs \in [Actors -> Job], JobsOK, NEW t \in Threads, NEW u \in Uploads,
           NEW j \in Job, JobOK(j), Find(t, u, j)
    PROVE  jobs' \in [Actors -> Job] /\ JobsOK'
BY JobUpdate DEF Find, Begin, Actors

\* The length a claim computes is a number.
LEMMA NeedType ==
    ASSUME TypeOK, NEW u \in Uploads, NEW listed \in SUBSET Parts, NEW match,
           Valid(u, listed, match)
    PROVE  Total([p \in listed |-> recorded[u][p]]) \in Nat
<1>1. IsFiniteSet(listed)
  BY FiniteAssumption, FS_Subset
<1>2. [p \in listed |-> recorded[u][p]] \in [listed -> Nat]
  BY DEF TypeOK, Valid, NoPart
<1> QED
  BY <1>1, <1>2, TotalType

\* Every section leaves the next one the arguments it needs.
LEMMA StepJobs ==
    ASSUME TypeOK, JobsOK, Next
    PROVE  jobs' \in [Actors -> Job] /\ JobsOK'
<1> DEFINE Good == jobs' \in [Actors -> Job] /\ JobsOK'
<1>0. jobs \in [Actors -> Job]
  BY DEF TypeOK
<1>u. UNCHANGED jobs => Good
  BY <1>0 DEF JobsOK
<1>a. Threads \subseteq Actors /\ Sweeper \in Actors
  BY DEF Actors
<1> SUFFICES Good
  OBVIOUS
<1> HIDE DEF Good
<1>1. CASE Arrive
  <2>1. ASSUME NEW u \in Uploads, CreateUpload(u) \/ TtlElapses(u) PROVE Good
    BY <2>1, <1>u DEF CreateUpload, Create, TtlElapses
  <2>2. ASSUME NEW t \in Threads, NEW u \in Uploads, NEW p \in Parts, NEW len \in Lengths,
               UploadPart(t, u, p, len)
        PROVE  Good
    <3> DEFINE j == [NoJob EXCEPT !.at = "write", !.u = u, !.p = p, !.len = len]
    <3>1. j \in Job /\ JobOK(j)
      BY MultipartAssumption, LabelFacts
      DEF NoJob, Job, JobOK, OnUpload, OnObject, Claimed
    <3>2. Find(t, u, j)
      BY <2>2 DEF UploadPart
    <3> HIDE DEF j
    <3> QED
      BY <3>1, <3>2, <1>0, FindOK DEF Good
  <2>3. ASSUME NEW t \in Threads, NEW u \in Uploads, CompleteUpload(t, u) PROVE Good
    <3> DEFINE j == [NoJob EXCEPT !.at = "claim", !.u = u]
    <3>1. j \in Job /\ JobOK(j)
      BY LabelFacts DEF NoJob, Job, JobOK, OnUpload, OnObject, Claimed
    <3>2. Find(t, u, j)
      BY <2>3 DEF CompleteUpload
    <3> HIDE DEF j
    <3> QED
      BY <3>1, <3>2, <1>0, FindOK DEF Good
  <2>4. ASSUME NEW t \in Threads, NEW u \in Uploads, AbortUpload(t, u) PROVE Good
    <3> DEFINE j == [NoJob EXCEPT !.at = "mark", !.u = u]
    <3>1. j \in Job /\ JobOK(j)
      BY LabelFacts DEF NoJob, Job, JobOK, OnUpload, OnObject, Claimed
    <3>2. Find(t, u, j)
      BY <2>4 DEF AbortUpload
    <3> HIDE DEF j
    <3> QED
      BY <3>1, <3>2, <1>0, FindOK DEF Good
  <2>5. ASSUME NEW t \in Threads, NEW k \in Keys, NEW len \in Nat,
               NEW j, j = [NoJob EXCEPT !.at = "index", !.k = k, !.len = len],
               Begin(t, j)
        PROVE  Good
    <3>1. j \in Job /\ JobOK(j)
      BY <2>5, LabelFacts DEF NoJob, Job, JobOK, OnUpload, OnObject, Claimed, Publishing
    <3> QED
      BY <2>5, <3>1, <1>0, <1>a, JobUpdate DEF Begin, Good
  <2>6. ASSUME NEW t \in Threads, NEW k \in Keys, NEW total \in Lengths,
               ReserveObject(t, k, total)
        PROVE  Good
    <3>1. total \in Nat
      BY MultipartAssumption
    <3>2. CASE Begin(t, [NoJob EXCEPT !.at = "index", !.k = k, !.len = total])
      BY <3>1, <3>2, <2>5
    <3>3. CASE UNCHANGED jobs
      BY <3>3, <1>u
    <3> QED
      BY <2>6, <3>2, <3>3 DEF ReserveObject, PutBody
  <2>7. ASSUME NEW t \in Threads, NEW k \in Keys, NEW offset \in Offsets, NEW len \in Lengths,
               NEW total \in Lengths \cup {NoTotal}, WriteObject(t, k, offset, len, total)
        PROVE  Good
    <3> DEFINE n == FinalSize(offset + len, total)
    <3>1. n \in Nat
      BY MultipartAssumption DEF FinalSize
    <3>2. CASE Begin(t, [NoJob EXCEPT !.at = "index", !.k = k, !.len = n])
      BY <3>1, <3>2, <2>5
    <3>3. CASE UNCHANGED jobs
      BY <3>3, <1>u
    <3> QED
      BY <2>7, <3>2, <3>3 DEF WriteObject, PutBody
  <2>8. (\E t \in Threads, k \in Keys, total \in Lengths : ReserveObject(t, k, total)) => Good
    BY <2>6
  <2>9. (\E t \in Threads, k \in Keys, offset \in Offsets, len \in Lengths,
            total \in Lengths \cup {NoTotal} : WriteObject(t, k, offset, len, total)) => Good
    BY <2>7
  <2>10. (\E t \in Threads, u \in Uploads :
             \/ \E p \in Parts, len \in Lengths : UploadPart(t, u, p, len)
             \/ CompleteUpload(t, u)
             \/ AbortUpload(t, u)) => Good
    BY <2>2, <2>3, <2>4
  <2>11. (\E u \in Uploads : CreateUpload(u) \/ TtlElapses(u)) => Good
    BY <2>1
  <2> QED
    BY <1>1, <2>8, <2>9, <2>10, <2>11, Zenon DEF Arrive
<1>2. ASSUME NEW t \in Threads, Serve(t) PROVE Good
  <2>0. t \in Actors /\ jobs[t] \in Job
    BY <1>0, <1>a
  <2>m. ASSUME NEW label \in Labels, Goto(t, label),
               label \in OnUpload => jobs[t].at \in OnUpload,
               label \in OnObject => jobs[t].at \in OnObject,
               label \in {"write", "register"} => jobs[t].at \in {"write", "register"}
        PROVE  Good
    BY <2>0, <2>m, <1>0, GotoOK DEF Good
  <2>r. Return(t) => Good
    BY <2>0, <1>0, ReturnOK DEF Good
  <2> USE DEF OnUpload, OnObject, Claimed, Publishing, Aborting, Labels, At
  <2>1. ASSUME NEW offset \in Offsets, StagePart(t, offset) PROVE Good
    BY <2>1, <2>m, <2>r DEF StagePart
  <2>2. CASE RegisterPart(t) \/ TransferFails(t) \/ ClaimRefused(t) \/ Rollback(t) \/ Erase(t) \/ PutIndex(t)
    BY <2>2, <2>r DEF RegisterPart, TransferFails, ClaimRefused, Rollback, Erase, PutIndex
  <2>3. ASSUME NEW listed \in SUBSET Parts \ {{}}, NEW match \in BOOLEAN,
               Claim(t, listed, match)
        PROVE  Good
    <3> DEFINE u == jobs[t].u
               n == Total([p \in listed |-> recorded[u][p]])
               j == [jobs[t] EXCEPT !.at = "lookup", !.k = KeyOf[u],
                                    !.listed = listed, !.need = n]
               i == [jobs[t] EXCEPT !.at = "rollback"]
    <3>1. u \in Uploads /\ KeyOf[u] \in Keys
      BY <2>0, <2>3, KeyOfAssumption DEF Claim, JobsOK, JobOK
    <3>2. jobs' = [jobs EXCEPT ![t] = IF Valid(u, listed, match) THEN j ELSE i]
      BY <2>3 DEF Claim
    <3>3. ASSUME Valid(u, listed, match) PROVE j \in Job /\ JobOK(j)
      <4>1. n \in Nat
        BY <3>1, <3>3, NeedType
      <4> HIDE DEF n
      <4> QED
        BY <2>0, <3>1, <4>1 DEF Job, JobOK
    <3>4. i \in Job /\ JobOK(i)
      BY <2>0, <3>1 DEF Job, JobOK
    <3> HIDE DEF u, n, j, i
    <3>5. (IF Valid(u, listed, match) THEN j ELSE i) \in Job
      BY <3>3, <3>4
    <3>6. JobOK(IF Valid(u, listed, match) THEN j ELSE i)
      <4>1. CASE Valid(u, listed, match)
        BY <3>3, <4>1
      <4>2. CASE ~Valid(u, listed, match)
        BY <3>4, <4>2
      <4> QED
        BY <4>1, <4>2
    <3> QED
      BY <2>0, <3>2, <3>5, <3>6, <1>0, JobUpdate DEF Good
  <2>4. CASE LookupTarget(t)
    BY <2>4, <2>m DEF LookupTarget
  <2>5. CASE Take(t)
    BY <2>5, <1>u DEF Take
  <2>6. CASE TakeNothing(t)
    BY <2>6, <2>m DEF TakeNothing
  <2>7. CASE Join(t)
    BY <2>7, <1>u, <2>m DEF Join
  <2>8. CASE Store(t)
    <3> DEFINE j == [jobs[t] EXCEPT !.at = "unrecord", !.len = asm[t].total]
    <3>1. asm[t].total \in Nat
      BY DEF TypeOK, BackendTypeOK, DSTypeOK, Asm
    <3>2. CASE jobs' = [jobs EXCEPT ![t].at = "unrecord", ![t].len = asm[t].total]
      <4>1. jobs' = [jobs EXCEPT ![t] = j]
        BY <3>2, <2>0, <1>0 DEF Job
      <4>2. j \in Job /\ JobOK(j)
        BY <2>0, <2>8, <3>1 DEF Job, JobOK, Store, JobsOK
      <4> HIDE DEF j
      <4> QED
        BY <2>0, <4>1, <4>2, <1>0, JobUpdate DEF Good
    <3>3. CASE Goto(t, "rollback")
      BY <2>8, <3>3, <2>m DEF Store
    <3> QED
      BY <2>8, <3>2, <3>3 DEF Store
  <2>9. CASE Unrecord(t)
    BY <2>9, <2>m DEF Unrecord
  <2>10. CASE Enter(t) \/ Untarget(t) \/ Finish(t) \/ Mark(t)
    BY <2>10, <2>m DEF Enter, Untarget, Finish, Mark
  <2> QED
    BY <1>2, <2>1, <2>2, <2>3, <2>4, <2>5, <2>6, <2>7, <2>8, <2>9, <2>10, Zenon DEF Serve
<1>3. ASSUME NEW a \in Actors, Abort(a) PROVE Good
  <2>m. ASSUME NEW label \in Labels, Goto(a, label), jobs[a].at \in OnUpload,
               label \in Aborting
        PROVE  Good
    <3>1. label \notin OnObject /\ label \notin {"write", "register"}
      BY <2>m DEF OnObject, Claimed, Aborting
    <3> QED
      BY <2>m, <3>1, <1>0, GotoOK DEF Good
  <2>1. CASE AbortData(a) \/ AbortIndex(a)
    BY <2>1, <2>m DEF AbortData, AbortIndex, At, OnUpload, Labels, Aborting
  <2>2. CASE AbortTarget(a)
    <3> DEFINE j == [NoJob EXCEPT !.at = "sweep"]
    <3>1. CASE Goto(a, "abortErase")
      BY <2>2, <3>1, <2>m DEF AbortTarget, At, OnUpload, Labels, Aborting
    <3>2. CASE Return(a)
      BY <3>2, <1>0, ReturnOK DEF Good
    <3>3. CASE jobs' = [jobs EXCEPT ![a] = j]
      <4>1. j \in Job /\ JobOK(j)
        BY DEF NoJob, Job, JobOK, Labels, OnUpload, OnObject, Claimed
      <4> HIDE DEF j
      <4> QED
        BY <3>3, <4>1, <1>0, JobUpdate DEF Good
    <3> QED
      BY <2>2, <3>1, <3>2, <3>3 DEF AbortTarget
  <2> QED
    BY <1>3, <2>1, <2>2 DEF Abort
<1>4. CASE Sweep
  <2>1. ASSUME NEW u \in Uploads, SweepExpired(u) PROVE Good
    BY <2>1, <1>u DEF SweepExpired
  <2>2. ASSUME NEW u \in Uploads, SweepOne(u) PROVE Good
    <3> DEFINE j == [NoJob EXCEPT !.at = "abortData", !.u = u]
    <3>1. j \in Job /\ JobOK(j)
      BY DEF NoJob, Job, JobOK, Labels, Aborting, OnUpload, OnObject, Claimed
    <3>2. jobs' = [jobs EXCEPT ![Sweeper] = j]
      BY <2>2 DEF SweepOne
    <3> HIDE DEF j
    <3> QED
      BY <3>1, <3>2, <1>0, <1>a, JobUpdate DEF Good
  <2> QED
    BY <1>4, <2>1, <2>2 DEF Sweep
<1> QED
  BY <1>1, <1>2, <1>3, <1>4 DEF Next

-----------------------------------------------------------------------------
(* Every section is a step of the byte store or leaves it alone.           *)

Amounts == Offsets \cup Lengths

LEMMA StepUsesDataStore ==
    ASSUME TypeOK, JobsOK, Next
    PROVE  [DSNextOver(Amounts)]_dsVars
<1> DEFINE Good == [DSNextOver(Amounts)]_dsVars
<1>u. UNCHANGED dsVars => Good
  OBVIOUS
<1>o. ASSUME NEW k \in Keys, NEW offset \in Amounts, NEW len \in Amounts,
             NEW total \in Amounts \cup {NoTotal}, ObjectStep(k, offset, len, total)
      PROVE  Good
  BY <1>o DEF DSNextOver
<1>p. ASSUME NEW u \in Uploads, NEW p \in Parts, NEW offset \in Amounts,
             NEW len \in Amounts, PartStep(u, p, offset, len)
      PROVE  Good
  BY <1>p DEF DSNextOver
<1>t. ASSUME NEW t \in Threads, NEW u \in Uploads, NEW k \in Keys,
             NEW listed \in SUBSET Parts, AssembleStep(t, u, k, listed)
      PROVE  Good
  BY <1>t DEF DSNextOver
<1> SUFFICES Good
  OBVIOUS
<1> HIDE DEF Good
<1>a. jobs \in [Actors -> Job] /\ Threads \subseteq Actors
  BY DEF TypeOK, Actors
<1>1. CASE Arrive
  <2>1. (\E u \in Uploads : CreateUpload(u) \/ TtlElapses(u)) => Good
    BY <1>u DEF CreateUpload, Create, TtlElapses, StartMultipart, StartRecord, backendVars
  <2>2. (\E t \in Threads, u \in Uploads :
            \/ \E p \in Parts, len \in Lengths : UploadPart(t, u, p, len)
            \/ CompleteUpload(t, u)
            \/ AbortUpload(t, u)) => Good
    BY <1>u DEF UploadPart, CompleteUpload, AbortUpload, Find, backendVars
  <2>3. ASSUME NEW t \in Threads, NEW k \in Keys, NEW total \in Lengths,
               ReserveObject(t, k, total)
        PROVE  Good
    <3>1. Reserve(k, total) \/ ReserveRefused(k, total)
      BY <2>3 DEF ReserveObject, PutBody
    <3>2. ObjectStep(k, total, total, total)
      BY <3>1 DEF ObjectStep
    <3>3. total \in Amounts
      BY DEF Amounts
    <3> QED
      BY <3>2, <3>3, <1>o
  <2>4. ASSUME NEW t \in Threads, NEW k \in Keys, NEW offset \in Offsets, NEW len \in Lengths,
               NEW total \in Lengths \cup {NoTotal}, WriteObject(t, k, offset, len, total)
        PROVE  Good
    <3>1. WriteRange(k, offset, len, total) \/ WriteRangeRefused(k, offset, len, total)
      BY <2>4 DEF WriteObject, PutBody
    <3>2. ObjectStep(k, offset, len, total)
      BY <3>1 DEF ObjectStep
    <3>3. offset \in Amounts /\ len \in Amounts /\ total \in Amounts \cup {NoTotal}
      BY DEF Amounts
    <3> QED
      BY <3>2, <3>3, <1>o
  <2>5. (\E t \in Threads, k \in Keys, total \in Lengths : ReserveObject(t, k, total)) => Good
    BY <2>3
  <2>6. (\E t \in Threads, k \in Keys, offset \in Offsets, len \in Lengths,
            total \in Lengths \cup {NoTotal} : WriteObject(t, k, offset, len, total)) => Good
    BY <2>4
  <2> QED
    BY <1>1, <2>1, <2>2, <2>5, <2>6, Zenon DEF Arrive
<1>2. ASSUME NEW t \in Threads, Serve(t) PROVE Good
  <2>0. jobs[t] \in Job /\ JobOK(jobs[t])
    BY <1>a DEF JobsOK
  <2>1. ASSUME NEW offset \in Offsets, StagePart(t, offset) PROVE Good
    <3> DEFINE u == jobs[t].u  p == jobs[t].p  len == jobs[t].len
    <3>1. u \in Uploads /\ p \in Parts /\ len \in Amounts /\ offset \in Amounts
      BY <2>0, <2>1 DEF StagePart, At, JobOK, OnUpload, Labels, Amounts
    <3>2. WritePart(u, p, offset, len) \/ WritePartRefused(u, p, offset, len)
      BY <2>1 DEF StagePart
    <3> HIDE DEF u, p, len
    <3>3. PartStep(u, p, offset, len)
      BY <3>2 DEF PartStep
    <3> QED
      BY <3>1, <3>3, <1>p
  <2>2. CASE RegisterPart(t) \/ TransferFails(t) \/ ClaimRefused(t) \/ Rollback(t) \/ Erase(t) \/ PutIndex(t)
    BY <2>2, <1>u
    DEF RegisterPart, TransferFails, ClaimRefused, Rollback, Erase, PutIndex, PutObjectIndex, backendVars
  <2>3. ASSUME NEW listed \in SUBSET Parts \ {{}}, NEW match \in BOOLEAN,
               Claim(t, listed, match)
        PROVE  Good
    BY <2>3, <1>u DEF Claim, backendVars
  <2>4. CASE LookupTarget(t) \/ TakeNothing(t) \/ Finish(t) \/ Mark(t)
    BY <2>4, <1>u DEF LookupTarget, TakeNothing, Finish, Mark, backendVars
  <2>5. CASE Unrecord(t) \/ Enter(t) \/ Untarget(t)
    BY <2>5, <1>u
    DEF Unrecord, EraseRecord, Enter, CommitEntry, Untarget, EraseTarget, backendVars
  <2>6. CASE Take(t) \/ Join(t) \/ Store(t)
    <3> DEFINE u == jobs[t].u  k == jobs[t].k  listed == jobs[t].listed
    <3>1. u \in Uploads /\ k \in Keys /\ listed \in SUBSET Parts
      BY <2>0, <2>6
      DEF Take, Join, Store, At, JobOK, Job, OnUpload, OnObject, Labels, Claimed
    <3>2. \/ AssembleTake(t, u) \/ AssembleMissing(t, listed) \/ AssembleJoin(t, listed)
          \/ AssembleStore(t, k) \/ AssembleRefused(t, k)
      BY <2>6 DEF Take, Join, Store
    <3> HIDE DEF u, k, listed
    <3>3. AssembleStep(t, u, k, listed)
      BY <3>2 DEF AssembleStep
    <3> QED
      BY <3>1, <3>3, <1>t
  <2> QED
    BY <1>2, <2>1, <2>2, <2>3, <2>4, <2>5, <2>6, Zenon DEF Serve
<1>3. ASSUME NEW a \in Actors, Abort(a) PROVE Good
  <2>1. CASE AbortData(a)
    <3> DEFINE u == jobs[a].u
    <3>1. u \in Uploads /\ AbortMultipartData(u)
      BY <2>1 DEF AbortData, At, JobsOK, JobOK, OnUpload, Labels, Aborting
    <3> QED
      BY <3>1 DEF DSNextOver, Good
  <2>2. CASE AbortIndex(a) \/ AbortTarget(a)
    BY <2>2, <1>u DEF AbortIndex, AbortTarget, AbortRecord, EraseTarget, backendVars
  <2> QED
    BY <1>3, <2>1, <2>2 DEF Abort
<1>4. CASE Sweep
  BY <1>4, <1>u DEF Sweep, SweepExpired, SweepOne, backendVars
<1> QED
  BY <1>1, <1>2, <1>3, <1>4 DEF Next

LEMMA AmountsSuffice == [DSNextOver(Amounts)]_dsVars => [DSNext]_dsVars
<1>1. Amounts \subseteq Nat
  BY MultipartAssumption DEF Amounts
<1>2. DSNextOver(Amounts) => DSNextOver(Nat)
  BY <1>1 DEF DSNextOver
<1> QED
  BY <1>2 DEF DSNext

-----------------------------------------------------------------------------
(* The types of what is not in the byte store and not a job.               *)

RestTypeOK ==
    /\ index \in [Keys -> Nat \cup {NoEntry}]
    /\ records \subseteq Uploads
    /\ targets \subseteq Uploads
    /\ store \subseteq Uploads
    /\ state \in [Uploads -> State]
    /\ recorded \in [Uploads -> [Parts -> Nat \cup {NoPart}]]
    /\ idle \subseteq Uploads
    /\ expired \subseteq Uploads
    /\ commits \in [Uploads -> Nat]
    /\ removed \subseteq Uploads
    /\ late \subseteq Uploads
    /\ torn \subseteq Keys

LEMMA TypeParts == TypeOK <=> DSTypeOK /\ RestTypeOK /\ jobs \in [Actors -> Job]
BY DEF TypeOK, BackendTypeOK, RestTypeOK

LEMMA StepRest ==
    ASSUME TypeOK, JobsOK, Next
    PROVE  RestTypeOK'
<1>0. RestTypeOK /\ jobs \in [Actors -> Job] /\ Threads \subseteq Actors /\ Sweeper \in Actors
  BY TypeParts DEF Actors
<1> USE DEF backendVars, indexVars, coordVars, history, DataOnly, State
<1>1. CASE Arrive
  <2>1. ASSUME NEW u \in Uploads, CreateUpload(u) \/ TtlElapses(u) PROVE RestTypeOK'
    BY <2>1, <1>0 DEF CreateUpload, Create, StartMultipart, StartRecord, TtlElapses,
             RestTypeOK
  <2>2. (\E t \in Threads, u \in Uploads :
            \/ \E p \in Parts, len \in Lengths : UploadPart(t, u, p, len)
            \/ CompleteUpload(t, u)
            \/ AbortUpload(t, u)) => RestTypeOK'
    BY <1>0 DEF UploadPart, CompleteUpload, AbortUpload, Find, RestTypeOK
  <2>3. ASSUME NEW t \in Threads, NEW k \in Keys, NEW total \in Lengths,
               ReserveObject(t, k, total)
        PROVE  RestTypeOK'
    BY <2>3, <1>0 DEF ReserveObject, PutBody, Tear, RestTypeOK
  <2>4. ASSUME NEW t \in Threads, NEW k \in Keys, NEW offset \in Offsets, NEW len \in Lengths,
               NEW total \in Lengths \cup {NoTotal}, WriteObject(t, k, offset, len, total)
        PROVE  RestTypeOK'
    BY <2>4, <1>0 DEF WriteObject, PutBody, Tear, RestTypeOK
  <2>5. (\E t \in Threads, k \in Keys, total \in Lengths : ReserveObject(t, k, total))
        => RestTypeOK'
    BY <2>3
  <2>6. (\E t \in Threads, k \in Keys, offset \in Offsets, len \in Lengths,
            total \in Lengths \cup {NoTotal} : WriteObject(t, k, offset, len, total))
        => RestTypeOK'
    BY <2>4
  <2>7. (\E u \in Uploads : CreateUpload(u) \/ TtlElapses(u)) => RestTypeOK'
    BY <2>1
  <2> QED
    BY <1>1, <2>2, <2>5, <2>6, <2>7, Zenon DEF Arrive
<1>2. ASSUME NEW t \in Threads, Serve(t) PROVE RestTypeOK'
  <2>0. jobs[t] \in Job /\ JobOK(jobs[t])
    BY <1>0 DEF JobsOK
  <2> USE DEF OnUpload, OnObject, Claimed, Publishing, Labels, At, JobOK, Job
  <2>1. ASSUME NEW offset \in Offsets, StagePart(t, offset) PROVE RestTypeOK'
    BY <2>0, <2>1, <1>0 DEF StagePart, RestTypeOK
  <2>2. CASE RegisterPart(t)
    BY <2>0, <2>2, <1>0 DEF RegisterPart, RestTypeOK
  <2>3. ASSUME NEW listed \in SUBSET Parts \ {{}}, NEW match \in BOOLEAN,
               Claim(t, listed, match)
        PROVE  RestTypeOK'
    BY <2>0, <2>3, <1>0 DEF Claim, RestTypeOK
  <2>4. CASE LookupTarget(t) \/ TakeNothing(t) \/ TransferFails(t) \/ ClaimRefused(t) \/ Join(t)
    BY <2>4, <1>0 DEF LookupTarget, TakeNothing, TransferFails, ClaimRefused, Join, RestTypeOK
  <2>5. CASE Finish(t) \/ Mark(t) \/ Rollback(t)
    BY <2>0, <2>5, <1>0 DEF Finish, Mark, Rollback, RestTypeOK
  <2>6. CASE Take(t)
    BY <2>0, <2>6, <1>0 DEF Take, RestTypeOK
  <2>7. CASE Store(t)
    BY <2>0, <2>7, <1>0 DEF Store, Tear, RestTypeOK
  <2>8. CASE Unrecord(t)
    BY <2>0, <2>8, <1>0 DEF Unrecord, EraseRecord, RestTypeOK
  <2>9. CASE Enter(t)
    BY <2>0, <2>9, <1>0, KeyOfAssumption DEF Enter, CommitEntry, RestTypeOK
  <2>10. CASE Untarget(t) \/ Erase(t)
    BY <2>0, <2>10, <1>0 DEF Untarget, EraseTarget, Erase, RestTypeOK
  <2>11. CASE PutIndex(t)
    BY <2>0, <2>11, <1>0 DEF PutIndex, PutObjectIndex, RestTypeOK
  <2> QED
    BY <1>2, <2>1, <2>2, <2>3, <2>4, <2>5, <2>6, <2>7, <2>8, <2>9, <2>10, <2>11, Zenon
    DEF Serve
<1>3. ASSUME NEW a \in Actors, Abort(a) PROVE RestTypeOK'
  BY <1>3, <1>0
  DEF Abort, AbortData, AbortIndex, AbortTarget, AbortRecord, EraseTarget, At, JobsOK,
      JobOK, OnUpload, Labels, Aborting, RestTypeOK
<1>4. CASE Sweep
  BY <1>4, <1>0 DEF Sweep, SweepExpired, SweepOne, RestTypeOK
<1> QED
  BY <1>1, <1>2, <1>3, <1>4 DEF Next

-----------------------------------------------------------------------------
LEMMA InitMInv == Init => MInv
<1> SUFFICES ASSUME Init PROVE MInv
  OBVIOUS
<1>1. DSInv
  BY InitDSInv DEF Init, BackendInit
<1>2. jobs \in [Actors -> Job] /\ JobsOK
  BY NoJobOK DEF Init, JobsOK
<1>3. RestTypeOK
  BY DEF Init, BackendInit, RestTypeOK, State
<1> QED
  BY <1>1, <1>2, <1>3, TypeParts DEF MInv, DSInv

LEMMA NextMInv == MInv /\ [Next]_vars => MInv' /\ [DSNextOver(Amounts)]_dsVars
<1> SUFFICES ASSUME MInv, [Next]_vars PROVE MInv' /\ [DSNextOver(Amounts)]_dsVars
  OBVIOUS
<1>0. TypeOK /\ DSInv /\ JobsOK
  BY DEF MInv
<1>1. CASE Next
  <2>1. [DSNextOver(Amounts)]_dsVars
    BY <1>0, <1>1, StepUsesDataStore
  <2>2. DSInv'
    BY <1>0, <2>1, AmountsSuffice, NextDSInv
  <2>3. jobs' \in [Actors -> Job] /\ JobsOK'
    BY <1>0, <1>1, StepJobs
  <2>4. RestTypeOK'
    BY <1>0, <1>1, StepRest
  <2>5. DSTypeOK'
    BY <2>2 DEF DSInv
  <2>6. TypeOK'
    BY <2>3, <2>4, <2>5 DEF TypeOK, BackendTypeOK, RestTypeOK
  <2> QED
    BY <2>1, <2>2, <2>3, <2>6 DEF MInv
<1>2. CASE UNCHANGED vars
  <2>1. UNCHANGED dsVars
    BY <1>2 DEF vars, backendVars
  <2>2. DSInv'
    BY <1>0, <2>1, NextDSInv
  <2>3. TypeOK' /\ JobsOK'
    BY <1>0, <1>2
    DEF vars, backendVars, dsVars, indexVars, coordVars, history,
        TypeOK, BackendTypeOK, DSTypeOK, JobsOK
  <2> QED
    BY <2>1, <2>2, <2>3 DEF MInv
<1> QED
  BY <1>1, <1>2

(***************************************************************************)
(* The types, and the accounting of used_bytes_, of the whole gateway: no  *)
(* interleaving of requests and sweeps leaks or double-frees capacity.     *)
(***************************************************************************)
THEOREM GatewayAccounting == Spec => [](TypeOK /\ ExactAccounting)
<1>1. MInv => TypeOK /\ ExactAccounting
  BY DEF MInv, DSInv
<1>2. MInv /\ [Next]_vars => MInv'
  BY NextMInv
<1> QED
  BY <1>1, <1>2, InitMInv, PTL DEF Spec
=============================================================================
