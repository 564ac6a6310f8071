----------------------------- MODULE UploadCommit -----------------------------
(***************************************************************************)
(* What CompleteUpload promises about the right to commit an upload, with  *)
(* no store, no backend and no abort: an upload has at most one committer  *)
(* at a time; the committer either gives the upload back or commits it;    *)
(* and a committed upload never has a committer again.                     *)
(***************************************************************************)
CONSTANTS Uploads, Threads, Nobody

VARIABLES
    owner,      \* owner[u]: the thread that is committing u, or Nobody
    committed   \* uploads whose commit succeeded

vars == <<owner, committed>>

Init ==
    /\ owner = [u \in Uploads |-> Nobody]
    /\ committed = {}

Claim(u, t) ==
    /\ owner[u] = Nobody
    /\ u \notin committed
    /\ owner' = [owner EXCEPT ![u] = t]
    /\ UNCHANGED committed

GiveBack(u) ==
    /\ owner[u] # Nobody
    /\ owner' = [owner EXCEPT ![u] = Nobody]
    /\ UNCHANGED committed

Commit(u) ==
    /\ owner[u] # Nobody
    /\ owner' = [owner EXCEPT ![u] = Nobody]
    /\ committed' = committed \cup {u}

Next ==
    \E u \in Uploads :
        \/ \E t \in Threads : Claim(u, t)
        \/ GiveBack(u)
        \/ Commit(u)

Spec == Init /\ [][Next]_vars
=============================================================================
