--------------------------- MODULE CompositeBackend ---------------------------
(***************************************************************************)
(* The backend the gateway calls (gateway/src/backend/composite_backend):  *)
(* the byte store, the index store (memory_index_store) with the length of *)
(* each object and a record of each multipart upload, and mpu_targets_,    *)
(* the composite's own table from upload to object.  The three are guarded *)
(* by different mutexes, so an operation of the backend is a sequence of   *)
(* the steps below; the modules that use the backend order them.           *)
(*                                                                         *)
(* An upload id is created for one object and never reused: KeyOf[u] is    *)
(* the object given to StartMultipart.  Etags and versions are left out of *)
(* the index entries.                                                      *)
(***************************************************************************)
EXTENDS MemoryDataStore

CONSTANT KeyOf

ASSUME KeyOfAssumption == KeyOf \in [Uploads -> Keys]

VARIABLES
    index,      \* index[k]: content_length of the entry of k, or NoEntry
    records,    \* uploads with a record in the index store
    targets     \* uploads with an entry in mpu_targets_

indexVars == <<index, records, targets>>
backendVars == <<dsVars, indexVars>>

NoEntry == -1

BackendTypeOK ==
    /\ DSTypeOK
    /\ index \in [Keys -> Nat \cup {NoEntry}]
    /\ records \subseteq Uploads
    /\ targets \subseteq Uploads

BackendInit ==
    /\ DSInit
    /\ index = [k \in Keys |-> NoEntry]
    /\ records = {}
    /\ targets = {}

-----------------------------------------------------------------------------
(***************************************************************************)
(* StartMultipart.  The record and the target are written under different  *)
(* mutexes, but nobody knows the fresh id before the call returns.         *)
(***************************************************************************)
StartRecord(u) == records' = records \cup {u}

StartMultipart(u) ==
    /\ StartRecord(u)
    /\ targets' = targets \cup {u}
    /\ UNCHANGED <<index, dsVars>>

\* IndexStore::PutObjectIndex, the second half of WriteRange and Reserve.
PutObjectIndex(k, len) ==
    /\ index' = [index EXCEPT ![k] = len]
    /\ UNCHANGED <<records, targets, dsVars>>

\* IndexStore::CommitMultipart: the record is erased under mpu_mu_ ...
EraseRecord(u) ==
    /\ u \in records
    /\ records' = records \ {u}
    /\ UNCHANGED <<index, targets, dsVars>>

\* ... and the entry of the object written under its shard's mutex.
CommitEntry(u, len) ==
    /\ index' = [index EXCEPT ![KeyOf[u]] = len]
    /\ UNCHANGED <<records, targets, dsVars>>

\* The end of CompleteMultipart and of AbortMultipart.
EraseTarget(u) ==
    /\ targets' = targets \ {u}
    /\ UNCHANGED <<index, records, dsVars>>

\* IndexStore::AbortMultipart.
AbortRecord(u) ==
    /\ records' = records \ {u}
    /\ UNCHANGED <<index, targets, dsVars>>

\* A step of the byte store alone.
DataOnly == UNCHANGED indexVars
=============================================================================
