---------------------------- MODULE MemoryDataStore ----------------------------
(***************************************************************************)
(* The byte store of the gateway (gateway/src/backend/memory_data_store):  *)
(* object bodies, the staged parts of multipart uploads, and used_bytes_,  *)
(* the counter that keeps both below the configured capacity.              *)
(*                                                                         *)
(* Bytes are abstracted to lengths.  Every action is one critical section  *)
(* of the code: a shard mutex guards a body, mpu_mu_ guards the staging    *)
(* table, and used_bytes_ is an atomic that each section touches at most   *)
(* once.  AssembleObject is the one operation that runs in several         *)
(* sections; asm[t] is what thread t carries from one to the next.         *)
(***************************************************************************)
EXTENDS Integers, FiniteSets

CONSTANTS
    Keys,       \* object ids, "<bucket>/<key>"
    Uploads,    \* backend upload ids
    Parts,      \* part numbers
    Threads,    \* threads that call the store
    Capacity    \* capacity_bytes_

ASSUME FiniteAssumption ==
    /\ IsFiniteSet(Keys)
    /\ IsFiniteSet(Uploads)
    /\ IsFiniteSet(Parts)
    /\ IsFiniteSet(Threads)

ASSUME CapacityAssumption == Capacity \in Nat

VARIABLES
    bodies,     \* keys with an entry in their shard's table of bodies
    size,       \* size[k]: length of the body of k (0 when there is none)
    mpu,        \* mpu[u]: the staging entry of upload u
    asm,        \* asm[t]: the AssembleObject call of thread t
    used        \* used_bytes_

dsVars == <<bodies, size, mpu, asm, used>>

(***************************************************************************)
(* A staging entry: which parts it holds, their lengths, and the bytes     *)
(* charged for them.  NoMpu is an upload without an entry.                 *)
(***************************************************************************)
Mpu == [live : BOOLEAN, parts : SUBSET Parts, len : [Parts -> Nat], reserved : Nat]

NoMpu == [live |-> FALSE, parts |-> {}, len |-> [p \in Parts |-> 0], reserved |-> 0]

(***************************************************************************)
(* An AssembleObject call: "idle", "taken" (the staging entry is moved out *)
(* of the table) or "joined" (its charge is released, total bytes wait to  *)
(* be stored).                                                             *)
(***************************************************************************)
Asm == [step : {"idle", "taken", "joined"}, mp : Mpu, total : Nat]

NoAsm == [step |-> "idle", mp |-> NoMpu, total |-> 0]

(***************************************************************************)
(* The sum of a function with natural values, as the number of its cells:  *)
(* one cell <<x, i>> for each unit of f[x].                                *)
(***************************************************************************)
Cells(f) == UNION {{x} \X (1 .. f[x]) : x \in DOMAIN f}

Total(f) == Cardinality(Cells(f))

DSTypeOK ==
    /\ bodies \subseteq Keys
    /\ size \in [Keys -> Nat]
    /\ mpu \in [Uploads -> Mpu]
    /\ asm \in [Threads -> Asm]
    /\ used \in Nat

DSInit ==
    /\ bodies = {}
    /\ size = [k \in Keys |-> 0]
    /\ mpu = [u \in Uploads |-> NoMpu]
    /\ asm = [t \in Threads |-> NoAsm]
    /\ used = 0

-----------------------------------------------------------------------------
\* Faulty: the limit is tested on what is used, not on what will be.
ReserveBytesLate(growth) ==
    /\ growth = 0 \/ used < Capacity
    /\ used' = used + growth

\* ReserveBytes: the compare-and-swap loop either charges growth or refuses.
ReserveBytes(growth) ==
    /\ growth = 0 \/ used + growth <= Capacity
    /\ used' = used + growth

CapacityExceeded(growth) ==
    /\ growth > 0
    /\ used + growth > Capacity
    /\ used' = used

ReleaseBytes(bytes) == used' = used - bytes

(***************************************************************************)
(* Sizing a body to target bytes, the common core of Reserve, WriteRange   *)
(* and the last section of AssembleObject: growth is charged first, a      *)
(* shrink is given back.                                                   *)
(***************************************************************************)
Resize(k, target) ==
    /\ \/ target >= size[k] /\ ReserveBytes(target - size[k])
       \/ target < size[k] /\ ReleaseBytes(size[k] - target)
    /\ size' = [size EXCEPT ![k] = target]
    /\ bodies' = bodies \cup {k}

\* The refused case: an entry that holds no bytes is erased again.
ResizeRefused(k, target) ==
    /\ CapacityExceeded(target - size[k])
    /\ bodies' = IF size[k] = 0 THEN bodies \ {k} ELSE bodies \cup {k}
    /\ size' = size

\* max(total_size.value_or(end), end); NoTotal is the empty optional.
NoTotal == -1

WriteTarget(end, total) == IF total = NoTotal \/ total < end THEN end ELSE total

Reserve(k, total) == Resize(k, total) /\ UNCHANGED <<mpu, asm>>

ReserveRefused(k, total) == ResizeRefused(k, total) /\ UNCHANGED <<mpu, asm>>

WriteRange(k, offset, len, total) ==
    Resize(k, WriteTarget(offset + len, total)) /\ UNCHANGED <<mpu, asm>>

WriteRangeRefused(k, offset, len, total) ==
    ResizeRefused(k, WriteTarget(offset + len, total)) /\ UNCHANGED <<mpu, asm>>

DeleteObject(k) ==
    /\ k \in bodies
    /\ ReleaseBytes(size[k])
    /\ size' = [size EXCEPT ![k] = 0]
    /\ bodies' = bodies \ {k}
    /\ UNCHANGED <<mpu, asm>>

-----------------------------------------------------------------------------
\* Faulty: the part grows and reserved_bytes does not follow.
GrownUncounted(mp, p, growth) ==
    [live |-> TRUE,
     parts |-> mp.parts \cup {p},
     len |-> [mp.len EXCEPT ![p] = @ + growth],
     reserved |-> mp.reserved]

\* mpu_[u].parts[p]: both levels are created by the first access.
Grown(mp, p, growth) ==
    [live |-> TRUE,
     parts |-> mp.parts \cup {p},
     len |-> [mp.len EXCEPT ![p] = @ + growth],
     reserved |-> mp.reserved + growth]

Growth(u, p, end) == IF end > mpu[u].len[p] THEN end - mpu[u].len[p] ELSE 0

WritePart(u, p, offset, len) ==
    LET growth == Growth(u, p, offset + len)
    IN  /\ ReserveBytes(growth)
        /\ mpu' = [mpu EXCEPT ![u] = Grown(mpu[u], p, growth)]
        /\ UNCHANGED <<bodies, size, asm>>

\* A refused write leaves the entry and the (possibly empty) part behind.
WritePartRefused(u, p, offset, len) ==
    /\ CapacityExceeded(Growth(u, p, offset + len))
    /\ mpu' = [mpu EXCEPT ![u] = Grown(mpu[u], p, 0)]
    /\ UNCHANGED <<bodies, size, asm>>

\* Faulty: the charge is released and the entry stays in the table.
AbortKeepsEntry(u) ==
    /\ ReleaseBytes(mpu[u].reserved)
    /\ UNCHANGED <<bodies, size, mpu, asm>>

AbortMultipartData(u) ==
    /\ ReleaseBytes(mpu[u].reserved)
    /\ mpu' = [mpu EXCEPT ![u] = NoMpu]
    /\ UNCHANGED <<bodies, size, asm>>

-----------------------------------------------------------------------------
\* AssembleObject, first section: the staging entry leaves the table.
AssembleTake(t, u) ==
    /\ asm[t].step = "idle"
    /\ mpu[u].live
    /\ asm' = [asm EXCEPT ![t] = [step |-> "taken", mp |-> mpu[u], total |-> 0]]
    /\ mpu' = [mpu EXCEPT ![u] = NoMpu]
    /\ UNCHANGED <<bodies, size, used>>

\* Faulty: the early return for a missing part forgets the charge.
AssembleMissingKeeps(t, listed) ==
    /\ asm[t].step = "taken"
    /\ ~(listed \subseteq asm[t].mp.parts)
    /\ asm' = [asm EXCEPT ![t] = NoAsm]
    /\ UNCHANGED <<bodies, size, mpu, used>>

\* ... a listed part is missing: the charge is released and the bytes dropped.
AssembleMissing(t, listed) ==
    /\ asm[t].step = "taken"
    /\ ~(listed \subseteq asm[t].mp.parts)
    /\ ReleaseBytes(asm[t].mp.reserved)
    /\ asm' = [asm EXCEPT ![t] = NoAsm]
    /\ UNCHANGED <<bodies, size, mpu>>

\* ... the listed parts are joined and the charge of the staging is released.
AssembleJoin(t, listed) ==
    /\ asm[t].step = "taken"
    /\ listed \subseteq asm[t].mp.parts
    /\ ReleaseBytes(asm[t].mp.reserved)
    /\ asm' = [asm EXCEPT ![t] =
                 [step |-> "joined", mp |-> NoMpu,
                  total |-> Total([p \in listed |-> asm[t].mp.len[p]])]]
    /\ UNCHANGED <<bodies, size, mpu>>

\* ... the joined bytes replace the body of the destination.
AssembleStore(t, k) ==
    /\ asm[t].step = "joined"
    /\ Resize(k, asm[t].total)
    /\ asm' = [asm EXCEPT ![t] = NoAsm]
    /\ UNCHANGED mpu

\* ... or no longer fit, and are lost with the call.
AssembleRefused(t, k) ==
    /\ asm[t].step = "joined"
    /\ ResizeRefused(k, asm[t].total)
    /\ asm' = [asm EXCEPT ![t] = NoAsm]
    /\ UNCHANGED mpu

-----------------------------------------------------------------------------
ObjectStep(k, offset, len, total) ==
    \/ Reserve(k, len)
    \/ ReserveRefused(k, len)
    \/ WriteRange(k, offset, len, total)
    \/ WriteRangeRefused(k, offset, len, total)

PartStep(u, p, offset, len) ==
    \/ WritePart(u, p, offset, len)
    \/ WritePartRefused(u, p, offset, len)

AssembleStep(t, u, k, listed) ==
    \/ AssembleTake(t, u)
    \/ AssembleMissing(t, listed)
    \/ AssembleJoin(t, listed)
    \/ AssembleStore(t, k)
    \/ AssembleRefused(t, k)

\* Any caller, with lengths and offsets from Lengths.
DSNextOver(Lengths) ==
    \/ \E k \in Keys, offset, len \in Lengths, total \in Lengths \cup {NoTotal} :
          ObjectStep(k, offset, len, total)
    \/ \E u \in Uploads, p \in Parts, offset, len \in Lengths :
          PartStep(u, p, offset, len)
    \/ \E k \in Keys : DeleteObject(k)
    \/ \E u \in Uploads : AbortMultipartData(u)
    \/ \E t \in Threads, u \in Uploads, k \in Keys, listed \in SUBSET Parts :
          AssembleStep(t, u, k, listed)

DSNext == DSNextOver(Nat)

DSSpec == DSInit /\ [][DSNext]_dsVars

-----------------------------------------------------------------------------
\* What is charged: the bodies, the staged parts and the parts being joined.
Charged ==
      Total(size)
    + Total([u \in Uploads |-> mpu[u].reserved])
    + Total([t \in Threads |-> asm[t].mp.reserved])

(***************************************************************************)
(* used_bytes_ is exact: whatever the order in which writes, aborts and    *)
(* the sections of AssembleObject interleave, no byte is charged twice,    *)
(* forgotten or released twice.                                            *)
(***************************************************************************)
ExactAccounting == used = Charged

\* The bytes an entry holds are the bytes reserved_bytes says it does.
StagedExactly(mp) == mp.reserved = Total(mp.len)

(***************************************************************************)
(* reserved_bytes of an upload, on which both AbortMultipartData and       *)
(* AssembleObject rely to give the capacity back, is the length of its     *)
(* parts, also while the entry is moved out of the table.                  *)
(***************************************************************************)
ReservedIsStaged ==
    /\ \A u \in Uploads : StagedExactly(mpu[u])
    /\ \A t \in Threads : StagedExactly(asm[t].mp)

(***************************************************************************)
(* The bodies and the staged parts never hold more than capacity_bytes_.   *)
(***************************************************************************)
WithinCapacity ==
    Total(size) + Total([u \in Uploads |-> Total(mpu[u].len)]) <= Capacity
=============================================================================
