------------------------ MODULE MemoryDataStoreProofs ------------------------
(***************************************************************************)
(* Proofs about MemoryDataStore, for every set of keys, uploads, parts and *)
(* threads and every capacity.                                             *)
(***************************************************************************)
EXTENDS MemoryDataStore, FiniteSetTheorems, TLAPS

-----------------------------------------------------------------------------
(* Total, the sum of a function with natural values.                       *)

\* The cells of one argument: as many as the function's value there.
LEMMA Column ==
    ASSUME NEW x, NEW n \in Nat
    PROVE  /\ IsFiniteSet({x} \X (1 .. n))
           /\ Cardinality({x} \X (1 .. n)) = n
<1>1. IsFiniteSet({x}) /\ Cardinality({x}) = 1
  BY FS_Singleton
<1>2. IsFiniteSet(1 .. n) /\ Cardinality(1 .. n) = n
  <2>1. 1 \in Int /\ n \in Int
    OBVIOUS
  <2> QED
    BY <2>1, FS_Interval
<1>3. \A S, T : IsFiniteSet(S) /\ IsFiniteSet(T) =>
        /\ IsFiniteSet(S \X T)
        /\ Cardinality(S \X T) = Cardinality(S) * Cardinality(T)
  BY FS_Product
<1>4. /\ IsFiniteSet({x} \X (1 .. n))
      /\ Cardinality({x} \X (1 .. n)) = Cardinality({x}) * Cardinality(1 .. n)
  BY <1>1, <1>2, <1>3, Zenon
<1> QED
  BY <1>1, <1>2, <1>4

\* Disjoint finite sets add up.
LEMMA DisjointUnion ==
    ASSUME NEW A, NEW B, IsFiniteSet(A), IsFiniteSet(B), A \cap B = {}
    PROVE  Cardinality(A \cup B) = Cardinality(A) + Cardinality(B)
<1>1. Cardinality(A) \in Nat /\ Cardinality(B) \in Nat
  BY FS_CardinalityType
<1>2. Cardinality(A \cap B) = 0
  BY FS_EmptySet, Zenon
<1>3. Cardinality(A \cup B) = Cardinality(A) + Cardinality(B) - Cardinality(A \cap B)
  BY FS_Union
<1> QED
  BY <1>1, <1>2, <1>3

\* The sum over a finite set is a natural number.
LEMMA TotalType ==
    ASSUME NEW S, IsFiniteSet(S), NEW f \in [S -> Nat]
    PROVE  IsFiniteSet(Cells(f)) /\ Total(f) \in Nat
<1> DEFINE T == {{x} \X (1 .. f[x]) : x \in S}
           g == [x \in S |-> {x} \X (1 .. f[x])]
<1>1. g \in Surjection(S, T)
  BY DEF Surjection
<1>2. IsFiniteSet(T)
  BY <1>1, FS_Surjection
<1>3. \A c \in T : IsFiniteSet(c)
  <2> SUFFICES ASSUME NEW x \in S
               PROVE  IsFiniteSet({x} \X (1 .. f[x]))
    OBVIOUS
  <2>1. f[x] \in Nat
    OBVIOUS
  <2> QED
    BY <2>1, Column, Zenon
<1>4. IsFiniteSet(UNION T)
  BY <1>2, <1>3, FS_UNION
<1>5. Cells(f) = UNION T
  BY DEF Cells
<1> QED
  BY <1>4, <1>5, FS_CardinalityType DEF Total

\* Changing one value changes the sum by the difference.
LEMMA TotalUpdate ==
    ASSUME NEW S, IsFiniteSet(S), NEW f \in [S -> Nat],
           NEW k \in S, NEW n \in Nat
    PROVE  Total([f EXCEPT ![k] = n]) = Total(f) - f[k] + n
<1> DEFINE h == [f EXCEPT ![k] = n]
           rest == UNION {{x} \X (1 .. f[x]) : x \in S \ {k}}
<1>1. h \in [S -> Nat] /\ h[k] = n /\ \A x \in S \ {k} : h[x] = f[x]
  OBVIOUS
<1>2. Cells(f) = rest \cup ({k} \X (1 .. f[k]))
  BY DEF Cells
<1>3. Cells(h) = rest \cup ({k} \X (1 .. n))
  <2>1. Cells(h) = UNION {{x} \X (1 .. h[x]) : x \in S}
    BY <1>1 DEF Cells
  <2> HIDE DEF h
  <2> QED
    BY <2>1, <1>1
<1>4. IsFiniteSet(rest)
  <2>1. rest \in SUBSET Cells(f)
    BY <1>2
  <2> QED
    BY <2>1, TotalType, FS_Subset
<1>5. /\ rest \cap ({k} \X (1 .. f[k])) = {}
      /\ rest \cap ({k} \X (1 .. n)) = {}
  OBVIOUS
<1>6. Cardinality(rest) \in Nat
  BY <1>4, FS_CardinalityType
<1>7. \A m \in Nat : rest \cap ({k} \X (1 .. m)) = {} =>
        Cardinality(rest \cup ({k} \X (1 .. m))) = Cardinality(rest) + m
  <2> SUFFICES ASSUME NEW m \in Nat, rest \cap ({k} \X (1 .. m)) = {}
               PROVE  Cardinality(rest \cup ({k} \X (1 .. m))) = Cardinality(rest) + m
    OBVIOUS
  <2> DEFINE col == {k} \X (1 .. m)
  <2>1. IsFiniteSet(col) /\ Cardinality(col) = m
    BY Column
  <2>2. rest \cap col = {}
    OBVIOUS
  <2> HIDE DEF rest, col
  <2>3. Cardinality(rest \cup col) = Cardinality(rest) + Cardinality(col)
    BY <1>4, <2>1, <2>2, DisjointUnion
  <2> QED
    BY <2>1, <2>3 DEF col
<1> HIDE DEF rest
<1>8. Total(f) = Cardinality(rest) + f[k]
  BY <1>2, <1>5, <1>7 DEF Total
<1>9. Total(h) = Cardinality(rest) + n
  BY <1>3, <1>5, <1>7 DEF Total
<1> QED
  BY <1>6, <1>8, <1>9

\* The sum of zeros is zero.
LEMMA TotalZero ==
    ASSUME NEW S
    PROVE  Total([x \in S |-> 0]) = 0
<1>1. Cells([x \in S |-> 0]) = {}
  BY DEF Cells
<1> QED
  BY <1>1, FS_EmptySet DEF Total
-----------------------------------------------------------------------------
(* The inductive invariant.                                                *)

\* A thread holds staged bytes only between taking an entry and joining it.
HoldsOnlyTaken == \A t \in Threads : asm[t].step # "taken" => asm[t].mp = NoMpu

DSInv ==
    /\ DSTypeOK
    /\ used <= Capacity
    /\ ExactAccounting
    /\ ReservedIsStaged
    /\ HoldsOnlyTaken

\* reserved_bytes by upload, and by the thread that has taken an entry.
Staged == [u \in Uploads |-> mpu[u].reserved]
Held == [t \in Threads |-> asm[t].mp.reserved]

LEMMA NoMpuStaged == NoMpu \in Mpu /\ StagedExactly(NoMpu)
<1>1. NoMpu \in Mpu
  BY DEF NoMpu, Mpu
<1>2. Total(NoMpu.len) = 0
  BY TotalZero DEF NoMpu
<1>3. NoMpu.reserved = 0
  BY DEF NoMpu
<1> QED
  BY <1>1, <1>2, <1>3 DEF StagedExactly

\* Replacing the entry of one upload.
LEMMA MpuUpdate ==
    ASSUME DSTypeOK, NEW u \in Uploads, NEW m \in Mpu,
           mpu' = [mpu EXCEPT ![u] = m]
    PROVE  /\ mpu' \in [Uploads -> Mpu]
           /\ Total(Staged') = Total(Staged) - mpu[u].reserved + m.reserved
<1>1. Staged \in [Uploads -> Nat] /\ Staged[u] = mpu[u].reserved /\ m.reserved \in Nat
  BY DEF Staged, DSTypeOK, Mpu
<1>2. Staged' = [Staged EXCEPT ![u] = m.reserved]
  BY DEF Staged, DSTypeOK, Mpu
<1>3. Total([Staged EXCEPT ![u] = m.reserved]) = Total(Staged) - Staged[u] + m.reserved
  BY <1>1, FiniteAssumption, TotalUpdate
<1> QED
  BY <1>1, <1>2, <1>3 DEF DSTypeOK

\* Replacing the AssembleObject call of one thread.
LEMMA AsmUpdate ==
    ASSUME DSTypeOK, NEW t \in Threads, NEW a \in Asm,
           asm' = [asm EXCEPT ![t] = a]
    PROVE  /\ asm' \in [Threads -> Asm]
           /\ Total(Held') = Total(Held) - asm[t].mp.reserved + a.mp.reserved
<1>1. Held \in [Threads -> Nat] /\ Held[t] = asm[t].mp.reserved /\ a.mp.reserved \in Nat
  BY DEF Held, DSTypeOK, Asm, Mpu
<1>2. Held' = [Held EXCEPT ![t] = a.mp.reserved]
  BY DEF Held, DSTypeOK, Asm, Mpu
<1>3. Total([Held EXCEPT ![t] = a.mp.reserved]) = Total(Held) - Held[t] + a.mp.reserved
  BY <1>1, FiniteAssumption, TotalUpdate
<1> QED
  BY <1>1, <1>2, <1>3 DEF DSTypeOK

LEMMA TotalsType ==
    ASSUME DSTypeOK
    PROVE  Total(size) \in Nat /\ Total(Staged) \in Nat /\ Total(Held) \in Nat
<1>1. /\ size \in [Keys -> Nat]
      /\ Staged \in [Uploads -> Nat]
      /\ Held \in [Threads -> Nat]
  BY DEF DSTypeOK, Staged, Held, Asm, Mpu
<1> QED
  BY <1>1, FiniteAssumption, TotalType

LEMMA ChargedIs == Charged = Total(size) + Total(Staged) + Total(Held)
  BY DEF Charged, Staged, Held

-----------------------------------------------------------------------------
LEMMA InitDSInv == DSInit => DSInv
<1> SUFFICES ASSUME DSInit PROVE DSInv
  OBVIOUS
<1> USE DEF DSInit
<1>1. NoAsm \in Asm /\ NoAsm.mp = NoMpu
  BY NoMpuStaged DEF NoAsm, Asm
<1>2. DSTypeOK
  BY <1>1, NoMpuStaged DEF DSTypeOK
<1>3. used <= Capacity
  BY CapacityAssumption
<1>4. ReservedIsStaged
  BY <1>1, NoMpuStaged DEF ReservedIsStaged
<1>5. ExactAccounting
  <2>1. Staged = [u \in Uploads |-> 0] /\ Held = [t \in Threads |-> 0]
    BY DEF Staged, Held, NoAsm, NoMpu
  <2>2. Total(size) = 0 /\ Total(Staged) = 0 /\ Total(Held) = 0
    BY <2>1, TotalZero
  <2> QED
    BY <2>2, ChargedIs DEF ExactAccounting
<1>6. HoldsOnlyTaken
  BY DEF HoldsOnlyTaken, NoAsm
<1> QED
  BY <1>2, <1>3, <1>4, <1>5, <1>6 DEF DSInv
-----------------------------------------------------------------------------
(* Every step preserves it.                                                *)

\* What a step has to show once its effect on the three sums is known.
LEMMA Settle ==
    ASSUME bodies' \subseteq Keys, size' \in [Keys -> Nat],
           mpu' \in [Uploads -> Mpu], asm' \in [Threads -> Asm],
           used' = Total(size') + Total(Staged') + Total(Held'),
           used' <= Capacity, ReservedIsStaged', HoldsOnlyTaken'
    PROVE  DSInv'
<1>1. Staged' \in [Uploads -> Nat] /\ Held' \in [Threads -> Nat]
  BY DEF Staged, Held, Asm, Mpu
<1>2. Total(size') \in Nat /\ Total(Staged') \in Nat /\ Total(Held') \in Nat
  BY <1>1, FiniteAssumption, TotalType
<1>3. used' \in Nat
  BY <1>2
<1>4. ExactAccounting'
  BY DEF ExactAccounting, Charged, Staged, Held
<1> QED
  BY <1>3, <1>4 DEF DSInv, DSTypeOK

LEMMA ResizeStep ==
    ASSUME DSInv, NEW k \in Keys, NEW target \in Nat, Resize(k, target)
    PROVE  /\ bodies' \subseteq Keys
           /\ size' \in [Keys -> Nat]
           /\ used' = used - size[k] + target
           /\ Total(size') = Total(size) - size[k] + target
           /\ used' <= Capacity
<1>1. size \in [Keys -> Nat] /\ used \in Nat /\ size[k] \in Nat /\ used <= Capacity
  BY DEF DSInv, DSTypeOK
<1>2. bodies' \subseteq Keys /\ size' \in [Keys -> Nat]
  BY <1>1 DEF Resize, DSInv, DSTypeOK
<1>3. used' = used - size[k] + target /\ used' <= Capacity
  BY <1>1, CapacityAssumption DEF Resize, ReserveBytes, ReleaseBytes
<1>4. Total(size') = Total(size) - size[k] + target
  BY <1>1, FiniteAssumption, TotalUpdate DEF Resize
<1> QED
  BY <1>2, <1>3, <1>4

LEMMA ResizeRefusedStep ==
    ASSUME DSInv, NEW k \in Keys, NEW target, ResizeRefused(k, target)
    PROVE  bodies' \subseteq Keys /\ size' = size /\ used' = used
BY DEF ResizeRefused, CapacityExceeded, DSInv, DSTypeOK

\* Operations on bodies alone.
LEMMA BodyStep ==
    ASSUME DSInv, NEW k \in Keys, NEW target \in Nat,
           Resize(k, target) \/ ResizeRefused(k, target), UNCHANGED <<mpu, asm>>
    PROVE  DSInv'
<1>1. Staged' = Staged /\ Held' = Held /\ ReservedIsStaged' /\ HoldsOnlyTaken'
  BY DEF Staged, Held, DSInv, ReservedIsStaged, HoldsOnlyTaken
<1>2. /\ Total(size) \in Nat /\ Total(Staged) \in Nat /\ Total(Held) \in Nat
      /\ used = Total(size) + Total(Staged) + Total(Held)
  BY TotalsType, ChargedIs DEF DSInv, ExactAccounting
<1>3. mpu' \in [Uploads -> Mpu] /\ asm' \in [Threads -> Asm]
  BY DEF DSInv, DSTypeOK
<1>4. CASE Resize(k, target)
  <2>1. size[k] \in Nat
    BY DEF DSInv, DSTypeOK
  <2>2. used' = Total(size') + Total(Staged') + Total(Held')
    BY <1>1, <1>2, <1>4, <2>1, ResizeStep
  <2> QED
    BY <1>1, <1>3, <1>4, <2>2, ResizeStep, Settle
<1>5. CASE ResizeRefused(k, target)
  <2>1. used' = Total(size') + Total(Staged') + Total(Held')
    BY <1>1, <1>2, <1>5, ResizeRefusedStep
  <2>2. size' \in [Keys -> Nat] /\ used' <= Capacity
    BY <1>5, ResizeRefusedStep DEF DSInv, DSTypeOK
  <2> QED
    BY <1>1, <1>3, <1>5, <2>1, <2>2, ResizeRefusedStep, Settle
<1> QED
  BY <1>4, <1>5

LEMMA DeleteStep ==
    ASSUME DSInv, NEW k \in Keys, DeleteObject(k)
    PROVE  DSInv'
<1>1. Staged' = Staged /\ Held' = Held /\ ReservedIsStaged' /\ HoldsOnlyTaken'
  BY DEF DeleteObject, Staged, Held, DSInv, ReservedIsStaged, HoldsOnlyTaken
<1>2. /\ Total(size) \in Nat /\ Total(Staged) \in Nat /\ Total(Held) \in Nat
      /\ used = Total(size) + Total(Staged) + Total(Held)
  BY TotalsType, ChargedIs DEF DSInv, ExactAccounting
<1>3. size[k] \in Nat /\ used <= Capacity /\ size \in [Keys -> Nat]
  BY DEF DSInv, DSTypeOK
<1>4. Total(size') = Total(size) - size[k] + 0
  <2>1. \A n \in Nat : Total([size EXCEPT ![k] = n]) = Total(size) - size[k] + n
    BY <1>3, FiniteAssumption, TotalUpdate
  <2>2. size' = [size EXCEPT ![k] = 0]
    BY DEF DeleteObject
  <2> QED
    BY <2>1, <2>2
<1>5. used' = used - size[k]
  BY DEF DeleteObject, ReleaseBytes
<1>6. /\ used' = Total(size') + Total(Staged') + Total(Held')
      /\ used' <= Capacity
  BY <1>1, <1>2, <1>3, <1>4, <1>5, CapacityAssumption
<1>7. /\ bodies' \subseteq Keys /\ size' \in [Keys -> Nat]
      /\ mpu' \in [Uploads -> Mpu] /\ asm' \in [Threads -> Asm]
  BY DEF DeleteObject, DSInv, DSTypeOK
<1> QED
  BY <1>1, <1>6, <1>7, Settle
\* Replacing a staging entry, with its growth or release charged.
LEMMA StagingStep ==
    ASSUME DSInv, NEW u \in Uploads, NEW m \in Mpu, StagedExactly(m),
           mpu' = [mpu EXCEPT ![u] = m], UNCHANGED <<bodies, size, asm>>,
           used' = used - mpu[u].reserved + m.reserved, used' <= Capacity
    PROVE  DSInv'
<1>1. Held' = Held /\ size' = size
  BY DEF Held
<1>2. /\ Total(size) \in Nat /\ Total(Staged) \in Nat /\ Total(Held) \in Nat
      /\ used = Total(size) + Total(Staged) + Total(Held)
  BY TotalsType, ChargedIs DEF DSInv, ExactAccounting
<1>3. mpu[u].reserved \in Nat /\ m.reserved \in Nat
  BY DEF DSInv, DSTypeOK, Mpu
<1>4. /\ mpu' \in [Uploads -> Mpu]
      /\ Total(Staged') = Total(Staged) - mpu[u].reserved + m.reserved
  BY MpuUpdate DEF DSInv
<1>5. used' = Total(size') + Total(Staged') + Total(Held')
  BY <1>1, <1>2, <1>3, <1>4
<1>6. ReservedIsStaged' /\ HoldsOnlyTaken'
  <2>1. \A v \in Uploads : mpu'[v] = IF v = u THEN m ELSE mpu[v]
    BY DEF DSInv, DSTypeOK
  <2> QED
    BY <2>1 DEF DSInv, ReservedIsStaged, HoldsOnlyTaken
<1>7. bodies' \subseteq Keys /\ size' \in [Keys -> Nat] /\ asm' \in [Threads -> Asm]
  BY DEF DSInv, DSTypeOK
<1> QED
  BY <1>4, <1>5, <1>6, <1>7, Settle

LEMMA WritePartStep ==
    ASSUME DSInv, NEW u \in Uploads, NEW p \in Parts,
           NEW offset \in Nat, NEW len \in Nat, WritePart(u, p, offset, len)
    PROVE  DSInv'
<1> DEFINE g == Growth(u, p, offset + len)
           mp == mpu[u]
           m == Grown(mp, p, g)
<1>1. mp \in Mpu /\ used \in Nat /\ used <= Capacity /\ mp.len[p] \in Nat
  BY DEF DSInv, DSTypeOK, Mpu
<1>2. g \in Nat
  BY <1>1 DEF Growth
<1>3. mpu' = [mpu EXCEPT ![u] = m] /\ UNCHANGED <<bodies, size, asm>>
  BY DEF WritePart
<1>4. used' = used + g /\ used' <= Capacity
  BY <1>1, <1>2 DEF WritePart, ReserveBytes
<1> HIDE DEF g, mp
<1>5. /\ m \in Mpu
      /\ m.reserved = mp.reserved + g
      /\ m.len = [mp.len EXCEPT ![p] = mp.len[p] + g]
  BY <1>1, <1>2 DEF Mpu, Grown
<1>6. StagedExactly(m)
  <2>1. mp.len \in [Parts -> Nat] /\ mp.len[p] + g \in Nat
    BY <1>1, <1>2 DEF Mpu
  <2>2. Total(m.len) = Total(mp.len) - mp.len[p] + (mp.len[p] + g)
    BY <1>5, <2>1, FiniteAssumption, TotalUpdate
  <2>3. mp.reserved = Total(mp.len)
    BY DEF mp, DSInv, ReservedIsStaged, StagedExactly
  <2>4. Total(mp.len) \in Nat
    BY <2>1, FiniteAssumption, TotalType
  <2> QED
    BY <1>1, <1>2, <1>5, <2>2, <2>3, <2>4 DEF StagedExactly
<1>7. used' = used - mp.reserved + m.reserved
  BY <1>1, <1>2, <1>4, <1>5 DEF Mpu
<1> HIDE DEF m
<1> QED
  BY <1>3, <1>4, <1>5, <1>6, <1>7, StagingStep DEF mp

LEMMA WritePartRefusedStep ==
    ASSUME DSInv, NEW u \in Uploads, NEW p \in Parts, NEW offset, NEW len,
           WritePartRefused(u, p, offset, len)
    PROVE  DSInv'
<1> DEFINE m == Grown(mpu[u], p, 0)
<1>1. mpu[u] \in Mpu /\ used \in Nat /\ used <= Capacity
  BY DEF DSInv, DSTypeOK
<1>2. m \in Mpu /\ m.reserved = mpu[u].reserved /\ m.len = mpu[u].len
  BY <1>1 DEF Mpu, Grown
<1>3. StagedExactly(m)
  BY <1>2 DEF StagedExactly, DSInv, ReservedIsStaged
<1>4. /\ mpu' = [mpu EXCEPT ![u] = m] /\ UNCHANGED <<bodies, size, asm>>
      /\ used' = used
  BY DEF WritePartRefused, CapacityExceeded
<1>5. mpu[u].reserved \in Nat
  BY <1>1 DEF Mpu
<1>6. used' = used - mpu[u].reserved + m.reserved /\ used' <= Capacity
  BY <1>1, <1>2, <1>4, <1>5
<1> HIDE DEF m
<1> QED
  BY <1>2, <1>3, <1>4, <1>6, StagingStep

LEMMA AbortDataStep ==
    ASSUME DSInv, NEW u \in Uploads, AbortMultipartData(u)
    PROVE  DSInv'
<1>1. mpu[u].reserved \in Nat /\ used \in Nat /\ used <= Capacity
  BY DEF DSInv, DSTypeOK, Mpu
<1>2. NoMpu.reserved = 0
  BY DEF NoMpu
<1>3. used' = used - mpu[u].reserved + NoMpu.reserved /\ used' <= Capacity
  BY <1>1, <1>2, CapacityAssumption DEF AbortMultipartData, ReleaseBytes
<1>4. mpu' = [mpu EXCEPT ![u] = NoMpu] /\ UNCHANGED <<bodies, size, asm>>
  BY DEF AbortMultipartData
<1> QED
  BY <1>3, <1>4, NoMpuStaged, StagingStep
-----------------------------------------------------------------------------
\* The call of thread t moves on to a; nothing is staged or unstaged.
LEMMA CallStep ==
    ASSUME DSInv, NEW t \in Threads, NEW a \in Asm,
           StagedExactly(a.mp), a.step # "taken", a.mp = NoMpu,
           asm' = [asm EXCEPT ![t] = a], mpu' = mpu,
           bodies' \subseteq Keys, size' \in [Keys -> Nat],
           used' = used - asm[t].mp.reserved + Total(size') - Total(size),
           used' <= Capacity
    PROVE  DSInv'
<1>1. Staged' = Staged /\ mpu' \in [Uploads -> Mpu]
  BY DEF Staged, DSInv, DSTypeOK
<1>2. /\ Total(size) \in Nat /\ Total(Staged) \in Nat /\ Total(Held) \in Nat
      /\ used = Total(size) + Total(Staged) + Total(Held)
  BY TotalsType, ChargedIs DEF DSInv, ExactAccounting
<1>3. asm[t].mp.reserved \in Nat /\ a.mp.reserved = 0
  BY DEF DSInv, DSTypeOK, Asm, Mpu, NoMpu
<1>4. /\ asm' \in [Threads -> Asm]
      /\ Total(Held') = Total(Held) - asm[t].mp.reserved + a.mp.reserved
  BY AsmUpdate DEF DSInv
<1>5. Total(size') \in Nat
  BY FiniteAssumption, TotalType
<1>6. used' = Total(size') + Total(Staged') + Total(Held')
  BY <1>1, <1>2, <1>3, <1>4, <1>5
<1>7. ReservedIsStaged' /\ HoldsOnlyTaken'
  <2>1. \A s \in Threads : asm'[s] = IF s = t THEN a ELSE asm[s]
    BY DEF DSInv, DSTypeOK
  <2> QED
    BY <2>1 DEF DSInv, ReservedIsStaged, HoldsOnlyTaken
<1> QED
  BY <1>1, <1>4, <1>6, <1>7, Settle

LEMMA TakeStep ==
    ASSUME DSInv, NEW t \in Threads, NEW u \in Uploads, AssembleTake(t, u)
    PROVE  DSInv'
<1> DEFINE a == [step |-> "taken", mp |-> mpu[u], total |-> 0]
<1>1. /\ asm' = [asm EXCEPT ![t] = a] /\ mpu' = [mpu EXCEPT ![u] = NoMpu]
      /\ UNCHANGED <<bodies, size, used>>
  BY DEF AssembleTake
<1>2. a \in Asm /\ mpu[u] \in Mpu /\ a.mp = mpu[u] /\ a.step = "taken"
  BY DEF DSInv, DSTypeOK, Asm
<1>3. asm[t].mp.reserved = 0 /\ NoMpu.reserved = 0
  BY DEF AssembleTake, DSInv, HoldsOnlyTaken, NoMpu
<1>4. mpu[u].reserved \in Nat
  BY <1>2 DEF Mpu
<1> HIDE DEF a
<1>5. /\ mpu' \in [Uploads -> Mpu]
      /\ Total(Staged') = Total(Staged) - mpu[u].reserved
  <2>1. Total(Staged) \in Nat
    BY TotalsType DEF DSInv
  <2>2. /\ mpu' \in [Uploads -> Mpu]
        /\ Total(Staged') = Total(Staged) - mpu[u].reserved + NoMpu.reserved
    BY <1>1, NoMpuStaged, MpuUpdate DEF DSInv
  <2> QED
    BY <1>3, <1>4, <2>1, <2>2
<1>6. /\ asm' \in [Threads -> Asm]
      /\ Total(Held') = Total(Held) + mpu[u].reserved
  <2>1. Total(Held) \in Nat
    BY TotalsType DEF DSInv
  <2>2. /\ asm' \in [Threads -> Asm]
        /\ Total(Held') = Total(Held) - asm[t].mp.reserved + a.mp.reserved
    BY <1>1, <1>2, AsmUpdate DEF DSInv
  <2> QED
    BY <1>2, <1>3, <1>4, <2>1, <2>2
<1>7. used' = Total(size') + Total(Staged') + Total(Held')
  <2>1. /\ Total(size) \in Nat /\ Total(Staged) \in Nat /\ Total(Held) \in Nat
        /\ used = Total(size) + Total(Staged) + Total(Held)
    BY TotalsType, ChargedIs DEF DSInv, ExactAccounting
  <2> QED
    BY <1>1, <1>4, <1>5, <1>6, <2>1
<1>8. ReservedIsStaged' /\ HoldsOnlyTaken'
  <2>1. /\ \A s \in Threads : asm'[s] = IF s = t THEN a ELSE asm[s]
        /\ \A v \in Uploads : mpu'[v] = IF v = u THEN NoMpu ELSE mpu[v]
    BY <1>1 DEF DSInv, DSTypeOK
  <2> QED
    BY <1>2, <2>1, NoMpuStaged DEF DSInv, ReservedIsStaged, HoldsOnlyTaken
<1>9. bodies' \subseteq Keys /\ size' \in [Keys -> Nat] /\ used' <= Capacity
  BY <1>1 DEF DSInv, DSTypeOK
<1> QED
  BY <1>5, <1>6, <1>7, <1>8, <1>9, Settle
LEMMA NoAsmIdle == NoAsm \in Asm /\ NoAsm.step = "idle" /\ NoAsm.mp = NoMpu
  BY NoMpuStaged DEF NoAsm, Asm

\* A thread gives back the charge of the entry it took.
LEMMA GiveBackStep ==
    ASSUME DSInv, NEW t \in Threads, NEW a \in Asm, a.step # "taken", a.mp = NoMpu,
           asm' = [asm EXCEPT ![t] = a], UNCHANGED <<bodies, size, mpu>>,
           ReleaseBytes(asm[t].mp.reserved)
    PROVE  DSInv'
<1>1. /\ asm[t].mp.reserved \in Nat /\ used \in Nat /\ used <= Capacity
      /\ Total(size) \in Nat
  BY TotalsType DEF DSInv, DSTypeOK, Asm, Mpu
<1>2. used' = used - asm[t].mp.reserved + Total(size') - Total(size)
  BY <1>1 DEF ReleaseBytes
<1>3. used' <= Capacity
  BY <1>1, CapacityAssumption DEF ReleaseBytes
<1>4. bodies' \subseteq Keys /\ size' \in [Keys -> Nat]
  BY DEF DSInv, DSTypeOK
<1> QED
  BY <1>2, <1>3, <1>4, NoMpuStaged, CallStep

LEMMA MissingStep ==
    ASSUME DSInv, NEW t \in Threads, NEW listed, AssembleMissing(t, listed)
    PROVE  DSInv'
BY NoAsmIdle, GiveBackStep DEF AssembleMissing

LEMMA JoinStep ==
    ASSUME DSInv, NEW t \in Threads, NEW listed \in SUBSET Parts,
           AssembleJoin(t, listed)
    PROVE  DSInv'
<1> DEFINE lens == [p \in listed |-> asm[t].mp.len[p]]
           a == [step |-> "joined", mp |-> NoMpu, total |-> Total(lens)]
<1>1. lens \in [listed -> Nat]
  BY DEF DSInv, DSTypeOK, Asm, Mpu
<1>2. IsFiniteSet(listed)
  BY FiniteAssumption, FS_Subset
<1>3. Total(lens) \in Nat
  BY <1>1, <1>2, TotalType
<1>4. a \in Asm /\ a.step # "taken" /\ a.mp = NoMpu
  BY <1>3, NoMpuStaged DEF Asm
<1>5. /\ asm' = [asm EXCEPT ![t] = a] /\ UNCHANGED <<bodies, size, mpu>>
      /\ ReleaseBytes(asm[t].mp.reserved)
  BY DEF AssembleJoin
<1> HIDE DEF a
<1> QED
  BY <1>4, <1>5, GiveBackStep

LEMMA StoreStep ==
    ASSUME DSInv, NEW t \in Threads, NEW k \in Keys,
           AssembleStore(t, k) \/ AssembleRefused(t, k)
    PROVE  DSInv'
<1>1. /\ asm' = [asm EXCEPT ![t] = NoAsm] /\ mpu' = mpu /\ asm[t].step = "joined"
      /\ Resize(k, asm[t].total) \/ ResizeRefused(k, asm[t].total)
  BY DEF AssembleStore, AssembleRefused
<1>2. asm[t].total \in Nat /\ asm[t].mp.reserved = 0
  BY <1>1 DEF DSInv, DSTypeOK, HoldsOnlyTaken, Asm, NoMpu
<1>3. /\ used \in Nat /\ used <= Capacity /\ size \in [Keys -> Nat]
      /\ Total(size) \in Nat /\ size[k] \in Nat
  BY TotalsType DEF DSInv, DSTypeOK
<1>4. /\ bodies' \subseteq Keys /\ size' \in [Keys -> Nat]
      /\ used' = used - asm[t].mp.reserved + Total(size') - Total(size)
      /\ used' <= Capacity
  <2>1. CASE Resize(k, asm[t].total)
    BY <1>2, <1>3, <2>1, ResizeStep
  <2>2. CASE ResizeRefused(k, asm[t].total)
    BY <1>2, <1>3, <2>2, ResizeRefusedStep
  <2> QED
    BY <1>1, <2>1, <2>2
<1> QED
  BY <1>1, <1>4, NoAsmIdle, NoMpuStaged, CallStep
-----------------------------------------------------------------------------
LEMMA NextDSInv == DSInv /\ [DSNext]_dsVars => DSInv'
<1> SUFFICES ASSUME DSInv, [DSNext]_dsVars PROVE DSInv'
  OBVIOUS
<1>1. ASSUME NEW k \in Keys, NEW offset \in Nat, NEW len \in Nat,
             NEW total \in Nat \cup {NoTotal}, ObjectStep(k, offset, len, total)
      PROVE  DSInv'
  <2>1. WriteTarget(offset + len, total) \in Nat
    BY DEF WriteTarget, NoTotal
  <2>2. CASE Reserve(k, len) \/ ReserveRefused(k, len)
    BY <2>2, BodyStep DEF Reserve, ReserveRefused
  <2>3. CASE WriteRange(k, offset, len, total) \/ WriteRangeRefused(k, offset, len, total)
    BY <2>1, <2>3, BodyStep DEF WriteRange, WriteRangeRefused
  <2> QED
    BY <1>1, <2>2, <2>3 DEF ObjectStep
<1>2. ASSUME NEW u \in Uploads, NEW p \in Parts, NEW offset \in Nat, NEW len \in Nat,
             PartStep(u, p, offset, len)
      PROVE  DSInv'
  BY <1>2, WritePartStep, WritePartRefusedStep DEF PartStep
<1>3. ASSUME NEW t \in Threads, NEW u \in Uploads, NEW k \in Keys,
             NEW listed \in SUBSET Parts, AssembleStep(t, u, k, listed)
      PROVE  DSInv'
  BY <1>3, TakeStep, MissingStep, JoinStep, StoreStep DEF AssembleStep
<1>4. CASE UNCHANGED dsVars
  BY <1>4 DEF dsVars, DSInv, DSTypeOK, ExactAccounting, Charged, ReservedIsStaged,
              HoldsOnlyTaken
<1>5. (\E k \in Keys : DeleteObject(k)) \/ (\E u \in Uploads : AbortMultipartData(u))
      => DSInv'
  BY DeleteStep, AbortDataStep
<1> QED
  BY <1>1, <1>2, <1>3, <1>4, <1>5 DEF DSNext, DSNextOver

(***************************************************************************)
(* The store never miscounts: used_bytes_ is exactly what the bodies, the  *)
(* staged parts and the entries held by AssembleObject are charged, in     *)
(* every interleaving of the operations.                                   *)
(***************************************************************************)
THEOREM AccountingIsExact == DSSpec => [](DSTypeOK /\ ExactAccounting /\ ReservedIsStaged)
<1>1. DSInv => DSTypeOK /\ ExactAccounting /\ ReservedIsStaged
  BY DEF DSInv
<1> QED
  BY <1>1, InitDSInv, NextDSInv, PTL DEF DSSpec

(***************************************************************************)
(* Bodies and staged parts together never exceed capacity_bytes_, although *)
(* AssembleObject gives the staging charge back before it charges the      *)
(* body.                                                                   *)
(***************************************************************************)
THEOREM CapacityIsRespected == DSSpec => []WithinCapacity
<1>1. DSInv => WithinCapacity
  <2> SUFFICES ASSUME DSInv PROVE WithinCapacity
    OBVIOUS
  <2>1. [u \in Uploads |-> Total(mpu[u].len)] = Staged
    BY DEF Staged, DSInv, ReservedIsStaged, StagedExactly
  <2>2. /\ Total(size) \in Nat /\ Total(Staged) \in Nat /\ Total(Held) \in Nat
        /\ used = Total(size) + Total(Staged) + Total(Held) /\ used <= Capacity
    BY TotalsType, ChargedIs DEF DSInv, ExactAccounting
  <2> QED
    BY <2>1, <2>2, CapacityAssumption DEF WithinCapacity
<1> QED
  BY <1>1, InitDSInv, NextDSInv, PTL DEF DSSpec
=============================================================================
