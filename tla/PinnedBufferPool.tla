-------------------------- MODULE PinnedBufferPool --------------------------
(***************************************************************************)
(* gateway/src/data_path/gds/buffer_pool: pinned and registered buffers,   *)
(* cached by size class.  A buffer is known by its class: bucket[c] counts *)
(* the free buffers of a class, lease[t] is the class of the buffer that   *)
(* task t holds.  The last class is the one of oversize buffers, which are *)
(* never cached.                                                           *)
(***************************************************************************)
EXTENDS Naturals, Sequences, FiniteSets

CONSTANTS
    Leases,        \* the tasks that take a lease
    SizeClasses,   \* size_classes_, ascending
    MaxPerClass    \* max_per_class_

ASSUME ClassAssumption ==
    /\ SizeClasses \in Seq(Nat)
    /\ \A i \in 1..Len(SizeClasses) : \A j \in 1..i : SizeClasses[j] <= SizeClasses[i]
    /\ MaxPerClass \in Nat

VARIABLES
    bucket,        \* the free lists
    lease,         \* the class of every lease; 0 when there is none
    shut           \* shutdown_

bufferVars == <<bucket, lease, shut>>

Classes  == 1..Len(SizeClasses)
Oversize == Len(SizeClasses) + 1

BuffersInit ==
    /\ bucket = [c \in Classes |-> 0]
    /\ lease = [t \in Leases |-> 0]
    /\ shut = FALSE

\* PickClass: the first class that is large enough.
PickClass(size) ==
    IF \E c \in Classes : SizeClasses[c] >= size
      THEN CHOOSE c \in Classes :
               SizeClasses[c] >= size /\ \A d \in Classes : d < c => SizeClasses[d] < size
      ELSE Oversize

\* Acquire: a free buffer of the class, or a new one.
Acquire(t, size) ==
    LET c == PickClass(size)
    IN  /\ lease' = [lease EXCEPT ![t] = c]
        /\ bucket' = IF c # Oversize /\ ~shut /\ bucket[c] > 0
                       THEN [bucket EXCEPT ![c] = @ - 1]
                       ELSE bucket
        /\ UNCHANGED shut

\* A new buffer cannot be allocated or registered.
AcquireFails(size) ==
    LET c == PickClass(size)
    IN  /\ IF c \in Classes /\ ~shut THEN bucket[c] = 0 ELSE TRUE
        /\ UNCHANGED bufferVars

Dispose(t) == lease' = [lease EXCEPT ![t] = 0] /\ UNCHANGED <<bucket, shut>>

\* Release, first half: the lock-free test of shutdown_ and of the class.
ReleasesNow(t) == shut \/ lease[t] = Oversize

\* Faulty: the bound of the free list is not looked at.
ReleaseToBucketUnbounded(t) ==
    /\ lease' = [lease EXCEPT ![t] = 0]
    /\ bucket' = [bucket EXCEPT ![lease[t]] = @ + 1]
    /\ UNCHANGED shut

\* Release, second half: into the free list unless it is full.
ReleaseToBucket(t) ==
    /\ lease' = [lease EXCEPT ![t] = 0]
    /\ bucket' = [bucket EXCEPT ![lease[t]] = IF @ >= MaxPerClass THEN @ ELSE @ + 1]
    /\ UNCHANGED shut

\* Shutdown: the flag first, then one bucket after the other.
ShutdownFlag == shut' = TRUE /\ UNCHANGED <<bucket, lease>>

DrainBucket(c) == bucket' = [bucket EXCEPT ![c] = 0] /\ UNCHANGED <<lease, shut>>
=============================================================================
