-------------------------- MODULE MCMemoryDataStore --------------------------
(***************************************************************************)
(* MemoryDataStore for TLC: lengths and offsets up to MaxLength.           *)
(***************************************************************************)
EXTENDS MemoryDataStore, TLC

CONSTANT MaxLength

MCNext == DSNextOver(0 .. MaxLength)

MCSpec == DSInit /\ [][MCNext]_dsVars

Symmetry == Permutations(Keys) \cup Permutations(Uploads)
              \cup Permutations(Parts) \cup Permutations(Threads)
=============================================================================
