------------------------------ MODULE MCMultipart ------------------------------
(***************************************************************************)
(* Multipart for TLC: all uploads write to the object MCKey.               *)
(***************************************************************************)
EXTENDS Multipart, TLC

CONSTANT MCKey

MCKeyOf == [u \in Uploads |-> MCKey]

Symmetry == Permutations(Threads) \cup Permutations(Uploads)
=============================================================================
