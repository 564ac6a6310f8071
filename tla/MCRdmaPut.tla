------------------------------ MODULE MCRdmaPut ------------------------------
(***************************************************************************)
(* RdmaPut for TLC: a put with a key and two attempts, and a part with one.*)
(***************************************************************************)
EXTENDS RdmaPut

CONSTANTS p1, p2

MCTries == [p \in Puts |-> IF p = p1 THEN 2 ELSE 1]
MCBytes == [p \in Puts |-> IF p = p1 THEN 3 ELSE 1]
=============================================================================
