---------------------------- MODULE MCProxiedPut ----------------------------
(***************************************************************************)
(* Three puts: one that states its size, one over the sink's limit, and    *)
(* one that leaves expected_size at 0, as OpenSessionForPut does.  The     *)
(* first two stand for a client of the proxy that fills in the field.      *)
(***************************************************************************)
EXTENDS ProxiedPut

CONSTANTS p1, p2, p3

MCExpected == [p \in Puts |-> IF p = p3 THEN 0 ELSE Size[p]]
MCSize == [p \in Puts |-> IF p = p2 THEN 3 ELSE 1]
=============================================================================
