---------------------------- MODULE MCClientGet ----------------------------
(****************************************************************************)
(* Three calls on one buffer, in any order: a synchronous one of a length   *)
(* GetObject splits in two and PutObject refuses, an asynchronous GetObject *)
(* longer still or HeadObject, and an asynchronous PutObject of one byte;   *)
(* Shutdown and Initialize at any point.  The platform has a whole library, *)
(* behind a path that has none or behind an incomplete one, or has no       *)
(* libcufile.                                                               *)
(****************************************************************************)
EXTENDS ClientGet

CONSTANTS c1, c2, c3, b1, s1, s2

MCBuffer == [c \in Calls |-> b1]
MCLength == [c \in Calls |-> IF c = c1 THEN 4 ELSE IF c = c2 THEN 5 ELSE 1]
MCOps == [c \in Calls |-> CASE c = c1 -> {"get", "put", "head"}
                            [] c = c2 -> {"get", "head"}
                            [] c = c3 -> {"put"}]
MCPlatforms ==
    {[cuda |-> TRUE, cufile |-> TRUE, cuobj |-> <<None, {s1, s2}>>],
     [cuda |-> TRUE, cufile |-> TRUE, cuobj |-> <<{s1}, {s1, s2}>>],
     [cuda |-> TRUE, cufile |-> FALSE, cuobj |-> <<None, {s1, s2}>>]}
=============================================================================
