--------------------------- MODULE MCClientUpload ---------------------------
(***************************************************************************)
(* ClientUpload for TLC.                                                   *)
(***************************************************************************)
EXTENDS ClientUpload

\* No part; two parts; a part whose number was used with another size, and one
\* that is too large.
MCPartLists == {<<>>, <<<<1, 1>>, <<2, 1>>>>, <<<<1, 2>>>>, <<<<2, 3>>>>}
=============================================================================
