--------------------------- MODULE MCPhysMemWide ---------------------------
(***************************************************************************)
(* A machine with more memory in one piece than an unsigned int counts in  *)
(* bytes: at the scale of this run 2^32 bytes are WrapPages = 4 pages, and *)
(* the usable region has 10.                                               *)
(***************************************************************************)
EXTENDS PhysMemProps

WideMaps == {<<[type |-> "usable", base |-> 1, length |-> 10]>>}
=============================================================================
