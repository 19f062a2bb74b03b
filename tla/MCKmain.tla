------------------------------ MODULE MCKmain ------------------------------
(***************************************************************************)
(* The vectors of the processor the kernel is run on: qemu64, Makefile:27. *)
(* The boot loader answers everything, or leaves out one response, or all. *)
(***************************************************************************)
EXTENDS KmainProps

ClassicVectors == (0 .. 8) \cup (10 .. 14) \cup (16 .. 19)
ClassicErrors == {8} \cup (10 .. 14) \cup {17}
OneUnanswered == {{}, Requests} \cup {{r} : r \in Requests}
=============================================================================
