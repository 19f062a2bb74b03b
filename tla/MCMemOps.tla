------------------------------ MODULE MCMemOps ------------------------------
(***************************************************************************)
(* Six addresses and two values of a byte: blocks of up to three bytes,    *)
(* which lie apart, touch, and overlap by one and by two bytes either way. *)
(***************************************************************************)
EXTENDS MemOpsProps

SmallMemory == 1 .. 6
SmallSizes == 0 .. 3
SmallBytes == 0 .. 1
=============================================================================
