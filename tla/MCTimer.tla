------------------------------ MODULE MCTimer ------------------------------
(***************************************************************************)
(* A chip of 12 cycles a second and divisors of two digits to the base 3:  *)
(* at 1 Hz the divisor is too wide, at 2 Hz both digits count, at 12 Hz it *)
(* is 1.                                                                   *)
(***************************************************************************)
EXTENDS TimerProps

SmallHertz == {0, 1, 2, 3, 12}
SmallDelays == {0, 1, 3, 7}
=============================================================================
