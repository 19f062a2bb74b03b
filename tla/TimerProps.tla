----------------------------- MODULE TimerProps -----------------------------
(***************************************************************************)
(* What the timer has to get right.                                        *)
(***************************************************************************)
EXTENDS Timer

(* Every variable has its type: the chip gets a divisor that it can hold,  *)
(* and expected is a 32-bit number.                                        *)
TypeOK ==
  /\ pc \in {"idle", "wait", "fault"}
  /\ hz \in Hertz \cup {0} /\ inits \in 0 .. MaxInits
  /\ ticks \in 0 .. MaxTicks /\ expected \in 0 .. WordSize - 1
  /\ reload \in 0 .. Divisors - 1 /\ count \in 1 .. Cycles(reload)
  /\ asked \in Nat /\ fits \in BOOLEAN /\ elapsed \in Nat

\* pit_timer_init was called with a frequency whose divisor has 16 bits, or
\* is the largest one, which the chip is told as 0.
Programmed == hz # 0 /\ PIT_MCLK_FREQ \div hz <= Divisors

(* A delay lasts as long as the ticks it was asked for would at the        *)
(* frequency of pit_timer_init, but for the tick that had begun when it    *)
(* was called; and it is not over before unless a number was cut.          *)
DelayLongEnough ==
  [][pc = "wait" /\ pc' = "idle" /\ fits /\ Programmed =>
       elapsed >= (asked - 1) * (PIT_MCLK_FREQ \div hz)]_vars

(* If something counts ticks, every delay ends: also one whose end was cut *)
(* to 32 bits, and one that was called before pit_timer_init.              *)
DelayEnds == WF_vars(Clock) => (pc = "wait" ~> pc = "idle")
=============================================================================
