------------------------------- MODULE Timer -------------------------------
(***************************************************************************)
(* The timer, src/src/int/timer.c: pit_timer_init sets the frequency of    *)
(* the interval timer, a chip (external) that counts the cycles of its own *)
(* clock down from a 16-bit divisor, and the two delays poll ticks.  The   *)
(* repository has no handler that counts ticks (kernel.c:11): Clock stands *)
(* for one, so that the delays can be judged by the time they take.        *)
(***************************************************************************)
EXTENDS Integers

CONSTANTS
  PIT_MCLK_FREQ,  \* cycles of the chip's clock in a second: 1193180
  Millis,         \* milliseconds in a second: 1000
  ByteSize,       \* the values of a byte: 256
  WordSize,       \* the values of a uint32_t
  Hertz,          \* arguments of pit_timer_init
  Delays,         \* arguments of the delays, ticks or milliseconds
  MaxInits,       \* bound: calls of pit_timer_init
  MaxTicks        \* bound: ticks counted

ASSUME TimerAssumption ==
  /\ {PIT_MCLK_FREQ, Millis, ByteSize, WordSize} \subseteq Nat \ {0}
  /\ Hertz \subseteq 0 .. PIT_MCLK_FREQ /\ Delays \subseteq 0 .. WordSize - 1
  /\ MaxInits \in Nat /\ MaxTicks \in Nat /\ MaxTicks >= WordSize

VARIABLES
  pc,        \* "idle", "wait" in a delay, or "fault" after a division by zero
  hz, ticks, expected,
  reload,    \* the divisor the chip runs with, 0 for the largest
  count,     \* cycles to the next tick
  inits,     \* calls of pit_timer_init
  \* history of the delay that runs or ran last
  asked,     \* its length in ticks, whatever the widths
  fits,      \* no result was cut to 32 bits
  elapsed    \* the cycles it has taken

chip == <<reload, count>>
delay == <<expected, asked, fits, elapsed>>
vars == <<pc, hz, ticks, inits, chip, delay>>

Divisors == ByteSize * ByteSize

\* The chip counts down from the largest number when it is given 0.
Cycles(r) == IF r = 0 THEN Divisors ELSE r

\* The firmware leaves the chip running with the largest divisor.
Init ==
  /\ pc = "idle" /\ hz = 0 /\ ticks = 0 /\ expected = 0
  /\ reload = 0 /\ count = Divisors
  /\ inits = 0
  /\ asked = 0 /\ fits = TRUE /\ elapsed = 0
-----------------------------------------------------------------------------
(* pit_timer_init *)

\* Mutation: the divisor is not cut to 16 bits.
DivisorWide(hertz) == PIT_MCLK_FREQ \div hertz

Divisor(hertz) == (PIT_MCLK_FREQ \div hertz) % Divisors

\* Mutation: the high byte is written first.
BytesSwapped(d) == <<d \div ByteSize, d % ByteSize>>

\* The two bytes in the order in which they are written to PIT_CH0.
Bytes(d) == <<d % ByteSize, d \div ByteSize>>

\* The chip takes the low byte first, as the command 0x36 tells it, and
\* stands still from the command to the second byte.
PitTimerInit ==
  /\ pc = "idle" /\ inits < MaxInits
  /\ inits' = inits + 1
  /\ UNCHANGED <<ticks, delay>>
  /\ \E hertz \in Hertz :
       \/ /\ hertz = 0 /\ pc' = "fault"
          /\ UNCHANGED <<hz, chip>>
       \/ /\ hertz # 0
          /\ LET b == Bytes(Divisor(hertz)) IN reload' = b[1] + ByteSize * b[2]
          /\ count' = Cycles(reload')
          /\ hz' = hertz
          /\ UNCHANGED pc
-----------------------------------------------------------------------------
(* The delays *)

\* t ticks from now; expected is a uint32_t, and ticks has 64 bits.
Wait(t) ==
  /\ expected' = (ticks + t) % WordSize
  /\ elapsed' = 0
  /\ pc' = "wait"
  /\ UNCHANGED <<hz, ticks, inits, chip>>

TimerDelayTicks ==
  /\ pc = "idle"
  /\ \E t \in Delays :
       /\ Wait(t)
       /\ asked' = t /\ fits' = (ticks + t < WordSize)

\* The product has 32 bits.
TimerDelayMs ==
  /\ pc = "idle"
  /\ \E ms \in Delays :
       /\ Wait(((ms * hz) % WordSize) \div Millis)
       /\ asked' = (ms * hz) \div Millis
       /\ fits' = (ms * hz < WordSize /\ ticks + asked' < WordSize)

\* Mutation: ticks is compared for equality.
ReachedExactly == ticks = expected

Reached == ticks >= expected

Return ==
  /\ pc = "wait" /\ Reached
  /\ pc' = "idle"
  /\ UNCHANGED <<hz, ticks, inits, chip, delay>>

\* A turn of the loop, or nothing is called: another call may come, or not.
Spin == pc = "wait" /\ ~Reached /\ UNCHANGED vars
Quiet == pc \in {"idle", "fault"} /\ UNCHANGED vars
-----------------------------------------------------------------------------
\* A cycle of the chip's clock; a tick is counted at the end of each period.
Clock ==
  /\ ticks < MaxTicks
  /\ IF count > 1 THEN count' = count - 1 /\ UNCHANGED ticks
     ELSE count' = Cycles(reload) /\ ticks' = ticks + 1
  /\ elapsed' = IF pc = "wait" THEN elapsed + 1 ELSE elapsed
  /\ UNCHANGED <<pc, hz, expected, reload, inits, asked, fits>>

Next ==
  \/ PitTimerInit
  \/ TimerDelayTicks
  \/ TimerDelayMs
  \/ Return
  \/ Spin
  \/ Quiet
  \/ Clock

Spec == Init /\ [][Next]_vars

\* The processor keeps executing.
FairSpec == Spec /\ WF_vars(Return)
=============================================================================
