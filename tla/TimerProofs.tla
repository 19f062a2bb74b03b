---------------------------- MODULE TimerProofs ----------------------------
(***************************************************************************)
(* Proofs about the timer, for every clock, every frequency, every width   *)
(* of a byte and a word, and every delay: no delay is over too early       *)
(* unless a number was cut to its width.                                   *)
(***************************************************************************)
EXTENDS TimerProps, TLAPS

-----------------------------------------------------------------------------
(* The inductive invariant *)

\* The cycles of a tick at the frequency of pit_timer_init.
Period == PIT_MCLK_FREQ \div hz

\* The two bytes reach the chip as the divisor they were taken from.
ChipProgrammed == Programmed => Cycles(reload) = Period

\* The ticks when the delay was called.
Called == expected - asked

\* The ticks since the call have taken their time, but for the tick that had
\* begun before.
Waited ==
  pc = "wait" /\ fits /\ Programmed => elapsed + count > (ticks - Called) * Period

TimerInv == TypeOK /\ ChipProgrammed /\ Waited

-----------------------------------------------------------------------------
(* Arithmetic *)

LEMMA Division ==
  \A a \in Nat, p \in Nat \ {0} :
    /\ a \div p \in Nat /\ (a % p) \in 0 .. p - 1
    /\ a = p * (a \div p) + (a % p)
  OBVIOUS

LEMMA Product == \A a, b \in Nat : a * b \in Nat
  OBVIOUS

LEMMA OneMore == \A a, p \in Int : (a + 1) * p = a * p + p /\ a * p \in Int
  OBVIOUS

LEMMA Monotone == \A a, b \in Int, p \in Nat : a <= b => a * p <= b * p
  OBVIOUS

LEMMA Smaller == \A a \in Nat, p \in Nat \ {0} : a < p => (a % p) = a
  OBVIOUS

\* A quotient of two digits has a high digit that is one.
LEMMA HighDigit ==
  ASSUME NEW p \in Nat \ {0}, NEW a \in 0 .. p * p - 1
  PROVE  a \div p \in 0 .. p - 1
<1>1. a \in Nat /\ a < p * p
  BY Product
<1>2. a \div p \in Nat /\ (a % p) \in 0 .. p - 1 /\ a = p * (a \div p) + (a % p)
  BY <1>1, Division
<1>3. ASSUME a \div p >= p PROVE FALSE
  <2>1. p * p <= (a \div p) * p
    BY <1>2, <1>3, Monotone
  <2>2. (a \div p) * p = p * (a \div p)
    BY <1>2
  <2>3. QED
    BY <1>1, <1>2, <2>1, <2>2, Product
<1>4. QED
  BY <1>2, <1>3

\* The period of a frequency that the clock can be divided to.
LEMMA PeriodPositive ==
  ASSUME NEW h \in Hertz, h # 0
  PROVE  PIT_MCLK_FREQ \div h \in Nat \ {0}
<1>1. h \in Nat \ {0} /\ h <= PIT_MCLK_FREQ /\ PIT_MCLK_FREQ \in Nat
  BY TimerAssumption
<1>2. /\ PIT_MCLK_FREQ \div h \in Nat /\ (PIT_MCLK_FREQ % h) \in 0 .. h - 1
      /\ PIT_MCLK_FREQ = h * (PIT_MCLK_FREQ \div h) + (PIT_MCLK_FREQ % h)
  BY <1>1, Division
<1>3. PIT_MCLK_FREQ \div h # 0
  BY <1>1, <1>2
<1>4. QED
  BY <1>2, <1>3

LEMMA DivisorsPositive == Divisors \in Nat \ {0} /\ ByteSize \in Nat \ {0}
  BY TimerAssumption DEF Divisors

\* What the chip makes of the two bytes.
LEMMA DivisorArrives ==
  ASSUME NEW h \in Hertz, h # 0
  PROVE  LET b == Bytes(Divisor(h)) r == b[1] + ByteSize * b[2]
         IN  /\ r = Divisor(h) /\ r \in 0 .. Divisors - 1
             /\ PIT_MCLK_FREQ \div h <= Divisors => Cycles(r) = PIT_MCLK_FREQ \div h
             /\ b[1] \in 0 .. ByteSize - 1 /\ b[2] \in 0 .. ByteSize - 1
<1> DEFINE q == PIT_MCLK_FREQ \div h
           d == Divisor(h)
           b == Bytes(d)
           r == b[1] + ByteSize * b[2]
<1>1. q \in Nat \ {0} /\ Divisors \in Nat \ {0} /\ ByteSize \in Nat \ {0}
  BY PeriodPositive, DivisorsPositive
<1>2. d = (q % Divisors) /\ d \in 0 .. Divisors - 1
  BY <1>1, Division DEF Divisor
<1>3. b[1] = (d % ByteSize) /\ b[2] = d \div ByteSize
  BY DEF Bytes
<1>4. r = d /\ b[1] \in 0 .. ByteSize - 1
  <2>1. d \in Nat
    BY <1>1, <1>2
  <2> HIDE DEF d
  <2>2. (d % ByteSize) \in 0 .. ByteSize - 1 /\ d = ByteSize * (d \div ByteSize) + (d % ByteSize)
        /\ d \div ByteSize \in Nat
    BY <1>1, <2>1, Division
  <2>3. b[1] \in 0 .. ByteSize - 1
    BY <1>3, <2>2
  <2> HIDE DEF b
  <2>4. r = (d % ByteSize) + ByteSize * (d \div ByteSize)
    BY <1>3, Zenon
  <2>5. ByteSize * (d \div ByteSize) \in Nat
    BY <1>1, <2>2, Product
  <2>6. r = d
    BY <2>2, <2>4, <2>5
  <2>7. QED
    BY <2>3, <2>6
<1>5. b[2] \in 0 .. ByteSize - 1
  BY <1>1, <1>2, <1>3, HighDigit DEF Divisors
<1>6. ASSUME q <= Divisors PROVE Cycles(r) = q
  <2>1. CASE q < Divisors
    <3>1. d = q
      BY <1>1, <1>2, <2>1, Smaller
    <3>2. QED
      BY <1>1, <1>4, <3>1 DEF Cycles
  <2>2. CASE q = Divisors
    <3>1. d = 0
      BY <1>1, <1>2, <2>2
    <3>2. QED
      BY <1>1, <1>4, <2>2, <3>1 DEF Cycles
  <2>3. QED
    BY <1>1, <1>6, <2>1, <2>2
<1>7. QED
  BY <1>2, <1>4, <1>5, <1>6

-----------------------------------------------------------------------------
(* TimerInv is inductive *)

LEMMA CyclesPositive == \A r \in 0 .. Divisors - 1 : Cycles(r) \in Nat \ {0}
  BY DivisorsPositive DEF Cycles

LEMMA InitInv == Init => TimerInv
<1> SUFFICES ASSUME Init PROVE TimerInv
  OBVIOUS
<1>1. /\ Divisors \in Nat \ {0} /\ WordSize \in Nat \ {0} /\ MaxTicks \in Nat
      /\ MaxInits \in Nat
  BY DivisorsPositive, TimerAssumption
<1>2. Cycles(0) = Divisors
  BY DEF Cycles
<1>3. TypeOK
  BY <1>1, <1>2 DEF Init, TypeOK
<1>4. ChipProgrammed /\ Waited
  BY DEF Init, ChipProgrammed, Waited, Programmed
<1>5. QED
  BY <1>3, <1>4 DEF TimerInv

LEMMA PitTimerInitInv == TimerInv /\ PitTimerInit => TimerInv'
<1> SUFFICES ASSUME TimerInv, PitTimerInit PROVE TimerInv'
  OBVIOUS
<1>1. /\ TypeOK /\ pc = "idle" /\ inits < MaxInits /\ inits' = inits + 1
      /\ UNCHANGED <<ticks, expected, asked, fits, elapsed>>
  BY DEF TimerInv, PitTimerInit, delay
<1>2. inits' \in 0 .. MaxInits
  BY <1>1, TimerAssumption DEF TypeOK
<1>3. PICK hertz \in Hertz :
        \/ hertz = 0 /\ pc' = "fault" /\ UNCHANGED <<hz, chip>>
        \/ /\ hertz # 0
           /\ LET b == Bytes(Divisor(hertz)) IN reload' = b[1] + ByteSize * b[2]
           /\ count' = Cycles(reload') /\ hz' = hertz /\ pc' = pc
  BY DEF PitTimerInit
<1>4. CASE hertz = 0
  <2>1. pc' = "fault" /\ UNCHANGED <<hz, reload, count>>
    BY <1>3, <1>4 DEF chip
  <2>2. TypeOK'
    BY <1>1, <1>2, <2>1 DEF TypeOK, Cycles
  <2>3. ChipProgrammed' /\ Waited'
    BY <2>1 DEF TimerInv, ChipProgrammed, Waited, Programmed, Cycles, Period
  <2>4. QED
    BY <2>2, <2>3 DEF TimerInv
<1>5. CASE hertz # 0
  <2>1. /\ LET b == Bytes(Divisor(hertz)) IN reload' = b[1] + ByteSize * b[2]
        /\ count' = Cycles(reload') /\ hz' = hertz /\ pc' = "idle"
    BY <1>1, <1>3, <1>5
  <2>2. /\ reload' \in 0 .. Divisors - 1
        /\ PIT_MCLK_FREQ \div hertz <= Divisors => Cycles(reload') = PIT_MCLK_FREQ \div hertz
    BY <1>5, <2>1, DivisorArrives
  <2>3. count' \in 1 .. Cycles(reload')
    BY <2>1, <2>2, CyclesPositive
  <2>4. TypeOK'
    BY <1>1, <1>2, <2>1, <2>2, <2>3 DEF TypeOK, Cycles
  <2>5. ChipProgrammed'
    BY <2>1, <2>2 DEF ChipProgrammed, Programmed, Cycles, Period
  <2>6. Waited'
    BY <2>1 DEF Waited
  <2>7. QED
    BY <2>4, <2>5, <2>6 DEF TimerInv
<1>6. QED
  BY <1>4, <1>5

\* A delay of t ticks begins, if a is the length that was asked for and f is
\* false when a number is cut.
LEMMA WaitInv ==
  ASSUME TimerInv, NEW t \in Nat, NEW a \in Nat, NEW f \in BOOLEAN,
         Wait(t), asked' = a, fits' = f,
         f => t = a /\ ticks + a < WordSize
  PROVE  TimerInv'
<1>1. /\ TypeOK /\ pc' = "wait" /\ elapsed' = 0 /\ expected' = (ticks + t) % WordSize
      /\ UNCHANGED <<hz, ticks, inits, reload, count>>
  BY DEF TimerInv, Wait, chip
<1>2. WordSize \in Nat \ {0} /\ ticks \in Nat /\ count \in Nat /\ count >= 1
  BY <1>1, CyclesPositive, TimerAssumption DEF TypeOK
<1>3. expected' \in 0 .. WordSize - 1
  BY <1>1, <1>2, Division
<1>4. TypeOK'
  BY <1>1, <1>3 DEF TypeOK, Cycles
<1>5. ChipProgrammed'
  BY <1>1 DEF TimerInv, ChipProgrammed, Programmed, Cycles, Period
<1>6. Waited'
  <2>1. SUFFICES ASSUME f, Programmed'
                 PROVE  (elapsed + count > (ticks - Called) * Period)'
    BY DEF Waited
  <2>2. expected' = ticks + a
    BY <1>1, <1>2, <2>1, Smaller
  <2>3. (ticks - Called)' = 0
    BY <1>1, <1>2, <2>2 DEF Called
  <2>4. Period' \in Nat
    BY <1>4, <2>1, PeriodPositive DEF TypeOK, Period, Programmed
  <2>5. ((ticks - Called) * Period)' = 0
    BY <2>3, <2>4
  <2>6. QED
    BY <1>1, <1>2, <2>5
<1>7. QED
  BY <1>4, <1>5, <1>6 DEF TimerInv

LEMMA TicksInv == TimerInv /\ TimerDelayTicks => TimerInv'
<1> SUFFICES ASSUME TimerInv, TimerDelayTicks PROVE TimerInv'
  OBVIOUS
<1>1. PICK t \in Delays : Wait(t) /\ asked' = t /\ fits' = (ticks + t < WordSize)
  BY DEF TimerDelayTicks
<1>2. t \in Nat /\ (ticks + t < WordSize) \in BOOLEAN
  BY TimerAssumption
<1>3. QED
  BY <1>1, <1>2, WaitInv

LEMMA MsInv == TimerInv /\ TimerDelayMs => TimerInv'
<1> SUFFICES ASSUME TimerInv, TimerDelayMs PROVE TimerInv'
  OBVIOUS
<1>1. PICK ms \in Delays :
        /\ Wait(((ms * hz) % WordSize) \div Millis)
        /\ asked' = (ms * hz) \div Millis
        /\ fits' = (ms * hz < WordSize /\ ticks + asked' < WordSize)
  BY DEF TimerDelayMs
<1> DEFINE p == ms * hz
           t == (p % WordSize) \div Millis
           a == p \div Millis
           f == p < WordSize /\ ticks + a < WordSize
<1>2. ms \in Nat /\ hz \in Nat /\ WordSize \in Nat \ {0} /\ Millis \in Nat \ {0}
  BY TimerAssumption DEF TimerInv, TypeOK
<1>3. p \in Nat
  BY <1>2, Product
<1> HIDE DEF p
<1>4. (p % WordSize) \in Nat /\ a \in Nat
  <2>1. (p % WordSize) \in 0 .. WordSize - 1
    BY <1>2, <1>3, Division
  <2>2. (p % WordSize) \in Nat
    BY <1>2, <2>1
  <2>3. a \in Nat
    BY <1>2, <1>3, Division
  <2>4. QED
    BY <2>2, <2>3
<1>5. t \in Nat
  BY <1>2, <1>4, Division
<1>6. f => t = a
  BY <1>2, <1>3, Smaller
<1>7. Wait(t) /\ asked' = a /\ fits' = f
  BY <1>1 DEF p
<1>8. f \in BOOLEAN
  OBVIOUS
<1>9. f => ticks + a < WordSize
  OBVIOUS
<1> HIDE DEF t, a, f
<1>10. QED
  BY <1>4, <1>5, <1>6, <1>7, <1>8, <1>9, WaitInv

LEMMA ReturnInv == TimerInv /\ Return => TimerInv'
<1> SUFFICES ASSUME TimerInv, Return PROVE TimerInv'
  OBVIOUS
<1>1. /\ TypeOK /\ pc' = "idle"
      /\ UNCHANGED <<hz, ticks, inits, reload, count, expected, asked, fits, elapsed>>
  BY DEF TimerInv, Return, chip, delay
<1>2. TypeOK'
  BY <1>1 DEF TypeOK, Cycles
<1>3. ChipProgrammed'
  BY <1>1 DEF TimerInv, ChipProgrammed, Programmed, Cycles, Period
<1>4. Waited'
  BY <1>1 DEF Waited
<1>5. QED
  BY <1>2, <1>3, <1>4 DEF TimerInv

LEMMA ClockInv == TimerInv /\ Clock => TimerInv'
<1> SUFFICES ASSUME TimerInv, Clock PROVE TimerInv'
  OBVIOUS
<1>1. /\ TypeOK /\ ticks < MaxTicks
      /\ UNCHANGED <<pc, hz, expected, reload, inits, asked, fits>>
      /\ count > 1 => count' = count - 1 /\ ticks' = ticks
      /\ ~(count > 1) => count' = Cycles(reload) /\ ticks' = ticks + 1
      /\ elapsed' = IF pc = "wait" THEN elapsed + 1 ELSE elapsed
  BY DEF TimerInv, Clock
<1>2. /\ Cycles(reload) \in Nat \ {0} /\ count \in 1 .. Cycles(reload)
      /\ ticks \in 0 .. MaxTicks /\ MaxTicks \in Nat /\ elapsed \in Nat
      /\ expected \in Int /\ asked \in Nat
  BY <1>1, CyclesPositive, TimerAssumption DEF TypeOK
<1>3. /\ count' \in 1 .. Cycles(reload) /\ ticks' \in 0 .. MaxTicks /\ elapsed' \in Nat
  BY <1>1, <1>2
<1>4. TypeOK'
  BY <1>1, <1>3 DEF TypeOK, Cycles
<1>5. ChipProgrammed'
  BY <1>1 DEF TimerInv, ChipProgrammed, Programmed, Cycles, Period
<1>6. Waited'
  <2> SUFFICES ASSUME pc = "wait", fits, Programmed
               PROVE  (elapsed + count > (ticks - Called) * Period)'
    BY <1>1 DEF Waited, Programmed
  <2>1. PICK P : P = Period
    OBVIOUS
  <2>2. PICK s : s = ticks - Called
    OBVIOUS
  <2>3. P \in Nat \ {0}
    BY <1>1, <2>1, PeriodPositive DEF TypeOK, Period, Programmed
  <2>4. s \in Int
    BY <1>2, <2>2 DEF Called
  <2>5. elapsed + count > s * P /\ Cycles(reload) = P /\ elapsed' = elapsed + 1
    BY <1>1, <2>1, <2>2 DEF TimerInv, Waited, ChipProgrammed
  <2>6. Period' = P /\ Called' = Called
    BY <1>1, <2>1 DEF Period, Called
  <2>7. s * P \in Int /\ (s + 1) * P = s * P + P
    BY <2>3, <2>4, OneMore
  <2>8. CASE count > 1
    <3>1. (ticks - Called)' = s
      BY <1>1, <2>2, <2>6, <2>8
    <3>2. ((ticks - Called) * Period)' = s * P
      BY <2>6, <3>1
    <3>3. elapsed' + count' > s * P
      BY <1>1, <1>2, <2>5, <2>7, <2>8
    <3>4. QED
      BY <3>2, <3>3
  <2>9. CASE ~(count > 1)
    <3>1. (ticks - Called)' = s + 1
      BY <1>1, <1>2, <2>2, <2>6, <2>9 DEF Called
    <3>2. ((ticks - Called) * Period)' = (s + 1) * P
      BY <2>6, <3>1
    <3>3. elapsed' + count' > s * P + P
      BY <1>1, <1>2, <2>3, <2>5, <2>7, <2>9
    <3>4. QED
      BY <2>7, <3>2, <3>3
  <2>10. QED
    BY <2>8, <2>9
<1>7. QED
  BY <1>4, <1>5, <1>6 DEF TimerInv

LEMMA StutterInv == TimerInv /\ UNCHANGED vars => TimerInv'
<1> SUFFICES ASSUME TimerInv, UNCHANGED vars PROVE TimerInv'
  OBVIOUS
<1>1. UNCHANGED <<pc, hz, ticks, inits, reload, count, expected, asked, fits, elapsed>>
  BY DEF vars, chip, delay
<1>2. QED
  BY <1>1 DEF TimerInv, TypeOK, ChipProgrammed, Waited, Programmed, Cycles, Period, Called

LEMMA NextInv == TimerInv /\ [Next]_vars => TimerInv'
  BY PitTimerInitInv, TicksInv, MsInv, ReturnInv, ClockInv, StutterInv DEF Next, Spin, Quiet

(* The chip divides by what pit_timer_init gave it, and a delay knows how  *)
(* many cycles have passed by the ticks it has seen.                       *)
THEOREM Invariance == Spec => []TimerInv
<1>1. Init => TimerInv
  BY InitInv
<1>2. TimerInv /\ [Next]_vars => TimerInv'
  BY NextInv
<1>3. QED
  BY <1>1, <1>2, PTL DEF Spec

(* Every variable keeps its type; above all, the chip is given a divisor   *)
(* that its two bytes can hold.                                            *)
THEOREM TypeCorrectness == Spec => []TypeOK
<1>1. TimerInv => TypeOK
  BY DEF TimerInv
<1>2. QED
  BY <1>1, Invariance, PTL

-----------------------------------------------------------------------------
(* The delays *)

LEMMA ReturnsLate ==
  ASSUME TimerInv, [Next]_vars, pc = "wait", pc' = "idle", fits, Programmed
  PROVE  elapsed >= (asked - 1) * (PIT_MCLK_FREQ \div hz)
<1>1. TypeOK /\ Cycles(reload) = Period /\ elapsed + count > (ticks - Called) * Period
  BY DEF TimerInv, ChipProgrammed, Waited
<1>2. ticks >= expected
  BY DEF Next, PitTimerInit, TimerDelayTicks, TimerDelayMs, Return, Reached, Spin, Quiet,
         Clock, vars
<1>3. PICK P : P = Period
  OBVIOUS
<1>4. PICK s : s = ticks - Called
  OBVIOUS
<1>5. P \in Nat \ {0}
  BY <1>1, <1>3, PeriodPositive DEF TypeOK, Period, Programmed
<1>6. /\ count \in 1 .. P /\ elapsed \in Nat /\ asked \in Nat /\ ticks \in Int
      /\ expected \in Int
  BY <1>1, <1>3, TimerAssumption DEF TypeOK
<1>7. s \in Int /\ asked <= s
  BY <1>2, <1>4, <1>6 DEF Called
<1>8. (asked - 1) + 1 = asked
  BY <1>6
<1>9. asked * P = (asked - 1) * P + P /\ (asked - 1) * P \in Int
  BY <1>5, <1>6, <1>8, OneMore
<1>10. asked * P <= s * P /\ s * P \in Int
  BY <1>5, <1>6, <1>7, Monotone, OneMore
<1>11. elapsed + count > s * P
  BY <1>1, <1>3, <1>4
<1>12. elapsed >= (asked - 1) * P
  BY <1>5, <1>6, <1>9, <1>10, <1>11
<1>13. QED
  BY <1>3, <1>12 DEF Period

(* Neither delay returns before its time, unless a number was cut.         *)
THEOREM DelayTheorem == Spec => DelayLongEnough
<1>1. TimerInv /\ [Next]_vars =>
        [pc = "wait" /\ pc' = "idle" /\ fits /\ Programmed =>
           elapsed >= (asked - 1) * (PIT_MCLK_FREQ \div hz)]_vars
  BY ReturnsLate
<1>2. QED
  BY <1>1, Invariance, PTL DEF Spec, DelayLongEnough
=============================================================================
