------------------------------ MODULE LogfProofs ------------------------------
(***************************************************************************)
(* Proofs about logf for every width of its numbers and every format.      *)
(* What Digits and FlattenSeq compute is proved by induction over Nat,     *)
(* which follows from the natural numbers being well founded.              *)
(***************************************************************************)
EXTENDS LogfProps, SequenceTheorems, WellFoundedInduction, TLAPS

-----------------------------------------------------------------------------
(* Induction over the natural numbers, on sets of them *)

\* The library's relation for < on Nat.
LEMMA LessIs == \A x, y \in Nat : <<x, y>> \in OpToRel(<, Nat) <=> x < y
  BY DEF OpToRel

\* A set of natural numbers has a least one.
LEMMA Least ==
  ASSUME NEW T, T \subseteq Nat, T # {}
  PROVE  \E x \in T : \A y \in T : x <= y
<1>1. PICK R : R = OpToRel(<, Nat)
  OBVIOUS
<1>2. \A x, y \in Nat : <<x, y>> \in R <=> x < y
  BY <1>1, LessIs
<1>3. IsWellFoundedOn(R, Nat)
  BY <1>1, NatLessThanWellFounded
<1>4. PICK x \in T : \A y \in T : ~(<<y, x>> \in R)
  BY <1>3, WFMin
<1>5. \A y \in T : y \in Nat /\ x \in Nat /\ ~(y < x)
  BY <1>2, <1>4
<1>6. \A y \in T : x <= y
  BY <1>5
<1>7. QED
  BY <1>4, <1>6

\* Induction over Nat, for a set.
LEMMA Induction ==
  ASSUME NEW T, 0 \in T, \A n \in Nat : n \in T => n + 1 \in T
  PROVE  \A n \in Nat : n \in T
<1>1. SUFFICES ASSUME Nat \ T # {} PROVE FALSE
  OBVIOUS
<1>2. PICK x \in Nat \ T : \A y \in Nat \ T : x <= y
  BY <1>1, Least
<1>3. x - 1 \in Nat /\ ~(x <= x - 1) /\ (x - 1) + 1 = x
  BY <1>2
<1>4. x - 1 \in T
  BY <1>2, <1>3
<1>5. QED
  BY <1>2, <1>3, <1>4

\* Induction over Nat from all that is smaller.
LEMMA StrongInduction ==
  ASSUME NEW T, \A n \in Nat : (\A m \in 0 .. n - 1 : m \in T) => n \in T
  PROVE  \A n \in Nat : n \in T
<1>1. SUFFICES ASSUME Nat \ T # {} PROVE FALSE
  OBVIOUS
<1>2. PICK x \in Nat \ T : \A y \in Nat \ T : x <= y
  BY <1>1, Least
<1>3. \A m \in 0 .. x - 1 : m \in Nat /\ ~(x <= m)
  BY <1>2
<1>4. \A m \in 0 .. x - 1 : m \in T
  BY <1>2, <1>3
<1>5. QED
  BY <1>2, <1>4

-----------------------------------------------------------------------------
(* Sequences one after the other *)

\* The function behind FlattenSeq exists.
LEMMA FlattenExists ==
  ASSUME NEW t, NEW n \in Nat
  PROVE  \E f : f = [i \in 1 .. n |-> IF i = 1 THEN t[i] ELSE f[i - 1] \o t[i]]
<1> DEFINE Is(f, m) == f = [i \in 1 .. m |-> IF i = 1 THEN t[i] ELSE f[i - 1] \o t[i]]
<1>1. PICK T : T = {m \in Nat : \E f : Is(f, m)}
  OBVIOUS
<1>2. 0 \in T
  <2>1. Is([i \in 1 .. 0 |-> 0], 0)
    OBVIOUS
  <2>2. QED
    BY <1>1, <2>1
<1>3. ASSUME NEW m \in Nat, m \in T PROVE m + 1 \in T
  <2>1. PICK f : Is(f, m)
    BY <1>1, <1>3
  <2>2. PICK g : g = [i \in 1 .. m + 1 |-> IF i = 1 THEN t[i] ELSE f[i - 1] \o t[i]]
    OBVIOUS
  <2>3. \A i \in 1 .. m : g[i] = f[i]
    <3>1. \A i \in 1 .. m : f[i] = IF i = 1 THEN t[i] ELSE f[i - 1] \o t[i]
      BY <2>1
    <3>2. \A i \in 1 .. m : g[i] = IF i = 1 THEN t[i] ELSE f[i - 1] \o t[i]
      BY <2>2
    <3>3. QED
      BY <3>1, <3>2
  <2>4. \A i \in 1 .. m + 1 : i # 1 => g[i - 1] = f[i - 1]
    BY <2>3
  <2>5. Is(g, m + 1)
    BY <2>2, <2>4
  <2>6. QED
    <3> HIDE DEF Is
    <3>1. m + 1 \in Nat /\ \E h : Is(h, m + 1)
      BY <2>5
    <3>2. QED
      BY <1>1, <3>1
<1>4. n \in T
  BY <1>2, <1>3, Induction
<1>5. QED
  BY <1>1, <1>4

\* Two such functions agree.
LEMMA FlattenUnique ==
  ASSUME NEW t, NEW n \in Nat, NEW f, NEW g,
         \A i \in 1 .. n : f[i] = IF i = 1 THEN t[i] ELSE f[i - 1] \o t[i],
         \A i \in 1 .. n : g[i] = IF i = 1 THEN t[i] ELSE g[i - 1] \o t[i]
  PROVE  \A i \in 1 .. n : f[i] = g[i]
<1>1. PICK T : T = {k \in Nat : k \in 1 .. n => f[k] = g[k]}
  OBVIOUS
<1>2. 0 \in T
  BY <1>1
<1>3. ASSUME NEW k \in Nat, k \in T PROVE k + 1 \in T
  <2>1. SUFFICES ASSUME k + 1 \in 1 .. n PROVE f[k + 1] = g[k + 1]
    BY <1>1
  <2>2. CASE k = 0
    BY <2>1, <2>2
  <2>3. CASE k # 0
    <3>1. k \in 1 .. n /\ (k + 1) - 1 = k /\ k + 1 # 1
      BY <2>1, <2>3
    <3>2. f[k] = g[k]
      BY <1>1, <1>3, <3>1
    <3>3. f[k + 1] = f[k] \o t[k + 1] /\ g[k + 1] = g[k] \o t[k + 1]
      BY <2>1, <3>1
    <3>4. QED
      BY <3>2, <3>3
  <2>4. QED
    BY <2>2, <2>3
<1>4. \A k \in Nat : k \in T
  BY <1>2, <1>3, Induction
<1>5. \A k \in 1 .. n : k \in Nat
  OBVIOUS
<1>6. QED
  BY <1>1, <1>4, <1>5

LEMMA FlattenIs ==
  ASSUME NEW t, NEW n \in Nat, n # 0, Len(t) = n, NEW f,
         \A i \in 1 .. n : f[i] = IF i = 1 THEN t[i] ELSE f[i - 1] \o t[i]
  PROVE  FlattenSeq(t) = f[n]
<1> DEFINE Is(h) == h = [i \in 1 .. Len(t) |-> IF i = 1 THEN t[i] ELSE h[i - 1] \o t[i]]
           flat == CHOOSE h : Is(h)
<1>1. Is(flat)
  <2>1. \E h : Is(h)
    BY FlattenExists
  <2>2. QED
    <3> HIDE DEF Is
    <3>1. QED
      BY <2>1
<1>2. FlattenSeq(t) = flat[n]
  BY DEF FlattenSeq
<1>3. \A i \in 1 .. n : flat[i] = IF i = 1 THEN t[i] ELSE flat[i - 1] \o t[i]
  <2> HIDE DEF flat
  <2>1. QED
    BY <1>1
<1>4. flat[n] = f[n]
  <2> HIDE DEF flat
  <2>1. PICK g : g = flat
    OBVIOUS
  <2>2. \A i \in 1 .. n : g[i] = IF i = 1 THEN t[i] ELSE g[i - 1] \o t[i]
    BY <1>3, <2>1
  <2>3. \A i \in 1 .. n : g[i] = f[i]
    <3>1. \A i \in 1 .. n : f[i] = IF i = 1 THEN t[i] ELSE f[i - 1] \o t[i]
      OBVIOUS
    <3>2. n \in Nat
      OBVIOUS
    <3>3. QED
      BY ONLY <2>2, <3>1, <3>2, FlattenUnique
  <2>4. n \in 1 .. n
    OBVIOUS
  <2>5. QED
    BY <2>1, <2>3, <2>4
<1>5. QED
  BY <1>2, <1>4

\* Flattening one sequence more.
LEMMA FlattenAppend ==
  ASSUME NEW t, NEW u, NEW n \in Nat, Len(t) = n, Len(u) = n + 1,
         \A i \in 1 .. n : u[i] = t[i]
  PROVE  /\ n = 0 => FlattenSeq(u) = u[1]
         /\ n # 0 => FlattenSeq(u) = FlattenSeq(t) \o u[n + 1]
<1>1. PICK f : f = [i \in 1 .. n + 1 |-> IF i = 1 THEN u[i] ELSE f[i - 1] \o u[i]]
  <2>1. n + 1 \in Nat
    OBVIOUS
  <2>2. QED
    BY <2>1, FlattenExists
<1>2. \A i \in 1 .. n + 1 : f[i] = IF i = 1 THEN u[i] ELSE f[i - 1] \o u[i]
  BY <1>1
<1>3. FlattenSeq(u) = f[n + 1]
  <2>1. n + 1 \in Nat /\ n + 1 # 0
    OBVIOUS
  <2>2. QED
    BY <1>2, <2>1, FlattenIs
<1>4. CASE n = 0
  BY <1>2, <1>3, <1>4
<1>5. CASE n # 0
  <2>1. \A i \in 1 .. n : f[i] = IF i = 1 THEN t[i] ELSE f[i - 1] \o t[i]
    BY <1>2
  <2>2. FlattenSeq(t) = f[n]
    BY <1>5, <2>1, FlattenIs
  <2>3. f[n + 1] = f[n] \o u[n + 1]
    <3>1. n + 1 \in 1 .. n + 1 /\ n + 1 # 1 /\ (n + 1) - 1 = n
      BY <1>5
    <3>2. QED
      BY <1>2, <3>1
  <2>4. QED
    BY <1>3, <1>5, <2>2, <2>3
<1>6. QED
  BY <1>4, <1>5

\* Flattening sequences over a set gives a sequence over it.
LEMMA FlattenType ==
  ASSUME NEW S, NEW t, NEW n \in Nat, Len(t) = n, n = 0 => t = <<>>,
         \A i \in 1 .. n : t[i] \in Seq(S)
  PROVE  FlattenSeq(t) \in Seq(S)
<1>1. CASE n = 0
  <2>1. FlattenSeq(t) = t
    BY <1>1 DEF FlattenSeq
  <2>2. QED
    BY <1>1, <2>1
<1>2. CASE n # 0
  <2>1. PICK f : f = [i \in 1 .. n |-> IF i = 1 THEN t[i] ELSE f[i - 1] \o t[i]]
    BY FlattenExists
  <2>2. \A i \in 1 .. n : f[i] = IF i = 1 THEN t[i] ELSE f[i - 1] \o t[i]
    BY <2>1
  <2>3. FlattenSeq(t) = f[n]
    BY <1>2, <2>2, FlattenIs
  <2>4. PICK T : T = {k \in Nat : k \in 1 .. n => f[k] \in Seq(S)}
    OBVIOUS
  <2>5. 0 \in T
    BY <2>4
  <2>6. ASSUME NEW k \in Nat, k \in T PROVE k + 1 \in T
    <3>1. SUFFICES ASSUME k + 1 \in 1 .. n PROVE f[k + 1] \in Seq(S)
      BY <2>4
    <3>2. CASE k = 0
      BY <2>2, <3>1, <3>2
    <3>3. CASE k # 0
      <4>1. k \in 1 .. n /\ (k + 1) - 1 = k /\ k + 1 # 1
        BY <3>1, <3>3
      <4>2. f[k] \in Seq(S) /\ t[k + 1] \in Seq(S)
        BY <2>4, <2>6, <3>1, <4>1
      <4>3. f[k + 1] = f[k] \o t[k + 1]
        BY <2>2, <3>1, <4>1
      <4>4. QED
        BY <4>2, <4>3, ConcatProperties
    <3>4. QED
      BY <3>2, <3>3
  <2>7. n \in T
    BY <2>5, <2>6, Induction
  <2>8. QED
    BY <1>2, <2>3, <2>4, <2>7
<1>3. QED
  BY <1>1, <1>2

-----------------------------------------------------------------------------
(* The digits of a number *)

\* Division by the two bases.
LEMMA Division ==
  \A b \in {10, 16}, v \in Nat :
    /\ v \div b \in Nat /\ v % b \in 0 .. b - 1
    /\ v = b * (v \div b) + (v % b)
    /\ v < b => v \div b = 0 /\ v % b = v
    /\ v >= b => v \div b > 0 /\ v \div b < v
<1>1. ASSUME NEW v \in Nat
      PROVE  /\ v \div 10 \in Nat /\ v % 10 \in 0 .. 9
             /\ v = 10 * (v \div 10) + (v % 10)
             /\ v \div 16 \in Nat /\ v % 16 \in 0 .. 15
             /\ v = 16 * (v \div 16) + (v % 16)
  OBVIOUS
<1>2. ASSUME NEW v \in Nat
      PROVE  /\ v < 10 => v \div 10 = 0 /\ v % 10 = v
             /\ v >= 10 => v \div 10 > 0 /\ v \div 10 < v
             /\ v < 16 => v \div 16 = 0 /\ v % 16 = v
             /\ v >= 16 => v \div 16 > 0 /\ v \div 16 < v
  BY <1>1
<1>3. QED
  BY <1>1, <1>2

\* What Digits says of a function f of the numbers up to v.
DigitsUpTo(f, v, b) ==
  f = [u \in 0 .. v |->
         IF u < b THEN <<Digit(u)>> ELSE Append(f[u \div b], Digit(u % b))]

\* The function behind Digits exists.
LEMMA DigitsExist ==
  ASSUME NEW b \in {10, 16}, NEW v \in Nat
  PROVE  \E f : DigitsUpTo(f, v, b)
<1>1. PICK T : T = {m \in Nat : \E f : DigitsUpTo(f, m, b)}
  OBVIOUS
<1>2. 0 \in T
  <2>1. PICK f : f = [u \in 0 .. 0 |-> <<Digit(u)>>]
    OBVIOUS
  <2>2. DigitsUpTo(f, 0, b)
    <3>1. \A u \in 0 .. 0 : u < b
      OBVIOUS
    <3>2. QED
      BY <2>1, <3>1 DEF DigitsUpTo
  <2>3. QED
    BY <1>1, <2>2
<1>3. ASSUME NEW m \in Nat, m \in T PROVE m + 1 \in T
  <2>1. PICK f : DigitsUpTo(f, m, b)
    BY <1>1, <1>3
  <2>2. PICK g : g = [u \in 0 .. m + 1 |->
                        IF u < b THEN <<Digit(u)>> ELSE Append(f[u \div b], Digit(u % b))]
    OBVIOUS
  <2>3. \A u \in 0 .. m : g[u] = f[u]
    <3>1. \A u \in 0 .. m : f[u] = IF u < b THEN <<Digit(u)>>
                                   ELSE Append(f[u \div b], Digit(u % b))
      BY <2>1 DEF DigitsUpTo
    <3>2. \A u \in 0 .. m : g[u] = IF u < b THEN <<Digit(u)>>
                                   ELSE Append(f[u \div b], Digit(u % b))
      BY <2>2
    <3>3. QED
      BY <3>1, <3>2
  <2>4. \A u \in 0 .. m + 1 : ~(u < b) => g[u \div b] = f[u \div b]
    <3> SUFFICES ASSUME NEW u \in 0 .. m + 1, ~(u < b) PROVE g[u \div b] = f[u \div b]
      OBVIOUS
    <3>1. u \in Nat /\ u >= b
      OBVIOUS
    <3>2. u \div b \in Nat /\ u \div b < u
      BY <3>1, Division
    <3>3. u \div b \in 0 .. m
      BY <3>2
    <3>4. QED
      BY <2>3, <3>3
  <2>5. DigitsUpTo(g, m + 1, b)
    BY <2>2, <2>4 DEF DigitsUpTo
  <2>6. m + 1 \in Nat /\ \E h : DigitsUpTo(h, m + 1, b)
    BY <2>5
  <2>7. QED
    BY <1>1, <2>6
<1>4. v \in T
  BY <1>2, <1>3, Induction
<1>5. QED
  BY <1>1, <1>4

\* Two such functions agree where both are defined.
LEMMA DigitsUnique ==
  ASSUME NEW b \in {10, 16}, NEW v \in Nat, NEW w \in Nat, NEW f, NEW g,
         DigitsUpTo(f, v, b), DigitsUpTo(g, w, b)
  PROVE  \A u \in 0 .. v : u <= w => f[u] = g[u]
<1>1. /\ \A u \in 0 .. v : f[u] = IF u < b THEN <<Digit(u)>>
                                  ELSE Append(f[u \div b], Digit(u % b))
      /\ \A u \in 0 .. w : g[u] = IF u < b THEN <<Digit(u)>>
                                  ELSE Append(g[u \div b], Digit(u % b))
  BY DEF DigitsUpTo
<1>2. PICK T : T = {k \in Nat : k <= v /\ k <= w => f[k] = g[k]}
  OBVIOUS
<1>3. ASSUME NEW k \in Nat, \A m \in 0 .. k - 1 : m \in T PROVE k \in T
  <2>1. SUFFICES ASSUME k <= v, k <= w PROVE f[k] = g[k]
    BY <1>2
  <2>0. k \in 0 .. v /\ k \in 0 .. w
    BY <2>1
  <2>2. CASE k < b
    <3>1. f[k] = <<Digit(k)>>
      BY <1>1, <2>0, <2>2
    <3>2. g[k] = <<Digit(k)>>
      BY <1>1, <2>0, <2>2
    <3>3. QED
      BY <3>1, <3>2
  <2>3. CASE ~(k < b)
    <3>1. k \div b \in Nat /\ k \div b < k
      BY <2>3, Division
    <3>2. k \div b \in 0 .. k - 1 /\ k \div b <= v /\ k \div b <= w
      BY <2>1, <3>1
    <3>3. f[k \div b] = g[k \div b]
      BY <1>2, <1>3, <3>2
    <3>4. f[k] = Append(f[k \div b], Digit(k % b))
      BY <1>1, <2>0, <2>3
    <3>5. g[k] = Append(g[k \div b], Digit(k % b))
      BY <1>1, <2>0, <2>3
    <3>6. QED
      BY <3>3, <3>4, <3>5
  <2>4. QED
    BY <2>2, <2>3
<1>4. \A k \in Nat : k \in T
  BY <1>3, StrongInduction
<1>5. \A u \in 0 .. v : u \in Nat /\ u <= v
  OBVIOUS
<1>6. QED
  BY <1>2, <1>4, <1>5

\* The last digit is the remainder, those before it are the quotient's.
LEMMA DigitsSplit ==
  ASSUME NEW b \in {10, 16}, NEW v \in Nat
  PROVE  Digits(v, b) = IF v < b THEN <<Digit(v)>>
                        ELSE Append(Digits(v \div b, b), Digit(v % b))
<1>1. ASSUME NEW w \in Nat PROVE \E f : DigitsUpTo(f, w, b) /\ Digits(w, b) = f[w]
  <2> DEFINE f == CHOOSE h : DigitsUpTo(h, w, b)
  <2>1. DigitsUpTo(f, w, b)
    BY DigitsExist
  <2>2. Digits(w, b) = f[w]
    BY DEF Digits, DigitsUpTo
  <2>3. QED
    <3> HIDE DEF f
    <3>1. QED
      BY <2>1, <2>2
<1>2. PICK f : DigitsUpTo(f, v, b) /\ Digits(v, b) = f[v]
  BY <1>1
<1>3. f[v] = IF v < b THEN <<Digit(v)>> ELSE Append(f[v \div b], Digit(v % b))
  <2>1. v \in 0 .. v
    OBVIOUS
  <2>2. \A u \in 0 .. v : f[u] = IF u < b THEN <<Digit(u)>>
                                 ELSE Append(f[u \div b], Digit(u % b))
    BY <1>2 DEF DigitsUpTo
  <2>3. QED
    BY <2>1, <2>2
<1>4. CASE ~(v < b)
  <2>1. v \div b \in Nat /\ v \div b < v
    BY <1>4, Division
  <2>2. PICK g : DigitsUpTo(g, v \div b, b) /\ Digits(v \div b, b) = g[v \div b]
    BY <1>1, <2>1
  <2>3. \A u \in 0 .. v \div b : u <= v => g[u] = f[u]
    BY <1>2, <2>1, <2>2, DigitsUnique
  <2>4. g[v \div b] = f[v \div b]
    BY <2>1, <2>3
  <2>5. QED
    BY <1>2, <1>3, <1>4, <2>2, <2>4
<1>5. CASE v < b
  BY <1>2, <1>3, <1>5
<1>6. QED
  BY <1>4, <1>5

\* The characters that logf can send: a digit of the least int is negative.
Output == ({"char"} \X (Chars \cup {"-"})) \cup ({"digit"} \X Int)
          \cup ({"tag"} \X Levels) \cup ({"arg"} \X {"string"})

\* A number has at least one digit.
LEMMA DigitsType ==
  ASSUME NEW b \in {10, 16}, NEW v \in Nat
  PROVE  /\ Digits(v, b) \in Seq(Output)
         /\ Len(Digits(v, b)) >= 1
<1>1. PICK T : T = {n \in Nat : Digits(n, b) \in Seq(Output) /\ Len(Digits(n, b)) >= 1}
  OBVIOUS
<1>2. ASSUME NEW n \in Nat, \A m \in 0 .. n - 1 : m \in T PROVE n \in T
  <2>1. \A d \in Int : Digit(d) \in Output
    BY DEF Output, Digit
  <2>2. CASE n < b
    <3>1. Digits(n, b) = <<Digit(n)>> /\ Digit(n) \in Output
      BY <2>1, <2>2, DigitsSplit
    <3>2. <<Digit(n)>> \in Seq(Output) /\ Len(<<Digit(n)>>) = 1
      BY <3>1
    <3>3. PICK a : a = <<Digit(n)>>
      OBVIOUS
    <3>4. a \in Seq(Output) /\ Len(a) = 1 /\ Digits(n, b) = a
      BY <3>1, <3>2, <3>3
    <3>5. Digits(n, b) \in Seq(Output) /\ Len(Digits(n, b)) >= 1
      BY <3>4
    <3>6. QED
      BY <1>1, <3>5
  <2>3. CASE ~(n < b)
    <3>1. n \div b \in 0 .. n - 1 /\ n % b \in Int
      <4>1. n \div b \in Nat /\ n \div b < n /\ n % b \in 0 .. b - 1
        BY <2>3, Division
      <4>2. QED
        BY <4>1
    <3>2. PICK q : q = Digits(n \div b, b)
      OBVIOUS
    <3>3. PICK d : d = Digit(n % b)
      OBVIOUS
    <3>4. q \in Seq(Output) /\ Len(q) >= 1 /\ d \in Output
      BY <1>1, <1>2, <2>1, <3>1, <3>2, <3>3
    <3>5. Digits(n, b) = Append(q, d)
      BY <2>3, <3>2, <3>3, DigitsSplit
    <3>6. Append(q, d) \in Seq(Output) /\ Len(Append(q, d)) = Len(q) + 1 /\ Len(q) \in Nat
      BY <3>4, AppendProperties, LenProperties
    <3>7. PICK a : a = Append(q, d)
      OBVIOUS
    <3>8. a \in Seq(Output) /\ Len(a) >= 1 /\ Digits(n, b) = a
      BY <3>4, <3>5, <3>6, <3>7
    <3>9. Digits(n, b) \in Seq(Output) /\ Len(Digits(n, b)) >= 1
      BY <3>8
    <3>10. QED
      BY <1>1, <3>9
  <2>4. QED
    BY <2>2, <2>3
<1>3. v \in T
  BY <1>2, StrongInduction
<1>4. QED
  BY <1>1, <1>3

\* One digit more than the quotient.
LEMMA DigitsGrow ==
  ASSUME NEW b \in {10, 16}, NEW v \in Nat, ~(v < b)
  PROVE  Len(Digits(v, b)) = Len(Digits(v \div b, b)) + 1
<1>1. v \div b \in Nat /\ v % b \in Int
  <2>1. v \div b \in Nat /\ v % b \in 0 .. b - 1
    BY Division
  <2>2. QED
    BY <2>1
<1>2. PICK q : q = Digits(v \div b, b)
  OBVIOUS
<1>3. PICK d : d = Digit(v % b)
  OBVIOUS
<1>4. q \in Seq(Output) /\ d \in Output
  BY <1>1, <1>2, <1>3, DigitsType DEF Output, Digit
<1>5. Digits(v, b) = Append(q, d)
  BY <1>2, <1>3, DigitsSplit
<1>6. Len(Append(q, d)) = Len(q) + 1
  BY <1>4, AppendProperties
<1>7. QED
  BY <1>2, <1>5, <1>6

\* No number has more digits, in either base, than a larger one in base 10.
LEMMA DigitsLength ==
  ASSUME NEW b \in {10, 16}, NEW v \in Nat, NEW w \in Nat, v <= w
  PROVE  Len(Digits(v, b)) <= Len(Digits(w, 10))
<1>1. PICK T : T = {n \in Nat : \A m \in 0 .. n : Len(Digits(m, b)) <= Len(Digits(n, 10))}
  OBVIOUS
<1>2. ASSUME NEW n \in Nat, \A m \in 0 .. n - 1 : m \in T PROVE n \in T
  <2> SUFFICES ASSUME NEW m \in 0 .. n PROVE Len(Digits(m, b)) <= Len(Digits(n, 10))
    BY <1>1
  <2>1. m \in Nat
    OBVIOUS
  <2>2. CASE m < b
    <3>1. Len(Digits(m, b)) = 1
      BY <2>1, <2>2, DigitsSplit
    <3>2. Len(Digits(n, 10)) >= 1 /\ Len(Digits(n, 10)) \in Nat
      BY DigitsType, LenProperties
    <3>3. QED
      BY <3>1, <3>2
  <2>3. CASE ~(m < b)
    <3>1. ~(n < 10)
      BY <2>1, <2>3
    <3>2. /\ m = b * (m \div b) + (m % b) /\ m \div b \in Nat /\ m % b \in 0 .. b - 1
          /\ n = 10 * (n \div 10) + (n % 10) /\ n \div 10 \in Nat /\ n % 10 \in 0 .. 9
          /\ n \div 10 < n
      BY <2>1, <3>1, Division
    <3>3. m \div b <= n \div 10
      <4>1. PICK x \in Nat, y \in Nat, r \in 0 .. b - 1, s \in 0 .. 9 :
              /\ x = m \div b /\ y = n \div 10 /\ m = b * x + r /\ n = 10 * y + s
        BY <3>2
      <4>2. b * x >= 10 * x /\ b * x \in Nat
        OBVIOUS
      <4>3. 10 * x <= 10 * y + s
        BY <4>1, <4>2
      <4>4. x <= y
        BY <4>3
      <4>5. QED
        BY <4>1, <4>4
    <3>4. n \div 10 \in 0 .. n - 1 /\ m \div b \in 0 .. n \div 10
      BY <3>2, <3>3
    <3>5. Len(Digits(m \div b, b)) <= Len(Digits(n \div 10, 10))
      BY <1>1, <1>2, <3>4
    <3>6. Len(Digits(m, b)) = Len(Digits(m \div b, b)) + 1
      BY <2>1, <2>3, DigitsGrow
    <3>7. Len(Digits(n, 10)) = Len(Digits(n \div 10, 10)) + 1
      BY <3>1, DigitsGrow
    <3>8. Len(Digits(m \div b, b)) \in Nat /\ Len(Digits(n \div 10, 10)) \in Nat
      BY <3>2, DigitsType, LenProperties
    <3>9. QED
      BY <3>5, <3>6, <3>7, <3>8
  <2>4. QED
    BY <2>2, <2>3
<1>3. w \in T
  BY <1>2, StrongInduction
<1>4. QED
  BY <1>1, <1>3

-----------------------------------------------------------------------------
(* The invariant *)

\* What the format can be split into.
Convs ==
  [conv : {"text"}, text : Seq(Chars)] \cup [conv : {"none"}]
  \cup [conv : {"s"}, arg : {"null", "string"}]
  \cup [conv : {"d"}, value : Int] \cup [conv : {"x", "ld", "lx"}, value : Nat]

LevelTag == IF level \in 1 .. 4 THEN <<Tag(level)>> ELSE <<>>

\* All that the format asked for so far.
Wanted == LevelTag \o All(Printed, spec)

AllPlain == \A k \in 1 .. Len(spec) : Plain(spec[k])

\* In a conversion, what is on the line, the digits of what is left, and the
\* digits in the buffer, last one first, are together what was asked for.
\* Of arg < 0, the least int, nothing is said but that it is not Plain.
LogfInv ==
  /\ TypeOK
  /\ ReadsFormatOnce
  /\ spec \in Seq(Convs) /\ out \in Seq(Output) /\ buffer \in Seq(Output)
  /\ pc = "start" => out = <<>> /\ spec = <<>> /\ buffer = <<>>
  /\ pc \in {"scan", "done"} => (AllPlain => out = Wanted)
  /\ pc = "convert" /\ arg < 0 => buffer = <<>> /\ ~AllPlain
  /\ pc = "convert" /\ arg >= 0 =>
       /\ Len(buffer) + Len(Digits(arg, base)) <= Len(Digits(LongMod - 1, 10))
       /\ AllPlain => out \o (Digits(arg, base) \o Reverse(buffer)) = Wanted
  /\ pc = "print" => (AllPlain => out \o Reverse(buffer) = Wanted)

-----------------------------------------------------------------------------
(* The conversions one after the other *)

\* What a conversion takes of the format.
LEMMA ConsumedType == \A c \in Convs : Consumed(c) \in Seq(Chars)
<1> SUFFICES ASSUME NEW c \in Convs PROVE Consumed(c) \in Seq(Chars)
  OBVIOUS
<1>1. CASE c.conv = "text"
  <2>1. c.text \in Seq(Chars)
    BY <1>1 DEF Convs
  <2>2. QED
    BY <1>1, <2>1 DEF Consumed
<1>2. CASE c.conv = "none"
  BY <1>2 DEF Consumed, Chars
<1>3. CASE c.conv \in {"s", "d", "x"}
  <2>1. Consumed(c) = <<"%", c.conv>> /\ "%" \in Chars /\ c.conv \in Chars
    BY <1>3 DEF Consumed, Chars
  <2>2. PICK x \in Chars, y \in Chars : Consumed(c) = <<x, y>>
    BY <2>1
  <2>3. QED
    BY <2>2
<1>4. CASE c.conv \in {"ld", "lx"}
  <2>1. Consumed(c) = <<"%", "l", "d">> \/ Consumed(c) = <<"%", "l", "x">>
    BY <1>4 DEF Consumed
  <2>2. "%" \in Chars /\ "l" \in Chars /\ "d" \in Chars /\ "x" \in Chars
    BY DEF Chars
  <2>3. <<"%", "l", "d">> \in Seq(Chars) /\ <<"%", "l", "x">> \in Seq(Chars)
    BY <2>2
  <2>4. QED
    BY <2>1, <2>3
<1>5. QED
  BY <1>1, <1>2, <1>3, <1>4 DEF Convs

\* What a conversion puts on the line.
LEMMA PrintedType == \A c \in Convs : Printed(c) \in Seq(Output)
<1> SUFFICES ASSUME NEW c \in Convs PROVE Printed(c) \in Seq(Output)
  OBVIOUS
<1>1. CASE c.conv = "text"
  <2>1. c.text \in Seq(Chars)
    BY <1>1 DEF Convs
  <2>2. PICK n \in Nat : n = Len(c.text) /\ c.text \in [1 .. n -> Chars]
    BY <2>1, LenProperties
  <2>3. [k \in DOMAIN c.text |-> Char(c.text[k])] \in [1 .. n -> Output]
    BY <2>2 DEF Output, Char
  <2>4. Printed(c) = [k \in DOMAIN c.text |-> Char(c.text[k])]
    BY <1>1 DEF Printed
  <2>5. QED
    BY <2>3, <2>4
<1>2. CASE c.conv \in {"none", "s"}
  BY <1>2 DEF Printed, Output, Arg, Convs
<1>3. CASE c.conv = "d"
  <2>1. c.value \in Int /\ Printed(c) = Signed(c.value)
    BY <1>3 DEF Printed, Convs
  <2>2. CASE c.value < 0
    <3>1. -(c.value) \in Nat /\ <<Char("-")>> \in Seq(Output)
      BY <2>1, <2>2 DEF Output, Char
    <3>2. Digits(-(c.value), 10) \in Seq(Output)
      BY <3>1, DigitsType
    <3>3. <<Char("-")>> \o Digits(-(c.value), 10) \in Seq(Output)
      BY <3>1, <3>2, ConcatProperties
    <3>4. QED
      BY <2>1, <2>2, <3>3 DEF Signed
  <2>3. CASE ~(c.value < 0)
    <3>1. c.value \in Nat
      BY <2>1, <2>3
    <3>2. Digits(c.value, 10) \in Seq(Output)
      BY <3>1, DigitsType
    <3>3. QED
      BY <2>1, <2>3, <3>2 DEF Signed
  <2>4. QED
    BY <2>2, <2>3
<1>4. CASE c.conv \in {"x", "ld", "lx"}
  <2>1. c.value \in Nat
    BY <1>4 DEF Convs
  <2>2. Printed(c) = Digits(c.value, 10) \/ Printed(c) = Digits(c.value, 16)
    BY <1>4 DEF Printed
  <2>3. QED
    BY <2>1, <2>2, DigitsType
<1>5. QED
  BY <1>1, <1>2, <1>3, <1>4 DEF Convs

\* One conversion more takes its own characters after the others.
LEMMA ConsumedAppend ==
  ASSUME NEW s \in Seq(Convs), NEW c \in Convs
  PROVE  /\ All(Consumed, s) \in Seq(Chars)
         /\ All(Consumed, Append(s, c)) = All(Consumed, s) \o Consumed(c)
<1>1. PICK n \in Nat : n = Len(s) /\ s \in [1 .. n -> Convs]
  BY LenProperties
<1>2. PICK a : a = Append(s, c)
  OBVIOUS
<1>3. /\ Len(a) = n + 1
      /\ \A k \in 1 .. n : a[k] = s[k]
      /\ a[n + 1] = c
  BY <1>1, <1>2, AppendProperties
<1>4. PICK t : t = [k \in 1 .. n |-> Consumed(s[k])]
  OBVIOUS
<1>5. PICK u : u = [k \in 1 .. n + 1 |-> Consumed(a[k])]
  OBVIOUS
<1>6. /\ Len(t) = n
      /\ n = 0 => t = <<>>
      /\ Len(u) = n + 1
  BY <1>4, <1>5
<1>7. \A k \in 1 .. n : t[k] \in Seq(Chars)
  <2>1. \A k \in 1 .. n : s[k] \in Convs
    BY <1>1
  <2>2. QED
    BY <1>4, <2>1, ConsumedType
<1>8. (\A k \in 1 .. n : u[k] = t[k]) /\ u[n + 1] = Consumed(c)
  BY <1>3, <1>4, <1>5
<1>9. Consumed(c) \in Seq(Chars)
  BY ConsumedType
<1>10. FlattenSeq(t) \in Seq(Chars)
  BY <1>1, <1>6, <1>7, FlattenType
<1>11. FlattenSeq(u) = FlattenSeq(t) \o Consumed(c)
  <2>1. /\ n = 0 => FlattenSeq(u) = u[1]
        /\ n # 0 => FlattenSeq(u) = FlattenSeq(t) \o u[n + 1]
    <3>1. \A i \in 1 .. n : u[i] = t[i]
      BY <1>8
    <3>2. Len(t) = n /\ Len(u) = n + 1 /\ n \in Nat
      BY <1>6
    <3>3. QED
      BY ONLY <3>1, <3>2, FlattenAppend
  <2>2. CASE n = 0
    <3>1. FlattenSeq(t) = <<>>
      BY <1>6, <2>2 DEF FlattenSeq
    <3>2. <<>> \o Consumed(c) = Consumed(c)
      BY <1>9, ConcatEmptySeq
    <3>3. FlattenSeq(u) = Consumed(c)
      BY <1>8, <2>1, <2>2
    <3>4. QED
      BY <3>1, <3>2, <3>3
  <2>3. CASE n # 0
    BY <1>8, <2>1, <2>3
  <2>4. QED
    BY <2>2, <2>3
<1>12. All(Consumed, s) = FlattenSeq(t) /\ All(Consumed, Append(s, c)) = FlattenSeq(u)
  BY <1>1, <1>2, <1>3, <1>4, <1>5 DEF All
<1>13. QED
  BY <1>10, <1>11, <1>12

\* One conversion more prints its own characters after the others.
LEMMA PrintedAppend ==
  ASSUME NEW s \in Seq(Convs), NEW c \in Convs
  PROVE  /\ All(Printed, s) \in Seq(Output)
         /\ All(Printed, Append(s, c)) = All(Printed, s) \o Printed(c)
<1>1. PICK n \in Nat : n = Len(s) /\ s \in [1 .. n -> Convs]
  BY LenProperties
<1>2. PICK a : a = Append(s, c)
  OBVIOUS
<1>3. /\ Len(a) = n + 1
      /\ \A k \in 1 .. n : a[k] = s[k]
      /\ a[n + 1] = c
  BY <1>1, <1>2, AppendProperties
<1>4. PICK t : t = [k \in 1 .. n |-> Printed(s[k])]
  OBVIOUS
<1>5. PICK u : u = [k \in 1 .. n + 1 |-> Printed(a[k])]
  OBVIOUS
<1>6. /\ Len(t) = n
      /\ n = 0 => t = <<>>
      /\ Len(u) = n + 1
  BY <1>4, <1>5
<1>7. \A k \in 1 .. n : t[k] \in Seq(Output)
  <2>1. \A k \in 1 .. n : s[k] \in Convs
    BY <1>1
  <2>2. QED
    BY <1>4, <2>1, PrintedType
<1>8. (\A k \in 1 .. n : u[k] = t[k]) /\ u[n + 1] = Printed(c)
  BY <1>3, <1>4, <1>5
<1>9. Printed(c) \in Seq(Output)
  BY PrintedType
<1>10. FlattenSeq(t) \in Seq(Output)
  BY <1>1, <1>6, <1>7, FlattenType
<1>11. FlattenSeq(u) = FlattenSeq(t) \o Printed(c)
  <2>1. /\ n = 0 => FlattenSeq(u) = u[1]
        /\ n # 0 => FlattenSeq(u) = FlattenSeq(t) \o u[n + 1]
    <3>1. \A i \in 1 .. n : u[i] = t[i]
      BY <1>8
    <3>2. Len(t) = n /\ Len(u) = n + 1 /\ n \in Nat
      BY <1>6
    <3>3. QED
      BY ONLY <3>1, <3>2, FlattenAppend
  <2>2. CASE n = 0
    <3>1. FlattenSeq(t) = <<>>
      BY <1>6, <2>2 DEF FlattenSeq
    <3>2. <<>> \o Printed(c) = Printed(c)
      BY <1>9, ConcatEmptySeq
    <3>3. FlattenSeq(u) = Printed(c)
      BY <1>8, <2>1, <2>2
    <3>4. QED
      BY <3>1, <3>2, <3>3
  <2>3. CASE n # 0
    BY <1>8, <2>1, <2>3
  <2>4. QED
    BY <2>2, <2>3
<1>12. All(Printed, s) = FlattenSeq(t) /\ All(Printed, Append(s, c)) = FlattenSeq(u)
  BY <1>1, <1>2, <1>3, <1>4, <1>5 DEF All
<1>13. QED
  BY <1>10, <1>11, <1>12

-----------------------------------------------------------------------------
(* What one more conversion does to the histories *)

\* Moving on by characters that are there.
LEMMA ReadsAhead ==
  ASSUME format \in Seq(Chars), pos \in 1 .. Len(format) + 1, NEW s \in Seq(Chars), Reads(s)
  PROVE  /\ SubSeq(format, 1, pos - 1) \o s = SubSeq(format, 1, pos + Len(s) - 1)
         /\ pos + Len(s) \in 1 .. Len(format) + 1
<1>1. PICK n \in Nat, l \in Nat, p \in Nat :
        n = Len(s) /\ l = Len(format) /\ p = pos /\ p >= 1 /\ p <= l + 1
  BY LenProperties
<1>2. /\ p + n - 1 <= l
      /\ \A k \in 1 .. n : format[p + k - 1] = s[k]
  BY <1>1 DEF Reads
<1>3. PICK t : t = SubSeq(format, p, p + n - 1)
  OBVIOUS
<1>4. t = s
  <2>1. p \in Int /\ p + n - 1 \in Int
    OBVIOUS
  <2>2. \A k \in p .. p + n - 1 : format[k] \in Chars
    <3>1. \A k \in p .. p + n - 1 : k \in 1 .. Len(format)
      BY <1>1, <1>2
    <3>2. QED
      BY <3>1, ElementOfSeq
  <2>3. /\ t \in Seq(Chars)
        /\ Len(t) = IF p <= p + n - 1 THEN (p + n - 1) - p + 1 ELSE 0
        /\ \A k \in 1 .. (p + n - 1) - p + 1 : t[k] = format[p + k - 1]
    BY <1>3, <2>1, <2>2, SubSeqProperties
  <2>4. Len(t) = n /\ (p + n - 1) - p + 1 = n
    BY <2>3
  <2>5. \A k \in 1 .. n : t[k] = s[k]
    BY <1>2, <2>3, <2>4
  <2>6. QED
    BY <1>1, <2>3, <2>4, <2>5, SeqEqual
<1>5. SubSeq(format, 1, p - 1) \o SubSeq(format, (p - 1) + 1, p + n - 1)
        = SubSeq(format, 1, p + n - 1)
  <2>1. /\ 1 \in 1 .. Len(format) + 1 /\ p - 1 \in 1 - 1 .. Len(format)
        /\ p + n - 1 \in p - 1 .. Len(format)
    BY <1>1, <1>2
  <2>2. QED
    BY <2>1, ConcatAdjacentSubSeq
<1>6. (p - 1) + 1 = p
  OBVIOUS
<1>7. SubSeq(format, 1, p - 1) \o t = SubSeq(format, 1, p + n - 1)
  BY <1>3, <1>5, <1>6
<1>8. QED
  BY <1>1, <1>2, <1>4, <1>7

\* The format is read on by what a conversion consumes.
LEMMA ReadStep ==
  ASSUME ReadsFormatOnce, spec \in Seq(Convs), format \in Seq(Chars),
         pos \in 1 .. Len(format) + 1,
         NEW c \in Convs, Reads(Consumed(c)), spec' = Append(spec, c), format' = format,
         pos' = pos + Len(Consumed(c))
  PROVE  ReadsFormatOnce' /\ pos' \in 1 .. Len(format) + 1 /\ spec' \in Seq(Convs)
<1>1. Consumed(c) \in Seq(Chars)
  BY ConsumedType
<1>2. /\ SubSeq(format, 1, pos - 1) \o Consumed(c) = SubSeq(format, 1, pos' - 1)
      /\ pos' \in 1 .. Len(format) + 1
  BY <1>1, ReadsAhead
<1>3. All(Consumed, Append(spec, c)) = All(Consumed, spec) \o Consumed(c)
  BY ConsumedAppend
<1>4. All(Consumed, spec) = SubSeq(format, 1, pos - 1)
  BY DEF ReadsFormatOnce
<1>5. All(Consumed, spec') = SubSeq(format', 1, pos' - 1)
  BY <1>2, <1>3, <1>4
<1>6. spec' \in Seq(Convs)
  BY AppendProperties
<1>7. QED
  BY <1>2, <1>5, <1>6 DEF ReadsFormatOnce

\* What is wanted are characters that logf can send.
LEMMA WantedType ==
  ASSUME spec \in Seq(Convs), level \in Levels
  PROVE  LevelTag \in Seq(Output) /\ All(Printed, spec) \in Seq(Output) /\ Wanted \in Seq(Output)
<1>1. LevelTag \in Seq(Output)
  <2>1. Tag(level) \in Output
    BY DEF Tag, Output
  <2>2. QED
    BY <2>1 DEF LevelTag
<1>2. All(Printed, spec) \in Seq(Output)
  <2>1. PICK c \in Convs : c = [conv |-> "none"]
    BY DEF Convs
  <2>2. QED
    BY PrintedAppend
<1>3. QED
  BY <1>1, <1>2, ConcatProperties DEF Wanted

\* What a conversion prints comes after what was wanted before.
LEMMA WantedStep ==
  ASSUME spec \in Seq(Convs), level \in Levels, NEW c \in Convs,
         spec' = Append(spec, c), level' = level
  PROVE  /\ Wanted' = Wanted \o Printed(c)
         /\ AllPlain' => AllPlain /\ Plain(c)
<1>1. /\ LevelTag \in Seq(Output) /\ All(Printed, spec) \in Seq(Output)
      /\ Printed(c) \in Seq(Output)
  BY WantedType, PrintedType
<1>2. All(Printed, spec') = All(Printed, spec) \o Printed(c)
  BY PrintedAppend
<1>3. LevelTag' = LevelTag
  BY DEF LevelTag
<1>4. Wanted' = LevelTag \o (All(Printed, spec) \o Printed(c))
  BY <1>2, <1>3 DEF Wanted
<1>5. Wanted' = Wanted \o Printed(c)
  <2>1. PICK x \in Seq(Output), y \in Seq(Output), z \in Seq(Output) :
          x = LevelTag /\ y = All(Printed, spec) /\ z = Printed(c)
    BY <1>1
  <2>2. (x \o y) \o z = x \o (y \o z)
    BY ConcatAssociative
  <2>3. Wanted = x \o y
    BY <2>1 DEF Wanted
  <2>4. QED
    BY <1>4, <2>1, <2>2, <2>3
<1>6. /\ Len(spec') = Len(spec) + 1 /\ Len(spec) \in Nat
      /\ \A k \in 1 .. Len(spec) : spec'[k] = spec[k]
      /\ spec'[Len(spec) + 1] = c
  BY AppendProperties, LenProperties
<1>7. ASSUME AllPlain' PROVE AllPlain /\ Plain(c)
  <2>1. \A k \in 1 .. Len(spec) + 1 : Plain(spec'[k])
    BY <1>6, <1>7 DEF AllPlain, Plain
  <2>2. QED
    BY <1>6, <2>1 DEF AllPlain
<1>8. QED
  BY <1>5, <1>7

-----------------------------------------------------------------------------
(* The steps *)

\* An argument that is not negative is a 64-bit number.
LEMMA ArgRange ==
  /\ \A a \in Int32 \cup Uint32 \cup Uint64 : a \in Int /\ (a >= 0 => a <= LongMod - 1)
  /\ LongMod - 1 \in Nat
  /\ \A a \in 0 .. LongMod - 1 : a \in Int32 \cup Uint32 \cup Uint64
<1>1. IntMod \in Nat /\ LongMod \in Nat /\ IntMod <= LongMod /\ 1 < IntMod
  BY WidthAssumption
<1>2. IntMod \div 2 \in Nat /\ IntMod \div 2 <= IntMod
  BY <1>1
<1>3. QED
  BY <1>1, <1>2 DEF Int32, Uint32, Uint64

\* The types that the steps need.
LEMMA InvTypes ==
  ASSUME LogfInv
  PROVE  /\ format \in Seq(Chars) /\ pos \in 1 .. Len(format) + 1 /\ level \in Levels
         /\ spec \in Seq(Convs) /\ out \in Seq(Output) /\ buffer \in Seq(Output)
         /\ base \in {10, 16} /\ arg \in Int32 \cup Uint32 \cup Uint64
         /\ Len(buffer) \in Nat /\ Len(buffer) <= Len(Digits(LongMod - 1, 10))
         /\ Len(Digits(LongMod - 1, 10)) \in Nat /\ Len(Digits(LongMod - 1, 10)) >= 1
<1>1. Digits(LongMod - 1, 10) \in Seq(Output) /\ Len(Digits(LongMod - 1, 10)) >= 1
  BY ArgRange, DigitsType
<1>2. Len(Digits(LongMod - 1, 10)) \in Nat
  BY <1>1, LenProperties
<1>3. format \in Seq(Chars)
  BY FormatAssumption DEF LogfInv, TypeOK
<1>4. Len(buffer) \in Nat
  BY LenProperties DEF LogfInv
<1>5. QED
  BY <1>1, <1>2, <1>3, <1>4 DEF LogfInv, TypeOK

\* A turn that sends what its conversion prints keeps the invariant.
LEMMA SendStep ==
  ASSUME LogfInv, pc = "scan", NEW c \in Convs, Reads(Consumed(c)), spec' = Append(spec, c),
         out' = out \o Printed(c), pos' = pos + Len(Consumed(c)),
         UNCHANGED <<pc, level, format, base, arg, buffer>>
  PROVE  LogfInv'
<1>1. /\ format \in Seq(Chars) /\ pos \in 1 .. Len(format) + 1 /\ level \in Levels
      /\ spec \in Seq(Convs) /\ out \in Seq(Output)
  BY InvTypes
<1>2. ReadsFormatOnce
  BY DEF LogfInv
<1>3. ReadsFormatOnce' /\ pos' \in 1 .. Len(format) + 1 /\ spec' \in Seq(Convs)
  BY <1>1, <1>2, ReadStep
<1>4. Wanted' = Wanted \o Printed(c) /\ (AllPlain' => AllPlain /\ Plain(c))
  BY <1>1, WantedStep
<1>5. out' \in Seq(Output)
  BY <1>1, PrintedType, ConcatProperties
<1>6. AllPlain' => out' = Wanted'
  BY <1>4 DEF LogfInv
<1>7. TypeOK'
  BY <1>3 DEF LogfInv, TypeOK
<1>8. QED
  BY <1>3, <1>5, <1>6, <1>7 DEF LogfInv

\* So does one that leaves its digits to the two loops.
LEMMA NumberStep ==
  ASSUME LogfInv, pc = "scan", pc' = "convert", NEW c \in Convs, Reads(Consumed(c)),
         spec' = Append(spec, c), pos' = pos + Len(Consumed(c)), UNCHANGED <<level, format>>,
         buffer' = <<>>, base' \in {10, 16}, NEW sign \in Seq(Output), out' = out \o sign,
         \/ /\ arg' \in 0 .. LongMod - 1
            /\ Plain(c) => Printed(c) = sign \o Digits(arg', base')
         \/ arg' \in Int32 /\ arg' < 0 /\ ~Plain(c)
  PROVE  LogfInv'
<1>1. /\ format \in Seq(Chars) /\ pos \in 1 .. Len(format) + 1 /\ level \in Levels
      /\ spec \in Seq(Convs) /\ out \in Seq(Output)
      /\ Len(Digits(LongMod - 1, 10)) \in Nat
  BY InvTypes
<1>2. ReadsFormatOnce /\ (AllPlain => out = Wanted)
  BY DEF LogfInv
<1>3. ReadsFormatOnce' /\ pos' \in 1 .. Len(format) + 1 /\ spec' \in Seq(Convs)
  BY <1>1, <1>2, ReadStep
<1>4. Wanted' = Wanted \o Printed(c) /\ (AllPlain' => AllPlain /\ Plain(c))
  BY <1>1, WantedStep
<1>5. out' \in Seq(Output)
  BY <1>1, ConcatProperties
<1>6. arg' \in Int32 \cup Uint32 \cup Uint64 /\ arg' \in Int
  BY ArgRange
<1>7. buffer' \in Seq(Output) /\ Len(buffer') = 0 /\ Reverse(buffer') = <<>>
  BY DEF Reverse
<1>8. TypeOK'
  BY <1>1, <1>3, <1>6, <1>7 DEF LogfInv, TypeOK
<1>9. arg' < 0 => ~AllPlain'
  BY <1>4, <1>6
<1>10. ASSUME arg' >= 0
       PROVE  /\ Len(buffer') + Len(Digits(arg', base')) <= Len(Digits(LongMod - 1, 10))
              /\ AllPlain' => out' \o (Digits(arg', base') \o Reverse(buffer')) = Wanted'
  <2>1. PICK a \in Nat, b \in {10, 16} : a = arg' /\ b = base' /\ a <= LongMod - 1
    BY <1>6, <1>10
  <2>2. PICK d \in Seq(Output) : d = Digits(a, b)
    BY DigitsType
  <2>3. Len(d) <= Len(Digits(LongMod - 1, 10)) /\ Len(d) \in Nat
    BY <2>1, <2>2, ArgRange, DigitsLength, LenProperties
  <2>4. d \o <<>> = d
    BY ConcatEmptySeq
  <2>5. ASSUME AllPlain' PROVE out' \o d = Wanted'
    <3>1. Printed(c) = sign \o d
      BY <1>4, <1>6, <1>10, <2>1, <2>2, <2>5
    <3>2. Wanted' = out \o (sign \o d)
      BY <1>2, <1>4, <2>5, <3>1
    <3>3. (out \o sign) \o d = out \o (sign \o d)
      <4>1. PICK x, y, z : /\ x = out /\ y = sign /\ z = d
                           /\ x \in Seq(Output) /\ y \in Seq(Output) /\ z \in Seq(Output)
        BY <1>1
      <4>2. (x \o y) \o z = x \o (y \o z)
        BY ONLY <4>1, ConcatAssociative
      <4>3. QED
        BY <4>1, <4>2
    <3>4. QED
      BY <3>2, <3>3
  <2>6. QED
    BY <1>7, <2>1, <2>2, <2>3, <2>4, <2>5
<1>11. QED
  BY <1>3, <1>5, <1>7, <1>8, <1>9, <1>10 DEF LogfInv

\* The last character of a buffer comes first.
LEMMA ReverseAppend ==
  ASSUME NEW S, NEW s \in Seq(S), NEW d \in S
  PROVE  /\ Reverse(s) \in Seq(S)
         /\ Reverse(Append(s, d)) = <<d>> \o Reverse(s)
<1>1. PICK n \in Nat : n = Len(s) /\ s \in [1 .. n -> S]
  BY LenProperties
<1>2. PICK a : a = Append(s, d)
  OBVIOUS
<1>3. /\ Len(a) = n + 1
      /\ \A k \in 1 .. n : a[k] = s[k]
      /\ a[n + 1] = d
  BY <1>1, <1>2, AppendProperties
<1>4. PICK r : r = Reverse(s)
  OBVIOUS
<1>5. r = [k \in 1 .. n |-> s[(n - k) + 1]]
  BY <1>1, <1>4 DEF Reverse
<1>6. r \in Seq(S) /\ Len(r) = n
  <2>1. \A k \in 1 .. n : (n - k) + 1 \in 1 .. n
    OBVIOUS
  <2>2. r \in [1 .. n -> S]
    BY <1>1, <1>5, <2>1
  <2>3. QED
    BY <2>2
<1>7. PICK q : q = Reverse(a)
  OBVIOUS
<1>8. q = [k \in 1 .. n + 1 |-> a[((n + 1) - k) + 1]]
  BY <1>3, <1>7 DEF Reverse
<1>9. \A k \in 1 .. n + 1 : q[k] = IF k = 1 THEN d ELSE r[k - 1]
  <2> SUFFICES ASSUME NEW k \in 1 .. n + 1 PROVE q[k] = IF k = 1 THEN d ELSE r[k - 1]
    OBVIOUS
  <2>1. q[k] = a[((n + 1) - k) + 1]
    BY <1>8
  <2>2. CASE k = 1
    <3>1. ((n + 1) - k) + 1 = n + 1
      BY <2>2
    <3>2. QED
      BY <1>3, <2>1, <2>2, <3>1
  <2>3. CASE k # 1
    <3>1. k - 1 \in 1 .. n /\ ((n + 1) - k) + 1 \in 1 .. n
      BY <2>3
    <3>2. ((n + 1) - k) + 1 = (n - (k - 1)) + 1
      OBVIOUS
    <3>3. r[k - 1] = s[(n - (k - 1)) + 1]
      BY <1>5, <3>1
    <3>4. a[((n + 1) - k) + 1] = s[((n + 1) - k) + 1]
      BY <1>3, <3>1
    <3>5. QED
      BY <2>1, <2>3, <3>2, <3>3, <3>4
  <2>4. QED
    BY <2>2, <2>3
<1>10. q \in Seq(S) /\ Len(q) = n + 1
  <2>1. \A k \in 1 .. n + 1 : k # 1 => k - 1 \in 1 .. n
    OBVIOUS
  <2>2. \A k \in 1 .. n : r[k] \in S
    BY <1>6, ElementOfSeq
  <2>3. \A k \in 1 .. n + 1 : q[k] \in S
    BY <1>9, <2>1, <2>2
  <2>4. q \in [1 .. n + 1 -> S]
    BY <1>8, <2>3
  <2>5. n + 1 \in Nat
    OBVIOUS
  <2>6. QED
    BY <1>8, <2>4, <2>5
<1>11. PICK t : t = <<d>> \o r
  OBVIOUS
<1>12. /\ t \in Seq(S) /\ Len(t) = n + 1
       /\ \A k \in 1 .. n + 1 : t[k] = IF k = 1 THEN d ELSE r[k - 1]
  <2>1. PICK o \in Seq(S) : o = <<d>> /\ Len(o) = 1 /\ o[1] = d
    <3>1. <<d>> \in Seq(S)
      OBVIOUS
    <3>2. Len(<<d>>) = 1
      OBVIOUS
    <3>3. <<d>>[1] = d
      OBVIOUS
    <3>4. PICK o : o = <<d>>
      OBVIOUS
    <3>5. o \in Seq(S) /\ Len(o) = 1 /\ o[1] = d
      BY <3>1, <3>2, <3>3, <3>4
    <3>6. QED
      BY <3>4, <3>5
  <2>2. /\ o \o r \in Seq(S)
        /\ Len(o \o r) = Len(o) + Len(r)
        /\ \A i \in 1 .. Len(o) + Len(r) :
             (o \o r)[i] = IF i <= Len(o) THEN o[i] ELSE r[i - Len(o)]
    BY <1>6, ConcatProperties
  <2>3. Len(o) + Len(r) = n + 1
    BY <1>6, <2>1
  <2>4. \A k \in 1 .. n + 1 : t[k] = IF k <= 1 THEN o[k] ELSE r[k - 1]
    BY <1>11, <2>1, <2>2, <2>3
  <2>5. \A k \in 1 .. n + 1 : t[k] = IF k = 1 THEN d ELSE r[k - 1]
    BY <2>1, <2>4
  <2>6. QED
    BY <1>11, <2>1, <2>2, <2>3, <2>5
<1>13. q = t
  <2>1. Len(q) = Len(t) /\ \A k \in 1 .. Len(q) : q[k] = t[k]
    BY <1>9, <1>10, <1>12
  <2>2. QED
    BY <1>10, <1>12, <2>1, SeqEqual
<1>14. QED
  BY <1>2, <1>4, <1>6, <1>7, <1>11, <1>13

\* A digit moves from arg into the buffer.
LEMMA DigitConverted ==
  ASSUME LogfInv, ConvertDigit
  PROVE  LogfInv'
<1>1. /\ pc = "convert" /\ arg' = Quotient(arg, base)
      /\ buffer' = Append(buffer, Digit(Remainder(arg, base)))
      /\ pc' = IF arg' > 0 THEN "convert" ELSE "print"
      /\ UNCHANGED <<level, format, pos, base, out, spec>>
  BY DEF ConvertDigit, More
<1>2. /\ level \in Levels /\ spec \in Seq(Convs) /\ out \in Seq(Output) /\ buffer \in Seq(Output)
      /\ base \in {10, 16} /\ arg \in Int32 \cup Uint32 \cup Uint64
      /\ Len(buffer) \in Nat /\ Len(buffer) <= Len(Digits(LongMod - 1, 10))
      /\ Len(Digits(LongMod - 1, 10)) \in Nat /\ Len(Digits(LongMod - 1, 10)) >= 1
  BY InvTypes
<1>3. Wanted' = Wanted /\ AllPlain' = AllPlain
  BY <1>1 DEF Wanted, LevelTag, AllPlain, Plain
<1>4. ReadsFormatOnce'
  BY <1>1 DEF LogfInv, ReadsFormatOnce
<1>5. CASE arg < 0
  <2>1. PICK a \in Int : a = arg /\ a < 0
    BY <1>2, <1>5, ArgRange
  <2>2. PICK m \in Nat : m = -a
    BY <2>1
  <2>3. m \div base \in Nat /\ m \div base <= m
    BY <1>2, Division
  <2>4. Quotient(arg, base) = -(m \div base)
    BY <2>1, <2>2 DEF Quotient
  <2>5. PICK q \in Nat : q = m \div base /\ q <= m /\ Quotient(arg, base) = -q
    BY <2>3, <2>4
  <2>6. -q \in Int32 \cup Uint32 \cup Uint64
    <3>1. arg \in Int32 /\ IntMod \div 2 \in Int
      BY <1>2, <1>5, WidthAssumption DEF Uint32, Uint64
    <3>2. a \in -(IntMod \div 2) .. IntMod \div 2 - 1
      BY <2>1, <3>1 DEF Int32
    <3>3. -q \in -(IntMod \div 2) .. IntMod \div 2 - 1
      BY <2>1, <2>2, <2>5, <3>1, <3>2
    <3>4. QED
      BY <3>3 DEF Int32
  <2>7. pc' = "print" /\ arg' \in Int32 \cup Uint32 \cup Uint64
    BY <1>1, <2>5, <2>6
  <2>8. Remainder(arg, base) \in Int
    BY <1>2, <2>1, <2>5 DEF Remainder
  <2>9. buffer = <<>> /\ ~AllPlain
    BY <1>1, <1>5 DEF LogfInv
  <2>10. PICK d \in Output : d = Digit(Remainder(arg, base))
    BY <2>8 DEF Output, Digit
  <2>11. buffer' \in Seq(Output) /\ Len(buffer') = 1
    BY <1>1, <1>2, <2>9, <2>10, AppendProperties
  <2>12. TypeOK'
    BY <1>1, <1>2, <2>7, <2>11 DEF LogfInv, TypeOK
  <2>13. QED
    BY <1>1, <1>2, <1>3, <1>4, <2>7, <2>9, <2>11, <2>12 DEF LogfInv
<1>6. CASE arg >= 0
  <2>1. PICK a \in Nat, b \in {10, 16} : a = arg /\ b = base /\ a <= LongMod - 1
    BY <1>2, <1>6, ArgRange
  <2>2. /\ a \div b \in Nat /\ a % b \in 0 .. b - 1
        /\ a = b * (a \div b) + (a % b)
        /\ a < b => a \div b = 0 /\ a % b = a
        /\ a >= b => a \div b > 0 /\ a \div b < a
    BY Division
  <2>3. arg' = a \div b
    BY <1>1, <2>1 DEF Quotient
  <2>4. Remainder(arg, base) = a % b
    <3>1. Quotient(arg, base) = a \div b
      BY <1>1, <2>3
    <3>2. Remainder(arg, base) = a - b * (a \div b)
      BY <2>1, <3>1 DEF Remainder
    <3>3. b * (a \div b) \in Int
      BY <2>2
    <3>4. QED
      BY <2>2, <3>2, <3>3
  <2>5. arg' \in Int32 \cup Uint32 \cup Uint64
    <3>1. a \div b <= a /\ LongMod - 1 \in Nat
      BY <2>2, ArgRange
    <3>2. a \div b \in 0 .. LongMod - 1
      BY <2>1, <2>2, <3>1
    <3>3. QED
      BY <2>3, <3>2, ArgRange
  <2>6. PICK d \in Output : d = Digit(a % b)
    <3>1. a % b \in Int
      BY <2>2
    <3>2. QED
      BY <3>1 DEF Output, Digit
  <2>7. /\ buffer' = Append(buffer, d) /\ buffer' \in Seq(Output)
        /\ Len(buffer') = Len(buffer) + 1
    BY <1>1, <1>2, <2>4, <2>6, AppendProperties
  <2>8. PICK r \in Seq(Output), o \in Seq(Output), z \in Seq(Output) :
          /\ r = Reverse(buffer) /\ o = out /\ z = <<d>>
          /\ Reverse(buffer') = z \o r
    <3>1. Reverse(buffer) \in Seq(Output) /\ Reverse(buffer') = <<d>> \o Reverse(buffer)
      BY <1>2, <2>7, ReverseAppend
    <3>2. <<d>> \in Seq(Output)
      OBVIOUS
    <3>3. QED
      BY <1>2, <3>1, <3>2
  <2>9. PICK t \in Seq(Output) : t = Digits(a, b)
    BY DigitsType
  <2>10. /\ Len(buffer) + Len(t) <= Len(Digits(LongMod - 1, 10))
         /\ AllPlain => o \o (t \o r) = Wanted
    BY <1>1, <1>6, <2>1, <2>8, <2>9 DEF LogfInv
  <2>11. CASE a < b
    <3>1. pc' = "print"
      BY <1>1, <2>2, <2>3, <2>11
    <3>2. t = z /\ Len(t) = 1
      <4>1. t = <<Digit(a)>>
        BY <2>9, <2>11, DigitsSplit
      <4>2. d = Digit(a)
        BY <2>2, <2>6, <2>11
      <4>3. t = z
        BY <2>8, <4>1, <4>2
      <4>4. Len(z) = 1
        BY <2>8
      <4>5. QED
        BY <4>3, <4>4
    <3>3. Len(buffer') <= Len(Digits(LongMod - 1, 10))
      BY <1>2, <2>7, <2>10, <3>2
    <3>4. TypeOK'
      BY <1>1, <1>2, <2>5, <3>1, <3>3 DEF LogfInv, TypeOK
    <3>5. AllPlain' => out' \o Reverse(buffer') = Wanted'
      BY <1>1, <1>3, <2>8, <2>10, <3>2
    <3>6. QED
      BY <1>1, <1>2, <1>4, <2>7, <3>1, <3>4, <3>5 DEF LogfInv
  <2>12. CASE a >= b
    <3>1. pc' = "convert" /\ arg' > 0
      BY <1>1, <2>2, <2>3, <2>12
    <3>2. ~(a < b)
      BY <2>12
    <3>3. PICK q \in Seq(Output) : q = Digits(a \div b, b) /\ q = Digits(arg', base')
      BY <1>1, <2>1, <2>2, <2>3, DigitsType
    <3>4. t = Append(q, d) /\ Len(t) = Len(q) + 1 /\ Len(q) \in Nat
      <4>1. t = Append(q, d)
        BY <2>6, <2>9, <3>2, <3>3, DigitsSplit
      <4>2. Len(Append(q, d)) = Len(q) + 1 /\ Len(q) \in Nat
        BY AppendProperties, LenProperties
      <4>3. QED
        BY <4>1, <4>2
    <3>5. Len(buffer') + Len(Digits(arg', base')) <= Len(Digits(LongMod - 1, 10))
      BY <1>2, <2>7, <2>10, <3>3, <3>4
    <3>6. Len(buffer') <= Len(Digits(LongMod - 1, 10))
      BY <1>2, <2>7, <3>3, <3>4, <3>5
    <3>7. TypeOK'
      BY <1>1, <1>2, <2>5, <3>1, <3>6 DEF LogfInv, TypeOK
    <3>8. t = q \o z
      BY <2>8, <3>4, AppendIsConcat
    <3>9. (q \o z) \o r = q \o (z \o r)
      BY ConcatAssociative
    <3>10. AllPlain' => out' \o (Digits(arg', base') \o Reverse(buffer')) = Wanted'
      BY <1>1, <1>3, <2>8, <2>10, <3>3, <3>8, <3>9
    <3>11. ~(arg' < 0)
      BY <2>2, <2>3
    <3>12. QED
      BY <1>1, <1>2, <1>4, <2>7, <3>1, <3>5, <3>7, <3>10, <3>11 DEF LogfInv
  <2>13. QED
    BY <2>1, <2>11, <2>12
<1>7. QED
  BY <1>2, <1>5, <1>6, ArgRange

\* A digit moves from the buffer to the line.
LEMMA DigitPrinted ==
  ASSUME LogfInv, PrintDigit
  PROVE  LogfInv'
<1>1. /\ pc = "print" /\ buffer # <<>>
      /\ out' = Append(out, buffer[Len(buffer)])
      /\ buffer' = SubSeq(buffer, 1, Len(buffer) - 1)
      /\ UNCHANGED <<pc, level, format, pos, base, arg, spec>>
  BY DEF PrintDigit
<1>2. /\ level \in Levels /\ spec \in Seq(Convs) /\ out \in Seq(Output) /\ buffer \in Seq(Output)
      /\ Len(buffer) \in Nat /\ Len(buffer) <= Len(Digits(LongMod - 1, 10))
      /\ Len(Digits(LongMod - 1, 10)) \in Nat
  BY InvTypes
<1>3. PICK s \in Seq(Output), d \in Output : buffer = Append(s, d)
  BY <1>1, <1>2, SequenceEmptyOrAppend
<1>4. PICK n \in Nat : n = Len(s)
  BY LenProperties
<1>5. /\ Len(buffer) = n + 1
      /\ \A k \in 1 .. n : buffer[k] = s[k]
      /\ buffer[n + 1] = d
  BY <1>3, <1>4, AppendProperties
<1>6. out' = Append(out, d) /\ buffer' = SubSeq(buffer, 1, n)
  BY <1>1, <1>5
<1>7. buffer' = s
  <2>1. PICK t : t = SubSeq(buffer, 1, n)
    OBVIOUS
  <2>2. \A k \in 1 .. n : buffer[k] \in Output
    BY <1>4, <1>5, ElementOfSeq
  <2>3. /\ t \in Seq(Output) /\ Len(t) = IF 1 <= n THEN n - 1 + 1 ELSE 0
        /\ \A k \in 1 .. n - 1 + 1 : t[k] = buffer[1 + k - 1]
    BY <2>1, <2>2, SubSeqProperties
  <2>4. Len(t) = n /\ \A k \in 1 .. n : t[k] = s[k]
    BY <1>5, <2>3
  <2>5. t = s
    BY <1>4, <2>3, <2>4, SeqEqual
  <2>6. QED
    BY <1>6, <2>1, <2>5
<1>8. PICK r, o, z :
        /\ r = Reverse(s) /\ o = out /\ z = <<d>> /\ Reverse(buffer) = z \o r
        /\ r \in Seq(Output) /\ o \in Seq(Output) /\ z \in Seq(Output)
  <2>1. Reverse(s) \in Seq(Output) /\ Reverse(buffer) = <<d>> \o Reverse(s)
    BY <1>3, ReverseAppend
  <2>2. <<d>> \in Seq(Output)
    OBVIOUS
  <2>3. QED
    BY <1>2, <2>1, <2>2
<1>9. out' = o \o z /\ out' \in Seq(Output)
  BY <1>2, <1>6, <1>8, AppendIsConcat, AppendProperties
<1>10. (o \o z) \o r = o \o (z \o r)
  BY ONLY <1>8, ConcatAssociative
<1>11. Wanted' = Wanted /\ AllPlain' = AllPlain
  BY <1>1 DEF Wanted, LevelTag, AllPlain, Plain
<1>12. AllPlain => out \o Reverse(buffer) = Wanted
  BY <1>1 DEF LogfInv
<1>13. AllPlain' => out' \o Reverse(buffer') = Wanted'
  BY <1>7, <1>8, <1>9, <1>10, <1>11, <1>12
<1>14. Len(buffer') <= Len(Digits(LongMod - 1, 10))
  BY <1>2, <1>4, <1>5, <1>7
<1>15. TypeOK'
  BY <1>1, <1>14 DEF LogfInv, TypeOK
<1>16. ReadsFormatOnce'
  BY <1>1 DEF LogfInv, ReadsFormatOnce
<1>17. QED
  BY <1>1, <1>2, <1>7, <1>9, <1>13, <1>15, <1>16 DEF LogfInv

\* Steps that send and read nothing.
LEMMA Quiet ==
  ASSUME LogfInv, EndNumber \/ End \/ UNCHANGED vars
  PROVE  LogfInv'
<1>1. UNCHANGED <<level, format, pos, base, arg, buffer, out, spec>>
  BY DEF EndNumber, End, vars
<1>2. Wanted' = Wanted /\ AllPlain' = AllPlain /\ ReadsFormatOnce' = ReadsFormatOnce
  BY <1>1 DEF Wanted, LevelTag, AllPlain, Plain, ReadsFormatOnce
<1>3. CASE EndNumber
  <2>1. pc = "print" /\ buffer = <<>> /\ pc' = "scan" /\ Reverse(buffer) = <<>>
    BY <1>3 DEF EndNumber, Reverse
  <2>2. out \o <<>> = out
    BY InvTypes, ConcatEmptySeq
  <2>3. AllPlain => out = Wanted
    BY <2>1, <2>2 DEF LogfInv
  <2>4. TypeOK'
    BY <1>1, <2>1 DEF LogfInv, TypeOK
  <2>5. QED
    BY <1>1, <1>2, <2>1, <2>3, <2>4 DEF LogfInv
<1>4. CASE End
  <2>1. pc = "scan" /\ pc' = "done"
    BY <1>4 DEF End
  <2>2. TypeOK'
    BY <1>1, <2>1 DEF LogfInv, TypeOK
  <2>3. QED
    BY <1>1, <1>2, <2>1, <2>2 DEF LogfInv
<1>5. CASE UNCHANGED vars
  <2>1. pc' = pc
    BY <1>5 DEF vars
  <2>2. TypeOK'
    BY <1>1, <2>1 DEF LogfInv, TypeOK
  <2>3. QED
    BY <1>1, <1>2, <2>1, <2>2 DEF LogfInv
<1>6. QED
  BY <1>3, <1>4, <1>5

\* Nothing was asked for yet.
LEMMA AllNothing ==
  spec = <<>> => All(Printed, spec) = <<>> /\ All(Consumed, spec) = <<>>
<1> SUFFICES ASSUME spec = <<>> PROVE All(Printed, spec) = <<>> /\ All(Consumed, spec) = <<>>
  OBVIOUS
<1>1. Len(spec) = 0
  OBVIOUS
<1>2. /\ [k \in 1 .. Len(spec) |-> Printed(spec[k])] = <<>>
      /\ [k \in 1 .. Len(spec) |-> Consumed(spec[k])] = <<>>
  BY <1>1
<1>3. FlattenSeq(<<>>) = <<>>
  BY DEF FlattenSeq
<1>4. QED
  BY <1>2, <1>3 DEF All

\* logf is entered with the invariant.
LEMMA InitInv == Init => LogfInv
<1> SUFFICES ASSUME Init PROVE LogfInv
  OBVIOUS
<1>1. /\ pc = "start" /\ level \in Levels /\ format \in Formats
      /\ pos = 1 /\ base = 10 /\ arg = 0 /\ buffer = <<>> /\ out = <<>> /\ spec = <<>>
  BY DEF Init
<1>2. Len(Digits(LongMod - 1, 10)) >= 1 /\ Len(Digits(LongMod - 1, 10)) \in Nat
  BY ArgRange, DigitsType, LenProperties
<1>3. arg \in Int32 \cup Uint32 \cup Uint64
  BY <1>1, WidthAssumption DEF Uint64
<1>4. format \in Seq(Chars) /\ Len(format) \in Nat
  BY <1>1, FormatAssumption, LenProperties
<1>5. pos \in 1 .. Len(format) + 1 /\ Len(buffer) = 0
  BY <1>1, <1>4
<1>6. TypeOK
  BY <1>1, <1>2, <1>3, <1>5 DEF TypeOK
<1>7. ReadsFormatOnce
  <2>1. SubSeq(format, 1, 0) = <<>>
    BY SubSeqEmpty
  <2>2. QED
    <3>1. pos - 1 = 0 /\ All(Consumed, spec) = <<>>
      BY <1>1, AllNothing
    <3>2. QED
      BY <2>1, <3>1 DEF ReadsFormatOnce
<1>8. spec \in Seq(Convs) /\ out \in Seq(Output) /\ buffer \in Seq(Output)
  BY <1>1
<1>9. QED
  BY <1>1, <1>6, <1>7, <1>8 DEF LogfInv

\* The tag of the level.
LEMMA PrefixStep ==
  ASSUME LogfInv, Prefix
  PROVE  LogfInv'
<1>1. /\ pc = "start" /\ pc' = "scan" /\ out' = LevelTag
      /\ UNCHANGED <<level, format, pos, base, arg, buffer, spec>>
  BY DEF Prefix, LevelTag
<1>2. level \in Levels /\ spec \in Seq(Convs) /\ buffer \in Seq(Output) /\ spec = <<>>
  BY <1>1, InvTypes DEF LogfInv
<1>3. LevelTag \in Seq(Output)
  BY <1>2, WantedType
<1>4. Wanted' = LevelTag
  <2>1. Wanted' = LevelTag \o All(Printed, spec)
    BY <1>1 DEF Wanted, LevelTag
  <2>2. All(Printed, spec) = <<>>
    BY <1>2, AllNothing
  <2>3. LevelTag \o <<>> = LevelTag
    BY <1>3, ConcatEmptySeq
  <2>4. QED
    BY <2>1, <2>2, <2>3
<1>5. TypeOK' /\ ReadsFormatOnce'
  BY <1>1 DEF LogfInv, TypeOK, ReadsFormatOnce
<1>6. QED
  BY <1>1, <1>2, <1>3, <1>4, <1>5 DEF LogfInv

-----------------------------------------------------------------------------
(* One turn of the loop over the format *)

\* Text of one, two and three characters.
LEMMA TextPrinted ==
  /\ \A x \in Chars : LET t == <<x>>
                      IN  [k \in DOMAIN t |-> Char(t[k])] = <<Char(x)>>
  /\ \A x, y \in Chars : LET t == <<x, y>>
                         IN  [k \in DOMAIN t |-> Char(t[k])] = <<Char(x), Char(y)>>
  /\ \A x, y, z \in Chars : LET t == <<x, y, z>>
                            IN  [k \in DOMAIN t |-> Char(t[k])] = <<Char(x), Char(y), Char(z)>>
<1>1. ASSUME NEW x \in Chars PROVE [k \in DOMAIN <<x>> |-> Char(<<x>>[k])] = <<Char(x)>>
  OBVIOUS
<1>2. ASSUME NEW x \in Chars, NEW y \in Chars
      PROVE  [k \in DOMAIN <<x, y>> |-> Char(<<x, y>>[k])] = <<Char(x), Char(y)>>
  OBVIOUS
<1>3. ASSUME NEW x \in Chars, NEW y \in Chars, NEW z \in Chars
      PROVE  [k \in DOMAIN <<x, y, z>> |-> Char(<<x, y, z>>[k])]
               = <<Char(x), Char(y), Char(z)>>
  OBVIOUS
<1>4. QED
  BY <1>1, <1>2, <1>3

\* Text is printed as it is.
LEMMA TextStep ==
  ASSUME LogfInv, pc = "scan", NEW t \in Seq(Chars), Reads(t),
         NEW s, s = [k \in DOMAIN t |-> Char(t[k])], Send(s, Len(t)),
         spec' = Append(spec, [conv |-> "text", text |-> t])
  PROVE  LogfInv'
<1>1. PICK c \in Convs : c = [conv |-> "text", text |-> t]
  BY DEF Convs
<1>2. Consumed(c) = t /\ Printed(c) = s
  BY <1>1 DEF Consumed, Printed
<1>3. QED
  BY <1>1, <1>2, SendStep DEF Send

\* A character of the format.
LEMMA OrdinaryStep ==
  ASSUME LogfInv, Ordinary
  PROVE  LogfInv'
<1>1. /\ pc = "scan" /\ pos <= Len(format) /\ Send(<<Char(format[pos])>>, 1)
      /\ spec' = Append(spec, [conv |-> "text", text |-> <<format[pos]>>])
  BY DEF Ordinary
<1>2. /\ format \in Seq(Chars) /\ pos \in 1 .. Len(format) + 1 /\ Len(format) \in Nat
  BY InvTypes, LenProperties
<1>3. PICK x \in Chars : x = format[pos]
  BY <1>1, <1>2, ElementOfSeq
<1>4. PICK t : t = <<x>>
  OBVIOUS
<1>5. t \in Seq(Chars) /\ Len(t) = 1 /\ t[1] = x
  BY <1>4
<1>6. Reads(t)
  BY <1>1, <1>2, <1>3, <1>5 DEF Reads
<1>7. [k \in DOMAIN t |-> Char(t[k])] = <<Char(x)>>
  BY <1>4, TextPrinted
<1>8. QED
  BY <1>1, <1>3, <1>4, <1>5, <1>6, <1>7, TextStep

\* At a %, the character after it is there.
LEMMA DirectiveFacts ==
  ASSUME LogfInv, Directive
  PROVE  /\ pc = "scan" /\ pos \in Nat /\ Len(format) \in Nat /\ pos + 1 <= Len(format)
         /\ format[pos] = "%" /\ format[pos + 1] \in Chars
<1>1. format \in Seq(Chars) /\ pos \in 1 .. Len(format) + 1 /\ Len(format) \in Nat
  BY InvTypes, LenProperties
<1>2. pc = "scan" /\ pos < Len(format) /\ Reads(<<"%">>)
  BY DEF Directive
<1>3. PICK t : t = <<"%">>
  OBVIOUS
<1>4. Len(t) = 1 /\ t[1] = "%"
  BY <1>3
<1>5. format[pos + 1 - 1] = t[1]
  BY <1>2, <1>3, <1>4 DEF Reads
<1>6. pos + 1 - 1 = pos /\ pos + 1 \in 1 .. Len(format)
  BY <1>1, <1>2
<1>7. format[pos + 1] \in Chars
  BY <1>1, <1>6, ElementOfSeq
<1>8. QED
  BY <1>1, <1>2, <1>4, <1>5, <1>6, <1>7

\* An unknown specifier.
LEMMA UnknownStep ==
  ASSUME LogfInv, Unknown
  PROVE  LogfInv'
<1>1. /\ Directive /\ Send(<<Char("%"), Char(format[pos + 1])>>, 2)
      /\ spec' = Append(spec, [conv |-> "text", text |-> <<"%", format[pos + 1]>>])
  BY DEF Unknown
<1>2. /\ pc = "scan" /\ pos \in Nat /\ Len(format) \in Nat /\ pos + 1 <= Len(format)
      /\ format[pos] = "%" /\ format[pos + 1] \in Chars
  BY <1>1, DirectiveFacts
<1>3. PICK x \in Chars, y \in Chars : x = "%" /\ y = format[pos + 1]
  BY <1>2 DEF Chars
<1>4. PICK t : t = <<x, y>>
  OBVIOUS
<1>5. t \in Seq(Chars) /\ Len(t) = 2 /\ t[1] = x /\ t[2] = y
  BY <1>4
<1>6. Reads(t)
  <2>1. pos + 1 - 1 = pos /\ pos + 2 - 1 = pos + 1
    BY <1>2
  <2>2. \A k \in 1 .. 2 : k = 1 \/ k = 2
    OBVIOUS
  <2>3. \A k \in 1 .. 2 : format[pos + k - 1] = t[k]
    BY <1>2, <1>3, <1>5, <2>1, <2>2
  <2>4. QED
    BY <1>2, <1>5, <2>1, <2>3 DEF Reads
<1>7. [k \in DOMAIN t |-> Char(t[k])] = <<Char(x), Char(y)>>
  BY <1>4, TextPrinted
<1>8. QED
  BY <1>1, <1>2, <1>3, <1>4, <1>5, <1>6, <1>7, TextStep

\* %s
LEMMA StringStep ==
  ASSUME LogfInv, String
  PROVE  LogfInv'
<1>1. PICK s \in {"null", "string"} :
        /\ Directive /\ Reads(<<"%", "s">>)
        /\ Send(IF s = "null" THEN <<>> ELSE <<Arg(s)>>, 2)
        /\ spec' = Append(spec, [conv |-> "s", arg |-> s])
  BY DEF String
<1>2. PICK c \in Convs : c = [conv |-> "s", arg |-> s]
  BY DEF Convs
<1>3. Consumed(c) = <<"%", "s">> /\ Printed(c) = IF s = "null" THEN <<>> ELSE <<Arg(s)>>
  BY <1>2 DEF Consumed, Printed
<1>4. Len(<<"%", "s">>) = 2
  OBVIOUS
<1>5. QED
  BY <1>1, <1>2, <1>3, <1>4, DirectiveFacts, SendStep DEF Send

\* %l with an unknown specifier.
LEMMA UnknownLongStep ==
  ASSUME LogfInv, UnknownLong
  PROVE  LogfInv'
<1>1. /\ Directive /\ Reads(<<"%", "l">>) /\ pos + 2 <= Len(format)
      /\ Send(<<Char("%"), Char("l"), Char(format[pos + 2])>>, 3)
      /\ spec' = Append(spec, [conv |-> "text", text |-> <<"%", "l", format[pos + 2]>>])
  BY DEF UnknownLong, Long
<1>2. /\ pc = "scan" /\ pos \in Nat /\ Len(format) \in Nat /\ format[pos] = "%"
      /\ format \in Seq(Chars) /\ pos \in 1 .. Len(format) + 1
  BY <1>1, DirectiveFacts, InvTypes
<1>3. format[pos + 1] = "l"
  <2>1. PICK u : u = <<"%", "l">>
    OBVIOUS
  <2>2. Len(u) = 2 /\ u[2] = "l"
    BY <2>1
  <2>3. format[pos + 2 - 1] = u[2]
    BY <1>1, <2>1, <2>2 DEF Reads
  <2>4. pos + 2 - 1 = pos + 1
    BY <1>2
  <2>5. QED
    BY <2>2, <2>3, <2>4
<1>4. PICK x \in Chars, y \in Chars, z \in Chars : x = "%" /\ y = "l" /\ z = format[pos + 2]
  <2>1. pos + 2 \in 1 .. Len(format)
    BY <1>1, <1>2
  <2>2. format[pos + 2] \in Chars
    BY <1>2, <2>1, ElementOfSeq
  <2>3. QED
    BY <2>2 DEF Chars
<1>5. PICK t : t = <<x, y, z>>
  OBVIOUS
<1>6. t \in Seq(Chars) /\ Len(t) = 3 /\ t[1] = x /\ t[2] = y /\ t[3] = z
  BY <1>5
<1>7. Reads(t)
  <2>1. pos + 1 - 1 = pos /\ pos + 2 - 1 = pos + 1 /\ pos + 3 - 1 = pos + 2
    BY <1>2
  <2>2. \A k \in 1 .. 3 : k = 1 \/ k = 2 \/ k = 3
    OBVIOUS
  <2>3. \A k \in 1 .. 3 : format[pos + k - 1] = t[k]
    BY <1>2, <1>3, <1>4, <1>6, <2>1, <2>2
  <2>4. QED
    BY <1>1, <1>6, <2>1, <2>3 DEF Reads
<1>8. [k \in DOMAIN t |-> Char(t[k])] = <<Char(x), Char(y), Char(z)>>
  BY <1>5, TextPrinted
<1>9. QED
  BY <1>1, <1>2, <1>4, <1>5, <1>6, <1>7, <1>8, TextStep

\* %l at the end.
LEMMA LoneLongStep ==
  ASSUME LogfInv, LoneLong
  PROVE  LogfInv'
<1>1. /\ Directive /\ Reads(<<"%", "l">>) /\ Send(<<>>, 2)
      /\ spec' = Append(spec, [conv |-> "none"])
  BY DEF LoneLong
<1>2. PICK c \in Convs : c = [conv |-> "none"]
  BY DEF Convs
<1>3. Consumed(c) = <<"%", "l">> /\ Printed(c) = <<>>
  BY <1>2 DEF Consumed, Printed
<1>4. Len(<<"%", "l">>) = 2
  OBVIOUS
<1>5. QED
  BY <1>1, <1>2, <1>3, <1>4, DirectiveFacts, SendStep DEF Send

\* A number without a sign.
LEMMA UnsignedStep ==
  ASSUME LogfInv, pc = "scan", NEW v \in 0 .. LongMod - 1, NEW b \in {10, 16}, NEW conv,
         NEW c \in Convs, c = [conv |-> conv, value |-> v],
         Reads(Consumed(c)), NEW k, k = Len(Consumed(c)), Printed(c) = Digits(v, b),
         Number(conv, k, v, b, FALSE)
  PROVE  LogfInv'
<1>1. /\ arg' = v /\ out' = out \o <<>> /\ base' = b /\ buffer' = <<>>
      /\ pos' = pos + k /\ pc' = "convert" /\ spec' = Append(spec, c)
      /\ UNCHANGED <<level, format>>
  BY DEF Number
<1>2. PICK none : none = <<>> /\ none \in Seq(Output)
  <2>1. <<>> \in Seq(Output)
    OBVIOUS
  <2>2. QED
    BY <2>1
<1>3. none \o Digits(v, b) = Digits(v, b)
  <2>1. v \in Nat
    BY ArgRange
  <2>2. QED
    BY <1>2, <2>1, DigitsType, ConcatEmptySeq
<1>4. Printed(c) = none \o Digits(arg', base') /\ out' = out \o none
  BY <1>1, <1>2, <1>3
<1>5. pos' = pos + Len(Consumed(c)) /\ arg' \in 0 .. LongMod - 1 /\ base' \in {10, 16}
  BY <1>1
<1>6. \/ /\ arg' \in 0 .. LongMod - 1
         /\ Plain(c) => Printed(c) = none \o Digits(arg', base')
      \/ arg' \in Int32 /\ arg' < 0 /\ ~Plain(c)
  BY <1>4, <1>5
<1>7. QED
  BY <1>1, <1>2, <1>4, <1>5, <1>6, NumberStep

\* %x, %ld and %lx
LEMMA HexStep ==
  ASSUME LogfInv, Hex \/ LongDecimal \/ LongHex
  PROVE  LogfInv'
<1>1. /\ \A v \in Uint32 : v \in 0 .. LongMod - 1
      /\ \A v \in Uint64 : v \in 0 .. LongMod - 1
      /\ \A v \in 0 .. LongMod - 1 : v \in Nat
  BY WidthAssumption DEF Uint32, Uint64
<1>2. /\ Len(<<"%", "x">>) = 2
      /\ Len(<<"%", "l", "d">>) = 3
      /\ Len(<<"%", "l", "x">>) = 3
  OBVIOUS
<1>3. CASE Hex
  <2>1. PICK v \in Uint32 : Directive /\ Reads(<<"%", "x">>) /\ Number("x", 2, v, 16, FALSE)
    BY <1>3 DEF Hex
  <2>2. PICK c \in Convs : c = [conv |-> "x", value |-> v]
    BY <1>1 DEF Convs
  <2>3. Consumed(c) = <<"%", "x">> /\ Printed(c) = Digits(v, 16)
    BY <2>2 DEF Consumed, Printed
  <2>4. QED
    BY <1>1, <1>2, <2>1, <2>2, <2>3, DirectiveFacts, UnsignedStep
<1>4. CASE LongDecimal
  <2>1. PICK v \in Uint64 :
          Directive /\ Reads(<<"%", "l", "d">>) /\ Number("ld", 3, v, 10, FALSE)
    BY <1>4 DEF LongDecimal, Long
  <2>2. PICK c \in Convs : c = [conv |-> "ld", value |-> v]
    BY <1>1 DEF Convs
  <2>3. Consumed(c) = <<"%", "l", "d">> /\ Printed(c) = Digits(v, 10)
    BY <2>2 DEF Consumed, Printed
  <2>4. QED
    BY <1>1, <1>2, <2>1, <2>2, <2>3, DirectiveFacts, UnsignedStep
<1>5. CASE LongHex
  <2>1. PICK v \in Uint64 :
          Directive /\ Reads(<<"%", "l", "x">>) /\ Number("lx", 3, v, 16, FALSE)
    BY <1>5 DEF LongHex, Long
  <2>2. PICK c \in Convs : c = [conv |-> "lx", value |-> v]
    BY <1>1 DEF Convs
  <2>3. Consumed(c) = <<"%", "l", "x">> /\ Printed(c) = Digits(v, 16)
    BY <2>2 DEF Consumed, Printed
  <2>4. QED
    BY <1>1, <1>2, <2>1, <2>2, <2>3, DirectiveFacts, UnsignedStep
<1>6. QED
  BY <1>3, <1>4, <1>5

\* A negative int is turned round, but for the least one.
LEMMA DecimalStep ==
  ASSUME LogfInv, Decimal
  PROVE  LogfInv'
<1>1. PICK v \in Int32 : Directive /\ Reads(<<"%", "d">>) /\ Number("d", 2, v, 10, v < 0)
  BY DEF Decimal
<1>2. pc = "scan"
  BY <1>1, DirectiveFacts
<1>3. v \in Int /\ (v >= 0 => v <= LongMod - 1) /\ LongMod - 1 \in Nat
  BY ArgRange
<1>4. PICK c \in Convs : c = [conv |-> "d", value |-> v]
  BY <1>3 DEF Convs
<1>5. Consumed(c) = <<"%", "d">> /\ Printed(c) = Signed(v)
  BY <1>4 DEF Consumed, Printed
<1>6. Len(<<"%", "d">>) = 2
  OBVIOUS
<1>7. CASE ~(v < 0)
  <2>1. v \in 0 .. LongMod - 1
    BY <1>3, <1>7
  <2>2. Printed(c) = Digits(v, 10)
    BY <1>5, <1>7 DEF Signed
  <2>3. Number("d", 2, v, 10, FALSE)
    BY <1>1, <1>7 DEF Number
  <2>4. QED
    BY <1>1, <1>2, <1>4, <1>5, <1>6, <2>1, <2>2, <2>3, UnsignedStep
<1>8. CASE v < 0
  <2>1. /\ arg' = IF -v \in Int32 THEN -v ELSE v
        /\ out' = out \o <<Char("-")>> /\ base' = 10 /\ buffer' = <<>>
        /\ pos' = pos + 2 /\ pc' = "convert" /\ spec' = Append(spec, c)
        /\ UNCHANGED <<level, format>>
    BY <1>1, <1>4, <1>8 DEF Number
  <2>2. PICK sign : sign = <<Char("-")>> /\ sign \in Seq(Output)
    <3>1. Char("-") \in Output
      BY DEF Output, Char
    <3>2. <<Char("-")>> \in Seq(Output)
      BY <3>1
    <3>3. QED
      BY <3>2
  <2>3. Printed(c) = sign \o Digits(-v, 10)
    BY <1>5, <1>8, <2>2 DEF Signed
  <2>4. \/ /\ arg' \in 0 .. LongMod - 1
           /\ Plain(c) => Printed(c) = sign \o Digits(arg', base')
        \/ arg' \in Int32 /\ arg' < 0 /\ ~Plain(c)
    <3>1. CASE -v \in Int32
      <4>1. arg' = -v /\ -v \in Int /\ -v >= 0 /\ -v <= LongMod - 1
        BY <1>3, <1>8, <2>1, <3>1, ArgRange
      <4>2. arg' \in 0 .. LongMod - 1
        BY <1>3, <4>1
      <4>3. QED
        BY <2>1, <2>3, <4>1, <4>2
    <3>2. CASE ~(-v \in Int32)
      <4>1. arg' = v
        BY <2>1, <3>2
      <4>2. v = -(IntMod \div 2)
        <5>1. PICK h \in Int : h = IntMod \div 2
          BY WidthAssumption
        <5>2. v \in -h .. h - 1 /\ ~(-v \in -h .. h - 1)
          BY <3>2, <5>1 DEF Int32
        <5>3. v = -h
          BY <1>3, <1>8, <5>2
        <5>4. QED
          BY <5>1, <5>3
      <4>3. ~Plain(c)
        BY <1>4, <4>2 DEF Plain
      <4>4. QED
        BY <1>8, <4>1, <4>3
    <3>3. QED
      BY <3>1, <3>2
  <2>5. QED
    BY <1>1, <1>2, <1>5, <1>6, <2>1, <2>2, <2>4, NumberStep
<1>9. QED
  BY <1>7, <1>8

-----------------------------------------------------------------------------
(* The theorems *)

\* Every step keeps the invariant.
LEMMA LogfStep == LogfInv /\ [Next]_vars => LogfInv'
<1> SUFFICES ASSUME LogfInv, [Next]_vars PROVE LogfInv'
  OBVIOUS
<1>1. CASE Prefix
  BY <1>1, PrefixStep
<1>2. CASE Scan
  <2>1. CASE Ordinary
    BY <2>1, OrdinaryStep
  <2>2. CASE String
    BY <2>2, StringStep
  <2>3. CASE Unknown
    BY <2>3, UnknownStep
  <2>4. CASE UnknownLong
    BY <2>4, UnknownLongStep
  <2>5. CASE LoneLong
    BY <2>5, LoneLongStep
  <2>6. CASE Decimal
    BY <2>6, DecimalStep
  <2>7. CASE Hex \/ LongDecimal \/ LongHex
    BY <2>7, HexStep
  <2>8. QED
    BY <1>2, <2>1, <2>2, <2>3, <2>4, <2>5, <2>6, <2>7 DEF Scan
<1>3. CASE ConvertDigit
  BY <1>3, DigitConverted
<1>4. CASE PrintDigit
  BY <1>4, DigitPrinted
<1>5. CASE EndNumber \/ End \/ Returned \/ UNCHANGED vars
  BY <1>5, Quiet DEF Returned
<1>6. QED
  BY <1>1, <1>2, <1>3, <1>4, <1>5 DEF Next, Run

(* Between any two turns of logf's loops, what is on the line, what is in  *)
(* the buffer and what is left of the number are together what the format  *)
(* asked for so far, in any width of int and uint64_t.                     *)
THEOREM Invariance == Spec => []LogfInv
  BY InitInv, LogfStep, PTL DEF Spec

(* logf keeps its variables in their types: the position stays within the  *)
(* format and its end, and no number fills the buffer with more digits     *)
(* than the largest 64-bit one has, 20 of its 32 characters.               *)
THEOREM TypeCorrectness == Spec => []TypeOK
<1>1. LogfInv => TypeOK
  BY DEF LogfInv
<1>2. QED
  BY <1>1, Invariance, PTL

(* logf prints the level's tag, then each number in full, in its own base  *)
(* and with its sign, and all text in order: but for the least int and the *)
(* negative 64-bit numbers, which Plain leaves out.                        *)
THEOREM PrintTheorem == Spec => []PrintsWhatWasAsked
<1>1. LogfInv => PrintsWhatWasAsked
  <2>1. ASSUME LogfInv, pc \in {"scan", "done"}, \A k \in 1 .. Len(spec) : Plain(spec[k])
        PROVE  out = (IF level \in 1 .. 4 THEN <<Tag(level)>> ELSE <<>>) \o All(Printed, spec)
    <3>1. out = Wanted
      BY <2>1 DEF LogfInv, AllPlain
    <3>2. QED
      BY <3>1 DEF Wanted, LevelTag
  <2>2. QED
    BY <2>1 DEF PrintsWhatWasAsked
<1>2. QED
  BY <1>1, Invariance, PTL

(* Whatever the format, logf's loop reads each of its characters once and  *)
(* in order: no specifier, known or not, swallows or repeats a character.  *)
THEOREM ReadTheorem == Spec => []ReadsFormatOnce
<1>1. LogfInv => ReadsFormatOnce
  BY DEF LogfInv
<1>2. QED
  BY <1>1, Invariance, PTL
=============================================================================
