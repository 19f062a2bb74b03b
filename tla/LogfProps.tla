------------------------------ MODULE LogfProps ------------------------------
(***************************************************************************)
(* What logf has to print.                                                 *)
(***************************************************************************)
EXTENDS Logf, SequencesExt

\* v in base b, most significant digit first.
Digits(v, b) ==
  LET f[u \in 0 .. v] ==
        IF u < b THEN <<Digit(u)>> ELSE Append(f[u \div b], Digit(u % b))
  IN  f[v]

Signed(v) == IF v < 0 THEN <<Char("-")>> \o Digits(-v, 10) ELSE Digits(v, 10)

\* What a C programmer expects of one step of the format.
Printed(c) ==
  CASE c.conv = "text" -> [k \in DOMAIN c.text |-> Char(c.text[k])]
    [] c.conv = "none" -> <<>>
    [] c.conv = "s" -> IF c.arg = "null" THEN <<>> ELSE <<Arg(c.arg)>>
    [] c.conv = "d" -> Signed(c.value)
    [] c.conv = "ld" -> Digits(c.value, 10)
    [] c.conv \in {"x", "lx"} -> Digits(c.value, 16)

\* The format as the conversions seen so far split it up.
Consumed(c) ==
  CASE c.conv = "text" -> c.text
    [] c.conv = "none" -> <<"%", "l">>
    [] c.conv \in {"s", "d", "x"} -> <<"%", c.conv>>
    [] c.conv = "ld" -> <<"%", "l", "d">>
    [] c.conv = "lx" -> <<"%", "l", "x">>

\* The sequences Of(s[1]), Of(s[2]), ... one after the other.
All(Of(_), s) == FlattenSeq([k \in 1 .. Len(s) |-> Of(s[k])])

\* Not the least int, whose negation overflows, and not a negative 64-bit
\* number, which %ld takes for a large one (stdlib.c:149-150).
Plain(c) ==
  /\ c.conv = "d" => c.value # -(IntMod \div 2)
  /\ c.conv = "ld" => c.value < LongMod \div 2

-----------------------------------------------------------------------------
(* Every variable has its type, and buffer has room: a number has no more  *)
(* digits than the 64-bit one with most, 20 of the 32 characters.          *)
TypeOK ==
  /\ pc \in {"start", "scan", "convert", "print", "done"}
  /\ level \in Levels /\ format \in Formats
  /\ pos \in 1 .. Len(format) + 1
  /\ base \in {10, 16} /\ arg \in Int32 \cup Uint32 \cup Uint64
  /\ Len(buffer) <= Len(Digits(LongMod - 1, 10))

(* Each number is printed in full, in its own base, with its sign and no   *)
(* leading zero; text is printed as it is, and in order.  For the numbers  *)
(* left out see Plain.                                                     *)
PrintsWhatWasAsked ==
  pc \in {"scan", "done"} /\ (\A k \in 1 .. Len(spec) : Plain(spec[k])) =>
    out = (IF level \in 1 .. 4 THEN <<Tag(level)>> ELSE <<>>) \o All(Printed, spec)

(* The format is read once, from its first character to its last: no       *)
(* specifier swallows or repeats a character of what follows it.           *)
ReadsFormatOnce ==
  All(Consumed, spec) = SubSeq(format, 1, pos - 1)
=============================================================================
