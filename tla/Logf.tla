-------------------------------- MODULE Logf --------------------------------
(***************************************************************************)
(* logf of src/src/lib/stdlib.c: one call, on any format.  The conversions *)
(* are modelled digit by digit, since what they print is what can go       *)
(* wrong; a character of the output is a tagged value.  Arguments are      *)
(* picked where va_arg takes them, of the type that va_arg asks for.       *)
(* int and uint64_t have IntMod and LongMod values.  The code is built     *)
(* without optimisation (src/src/Makefile:26), so negating the least int   *)
(* gives the least int.                                                    *)
(*                                                                         *)
(* What becomes of the characters on the line is in Serial.                *)
(***************************************************************************)
EXTENDS Integers, Sequences

CONSTANTS
  IntMod, LongMod,  \* 2^32 and 2^64
  Formats,          \* formats: sequences of Chars
  Levels            \* log levels: 1 to 4 have a tag

Chars == {"%", "s", "d", "x", "l", "other"}

ASSUME WidthAssumption ==
  IntMod \in Nat \ {0, 1} /\ LongMod \in Nat /\ IntMod <= LongMod
ASSUME FormatAssumption == Formats \subseteq Seq(Chars)

Int32 == -(IntMod \div 2) .. IntMod \div 2 - 1
Uint32 == 0 .. IntMod - 1
Uint64 == 0 .. LongMod - 1

VARIABLES
  pc,      \* "start", "scan", one of the two loops of a conversion, or "done"
  level,   \* l
  format,  \* format
  pos,     \* str
  base,    \* 10 or 16
  arg,     \* arg: what is left to convert
  buffer,  \* buffer[0 .. i - 1]
  out,     \* the characters sent to COM1
  spec     \* history: the conversions, with their arguments, in order

vars == <<pc, level, format, pos, base, arg, buffer, out, spec>>

Char(c) == <<"char", c>>
Digit(d) == <<"digit", d>>  \* the character '0' + d, or 'a' + (d - 10)
Tag(l) == <<"tag", l>>
Arg(s) == <<"arg", s>>

Init ==
  /\ pc = "start"
  /\ level \in Levels /\ format \in Formats
  /\ pos = 1 /\ base = 10 /\ arg = 0 /\ buffer = <<>>
  /\ out = <<>> /\ spec = <<>>

\* The switch on the level.
Prefix ==
  /\ pc = "start"
  /\ pc' = "scan"
  /\ out' = IF level \in 1 .. 4 THEN <<Tag(level)>> ELSE <<>>
  /\ UNCHANGED <<level, format, pos, base, arg, buffer, spec>>
-----------------------------------------------------------------------------
(* One turn of the loop over the format *)

\* The characters of the format from pos on begin with s.
Reads(s) ==
  /\ pos + Len(s) - 1 <= Len(format)
  /\ \A k \in 1 .. Len(s) : format[pos + k - 1] = s[k]

\* A % with a character after it, and a %l with one.
Directive == pc = "scan" /\ Reads(<<"%">>) /\ pos < Len(format)
Long == Directive /\ Reads(<<"%", "l">>) /\ pos + 2 <= Len(format)

\* Send the characters s and move on by k characters of the format.
Send(s, k) ==
  /\ out' = out \o s
  /\ pos' = pos + k
  /\ UNCHANGED <<pc, level, format, base, arg, buffer>>

\* Also a % at the very end.
Ordinary ==
  /\ pc = "scan" /\ pos <= Len(format) /\ ~Directive
  /\ Send(<<Char(format[pos])>>, 1)
  /\ spec' = Append(spec, [conv |-> "text", text |-> <<format[pos]>>])

\* %s: a null pointer prints nothing.
String ==
  /\ Directive /\ Reads(<<"%", "s">>)
  /\ \E s \in {"null", "string"} :
       /\ Send(IF s = "null" THEN <<>> ELSE <<Arg(s)>>, 2)
       /\ spec' = Append(spec, [conv |-> "s", arg |-> s])

\* Mutation: the character after the specifier is skipped as well.
UnknownTwice ==
  /\ Directive /\ format[pos + 1] \in {"%", "other"}
  /\ Send(<<Char("%"), Char(format[pos + 1])>>, 3)
  /\ spec' = Append(spec, [conv |-> "text", text |-> <<"%", format[pos + 1]>>])

\* Unknown specifiers, with and without %l, are printed as they are.
Unknown ==
  /\ Directive /\ format[pos + 1] \in {"%", "other"}
  /\ Send(<<Char("%"), Char(format[pos + 1])>>, 2)
  /\ spec' = Append(spec, [conv |-> "text", text |-> <<"%", format[pos + 1]>>])

UnknownLong ==
  /\ Long /\ format[pos + 2] \notin {"d", "x"}
  /\ Send(<<Char("%"), Char("l"), Char(format[pos + 2])>>, 3)
  /\ spec' = Append(spec, [conv |-> "text", text |-> <<"%", "l", format[pos + 2]>>])

\* %l at the very end.
LoneLong ==
  /\ Directive /\ Reads(<<"%", "l">>) /\ pos + 1 = Len(format)
  /\ Send(<<>>, 2)
  /\ spec' = Append(spec, [conv |-> "none"])

\* A number: va_arg, the sign, and into the do loop.
Number(conv, k, v, b, negative) ==
  /\ arg' = IF negative /\ -v \in Int32 THEN -v ELSE v
  /\ out' = out \o (IF negative THEN <<Char("-")>> ELSE <<>>)
  /\ base' = b /\ buffer' = <<>>
  /\ pos' = pos + k
  /\ pc' = "convert"
  /\ spec' = Append(spec, [conv |-> conv, value |-> v])
  /\ UNCHANGED <<level, format>>

Decimal == Directive /\ Reads(<<"%", "d">>) /\ \E v \in Int32 : Number("d", 2, v, 10, v < 0)
Hex == Directive /\ Reads(<<"%", "x">>) /\ \E v \in Uint32 : Number("x", 2, v, 16, FALSE)

\* `arg < 0` of a uint64_t never holds.
LongDecimal == Long /\ Reads(<<"%", "l", "d">>) /\ \E v \in Uint64 : Number("ld", 3, v, 10, FALSE)
LongHex == Long /\ Reads(<<"%", "l", "x">>) /\ \E v \in Uint64 : Number("lx", 3, v, 16, FALSE)
-----------------------------------------------------------------------------
(* The loops of a conversion *)

\* Mutation: the quotient of another base.
QuotientHalf(a, b) == a \div 2

\* C's / and % truncate toward zero.
Quotient(a, b) == IF a >= 0 THEN a \div b ELSE -((-a) \div b)
Remainder(a, b) == a - b * Quotient(a, b)

\* Mutation: while (arg >= 10) for while (arg > 0): the leading digit is lost.
MoreLost(a) == a >= base

\* while (arg > 0), of the arg that is left.
More(a) == a > 0

ConvertDigit ==
  /\ pc = "convert"
  /\ buffer' = Append(buffer, Digit(Remainder(arg, base)))
  /\ arg' = Quotient(arg, base)
  /\ pc' = IF More(arg') THEN "convert" ELSE "print"
  /\ UNCHANGED <<level, format, pos, base, out, spec>>

\* Backward from the last digit converted.
PrintDigit ==
  /\ pc = "print" /\ buffer # <<>>
  /\ out' = Append(out, buffer[Len(buffer)])
  /\ buffer' = SubSeq(buffer, 1, Len(buffer) - 1)
  /\ UNCHANGED <<pc, level, format, pos, base, arg, spec>>

EndNumber ==
  /\ pc = "print" /\ buffer = <<>>
  /\ pc' = "scan"
  /\ UNCHANGED <<level, format, pos, base, arg, buffer, out, spec>>

End ==
  /\ pc = "scan" /\ pos > Len(format)
  /\ pc' = "done"
  /\ UNCHANGED <<level, format, pos, base, arg, buffer, out, spec>>

Returned == pc = "done" /\ UNCHANGED vars

Scan ==
  \/ Ordinary
  \/ String
  \/ Unknown
  \/ UnknownLong
  \/ LoneLong
  \/ Decimal
  \/ Hex
  \/ LongDecimal
  \/ LongHex

Run == Prefix \/ Scan \/ ConvertDigit \/ PrintDigit \/ EndNumber \/ End

Next == Run \/ Returned

Spec == Init /\ [][Next]_vars
=============================================================================
