------------------------------- MODULE MCLogf -------------------------------
(***************************************************************************)
(* Every format of up to three characters, and some with two conversions;  *)
(* ints of 5 bits (up to two digits) and longs of 8 (up to three).         *)
(***************************************************************************)
EXTENDS LogfProps

SmallFormats ==
  UNION {[1 .. k -> Chars] : k \in 0 .. 3}
  \cup {<<"%", "d", "%", "x">>, <<"%", "l", "x", "%", "s">>, <<"%", "%", "d", "d">>,
        <<"%", "d", "%", "l">>, <<"s", "%", "l", "d", "x">>}
SmallLevels == {3, 5}
=============================================================================
