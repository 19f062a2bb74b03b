----------------------------- MODULE MCConsole -----------------------------
(***************************************************************************)
(* Glyphs of 2 x 2 pixels on screens of three by two characters: one whose *)
(* lines follow each other, one with a gap after each line, and one whose  *)
(* size is no multiple of the glyph's.                                     *)
(***************************************************************************)
EXTENDS ConsoleProps

SmallScreens ==
  {[width |-> 6, height |-> 4, pitch |-> 6],
   [width |-> 6, height |-> 4, pitch |-> 8],
   [width |-> 7, height |-> 5, pitch |-> 7]}

\* Three ASCII characters, and a char that is negative.
A == 1
B == 2
O == 15
Umlaut == 20

SmallTexts ==
  {<<A>>, <<B, O>>, <<A, B, Umlaut>>, <<Tab, A>>, <<B, Tab>>,
   <<Newline, O>>, <<A, Newline>>, <<A, B, O, Umlaut>>}

SmallCursors == {<<0, 0>>, <<1, 0>>, <<0, 2>>, <<1, 1>>, <<2, 2>>, <<65, 1>>}
\* The cursor where init_font puts it.
HomeCursors == {<<0, 0>>}
=============================================================================
