------------------------------- MODULE Console -------------------------------
(***************************************************************************)
(* Console: the text console of src/src/resources/font/font.c, which draws *)
(* glyphs into the framebuffer.  The framebuffer is a sequence of pixels,  *)
(* pitch of them for each line of the screen, of which the first width are *)
(* visible; the console keeps no copy of the text and never scrolls.       *)
(*                                                                         *)
(* A pixel holds what was drawn last: <<glyph, pixel of that glyph>>.      *)
(* Glyphs are 8 x 16 in the code; their size is a parameter.               *)
(***************************************************************************)
EXTENDS Integers, Sequences

CONSTANTS
  GlyphWidth, GlyphHeight, \* 8 and 16
  TabWidth,                \* 4
  Word16,                  \* the range of uint16_t, 2^16
  CharSize,                \* the values of a char, 2^8; the upper half is negative
  Screens,                 \* the framebuffers: [width, height, pitch]
  Texts,                   \* what may be printed, sequences of characters
  Cursors,                 \* <<row, col>>: arguments of set_text_cursor
  MaxCalls                 \* bound: calls in one behaviour

\* The characters that putchar treats on their own.
Newline == 10
Tab == 9

ASSUME ConsoleAssumption ==
  /\ GlyphWidth \in Nat \ {0} /\ GlyphHeight \in Nat \ {0}
  /\ TabWidth \in Nat \ {0} /\ Word16 \in Nat \ {0} /\ MaxCalls \in Nat
  /\ CharSize \in Nat /\ (CharSize \div 2) * GlyphHeight <= Word16
  /\ Texts \subseteq Seq(1 .. CharSize - 1) /\ Cursors \subseteq Nat \X Nat
  /\ Screens \subseteq [width : Nat, height : Nat, pitch : Nat]
  /\ \A s \in Screens : s.width <= s.pitch

VARIABLES
  screen,   \* the framebuffer's geometry
  fb,       \* the pixels written: offset from framebuffer_ptr -> what is there
  row, col, \* row_idx and col_idx
  rest,     \* str: what puts has still to print
  calls,    \* history: calls so far
  at,       \* history: the position of the next character on paper
  page      \* history: the characters printed, <<row, col>> -> character

vars == <<screen, fb, row, col, rest, calls, at, page>>

Rows(s) == (s.height \div GlyphHeight) % Word16
Cols(s) == (s.width \div GlyphWidth) % Word16

\* Nothing is drawn yet; init_font puts the cursor at the top left.
Init ==
  /\ screen \in Screens
  /\ fb = [o \in {} |-> 0]
  /\ row = 0 /\ col = 0
  /\ rest = <<>> /\ calls = 0
  /\ at = <<0, 0>> /\ page = [p \in {} |-> 0]
-----------------------------------------------------------------------------
(* The callers *)

Idle == rest = <<>>

\* Mutation: the arguments are not narrowed to 16 bits.
SetTextCursorWide ==
  /\ Idle /\ calls < MaxCalls
  /\ \E c \in Cursors : row' = c[1] /\ col' = c[2] /\ at' = c
  /\ calls' = calls + 1
  /\ UNCHANGED <<screen, fb, rest, page>>

SetTextCursor ==
  /\ Idle /\ calls < MaxCalls
  /\ \E c \in Cursors :
       /\ row' = c[1] % Word16 /\ col' = c[2] % Word16
       /\ at' = c
  /\ calls' = calls + 1
  /\ UNCHANGED <<screen, fb, rest, page>>

Puts ==
  /\ Idle /\ calls < MaxCalls
  /\ \E t \in Texts : rest' = t
  /\ calls' = calls + 1
  /\ UNCHANGED <<screen, fb, row, col, at, page>>
-----------------------------------------------------------------------------
(* putchar *)

\* Mutation: lines are taken to be as long as the screen is wide.
OffsetByWidth(r, c) == c * GlyphWidth + r * screen.width * GlyphHeight

Offset(r, c) == c * GlyphWidth + r * screen.pitch * GlyphHeight

GlyphPixels == (0 .. GlyphHeight - 1) \X (0 .. GlyphWidth - 1)

\* A char is extended with its sign to 16 bits.
Extended(ch) == IF ch < CharSize \div 2 THEN ch ELSE ch + Word16 - CharSize

\* The glyph at idx, which has 16 bits: 16 bytes of font_data for each.
Glyph(ch) == ((Extended(ch) * GlyphHeight) % Word16) \div GlyphHeight

\* Every pixel of the glyph is written, foreground or background.
Drawn(ch, offset) ==
  LET pixel(g) == offset + g[1] * screen.pitch + g[2]
      new == {pixel(g) : g \in GlyphPixels}
  IN  [o \in DOMAIN fb \cup new |->
         IF o \in new THEN <<Glyph(ch), CHOOSE g \in GlyphPixels : pixel(g) = o>> ELSE fb[o]]

\* Mutation: the line is ended one character late.
LineFullLate(c) == c = Cols(screen) + 1

LineFull(c) == c = Cols(screen)

NextRow(r) == (r + 1) % Word16
NextCol(c) == (c + 1) % Word16

\* The same character on paper with lines of Cols(screen) characters.
Write(ch) == page' = [p \in DOMAIN page \cup {at} |-> IF p = at THEN ch ELSE page[p]]

PutNewline ==
  /\ rest # <<>> /\ Head(rest) = Newline
  /\ row' = NextRow(row) /\ col' = 0
  /\ rest' = Tail(rest)
  /\ at' = <<at[1] + 1, 0>>
  /\ UNCHANGED <<screen, fb, calls, page>>

PutTab ==
  /\ rest # <<>> /\ Head(rest) = Tab
  /\ col' = (col + TabWidth) % Word16
  /\ rest' = Tail(rest)
  /\ at' = <<at[1], at[2] + TabWidth>>
  /\ UNCHANGED <<screen, fb, row, calls, page>>

PutGlyph ==
  /\ rest # <<>> /\ Head(rest) \notin {Newline, Tab}
  /\ fb' = Drawn(Head(rest), Offset(row, col))
  /\ col' = IF LineFull(NextCol(col)) THEN 0 ELSE NextCol(col)
  /\ row' = IF LineFull(NextCol(col)) THEN NextRow(row) ELSE row
  /\ rest' = Tail(rest)
  /\ Write(Head(rest))
  /\ at' = IF at[2] + 1 < Cols(screen) THEN <<at[1], at[2] + 1>> ELSE <<at[1] + 1, 0>>
  /\ UNCHANGED <<screen, calls>>

Putchar == PutNewline \/ PutTab \/ PutGlyph

\* kmain has printed its last text.
Quiet == Idle /\ calls = MaxCalls /\ UNCHANGED vars

Next == SetTextCursor \/ Puts \/ Putchar \/ Quiet

Spec == Init /\ [][Next]_vars
=============================================================================
