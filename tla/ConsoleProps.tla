---------------------------- MODULE ConsoleProps ----------------------------
(***************************************************************************)
(* What the text console has to get right.                                 *)
(***************************************************************************)
EXTENDS Console

Cells(s) == (0 .. Rows(s) - 1) \X (0 .. Cols(s) - 1)

\* The pixels of the framebuffer.
Framebuffer == 0 .. screen.pitch * screen.height - 1

\* All that was printed so far is within the screen on paper.
Fits == DOMAIN page \subseteq Cells(screen)

(* Every variable has its type: row_idx and col_idx stay within 16 bits.   *)
TypeOK ==
  /\ screen \in Screens
  /\ row \in 0 .. Word16 - 1 /\ col \in 0 .. Word16 - 1
  /\ calls \in 0 .. MaxCalls
  /\ at \in Nat \X Nat

(* A text that fits is on the screen as it would be on paper: each         *)
(* character whole in its own cell, none cut or overwritten by another,    *)
(* and an ASCII character, whatever it stands between, with its own glyph. *)
ScreenShowsPage ==
  Fits => \A p \in DOMAIN page : \A g \in GlyphPixels :
            LET o == (p[1] * GlyphHeight + g[1]) * screen.pitch + p[2] * GlyphWidth + g[2]
            IN  /\ o \in DOMAIN fb /\ fb[o][2] = g
                /\ page[p] < CharSize \div 2 => fb[o][1] = page[p]

(* A text that fits writes nothing but the pixels of its cells: not the    *)
(* gap at the end of a line, nor memory behind the framebuffer.            *)
NothingElseDrawn ==
  Fits => \A o \in DOMAIN fb :
            /\ o \in Framebuffer
            /\ o % screen.pitch < screen.width
            /\ <<o \div (screen.pitch * GlyphHeight), (o % screen.pitch) \div GlyphWidth>>
                 \in DOMAIN page
-----------------------------------------------------------------------------
(* Something the repository says of the console that does not hold.        *)

(* font.c:35: a character is written to the screen.                        *)
WrittenToScreen == DOMAIN fb \subseteq Framebuffer
=============================================================================
