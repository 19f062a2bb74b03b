---------------------------- MODULE ConsoleProofs ----------------------------
(***************************************************************************)
(* Proofs about the text console, for every framebuffer, every text, every *)
(* cursor and every size of a glyph: what fits on the screen is shown as   *)
(* it would be on paper, and nothing else is drawn.                        *)
(***************************************************************************)
EXTENDS ConsoleProps, SequenceTheorems, TLAPS

-----------------------------------------------------------------------------
(* The inductive invariant *)

\* As long as the text fits, row_idx and col_idx are the position on paper,
\* cut to 16 bits.
CursorOnPaper ==
  Fits => row = (at[1] % Word16) /\ col = (at[2] % Word16)

Types == TypeOK /\ rest \in Seq(1 .. CharSize - 1)

ConsoleInv == Types /\ CursorOnPaper /\ ScreenShowsPage /\ NothingElseDrawn

-----------------------------------------------------------------------------
(* Arithmetic *)

LEMMA Division ==
  \A a \in Nat, p \in Nat \ {0} :
    /\ a \div p \in Nat /\ (a % p) \in 0 .. p - 1
    /\ a = p * (a \div p) + (a % p)
  OBVIOUS

LEMMA Product == \A a, b \in Nat : a * b \in Nat /\ a * b = b * a
  OBVIOUS

LEMMA OneMore == \A a, p \in Int : (a + 1) * p = a * p + p /\ a * p \in Int
  OBVIOUS

LEMMA Monotone == \A a, b \in Int, p \in Nat : a <= b => a * p <= b * p
  OBVIOUS

LEMMA LineEnds ==
  ASSUME NEW a \in Nat, NEW b \in Nat, NEW p \in Nat, a < b
  PROVE  a * p + p <= b * p /\ a * p \in Nat
<1>1. a + 1 <= b
  OBVIOUS
<1>2. (a + 1) * p <= b * p
  BY <1>1, Monotone
<1>3. QED
  BY <1>2, OneMore, Product

LEMMA Distribute == \A a, b, p \in Int : (a + b) * p = a * p + b * p
  OBVIOUS

LEMMA Associate == \A a, b, c \in Int : (a * b) * c = a * (b * c)
  OBVIOUS

LEMMA Smaller == \A a \in Nat, p \in Nat \ {0} : a < p => (a % p) = a
  OBVIOUS

\* A line and a column determine each other's place.
LEMMA PlaceUnique ==
  ASSUME NEW w \in Nat \ {0}, NEW y \in Nat, NEW z \in Nat,
         NEW x \in 0 .. w - 1, NEW v \in 0 .. w - 1, y * w + x = z * w + v
  PROVE  y = z /\ x = v
<1>1. y * w \in Nat /\ z * w \in Nat /\ x \in Nat /\ v \in Nat /\ x < w /\ v < w
  BY Product
<1>2. ASSUME y < z PROVE FALSE
  <2>1. y + 1 <= z
    BY <1>2
  <2>2. (y + 1) * w <= z * w /\ (y + 1) * w = y * w + w
    BY <2>1, Monotone, OneMore
  <2>3. QED
    BY <1>1, <2>2
<1>3. ASSUME z < y PROVE FALSE
  <2>1. z + 1 <= y
    BY <1>3
  <2>2. (z + 1) * w <= y * w /\ (z + 1) * w = z * w + w
    BY <2>1, Monotone, OneMore
  <2>3. QED
    BY <1>1, <2>2
<1>4. y = z
  BY <1>2, <1>3
<1>5. QED
  BY <1>1, <1>4

LEMMA Place ==
  ASSUME NEW w \in Nat \ {0}, NEW y \in Nat, NEW x \in 0 .. w - 1
  PROVE  (y * w + x) \div w = y /\ ((y * w + x) % w) = x
<1>1. PICK a : a = y * w + x
  OBVIOUS
<1>2. a \in Nat
  BY <1>1, Product
<1>3. a \div w \in Nat /\ (a % w) \in 0 .. w - 1 /\ a = w * (a \div w) + (a % w)
  BY <1>2, Division
<1>4. w * (a \div w) = (a \div w) * w
  BY <1>3, Product
<1>5. (a \div w) * w + (a % w) = y * w + x
  BY <1>1, <1>3, <1>4
<1>6. a \div w = y /\ (a % w) = x
  BY <1>3, <1>5, PlaceUnique
<1>7. QED
  BY <1>1, <1>6

\* A sum and a step further, both cut to 16 bits.
LEMMA CutSum ==
  ASSUME NEW w \in Nat \ {0}, NEW a \in Nat, NEW b \in Nat
  PROVE  (((a % w) + b) % w) = ((a + b) % w)
<1>1. PICK q, r : q = a \div w /\ r = (a % w)
  OBVIOUS
<1>2. q \in Nat /\ r \in 0 .. w - 1 /\ a = w * q + r
  BY <1>1, Division
<1>3. PICK u, v : u = (r + b) \div w /\ v = ((r + b) % w)
  OBVIOUS
<1>4. r + b \in Nat
  BY <1>2
<1>5. u \in Nat /\ v \in 0 .. w - 1 /\ r + b = w * u + v
  BY <1>3, <1>4, Division
<1>6. (q + u) * w = q * w + u * w /\ q + u \in Nat
  BY <1>2, <1>5, Distribute
<1>7. q * w = w * q /\ u * w = w * u /\ w * q \in Nat /\ w * u \in Nat
  BY <1>2, <1>5, Product
<1>8. a + b = (q + u) * w + v
  BY <1>2, <1>5, <1>6, <1>7
<1>9. (((q + u) * w + v) % w) = v
  BY <1>5, <1>6, Place
<1>10. QED
  BY <1>1, <1>3, <1>8, <1>9

-----------------------------------------------------------------------------
(* The geometry of the screen *)

\* Where pixel g of the glyph in cell p is.
PixelOf(p, g) ==
  (p[1] * GlyphHeight + g[1]) * screen.pitch + (p[2] * GlyphWidth + g[2])

LEMMA Constants ==
  /\ GlyphWidth \in Nat \ {0} /\ GlyphHeight \in Nat \ {0}
  /\ TabWidth \in Nat \ {0} /\ Word16 \in Nat \ {0} /\ MaxCalls \in Nat
  BY ConsoleAssumption

LEMMA ScreenFacts ==
  ASSUME screen \in Screens
  PROVE  /\ screen.width \in Nat /\ screen.height \in Nat /\ screen.pitch \in Nat
         /\ screen.width <= screen.pitch
         /\ Rows(screen) \in 0 .. Word16 - 1 /\ Cols(screen) \in 0 .. Word16 - 1
         /\ Rows(screen) * GlyphHeight <= screen.height
         /\ Cols(screen) * GlyphWidth <= screen.width
<1>1. /\ screen.width \in Nat /\ screen.height \in Nat /\ screen.pitch \in Nat
      /\ screen.width <= screen.pitch
  BY ConsoleAssumption
<1>2. ASSUME NEW a \in Nat, NEW p \in Nat \ {0}
      PROVE  /\ (a \div p) % Word16 \in 0 .. Word16 - 1
             /\ ((a \div p) % Word16) * p <= a
  <2>1. PICK q : q = a \div p
    OBVIOUS
  <2>2. q \in Nat /\ (a % p) \in 0 .. p - 1 /\ a = p * q + (a % p)
    BY <1>2, <2>1, Division
  <2>3. PICK r : r = (q % Word16)
    OBVIOUS
  <2>4. /\ r \in 0 .. Word16 - 1 /\ q \div Word16 \in Nat
        /\ q = Word16 * (q \div Word16) + r
    BY <2>2, <2>3, Constants, Division
  <2>5. Word16 * (q \div Word16) \in Nat
    BY <2>4, Constants, Product
  <2>6. r <= q /\ r \in Nat
    BY <2>4, <2>5
  <2>7. r * p <= q * p /\ q * p = p * q /\ p * q \in Nat /\ r * p \in Nat
    BY <2>2, <2>6, Monotone, Product
  <2>8. r * p <= a
    BY <2>2, <2>7
  <2>9. QED
    BY <2>1, <2>3, <2>4, <2>8
<1>3. QED
  BY <1>1, <1>2, Constants DEF Rows, Cols

\* The line and the column of a pixel of a cell.
LEMMA InCell ==
  ASSUME screen \in Screens, NEW p \in Cells(screen), NEW g \in GlyphPixels
  PROVE  /\ p[1] \in Nat /\ p[2] \in Nat /\ p = <<p[1], p[2]>>
         /\ p[1] < Rows(screen) /\ p[2] < Cols(screen)
         /\ g[1] \in 0 .. GlyphHeight - 1 /\ g[2] \in 0 .. GlyphWidth - 1
         /\ g = <<g[1], g[2]>>
         /\ p[1] * GlyphHeight + g[1] \in 0 .. screen.height - 1
         /\ p[2] * GlyphWidth + g[2] \in 0 .. screen.width - 1
         /\ screen.pitch \in Nat \ {0}
         /\ p[2] * GlyphWidth + g[2] \in 0 .. screen.pitch - 1
<1>1. /\ screen.width \in Nat /\ screen.height \in Nat /\ screen.pitch \in Nat
      /\ screen.width <= screen.pitch
      /\ Rows(screen) \in 0 .. Word16 - 1 /\ Cols(screen) \in 0 .. Word16 - 1
      /\ Rows(screen) * GlyphHeight <= screen.height
      /\ Cols(screen) * GlyphWidth <= screen.width
  BY ScreenFacts
<1>2. /\ p[1] \in 0 .. Rows(screen) - 1 /\ p[2] \in 0 .. Cols(screen) - 1
      /\ p = <<p[1], p[2]>>
  BY DEF Cells
<1>3. /\ g[1] \in 0 .. GlyphHeight - 1 /\ g[2] \in 0 .. GlyphWidth - 1
      /\ g = <<g[1], g[2]>>
  BY DEF GlyphPixels
<1>4. ASSUME NEW a \in Nat, NEW n \in Nat, a < n, NEW s \in Nat \ {0}, NEW d \in 0 .. s - 1
      PROVE  a * s + d \in Nat /\ a * s + d < n * s
  <2>1. a + 1 <= n /\ a * s \in Nat /\ n * s \in Nat
    BY <1>4, Product
  <2>2. (a + 1) * s <= n * s /\ (a + 1) * s = a * s + s
    BY <2>1, Monotone, OneMore
  <2>3. QED
    BY <2>1, <2>2
<1>5. /\ Rows(screen) \in Nat /\ Cols(screen) \in Nat
      /\ Rows(screen) * GlyphHeight \in Nat /\ Cols(screen) * GlyphWidth \in Nat
  BY <1>1, Constants, Product
<1>6. p[1] \in Nat /\ p[2] \in Nat /\ p[1] < Rows(screen) /\ p[2] < Cols(screen)
  BY <1>2, <1>5
<1>7. /\ p[1] * GlyphHeight + g[1] \in Nat
      /\ p[1] * GlyphHeight + g[1] < Rows(screen) * GlyphHeight
  BY <1>3, <1>4, <1>5, <1>6, Constants
<1>8. /\ p[2] * GlyphWidth + g[2] \in Nat
      /\ p[2] * GlyphWidth + g[2] < Cols(screen) * GlyphWidth
  BY <1>3, <1>4, <1>5, <1>6, Constants
<1>9. p[1] * GlyphHeight + g[1] \in 0 .. screen.height - 1
  BY <1>1, <1>5, <1>7
<1>10. p[2] * GlyphWidth + g[2] \in 0 .. screen.width - 1
  BY <1>1, <1>5, <1>8
<1>11. /\ screen.pitch \in Nat \ {0}
       /\ p[2] * GlyphWidth + g[2] \in 0 .. screen.pitch - 1
  BY <1>1, <1>10
<1>12. QED
  BY <1>2, <1>3, <1>6, <1>9, <1>10, <1>11

\* No two pixels of the cells share a place.
LEMMA PixelUnique ==
  ASSUME screen \in Screens, NEW p \in Cells(screen), NEW q \in Cells(screen),
         NEW g \in GlyphPixels, NEW h \in GlyphPixels, PixelOf(p, g) = PixelOf(q, h)
  PROVE  p = q /\ g = h
<1>1. /\ p[1] \in Nat /\ p[2] \in Nat /\ p = <<p[1], p[2]>>
      /\ g[1] \in 0 .. GlyphHeight - 1 /\ g[2] \in 0 .. GlyphWidth - 1
      /\ g = <<g[1], g[2]>>
      /\ p[1] * GlyphHeight + g[1] \in Nat
      /\ p[2] * GlyphWidth + g[2] \in 0 .. screen.pitch - 1
      /\ screen.pitch \in Nat \ {0}
  BY InCell
<1>2. /\ q[1] \in Nat /\ q[2] \in Nat /\ q = <<q[1], q[2]>>
      /\ h[1] \in 0 .. GlyphHeight - 1 /\ h[2] \in 0 .. GlyphWidth - 1
      /\ h = <<h[1], h[2]>>
      /\ q[1] * GlyphHeight + h[1] \in Nat
      /\ q[2] * GlyphWidth + h[2] \in 0 .. screen.pitch - 1
  BY InCell
<1>3. /\ p[1] * GlyphHeight + g[1] = q[1] * GlyphHeight + h[1]
      /\ p[2] * GlyphWidth + g[2] = q[2] * GlyphWidth + h[2]
  BY <1>1, <1>2, PlaceUnique DEF PixelOf
<1>4. p[1] = q[1] /\ g[1] = h[1]
  BY <1>1, <1>2, <1>3, Constants, PlaceUnique
<1>5. p[2] = q[2] /\ g[2] = h[2]
  BY <1>1, <1>2, <1>3, Constants, PlaceUnique
<1>6. QED
  BY <1>1, <1>2, <1>4, <1>5

\* A pixel of a cell is visible, and its place tells the cell.
LEMMA PixelVisible ==
  ASSUME screen \in Screens, NEW p \in Cells(screen), NEW g \in GlyphPixels,
         NEW o, o = PixelOf(p, g)
  PROVE  /\ o \in Framebuffer /\ (o % screen.pitch) < screen.width
         /\ <<o \div (screen.pitch * GlyphHeight), (o % screen.pitch) \div GlyphWidth>> = p
<1> DEFINE y == p[1] * GlyphHeight + g[1]
           x == p[2] * GlyphWidth + g[2]
           w == screen.pitch
<1>1. /\ p[1] \in Nat /\ p[2] \in Nat /\ p = <<p[1], p[2]>>
      /\ g[1] \in 0 .. GlyphHeight - 1 /\ g[2] \in 0 .. GlyphWidth - 1
      /\ y \in 0 .. screen.height - 1 /\ x \in 0 .. screen.width - 1
      /\ w \in Nat \ {0} /\ x \in 0 .. w - 1
  BY InCell
<1>2. screen.height \in Nat /\ screen.width \in Nat
  BY ScreenFacts
<1>3. o = y * w + x
  BY DEF PixelOf
<1>4. o \in Framebuffer
  <2>1. y \in Nat /\ w \in Nat /\ y < screen.height
    BY <1>1, <1>2
  <2> HIDE DEF y, x
  <2>2. y * w + w <= screen.height * w /\ y * w \in Nat
    BY <1>2, <2>1, LineEnds
  <2>3. screen.height * w = w * screen.height /\ w * screen.height \in Nat
    BY <1>2, <2>1, Product
  <2>4. o \in 0 .. w * screen.height - 1
    BY <1>1, <1>3, <2>2, <2>3
  <2>5. QED
    BY <2>4 DEF Framebuffer
<1>5. (o % w) = x
  BY <1>1, <1>3, Place
<1>6. x \div GlyphWidth = p[2]
  BY <1>1, Constants, Place
<1>7. o \div (w * GlyphHeight) = p[1]
  <2> DEFINE big == w * GlyphHeight
             d == g[1] * w + x
  <2>1. big \in Nat \ {0} /\ big = GlyphHeight * w
    BY <1>1, Constants, Product
  <2>2. g[1] * w + w <= GlyphHeight * w
    <3>1. g[1] \in Nat /\ g[1] < GlyphHeight /\ GlyphHeight \in Nat /\ w \in Nat
      BY <1>1, Constants
    <3>2. QED
      BY <3>1, LineEnds
  <2>3. d \in 0 .. big - 1
    <3>1. g[1] * w \in Nat
      BY <1>1, Product
    <3>2. QED
      BY <1>1, <2>1, <2>2, <3>1
  <2>4. y * w = (p[1] * GlyphHeight) * w + g[1] * w
    <3>1. p[1] * GlyphHeight \in Nat
      BY <1>1, Constants, Product
    <3>2. QED
      BY <1>1, <3>1, Distribute
  <2>5. (p[1] * GlyphHeight) * w = p[1] * big
    BY <1>1, <2>1, Constants, Associate
  <2>6. p[1] * big \in Nat /\ g[1] * w \in Nat
    BY <1>1, <2>1, Product
  <2>7. o = p[1] * big + d
    BY <1>1, <1>3, <2>4, <2>5, <2>6
  <2> HIDE DEF big, d
  <2>8. (p[1] * big + d) \div big = p[1]
    BY <1>1, <2>1, <2>3, Place
  <2>9. QED
    BY <2>7, <2>8 DEF big
<1>8. QED
  BY <1>1, <1>2, <1>4, <1>5, <1>6, <1>7

\* What ScreenShowsPage says of a character.
Shown(p) ==
  \A g \in GlyphPixels :
    /\ PixelOf(p, g) \in DOMAIN fb /\ fb[PixelOf(p, g)][2] = g
    /\ page[p] < CharSize \div 2 => fb[PixelOf(p, g)][1] = page[p]

LEMMA ShownOnPage ==
  ASSUME screen \in Screens, Fits
  PROVE  ScreenShowsPage <=> \A p \in DOMAIN page : Shown(p)
<1>1. ASSUME NEW p \in DOMAIN page, NEW g \in GlyphPixels
      PROVE  (p[1] * GlyphHeight + g[1]) * screen.pitch + p[2] * GlyphWidth + g[2]
               = PixelOf(p, g)
  <2>1. p \in Cells(screen)
    BY DEF Fits
  <2>2. /\ p[1] \in Nat /\ p[2] \in Nat
        /\ g[1] \in 0 .. GlyphHeight - 1 /\ g[2] \in 0 .. GlyphWidth - 1
        /\ p[1] * GlyphHeight + g[1] \in 0 .. screen.height - 1
        /\ screen.pitch \in Nat \ {0} /\ screen.height \in Nat
    BY <2>1, InCell, ScreenFacts
  <2>3. PICK a, b, c : /\ a = (p[1] * GlyphHeight + g[1]) * screen.pitch
                       /\ b = p[2] * GlyphWidth /\ c = g[2]
    OBVIOUS
  <2>4. a \in Nat /\ b \in Nat /\ c \in Nat
    BY <2>2, <2>3, Constants, Product
  <2>5. (a + b) + c = a + (b + c)
    BY <2>4
  <2>6. QED
    BY <2>3, <2>5 DEF PixelOf
<1>2. ASSUME ScreenShowsPage, NEW p \in DOMAIN page, NEW g \in GlyphPixels
      PROVE  /\ PixelOf(p, g) \in DOMAIN fb /\ fb[PixelOf(p, g)][2] = g
             /\ page[p] < CharSize \div 2 => fb[PixelOf(p, g)][1] = page[p]
  BY <1>1, <1>2 DEF ScreenShowsPage
<1>3. ASSUME \A p \in DOMAIN page : Shown(p)
      PROVE  ScreenShowsPage
  <2> SUFFICES ASSUME NEW p \in DOMAIN page, NEW g \in GlyphPixels
               PROVE  LET o == (p[1] * GlyphHeight + g[1]) * screen.pitch + p[2] * GlyphWidth + g[2]
                      IN  /\ o \in DOMAIN fb /\ fb[o][2] = g
                          /\ page[p] < CharSize \div 2 => fb[o][1] = page[p]
    BY DEF ScreenShowsPage
  <2>1. Shown(p)
    BY <1>3
  <2>2. QED
    BY <1>1, <2>1 DEF Shown
<1>4. QED
  BY <1>2, <1>3 DEF Shown

LEMMA ShownNow ==
  screen \in Screens /\ Fits => (ScreenShowsPage <=> \A p \in DOMAIN page : Shown(p))
  BY ShownOnPage

LEMMA ShownNext ==
  (screen \in Screens /\ Fits => (ScreenShowsPage <=> \A p \in DOMAIN page : Shown(p)))'
  BY ShownNow, PTL

-----------------------------------------------------------------------------
(* A glyph is drawn *)

LEMMA AsciiGlyph ==
  ASSUME NEW ch \in Nat, ch < CharSize \div 2
  PROVE  Glyph(ch) = ch
<1>1. CharSize \in Nat /\ (CharSize \div 2) * GlyphHeight <= Word16
  BY ConsoleAssumption
<1>2. CharSize \div 2 \in Nat
  BY <1>1
<1>3. ch * GlyphHeight + GlyphHeight <= (CharSize \div 2) * GlyphHeight /\ ch * GlyphHeight \in Nat
  BY <1>2, Constants, LineEnds
<1>4. (CharSize \div 2) * GlyphHeight \in Nat
  BY <1>2, Constants, Product
<1>5. ch * GlyphHeight < Word16
  BY <1>1, <1>3, <1>4, Constants
<1>6. ((ch * GlyphHeight) % Word16) = ch * GlyphHeight
  BY <1>3, <1>5, Constants, Smaller
<1>7. (ch * GlyphHeight + 0) \div GlyphHeight = ch
  BY Constants, Place
<1>8. (ch * GlyphHeight) \div GlyphHeight = ch
  BY <1>3, <1>7
<1>9. QED
  BY <1>6, <1>8 DEF Glyph, Extended

\* The glyph lands in the cell at the cursor.
LEMMA OffsetInCell ==
  ASSUME screen \in Screens, NEW p \in Cells(screen), NEW g \in GlyphPixels
  PROVE  Offset(p[1], p[2]) + g[1] * screen.pitch + g[2] = PixelOf(p, g)
<1>1. /\ p[1] \in Nat /\ p[2] \in Nat
      /\ g[1] \in Nat /\ g[2] \in Nat /\ screen.pitch \in Nat
  <2>1. /\ p[1] \in Nat /\ p[2] \in Nat /\ screen.pitch \in Nat \ {0}
        /\ g[1] \in 0 .. GlyphHeight - 1 /\ g[2] \in 0 .. GlyphWidth - 1
    BY InCell
  <2>2. QED
    BY <2>1, Constants
<1>2. PICK a, b, c : /\ a = p[2] * GlyphWidth /\ b = g[1] * screen.pitch
                     /\ c = p[1] * GlyphHeight
  OBVIOUS
<1>3. a \in Nat /\ b \in Nat /\ c \in Nat
  BY <1>1, <1>2, Constants, Product
<1>4. (p[1] * screen.pitch) * GlyphHeight = c * screen.pitch
  <2>1. (p[1] * screen.pitch) * GlyphHeight = p[1] * (screen.pitch * GlyphHeight)
    BY <1>1, Constants, Associate
  <2>2. screen.pitch * GlyphHeight = GlyphHeight * screen.pitch
    BY <1>1, Constants, Product
  <2>3. (p[1] * GlyphHeight) * screen.pitch = p[1] * (GlyphHeight * screen.pitch)
    BY <1>1, Constants, Associate
  <2>4. QED
    BY <1>2, <2>1, <2>2, <2>3
<1>5. (c + g[1]) * screen.pitch = c * screen.pitch + b
  BY <1>1, <1>2, <1>3, Distribute
<1>6. c * screen.pitch \in Nat
  BY <1>1, <1>3, Product
<1>7. Offset(p[1], p[2]) = a + c * screen.pitch
  BY <1>2, <1>4 DEF Offset
<1>8. PixelOf(p, g) = (c * screen.pitch + b) + (a + g[2])
  BY <1>2, <1>5 DEF PixelOf
<1>9. (a + c * screen.pitch) + b + g[2] = (c * screen.pitch + b) + (a + g[2])
  BY <1>1, <1>3, <1>6
<1>10. QED
  BY <1>2, <1>7, <1>8, <1>9

\* The pixels of a cell.
PixelsOf(p) == {PixelOf(p, g) : g \in GlyphPixels}

LEMMA DrawnInCell ==
  ASSUME screen \in Screens, NEW p \in Cells(screen), NEW ch
  PROVE  LET new == Drawn(ch, Offset(p[1], p[2]))
         IN  /\ DOMAIN new = DOMAIN fb \cup PixelsOf(p)
             /\ \A g \in GlyphPixels : new[PixelOf(p, g)] = <<Glyph(ch), g>>
             /\ \A o \in DOMAIN fb : o \notin PixelsOf(p) => new[o] = fb[o]
<1> DEFINE off == Offset(p[1], p[2])
           pixel(g) == off + g[1] * screen.pitch + g[2]
           set == {pixel(g) : g \in GlyphPixels}
           new == Drawn(ch, off)
<1>1. \A g \in GlyphPixels : pixel(g) = PixelOf(p, g)
  BY OffsetInCell
<1>2. \A o : o \in set <=> o \in PixelsOf(p)
  BY <1>1 DEF PixelsOf
<1>3. set = PixelsOf(p)
  BY <1>2
<1>4. new = [o \in DOMAIN fb \cup set |->
               IF o \in set THEN <<Glyph(ch), CHOOSE g \in GlyphPixels : pixel(g) = o>>
               ELSE fb[o]]
  BY DEF Drawn
<1> HIDE DEF new, set, off
<1>5. DOMAIN new = DOMAIN fb \cup PixelsOf(p)
  BY <1>3, <1>4
<1>6. \A o \in DOMAIN fb : o \notin PixelsOf(p) => new[o] = fb[o]
  BY <1>3, <1>4
<1>7. ASSUME NEW g \in GlyphPixels PROVE new[PixelOf(p, g)] = <<Glyph(ch), g>>
  <2>1. PICK o : o = PixelOf(p, g)
    OBVIOUS
  <2>2. o \in set
    BY <1>3, <2>1 DEF PixelsOf
  <2>3. new[o] = <<Glyph(ch), CHOOSE h \in GlyphPixels : pixel(h) = o>>
    BY <1>4, <2>2
  <2>4. pixel(g) = o
    BY <1>1, <2>1
  <2>5. \A h \in GlyphPixels : pixel(h) = o => h = g
    BY <1>1, <2>1, PixelUnique
  <2>6. (CHOOSE h \in GlyphPixels : pixel(h) = o) = g
    BY <2>4, <2>5
  <2>7. QED
    BY <2>1, <2>3, <2>6
<1>8. QED
  BY <1>5, <1>6, <1>7 DEF new, off

-----------------------------------------------------------------------------
(* ConsoleInv is inductive *)

LEMMA InitInv == Init => ConsoleInv
<1> SUFFICES ASSUME Init PROVE ConsoleInv
  OBVIOUS
<1>1. /\ screen \in Screens /\ row = 0 /\ col = 0 /\ rest = <<>> /\ calls = 0
      /\ at = <<0, 0>> /\ DOMAIN fb = {} /\ DOMAIN page = {}
  BY DEF Init
<1>2. Types
  <2>1. <<>> \in Seq(1 .. CharSize - 1) /\ <<0, 0>> \in Nat \X Nat
    OBVIOUS
  <2>2. 0 \in 0 .. Word16 - 1 /\ 0 \in 0 .. MaxCalls
    BY Constants
  <2>3. QED
    BY <1>1, <2>1, <2>2 DEF Types, TypeOK
<1>3. CursorOnPaper
  <2>1. at[1] = 0 /\ at[2] = 0 /\ (0 % Word16) = 0
    BY <1>1, Constants, Smaller
  <2>2. QED
    BY <1>1, <2>1 DEF CursorOnPaper
<1>4. ScreenShowsPage /\ NothingElseDrawn
  BY <1>1 DEF ScreenShowsPage, NothingElseDrawn
<1>5. QED
  BY <1>2, <1>3, <1>4 DEF ConsoleInv

\* A step that draws nothing keeps what the screen shows.
LEMMA DrawsNothing ==
  ASSUME ConsoleInv, UNCHANGED <<screen, fb, page>>
  PROVE  /\ Fits' <=> Fits
         /\ ScreenShowsPage' /\ NothingElseDrawn'
<1>1. Fits' <=> Fits
  BY DEF Fits, Cells, Rows, Cols
<1>2. ScreenShowsPage'
  BY <1>1 DEF ConsoleInv, ScreenShowsPage
<1>3. NothingElseDrawn'
  BY <1>1 DEF ConsoleInv, NothingElseDrawn, Framebuffer
<1>4. QED
  BY <1>1, <1>2, <1>3

LEMMA CursorInv == ConsoleInv /\ SetTextCursor => ConsoleInv'
<1> SUFFICES ASSUME ConsoleInv, SetTextCursor PROVE ConsoleInv'
  OBVIOUS
<1>1. Types /\ calls < MaxCalls /\ calls' = calls + 1 /\ UNCHANGED <<screen, fb, rest, page>>
  BY DEF ConsoleInv, SetTextCursor
<1>2. PICK c \in Cursors : row' = c[1] % Word16 /\ col' = c[2] % Word16 /\ at' = c
  BY DEF SetTextCursor
<1>3. c \in Nat \X Nat /\ c[1] \in Nat /\ c[2] \in Nat
  BY ConsoleAssumption
<1>4. Types'
  <2>1. row' \in 0 .. Word16 - 1 /\ col' \in 0 .. Word16 - 1
    BY <1>2, <1>3, Constants, Division
  <2>2. calls' \in 0 .. MaxCalls
    BY <1>1, Constants DEF Types, TypeOK
  <2>3. QED
    BY <1>1, <1>2, <1>3, <2>1, <2>2 DEF Types, TypeOK
<1>5. CursorOnPaper'
  BY <1>2 DEF CursorOnPaper
<1>6. QED
  BY <1>1, <1>4, <1>5, DrawsNothing DEF ConsoleInv

LEMMA PutsInv == ConsoleInv /\ Puts => ConsoleInv'
<1> SUFFICES ASSUME ConsoleInv, Puts PROVE ConsoleInv'
  OBVIOUS
<1>1. /\ Types /\ calls < MaxCalls /\ calls' = calls + 1 /\ rest' \in Texts
      /\ UNCHANGED <<screen, fb, row, col, at, page>>
  BY DEF ConsoleInv, Puts
<1>2. Types'
  <2>1. rest' \in Seq(1 .. CharSize - 1)
    BY <1>1, ConsoleAssumption
  <2>2. calls' \in 0 .. MaxCalls
    BY <1>1, Constants DEF Types, TypeOK
  <2>3. QED
    BY <1>1, <2>1, <2>2 DEF Types, TypeOK
<1>3. CursorOnPaper'
  BY <1>1, DrawsNothing DEF ConsoleInv, CursorOnPaper
<1>4. QED
  BY <1>1, <1>2, <1>3, DrawsNothing DEF ConsoleInv

\* The types that putchar finds.
LEMMA PutTypes ==
  ASSUME Types, rest # <<>>
  PROVE  /\ Head(rest) \in 1 .. CharSize - 1 /\ Tail(rest) \in Seq(1 .. CharSize - 1)
         /\ at = <<at[1], at[2]>> /\ at[1] \in Nat /\ at[2] \in Nat
         /\ row \in Nat /\ col \in Nat /\ Word16 \in Nat \ {0}
         /\ screen \in Screens
<1>1. rest \in Seq(1 .. CharSize - 1) /\ screen \in Screens /\ at \in Nat \X Nat
  BY DEF Types, TypeOK
<1>2. Head(rest) \in 1 .. CharSize - 1 /\ Tail(rest) \in Seq(1 .. CharSize - 1)
  BY <1>1, HeadTailProperties, EmptySeq
<1>3. row \in Nat /\ col \in Nat
  BY Constants DEF Types, TypeOK
<1>4. QED
  BY <1>1, <1>2, <1>3, Constants

LEMMA NewlineInv == ConsoleInv /\ PutNewline => ConsoleInv'
<1> SUFFICES ASSUME ConsoleInv, PutNewline PROVE ConsoleInv'
  OBVIOUS
<1>1. /\ Types /\ rest # <<>> /\ row' = NextRow(row) /\ col' = 0 /\ rest' = Tail(rest)
      /\ at' = <<at[1] + 1, 0>> /\ UNCHANGED <<screen, fb, calls, page>>
  BY DEF ConsoleInv, PutNewline
<1>2. /\ Tail(rest) \in Seq(1 .. CharSize - 1) /\ at[1] \in Nat
      /\ row \in Nat /\ Word16 \in Nat \ {0}
  BY <1>1, PutTypes
<1>3. row' = ((row + 1) % Word16) /\ row' \in 0 .. Word16 - 1 /\ 0 \in 0 .. Word16 - 1
  BY <1>1, <1>2, Division DEF NextRow
<1>4. at' \in Nat \X Nat /\ at'[1] = at[1] + 1 /\ at'[2] = 0
  BY <1>1, <1>2
<1>5. Types'
  BY <1>1, <1>2, <1>3, <1>4 DEF Types, TypeOK
<1>6. CursorOnPaper'
  <2>1. SUFFICES ASSUME Fits PROVE (row = (at[1] % Word16) /\ col = (at[2] % Word16))'
    BY <1>1, DrawsNothing DEF CursorOnPaper
  <2>2. row = (at[1] % Word16)
    BY <2>1 DEF ConsoleInv, CursorOnPaper
  <2>3. row' = ((at[1] + 1) % Word16)
    BY <1>2, <1>3, <2>2, CutSum
  <2>4. (0 % Word16) = 0
    BY <1>2, Smaller
  <2>5. QED
    BY <1>1, <1>4, <2>3, <2>4
<1>7. QED
  BY <1>1, <1>5, <1>6, DrawsNothing DEF ConsoleInv

LEMMA TabInv == ConsoleInv /\ PutTab => ConsoleInv'
<1> SUFFICES ASSUME ConsoleInv, PutTab PROVE ConsoleInv'
  OBVIOUS
<1>1. /\ Types /\ rest # <<>> /\ col' = (col + TabWidth) % Word16 /\ rest' = Tail(rest)
      /\ at' = <<at[1], at[2] + TabWidth>> /\ UNCHANGED <<screen, fb, row, calls, page>>
  BY DEF ConsoleInv, PutTab
<1>2. /\ Tail(rest) \in Seq(1 .. CharSize - 1) /\ at[1] \in Nat /\ at[2] \in Nat
      /\ col \in Nat /\ Word16 \in Nat \ {0} /\ TabWidth \in Nat
  BY <1>1, PutTypes, Constants
<1>3. col' \in 0 .. Word16 - 1
  BY <1>1, <1>2, Division
<1>4. at' \in Nat \X Nat /\ at'[1] = at[1] /\ at'[2] = at[2] + TabWidth
  BY <1>1, <1>2
<1>5. Types'
  BY <1>1, <1>2, <1>3, <1>4 DEF Types, TypeOK
<1>6. CursorOnPaper'
  <2>1. SUFFICES ASSUME Fits PROVE (row = (at[1] % Word16) /\ col = (at[2] % Word16))'
    BY <1>1, DrawsNothing DEF CursorOnPaper
  <2>2. row = (at[1] % Word16) /\ col = (at[2] % Word16)
    BY <2>1 DEF ConsoleInv, CursorOnPaper
  <2>3. col' = ((at[2] + TabWidth) % Word16)
    BY <1>1, <1>2, <2>2, CutSum
  <2>4. QED
    BY <1>1, <1>4, <2>2, <2>3
<1>7. QED
  BY <1>1, <1>5, <1>6, DrawsNothing DEF ConsoleInv

LEMMA GlyphInv == ConsoleInv /\ PutGlyph => ConsoleInv'
<1> SUFFICES ASSUME ConsoleInv, PutGlyph PROVE ConsoleInv'
  OBVIOUS
<1>1. PICK ch : ch = Head(rest)
  OBVIOUS
<1>2. /\ Types /\ rest # <<>> /\ rest' = Tail(rest) /\ UNCHANGED <<screen, calls>>
      /\ fb' = Drawn(ch, Offset(row, col))
      /\ col' = IF LineFull(NextCol(col)) THEN 0 ELSE NextCol(col)
      /\ row' = IF LineFull(NextCol(col)) THEN NextRow(row) ELSE row
      /\ at' = IF at[2] + 1 < Cols(screen) THEN <<at[1], at[2] + 1>> ELSE <<at[1] + 1, 0>>
  BY <1>1 DEF ConsoleInv, PutGlyph
<1>3. /\ DOMAIN page' = DOMAIN page \cup {at}
      /\ page'[at] = ch /\ \A p \in DOMAIN page : p # at => page'[p] = page[p]
  BY <1>1 DEF PutGlyph, Write
<1>4. /\ ch \in 1 .. CharSize - 1 /\ Tail(rest) \in Seq(1 .. CharSize - 1)
      /\ at = <<at[1], at[2]>> /\ at[1] \in Nat /\ at[2] \in Nat
      /\ row \in Nat /\ col \in Nat /\ Word16 \in Nat \ {0} /\ screen \in Screens
  BY <1>1, <1>2, PutTypes
<1>5. Types'
  <2>1. /\ NextCol(col) \in 0 .. Word16 - 1 /\ NextRow(row) \in 0 .. Word16 - 1
        /\ 0 \in 0 .. Word16 - 1 /\ row \in 0 .. Word16 - 1
    <3>1. col + 1 \in Nat /\ row + 1 \in Nat
      BY <1>4
    <3>2. NextCol(col) \in 0 .. Word16 - 1
      BY <1>4, <3>1, Division DEF NextCol
    <3>3. NextRow(row) \in 0 .. Word16 - 1
      BY <1>4, <3>1, Division DEF NextRow
    <3>4. 0 \in 0 .. Word16 - 1 /\ row \in 0 .. Word16 - 1
      BY <1>2, <1>4 DEF Types, TypeOK
    <3>5. QED
      BY <3>2, <3>3, <3>4
  <2>2. row' \in 0 .. Word16 - 1 /\ col' \in 0 .. Word16 - 1
    BY <1>2, <2>1
  <2>3. <<at[1], at[2] + 1>> \in Nat \X Nat /\ <<at[1] + 1, 0>> \in Nat \X Nat
    BY <1>4
  <2>4. at' \in Nat \X Nat
    BY <1>2, <2>3
  <2>5. QED
    BY <1>2, <1>4, <2>2, <2>4 DEF Types, TypeOK
<1>6. CASE ~Fits'
  BY <1>5, <1>6 DEF ConsoleInv, CursorOnPaper, ScreenShowsPage, NothingElseDrawn
<1>7. CASE Fits'
  <2>1. Fits /\ at \in Cells(screen)
    BY <1>2, <1>3, <1>7 DEF Fits, Cells, Rows, Cols
  <2>2. /\ Rows(screen) \in 0 .. Word16 - 1 /\ Cols(screen) \in 0 .. Word16 - 1
        /\ at[1] \in 0 .. Rows(screen) - 1 /\ at[2] \in 0 .. Cols(screen) - 1
    BY <1>4, <2>1, ScreenFacts DEF Cells
  <2>3. row = at[1] /\ col = at[2]
    <3>1. at[1] < Word16 /\ at[2] < Word16
      BY <1>4, <2>2
    <3>2. (at[1] % Word16) = at[1] /\ (at[2] % Word16) = at[2]
      BY <1>4, <3>1, Smaller
    <3>3. QED
      BY <2>1, <3>2 DEF ConsoleInv, CursorOnPaper
  <2>4. CursorOnPaper'
    <3>1. at[2] + 1 \in Nat /\ at[2] + 1 < Word16 /\ at[1] + 1 \in Nat /\ at[1] + 1 < Word16
      BY <1>4, <2>2
    <3>2. NextCol(col) = at[2] + 1 /\ NextRow(row) = at[1] + 1
      BY <1>4, <2>3, <3>1, Smaller DEF NextCol, NextRow
    <3>3. /\ (at[1] % Word16) = at[1] /\ (0 % Word16) = 0
          /\ ((at[1] + 1) % Word16) = at[1] + 1 /\ ((at[2] + 1) % Word16) = at[2] + 1
      <4>1. at[1] \in Nat /\ at[1] < Word16 /\ 0 < Word16
        BY <1>4, <2>2
      <4>2. (at[1] % Word16) = at[1] /\ (0 % Word16) = 0
        BY <1>4, <4>1, Smaller
      <4>3. ((at[1] + 1) % Word16) = at[1] + 1
        BY <1>4, <3>1, Smaller
      <4>4. ((at[2] + 1) % Word16) = at[2] + 1
        BY <1>4, <3>1, Smaller
      <4>5. QED
        BY <4>2, <4>3, <4>4
    <3>4. CASE at[2] + 1 = Cols(screen)
      <4>1. row' = at[1] + 1 /\ col' = 0 /\ at' = <<at[1] + 1, 0>>
        BY <1>2, <1>4, <2>2, <3>2, <3>4 DEF LineFull
      <4>2. at'[1] = at[1] + 1 /\ at'[2] = 0
        BY <4>1
      <4>3. QED
        BY <3>3, <4>1, <4>2 DEF CursorOnPaper
    <3>5. CASE at[2] + 1 # Cols(screen)
      <4>1. row' = at[1] /\ col' = at[2] + 1 /\ at' = <<at[1], at[2] + 1>>
        <5>1. at[2] + 1 < Cols(screen)
          BY <1>4, <2>2, <3>5
        <5>2. QED
          BY <1>2, <2>3, <3>2, <3>5, <5>1 DEF LineFull
      <4>2. at'[1] = at[1] /\ at'[2] = at[2] + 1
        BY <4>1
      <4>3. QED
        BY <3>3, <4>1, <4>2 DEF CursorOnPaper
    <3>6. QED
      BY <3>4, <3>5
  <2>5. /\ DOMAIN fb' = DOMAIN fb \cup PixelsOf(at)
        /\ \A g \in GlyphPixels : fb'[PixelOf(at, g)] = <<Glyph(ch), g>>
        /\ \A o \in DOMAIN fb : o \notin PixelsOf(at) => fb'[o] = fb[o]
    BY <1>2, <1>4, <2>1, <2>3, DrawnInCell
  <2>6. \A p, g : PixelOf(p, g)' = PixelOf(p, g)
    BY <1>2 DEF PixelOf
  <2>7. ASSUME NEW p \in DOMAIN page' PROVE Shown(p)'
    <3>1. ASSUME p = at, NEW g \in GlyphPixels
          PROVE  /\ PixelOf(p, g) \in DOMAIN fb' /\ fb'[PixelOf(p, g)][2] = g
                 /\ page'[p] < CharSize \div 2 => fb'[PixelOf(p, g)][1] = page'[p]
      <4>1. PixelOf(p, g) \in DOMAIN fb' /\ fb'[PixelOf(p, g)] = <<Glyph(ch), g>>
        BY <2>5, <3>1 DEF PixelsOf
      <4>2. page'[p] = ch /\ ch \in Nat
        BY <1>3, <1>4, <3>1
      <4>3. QED
        BY <4>1, <4>2, AsciiGlyph
    <3>2. ASSUME p # at, NEW g \in GlyphPixels
          PROVE  /\ PixelOf(p, g) \in DOMAIN fb' /\ fb'[PixelOf(p, g)][2] = g
                 /\ page'[p] < CharSize \div 2 => fb'[PixelOf(p, g)][1] = page'[p]
      <4>1. p \in DOMAIN page /\ page'[p] = page[p] /\ p \in Cells(screen)
        BY <1>3, <2>1, <3>2 DEF Fits
      <4>2. Shown(p)
        BY <1>4, <2>1, <4>1, ShownOnPage DEF ConsoleInv
      <4>3. PixelOf(p, g) \in DOMAIN fb
        BY <3>2, <4>2 DEF Shown
      <4>4. PixelOf(p, g) \notin PixelsOf(at)
        BY <1>4, <2>1, <3>2, <4>1, PixelUnique DEF PixelsOf
      <4>5. PixelOf(p, g) \in DOMAIN fb' /\ fb'[PixelOf(p, g)] = fb[PixelOf(p, g)]
        BY <2>5, <4>3, <4>4
      <4>6. QED
        BY <3>2, <4>1, <4>2, <4>5 DEF Shown
    <3>3. QED
      BY <2>6, <3>1, <3>2 DEF Shown
  <2>8. ScreenShowsPage'
    <3>1. (screen \in Screens)' /\ Fits'
      BY <1>2, <1>4, <1>7
    <3>2. QED
      BY <2>7, <3>1, ShownNext
  <2>9. NothingElseDrawn'
    <3>1. ASSUME NEW o \in DOMAIN fb'
          PROVE  /\ o \in Framebuffer /\ (o % screen.pitch) < screen.width
                 /\ <<o \div (screen.pitch * GlyphHeight), (o % screen.pitch) \div GlyphWidth>>
                      \in DOMAIN page'
      <4>1. CASE o \in PixelsOf(at)
        <5>1. PICK g \in GlyphPixels : o = PixelOf(at, g)
          BY <4>1 DEF PixelsOf
        <5>2. QED
          BY <1>3, <1>4, <2>1, <5>1, PixelVisible
      <4>2. CASE o \in DOMAIN fb
        BY <1>3, <2>1, <4>2 DEF ConsoleInv, NothingElseDrawn
      <4>3. QED
        BY <2>5, <4>1, <4>2
    <3>2. Framebuffer' = Framebuffer
      BY <1>2 DEF Framebuffer
    <3>3. QED
      BY <1>2, <3>1, <3>2 DEF NothingElseDrawn
  <2>10. QED
    BY <1>5, <2>4, <2>8, <2>9 DEF ConsoleInv
<1>8. QED
  BY <1>6, <1>7

LEMMA StutterInv == ConsoleInv /\ UNCHANGED vars => ConsoleInv'
<1> SUFFICES ASSUME ConsoleInv, UNCHANGED vars PROVE ConsoleInv'
  OBVIOUS
<1>1. UNCHANGED <<screen, fb, row, col, rest, calls, at, page>>
  BY DEF vars
<1>2. Types' /\ CursorOnPaper'
  BY <1>1, DrawsNothing DEF ConsoleInv, Types, TypeOK, CursorOnPaper
<1>3. QED
  BY <1>1, <1>2, DrawsNothing DEF ConsoleInv

LEMMA NextInv == ConsoleInv /\ [Next]_vars => ConsoleInv'
  BY CursorInv, PutsInv, NewlineInv, TabInv, GlyphInv, StutterInv DEF Next, Putchar, Quiet

(* After every character of puts, the cursor is where the same text on     *)
(* paper would be, the screen shows it, and nothing else was drawn.        *)
THEOREM Invariance == Spec => []ConsoleInv
<1>1. Init => ConsoleInv
  BY InitInv
<1>2. ConsoleInv /\ [Next]_vars => ConsoleInv'
  BY NextInv
<1>3. QED
  BY <1>1, <1>2, PTL DEF Spec

(* Every variable keeps its type, the cursor its 16 bits.                  *)
THEOREM TypeCorrectness == Spec => []TypeOK
<1>1. ConsoleInv => TypeOK
  BY DEF ConsoleInv, Types
<1>2. QED
  BY <1>1, Invariance, PTL

(* A text that fits is on the screen as it would be on paper.              *)
THEOREM PageTheorem == Spec => []ScreenShowsPage
<1>1. ConsoleInv => ScreenShowsPage
  BY DEF ConsoleInv
<1>2. QED
  BY <1>1, Invariance, PTL

(* A text that fits writes nothing but the pixels of its cells, which are  *)
(* visible pixels of the framebuffer.                                      *)
THEOREM NothingElseTheorem == Spec => []NothingElseDrawn
<1>1. ConsoleInv => NothingElseDrawn
  BY DEF ConsoleInv
<1>2. QED
  BY <1>1, Invariance, PTL
=============================================================================
