CONSTANTS
  GlyphWidth = 2
  GlyphHeight = 2
  TabWidth = 2
  Word16 = 64
  CharSize = 32
  MaxCalls = 3
  Screens <- SmallScreens
  Texts <- SmallTexts
  Cursors <- SmallCursors
SPECIFICATION Spec
INVARIANTS
  TypeOK
  ScreenShowsPage
  NothingElseDrawn
