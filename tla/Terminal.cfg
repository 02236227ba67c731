CONSTANTS
  Width = 2
  Height = 3
  Glyphs <- MCGlyphs
SPECIFICATION Spec
INVARIANTS
  TypeOK
  ScreenShowsText
  CursorAtEnd
PROPERTY
  ImplementsPaper
