CONSTANTS
  Width = 4
  Height = 4
  Glyphs <- MCGlyphs
  Printers <- MCPrinters
  Messages <- MCMessages
SPECIFICATION ConsoleSpec
INVARIANTS
  ConsoleTypeOK
  WithinWidth
  WholeMessages
