CONSTANTS
  Width = 4
  Height = 2
  Glyphs <- MCGlyphs
  Printers <- MCPrinters
  Messages <- MCMessages
SPECIFICATION ConsoleSpec
INVARIANTS
  QuietScreenShowsText
