SPECIFICATION Spec
CONSTANTS
  Lbas <- MCLbas
  ByteSpan = 2
  HeadSpan = 2
  Words = 3
  Unread = Unread
INVARIANTS
  OnlyWhenReady
  RightSector
PROPERTIES
  ReadEnds
