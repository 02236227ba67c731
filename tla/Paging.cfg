CONSTANTS
  NumFrames = 9
  Levels = 4
  Indices <- MCIndices
  Pages <- MCPages
  Addresses <- MCAddresses
  Absent = Absent
  None = None
SPECIFICATION Spec
INVARIANTS
  TypeOK
  TablesFormTree
PROPERTY
  ImplementsAddressSpace
