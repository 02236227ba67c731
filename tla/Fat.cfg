SPECIFICATION LoaderSpec
CONSTANTS
  A = A
  B = B
  C = C
  Names <- MCNames
  Disks <- MCDisks
  EntriesPerSector = 6
  MaxFiles = 2
  FatEntries = 8
  ClusterSpan = 16
  SectorsPerCluster = 1
  StackWords <- MCStackWords
  MaxSectors = 4
  EndOfChain = 99
  Kernel = A
  MediaWord = 98
  ImageLimit = 3
INVARIANTS
  TypeOK
  DirectoryListed
  FileLoaded
  KernelWhole
PROPERTIES
  LoadEnds
  KernelBoots
CHECK_DEADLOCK FALSE
