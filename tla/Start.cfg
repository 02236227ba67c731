SPECIFICATION MCSpec
CONSTANTS
  Maps <- MCMaps
  KernelLengths <- MCKernelLengths
  KernelStart = 1048576
  PageSize = 4096
  BitmapSize = 100
  Firmwares <- MCFirmwares
  RsdtEntries = 25
  Height = 48
  BssLength <- MCBssLength
  Bss <- MCBss
  BootData <- MCBootData
  BootStackUse = 16384
  FontSectors = 9
  Framebuffer = 1036288
INVARIANTS
  StartTypeOK
  PagesPrivate
  PagesAreMemory
  NothingLost
  HeapApart
  BitmapSuffices
  ApicFound
PROPERTIES
  Completes
  WalkEnds
CHECK_DEADLOCK FALSE
