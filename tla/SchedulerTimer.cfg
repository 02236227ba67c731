CONSTANTS
  NumProcesses = 4
  Printers <- MCPrinters
  Values = {0, 1}
  Zero = 0
  Vectors <- MCTimerOnly
  TickModulus = 2
SPECIFICATION FairSpec
INVARIANTS
  IInv
  SlotIntegrity
  AckedBeforeResume
PROPERTIES
  ImplementsVirtualCpus
  EveryProcessRuns
