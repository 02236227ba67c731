CONSTANTS
  NumProcesses = 3
  Printers <- MCPrinters
  Values = {0, 1}
  Zero = 0
  Vectors <- MCWithHalt
  TickModulus = 2
SPECIFICATION Spec
INVARIANTS
  OwnStack
  NoNesting
CHECK_DEADLOCK FALSE
