CONSTANTS
  NumProcesses = 4
  Printers <- MCPrinters
  Values = {0, 1}
  Zero = 0
  Vectors <- MCWithSpurious
  TickModulus = 2
SPECIFICATION Spec
PROPERTY
  RoundRobin
