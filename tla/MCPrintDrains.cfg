CONSTANTS
  Job = {j1, j2}
  Printer = {p1}
  Node = {n1, n2}
  Staff = {}
  PrinterOf <- MCPrinterOf
  MaxAttempts = 2
  MaxRetries = 0
  MaxFaults = 1
  None = None
SPECIFICATION FairSpec
PROPERTIES
  DueJobIsClaimed
  JobSettlesOrFault
