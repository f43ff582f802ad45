CONSTANTS
  Job = {j1, j2}
  Printer = {p1}
  Node = {n1, n2}
  Staff = {u1, u2}
  PrinterOf <- MCPrinterOf
  MaxAttempts = 2
  MaxRetries = 2
  MaxFaults = 1
  None = None
SPECIFICATION Spec
SYMMETRY MCSymmetry
INVARIANTS
  OneDeliveryUnlessRaced
  PrintedAgainOnlyInDoubt
PROPERTY ImplementsSpool
