SPECIFICATION Spec
CONSTANTS
  Order = {o1}
  Item = {i1, i2}
  Req = {r1, r2, r3}
  MaxQty = 2
  NoOrder = NoOrder
SYMMETRY MCSymmetry
INVARIANTS
  ReceivedWithinOrdered
  StatusFitsReceipts
PROPERTIES
  ReceiptNeedsOpenOrder
  ClosedOrderStays
