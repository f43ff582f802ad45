SPECIFICATION Spec
CONSTANTS
  t1 = t1
  t2 = t2
  x1 = x1
  N = 2
  Txn = {t1, t2}
  Transfer = {x1}
  Route <- MCRoute
  Baskets <- MCBaskets
  Amounts <- MCAmounts
  Opening <- MCOpening
  MaxStock = 1
  MaxDrawn = 1
  NoTransfer = NoTransfer
SYMMETRY MCSymmetry
INVARIANTS
  StockIsCovered
  TransferMovesOnce
  NoWaitCycle
PROPERTY ClosedTransferStays
