CONSTANTS
  Sale = {s1}
  Intent = {i1}
  Txn = {t1, t2}
  Total <- MCTotal
  Amounts <- MCAmounts
  MaxTender = 2
  None = None
SPECIFICATION LayawaysSpec
SYMMETRY MCSymmetry
INVARIANTS
  SoldStockIsHeld
  StockReleasedOnce
  CompletedLayawayIsSold
PROPERTY DepositHoldsStock
