SPECIFICATION TakesSpec
CONSTANTS
  N = 2
  Txn = {t1, t2}
  Transfer = {}
  Route <- MCRoute
  Baskets <- MCBaskets
  Amounts <- MCAmounts
  Opening <- MCOpening
  MaxStock = 1
  MaxDrawn = 0
  NoTransfer = NoTransfer
  Stocktake = {k1}
  MaxCount = 1
  NoStocktake = NoStocktake
SYMMETRY MCSymmetry
INVARIANTS
  StocktakePostsOnce
  WaitCycleHasPosting
PROPERTY PostingSetsTheCount
