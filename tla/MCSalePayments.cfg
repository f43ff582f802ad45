CONSTANTS
  Sale = {s1}
  Intent = {i1, i2}
  Txn = {t1, t2}
  Total <- MCTotal
  Amounts <- MCAmounts
  MaxTender = 3
  None = None
SPECIFICATION Spec
SYMMETRY MCSymmetry
INVARIANTS
  LockedReadsAreCurrent
  CompletedSaleIsCovered
  CapturedWithinTotal
  CapturedSaleIsCompleted
  OnePaymentPerCapturedIntent
  DrawerHoldsNetCash
  AnnouncedAtMostOnce
PROPERTY CompletionIsFinal
