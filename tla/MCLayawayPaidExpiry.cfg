CONSTANTS
  Sale = {s1}
  Intent = {i1}
  Txn = {t1}
  Total <- MCTotal
  Amounts <- MCAmounts
  MaxTender = 3
  None = None
SPECIFICATION LayawaysSpec
PROPERTY PartPaidLayawayIsNotExpired
