SPECIFICATION RefundsSpec
CONSTANTS
  Session = {s1, s2}
  Txn = {t1, t2}
  NoSession = NoSession
  Refund = {r1, r2}
  Item = {i1, i2}
  Sold <- MCSold
  Price <- MCPrice
  Tax = 1
  NonStock = {i2}
  Amounts <- MCAmounts
  MaxTender = 3
  NoRefund = NoRefund
SYMMETRY MCSymmetry
INVARIANTS
  RefundedWithinSold
  RefundsWithinTotal
  CompletedRefundIsSettled
  RefundsBookedOnce
  OneSessionUnlessDoubled
