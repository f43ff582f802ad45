CONSTANTS
  Sale = {s1}
  Intent = {i1, i2}
  Txn = {t1, t2}
  Total <- MCTotal
  Amounts <- MCAmounts
  MaxTender = 1
  MaxSessions <- MCMaxSessions
  Beside <- MCBeside
  None = None
SPECIFICATION TerminalsSpec
SYMMETRY MCSymmetry
CHECK_DEADLOCK FALSE
INVARIANTS
  CapturedSessionIsPaid
  PaidWithinTotal
PROPERTY FinalSessionStays
