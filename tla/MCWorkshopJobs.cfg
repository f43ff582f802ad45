SPECIFICATION Spec
CONSTANTS
  Job = {j1}
  Basket = {b1, b2}
  Req = {r1, r2}
  MaxQty = 1
  Retries = 2
  None = None
SYMMETRY MCSymmetry
INVARIANTS
  PartsConsumedOnceUnlessRaced
  ClosedJobHasSale
  CheckoutExcludesCancellation
PROPERTY FailureIsHonest
