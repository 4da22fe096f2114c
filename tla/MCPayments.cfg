SPECIFICATION Spec
CONSTANTS
  o1 = o1
  o2 = o2
  r1 = r1
  r2 = r2
  h1 = h1
  h2 = h2
  Orders = {o1}
  Requests = {r1, r2}
  Hooks = {h1}
  Amounts = {1, 2}
  Total <- MCTotal
  MaxAttempt = 2
  MaxPayments = 3
  AdminOps = {}
  AdminFields = {}
  AdminStatuses = {}
SYMMETRY MCSymmetry
INVARIANT TypeOK
INVARIANT PaidIsBacked
INVARIANT AttemptsTellTheTruth
 
PROPERTY ImplementsLedger
