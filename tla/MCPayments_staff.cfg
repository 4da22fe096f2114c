SPECIFICATION Spec
CONSTANTS
  o1 = o1
  o2 = o2
  r1 = r1
  r2 = r2
  h1 = h1
  h2 = h2
  Orders = {o1, o2}
  Requests = {r1}
  Hooks = {h1}
  Amounts = {1}
  Total <- MCTotal
  MaxAttempt = 0
  MaxPayments = 2
  AdminOps = {"create", "update", "delete"}
  AdminFields = {"order"}
  AdminStatuses = {"successful"}
SYMMETRY MCOrderSymmetry
INVARIANT SettledAccountIsPaid
 
