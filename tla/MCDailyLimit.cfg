SPECIFICATION Spec
CONSTANTS
  a1 = a1
  App = {a1}
  Request = {r1, r2, r3, r4}
  LimitTable <- MCLimitTable
  Unlimited = Unlimited
  None = None
  MaxDay = 1
SYMMETRY Symmetric
INVARIANT IndInv
INVARIANT AdmittedWithinLimit
PROPERTY RefusedOnlyWhenSpent
