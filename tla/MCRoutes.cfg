SPECIFICATION FairSpec
CONSTANTS
  None = None
  AnyMethod = AnyMethod
  Name = {"a", "b", "id", "%", "m1", "m2"}
  Unparsable = {"%"}
  AllHttpMethods <- MCMethods
  Config <- MCConfig
  Input <- MCInput
  Request = {r1, r2}
  MaxLoads = 2
INVARIANT IndInv
INVARIANT Unambiguous
PROPERTY ImplementsRoutesSpec
PROPERTY ComesIntoForce
