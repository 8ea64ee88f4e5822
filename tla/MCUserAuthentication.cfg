SPECIFICATION Spec
CONSTANTS
  m1 = m1
  m2 = m2
  m3 = m3
  h = h
  k = k
  None = None
  Blank = Blank
  Malformed = Malformed
  Caller = {c1, c2}
  Module = {m1, m2, m3}
  Char = {"a", "b", ":"}
  Colon = ":"
  Endpoint <- MCEndpoint
  Token <- MCToken
  Field = {h, k}
  Name = {"header", "cookie"}
  CustomAuth <- MCCustomAuth
  Input <- MCInput
  MaxLatency = 1
  MaxTime = 3
  MaxGen = 2
SYMMETRY Symmetric
INVARIANT IndInv
PROPERTY UserIsTheCallers
 
PROPERTY OnlyGrantsAreCached
