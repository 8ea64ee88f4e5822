SPECIFICATION Spec
CONSTANTS
  Caller = {c1, c2}
  Key = {k1}
  Data = {d1}
  Refused = Refused
  Failed = Failed
  Absent = Absent
  Duration <- MCDuration
  MaxLatency = 1
  MaxTime = 5
  MaxGen = 1
INVARIANT IndInv
PROPERTY BoundedStaleness
PROPERTY ReloadFlushes
PROPERTY RefusalsAreFresh
