SPECIFICATION FairSpec
CONSTANTS
  Key = {k1, k2}
  Data = {d1}
  LifeTime <- MCLifeTime
  Goroutine = {g1, g2}
  Absent = Absent
  MaxTime = 2
INVARIANT IndInv
PROPERTY ImplementsCacheSpec
PROPERTY ExpiredIsPurged
PROPERTY CleanerStops
