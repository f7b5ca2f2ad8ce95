CONSTANTS
  k1 = k1
  k2 = k2
  NoBucket = NoBucket
  Key = {k1, k2}
  Second = 2
  PerSecond = 3
  Burst = 2
  Grain = 4
  Rounding = 1
  MaxTime = 3
SPECIFICATION Spec
SYMMETRY Interchangeable
INVARIANTS
  TypeOK
  WithinLimit
  RefusalHasCause
