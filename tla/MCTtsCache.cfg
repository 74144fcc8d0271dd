SPECIFICATION Spec
CONSTANTS
  k1 = k1
  k2 = k2
  k3 = k3
  a = a
  b = b
  only = only
  Nothing = Nothing
  Keys = {k1, k2, k3}
  Tasks = {a, b, only}
  MaxHits = 2
  Uses <- BothUses
INVARIANTS TypeOK HitIsWhole SizeBounded EntriesArePairs
PROPERTIES ColdestGoFirst
SYMMETRY AnyKeyAnyTask
