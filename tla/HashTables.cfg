CONSTANTS
  c1 = c1  c2 = c2  c3 = c3  NULL = NULL  ABSENT = ABSENT  UNKNOWN = UNKNOWN
  k1 = k1  k2 = k2  k3 = k3  k4 = k4  v1 = v1  v2 = v2
  Keys = {k1, k2, k3, k4}
  Contents = {c1, c2, c3}
  Objects <- MCObjects
  Variants <- MCVariants
  Class <- MCClass
  EqualpHash <- MCHash
  Hash <- MCHash
  Values = {v1, v2}
  Tests = {"eq", "eql", "equal", "equalp"}
  InitialSizes = {3}
  MaxCapacity = 8
  MaxEntries = 4
  MaxExposed = 1
SYMMETRY Symmetries
SPECIFICATION Spec
INVARIANTS TypeOK CacheValid OneEntryPerKey GetReturnsLastPut
PROPERTIES VisitedOnce MaphashComplete
