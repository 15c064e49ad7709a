CONSTANTS
  NULL = NULL  UNBOUND = UNBOUND  NO_TLV = NO_TLV
  t1 = t1  t2 = t2  x = x  y = y  v1 = v1
  Threads = {t1, t2}
  Symbols = {x, y}
  Values = {v1}
  MAX_THREAD_LOCAL_VALUES = 3
  INITIAL_BINDING_STACK_SIZE = 2
  MaxCapacity = 2
  MaxExtents = 1
  ClientMay = {"loop at bottom", "rebind global"}
SPECIFICATION FairSpec
CHECK_DEADLOCK FALSE
INVARIANTS BindingIndicesUnique
PROPERTIES BindingIndexStable BindCompletes
