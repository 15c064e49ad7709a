CONSTANTS
  NULL = NULL  UNBOUND = UNBOUND  NO_TLV = NO_TLV
  t1 = t1  t2 = t2  x = x  y = y  v1 = v1
  Threads = {t1, t2}
  Symbols = {x, y}
  Values = {v1}
  MAX_THREAD_LOCAL_VALUES = 3
  INITIAL_BINDING_STACK_SIZE = 2
  MaxCapacity = 4
  MaxExtents = 2
  ClientMay = {}
SYMMETRY Symmetries
SPECIFICATION Spec
CHECK_DEADLOCK FALSE
INVARIANTS TypeOK ValueIsNewestBinding
PROPERTY ImplementsDynamicBinding
