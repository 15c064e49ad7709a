CONSTANTS
  a = a  b = b  c = c  d = d
  a1 = a1  a2 = a2  b1 = b1  c1 = c1  d1 = d1
  NULL = NULL  DELETED = DELETED
  Symbols <- MCSymbols
  Names <- MCNames
  NameOf <- MCNameOf
  Hash <- MCHash
  InitialSize = 2
  MaxCapacity = 8
  Reput = "never"
SPECIFICATION Spec
INVARIANTS TypeOK ProbeChainsIntact StoredNamesAreFound
PROPERTIES ImplementsSymbolTable
