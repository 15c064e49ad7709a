CONSTANTS
  x = x  NULL = NULL  NIL = NIL
  p = p  q = q  s1 = s1  s2 = s2  n1 = n1  n2 = n2
  Names = {x}
  NameOf <- MCNameOf
  Packages = {p, q}
  PackageNames = {n1, n2}
  Symbols = {s1, s2}
  MaxNicknames = 1
  MaxUse = 2
  MaxOptions = 3
  ClientMay <- MCClientMay
  Keyword = p
SYMMETRY Symmetries
SPECIFICATION DefSpec
CHECK_DEADLOCK FALSE
INVARIANTS MapConsistent UseSymmetric
INVARIANTS InternalExternalDisjoint HomeIsPresent InheritedSymbolsComplete DefinedAsAsked
PROPERTY PresentSymbolIsStable
