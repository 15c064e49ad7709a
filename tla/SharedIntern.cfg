CONSTANTS
  x = x  NULL = NULL  NIL = NIL
  pk1 = pk1  pk2 = pk2  s1 = s1  s2 = s2  n1 = n1  n2 = n2  t1 = t1  t2 = t2
  Names = {x}
  NameOf <- MCNameOf
  Packages = {pk1, pk2}
  PackageNames = {n1, n2}
  Symbols = {s1, s2}
  MaxNicknames = 0
  MaxUse = 1
  ClientMay <- MCClientMay
  Keyword = NULL
  Threads = {t1, t2}
SPECIFICATION SharedSpec
CHECK_DEADLOCK FALSE
INVARIANT HomeIsPresent
