CONSTANTS
  NULL = NULL
  main = main  t1 = t1  t2 = t2  m1 = m1  m2 = m2  c1 = c1
  Threads = {main, t1, t2}
  Primordial = main
  Mutexes = {m1, m2}
  Conditions = {c1}
  MaxForms = 1
SPECIFICATION FairSpec
CHECK_DEADLOCK FALSE
INVARIANTS AllThreadsExact HeldAsBelieved
PROPERTY ThreadsRegister
