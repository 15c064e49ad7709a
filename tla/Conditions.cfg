CONSTANTS
  c = c  d = d  NIL = NIL
  Conditions = {c, d}
  CONTROL_ERROR = d
  Clusters <- TwoClusters
  Names = {"continue"}
  MaximumErrorDepth = 1
  MaxForms = 3
  MaxSignals = 3
  MaxLevel = 1
SPECIFICATION Spec
CHECK_DEADLOCK FALSE
INVARIANTS HandlersInEffect AskedInOrder ContinuesItsOwn
