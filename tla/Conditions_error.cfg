CONSTANTS
  c = c  d = d  NIL = NIL
  Conditions = {c, d}
  CONTROL_ERROR = d
  Clusters <- TwoClusters
  Names = {"continue"}
  MaximumErrorDepth = 2
  MaxForms = 1
  MaxSignals = 2
  MaxLevel = 2
SPECIFICATION Spec
CHECK_DEADLOCK FALSE
INVARIANT ErrorDoesNotReturn
