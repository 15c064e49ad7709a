CONSTANTS
  n = n  m = m
  FormKinds = {"block", "catch", "tagbody", "tagbody_code", "uwp_forms", "uwp_code"}
  Names = {n, m}
  FRAME_POOL_SIZE = 3
  CleanupForms = 2
  MaxFrames = 3
  MaxDepth = 4
  MaxTags = 2
  MaxLets = 1
  ClientMay = {}
SYMMETRY Symmetries
SPECIFICATION UnwSpec
CHECK_DEADLOCK FALSE
INVARIANTS FramesExclusive ChainMatchesForms TagsAreEstablished CleanupAtMostOnce NeverTraps
INVARIANTS BindingsAreOfLets
PROPERTY CleanupBeforeExit
