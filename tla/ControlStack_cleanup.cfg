CONSTANTS
  n = n
  FormKinds = {"block", "uwp_forms"}
  Names = {n}
  FRAME_POOL_SIZE = 3
  CleanupForms = 1
  MaxFrames = 4
  MaxDepth = 5
  MaxTags = 4
  ClientMay = {"stale control"}
SPECIFICATION Spec
INVARIANT NeverTraps
