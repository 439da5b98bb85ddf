SPECIFICATION SceneSpec
CONSTANTS
  w = w
  x = x
  m = m
  NoCall = NoCall
  CallId = {w, x}
  Kind <- ToolKinds
  MaxSteps = 2
  MaxToolCalls = 2
  InRunCompact = FALSE
  DiskRecovers = FALSE
  MaxBatch = 2
  MaxInputs = 2
  MaxCrashes = 2
CHECK_DEADLOCK FALSE
INVARIANT DiskLeavesCheckpoint
