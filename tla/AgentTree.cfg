SPECIFICATION SceneSpec
CONSTANTS
  Agent = {a1, a2, a3}
  Root = root
  MaxLive = 2
  MaxDepth = 2
  MaxQueue = 1
  MaxRuns = 2
  MaxTurns = 2
SYMMETRY AgentSymmetry
CHECK_DEADLOCK FALSE
INVARIANTS NoOrphans WithinCapacity ResultsArrive
