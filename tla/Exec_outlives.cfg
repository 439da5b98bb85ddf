SPECIFICATION SceneSpec
CONSTANTS
  a1 = a1
  a2 = a2
  Agents = {a1, a2}
  Overlap <- OneWorkspace
  Calls <- AnyCall
  Abilities = {"fork", "redirect", "ignore", "setsid", "join"}
  Statuses = {"zero", "seven"}
  MaxPids = 8
  MaxFaults = 1
  MaxCalls = 1
INVARIANT NoneOutlives
