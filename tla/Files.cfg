SPECIFICATION SceneSpec
CONSTANTS
  c1 = c1
  c2 = c2
  None = None
  Conversations = {c1, c2}
  AgentTools = {c1, c2}
  WithheldNames = {".env"}
  Rank <- MCRank
  Trees <- FileTrees
  Calls <- FileCalls
  Texts <- FileTexts
  MaxFileBytes = 4
  PageLines = 2
  LedgerMax = 3
  MaxCalls = 2
  MaxOutside = 1
INVARIANT FileCasesHold
PROPERTIES VersionsKept AbsenceKept DeletionsTrue
