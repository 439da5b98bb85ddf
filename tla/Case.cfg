SPECIFICATION SceneSpec
CONSTANTS
  own1 = own1
  own2 = own2
  foreign = foreign
  i1 = i1
  i2 = i2
  i3 = i3
  Lives = {own1, own2, foreign}
  Pids = {i1, i2, i3}
  Foreign = {foreign}
  Escapes = FALSE
  PidFds = TRUE
  MaxInvocations = 2
  n1 = n1
  n2 = n2
  x = x
  key = key
  go = go
  more = more
  NoName = NoName
  Conns = {n1, n2}
  Kinds = {x}
  NumScripts = 2
  Key <- TwoKeys
  Matches <- OneKey
  Barrier <- FirstWaits
  ChunkBarrier <- SecondWaits
  Resets = {2}
  Closes = {2}
  MaxRequests = 2
SYMMETRY Interchangeable
INVARIANTS CaseIsWatched SignalsOnlyClaimed EvidenceIsScripted
PROPERTY EvidenceComplete
