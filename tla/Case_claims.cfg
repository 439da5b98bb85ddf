SPECIFICATION CaseSpec
CONSTANTS
  Lives = {own1, own2, foreign1, foreign2}
  Pids = {i1, i2, i3}
  Foreign = {foreign1, foreign2}
  Escapes = FALSE
  PidFds = TRUE
  MaxInvocations = 1
INVARIANT ClaimsNoOther
CHECK_DEADLOCK FALSE
