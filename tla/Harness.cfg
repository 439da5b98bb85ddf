SPECIFICATION SceneSpec
CONSTANTS
  r1 = r1
  r2 = r2
  r3 = r3
  p1 = p1
  p2 = p2
  e1 = e1
  u1 = u1
  Runs = {r1, r2, r3}
  Mode <- Modes
  Cases = {p1, p2, e1, u1}
  Exclusive = {e1}
  Pending = {p2}
  Unavailable = {u1}
  Jobs = 2
  Scopes = {"area", "full", "selection"}
  MaxDeaths = 1
SYMMETRY Interchangeable
INVARIANTS SuccessIsEarned
