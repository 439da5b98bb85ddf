SPECIFICATION SceneSpec
CONSTANTS
  Process = {p1, p2}
  Checkpoint = {c1, c2}
  NoProcess = NoProcess
  Absent = Absent
  Torn = Torn
  a = a
  b = b
  l1 = l1
  l2 = l2
  l3 = l3
  m1 = m1
  m2 = m2
  j1 = j1
  j2 = j2
  r1 = r1
  r2 = r2
  n1 = n1
  n2 = n2
  o1 = o1
  o2 = o2
  Cases = {a, b}
  Lanes = {l1, l2, l3, m1, m2}
  Jobs = {j1, j2}
  Raws = {r1, r2}
  OverBudget = {r1}
  Observers = {o1, o2}
  Normal <- MCNormal
  Norms = {n1, n2}
  Compressed = {r2, n2}
  MaxEdits = 1
  MaxDamage = 1
  Prefix = Prefix
  Junk = Junk
  None = None
SYMMETRY Interchangeable
INVARIANTS OwnCheckpoint EvidenceIsKept
PROPERTIES ImplementsStore PublishedStays
CHECK_DEADLOCK FALSE
