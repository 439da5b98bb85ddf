SPECIFICATION Spec
CONSTANTS
  w = w
  m = m
  a1 = a1
  a2 = a2
  root = root
  NoOne = NoOne
  c = c
  d = d
  i1 = i1
  i2 = i2
CHECK_DEADLOCK FALSE
PROPERTY EverythingEnds
