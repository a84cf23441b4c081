SPECIFICATION Spec
CONSTANTS
  i1 = i1
  i2 = i2
  b1 = b1
  b2 = b2
  c1 = c1
  c2 = c2
  r1 = r1
  Absent = Absent
  Torn = Torn
  Whole = Whole
  Id = {i1, i2}
  Body = {b1, b2}
  Client = {c1, c2}
  Reader = {r1}
  Faults = {"crash", "flush"}
SYMMETRY Symmetry
INVARIANTS
  AppendHonest
  ReadComplete
PROPERTY
  KeepsContract
