CONSTANTS
  Tables = 3
  g1 = g1  g2 = g2  p1 = p1  p2 = p2
  Gen = {g1, g2}
  Publisher = {p1, p2}
  Absent = Absent
  Damaged = Damaged
  Torn = Torn
  Exclusive = TRUE
SYMMETRY Symmetry
SPECIFICATION Spec
INVARIANT ManifestLast
PROPERTIES FailureRestores KeepsContract
