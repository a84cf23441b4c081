CONSTANTS
  u1 = u1  u2 = u2  s1 = s1  home = home  abroad = abroad
  User = {u1, u2}
  Source = {s1}
  Place = {home, abroad}
  Nowhere = Nowhere
  Inputs <- Shapes
  Widths = {1, 2}
  Caps = {0, 1}
  MaxTime = 5
  MaxEvents = 4
  MaxBlock = 2
SYMMETRY Symmetry
SPECIFICATION Spec
CONSTRAINT FirstAtOnce
INVARIANTS RowsLookBack EvictionOnlyForgets HoldsTheRecent
CHECK_DEADLOCK FALSE
