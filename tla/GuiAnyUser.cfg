CONSTANTS
  Zones = {z1, z2}
  InstanceIds = {i1, i2, i3}
  Discoveries = {d1, d2}
  Setups = {s1, s2}
  DeletesFail = TRUE
  None = None
SPECIFICATION UntilOverlap
INVARIANTS TypeOK OnlyOverlapHurts
SYMMETRY Symmetry
CHECK_DEADLOCK FALSE
