SPECIFICATION MCSpec
CONSTANTS
  Nested = TRUE  Clock = FALSE
  b1 = b1  b2 = b2  p1 = p1  p2 = p2  m1 = m1  m2 = m2  s1 = s1  s2 = s2
  Buffer = {b1, b2}  Pool = {p1, p2}  Region = {m1, m2}  Surface = {s1, s2}
  Toplevel = s1  Depth = 2  F = 4  V = 2  None = None
  Objects = 2  Coord = {1}  Events = 3
INVARIANTS FenceHasBuffer DoneMeansShown NoTornFrame  InputDelivered
SYMMETRY Symmetric
