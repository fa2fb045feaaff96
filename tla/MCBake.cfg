SPECIFICATION MCSpec
CONSTANTS
  p1 = p1  p2 = p2  p3 = p3
  Baker = {p1, p2, p3}  Inodes = 4  Stamps = 6  Kills = 1  None = None
  s1 = s1  s2 = s2  a = a  h = h  b = b  A = A  B = B  d1 = d1  d2 = d2
  Source = {s1, s2}  Rule = {A, B}  Digest = {d1, d2}
  Provides <- Makes  Depends <- Takes
  Tasks = 3
INVARIANTS BuiltIsFresh LogWhole LogServesNext
PROPERTY NoRework
SYMMETRY Symmetric
CHECK_DEADLOCK FALSE
