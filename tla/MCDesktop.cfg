SPECIFICATION MCSpec
CONSTANTS
  p1 = p1  p2 = p2  p3 = p3  k1 = k1  k2 = k2  b1 = b1  s1 = s1
  Server = {p1, p2, p3}  Client = {k1, k2}  Backlog = 2  Deaths = 3
  Chunk = 2  Room = 1  Keys = 3  Prints = 3  Failures = 1
  None = None
INVARIANT SocketSafe
PROPERTIES ClockTicks TwoPipes ConsoleServes
