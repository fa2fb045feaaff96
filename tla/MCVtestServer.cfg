SPECIFICATION MCSpec
CONSTANTS
  c1 = c1  c2 = c2  a1 = a1  a2 = a2  a3 = a3
  Client = {c1, c2}  Nested = TRUE  R = 2  Addr = {a1, a2, a3}
  Queries = {"GET_CAPS", "GET_CAPS2", "PING", "PROTOCOL_VERSION"}
  Fences = 1  Exits = TRUE  None = None
SYMMETRY Symmetric
INVARIANTS RepliesAsOwed ResourcesApart
