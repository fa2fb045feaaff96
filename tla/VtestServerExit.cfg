SPECIFICATION Spec
CONSTANTS
  Client = {c1, c2}  Nested = TRUE  R = 1  Addr = {a1, a2}
  Queries = {"PING"}
  Fences = 1  Exits = TRUE  None = None
INVARIANT HeadersComplete
