\* Two admin handlers, a request and restarts, interleaved; and two starts over one directory.
CONSTANTS
  Tenants = {t1}
  Tokens = {k1, k2}
  EnvValues = {v1, v2}
  Boots = {b1}
  Handlers = {h1, h2}
  Requests = {r1}
  None = None
  Server = {p1, p2}
  MaxStarts = 3
  MaxOps = 4
SYMMETRY Symmetry
SPECIFICATION MCSpec
INVARIANTS CreatedTokensResolve OneEnvAdmin StartIsSafe
PROPERTIES RevokedStaysOut PolicyFromNextRequest
CHECK_DEADLOCK FALSE
