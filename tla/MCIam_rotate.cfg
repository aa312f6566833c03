\* DM_ADMIN_TOKEN changes, and changes back.
CONSTANTS
  Tenants = {t1}
  Tokens = {k1}
  EnvValues = {v1, v2}
  Boots = {b1}
  Handlers = {h1}
  Requests = {}
  None = None
  Server = {}
  MaxStarts = 4
  MaxOps = 2
SPECIFICATION MCSpec
PROPERTIES EnvValueIsAdmin
CHECK_DEADLOCK FALSE
