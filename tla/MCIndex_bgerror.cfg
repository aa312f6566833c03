\* A background backfill that cannot read the store.
CONSTANTS
  MaxUri = 3
  Scoped = {1, 3}
  Procs = {server}
  Servers = {server}
  CrashPoints = {}
  CrashLeaves = {"whole"}
  LosesUnflushed = FALSE
  MayFail = {"list"}
  MaxCrashes = 0
  MaxErrors = 1
  MaxStarts = 1
SPECIFICATION Spec
PROPERTIES MarkerOutlastsRun
CHECK_DEADLOCK FALSE
