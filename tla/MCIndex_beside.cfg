\* A command beside a server, each operation failing and one process killed, which may leave
\* the index damaged.
CONSTANTS
  MaxUri = 3
  Scoped = {1, 3}
  Procs = {server, cli}
  Servers = {server}
  CrashPoints = {"torn?", "open", "migrate", "fill", "filled", "serving", "keyword"}
  CrashLeaves = {"whole", "damaged"}
  LosesUnflushed = FALSE
  MayFail = {"move", "probe", "open", "migrate", "slotmark", "freshmark", "fill", "list",
             "embed", "flush"}
  MaxCrashes = 1
  MaxErrors = 1
  MaxStarts = 4
SPECIFICATION MCSpec
INVARIANTS HybridComplete MarkedWhileOpen
PROPERTIES InUseIsKept
CHECK_DEADLOCK FALSE
