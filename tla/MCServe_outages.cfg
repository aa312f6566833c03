\* Outages, heals, backfills and a stop around two concurrent requests; and a server that is
\* stopped and started again around its index.
CONSTANTS
  Requests = {r1, r2}
  RequireVectors = {FALSE, TRUE}
  Outages = {"shut", "fresh"}
  Expires = TRUE
  SavePermits = 1
  MaxSaves = 2
  Server = server
SPECIFICATION MCSpec
INVARIANTS CompleteOnceHealed HybridComplete NeverOpensTorn
PROPERTIES StopIsClean HealsAtLast RequestsEnd BackfillEnds
CHECK_DEADLOCK FALSE
