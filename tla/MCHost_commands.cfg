\* Each component on its own; two upgrades, two probes; one kill, one slow disk.
CONSTANTS
  Parts = {"files", "service", "upgrade", "import", "skills", "ready"}
  None = None
  Selections = {{"devin", "claude"}, {"codex", "grok"}, {"hermes"}, {"opencode"}, {"workbuddy"}, {"desktop", "cowork"}, {"cowork"}}
  MaxKills = 1
  Addrs = {a1, a2}
  MaxToken = 2
  Versions = {1, 2, 3}
  Prereleases = {3}
  Upgraders = {u1, u2}
  File = {f1, f2}
  Texts = {x, y}
  Blank = Blank
  Places = {here, there}
  MaxEvents = 2
  Skill = {s1, dots}
  Unsafe = {dots}
  Bodies = {x, y}
  Tenants = {t1}
  Prober = {q1, q2}
  Followed = {q1}
  Ttl = 1
  MaxSlow = 1
SPECIFICATION MCSpec
INVARIANTS UserEntriesSurvive
PROPERTIES WiresOrSaysSo ReachesItsStore InstallsWhatItSaid CopiesAreWhole ReadyIsHonest
