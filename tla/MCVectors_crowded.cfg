\* Records of many chunks crowd a gated recall.
CONSTANTS
  Parts = {"recall"}
  Scopes = {global, room}
  Global = global
  None = none
  Times = {1, 2, 3}
  Open = 9
  Bodies = {b1, b2}
  BoundedSaves = FALSE
  MaxWrites = 0
  MaxHeals = 0
  MaxFaults = 0
SYMMETRY Symmetry
SPECIFICATION MCSpec
INVARIANTS ChannelIsComplete
CHECK_DEADLOCK FALSE
