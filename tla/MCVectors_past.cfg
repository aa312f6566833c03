\* A caller names its own valid interval.
CONSTANTS
  Parts = {"slots"}
  Scopes = {global, room}
  Global = global
  None = none
  Times = {1, 2, 3}
  Open = 9
  Bodies = {b1, b2}
  BoundedSaves = TRUE
  MaxWrites = 2
  MaxHeals = 0
  MaxFaults = 0
SYMMETRY Symmetry
SPECIFICATION MCSpec
INVARIANTS SlotIsCurrentVersion
CHECK_DEADLOCK FALSE
