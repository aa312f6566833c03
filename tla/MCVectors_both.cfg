\* Requests, index errors, crashes and the two re-embeddings they race (open-ended saves); and
\* gated and ungated recalls over seven versions of five uris, one of them forgotten meanwhile.
CONSTANTS
  Parts = {"slots", "recall"}
  Scopes = {global, room}
  Global = global
  None = none
  Times = {1, 2, 3}
  Open = 9
  Bodies = {b1, b2}
  BoundedSaves = FALSE
  MaxWrites = 3
  MaxHeals = 2
  MaxFaults = 1
SYMMETRY Symmetry
SPECIFICATION MCSpec
INVARIANTS SlotEmbedsNewest BehindOnlyByRaces FindsWhatItMaySee NothingOfOthers
CHECK_DEADLOCK FALSE
