\* One record address in two scopes, one writer: every way four saves,
\* forgets and invalidations can split and close one another's segments.
CONSTANTS
  Uris = {u1}
  Scopes = {s1, s2}
  Bodies = {b1, b2}
  Rels = {}
  Times = {1, 2, 3}
  Open = 9
  Writers = {w1}
  MaxNow = 1
  MaxWrites = 4
SYMMETRY Symmetry
SPECIFICATION Spec
INVARIANTS NonOverlap KeywordIndexIsLive
PROPERTIES ImplementsTimeline SaveIsBelieved
