\* Two connections whose stamps and commits interleave with the clock, over
\* two related uris that two scopes hold.
CONSTANTS
  Uris = {u1, u2}
  Scopes = {s1, s2}
  Bodies = {b1}
  Rels = {links}
  Times = {1, 2}
  Open = 9
  Writers = {w1, w2}
  MaxNow = 2
  MaxWrites = 3
SYMMETRY Symmetry
SPECIFICATION Spec
PROPERTIES AsOfSettled AppendOnly EdgesGoWithLastLiveRow
