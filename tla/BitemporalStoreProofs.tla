----------------------- MODULE BitemporalStoreProofs ------------------------
(***************************************************************************)
(* Proofs about BitemporalStore, for every set of uris, scopes, bodies and *)
(* writers, every set of instants and every bound.                         *)
(*                                                                         *)
(* NonOverlap is not inductive alone: a split is safe because the segments *)
(* it splits were well formed and disjoint, and the keyword index follows  *)
(* the rows only because a rowid names one row.  StoreInv adds both.       *)
(***************************************************************************)
EXTENDS BitemporalStore, TLAPS

\* A row asserts its body over a non-empty interval and was inserted by a
\* transaction that has committed.
WellFormed == \A r \in rows : r.vf < r.vt /\ r.tx <= writes

\* A rowid names one row.
RowIdentity == \A r, q \in rows : RowId(r) = RowId(q) => r = q

StoreInv ==
  /\ TypeOK
  /\ WellFormed
  /\ RowIdentity
  /\ NonOverlap
  /\ KeywordIndexIsLive

-----------------------------------------------------------------------------
\* What a transaction may insert in place of the live rows R it closes.
Insertable(R, new) ==
  /\ new \subseteq Row
  /\ \A n \in new : n.st = Open /\ n.tx = writes + 1 /\ n.vf < n.vt
  /\ \A n, m \in new : n # m /\ n.uri = m.uri /\ n.scope = m.scope
                         => ~Overlaps(n, m.vf, m.vt)
  /\ \A n \in new, r \in Live \ R : n.uri = r.uri /\ n.scope = r.scope
                                      => ~Overlaps(n, r.vf, r.vt)

\* Closing live rows and inserting such rows preserves the invariant on rows
\* and index: close_version and insert_version, in any number, in one
\* transaction.
LEMMA ReplacePreserves ==
  ASSUME StoreInv, NEW R \in SUBSET Live, NEW new, Insertable(R, new),
         NEW at \in 1..MaxNow, Replace(R, new, at)
  PROVE  /\ rows' \subseteq Row
         /\ fts' \subseteq Uris \X Scopes \X Int \X Int
         /\ writes' \in Nat
         /\ WellFormed' /\ RowIdentity' /\ NonOverlap' /\ KeywordIndexIsLive'
         /\ Live' = (Live \ R) \cup new
<1> DEFINE Closed == {[r EXCEPT !.st = at] : r \in R}
<1> USE ClockAssumption, TimesAssumption
<1>0. /\ rows \subseteq Row /\ writes \in Nat /\ Open \in Int /\ at \in Int /\ at # Open
      /\ R \subseteq rows /\ new \subseteq Row
  BY DEF StoreInv, TypeOK, Live, Insertable
<1>1. ASSUME NEW c \in Closed
      PROVE  \E r \in R : /\ c = [r EXCEPT !.st = at] /\ c.st = at /\ c.uri = r.uri
                          /\ c.scope = r.scope /\ c.vf = r.vf /\ c.vt = r.vt
                          /\ c.tx = r.tx /\ c \in Row
  BY <1>0 DEF Row
<1>2. rows' = (rows \ R) \cup Closed \cup new
  BY DEF Replace
<1>3. rows' \subseteq Row
  BY <1>0, <1>1, <1>2
<1>4. writes' \in Nat /\ writes' >= writes /\ (new # {} => writes' = writes + 1)
  BY <1>0 DEF Replace
<1>5. WellFormed'
  <2> SUFFICES ASSUME NEW x \in rows' PROVE x.vf < x.vt /\ x.tx <= writes'
    BY DEF WellFormed
  <2>1. CASE x \in rows \ R
    BY <2>1, <1>0, <1>4 DEF StoreInv, WellFormed, Row
  <2>2. CASE x \in Closed
    BY <2>2, <1>0, <1>1, <1>4 DEF StoreInv, WellFormed, Row
  <2>3. CASE x \in new
    BY <2>3, <1>4, <1>0 DEF Insertable, Row
  <2> QED BY <1>2, <2>1, <2>2, <2>3
<1>6. RowIdentity'
  <2> SUFFICES ASSUME NEW x \in rows', NEW y \in rows', RowId(x) = RowId(y)
               PROVE  x = y
    BY DEF RowIdentity, RowId
  <2> x.uri = y.uri /\ x.scope = y.scope /\ x.vf = y.vf /\ x.tx = y.tx
    BY DEF RowId
  <2>1. ASSUME NEW z \in rows', z \notin new
        PROVE  \E r \in rows : /\ RowId(r) = RowId(z) /\ r.tx = z.tx
                               /\ z = IF r \in R THEN [r EXCEPT !.st = at] ELSE r
    BY <2>1, <1>0, <1>1, <1>2 DEF RowId
  <2>2. CASE x \in new /\ y \in new
    <3>1. x.vf < x.vt /\ y.vf < y.vt /\ x \in Row /\ y \in Row
      BY <2>2 DEF Insertable
    <3>2. Overlaps(x, y.vf, y.vt)
      BY <3>1 DEF Overlaps, Row
    <3> QED BY <2>2, <3>2 DEF Insertable
  <2>3. CASE x \notin new /\ y \notin new
    <3>1. PICK r \in rows : /\ RowId(r) = RowId(x)
                            /\ x = IF r \in R THEN [r EXCEPT !.st = at] ELSE r
      BY <2>1, <2>3
    <3>2. PICK q \in rows : /\ RowId(q) = RowId(y)
                            /\ y = IF q \in R THEN [q EXCEPT !.st = at] ELSE q
      BY <2>1, <2>3
    <3>3. r = q
      BY <3>1, <3>2 DEF StoreInv, RowIdentity
    <3> QED BY <3>1, <3>2, <3>3
  <2>4. ASSUME NEW z \in rows', NEW n \in new, z \notin new PROVE z.tx # n.tx
    BY <2>1, <2>4, <1>0 DEF StoreInv, WellFormed, Insertable, Row
  <2> QED BY <2>2, <2>3, <2>4
<1>7. {r \in rows' : r.st = Open} = (Live \ R) \cup new
  <2>1. \A c \in Closed : c.st # Open
    BY <1>0, <1>1
  <2>2. \A n \in new : n.st = Open
    BY DEF Insertable
  <2> QED BY <1>2, <2>1, <2>2 DEF Live
<1>8. NonOverlap'
  <2> SUFFICES ASSUME NEW x \in (Live \ R) \cup new, NEW y \in (Live \ R) \cup new,
                      x # y, x.uri = y.uri, x.scope = y.scope
               PROVE  ~Overlaps(x, y.vf, y.vt)
    BY <1>7 DEF NonOverlap, Live, Overlaps
  <2>1. CASE x \in Live /\ y \in Live
    BY <2>1 DEF StoreInv, NonOverlap
  <2>2. CASE x \in new
    BY <2>2 DEF Insertable
  <2>3. CASE x \in Live \ R /\ y \in new
    BY <2>3 DEF Insertable, Overlaps
  <2> QED BY <2>1, <2>2, <2>3
<1>9. KeywordIndexIsLive'
  <2>1. fts' = ({RowId(r) : r \in Live} \ {RowId(r) : r \in R}) \cup {RowId(r) : r \in new}
    BY DEF Replace, StoreInv, KeywordIndexIsLive
  <2>2. \A r \in Live, q \in R : RowId(r) = RowId(q) => r = q
    BY <1>0 DEF StoreInv, RowIdentity, Live
  <2>3. {RowId(r) : r \in Live} \ {RowId(r) : r \in R} = {RowId(r) : r \in Live \ R}
    BY <2>2
  <2>4. fts' = {RowId(r) : r \in {q \in rows' : q.st = Open}}
    BY <2>1, <2>3, <1>7
  <2> QED BY <2>4 DEF KeywordIndexIsLive, Live, RowId
<1>10. fts' \subseteq Uris \X Scopes \X Int \X Int
  <2>1. \A r \in Row : RowId(r) \in Uris \X Scopes \X Int \X Int
    BY DEF Row, RowId
  <2>2. fts' = {RowId(r) : r \in Live'}
    BY <1>9 DEF KeywordIndexIsLive, RowId
  <2> QED BY <2>1, <2>2, <1>3 DEF Live, RowId
<1> QED BY <1>3, <1>4, <1>5, <1>6, <1>7, <1>8, <1>9, <1>10 DEF Live

-----------------------------------------------------------------------------
\* The remainders of segments before the new interval, which a split keeps.
LEMMA LeftPieces ==
  ASSUME StoreInv, NEW R \in SUBSET Live, NEW from \in Int, NEW at \in 1..MaxNow,
         NEW n \in Left(R, from, at)
  PROVE  /\ n \in Row /\ n.st = Open /\ n.tx = writes + 1 /\ n.vf < n.vt
         /\ n.vt = from
         /\ \E r \in R : /\ n = Version(r.uri, r.scope, r.body, r.vf, from, at)
                         /\ n.uri = r.uri /\ n.scope = r.scope /\ n.body = r.body
                         /\ n.vf = r.vf /\ r.vf < from
<1>1. PICK r \in R : /\ n = Version(r.uri, r.scope, r.body, r.vf, from, at)
                     /\ r.vf < from
  BY DEF Left
<1>2. r \in Row /\ r.st = Open /\ writes \in Nat /\ at \in Int
  BY ClockAssumption DEF Live, StoreInv, TypeOK
<1> QED BY <1>1, <1>2, TimesAssumption DEF Row, Version

\* The same of the remainders after the new interval.
LEMMA RightPieces ==
  ASSUME StoreInv, NEW R \in SUBSET Live, NEW to \in Int, NEW at \in 1..MaxNow,
         NEW n \in Right(R, to, at)
  PROVE  /\ n \in Row /\ n.st = Open /\ n.tx = writes + 1 /\ n.vf < n.vt
         /\ n.vf = to
         /\ \E r \in R : /\ n = Version(r.uri, r.scope, r.body, to, r.vt, at)
                         /\ n.uri = r.uri /\ n.scope = r.scope /\ n.body = r.body
                         /\ n.vt = r.vt /\ to < r.vt
<1>1. PICK r \in R : /\ n = Version(r.uri, r.scope, r.body, to, r.vt, at)
                     /\ to < r.vt
  BY DEF Right
<1>2. r \in Row /\ r.st = Open /\ writes \in Nat /\ at \in Int
  BY ClockAssumption DEF Live, StoreInv, TypeOK
<1> QED BY <1>1, <1>2, TimesAssumption DEF Row, Version

\* What put inserts for the segments it closes: remainders outside the new
\* interval and the new segment, all disjoint.
LEMMA PutInserts ==
  ASSUME StoreInv, NEW u \in Uris, NEW s \in Scopes, NEW b \in Bodies,
         NEW from \in Times, NEW to \in Times \cup {Open}, from < to,
         NEW at \in 1..MaxNow
  PROVE  LET R == {r \in Held(u, {s}) : Overlaps(r, from, to)}
         IN  Insertable(R, Left(R, from, at) \cup Right(R, to, at)
                             \cup {Version(u, s, b, from, to, at)})
<1> DEFINE R == {r \in Held(u, {s}) : Overlaps(r, from, to)}
           L == Left(R, from, at)
           Rt == Right(R, to, at)
           e == Version(u, s, b, from, to, at)
<1>1. R \in SUBSET Live /\ from \in Int /\ to \in Int
  BY TimesAssumption DEF Held
<1>2. \A r \in R : r.uri = u /\ r.scope = s /\ r \in Row /\ r \in Live
                   /\ r.vf < to /\ from < r.vt /\ r.vf < r.vt
  BY DEF Held, Overlaps, StoreInv, WellFormed, TypeOK, Live
<1>3. \A n \in L : /\ n \in Row /\ n.st = Open /\ n.tx = writes + 1 /\ n.vf < n.vt
                   /\ n.uri = u /\ n.scope = s /\ n.vt = from
                   /\ \E r \in R : /\ n.vf = r.vf /\ r.vf < from
                                   /\ n = Version(r.uri, r.scope, r.body, r.vf, from, at)
  <2> SUFFICES ASSUME NEW n \in Left(R, from, at)
               PROVE  /\ n \in Row /\ n.st = Open /\ n.tx = writes + 1 /\ n.vf < n.vt
                      /\ n.uri = u /\ n.scope = s /\ n.vt = from
                      /\ \E r \in R : /\ n.vf = r.vf /\ r.vf < from
                                      /\ n = Version(r.uri, r.scope, r.body, r.vf, from, at)
    OBVIOUS
  <2> HIDE DEF R
  <2> QED BY <1>1, <1>2, LeftPieces
<1>4. \A n \in Rt : /\ n \in Row /\ n.st = Open /\ n.tx = writes + 1 /\ n.vf < n.vt
                    /\ n.uri = u /\ n.scope = s /\ n.vf = to
                    /\ \E r \in R : /\ n.vt = r.vt /\ to < r.vt
                                    /\ n = Version(r.uri, r.scope, r.body, to, r.vt, at)
  <2> SUFFICES ASSUME NEW n \in Right(R, to, at)
               PROVE  /\ n \in Row /\ n.st = Open /\ n.tx = writes + 1 /\ n.vf < n.vt
                      /\ n.uri = u /\ n.scope = s /\ n.vf = to
                      /\ \E r \in R : /\ n.vt = r.vt /\ to < r.vt
                                      /\ n = Version(r.uri, r.scope, r.body, to, r.vt, at)
    OBVIOUS
  <2> HIDE DEF R
  <2> QED BY <1>1, <1>2, RightPieces
<1>5. /\ e \in Row /\ e.st = Open /\ e.tx = writes + 1 /\ e.vf < e.vt
      /\ e.uri = u /\ e.scope = s /\ e.vf = from /\ e.vt = to
  BY <1>1, TimesAssumption, ClockAssumption DEF Version, Row, StoreInv, TypeOK
<1>6. \A r \in Live \ R : r.uri = u /\ r.scope = s =>
          /\ ~Overlaps(r, from, to)
          /\ \A q \in R : ~Overlaps(q, r.vf, r.vt)
          /\ r \in Row /\ r.vf < r.vt
  BY <1>2 DEF Held, StoreInv, NonOverlap, WellFormed, TypeOK, Live
<1>7. \A r, q \in R : r # q => ~Overlaps(r, q.vf, q.vt)
  BY <1>2 DEF StoreInv, NonOverlap
<1> HIDE DEF R, L, Rt, e
<1>8. \A n, m \in L : n # m => ~Overlaps(n, m.vf, m.vt)
  <2> SUFFICES ASSUME NEW n \in L, NEW m \in L, n # m, Overlaps(n, m.vf, m.vt)
               PROVE  FALSE
    OBVIOUS
  <2>1. PICK r \in R : n = Version(r.uri, r.scope, r.body, r.vf, from, at)
                       /\ n.vf = r.vf /\ r.vf < from
    BY <1>3
  <2>2. PICK q \in R : m = Version(q.uri, q.scope, q.body, q.vf, from, at)
                       /\ m.vf = q.vf /\ q.vf < from
    BY <1>3
  <2>3. r # q
    BY <2>1, <2>2
  <2> QED BY <2>1, <2>2, <2>3, <1>1, <1>2, <1>7 DEF Overlaps, Row
<1>9. \A n, m \in Rt : n # m => ~Overlaps(n, m.vf, m.vt)
  <2> SUFFICES ASSUME NEW n \in Rt, NEW m \in Rt, n # m, Overlaps(n, m.vf, m.vt)
               PROVE  FALSE
    OBVIOUS
  <2>1. PICK r \in R : n = Version(r.uri, r.scope, r.body, to, r.vt, at)
                       /\ n.vt = r.vt /\ to < r.vt
    BY <1>4
  <2>2. PICK q \in R : m = Version(q.uri, q.scope, q.body, to, q.vt, at)
                       /\ m.vt = q.vt /\ to < q.vt
    BY <1>4
  <2>3. r # q
    BY <2>1, <2>2
  <2> QED BY <2>1, <2>2, <2>3, <1>1, <1>2, <1>7 DEF Overlaps, Row
<1>10. /\ \A n \in L, m \in Rt : ~Overlaps(n, m.vf, m.vt) /\ ~Overlaps(m, n.vf, n.vt)
       /\ \A n \in L : ~Overlaps(n, e.vf, e.vt) /\ ~Overlaps(e, n.vf, n.vt)
       /\ \A n \in Rt : ~Overlaps(n, e.vf, e.vt) /\ ~Overlaps(e, n.vf, n.vt)
  BY <1>1, <1>3, <1>4, <1>5 DEF Overlaps, Row
<1>11. ASSUME NEW n \in L \cup Rt \cup {e}, NEW r \in Live \ R,
              n.uri = r.uri, n.scope = r.scope
       PROVE  ~Overlaps(n, r.vf, r.vt)
  <2>0. r.uri = u /\ r.scope = s
    BY <1>3, <1>4, <1>5, <1>11
  <2>1. CASE n \in L
    BY <2>0, <2>1, <1>1, <1>2, <1>3, <1>6 DEF Overlaps, Row
  <2>2. CASE n \in Rt
    BY <2>0, <2>2, <1>1, <1>2, <1>4, <1>6 DEF Overlaps, Row
  <2>3. CASE n = e
    BY <2>0, <2>3, <1>5, <1>6 DEF Overlaps
  <2> QED BY <1>11, <2>1, <2>2, <2>3
<1>12. \A n \in L \cup Rt \cup {e} :
         n \in Row /\ n.st = Open /\ n.tx = writes + 1 /\ n.vf < n.vt
  BY <1>3, <1>4, <1>5
<1>13. \A n, m \in L \cup Rt \cup {e} : n # m => ~Overlaps(n, m.vf, m.vt)
  BY <1>8, <1>9, <1>10
<1>14. Insertable(R, L \cup Rt \cup {e})
  BY <1>11, <1>12, <1>13 DEF Insertable
<1> QED BY <1>14 DEF R, L, Rt, e

\* What invalidate_in inserts: for each segment it cuts, the part before the
\* cut.
LEMMA InvalidateInserts ==
  ASSUME StoreInv, NEW u \in Uris, NEW S \in SUBSET Scopes, NEW cut \in Times,
         NEW at \in 1..MaxNow
  PROVE  LET R == {r \in Held(u, S) : r.vt > cut}
         IN  R \in SUBSET Live /\ Insertable(R, Left(R, cut, at))
<1> DEFINE R == {r \in Held(u, S) : r.vt > cut}
           L == Left(R, cut, at)
<1>1. R \in SUBSET Live /\ cut \in Int
  BY TimesAssumption DEF Held
<1>2. \A r \in R : r.uri = u /\ r \in Row /\ r \in Live /\ r.vf < r.vt /\ cut < r.vt
  BY <1>1 DEF Held, StoreInv, WellFormed, TypeOK, Live, Row
<1>3. \A r \in R, q \in Live : r # q /\ r.uri = q.uri /\ r.scope = q.scope
                              => ~Overlaps(r, q.vf, q.vt)
  BY <1>1 DEF StoreInv, NonOverlap
<1>4. \A q \in Live : q \in Row
  BY DEF Live, StoreInv, TypeOK
<1> HIDE DEF R
<1>5. \A n \in L : /\ n \in Row /\ n.st = Open /\ n.tx = writes + 1 /\ n.vf < n.vt
                   /\ n.vt = cut
                   /\ \E r \in R : /\ n = Version(r.uri, r.scope, r.body, r.vf, cut, at)
                                   /\ n.uri = r.uri /\ n.scope = r.scope /\ n.vf = r.vf
  BY <1>1, LeftPieces
<1> HIDE DEF L
<1>6. ASSUME NEW n \in L, NEW m \in L, n # m, n.uri = m.uri, n.scope = m.scope
      PROVE  ~Overlaps(n, m.vf, m.vt)
  <2>1. PICK r \in R : /\ n = Version(r.uri, r.scope, r.body, r.vf, cut, at)
                       /\ n.uri = r.uri /\ n.scope = r.scope /\ n.vf = r.vf
    BY <1>5
  <2>2. PICK q \in R : /\ m = Version(q.uri, q.scope, q.body, q.vf, cut, at)
                       /\ m.uri = q.uri /\ m.scope = q.scope /\ m.vf = q.vf
    BY <1>5
  <2>3. ~Overlaps(r, q.vf, q.vt)
    BY <2>1, <2>2, <1>1, <1>3, <1>6
  <2> QED BY <2>1, <2>2, <2>3, <1>1, <1>2, <1>5 DEF Overlaps, Row
<1>7. ASSUME NEW n \in L, NEW q \in Live \ R, n.uri = q.uri, n.scope = q.scope
      PROVE  ~Overlaps(n, q.vf, q.vt)
  <2>1. PICK r \in R : n.uri = r.uri /\ n.scope = r.scope /\ n.vf = r.vf
    BY <1>5
  <2>2. ~Overlaps(r, q.vf, q.vt)
    BY <2>1, <1>3, <1>7
  <2> QED BY <2>1, <2>2, <1>1, <1>2, <1>4, <1>5 DEF Overlaps, Row
<1>8. Insertable(R, L)
  BY <1>5, <1>6, <1>7 DEF Insertable
<1> QED BY <1>1, <1>8 DEF R, L

-----------------------------------------------------------------------------
\* Whom a mutation reaches is a set of scopes.
LEMMA ReachesScopes == \A S \in Reaches : S \in SUBSET Scopes
BY DEF Reaches

\* A retraction only removes edges.
LEMMA CascadeEdges ==
  ASSUME NEW u, NEW R, Cascade(u, R)
  PROVE  edges' \subseteq edges
BY DEF Cascade

\* The invariant holds initially and every step keeps it.
LEMMA InitStoreInv == Init => StoreInv
BY ClockAssumption
   DEF Init, StoreInv, TypeOK, WellFormed, RowIdentity, NonOverlap,
       KeywordIndexIsLive, Live, Idle

\* Every step of every writer preserves the invariant.
LEMMA StepStoreInv == StoreInv /\ [Next]_vars => StoreInv'
<1> SUFFICES ASSUME StoreInv, [Next]_vars PROVE StoreInv'
  OBVIOUS
<1>0. /\ edges \subseteq Edges /\ now \in 1..MaxNow
      /\ stamp \in [Writers -> 1..MaxNow \cup {Idle}]
      /\ rows \subseteq Row /\ writes \in Nat
      /\ fts \subseteq Uris \X Scopes \X Int \X Int
  BY DEF StoreInv, TypeOK
<1>1. ASSUME UNCHANGED <<rows, fts, writes>>, edges' \subseteq Edges,
             now' \in 1..MaxNow, stamp' \in [Writers -> 1..MaxNow \cup {Idle}]
      PROVE  StoreInv'
  BY <1>1 DEF StoreInv, TypeOK, WellFormed, RowIdentity, NonOverlap,
              KeywordIndexIsLive, Live, Overlaps, RowId
<1>2. ASSUME NEW R \in SUBSET Live, NEW new, Insertable(R, new),
             NEW at \in 1..MaxNow, Replace(R, new, at),
             edges' \subseteq Edges, now' \in 1..MaxNow,
             stamp' \in [Writers -> 1..MaxNow \cup {Idle}]
      PROVE  StoreInv'
  BY <1>2, ReplacePreserves DEF StoreInv, TypeOK
<1>3. ASSUME NEW w \in Writers, Done(w)
      PROVE  now' \in 1..MaxNow /\ stamp' \in [Writers -> 1..MaxNow \cup {Idle}]
  BY <1>0, <1>3 DEF Done
<1>4. ASSUME NEW w \in Writers, Pending(w) PROVE stamp[w] \in 1..MaxNow
  BY <1>0, <1>4 DEF Pending
<1>5. CASE Tick
  BY <1>0, <1>1, <1>5, ClockAssumption DEF Tick
<1>6. CASE \E w \in Writers : Stamp(w) \/ Abandon(w)
  BY <1>0, <1>1, <1>3, <1>6 DEF Stamp, Abandon
<1>7. ASSUME NEW w \in Writers, NEW u \in Uris, NEW s \in Scopes, NEW b \in Bodies,
             NEW from \in Times, NEW to \in Times \cup {Open},
             Put(w, u, s, b, from, to)
      PROVE  StoreInv'
  <2> DEFINE R == {r \in Held(u, {s}) : Overlaps(r, from, to)}
             new == Left(R, from, stamp[w]) \cup Right(R, to, stamp[w])
                      \cup {Version(u, s, b, from, to, stamp[w])}
  <2>1. from < to /\ stamp[w] \in 1..MaxNow /\ edges' \subseteq Edges /\ Done(w)
    BY <1>0, <1>4, <1>7 DEF Put
  <2>2. CASE AlreadyBelieved(u, s, b, from, to)
    BY <2>1, <2>2, <1>1, <1>3, <1>7 DEF Put
  <2>3. CASE ~AlreadyBelieved(u, s, b, from, to)
    <3>1. Replace(R, new, stamp[w])
      BY <2>3, <1>7 DEF Put
    <3>2. R \in SUBSET Live
      BY DEF Held
    <3>3. Insertable(R, new)
      BY <2>1, PutInserts
    <3> HIDE DEF R, new
    <3> QED BY <3>1, <3>2, <3>3, <2>1, <1>2, <1>3
  <2> QED BY <2>2, <2>3
<1>8. ASSUME NEW w \in Writers, NEW u \in Uris, NEW S \in Reaches, ForgetIn(w, u, S)
      PROVE  StoreInv'
  <2>1. stamp[w] \in 1..MaxNow /\ Done(w) /\ edges' \subseteq Edges
        /\ Replace(Held(u, S), {}, stamp[w])
    BY <1>0, <1>4, <1>8, CascadeEdges DEF ForgetIn
  <2>2. Held(u, S) \in SUBSET Live /\ Insertable(Held(u, S), {})
    BY DEF Held, Insertable
  <2> QED BY <2>1, <2>2, <1>2, <1>3
<1>9. ASSUME NEW w \in Writers, NEW u \in Uris, NEW S \in Reaches, NEW cut \in Times,
             InvalidateIn(w, u, cut, S)
      PROVE  StoreInv'
  <2> DEFINE R == {r \in Held(u, S) : r.vt > cut}
             new == Left(R, cut, stamp[w])
  <2>1. stamp[w] \in 1..MaxNow /\ Done(w) /\ edges' \subseteq Edges
        /\ Replace(R, new, stamp[w])
    BY <1>0, <1>4, <1>9, CascadeEdges DEF InvalidateIn
  <2>2. R \in SUBSET Live /\ Insertable(R, new)
    BY <2>1, ReachesScopes, InvalidateInserts
  <2> HIDE DEF R, new
  <2> QED BY <2>1, <2>2, <1>2, <1>3
<1>10. CASE \E w \in Writers : Mutate(w)
  BY <1>7, <1>8, <1>9, <1>10 DEF Mutate
<1>11. CASE \E e \in Edges : Link(e) \/ Unlink(e)
  BY <1>0, <1>1, <1>11 DEF Link, Unlink
<1>12. CASE PruneDanglingEdges
  BY <1>0, <1>1, <1>12 DEF PruneDanglingEdges
<1>13. CASE UNCHANGED vars
  BY <1>0, <1>1, <1>13 DEF vars
<1> QED BY <1>5, <1>6, <1>10, <1>11, <1>12, <1>13 DEF Next

\* The inductive invariant holds in every reachable state.
THEOREM StoreInvariant == Spec => []StoreInv
BY InitStoreInv, StepStoreInv, PTL DEF Spec

\* Every variable stays in its domain.
THEOREM StoreTypeOK == Spec => []TypeOK
<1>1. StoreInv => TypeOK
  BY DEF StoreInv
<1> QED BY <1>1, StoreInvariant, PTL

\* No two live segments of one record overlap, whatever saves, forgets and
\* invalidations the writers interleave.
THEOREM StoreNonOverlap == Spec => []NonOverlap
<1>1. StoreInv => NonOverlap
  BY DEF StoreInv
<1> QED BY <1>1, StoreInvariant, PTL

\* The keyword index holds exactly the live versions.
THEOREM StoreKeywordIndex == Spec => []KeywordIndexIsLive
<1>1. StoreInv => KeywordIndexIsLive
  BY DEF StoreInv
<1> QED BY <1>1, StoreInvariant, PTL

-----------------------------------------------------------------------------
(* What no step may do to the past, to the graph and to the timeline that  *)
(* the store implements.                                                   *)

\* Every step that touches a row is one transaction of one writer: it closes
\* some live rows and inserts others, all stamped with the time it read.
LEMMA StepReplaces ==
  ASSUME StoreInv, [Next]_vars
  PROVE  \/ UNCHANGED <<rows, fts, writes>>
         \/ \E w \in Writers, R \in SUBSET Live, new \in SUBSET Row :
              /\ stamp[w] \in 1..MaxNow
              /\ Insertable(R, new)
              /\ \A n \in new : n.sf = stamp[w]
              /\ Replace(R, new, stamp[w])
<1>0. stamp \in [Writers -> 1..MaxNow \cup {Idle}]
  BY DEF StoreInv, TypeOK
<1>1. ASSUME NEW w \in Writers, NEW u \in Uris, NEW s \in Scopes, NEW b \in Bodies,
             NEW from \in Times, NEW to \in Times \cup {Open},
             Put(w, u, s, b, from, to), ~AlreadyBelieved(u, s, b, from, to)
      PROVE  \E R \in SUBSET Live, new \in SUBSET Row :
               /\ stamp[w] \in 1..MaxNow /\ Insertable(R, new)
               /\ \A n \in new : n.sf = stamp[w]
               /\ Replace(R, new, stamp[w])
  <2> DEFINE R == {r \in Held(u, {s}) : Overlaps(r, from, to)}
             new == Left(R, from, stamp[w]) \cup Right(R, to, stamp[w])
                      \cup {Version(u, s, b, from, to, stamp[w])}
  <2>1. from < to /\ stamp[w] \in 1..MaxNow /\ Replace(R, new, stamp[w])
    BY <1>0, <1>1 DEF Put, Pending
  <2>2. R \in SUBSET Live /\ Insertable(R, new)
    BY <2>1, PutInserts DEF Held
  <2>3. \A n \in new : n.sf = stamp[w]
    BY DEF Left, Right, Version
  <2>4. new \in SUBSET Row
    BY <2>2 DEF Insertable
  <2> HIDE DEF R, new
  <2> QED BY <2>1, <2>2, <2>3, <2>4
<1>2. ASSUME NEW w \in Writers, NEW u \in Uris, NEW S \in Reaches, ForgetIn(w, u, S)
      PROVE  \E R \in SUBSET Live, new \in SUBSET Row :
               /\ stamp[w] \in 1..MaxNow /\ Insertable(R, new)
               /\ \A n \in new : n.sf = stamp[w]
               /\ Replace(R, new, stamp[w])
  <2>1. stamp[w] \in 1..MaxNow /\ Replace(Held(u, S), {}, stamp[w])
    BY <1>0, <1>2 DEF ForgetIn, Pending
  <2>2. Held(u, S) \in SUBSET Live /\ Insertable(Held(u, S), {})
    BY DEF Held, Insertable
  <2> QED BY <2>1, <2>2
<1>3. ASSUME NEW w \in Writers, NEW u \in Uris, NEW S \in Reaches, NEW cut \in Times,
             InvalidateIn(w, u, cut, S)
      PROVE  \E R \in SUBSET Live, new \in SUBSET Row :
               /\ stamp[w] \in 1..MaxNow /\ Insertable(R, new)
               /\ \A n \in new : n.sf = stamp[w]
               /\ Replace(R, new, stamp[w])
  <2> DEFINE R == {r \in Held(u, S) : r.vt > cut}
             new == Left(R, cut, stamp[w])
  <2>1. stamp[w] \in 1..MaxNow /\ Replace(R, new, stamp[w])
    BY <1>0, <1>3 DEF InvalidateIn, Pending
  <2>2. R \in SUBSET Live /\ Insertable(R, new)
    BY <2>1, ReachesScopes, InvalidateInserts
  <2>3. \A n \in new : n.sf = stamp[w]
    BY DEF Left, Version
  <2>4. new \in SUBSET Row
    BY <2>2 DEF Insertable
  <2> HIDE DEF R, new
  <2> QED BY <2>1, <2>2, <2>3, <2>4
<1>4. CASE \E w \in Writers : Mutate(w)
  <2>1. PICK w \in Writers : Mutate(w)
    BY <1>4
  <2>2. CASE \E u \in Uris, s \in Scopes, b \in Bodies, from \in Times,
                to \in Times \cup {Open} : Put(w, u, s, b, from, to)
    <3>1. PICK u \in Uris, s \in Scopes, b \in Bodies, from \in Times,
               to \in Times \cup {Open} : Put(w, u, s, b, from, to)
      BY <2>2
    <3>2. CASE AlreadyBelieved(u, s, b, from, to)
      BY <3>1, <3>2 DEF Put
    <3> QED BY <3>1, <3>2, <1>1
  <2> QED BY <2>1, <2>2, <1>2, <1>3 DEF Mutate
<1> QED BY <1>4 DEF Next, vars, Tick, Stamp, Abandon, Link, Unlink, PruneDanglingEdges

-----------------------------------------------------------------------------
\* "Nothing is overwritten": a committed version keeps every column it was
\* inserted with, and its system time is closed at most once.
THEOREM StoreAppendOnly == Spec => AppendOnly
<1>1. ASSUME StoreInv, [Next]_vars
      PROVE  \A r \in rows :
               \/ r \in rows'
               \/ r.st = Open /\ \E q \in rows' : q.st # Open /\ q = [r EXCEPT !.st = q.st]
  <2> SUFFICES ASSUME NEW r \in rows, r \notin rows'
               PROVE  r.st = Open /\ \E q \in rows' : q.st # Open /\ q = [r EXCEPT !.st = q.st]
    OBVIOUS
  <2>1. PICK w \in Writers, R \in SUBSET Live, new \in SUBSET Row :
             stamp[w] \in 1..MaxNow /\ Replace(R, new, stamp[w])
    BY <1>1, StepReplaces
  <2>2. r \in R /\ r.st = Open /\ r \in Row
    BY <2>1, <1>1 DEF Replace, Live, StoreInv, TypeOK
  <2>3. [r EXCEPT !.st = stamp[w]] \in rows'
    BY <2>1, <2>2 DEF Replace
  <2>4. /\ [r EXCEPT !.st = stamp[w]].st = stamp[w]
        /\ stamp[w] # Open
    BY <2>1, <2>2, ClockAssumption, TimesAssumption DEF Row
  <2> QED BY <2>2, <2>3, <2>4
<1>2. StoreInv /\ [Next]_vars =>
        [\A r \in rows :
           \/ r \in rows'
           \/ r.st = Open /\ \E q \in rows' : q.st # Open /\ q = [r EXCEPT !.st = q.st]]_rows
  BY <1>1
<1> QED BY <1>2, StoreInvariant, PTL DEF Spec, AppendOnly

\* The past is settled: no step changes what recall as of t answers once the
\* clock has passed t and no writer holds a stamp at or before t.
THEOREM StoreAsOfSettled == Spec => AsOfSettled
<1> DEFINE Settled(t) == \A w \in Writers : stamp[w] = Idle \/ t < stamp[w]
<1>1. ASSUME StoreInv, [Next]_vars, NEW t \in 0..(now - 1), Settled(t)
      PROVE  AsOf(t)' = AsOf(t)
  <2>0. t \in Int /\ t < Open /\ rows \subseteq Row /\ Open \in Int
    BY <1>1, ClockAssumption, TimesAssumption DEF StoreInv, TypeOK
  <2>1. CASE UNCHANGED rows
    BY <2>1 DEF AsOf
  <2>2. CASE \E w \in Writers, R \in SUBSET Live, new \in SUBSET Row :
               /\ stamp[w] \in 1..MaxNow
               /\ \A n \in new : n.sf = stamp[w]
               /\ Replace(R, new, stamp[w])
    <3>1. PICK w \in Writers, R \in SUBSET Live, new \in SUBSET Row :
               /\ stamp[w] \in 1..MaxNow
               /\ \A n \in new : n.sf = stamp[w]
               /\ Replace(R, new, stamp[w])
      BY <2>2
    <3> DEFINE at == stamp[w]
               Closed == {[r EXCEPT !.st = at] : r \in R}
    <3>2. t < at /\ at \in Int
      BY <1>1, <3>1, <2>0 DEF Idle
    <3>3. rows' = (rows \ R) \cup Closed \cup new /\ R \subseteq rows
      BY <3>1 DEF Replace, Live
    <3>4. \A r \in R : LET c == [r EXCEPT !.st = at]
                      IN  /\ r.st = Open /\ c.st = at /\ c.sf = r.sf /\ c.uri = r.uri
                          /\ c.scope = r.scope /\ c.body = r.body /\ c.vf = r.vf /\ c.vt = r.vt
      BY <2>0, <3>3 DEF Row, Live
    <3>5. ASSUME NEW r \in rows, r.sf <= t, t < r.st
          PROVE  <<r.uri, r.scope, r.body, r.vf, r.vt>> \in AsOf(t)'
      <4>1. CASE r \in R
        <5>1. [r EXCEPT !.st = at] \in rows'
          BY <3>3, <4>1
        <5> QED BY <5>1, <3>2, <3>4, <3>5, <4>1 DEF AsOf
      <4>2. CASE r \notin R
        BY <3>3, <3>5, <4>2 DEF AsOf
      <4> QED BY <4>1, <4>2
    <3>6. ASSUME NEW q \in rows', q.sf <= t, t < q.st
          PROVE  <<q.uri, q.scope, q.body, q.vf, q.vt>> \in AsOf(t)
      <4>1. CASE q \in Closed
        <5>1. PICK r \in R : q = [r EXCEPT !.st = at]
          BY <4>1
        <5> QED BY <5>1, <3>2, <3>3, <3>4, <3>6, <2>0 DEF AsOf
      <4>2. CASE q \in new
        BY <3>1, <3>2, <3>6, <4>2, <2>0
      <4>3. CASE q \in rows
        BY <3>6, <4>3 DEF AsOf
      <4> QED BY <3>3, <4>1, <4>2, <4>3
    <3>7. AsOf(t) \subseteq AsOf(t)'
      <4> SUFFICES ASSUME NEW z \in AsOf(t) PROVE z \in AsOf(t)'
        OBVIOUS
      <4>1. PICK r \in rows : /\ r.sf <= t /\ t < r.st
                             /\ z = <<r.uri, r.scope, r.body, r.vf, r.vt>>
        BY DEF AsOf
      <4> QED BY <4>1, <3>5
    <3>8. AsOf(t)' \subseteq AsOf(t)
      <4> SUFFICES ASSUME NEW z \in AsOf(t)' PROVE z \in AsOf(t)
        OBVIOUS
      <4>1. PICK q \in rows' : /\ q.sf <= t /\ t < q.st
                              /\ z = <<q.uri, q.scope, q.body, q.vf, q.vt>>
        BY DEF AsOf
      <4> QED BY <4>1, <3>6
    <3> QED BY <3>7, <3>8
  <2> QED BY <2>1, <2>2, <1>1, StepReplaces
<1>2. StoreInv /\ [Next]_vars =>
        [\A t \in 0..(now - 1) :
           (\A w \in Writers : stamp[w] = Idle \/ t < stamp[w]) => AsOf(t)' = AsOf(t)]_vars
  BY <1>1
<1> QED BY <1>2, StoreInvariant, PTL DEF Spec, AsOfSettled

-----------------------------------------------------------------------------
\* A retraction leaves exactly the edges that kept both their live endpoints.
LEMMA RetractionEdges ==
  ASSUME StoreInv, NEW u \in Uris, NEW R \in SUBSET Live, NEW new, NEW at \in 1..MaxNow,
         Insertable(R, new), Replace(R, new, at), Cascade(u, R),
         \A r \in R : r.uri = u, \A n \in new : n.uri = u, R # {}
  PROVE  edges' = {e \in edges : \A v \in {e[1], e[2]} :
                                  HasLiveRow(rows, v) => HasLiveRow(rows', v)}
<1>1. Live' = (Live \ R) \cup new
  BY ReplacePreserves
<1>2. \A v : HasLiveRow(rows, v) <=> \E r \in Live : r.uri = v
  BY DEF HasLiveRow, Live
<1>3. \A v : HasLiveRow(rows', v) <=> \E r \in Live' : r.uri = v
  BY DEF HasLiveRow, Live
<1>4. HasLiveRow(rows, u)
  BY <1>2
<1>5. ASSUME NEW v, v # u PROVE HasLiveRow(rows, v) => HasLiveRow(rows', v)
  BY <1>1, <1>2, <1>3, <1>5
<1>6. CASE HasLiveRow(rows', u)
  BY <1>5, <1>6 DEF Cascade
<1>7. CASE ~HasLiveRow(rows', u)
  BY <1>4, <1>5, <1>7 DEF Cascade
<1> QED BY <1>6, <1>7

\* A mutation drops the edges of the uri whose last live row it closed, and
\* no other edge.
THEOREM StoreEdges == Spec => EdgesGoWithLastLiveRow
<1> DEFINE Kept == {e \in edges : \A v \in {e[1], e[2]} :
                                   HasLiveRow(rows, v) => HasLiveRow(rows', v)}
<1>1. ASSUME StoreInv, [Next]_vars, rows' # rows PROVE edges' = Kept
  <2>0. stamp \in [Writers -> 1..MaxNow \cup {Idle}]
    BY <1>1 DEF StoreInv, TypeOK
  <2>1. PICK w \in Writers, u \in Uris :
          \/ \E s \in Scopes, b \in Bodies, from \in Times, to \in Times \cup {Open} :
               Put(w, u, s, b, from, to)
          \/ \E S \in Reaches :
               ForgetIn(w, u, S) \/ \E cut \in Times : InvalidateIn(w, u, cut, S)
    BY <1>1 DEF Next, vars, Tick, Stamp, Abandon, Link, Unlink, PruneDanglingEdges, Mutate
  <2>2. ASSUME NEW s \in Scopes, NEW b \in Bodies, NEW from \in Times,
               NEW to \in Times \cup {Open}, Put(w, u, s, b, from, to)
        PROVE  edges' = Kept
    <3> DEFINE R == {r \in Held(u, {s}) : Overlaps(r, from, to)}
               e == Version(u, s, b, from, to, stamp[w])
               new == Left(R, from, stamp[w]) \cup Right(R, to, stamp[w]) \cup {e}
    <3>1. from < to /\ stamp[w] \in 1..MaxNow /\ Replace(R, new, stamp[w]) /\ edges' = edges
      BY <1>1, <2>0, <2>2 DEF Put, Pending
    <3>2. R \in SUBSET Live /\ Insertable(R, new)
      BY <1>1, <3>1, PutInserts DEF Held
    <3>3. e \in new /\ e.uri = u /\ \A r \in R : r.uri = u
      BY DEF Version, Held
    <3> HIDE DEF R, new, e
    <3>4. Live' = (Live \ R) \cup new
      BY <1>1, <3>1, <3>2, ReplacePreserves
    <3>5. \A v : HasLiveRow(rows, v) => HasLiveRow(rows', v)
      BY <3>3, <3>4 DEF HasLiveRow, Live
    <3> QED BY <3>1, <3>5
  <2>3. ASSUME NEW S \in Reaches, ForgetIn(w, u, S)
        PROVE  edges' = Kept
    <3>1. /\ stamp[w] \in 1..MaxNow /\ Replace(Held(u, S), {}, stamp[w])
          /\ Cascade(u, Held(u, S))
      BY <2>0, <2>3 DEF ForgetIn, Pending
    <3>2. /\ Held(u, S) \in SUBSET Live /\ Insertable(Held(u, S), {})
          /\ \A r \in Held(u, S) : r.uri = u
      BY DEF Held, Insertable
    <3>3. Held(u, S) # {}
      BY <1>1, <3>1 DEF Replace
    <3> QED BY <1>1, <3>1, <3>2, <3>3, RetractionEdges
  <2>4. ASSUME NEW S \in Reaches, NEW cut \in Times, InvalidateIn(w, u, cut, S)
        PROVE  edges' = Kept
    <3> DEFINE R == {r \in Held(u, S) : r.vt > cut}
               new == Left(R, cut, stamp[w])
    <3>1. stamp[w] \in 1..MaxNow /\ Replace(R, new, stamp[w]) /\ Cascade(u, R)
      BY <2>0, <2>4 DEF InvalidateIn, Pending
    <3>2. R \in SUBSET Live /\ Insertable(R, new)
      BY <1>1, <3>1, ReachesScopes, InvalidateInserts
    <3>3. (\A r \in R : r.uri = u) /\ \A n \in new : n.uri = u
      BY DEF Held, Left, Version
    <3>4. R = {} => new = {}
      BY DEF Left
    <3> HIDE DEF R, new
    <3>5. R # {}
      BY <1>1, <3>1, <3>4 DEF Replace
    <3> QED BY <1>1, <3>1, <3>2, <3>3, <3>5, RetractionEdges
  <2> QED BY <2>1, <2>2, <2>3, <2>4
<1>2. StoreInv /\ [Next]_vars => [rows' # rows => edges' = EdgesKept]_vars
  BY <1>1 DEF EdgesKept
<1> QED BY <1>2, StoreInvariant, PTL DEF Spec, EdgesGoWithLastLiveRow

-----------------------------------------------------------------------------
(* The timeline.                                                           *)

\* What a set of live rows says at instant t.
Says(rs, x) ==
  \E r \in rs : \E t \in Times :
    r.vf <= t /\ t < r.vt /\ x = <<r.uri, r.scope, t, r.body>>

\* Membership in Believed, spelled out.
LEMMA BelievedIff == \A x : x \in Believed <=> Says(Live, x)
BY DEF Believed, Says

\* The same of the next state.
LEMMA BelievedIffPrime == \A x : x \in Believed' <=> Says(Live', x)
BY DEF Believed, Says

\* The initial table believes nothing.
LEMMA TimelineInitial == Init => T!TimelineInit
BY DEF Init, T!TimelineInit, Believed, Live

\* A save moves the believed body of its record over its interval, and
\* nothing else: the remainders say what the closed segments said outside it.
LEMMA PutAsserts ==
  ASSUME StoreInv, NEW w \in Writers, NEW u \in Uris, NEW s \in Scopes, NEW b \in Bodies,
         NEW from \in Times, NEW to \in Times \cup {Open}, Put(w, u, s, b, from, to)
  PROVE  T!Assert(u, s, b, from, to)
<1> DEFINE Span == {t \in Times : from <= t /\ t < to}
           Elsewhere == {x \in Believed : ~(x[1] = u /\ x[2] = s /\ x[3] \in Span)}
           Now == {<<u, s, t, b>> : t \in Span}
<1>0. /\ from < to /\ from \in Int /\ to \in Int /\ Times \subseteq Int
      /\ rows \subseteq Row /\ \A r \in Live : r \in Row /\ r.vf < r.vt
      /\ stamp[w] \in 1..MaxNow
  BY TimesAssumption DEF Put, StoreInv, TypeOK, Live, WellFormed, Pending
<1>1. Believed' = Elsewhere \cup Now
  <2>1. CASE AlreadyBelieved(u, s, b, from, to)
    <3>1. Believed' = Believed
      BY <2>1 DEF Put, Believed, Live
    <3>2. PICK r \in Live : /\ r.uri = u /\ r.scope = s /\ r.body = b
                            /\ r.vf <= from /\ r.vt >= to
      BY <2>1 DEF AlreadyBelieved, Held
    <3>3. Now \subseteq Believed
      <4> SUFFICES ASSUME NEW t \in Span PROVE <<u, s, t, b>> \in Believed
        OBVIOUS
      <4>1. r.vf <= t /\ t < r.vt
        BY <3>2, <1>0 DEF Row
      <4> QED BY <4>1, <3>2, BelievedIff DEF Says
    <3>4. ASSUME NEW x \in Believed, x \notin Elsewhere PROVE x \in Now
      <4>1. PICK q \in Live : \E t \in Times :
              q.vf <= t /\ t < q.vt /\ x = <<q.uri, q.scope, t, q.body>>
        BY BelievedIff DEF Says
      <4>2. PICK t \in Span : q.vf <= t /\ t < q.vt /\ x = <<u, s, t, q.body>>
                              /\ q.uri = u /\ q.scope = s
        BY <4>1, <3>4
      <4>3. Overlaps(r, q.vf, q.vt)
        BY <4>2, <3>2, <1>0 DEF Overlaps, Row
      <4>4. q = r
        BY <4>2, <4>3, <3>2 DEF StoreInv, NonOverlap
      <4> QED BY <4>2, <4>4, <3>2
    <3> QED BY <3>1, <3>3, <3>4
  <2>2. CASE ~AlreadyBelieved(u, s, b, from, to)
    <3> DEFINE R == {r \in Held(u, {s}) : Overlaps(r, from, to)}
               L == Left(R, from, stamp[w])
               Rt == Right(R, to, stamp[w])
               e == Version(u, s, b, from, to, stamp[w])
               new == L \cup Rt \cup {e}
    <3>1. Replace(R, new, stamp[w])
      BY <2>2 DEF Put
    <3>2. R \in SUBSET Live /\ Insertable(R, new)
      BY <1>0, PutInserts DEF Held
    <3>3. \A r \in R : r.uri = u /\ r.scope = s
      BY DEF Held
    <3>4. e.uri = u /\ e.scope = s /\ e.body = b /\ e.vf = from /\ e.vt = to
      BY DEF Version
    <3>5. \A r \in Live \ R : r.uri = u /\ r.scope = s => ~Overlaps(r, from, to)
      BY DEF Held
    <3>6. \A n \in L : \E r \in R : /\ n.uri = r.uri /\ n.scope = r.scope /\ n.body = r.body
                                   /\ n.vf = r.vf /\ n.vt = from /\ r.vf < from
      BY DEF Left, Version
    <3>7. \A n \in Rt : \E r \in R : /\ n.uri = r.uri /\ n.scope = r.scope /\ n.body = r.body
                                    /\ n.vf = to /\ n.vt = r.vt /\ to < r.vt
      BY DEF Right, Version
    <3>8. \A r \in R : r.vf < from =>
            \E n \in L : /\ n.uri = r.uri /\ n.scope = r.scope /\ n.body = r.body
                        /\ n.vf = r.vf /\ n.vt = from
      <4> SUFFICES ASSUME NEW r \in R, r.vf < from
                   PROVE  Version(r.uri, r.scope, r.body, r.vf, from, stamp[w]) \in L
        BY DEF Version
      <4> HIDE DEF R
      <4> QED BY DEF Left
    <3>9. \A r \in R : to < r.vt =>
            \E n \in Rt : /\ n.uri = r.uri /\ n.scope = r.scope /\ n.body = r.body
                         /\ n.vf = to /\ n.vt = r.vt
      <4> SUFFICES ASSUME NEW r \in R, to < r.vt
                   PROVE  Version(r.uri, r.scope, r.body, to, r.vt, stamp[w]) \in Rt
        BY DEF Version
      <4> HIDE DEF R
      <4> QED BY DEF Right
    <3>10. \A r \in R : r.vf < to /\ from < r.vt
      BY DEF Overlaps
    <3> HIDE DEF R, L, Rt, e
    <3>11. Live' = (Live \ R) \cup new
      BY <1>0, <3>1, <3>2, ReplacePreserves
    <3>12. ASSUME NEW x \in Believed' PROVE x \in Elsewhere \cup Now
      <4>1. PICK n \in Live', t \in Times :
              n.vf <= t /\ t < n.vt /\ x = <<n.uri, n.scope, t, n.body>>
        BY BelievedIffPrime DEF Says
      <4>2. CASE n \in Live \ R
        <5>1. x \in Believed
          BY <4>1, <4>2, BelievedIff DEF Says
        <5>2. ~(x[1] = u /\ x[2] = s /\ x[3] \in Span)
          BY <4>1, <4>2, <3>5, <1>0 DEF Overlaps, Row
        <5> QED BY <5>1, <5>2
      <4>3. CASE n \in L
        <5>1. PICK r \in R : /\ n.uri = r.uri /\ n.scope = r.scope /\ n.body = r.body
                             /\ n.vf = r.vf /\ n.vt = from
          BY <3>6, <4>3
        <5>2. r.vf <= t /\ t < r.vt /\ ~(from <= t)
          BY <4>1, <5>1, <3>2, <3>10, <1>0 DEF Row
        <5>3. x \in Believed
          BY <4>1, <5>1, <5>2, <3>2, BelievedIff DEF Says
        <5> QED BY <4>1, <5>2, <5>3
      <4>4. CASE n \in Rt
        <5>1. PICK r \in R : /\ n.uri = r.uri /\ n.scope = r.scope /\ n.body = r.body
                             /\ n.vf = to /\ n.vt = r.vt
          BY <3>7, <4>4
        <5>2. r.vf <= t /\ t < r.vt /\ ~(t < to)
          BY <4>1, <5>1, <3>2, <3>10, <1>0 DEF Row
        <5>3. x \in Believed
          BY <4>1, <5>1, <5>2, <3>2, BelievedIff DEF Says
        <5> QED BY <4>1, <5>2, <5>3
      <4>5. CASE n = e
        BY <4>1, <4>5, <3>4
      <4> QED BY <4>2, <4>3, <4>4, <4>5, <3>11
    <3>13. ASSUME NEW x \in Elsewhere PROVE x \in Believed'
      <4>1. PICK r \in Live, t \in Times :
              r.vf <= t /\ t < r.vt /\ x = <<r.uri, r.scope, t, r.body>>
        BY <3>13, BelievedIff DEF Says
      <4>2. CASE r \notin R
        BY <4>1, <4>2, <3>11, BelievedIffPrime DEF Says
      <4>3. CASE r \in R /\ t < from
        <5>1. r.vf < from
          BY <4>1, <4>3, <1>0 DEF Row
        <5>2. PICK n \in L : /\ n.uri = r.uri /\ n.scope = r.scope /\ n.body = r.body
                             /\ n.vf = r.vf /\ n.vt = from
          BY <5>1, <4>3, <3>8
        <5> QED BY <4>1, <4>3, <5>2, <3>11, BelievedIffPrime DEF Says
      <4>4. CASE r \in R /\ ~(t < from)
        <5>1. to <= t
          BY <4>1, <4>4, <3>3, <1>0
        <5>2. to < r.vt
          BY <4>1, <5>1, <1>0 DEF Row
        <5>3. PICK n \in Rt : /\ n.uri = r.uri /\ n.scope = r.scope /\ n.body = r.body
                              /\ n.vf = to /\ n.vt = r.vt
          BY <5>2, <4>4, <3>9
        <5> QED BY <4>1, <5>1, <5>3, <3>11, BelievedIffPrime DEF Says
      <4> QED BY <4>2, <4>3, <4>4
    <3>14. ASSUME NEW t \in Span PROVE <<u, s, t, b>> \in Believed'
      BY <3>4, <3>11, BelievedIffPrime DEF Says
    <3> QED BY <3>12, <3>13, <3>14
  <2> QED BY <2>1, <2>2
<1> QED BY <1>1 DEF T!Assert, T!Span

\* Whatever its idempotence test finds, a save that returns Ok is believed
\* for exactly the interval it asserts, and moves nothing else.
THEOREM StoreSaveIsBelieved == Spec => SaveIsBelieved
<1> DEFINE Saved ==
      \A w \in Writers, u \in Uris, s \in Scopes, b \in Bodies, from \in Times,
         to \in Times \cup {Open} :
        Put(w, u, s, b, from, to) => T!Assert(u, s, b, from, to)
<1>1. StoreInv => Saved
  BY PutAsserts
<1> HIDE DEF Saved
<1>2. Spec => [][Saved]_vars
  BY <1>1, StoreInvariant, PTL
<1> QED BY <1>2 DEF SaveIsBelieved, Saved

\* A forget retracts what the reached scopes believe of the uri.
LEMMA ForgetRetracts ==
  ASSUME StoreInv, NEW w \in Writers, NEW u \in Uris, NEW S \in Reaches, ForgetIn(w, u, S)
  PROVE  T!Retract(u, S)
<1>1. stamp[w] \in 1..MaxNow /\ Replace(Held(u, S), {}, stamp[w])
  BY DEF ForgetIn, Pending, StoreInv, TypeOK
<1>2. Held(u, S) \in SUBSET Live /\ Insertable(Held(u, S), {})
  BY DEF Held, Insertable
<1>3. Live' = Live \ Held(u, S)
  <2> DEFINE R == Held(u, S)
             at == stamp[w]
  <2> R \in SUBSET Live /\ at \in 1..MaxNow /\ Insertable(R, {}) /\ Replace(R, {}, at)
    BY <1>1, <1>2
  <2> HIDE DEF R, at
  <2>1. Live' = (Live \ R) \cup {}
    BY ReplacePreserves
  <2> QED BY <2>1 DEF R
<1>4. Live' = {r \in Live : ~(r.uri = u /\ r.scope \in S)}
  BY <1>3 DEF Held
<1>5. \A x : x \in Believed' <=> x \in Believed /\ ~(x[1] = u /\ x[2] \in S)
  <2>1. ASSUME NEW x \in Believed' PROVE x \in Believed /\ ~(x[1] = u /\ x[2] \in S)
    <3>1. PICK r \in Live', t \in Times :
            r.vf <= t /\ t < r.vt /\ x = <<r.uri, r.scope, t, r.body>>
      BY BelievedIffPrime DEF Says
    <3>2. r \in Live /\ ~(r.uri = u /\ r.scope \in S)
      BY <1>4
    <3>3. x \in Believed
      BY <3>1, <3>2, BelievedIff DEF Says
    <3> QED BY <3>1, <3>2, <3>3
  <2>2. ASSUME NEW x \in Believed, ~(x[1] = u /\ x[2] \in S) PROVE x \in Believed'
    <3>1. PICK r \in Live, t \in Times :
            r.vf <= t /\ t < r.vt /\ x = <<r.uri, r.scope, t, r.body>>
      BY BelievedIff DEF Says
    <3>2. r \in Live'
      BY <2>2, <3>1, <1>4
    <3> QED BY <3>1, <3>2, BelievedIffPrime DEF Says
  <2> QED BY <2>1, <2>2
<1> QED BY <1>5 DEF T!Retract

\* An invalidation ends what the reached scopes believe of the uri at the cut.
LEMMA InvalidateEnds ==
  ASSUME StoreInv, NEW w \in Writers, NEW u \in Uris, NEW S \in Reaches, NEW cut \in Times,
         InvalidateIn(w, u, cut, S)
  PROVE  T!EndAt(u, S, cut)
<1> DEFINE R == {r \in Held(u, S) : r.vt > cut}
           L == Left(R, cut, stamp[w])
<1>0. /\ stamp[w] \in 1..MaxNow /\ Replace(R, L, stamp[w])
      /\ cut \in Int /\ Times \subseteq Int
      /\ \A r \in Live : r \in Row /\ r.vf < r.vt
  BY TimesAssumption DEF InvalidateIn, Pending, StoreInv, TypeOK, WellFormed, Live
<1>1. R \in SUBSET Live /\ Insertable(R, L)
  BY <1>0, ReachesScopes, InvalidateInserts
<1>2. \A r \in R : r.uri = u /\ r.scope \in S /\ r.vt > cut
  BY DEF Held
<1>3. \A r \in Live \ R : r.uri = u /\ r.scope \in S => ~(r.vt > cut)
  BY DEF Held
<1>4. \A n \in L : \E r \in R : /\ n.uri = r.uri /\ n.scope = r.scope /\ n.body = r.body
                               /\ n.vf = r.vf /\ n.vt = cut
  BY DEF Left, Version
<1> HIDE DEF R
<1>5. \A r \in R : r.vf < cut =>
        \E n \in L : /\ n.uri = r.uri /\ n.scope = r.scope /\ n.body = r.body
                    /\ n.vf = r.vf /\ n.vt = cut
  <2> SUFFICES ASSUME NEW r \in R, r.vf < cut
               PROVE  Version(r.uri, r.scope, r.body, r.vf, cut, stamp[w]) \in L
    BY DEF Version
  <2> QED BY DEF Left
<1> HIDE DEF L
<1>6. Live' = (Live \ R) \cup L
  BY <1>0, <1>1, ReplacePreserves
<1>7. ASSUME NEW x \in Believed' PROVE x \in Believed /\ ~(x[1] = u /\ x[2] \in S /\ x[3] >= cut)
  <2>1. PICK n \in Live', t \in Times :
          n.vf <= t /\ t < n.vt /\ x = <<n.uri, n.scope, t, n.body>>
    BY BelievedIffPrime DEF Says
  <2>2. CASE n \in Live \ R
    <3>1. x \in Believed
      BY <2>1, <2>2, BelievedIff DEF Says
    <3>2. ~(x[1] = u /\ x[2] \in S /\ x[3] >= cut)
      BY <2>1, <2>2, <1>3, <1>0 DEF Row
    <3> QED BY <3>1, <3>2
  <2>3. CASE n \in L
    <3>1. PICK r \in R : /\ n.uri = r.uri /\ n.scope = r.scope /\ n.body = r.body
                         /\ n.vf = r.vf /\ n.vt = cut
      BY <2>3, <1>4
    <3>2. r \in Live /\ r.vf <= t /\ t < r.vt /\ ~(t >= cut)
      BY <2>1, <3>1, <1>0, <1>1, <1>2 DEF Row
    <3>3. x \in Believed
      BY <2>1, <3>1, <3>2, BelievedIff DEF Says
    <3> QED BY <2>1, <3>2, <3>3
  <2> QED BY <2>2, <2>3, <1>6
<1>8. ASSUME NEW x \in Believed, ~(x[1] = u /\ x[2] \in S /\ x[3] >= cut)
      PROVE  x \in Believed'
  <2>1. PICK r \in Live, t \in Times :
          r.vf <= t /\ t < r.vt /\ x = <<r.uri, r.scope, t, r.body>>
    BY BelievedIff DEF Says
  <2>2. CASE r \notin R
    BY <2>1, <2>2, <1>6, BelievedIffPrime DEF Says
  <2>3. CASE r \in R
    <3>1. t < cut /\ r.vf < cut
      BY <2>1, <2>3, <1>0, <1>2, <1>8 DEF Row
    <3>2. PICK n \in L : /\ n.uri = r.uri /\ n.scope = r.scope /\ n.body = r.body
                         /\ n.vf = r.vf /\ n.vt = cut
      BY <2>3, <3>1, <1>5
    <3> QED BY <2>1, <3>1, <3>2, <1>6, BelievedIffPrime DEF Says
  <2> QED BY <2>2, <2>3
<1> QED BY <1>7, <1>8 DEF T!EndAt

\* The store implements the timeline: every transaction, however it splits
\* and closes versions, is one assertion, retraction or ending of belief.
THEOREM StoreImplementsTimeline == Spec => ImplementsTimeline
<1>1. StoreInv /\ [Next]_vars => [T!TimelineNext]_Believed
  <2> SUFFICES ASSUME StoreInv, [Next]_vars PROVE [T!TimelineNext]_Believed
    OBVIOUS
  <2>1. CASE UNCHANGED rows
    BY <2>1 DEF Believed, Live
  <2>2. ASSUME NEW w \in Writers, NEW u \in Uris, NEW s \in Scopes, NEW b \in Bodies,
               NEW from \in Times, NEW to \in Times \cup {Open},
               Put(w, u, s, b, from, to)
        PROVE  T!TimelineNext
    <3>1. T!Assert(u, s, b, from, to) /\ from < to
      BY <2>2, PutAsserts DEF Put
    <3> QED BY <3>1 DEF T!TimelineNext
  <2>3. ASSUME NEW w \in Writers, NEW u \in Uris, NEW S \in Reaches, ForgetIn(w, u, S)
        PROVE  T!TimelineNext
    <3>1. T!Retract(u, S) /\ S \in T!Reaches
      BY <2>3, ForgetRetracts DEF Reaches, T!Reaches
    <3> QED BY <3>1 DEF T!TimelineNext
  <2>4. ASSUME NEW w \in Writers, NEW u \in Uris, NEW S \in Reaches, NEW cut \in Times,
               InvalidateIn(w, u, cut, S)
        PROVE  T!TimelineNext
    <3>1. T!EndAt(u, S, cut) /\ S \in T!Reaches
      BY <2>4, InvalidateEnds DEF Reaches, T!Reaches
    <3> QED BY <3>1 DEF T!TimelineNext
  <2>5. CASE \E w \in Writers : Mutate(w)
    BY <2>2, <2>3, <2>4, <2>5 DEF Mutate
  <2> QED BY <2>1, <2>5 DEF Next, vars, Tick, Stamp, Abandon, Link, Unlink, PruneDanglingEdges
<1> QED BY <1>1, TimelineInitial, StoreInvariant, PTL
        DEF Spec, ImplementsTimeline, T!TimelineSpec
=============================================================================
