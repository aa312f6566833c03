-------------------------- MODULE BitemporalStore ---------------------------
(***************************************************************************)
(* The record store of src/src/sqlite.rs: versions of records on two time  *)
(* axes, the keyword index over the live ones, and the relation graph.     *)
(*                                                                         *)
(* A row is one stored version: `vf`..`vt` is the valid time it asserts    *)
(* its body for, `sf`..`st` the system time it was the recorded version.   *)
(* `st = Open` is system_to_ms IS NULL (the row is live), `vt = Open` is   *)
(* valid_to_ms None.  The rowid is kept as `tx`, the number of the         *)
(* transaction that inserted the row: with `vf` it names a row of one      *)
(* record, because one transaction inserts disjoint intervals only.        *)
(*                                                                         *)
(* Every mutation reads the wall clock (`now_ms()`) and only then takes    *)
(* SQLite's write lock (BEGIN IMMEDIATE), waiting up to busy_timeout for   *)
(* the connection that has it: the two are separate steps here, and the    *)
(* stamp a writer holds may be older than rows another one committed.      *)
(***************************************************************************)
EXTENDS Integers, FiniteSets

CONSTANTS
  Uris, Scopes, Bodies, Rels,
  Times,      \* valid-time instants callers use
  Open,       \* VALID_OPEN: above every instant and every clock value
  Writers,    \* connections that write this file
  MaxNow,     \* bound: the clock stops here
  MaxWrites   \* bound: committed transactions that changed something

ASSUME TimesAssumption ==
  /\ Times \subseteq Int
  /\ Open \in Int
  /\ \A t \in Times : t < Open
ASSUME ClockAssumption == MaxNow \in Nat \ {0} /\ MaxNow < Open
ASSUME BoundAssumption == MaxWrites \in Nat

VARIABLES
  rows,    \* table entries
  fts,     \* table entries_fts: the idref of each indexed text
  edges,   \* table edges: <<from, to, rel>>
  now,     \* the wall clock
  stamp,   \* stamp[w]: the `now` w read for the mutation it is about to commit
  writes   \* transactions committed so far (the rowid order)

vars == <<rows, fts, edges, now, stamp, writes>>

Idle == -1

Row == [uri : Uris, scope : Scopes, body : Bodies,
        vf : Int, vt : Int, sf : Int, st : Int, tx : Int]

RowId(r) == <<r.uri, r.scope, r.vf, r.tx>>

Edges == Uris \X Uris \X Rels

-----------------------------------------------------------------------------
(* What the statements of a transaction select and write.                  *)

Live == {r \in rows : r.st = Open}

\* current_rows / current_rows_by_uri: a scoped writer reaches its own scope,
\* a full-tenant writer (scope None) every scope.
Held(u, S) == {r \in Live : r.uri = u /\ r.scope \in S}
Reaches == {{s} : s \in Scopes} \cup {Scopes}

\* Mutant: a segment that begins before `from` is taken for a disjoint one.
OverlapsFromStart(r, from, to) == r.vf < to /\ from <= r.vf

\* intervals_overlap, with vto already applied.
Overlaps(r, from, to) == r.vf < to /\ from < r.vt

\* Mutant: the same body is enough, whatever interval it is asserted for.
AlreadySaid(u, s, body, from, to) == \E r \in Held(u, {s}) : r.body = body

\* The idempotence test of put: one live segment says all of this already.
AlreadyBelieved(u, s, body, from, to) ==
  \E r \in Held(u, {s}) : r.body = body /\ r.vf <= from /\ r.vt >= to

\* insert_version: a live version stamped `at`, its system end open.
Version(u, s, body, from, to, at) ==
  [uri |-> u, scope |-> s, body |-> body, vf |-> from, vt |-> to,
   sf |-> at, st |-> Open, tx |-> writes + 1]

\* Mutant: the part of a segment before the new interval is not re-inserted.
LeftDropped(R, from, at) == {}

\* What is left of a segment outside [from, to): re-inserted with its body.
Left(R, from, at) ==
  {Version(r.uri, r.scope, r.body, r.vf, from, at) : r \in {q \in R : q.vf < from}}
Right(R, to, at) ==
  {Version(r.uri, r.scope, r.body, to, r.vt, at) : r \in {q \in R : to < q.vt}}

\* Mutants: the index is not told of the closed rows; the closed rows are
\* deleted; they are closed one instant early.
ReplaceKeepsIndex(R, new, at) ==
  /\ rows' = (rows \ R) \cup {[r EXCEPT !.st = at] : r \in R} \cup new
  /\ fts' = fts \cup {RowId(r) : r \in new}
  /\ writes' = IF R = {} /\ new = {} THEN writes ELSE writes + 1
ReplaceDeletes(R, new, at) ==
  /\ rows' = (rows \ R) \cup new
  /\ fts' = (fts \ {RowId(r) : r \in R}) \cup {RowId(r) : r \in new}
  /\ writes' = IF R = {} /\ new = {} THEN writes ELSE writes + 1
ReplaceEarly(R, new, at) ==
  /\ rows' = (rows \ R) \cup {[r EXCEPT !.st = at - 1] : r \in R} \cup new
  /\ fts' = (fts \ {RowId(r) : r \in R}) \cup {RowId(r) : r \in new}
  /\ writes' = IF R = {} /\ new = {} THEN writes ELSE writes + 1

\* close_version on every row of R, insert_version on every row of new.
Replace(R, new, at) ==
  /\ rows' = (rows \ R) \cup {[r EXCEPT !.st = at] : r \in R} \cup new
  /\ fts' = (fts \ {RowId(r) : r \in R}) \cup {RowId(r) : r \in new}
  /\ writes' = IF R = {} /\ new = {} THEN writes ELSE writes + 1

HasLiveRow(rs, u) == \E r \in rs : r.uri = u /\ r.st = Open

\* Mutant: the scopes that still hold the uri are not asked.
CascadeAlways(u, R) ==
  edges' = IF R # {} THEN {e \in edges : u \notin {e[1], e[2]}} ELSE edges

\* A retraction that closed the last live row of u takes u's edges with it.
Cascade(u, R) ==
  edges' = IF R # {} /\ ~HasLiveRow(rows', u)
           THEN {e \in edges : u \notin {e[1], e[2]}}
           ELSE edges

-----------------------------------------------------------------------------
Init ==
  /\ rows = {} /\ fts = {} /\ edges = {}
  /\ now = 1 /\ writes = 0
  /\ stamp = [w \in Writers |-> Idle]

Tick ==
  /\ now < MaxNow /\ now' = now + 1
  /\ UNCHANGED <<rows, fts, edges, stamp, writes>>

\* let now = now_ms(), before the transaction begins.
Stamp(w) ==
  /\ stamp[w] = Idle
  /\ stamp' = [stamp EXCEPT ![w] = now]
  /\ UNCHANGED <<rows, fts, edges, now, writes>>

\* The transaction of w is over, whatever it did.
Done(w) == stamp' = [stamp EXCEPT ![w] = Idle] /\ UNCHANGED now

Pending(w) == stamp[w] # Idle /\ writes < MaxWrites

\* The lock wait timed out, the transaction failed or the process died.
Abandon(w) ==
  /\ stamp[w] # Idle
  /\ Done(w) /\ UNCHANGED <<rows, fts, edges, writes>>

\* put refuses an empty or inverted interval before it reads the clock.
Put(w, u, s, body, from, to) ==
  /\ Pending(w) /\ from < to
  /\ IF AlreadyBelieved(u, s, body, from, to)
     THEN UNCHANGED <<rows, fts, writes>>
     ELSE LET R == {r \in Held(u, {s}) : Overlaps(r, from, to)}
          IN Replace(R, Left(R, from, stamp[w]) \cup Right(R, to, stamp[w])
                          \cup {Version(u, s, body, from, to, stamp[w])},
                     stamp[w])
  /\ Done(w) /\ UNCHANGED edges

ForgetIn(w, u, S) ==
  /\ Pending(w)
  /\ Replace(Held(u, S), {}, stamp[w])
  /\ Cascade(u, Held(u, S))
  /\ Done(w)

\* Segments that end by the cut stay; the others keep the part before it.
InvalidateIn(w, u, cut, S) ==
  LET R == {r \in Held(u, S) : r.vt > cut}
  IN /\ Pending(w) /\ cut > 0
     /\ Replace(R, Left(R, cut, stamp[w]), stamp[w])
     /\ Cascade(u, R)
     /\ Done(w)

Link(e) ==
  /\ edges' = edges \cup {e}
  /\ UNCHANGED <<rows, fts, now, stamp, writes>>

Unlink(e) ==
  /\ edges' = edges \ {e}
  /\ UNCHANGED <<rows, fts, now, stamp, writes>>

PruneDanglingEdges ==
  /\ edges' = {e \in edges : HasLiveRow(rows, e[1]) /\ HasLiveRow(rows, e[2])}
  /\ UNCHANGED <<rows, fts, now, stamp, writes>>

Mutate(w) ==
  \E u \in Uris :
    \/ \E s \in Scopes, b \in Bodies, from \in Times, to \in Times \cup {Open} :
         Put(w, u, s, b, from, to)
    \/ \E S \in Reaches :
         ForgetIn(w, u, S) \/ \E cut \in Times : InvalidateIn(w, u, cut, S)

Next ==
  \/ Tick
  \/ \E w \in Writers : Stamp(w) \/ Abandon(w) \/ Mutate(w)
  \/ \E e \in Edges : Link(e) \/ Unlink(e)
  \/ PruneDanglingEdges

Spec == Init /\ [][Next]_vars

-----------------------------------------------------------------------------
(* Properties.                                                             *)

\* Every variable stays in its domain.
TypeOK ==
  /\ rows \subseteq Row
  /\ fts \subseteq Uris \X Scopes \X Int \X Int
  /\ edges \subseteq Edges
  /\ now \in 1..MaxNow
  /\ stamp \in [Writers -> 1..MaxNow \cup {Idle}]
  /\ writes \in Nat

\* However saves, forgets and invalidations of several writers split and
\* close them, the live segments of one record never overlap: there is no
\* instant of valid time at which a record has two current bodies (the
\* invariant put's refusal of empty intervals protects).
NonOverlap ==
  \A r, q \in Live :
    r # q /\ r.uri = q.uri /\ r.scope = q.scope => ~Overlaps(r, q.vf, q.vt)

\* The keyword index holds the live versions and nothing else: a superseded
\* body is never found by keyword, a live one (a remainder too) always is.
KeywordIndexIsLive == fts = {RowId(r) : r \in Live}

\* What recall_as_of reads at system time t: the versions recorded then.
AsOf(t) ==
  {<<r.uri, r.scope, r.body, r.vf, r.vt>> : r \in {q \in rows : q.sf <= t /\ t < q.st}}

\* The past is settled: once the clock has passed t and no writer holds a
\* stamp at or before t, no save, forget or invalidation by anybody changes
\* what recall as of t answers.
AsOfSettled ==
  [][\A t \in 0..(now - 1) :
       (\A w \in Writers : stamp[w] = Idle \/ t < stamp[w]) => AsOf(t)' = AsOf(t)]_vars

\* "Nothing is overwritten": a committed version keeps every column it was
\* inserted with, and its system time is closed at most once.
AppendOnly ==
  [][\A r \in rows :
       \/ r \in rows'
       \/ r.st = Open /\ \E q \in rows' : q.st # Open /\ q = [r EXCEPT !.st = q.st]]_rows

\* A mutation drops the edges of the uri whose last live row, in any scope,
\* it closed, and no other edge; saving drops none.
EdgesKept ==
  {e \in edges : \A u \in {e[1], e[2]} : HasLiveRow(rows, u) => HasLiveRow(rows', u)}
EdgesGoWithLastLiveRow == [][rows' # rows => edges' = EdgesKept]_vars

\* The body each record is believed to have at each instant.
Believed ==
  UNION {{<<r.uri, r.scope, t, r.body>> : t \in {x \in Times : r.vf <= x /\ x < r.vt}}
           : r \in Live}

\* The splitting and closing of versions implements the timeline: a save
\* changes its own interval of its own record only, and so on.
T == INSTANCE Timeline WITH Instants <- Times, belief <- Believed
ImplementsTimeline == T!TimelineSpec

\* A save that returns Ok is believed for exactly its interval, also when the
\* idempotence test makes it a no-op.
SaveIsBelieved ==
  [][\A w \in Writers, u \in Uris, s \in Scopes, b \in Bodies, from \in Times,
        to \in Times \cup {Open} :
       Put(w, u, s, b, from, to) => T!Assert(u, s, b, from, to)]_vars
=============================================================================
