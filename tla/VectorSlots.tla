---------------------------- MODULE VectorSlots -----------------------------
(***************************************************************************)
(* The vector index of one tenant beside its database, for one uri: a slot *)
(* per (uri, scope) record, rewritten by the requests of the engine        *)
(* (src/src/tools.rs) and, after a heal, by the server's re-embedder.      *)
(*                                                                         *)
(* A request holds the tenant lock from its commit to the last slot it     *)
(* resyncs; the re-embedder works on its own connection without that lock. *)
(* An upsert is not atomic: ZvecIndex::upsert_chunks deletes the chunks of *)
(* the slot, then inserts the new ones.  The database commits first and    *)
(* index errors are logged and swallowed (fail-open).                      *)
(*                                                                         *)
(* segs[s] lists the live rows of the record of scope s in insertion order *)
(* (ORDER BY system_from_ms, id: requests commit in clock order here), and *)
(* slot[s] holds the bodies of which the slot has a chunk.                 *)
(***************************************************************************)
EXTENDS Integers, Sequences, SequencesExt, FiniteSets

CONSTANTS
  Scopes, Global,    \* Global = "" is one of the scopes
  Bodies, None,      \* None: no row, no body
  Times, Open,       \* valid-time instants, and the end of an open interval
  BoundedSaves,      \* do callers pass valid_from / valid_to of their own?
  MaxWrites, MaxHeals, MaxFaults  \* bounds on saves and retractions,
                                  \* re-embeddings, index errors and crashes

ASSUME ScopesAssumption ==
  Global \in Scopes /\ None \notin Bodies /\ BoundedSaves \in BOOLEAN
ASSUME InstantsAssumption ==
  Times \subseteq Nat /\ Open \in Nat /\ \A t \in Times : t < Open

VARIABLES
  segs, slot,
  now,      \* the valid-time instant of the wall clock
  work,     \* the request: <<scope, body or None>> it has still to resync
  job,      \* the upsert or removal each actor is in the middle of
  heal,     \* the re-embedder: "off", "global", or "scopes"
  todo,     \* the scopes it listed and has not reached
  writes, heals, faults,
  faulty,   \* history: records whose last index operation failed or was cut
  since     \* history: [scope -> what has been newest since the re-embedder last read it]

vars == <<segs, slot, now, work, job, heal, todo, writes, heals, faults, faulty, since>>
store == <<segs, now, writes>>
healer == <<heal, todo, heals>>

Actors == {"request", "healer"}
NoJob == [step |-> "none"]
Job == [step : {"clear", "insert"}, scope : Scopes, body : Bodies \cup {None}]

-----------------------------------------------------------------------------
(* The live rows of one record.                                            *)

Seg(b, from, to) == [body |-> b, vf |-> from, vt |-> to]
Overlaps(r, from, to) == r.vf < to /\ from < r.vt

\* What put leaves of a segment it splits, in the order it inserts the parts.
Remainders(r, from, to) ==
  (IF r.vf < from THEN <<Seg(r.body, r.vf, from)>> ELSE <<>>)
    \o (IF to < r.vt THEN <<Seg(r.body, to, r.vt)>> ELSE <<>>)

AfterPut(q, b, from, to) ==
  IF \E r \in ToSet(q) : r.body = b /\ r.vf <= from /\ r.vt >= to
  THEN q
  ELSE LET Hit(r) == Overlaps(r, from, to)
           kept == [i \in DOMAIN q |-> IF Hit(q[i]) THEN <<>> ELSE <<q[i]>>]
           left == [i \in DOMAIN q |-> IF Hit(q[i]) THEN Remainders(q[i], from, to) ELSE <<>>]
       IN FlattenSeq(kept) \o FlattenSeq(left) \o <<Seg(b, from, to)>>

AfterInvalidate(q, at) ==
  LET past == [i \in DOMAIN q |-> IF q[i].vt <= at THEN <<q[i]>> ELSE <<>>]
      cut  == [i \in DOMAIN q |-> IF q[i].vt > at /\ q[i].vf < at
                                  THEN <<Seg(q[i].body, q[i].vf, at)>> ELSE <<>>]
  IN FlattenSeq(past) \o FlattenSeq(cut)

\* newest_live and recent / get_in_scope: the last inserted row, and the row
\* valid now.
Newest(q) == IF q = <<>> THEN None ELSE Last(q).body
Current(q) == {r.body : r \in {x \in ToSet(q) : x.vf <= now /\ now < x.vt}}

-----------------------------------------------------------------------------
Init ==
  /\ segs = [s \in Scopes |-> <<>>]
  /\ slot = [s \in Scopes |-> {}]
  /\ now = 1
  /\ work = {} /\ job = [a \in Actors |-> NoJob]
  /\ heal = "off" /\ todo = {}
  /\ writes = 0 /\ heals = 0 /\ faults = 0
  /\ faulty = {} /\ since = [s \in Scopes |-> {None}]

Tick ==
  /\ now + 1 \in Times /\ now' = now + 1
  /\ UNCHANGED <<segs, slot, work, job, healer, writes, faults, faulty, since>>

\* The tenant lock is free.
Unlocked == work = {} /\ job["request"] = NoJob

\* A commit that leaves the live rows `after`, and the slot work it queues.
Commit(after, queue) ==
  /\ Unlocked /\ writes < MaxWrites
  /\ segs' = after
  /\ work' = queue
  /\ writes' = writes + 1
  /\ since' = [s \in Scopes |-> since[s] \cup {Newest(after[s])}]
  /\ UNCHANGED <<slot, now, job, healer, faults, faulty>>

\* The interval of a save: from now on, or from before (import_record_at),
\* and open; any interval where the caller names one (remember).
MayAssert(from, to) == from < to /\ (BoundedSaves \/ (to = Open /\ from <= now))

\* save_entry: put, then upsert of the body that was given.
SaveEntry(s, b, from, to) ==
  /\ MayAssert(from, to)
  /\ Commit([segs EXCEPT ![s] = AfterPut(@, b, from, to)], {<<s, b>>})

\* Mutant: the slots are resynced only when the body changed to another one.
ResyncLiveOnly(S, after) ==
  {<<s, Newest(after[s])>> : s \in {x \in S : segs[x] # <<>> /\ after[x] # <<>>
                                             /\ Newest(after[x]) # Newest(segs[x])}}

\* mutation_slots before, resync_vector_slots after: the slots whose record
\* has another newest body, or none, than it had.
Resync(S, after) ==
  {<<s, Newest(after[s])>> : s \in {x \in S : segs[x] # <<>> /\
     (after[x] = <<>> \/ Newest(after[x]) # Newest(segs[x]))}}

Reaches == {{s} : s \in Scopes} \cup {Scopes}

Forget(S) ==
  LET after == [s \in Scopes |-> IF s \in S THEN <<>> ELSE segs[s]]
  IN Commit(after, Resync(S, after))

Invalidate(S, at) ==
  LET after == [s \in Scopes |-> IF s \in S THEN AfterInvalidate(segs[s], at) ELSE segs[s]]
  IN Commit(after, Resync(S, after))

-----------------------------------------------------------------------------
(* The steps of an upsert (upsert_chunks) or a removal (remove).           *)

NextSlot(w) ==
  /\ job["request"] = NoJob /\ w \in work
  /\ work' = work \ {w}
  /\ job' = [job EXCEPT !["request"] = [step |-> "clear", scope |-> w[1], body |-> w[2]]]
  /\ UNCHANGED <<store, slot, healer, faults, faulty, since>>

\* Mutant: a removal goes on to insert.
ClearThenInsert(a) ==
  /\ job[a].step = "clear"
  /\ slot' = [slot EXCEPT ![job[a].scope] = {}]
  /\ job' = [job EXCEPT ![a].step = "insert"]
  /\ UNCHANGED <<store, work, healer, faults, faulty, since>>

\* The delete; a removal ends with it.
Clear(a) ==
  LET j == job[a]
  IN /\ j.step = "clear"
     /\ slot' = [slot EXCEPT ![j.scope] = {}]
     /\ job' = [job EXCEPT ![a] = IF j.body = None THEN NoJob ELSE [j EXCEPT !.step = "insert"]]
     /\ faulty' = IF j.body = None THEN faulty \ {j.scope} ELSE faulty
     /\ UNCHANGED <<store, work, healer, faults, since>>

\* The insert.  Chunks the other actor inserted since the delete are refused
\* or survive beside the new ones: the index decides.
Insert(a) ==
  LET j == job[a]
      there == slot[j.scope]
  IN /\ j.step = "insert"
     /\ \E chunks \in IF there = {} THEN {{j.body}} ELSE {there, there \cup {j.body}} :
          slot' = [slot EXCEPT ![j.scope] = chunks]
     /\ job' = [job EXCEPT ![a] = NoJob]
     /\ faulty' = IF there = {} THEN faulty \ {j.scope} ELSE faulty
     /\ UNCHANGED <<store, work, healer, faults, since>>

\* An index error.  A failed delete is ignored and the insert follows; a
\* failed insert ends the upsert, and the healer's work on this uri.
IndexError(a) ==
  LET j == job[a]
      stops == j.step = "insert" \/ j.body = None
  IN /\ j # NoJob /\ faults < MaxFaults
     /\ faults' = faults + 1
     /\ faulty' = faulty \cup {j.scope}
     /\ job' = [job EXCEPT ![a] = IF stops THEN NoJob ELSE [j EXCEPT !.step = "insert"]]
     /\ IF a = "healer" /\ j.step = "insert"
        THEN heal' = "off" /\ todo' = {}
        ELSE UNCHANGED <<heal, todo>>
     /\ UNCHANGED <<store, slot, work, heals, since>>

\* The process dies: what it had committed stays, its slot work is lost.
Crash ==
  /\ faults < MaxFaults /\ faults' = faults + 1
  /\ faulty' = faulty \cup {w[1] : w \in work}
                 \cup {job[a].scope : a \in {x \in Actors : job[x] # NoJob}}
  /\ work' = {} /\ job' = [a \in Actors |-> NoJob]
  /\ heal' = "off" /\ todo' = {}
  /\ UNCHANGED <<store, slot, heals, since>>

\* reindex_embeddings, with the server stopped: every record that is current.
ReindexEmbeddings ==
  LET all == {s \in Scopes : Current(segs[s]) # {}}
  IN /\ Unlocked /\ heal = "off" /\ all \cap faulty # {}
     /\ slot' = [s \in Scopes |-> IF s \in all THEN Current(segs[s]) ELSE slot[s]]
     /\ faulty' = faulty \ all
     /\ UNCHANGED <<store, work, job, healer, faults, since>>

-----------------------------------------------------------------------------
(* The re-embedder (reembed, resync_uri_vectors): the body is read, the    *)
(* embedding runs, and only then is the slot rewritten.                    *)

\* Mutant: the oldest live row is embedded, not the newest.
HealerJobOldest(s) ==
  [job EXCEPT !["healer"] = [step |-> "clear", scope |-> s,
     body |-> IF segs[s] = <<>> THEN None ELSE Head(segs[s]).body]]

HealerJob(s) == [job EXCEPT !["healer"] = [step |-> "clear", scope |-> s, body |-> Newest(segs[s])]]

HealGlobal ==
  /\ heal = "off" /\ heals < MaxHeals
  /\ heals' = heals + 1 /\ heal' = "global"
  /\ job' = HealerJob(Global)
  /\ since' = [since EXCEPT ![Global] = {Newest(segs[Global])}]
  /\ UNCHANGED <<store, slot, work, todo, faults, faulty>>

ListScopes ==
  /\ heal = "global" /\ job["healer"] = NoJob
  /\ heal' = "scopes"
  /\ todo' = {s \in Scopes \ {Global} : segs[s] # <<>>}
  /\ UNCHANGED <<store, slot, work, job, heals, faults, faulty, since>>

HealScope(s) ==
  /\ heal = "scopes" /\ job["healer"] = NoJob /\ s \in todo
  /\ todo' = todo \ {s}
  /\ IF segs[s] = <<>> THEN UNCHANGED <<job, since>>
     ELSE job' = HealerJob(s) /\ since' = [since EXCEPT ![s] = {Newest(segs[s])}]
  /\ UNCHANGED <<store, slot, work, heal, heals, faults, faulty>>

HealDone ==
  /\ heal = "scopes" /\ job["healer"] = NoJob /\ todo = {}
  /\ heal' = "off"
  /\ UNCHANGED <<store, slot, work, job, todo, heals, faults, faulty, since>>

Request ==
  \/ \E s \in Scopes, b \in Bodies, from \in Times, to \in Times \cup {Open} :
       SaveEntry(s, b, from, to)
  \/ \E S \in Reaches : Forget(S) \/ \E at \in Times : Invalidate(S, at)

Next ==
  \/ Tick \/ Request
  \/ \E w \in work : NextSlot(w)
  \/ \E a \in Actors : Clear(a) \/ Insert(a) \/ IndexError(a)
  \/ HealGlobal \/ ListScopes \/ HealDone \/ \E s \in Scopes : HealScope(s)
  \/ Crash \/ ReindexEmbeddings

Spec == Init /\ [][Next]_vars

-----------------------------------------------------------------------------
(* Properties.                                                             *)

TypeOK ==
  /\ slot \in [Scopes -> SUBSET Bodies]
  /\ \A s \in Scopes : \A r \in ToSet(segs[s]) :
       r.body \in Bodies /\ r.vf \in Times /\ r.vt \in Times \cup {Open} /\ r.vf < r.vt
  /\ work \subseteq Scopes \X (Bodies \cup {None})
  /\ job \in [Actors -> Job \cup {NoJob}]
  /\ heal \in {"off", "global", "scopes"} /\ todo \subseteq Scopes
  /\ faulty \subseteq Scopes
  /\ since \in [Scopes -> SUBSET (Bodies \cup {None})]

Quiet == Unlocked /\ heal = "off"
Embeds(b) == IF b = None THEN {} ELSE {b}

\* Between requests a slot embeds the newest live body of its own record and
\* nothing else (nothing at all where the record has no live row), unless its
\* last index operation failed or a crash cut it, as long as no re-embedding
\* raced them.  resync_vector_slots relies on it when it skips a slot whose
\* newest body did not change.
SlotEmbedsNewest ==
  Quiet /\ heals = 0 => \A s \in Scopes \ faulty : slot[s] = Embeds(Newest(segs[s]))

\* Requests racing the re-embedder may leave a slot behind its record, but only by what
\* happened since the re-embedder last read that record: a slot never brings back a body that
\* had been superseded before, however many re-embeddings follow each other or break off.
RaceIsBounded == Quiet => \A s \in Scopes \ faulty : slot[s] \subseteq since[s]

\* save_entry as its comment has it: the index holds exactly the current
\* valid version of each record.
SlotIsCurrentVersion ==
  Quiet => \A s \in Scopes \ faulty : slot[s] \subseteq Current(segs[s])
=============================================================================
