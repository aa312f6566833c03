--------------------------- MODULE IndexLifecycle ---------------------------
(***************************************************************************)
(* The vector index directory of one tenant and the marker files beside    *)
(* it, through the lives of the processes that open it: open_vector_index, *)
(* migrate_vector_slots and backfill_vectors of src/src/tools.rs, the      *)
(* probe, quarantine, flush and close of src/src/zvec_index.rs, and the    *)
(* background backfill of src/src/server.rs.                               *)
(*                                                                         *)
(* The database is the source of truth and always survives; an index that  *)
(* cannot be opened is moved aside and rebuilt.  Each file operation is a  *)
(* step, and a process may stop between any two of them.                   *)
(***************************************************************************)
EXTENDS Integers, FiniteSets, FiniteSetsExt

CONSTANTS
  MaxUri,            \* uris are 1..MaxUri, in the order they are worked through
  Scoped,            \* the uris some scope has held a row of
  Procs, Servers,    \* processes, and those that are `dmem serve`
  CrashPoints,       \* phases in which a process may be stopped
  CrashLeaves,       \* what a stopped process may leave of an open index
  LosesUnflushed,    \* are vectors inserted since the last flush lost then?
  MayFail,           \* operations that may return an error
  MaxCrashes, MaxErrors, MaxStarts  \* bounds

Uris == 1..MaxUri
Conditions == {"absent", "whole", "torn", "damaged"}
Operations == {"move", "probe", "open", "migrate", "slotmark", "freshmark",
               "fill", "list", "embed", "flush"}
Phases == {"down", "torn?", "probe", "condemned", "quarantined", "open", "mark", "migrate",
           "slotmark", "fresh?", "fill", "filled", "serving", "keyword"}

ASSUME BoundsAssumption ==
  /\ MaxUri \in Nat /\ Scoped \subseteq Uris /\ Servers \subseteq Procs
  /\ {MaxCrashes, MaxErrors, MaxStarts} \subseteq Nat
ASSUME FaultsAssumption ==
  /\ CrashPoints \subseteq Phases /\ CrashLeaves \subseteq Conditions \ {"absent"}
  /\ LosesUnflushed \in BOOLEAN /\ MayFail \subseteq Operations

VARIABLES
  db,        \* uris with records
  dir,       \* the index directory; "torn" shows in its files, "damaged" does not
  vec,       \* uris whose vectors are in it and right
  durable,   \* those of them that are flushed
  dirty, slots, pending,  \* the files <t>.dirty, <t>.scope-slots, <t>.backfill
  slotDone, done,         \* .scope-slots.progress, .backfill.progress (0: none)
  phase, fresh,           \* of each process; fresh: it created the directory
  held,      \* "none", "here", or "moved": its open index was moved aside
  flushing,  \* what the flush a process is in the middle of is for, or "no"
  todo,      \* uris a server's background backfill has still to do
  bg,        \* "off", "list", "embed": that backfill
  excused,   \* history: uris saved keyword-only, lost unflushed, left out by an
             \* operation that failed and is not repeated, or skipped on resuming
  crashes, errors, starts

files == <<dir, vec, durable, dirty, slots, pending, slotDone, done>>
counts == <<crashes, errors, starts>>
vars == <<db, files, phase, fresh, held, flushing, todo, bg, excused, counts>>

Locked == \E p \in Procs : held[p] = "here"
Fails(op) == op \in MayFail /\ errors < MaxErrors /\ errors' = errors + 1
Goto(p, next) == phase' = [phase EXCEPT ![p] = next]

-----------------------------------------------------------------------------
\* A store of any age: no index, one from before per-scope slots, or a current one.
Init ==
  /\ db \in SUBSET Uris
  /\ \/ dir = "absent" /\ slots = FALSE /\ vec = {}
     \/ dir = "whole" /\ slots = FALSE /\ vec = db \ Scoped
     \/ dir = "whole" /\ slots = TRUE /\ vec = db
  /\ durable = vec
  /\ dirty = FALSE /\ pending = FALSE /\ slotDone = 0 /\ done = 0
  /\ phase = [p \in Procs |-> "down"] /\ fresh = [p \in Procs |-> FALSE]
  /\ held = [p \in Procs |-> "none"] /\ flushing = [p \in Procs |-> "no"]
  /\ todo = [p \in Procs |-> {}] /\ bg = [p \in Procs |-> "off"]
  /\ excused = {} /\ crashes = 0 /\ errors = 0 /\ starts = 0

Start(p) ==
  /\ phase[p] = "down" /\ starts < MaxStarts
  /\ starts' = starts + 1 /\ Goto(p, "torn?")
  /\ UNCHANGED <<db, files, fresh, held, flushing, todo, bg, excused, crashes, errors>>

\* quarantine: the directory is renamed, whoever has it open keeps the old one.
\* The checkpoint of an interrupted backfill stays, for the index that follows.
Quarantine ==
  /\ excused' = excused \cup {u \in db : u <= done}
  /\ dir' = "absent" /\ vec' = {} /\ durable' = {}
  /\ held' = [q \in Procs |-> IF held[q] = "here" THEN "moved" ELSE held[q]]
  /\ UNCHANGED <<dirty, slots, pending, slotDone, done>>

\* torn_reason looks at the manifest's size only.
CheckTorn(p) ==
  /\ phase[p] = "torn?"
  /\ \/ dir # "torn" /\ Goto(p, "probe") /\ UNCHANGED <<files, held, excused, errors>>
     \/ dir = "torn" /\ Quarantine /\ Goto(p, "probe") /\ UNCHANGED errors
     \/ dir = "torn" /\ Fails("move") /\ Goto(p, "keyword")
        /\ UNCHANGED <<files, held, excused>>
  /\ UNCHANGED <<db, fresh, flushing, todo, bg, crashes, starts>>

\* Mutant: a child refused by the lock has failed.
ProbeCondemnsLocked(p) ==
  /\ phase[p] = "probe"
  /\ Goto(p, IF dir # "absent" /\ dirty /\ (Locked \/ dir # "whole")
             THEN "condemned" ELSE "open")
  /\ UNCHANGED <<db, files, fresh, held, flushing, todo, bg, excused, counts>>

\* Mutant: the marker is not looked for.
ProbeNever(p) ==
  /\ phase[p] = "probe" /\ Goto(p, "open")
  /\ UNCHANGED <<db, files, fresh, held, flushing, todo, bg, excused, counts>>

\* The child probe of an index not closed cleanly: a locked one is in use; a
\* damaged one kills the child, and one that is slow to open counts as damaged.
Probe(p) ==
  /\ phase[p] = "probe"
  /\ \/ /\ dir = "absent" \/ ~dirty \/ Locked \/ dir = "whole"
        /\ Goto(p, "open") /\ UNCHANGED errors
     \/ /\ dir # "absent" /\ dirty /\ ~Locked
        /\ IF dir = "whole" THEN Fails("probe") ELSE UNCHANGED errors
        /\ Goto(p, "condemned")
  /\ UNCHANGED <<db, files, fresh, held, flushing, todo, bg, excused, crashes, starts>>

\* On the verdict the index is moved aside, whatever has become of it since.
MoveAside(p) ==
  /\ phase[p] = "condemned"
  /\ \/ dir # "absent" /\ Quarantine /\ Goto(p, "quarantined") /\ UNCHANGED errors
     \/ /\ (dir = "absent" /\ UNCHANGED errors) \/ Fails("move")
        /\ Goto(p, "keyword") /\ UNCHANGED <<files, held, excused>>
  /\ UNCHANGED <<db, fresh, flushing, todo, bg, crashes, starts>>

Unmark(p) ==
  /\ phase[p] = "quarantined"
  /\ dirty' = FALSE /\ Goto(p, "open")
  /\ UNCHANGED <<db, dir, vec, durable, slots, pending, slotDone, done, fresh,
                 held, flushing, todo, bg, excused, counts>>

\* ZvecIndex::open: a lock or an error leaves keyword-only recall (or, with
\* DM_REQUIRE_VECTORS, no tenant), and an index that is not whole kills the
\* process.
Open(p) ==
  /\ phase[p] = "open"
  /\ \/ /\ (Locked /\ UNCHANGED errors) \/ Fails("open")
        /\ Goto(p, "keyword") /\ UNCHANGED <<files, held, fresh>>
     \/ /\ ~Locked /\ dir \in {"absent", "whole"}
        /\ fresh' = [fresh EXCEPT ![p] = dir = "absent"]
        /\ dir' = "whole" /\ held' = [held EXCEPT ![p] = "here"]
        /\ Goto(p, "mark")
        /\ UNCHANGED <<vec, durable, dirty, slots, pending, slotDone, done, errors>>
     \/ /\ ~Locked /\ dir \in {"torn", "damaged"}
        /\ Goto(p, "down") /\ UNCHANGED <<files, held, fresh, errors>>
  /\ UNCHANGED <<db, flushing, todo, bg, excused, crashes, starts>>

\* The end of ZvecIndex::open: the index is open and may be dirty from now on.
MarkDirty(p) ==
  /\ phase[p] = "mark"
  /\ dirty' = TRUE
  /\ Goto(p, IF slots \/ fresh[p] THEN "slotmark" ELSE "migrate")
  /\ UNCHANGED <<db, dir, vec, durable, slots, pending, slotDone, done, fresh,
                 held, flushing, todo, bg, excused, counts>>

\* Mutant: writing one uri clears the others.
EmbeddedAlone(p, us) == IF held[p] = "here" THEN us ELSE vec

\* Vectors written through the handle of p: into the directory at the path
\* unless that handle's one was moved aside.
Embedded(p, us) == IF held[p] = "here" THEN vec \cup us ELSE vec

\* migrate_vector_slots, one uri and its checkpoint at a time; when one fails
\* the open returns as it is and the next one resumes.
Migrate(p) ==
  LET left == {u \in Scoped \cap db : u > slotDone}
  IN /\ phase[p] = "migrate"
     /\ \/ /\ left = {} /\ Goto(p, "slotmark")
           /\ UNCHANGED <<vec, slotDone, errors>>
        \/ /\ left # {} /\ vec' = Embedded(p, {Min(left)}) /\ slotDone' = Min(left)
           /\ UNCHANGED <<phase, errors>>
        \/ /\ left # {} /\ Fails("migrate") /\ Goto(p, "serving")
           /\ UNCHANGED <<vec, slotDone>>
     /\ UNCHANGED <<db, dir, durable, dirty, slots, pending, done, fresh, held,
                    flushing, todo, bg, excused, crashes, starts>>

\* Mutant: a fresh index is not marked for the backfill, as in 0.3.8.
NotOwed(p) == FALSE

\* A fresh index beside records owes them their vectors.
Owed(p) == fresh[p] /\ db # {}

\* The slot marker, and the progress file removed; the open returns early when
\* the marker cannot be written.
MarkSlots(p) ==
  /\ phase[p] = "slotmark"
  /\ \/ slots' = TRUE /\ slotDone' = 0 /\ Goto(p, "fresh?") /\ UNCHANGED errors
     \/ ~slots /\ Fails("slotmark") /\ Goto(p, "serving") /\ UNCHANGED <<slots, slotDone>>
  /\ excused' = IF Owed(p) /\ ~slots' THEN excused \cup db ELSE excused
  /\ UNCHANGED <<db, dir, vec, durable, dirty, pending, done, fresh, held,
                 flushing, todo, bg, crashes, starts>>

\* Mutant: only the process that made the index starts its backfill.
BackfillsIfFresh(p) == p \in Servers /\ fresh[p]

Backfills(p) == p \in Servers

\* The backfill marker of a fresh index beside records; a list that cannot be
\* read counts as empty, a marker that cannot be written leaves them without
\* vectors and says so.  A local process backfills before it serves; a server
\* serves at once and backfills behind.
MarkFresh(p) ==
  /\ phase[p] = "fresh?"
  /\ \/ pending' = (pending \/ Owed(p)) /\ UNCHANGED <<excused, errors>>
     \/ /\ Owed(p) /\ (Fails("list") \/ Fails("freshmark"))
        /\ excused' = excused \cup db /\ UNCHANGED pending
  /\ Goto(p, IF pending' /\ p \notin Servers THEN "fill" ELSE "serving")
  /\ bg' = [bg EXCEPT ![p] = IF pending' /\ Backfills(p) THEN "list" ELSE "off"]
  /\ UNCHANGED <<db, dir, vec, durable, dirty, slots, slotDone, done, fresh,
                 held, flushing, todo, crashes, starts>>

-----------------------------------------------------------------------------
(* The backfill of a local process: backfill_vectors.                      *)

\* Mutant: a run skips the uri after the checkpoint as well.
FillOnePast(p) ==
  LET left == {u \in db : u > done + 1}
  IN /\ phase[p] = "fill" /\ flushing[p] = "no"
     /\ \/ left # {} /\ vec' = Embedded(p, {Min(left)}) /\ done' = Min(left)
           /\ UNCHANGED <<phase, flushing, errors>>
        \/ left = {} /\ flushing' = [flushing EXCEPT ![p] = "fill"]
           /\ UNCHANGED <<vec, done, phase, errors>>
     /\ UNCHANGED <<db, dir, durable, dirty, slots, pending, slotDone, fresh,
                    held, todo, bg, excused, crashes, starts>>

\* One uri and its checkpoint at a time; an error leaves the marker, and the
\* next open resumes.
Fill(p) ==
  LET left == {u \in db : u > done}
  IN /\ phase[p] = "fill" /\ flushing[p] = "no"
     /\ \/ left # {} /\ vec' = Embedded(p, {Min(left)}) /\ done' = Min(left)
           /\ UNCHANGED <<phase, flushing, errors>>
        \/ left # {} /\ Fails("fill") /\ Goto(p, "serving") /\ UNCHANGED <<vec, done, flushing>>
        \/ left = {} /\ flushing' = [flushing EXCEPT ![p] = "fill"]
           /\ UNCHANGED <<vec, done, phase, errors>>
     /\ UNCHANGED <<db, dir, durable, dirty, slots, pending, slotDone, fresh,
                    held, todo, bg, excused, crashes, starts>>

\* First the progress file goes, then the marker.
DropProgress(p) ==
  /\ phase[p] = "filled"
  /\ IF done # 0
     THEN done' = 0 /\ UNCHANGED <<pending, phase>>
     ELSE pending' = FALSE /\ Goto(p, "serving") /\ UNCHANGED done
  /\ UNCHANGED <<db, dir, vec, durable, dirty, slots, slotDone, fresh, held,
                 flushing, todo, bg, excused, counts>>

-----------------------------------------------------------------------------
(* The backfill of a server: run_backfill, on a thread of its own.         *)

BgStep(p) == phase[p] = "serving" /\ flushing[p] = "no"

\* reembed lists every uri; when the store does not open, or the list cannot
\* be read, it returns as after a complete run.
BgList(p) ==
  /\ BgStep(p) /\ bg[p] = "list"
  /\ \/ todo' = [todo EXCEPT ![p] = db] /\ UNCHANGED <<excused, errors>>
     \/ Fails("list") /\ todo' = [todo EXCEPT ![p] = {}] /\ excused' = excused \cup db
  /\ bg' = [bg EXCEPT ![p] = "embed"]
  /\ UNCHANGED <<db, files, phase, fresh, held, flushing, crashes, starts>>

\* One uri; a failure is counted and the run goes on.
BgEmbed(p) ==
  LET u == Min(todo[p])
  IN /\ BgStep(p) /\ bg[p] = "embed" /\ todo[p] # {}
     /\ \/ vec' = Embedded(p, {u}) /\ UNCHANGED <<excused, errors>>
        \/ Fails("embed") /\ excused' = excused \cup {u} /\ UNCHANGED vec
     /\ todo' = [todo EXCEPT ![p] = @ \ {u}]
     /\ UNCHANGED <<db, dir, durable, dirty, slots, pending, slotDone, done, phase,
                    fresh, held, flushing, bg, crashes, starts>>

BgFlush(p) ==
  /\ BgStep(p) /\ bg[p] = "embed" /\ todo[p] = {}
  /\ flushing' = [flushing EXCEPT ![p] = "backfill"]
  /\ UNCHANGED <<db, files, phase, fresh, held, todo, bg, excused, counts>>

-----------------------------------------------------------------------------
(* Flush, stop and crash.  The bound on starts leaves the last process     *)
(* running: one that ends is started again.                                *)

\* A planned stop: the backfill stops at its next uri, then the close flushes.
Stop(p) ==
  /\ phase[p] = "serving" /\ flushing[p] = "no" /\ starts < MaxStarts
  /\ flushing' = [flushing EXCEPT ![p] = "stop"]
  /\ bg' = [bg EXCEPT ![p] = "off"] /\ todo' = [todo EXCEPT ![p] = {}]
  /\ UNCHANGED <<db, files, phase, fresh, held, excused, counts>>

\* Mutant: any flush counts as a clean close.
EachIsClean(goal) == TRUE

IsClose(goal) == goal = "stop"

\* The end of a flush, and what it was for.  A backfill ends whether or not it
\* failed, finish_backfill removing its marker; the clean close removes the
\* dirty marker only if it did not.
Flushed(p) ==
  LET goal == flushing[p]
  IN /\ goal # "no"
     /\ flushing' = [flushing EXCEPT ![p] = "no"]
     /\ \/ /\ durable' = IF held[p] = "here" THEN vec ELSE durable
           /\ dirty' = (dirty /\ ~IsClose(goal)) /\ UNCHANGED errors
        \/ Fails("flush") /\ UNCHANGED <<durable, dirty>>
     /\ pending' = (pending /\ goal # "backfill")
     /\ bg' = [bg EXCEPT ![p] = "off"]
     /\ phase' = [phase EXCEPT ![p] = CASE goal = "fill" -> "filled"
                                       [] goal = "backfill" -> @
                                       [] goal = "stop" -> "down"]
     /\ held' = [held EXCEPT ![p] = IF goal = "stop" THEN "none" ELSE @]
     /\ UNCHANGED <<db, dir, vec, slots, slotDone, done, fresh, todo, excused,
                    crashes, starts>>

\* The process is gone; an index it had open is left in some condition.
Crash(p) ==
  /\ phase[p] \in CrashPoints \ {"down"} /\ crashes < MaxCrashes /\ starts < MaxStarts
  /\ crashes' = crashes + 1
  /\ Goto(p, "down")
  /\ held' = [held EXCEPT ![p] = "none"]
  /\ flushing' = [flushing EXCEPT ![p] = "no"]
  /\ bg' = [bg EXCEPT ![p] = "off"] /\ todo' = [todo EXCEPT ![p] = {}]
  /\ IF held[p] = "here"
     THEN /\ dir' \in CrashLeaves
          /\ vec' \in {vec} \cup (IF LosesUnflushed THEN {vec \cap durable} ELSE {})
          /\ excused' = IF pending THEN excused ELSE excused \cup (vec \ vec')
          /\ durable' = vec'
     ELSE UNCHANGED <<dir, vec, durable, excused>>
  /\ UNCHANGED <<db, dirty, slots, pending, slotDone, done, fresh, errors, starts>>

\* A keyword-only server retries the open; what it saved meanwhile is re-embedded
\* too (TenantServer follows that).
Retry(p) ==
  /\ phase[p] = "keyword" /\ p \in Servers /\ Goto(p, "torn?")
  /\ UNCHANGED <<db, files, fresh, held, flushing, todo, bg, excused, counts>>

\* A keyword-only process ends; it holds no index.
Exit(p) ==
  /\ phase[p] = "keyword" /\ starts < MaxStarts /\ Goto(p, "down")
  /\ UNCHANGED <<db, files, fresh, held, flushing, todo, bg, excused, counts>>

\* A save, with its vector where the process has the index.
Save(p, u) ==
  /\ phase[p] \in {"serving", "keyword"} /\ flushing[p] # "stop" /\ u \notin db
  /\ db' = db \cup {u}
  /\ IF phase[p] = "serving"
     THEN vec' = Embedded(p, {u}) /\ UNCHANGED excused
     ELSE excused' = excused \cup {u} /\ UNCHANGED vec
  /\ UNCHANGED <<dir, durable, dirty, slots, pending, slotDone, done, phase,
                 fresh, held, flushing, todo, bg, counts>>

Opening(p) ==
  \/ Retry(p) \/ CheckTorn(p) \/ Probe(p) \/ MoveAside(p) \/ Unmark(p) \/ Open(p) \/ MarkDirty(p)
  \/ Migrate(p) \/ MarkSlots(p) \/ MarkFresh(p)
Backfilling(p) ==
  Fill(p) \/ DropProgress(p) \/ BgList(p) \/ BgEmbed(p) \/ BgFlush(p)

Next ==
  \E p \in Procs :
    \/ Start(p) \/ Opening(p) \/ Backfilling(p)
    \/ Stop(p) \/ Flushed(p) \/ Crash(p) \/ Exit(p) \/ \E u \in Uris : Save(p, u)

\* A process runs on until it stops, and one that is down is started again.
Fairness ==
  \A p \in Procs :
    WF_vars(Start(p)) /\ WF_vars(Opening(p)) /\ WF_vars(Backfilling(p)) /\ WF_vars(Flushed(p))

Spec == Init /\ [][Next]_vars /\ Fairness

-----------------------------------------------------------------------------
(* Properties.                                                             *)

TypeOK ==
  /\ db \subseteq Uris /\ dir \in Conditions
  /\ vec \subseteq Uris /\ durable \subseteq vec /\ excused \subseteq Uris
  /\ {dirty, slots, pending} \subseteq BOOLEAN
  /\ slotDone \in 0..MaxUri /\ done \in 0..MaxUri
  /\ phase \in [Procs -> Phases] /\ fresh \in [Procs -> BOOLEAN]
  /\ held \in [Procs -> {"none", "here", "moved"}]
  /\ flushing \in [Procs -> {"no", "fill", "backfill", "stop"}]
  /\ todo \in [Procs -> SUBSET Uris] /\ bg \in [Procs -> {"off", "list", "embed"}]

\* Hybrid recall gates on cosine, so a record without a vector is not found:
\* a process that serves an index with no backfill outstanding has a vector
\* for every record, whatever index it found and however often it was stopped
\* before (but for what was lost or left out by a failure).
HybridComplete ==
  \A p \in Procs :
    phase[p] = "serving" /\ slots /\ ~pending => db \subseteq vec \cup excused

\* "The marker is removed only after a complete run", as the server has it:
\* when its marker goes every record has been embedded.
MarkerOutlastsRun == [][pending /\ ~pending' => db \subseteq vec]_vars

\* zvec dies opening an index that is not whole, on every restart: it is
\* never handed one.
NeverOpensTorn ==
  \A p \in Procs : phase[p] = "open" => dir \in {"absent", "whole"} \/ Locked

\* An index another process has open is in use, not damaged: it stays where
\* it is.
InUseIsKept == [][\A p \in Procs : held[p] = "here" => held'[p] # "moved"]_held

\* An open index has its dirty marker, so a process that stops without closing
\* it has the next one probe it.
OpenIsMarked == \A p \in Procs : held[p] = "here" /\ phase[p] # "mark" => dirty

\* A backfill once owed is done: however often the server is stopped part-way
\* the next start repeats it.
BackfillEnds == pending ~> ~pending
=============================================================================
