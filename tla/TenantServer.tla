---------------------------- MODULE TenantServer -----------------------------
(***************************************************************************)
(* One tenant of `dmem serve` (src/src/server.rs): its cached engine       *)
(* handle, the requests that use it, the background thread that opens it   *)
(* at start-up and retries its vector index, the backfill thread, and the  *)
(* stop that drains, flushes and closes it.                                *)
(*                                                                         *)
(* Every actor is a thread.  The locks are the slot's (held through an     *)
(* open) and each handle's own (the tenant lock, held through a request).  *)
(* A handle is keyword-only ("kw") or has the vector index ("vec"); a heal *)
(* replaces the first by the second while requests may still hold it.      *)
(*                                                                         *)
(* The database holds records 1..saves, one per save, and `vec` those with *)
(* a vector.  A rewrite of a record's vectors deletes, then inserts.       *)
(***************************************************************************)
EXTENDS Integers, FiniteSets, FiniteSetsExt

CONSTANTS
  Requests,        \* concurrent requests
  RequireVectors,  \* the settings of DM_REQUIRE_VECTORS
  Outages,         \* what may be wrong with the index: subset of {"shut", "fresh"}
  Expires,         \* may HEAL_DRAIN, the grace and the close budget run out?
  SavePermits,     \* DM_EMBED_CONCURRENCY
  MaxSaves         \* bound

ASSUME ServerAssumption ==
  /\ Requests \cap {"background", "backfill", "free"} = {}
  /\ Outages \subseteq {"shut", "fresh"}
  /\ RequireVectors \subseteq BOOLEAN /\ Expires \in BOOLEAN
  /\ IsFiniteSet(Requests)
  /\ SavePermits \in Nat \ {0} /\ MaxSaves \in Nat \ {0}

VARIABLES
  require,   \* DM_REQUIRE_VECTORS
  index,     \* what an open finds: "whole", "fresh" (created empty), or "shut"
  saves, vec,
  marker,    \* the backfill marker
  slotLock,  \* who is inside the slot: an opener, or "free"
  cached,    \* the handle in the slot: "none", "kw", "vec"
  lock,      \* lock[h]: who has the tenant lock of handle h
  permits,   \* who holds a save permit
  pc, holds, \* of each request and the background thread; the handle it holds
  judged,    \* AppState::vectors: "unknown", "no", "yes"
  retry,     \* AppState::vector_retry: `saves` when it was entered, or None
  work,      \* of each re-embedding thread: its step, list, and record half done
  running,   \* BACKFILLS: is a backfill registered?
  draining, closing,
  closer,    \* the stop: "up", "backfills", "take", "lock", "done"
  taken,     \* the handle it took out of the slot
  flushed,   \* history: it flushed and closed the tenant
  late       \* history: a wait ran out

vars == <<require, index, saves, vec, marker, slotLock, cached, lock, permits, pc, holds, judged,
          retry, work, running, draining, closing, closer, taken, flushed, late>>
data == <<require, index, saves, vec, marker>>
handles == <<slotLock, cached, lock, holds, permits>>
health == <<judged, retry>>
workers == <<work, running>>
stop == <<draining, closing, closer, taken, flushed, late>>

None == -1
Threads == Requests \cup {"background"}
Workers == {"background", "backfill"}
Idle == [step |-> "idle", todo |-> {}, half |-> 0, since |-> 0, full |-> FALSE]
Backfill == [Idle EXCEPT !.step = "list", !.full = TRUE]

Goto(t, next) == pc' = [pc EXCEPT ![t] = next]

-----------------------------------------------------------------------------
Init ==
  /\ require \in RequireVectors
  /\ saves = 1 /\ index \in {"whole"} \cup Outages
  /\ vec = IF index = "fresh" THEN {} ELSE {1}
  /\ marker = FALSE
  /\ slotLock = "free" /\ cached = "none" /\ lock = [h \in {"kw", "vec"} |-> "free"]
  /\ permits = {}
  /\ pc = [t \in Threads |-> IF t = "background" THEN "boot" ELSE "idle"]
  /\ holds = [t \in Threads |-> "none"]
  /\ judged = "unknown" /\ retry = None
  /\ work = [w \in Workers |-> Idle] /\ running = FALSE
  /\ draining = FALSE /\ closing = FALSE /\ closer = "up" /\ taken = "none"
  /\ flushed = FALSE /\ late = FALSE

\* The lock, the file in the way or the full disk is gone.
Repair ==
  /\ index = "shut" /\ index' \in {"whole", "fresh"} \cap ({"whole"} \cup Outages)
  /\ vec' = IF index' = "fresh" THEN {} ELSE vec
  /\ UNCHANGED <<require, saves, marker, handles, pc, health, workers, stop>>

-----------------------------------------------------------------------------
(* memory_for: a request, or the background thread's start-up pass.        *)

Arrive(r) ==
  /\ pc[r] = "idle" /\ ~draining /\ saves < MaxSaves
  /\ Goto(r, "check")
  /\ UNCHANGED <<data, handles, health, workers, stop>>

\* open_known_tenants.
Boot ==
  /\ pc["background"] = "boot"
  /\ Goto("background", IF draining \/ judged # "unknown" THEN "tick" ELSE "check")
  /\ UNCHANGED <<data, handles, health, workers, stop>>

\* What a thread does once memory_for returned: a request goes on, the
\* start-up pass is over.
Leave(t) == IF t = "background" THEN "tick" ELSE "idle"

CheckClosing(t) ==
  /\ pc[t] = "check"
  /\ Goto(t, IF closing THEN Leave(t) ELSE "slot")
  /\ UNCHANGED <<data, handles, health, workers, stop>>

EnterSlot(t) ==
  /\ pc[t] = "slot" /\ slotLock = "free"
  /\ IF cached # "none"
     THEN /\ Goto(t, IF t = "background" THEN "tick" ELSE "embed")
          /\ holds' = [holds EXCEPT ![t] = IF t = "background" THEN "none" ELSE cached]
          /\ UNCHANGED slotLock
     ELSE Goto(t, "open") /\ slotLock' = t /\ UNCHANGED holds
  /\ UNCHANGED <<data, cached, lock, permits, health, workers, stop>>

\* Mutant: a failure is noted, but not scheduled.
NoteOnly(ok) ==
  /\ judged' = IF ok THEN "yes" ELSE "no"
  /\ retry' = IF ok THEN None ELSE retry

\* note_vectors.
Note(ok) ==
  /\ judged' = IF ok THEN "yes" ELSE "no"
  /\ retry' = IF ok THEN None ELSE IF retry = None THEN saves ELSE retry

\* A fresh index beside records is marked as it is opened.
Opened ==
  /\ index' = "whole"
  /\ marker' = (marker \/ (index = "fresh" /\ saves > 0))
  /\ UNCHANGED <<require, saves, vec>>

\* Mutant: a backfill is started without being registered.
StartBackfillUnseen(owed) ==
  IF owed /\ ~running
  THEN work' = [work EXCEPT !["backfill"] = Backfill] /\ UNCHANGED running
  ELSE UNCHANGED workers

\* start_backfill: once per tenant and process.
StartBackfill(owed) ==
  IF owed /\ ~running
  THEN work' = [work EXCEPT !["backfill"] = Backfill] /\ running' = TRUE
  ELSE UNCHANGED workers

\* The open, its note, and the handle left in the slot.
OpenTenant(t) ==
  /\ pc[t] = "open" /\ slotLock = t
  /\ slotLock' = "free"
  /\ \/ /\ index # "shut"
        /\ Opened /\ Note(TRUE) /\ StartBackfill(marker')
        /\ cached' = "vec"
        /\ Goto(t, IF t = "background" THEN "tick" ELSE "embed")
        /\ holds' = [holds EXCEPT ![t] = IF t = "background" THEN "none" ELSE "vec"]
     \/ /\ index = "shut" /\ ~require
        /\ Note(FALSE) /\ cached' = "kw"
        /\ Goto(t, IF t = "background" THEN "tick" ELSE "embed")
        /\ holds' = [holds EXCEPT ![t] = IF t = "background" THEN "none" ELSE "kw"]
        /\ UNCHANGED <<data, workers>>
     \/ /\ index = "shut" /\ require
        /\ Note(FALSE) /\ Goto(t, Leave(t))
        /\ UNCHANGED <<data, cached, holds, workers>>
  /\ UNCHANGED <<lock, permits, stop>>

-----------------------------------------------------------------------------
(* The rest of a request: on_tenant.                                       *)

Drop(r) == holds' = [holds EXCEPT ![r] = "none"]

HasPermit == Cardinality(permits) < SavePermits

\* pre_embed: where the tenant is known to have vectors the text is embedded
\* under a save permit,
TakePermit(r) ==
  /\ pc[r] = "embed" /\ judged = "yes" /\ HasPermit
  /\ permits' = permits \cup {r} /\ Goto(r, "embedding")
  /\ UNCHANGED <<data, slotLock, cached, lock, holds, health, workers, stop>>

\* and the permit given back before the tenant lock.
Embedded(r) ==
  /\ pc[r] = "embedding" \/ (pc[r] = "embed" /\ judged # "yes")
  /\ permits' = permits \ {r}
  /\ IF closing THEN Goto(r, "idle") /\ Drop(r) ELSE Goto(r, "wait") /\ UNCHANGED holds
  /\ UNCHANGED <<data, slotLock, cached, lock, health, workers, stop>>

TakeLock(r) ==
  /\ pc[r] = "wait" /\ lock[holds[r]] = "free"
  /\ lock' = [lock EXCEPT ![holds[r]] = r]
  /\ Goto(r, "locked")
  /\ UNCHANGED <<data, slotLock, cached, holds, permits, health, workers, stop>>

\* Mutant: `closing` is not looked at again under the lock.
GoesOnAlways(r) == TRUE

GoesOn(r) == ~closing

CheckAgain(r) ==
  /\ pc[r] = "locked"
  /\ IF GoesOn(r)
     THEN Goto(r, "in") /\ UNCHANGED <<lock, holds>>
     ELSE Goto(r, "idle") /\ Drop(r) /\ lock' = [lock EXCEPT ![holds[r]] = "free"]
  /\ UNCHANGED <<data, slotLock, cached, permits, health, workers, stop>>

\* The engine call: a save, with its vector where the handle has the index.
SaveRecord(r) ==
  /\ pc[r] = "in"
  /\ saves' = saves + 1
  /\ vec' = IF holds[r] = "vec" THEN vec \cup {saves + 1} ELSE vec
  /\ lock' = [lock EXCEPT ![holds[r]] = "free"]
  /\ Goto(r, "idle") /\ Drop(r)
  /\ UNCHANGED <<require, index, marker, slotLock, cached, permits, health, workers, stop>>

-----------------------------------------------------------------------------
(* The retry thread: retry_vector_indexes and reopen_for_vectors.          *)

\* A due retry; the waits between them are not modelled.
Due ==
  /\ pc["background"] = "tick" /\ retry # None /\ ~draining /\ ~closing
  /\ Goto("background", "retry")
  /\ UNCHANGED <<data, handles, health, workers, stop>>

EnterRetry ==
  /\ pc["background"] = "retry" /\ slotLock = "free"
  /\ IF closing \/ judged = "yes"
     THEN /\ Goto("background", "tick") /\ UNCHANGED <<slotLock, judged>>
          /\ retry' = IF closing THEN retry ELSE None
     ELSE /\ Goto("background", "reopen") /\ slotLock' = "background"
          /\ UNCHANGED health
  /\ UNCHANGED <<data, cached, lock, holds, permits, workers, stop>>

\* Mutant: a heal starts from what is saved from now on.
SinceNow(full) == IF full THEN 0 ELSE saves

\* What a heal re-embeds: all, or what was saved since the index was missed.
Since(full) == IF full THEN 0 ELSE retry

Reopen ==
  /\ pc["background"] = "reopen" /\ slotLock = "background"
  /\ slotLock' = "free"
  /\ \/ index = "shut" /\ Goto("background", "tick")
        /\ UNCHANGED <<data, cached, health, workers>>
     \/ /\ index # "shut" /\ closing /\ Opened /\ Goto("background", "tick")
        /\ UNCHANGED <<cached, health, workers>>
     \/ /\ index # "shut" /\ ~closing
        /\ Opened /\ Note(TRUE) /\ cached' = "vec"
        /\ Goto("background", "heal")
        /\ LET full == marker' /\ ~running
           IN /\ running' = (running \/ full)
              /\ work' = [work EXCEPT !["background"] =
                            [Idle EXCEPT !.step = "drain", !.since = Since(full),
                                         !.full = full]]
  /\ UNCHANGED <<lock, holds, permits, stop>>

\* The requests still on the replaced handle are waited for, up to HEAL_DRAIN.
HealDrain ==
  LET w == work["background"]
      waits == \E r \in Requests : holds[r] = "kw"
  IN /\ w.step = "drain"
     /\ ~waits \/ draining \/ Expires
     /\ late' = (late \/ (waits /\ ~draining))
     /\ work' = [work EXCEPT !["background"].step = "list"]
     /\ UNCHANGED <<data, handles, pc, health, running, draining, closing, closer, taken, flushed>>

-----------------------------------------------------------------------------
(* reembed: a heal's on the background thread, a backfill's on its own.    *)

List(w) ==
  /\ work[w].step = "list"
  /\ work' = [work EXCEPT ![w].step = "next", ![w].todo = (work[w].since + 1)..saves]
  /\ UNCHANGED <<data, handles, pc, health, running, stop>>

\* A record is begun if no stop has, and waits for a save permit.
BeginRecord(w) ==
  /\ work[w].step = "next" /\ work[w].todo # {} /\ ~draining /\ ~closing
  /\ work' = [work EXCEPT ![w].step = "permit"]
  /\ UNCHANGED <<data, handles, pc, health, running, stop>>

TakeRecord(w) ==
  /\ work[w].step = "permit" /\ HasPermit
  /\ permits' = permits \cup {w}
  /\ work' = [work EXCEPT ![w].step = "delete"]
  /\ UNCHANGED <<data, slotLock, cached, lock, holds, pc, health, running, stop>>

\* upsert_chunks deletes the record's vectors,
DeleteOld(w) ==
  LET n == Min(work[w].todo)
  IN /\ work[w].step = "delete"
     /\ work' = [work EXCEPT ![w].step = "insert", ![w].half = n, ![w].todo = @ \ {n}]
     /\ vec' = vec \ {n}
     /\ UNCHANGED <<require, index, saves, marker, handles, pc, health, running, stop>>

\* Mutant: a worker keeps its permit.
KeepsPermit(w) == permits

GivesPermit(w) == permits \ {w}

\* then inserts the new ones; the permit goes back with the record.
InsertNew(w) ==
  /\ work[w].step = "insert"
  /\ vec' = vec \cup {work[w].half}
  /\ permits' = GivesPermit(w)
  /\ work' = [work EXCEPT ![w].step = "next", ![w].half = 0]
  /\ UNCHANGED <<require, index, saves, marker, slotLock, cached, lock, holds, pc, health,
                 running, stop>>

\* The list is done, or a stop ends it at the next record.  A backfill that
\* was not stopped removes the marker.
EndRun(w) ==
  /\ work[w].step = "next" /\ (work[w].todo = {} \/ draining \/ closing)
  /\ work' = [work EXCEPT ![w] = Idle]
  /\ running' = (running /\ ~work[w].full)
  /\ marker' = (marker /\ ~(work[w].full /\ ~draining /\ ~closing))
  /\ IF w = "background" THEN Goto(w, "tick") ELSE UNCHANGED pc
  /\ UNCHANGED <<require, index, saves, vec, handles, health, stop>>

-----------------------------------------------------------------------------
(* The stop: the drain, then close_tenants.                                *)

Signal ==
  /\ ~draining /\ draining' = TRUE
  /\ UNCHANGED <<data, handles, pc, health, workers, closing, closer, taken, flushed, late>>

\* No request is in flight any more, or the grace is over.
BeginClose ==
  LET busy == \E r \in Requests : pc[r] # "idle"
  IN /\ closer = "up" /\ draining /\ (~busy \/ Expires)
     /\ closing' = TRUE /\ closer' = "backfills"
     /\ UNCHANGED <<data, handles, pc, health, workers, draining, taken, flushed, late>>

CloseBackfills ==
  /\ closer = "backfills" /\ (~running \/ Expires)
  /\ closer' = "take" /\ late' = (late \/ running)
  /\ UNCHANGED <<data, handles, pc, health, workers, draining, closing, taken, flushed>>

\* A tenant still in its first open is left alone.
CloseTake ==
  /\ closer = "take"
  /\ IF slotLock = "free" /\ cached # "none"
     THEN taken' = cached /\ cached' = "none" /\ closer' = "lock"
     ELSE closer' = "done" /\ UNCHANGED <<taken, cached>>
  /\ UNCHANGED <<data, slotLock, lock, holds, permits, pc, health, workers, draining,
                 closing, flushed, late>>

\* The index is flushed and closed under the tenant lock.
CloseFlush ==
  /\ closer = "lock" /\ lock[taken] = "free"
  /\ closer' = "done" /\ flushed' = TRUE
  /\ UNCHANGED <<data, handles, pc, health, workers, draining, closing, taken, late>>

\* A tenant whose lock a request still holds after the budget is skipped.
CloseSkip ==
  /\ closer = "lock" /\ lock[taken] # "free" /\ Expires
  /\ closer' = "done" /\ late' = TRUE
  /\ UNCHANGED <<data, handles, pc, health, workers, draining, closing, taken, flushed>>

Memory(t) == CheckClosing(t) \/ EnterSlot(t) \/ OpenTenant(t)
Request(r) ==
  Memory(r) \/ TakePermit(r) \/ Embedded(r) \/ TakeLock(r) \/ CheckAgain(r) \/ SaveRecord(r)
Reembed(w) ==
  List(w) \/ BeginRecord(w) \/ TakeRecord(w) \/ DeleteOld(w) \/ InsertNew(w) \/ EndRun(w)
Background ==
  Boot \/ Memory("background") \/ Due \/ EnterRetry \/ Reopen \/ HealDrain
    \/ Reembed("background")
Closer == BeginClose \/ CloseBackfills \/ CloseTake \/ CloseFlush \/ CloseSkip

Next ==
  \/ Repair \/ Signal
  \/ \E r \in Requests : Arrive(r) \/ Request(r)
  \/ Background \/ Reembed("backfill") \/ Closer

\* Every thread goes on when it can, and gets a slot that is free for the whole
\* wait between two retries; nothing makes a request arrive, an outage end or a
\* stop come.
Fairness ==
  /\ \A r \in Requests : WF_vars(Request(r)) /\ SF_vars(EnterSlot(r))
  /\ WF_vars(Background) /\ WF_vars(Reembed("backfill")) /\ WF_vars(Closer)

Spec == Init /\ [][Next]_vars /\ Fairness

-----------------------------------------------------------------------------
(* Properties.                                                             *)

TypeOK ==
  /\ require \in BOOLEAN /\ index \in {"whole", "fresh", "shut"}
  /\ saves \in 1..MaxSaves + Cardinality(Requests) /\ vec \subseteq 1..saves
  /\ slotLock \in Threads \cup {"free"} /\ cached \in {"none", "kw", "vec"}
  /\ lock \in [{"kw", "vec"} -> Requests \cup {"free"}]
  /\ holds \in [Threads -> {"none", "kw", "vec"}]
  /\ judged \in {"unknown", "no", "yes"} /\ retry \in {None} \cup 1..saves
  /\ \A w \in Workers : work[w].todo \subseteq 1..saves /\ work[w].half \in 0..saves
  /\ (\E w \in Workers : work[w].full) <=> running
  /\ permits = {t \in Threads : pc[t] = "embedding"}
                 \cup {w \in Workers : work[w].step \in {"delete", "insert"}}
  /\ Cardinality(permits) <= SavePermits

\* Once a heal or a backfill has run, every record has its vector: those of
\* the outage, those saved on a replaced handle by requests still in flight,
\* those saved meanwhile, and those a rewrite was in the middle of.
HealedIsComplete ==
  cached = "vec" /\ (\A w \in Workers : work[w] = Idle) /\ ~draining /\ ~late
    => vec = 1..saves

\* "One that finds it set never writes after it": once the closing index is
\* flushed no request writes into it, wherever the request was waiting.  (A
\* request still on the handle a heal replaced may save, by keyword only.)
NothingAfterFlush ==
  [][\A r \in Requests : flushed /\ SaveRecord(r) => vec' = vec]_vars

\* A backfill is never cut in half: at the flush none that close_tenants
\* waited for is between the delete and the insert of a record.  (A heal's
\* re-embedding is not waited for: it may be.)
BackfillsAreWhole ==
  [][CloseFlush /\ ~late => \A w \in Workers : work[w].full => work[w].half = 0]_vars

\* A stop leaves nothing half done, in the requests or in the backfills.
StopIsClean == NothingAfterFlush /\ BackfillsAreWhole

\* A tenant without its vector index gets it back once it can be opened, with
\* or without requests and DM_REQUIRE_VECTORS, unless the server stops.
HealsAtLast == index # "shut" /\ judged = "no" ~> cached = "vec" \/ draining

\* No request waits for ever, on the slot of a tenant being opened, on a permit
\* the re-embedder or another request has, or on the tenant lock: each of them
\* comes back, also while a heal, a backfill or a stop goes on.
RequestsEnd == \A r \in Requests : pc[r] # "idle" ~> pc[r] = "idle"
=============================================================================
