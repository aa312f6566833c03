------------------------------ MODULE Readiness ------------------------------
(***************************************************************************)
(* GET /readyz and the readiness half of GET /metrics (src/src/server.rs): *)
(* probes that meet the start-up pass, a stop, a disk that comes and goes, *)
(* requests that open tenants, and indexes that heal.                      *)
(***************************************************************************)
EXTENDS Naturals

CONSTANTS
  Tenants,
  Prober,
  Followed, \* those whose reads are followed past the disk's: the rest of them changes nothing
  None,
  Ttl,      \* IO_CHECK_TTL, in ticks
  MaxSlow   \* bound: how many ticks a refresh of the disk checks may last

Faults == {"none", "iam", "data_dir"}

VARIABLES
  envonly,  \* IAM is not open (as a placeholder embedder, for as long as the process lives)
  fault,    \* which of the two disk checks would fail now
  since,    \* for how many ticks, up to Ttl + MaxSlow
  vectors,  \* [tenant -> "unjudged", "with" or "without"]
  todo,     \* the known tenants the start-up pass has not come to; {None} before it lists them
  started, draining,
  cache,    \* the disk checks as last computed: [bad, age], or None
  lock,     \* the prober that holds the cache's lock to refresh it, or None
  calm,     \* ghost: ticks since a refresh ended, up to Ttl
  probe,    \* [prober -> what it has read so far]
  same,     \* ghost: [prober -> the fault there was all along since Ttl + MaxSlow before it came]
  moment,   \* ghost: [prober -> all checks but the disk's passed at one moment since it came]
  panicked  \* ghost: the pass ended in a panic
vars == <<envonly, fault, since, vectors, todo, started, draining, cache, lock, calm, probe,
          same, moment, panicked>>

\* What a probe has read; `late`, a ghost: it came after the start-up pass.
Idle == [pc |-> "idle", bad |-> {}, slow |-> 0, passes |-> TRUE, late |-> FALSE]
Init ==
  /\ envonly \in BOOLEAN /\ fault = "none" /\ since = 0
  /\ vectors = [t \in Tenants |-> "unjudged"] /\ todo = {None}
  /\ started = FALSE /\ draining = FALSE /\ cache = None /\ lock = None /\ calm = Ttl
  /\ probe = [p \in Prober |-> Idle] /\ same = [p \in Prober |-> None]
  /\ moment = [p \in Prober |-> FALSE] /\ panicked = FALSE

\* Mutant: readiness counts the tenants whose handle is open, and those have an index.
MissingOpen(v) == {}
Missing(v) == {t \in Tenants : v[t] = "without"}
AllPass ==
  (\A t \in Tenants : vectors[t] # "without") /\ started /\ ~draining

\* What the ghosts see of each step: of the state after it for those under way.
Watch ==
  /\ same' = [p \in Prober |->
                IF p \notin Followed \/ probe'[p].pc = "idle" THEN None
                ELSE IF probe[p].pc = "idle"
                THEN IF since = Ttl + MaxSlow THEN fault ELSE None
                ELSE IF fault' = same[p] THEN same[p] ELSE None]
  /\ moment' = [p \in Prober |->
                  p \in Followed /\ probe'[p].pc # "idle" /\ (AllPass' \/ moment[p])]

Disk == <<envonly, fault, since>>
Server == <<vectors, todo, started, draining, panicked>>
Io == <<cache, lock, calm>>

-----------------------------------------------------------------------------
(* The start-up pass and what else judges tenants.                         *)

\* known_tenants, with a database: the env tokens' tenants and IAM's active ones.
ListKnown ==
  /\ todo = {None} /\ todo' \in SUBSET Tenants
  /\ UNCHANGED <<Disk, vectors, started, draining, panicked, Io, probe>> /\ Watch

\* An open that fails for another reason than its index is logged and judges nobody.
Judged(t) ==
  \E v \in {"with", "without", "unjudged"} :
    vectors' = [vectors EXCEPT ![t] = IF @ = "unjudged" THEN v ELSE @]

\* open_known_tenants, one tenant.
OpenKnown ==
  /\ todo \notin {{}, {None}}
  /\ IF draining THEN todo' = {} /\ UNCHANGED vectors
     ELSE \E t \in todo : todo' = todo \ {t} /\ Judged(t)
  /\ UNCHANGED <<Disk, started, draining, panicked, Io, probe>> /\ Watch

\* Mutant: the pass counts as done when it has its list.
DoneOnceListed == todo # {None}
PassDone == todo = {}
\* background: a panic in the pass is its end too.
Started ==
  /\ ~started /\ started' = TRUE
  /\ PassDone \/ todo \notin {{}, {None}}
  /\ panicked' = ~PassDone
  /\ UNCHANGED <<Disk, vectors, todo, draining, Io, probe>> /\ Watch

\* A request opens a tenant, known or new, one under way while the server drains too
\* (memory_for, note_vectors).
Request(t) ==
  /\ vectors[t] = "unjudged" /\ Judged(t)
  /\ UNCHANGED <<Disk, todo, started, draining, panicked, Io, probe>> /\ Watch

\* retry_vector_indexes, after the pass.
Heal(t) ==
  /\ started /\ ~draining /\ vectors[t] = "without"
  /\ vectors' = [vectors EXCEPT ![t] = "with"]
  /\ UNCHANGED <<Disk, todo, started, draining, panicked, Io, probe>> /\ Watch

Drain ==
  /\ ~draining /\ draining' = TRUE
  /\ UNCHANGED <<Disk, vectors, todo, started, panicked, Io, probe>> /\ Watch

-----------------------------------------------------------------------------
(* The disk and the clock.                                                 *)

\* iam.db is moved away or back; the data directory is full, read-only, or neither.
Changes ==
  /\ fault' \in Faults \ {fault} /\ since' = 0
  /\ UNCHANGED <<envonly, Server, Io, probe>> /\ Watch

Least(a, b) == IF a < b THEN a ELSE b
\* A tick; a refresh lasts no longer than MaxSlow of them.
Tick ==
  /\ \A p \in Prober : probe[p].pc = "probing" => probe[p].slow < MaxSlow
  /\ since' = Least(since + 1, Ttl + MaxSlow) /\ calm' = Least(calm + 1, Ttl)
  /\ cache' = IF cache = None THEN None ELSE [cache EXCEPT !.age = Least(@ + 1, Ttl)]
  /\ probe' = [p \in Prober |-> IF probe[p].pc = "probing"
                                THEN [probe[p] EXCEPT !.slow = @ + 1] ELSE probe[p]]
  /\ UNCHANGED <<envonly, fault, Server, lock>> /\ Watch

-----------------------------------------------------------------------------
(* A probe.                                                                *)

\* metrics_access; /readyz answers everyone, and tells the reasons to those who have it.
MayScrape(token) == token \in {"admin", "metrics"}

At(p, here) == probe[p].pc = here
Arrive(p) ==
  /\ At(p, "idle")
  /\ \E token \in {"none", "tenant", "admin", "metrics"}, route \in {"readyz", "metrics"} :
       route = "metrics" => MayScrape(token)
  /\ probe' = [probe EXCEPT ![p] = [Idle EXCEPT !.pc = "io", !.late = p \in Followed /\ started]]
  /\ UNCHANGED <<Disk, Server, Io>> /\ Watch

\* Mutant: a result that is as old as the limit is still good.
FreshEnough(c) == c # None /\ c.age <= Ttl
Fresh(c) == c # None /\ c.age < Ttl

\* Mutant: the lock is let go while the checks run.
Unlocked == TRUE
LockFree == lock = None

Learns(p, bad) ==
  probe' = [probe EXCEPT ![p] = IF p \in Followed
                                THEN [@ EXCEPT !.pc = "vectors", !.bad = bad, !.slow = 0] ELSE Idle]

\* io_checks: a recent result.
Cached(p) ==
  /\ At(p, "io") /\ LockFree /\ Fresh(cache)
  /\ Learns(p, cache.bad)
  /\ UNCHANGED <<Disk, Server, Io>> /\ Watch

\* Or a refresh under the cache's lock: Iam::healthy first ...
Refresh(p) ==
  /\ At(p, "io") /\ LockFree /\ ~Fresh(cache)
  /\ lock' = p
  /\ probe' = [probe EXCEPT ![p].pc = "probing",
                            ![p].bad = IF envonly \/ fault = "iam" THEN {"iam"} ELSE {}]
  /\ UNCHANGED <<Disk, Server, cache, calm>> /\ Watch

\* ... then a file in the data directory, written, synced and removed (probe_dir).
Probed(p) ==
  /\ At(p, "probing")
  /\ LET bad == probe[p].bad \cup ({fault} \cap {"data_dir"}) IN
       cache' = [bad |-> bad, age |-> 0] /\ Learns(p, bad)
  /\ lock' = None /\ calm' = 0
  /\ UNCHANGED <<Disk, Server>> /\ Watch

\* readiness reads the rest one after the other.
Reads(p, here, next, pass) ==
  /\ At(p, here)
  /\ probe' = [probe EXCEPT ![p].pc = next, ![p].passes = @ /\ pass]
  /\ UNCHANGED <<Disk, Server, Io>> /\ Watch
ReadVectors(p) == Reads(p, "vectors", "startup", Missing(vectors) = {})
ReadStarted(p) == Reads(p, "startup", "shutdown", started)
ReadDraining(p) == Reads(p, "shutdown", "answer", ~draining)

\* note_readiness and the answer.
Answer(p) ==
  /\ At(p, "answer") /\ probe' = [probe EXCEPT ![p] = Idle]
  /\ UNCHANGED <<Disk, Server, Io>> /\ Watch

Next ==
  \/ ListKnown \/ OpenKnown \/ Started \/ Drain \/ Changes \/ Tick
  \/ \E t \in Tenants : Request(t) \/ Heal(t)
  \/ \E p \in Prober :
       \/ Arrive(p) \/ Cached(p) \/ Refresh(p) \/ Probed(p)
       \/ ReadVectors(p) \/ ReadStarted(p) \/ ReadDraining(p) \/ Answer(p)
Spec == Init /\ [][Next]_vars

-----------------------------------------------------------------------------

IsReady(p) == At(p, "answer") /\ probe[p].bad = {} /\ probe[p].passes

\* Types of the server and of what each probe has read (server.rs readiness).
TypeOK ==
  /\ fault \in Faults /\ since \in 0..(Ttl + MaxSlow) /\ calm \in 0..Ttl
  /\ vectors \in [Tenants -> {"unjudged", "with", "without"}]
  /\ todo \in (SUBSET Tenants) \cup {{None}} /\ {envonly, started, draining} \subseteq BOOLEAN
  /\ lock \in Prober \cup {None}
  /\ cache = None \/ (cache.bad \subseteq Faults /\ cache.age \in 0..Ttl)
  /\ \A p \in Prober : probe[p].bad \subseteq Faults /\ probe[p].slow \in 0..MaxSlow

\* What an answer says of the disk is no older than the reuse limit and the refresh that made it:
\* a fault that was there all that time is reported, and one that was not is not.
DiskIsRecent ==
  \A p \in Followed :
    At(p, "answer") /\ same[p] # None =>
      /\ "iam" \in probe[p].bad <=> envonly \/ same[p] = "iam"
      /\ "data_dir" \in probe[p].bad <=> same[p] = "data_dir"

\* However many probes come at once, a refresh of the disk checks begins only when none is under
\* way and none has ended within the limit ("polling /readyz cannot become an fsync loop").
OneRefreshPerTtl ==
  [][\A p \in Prober :
       At(p, "io") /\ probe'[p].pc = "probing" =>
         calm = Ttl /\ \A q \in Prober : ~At(q, "probing")]_vars

\* No probe is told "ready" while known tenants wait to be opened, unless a panic ended the pass.
ReadyIsAfterThePass ==
  \A p \in Followed : IsReady(p) => todo = {} \/ panicked

\* A probe that came after the pass and is told "ready" was told of a moment: not of a healed
\* index and a server not yet stopping that never were at the same time.  (One that came before the
\* end of the pass may read the indexes before it judged them, and its end after: it can be
\* told "ready" by a server that never was.)
LateReadyWasTrue ==
  \A p \in Followed : IsReady(p) /\ probe[p].late => moment[p]
=============================================================================
