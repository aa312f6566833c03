------------------------------- MODULE MCServe -------------------------------
(***************************************************************************)
(* The two state machines of `dmem serve` that must come back after an     *)
(* outage or a kill: a tenant's handles, requests and threads              *)
(* (TenantServer), and its index directory with the markers beside it      *)
(* (IndexLifecycle).  A behaviour is one of them, the one in `part`, while *)
(* the other stays at an initial state.                                    *)
(***************************************************************************)
EXTENDS TenantServer

CONSTANTS Server  \* the process that is started again and again

VARIABLES
  part, db, dir, embedded, durable, dirty, slots, pending, slotDone, done, phase, fresh, held,
  flushing, todo, bg, excused, crashes, errors, starts

index_vars ==
  <<db, dir, embedded, durable, dirty, slots, pending, slotDone, done, phase, fresh, held,
    flushing, todo, bg, excused, crashes, errors, starts>>

\* Three uris, two of them in scopes.  A server stopped while it opens, probes or serves; a
\* kill leaves the index whole, torn or damaged, a power-off loses what was not flushed.
Index == INSTANCE IndexLifecycle WITH
  MaxUri <- 3, Scoped <- {1, 3}, Procs <- {Server}, Servers <- {Server},
  CrashPoints <- {"torn?", "probe", "serving"}, CrashLeaves <- {"whole", "torn", "damaged"},
  LosesUnflushed <- TRUE, MayFail <- {"probe", "move"},
  MaxCrashes <- 2, MaxErrors <- 1, MaxStarts <- 3, vec <- embedded

MCInit ==
  /\ part \in {"tenant", "index"}
  /\ Init /\ Index!Init
  /\ part = "index" => index = "whole" /\ (TRUE \in RequireVectors => require)
  /\ part = "tenant" => db = {} /\ dir = "absent"
Tenant   == part = "tenant" /\ Next /\ UNCHANGED <<part, index_vars>>
Lifetime == part = "index" /\ Index!Next /\ UNCHANGED <<part, vars>>
MCNext == Tenant \/ Lifetime

\* The fairness of each, for its part.
IsTenant == part = "tenant"
IsIndex  == part = "index"
MCFairness ==
  /\ \A r \in Requests : WF_vars(IsTenant /\ Request(r)) /\ SF_vars(IsTenant /\ EnterSlot(r))
  /\ WF_vars(IsTenant /\ Background) /\ WF_vars(IsTenant /\ Reembed("backfill"))
  /\ WF_vars(IsTenant /\ Closer)
  /\ WF_index_vars(IsIndex /\ Index!Start(Server))
  /\ WF_index_vars(IsIndex /\ Index!Opening(Server))
  /\ WF_index_vars(IsIndex /\ Index!Backfilling(Server))
  /\ WF_index_vars(IsIndex /\ Index!Flushed(Server))
MCSpec == MCInit /\ [][MCNext]_<<part, vars, index_vars>> /\ MCFairness

-----------------------------------------------------------------------------
(* What the run checks.                                                    *)

\* Once a heal or a backfill has run every record has its vector; and threads, locks and
\* permits stay in their domains.
CompleteOnceHealed == TypeOK /\ HealedIsComplete

\* A process that serves an index with no backfill outstanding has a vector for every record.
HybridComplete == Index!HybridComplete
\* zvec is never handed an index that is not whole.
NeverOpensTorn == Index!NeverOpensTorn
\* A backfill once owed is done, however often the server is stopped.
BackfillEnds == Index!BackfillEnds
=============================================================================
