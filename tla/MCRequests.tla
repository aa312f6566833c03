----------------------------- MODULE MCRequests ------------------------------
(***************************************************************************)
(* Three sides of a request: what it may reach (ScopeAccess), how it is    *)
(* dispatched and answered (Dispatch), and the client that keeps --scope   *)
(* across servers of several versions (ScopedClient).  A behaviour is one  *)
(* of them, the one in `part`; the others stay at an initial state.        *)
(***************************************************************************)
EXTENDS MCScope, Naturals

CONSTANTS
  Client, Savers,                    \* Dispatch
  Uri, Scope, Own, Bad, MaxSwaps     \* ScopedClient

VARIABLES
  part,
  req, pc, index, closing, lock, pre, answer, ran, changed, healed,
  session, server, swaps, rows, step, verb, uri, asked, reply, told, shown, wrote, stale

dispatch_vars == <<req, pc, index, closing, lock, pre, answer, ran, changed, healed>>
client_vars ==
  <<session, server, swaps, rows, step, verb, uri, asked, reply, told, shown, wrote, stale>>

Route  == INSTANCE Dispatch WITH reply <- answer
ASSUME DispatchAssumption == Route!DispatchConstants
Remote == INSTANCE ScopedClient WITH pc <- step
ASSUME ClientAssumption == Remote!ClientConstants

MCInit ==
  /\ part \in {"access", "route", "client"}
  /\ Init /\ Route!Init /\ Remote!Init
  /\ part # "route" => ~index
  /\ part # "client" =>
       session = [place |-> "local", token |-> "full", policy |-> FALSE, scope |-> None]
         /\ server = "header" /\ rows = {}
Accessing == part = "access" /\ Next /\ UNCHANGED <<part, dispatch_vars, client_vars>>
Routing   == part = "route" /\ Route!Next /\ UNCHANGED <<part, vars, client_vars>>
Calling   == part = "client" /\ Remote!Next /\ UNCHANGED <<part, vars, dispatch_vars>>
MCNext == Accessing \/ Routing \/ Calling
\* A client of Dispatch that has not asked has no step to take: its fairness asks nothing
\* of the other parts.
MCSpec == MCInit /\ [][MCNext]_<<part, vars, dispatch_vars, client_vars>> /\ Route!Fairness

-----------------------------------------------------------------------------
(* What the run checks of Dispatch and ScopedClient.                       *)

\* No save, recall or prompt runs the model under the tenant lock, unless it planned before
\* the index came; and the model runs for a token of this tenant only, on a body only for one
\* that may write.
LockIsShort == Route!TypeOK /\ Route!LockIsShort /\ Route!ModelIsForMembers

\* "An id-bearing request ALWAYS gets a reply"; and a refusal, a stop or a notification
\* leaves the store as it was.
EveryRequestAnswered == []Route!RefusedChangesNothing /\ Route!EveryRequestAnswered

\* --scope is kept, whatever servers the invocation meets: a save reported as done is where
\* it was asked for, a retraction takes rows of no other scope, "nothing was written" is true
\* of the whole invocation, and a recall shows every record it was sent.
ScopeIsKept == Remote!ScopeIsKept
=============================================================================
