-------------------------------- MODULE MCIam --------------------------------
(***************************************************************************)
(* Who may come in: tenants and tokens with their admin routes (Iam), and  *)
(* what a start checks and mints before it listens (StartUp).  A behaviour *)
(* is one of them, the one in `part`; the other stays at its initial       *)
(* state.                                                                  *)
(***************************************************************************)
EXTENDS Iam, TLC

CONSTANTS Server  \* the starts of StartUp

VARIABLES part, step, link, port, roots, seen, why, made, shadow, killed
start_vars == <<step, link, port, roots, seen, why, made, shadow, killed>>

Starts == INSTANCE StartUp WITH pc <- step, bound <- port, cut <- killed

MCInit == part \in {"admin", "start"} /\ Init /\ Starts!Init
Administering == part = "admin" /\ Next /\ UNCHANGED <<part, start_vars>>
Starting      == part = "start" /\ Starts!Next /\ UNCHANGED <<part, vars>>
MCNext == Administering \/ Starting
MCSpec == MCInit /\ [][MCNext]_<<part, vars, start_vars>>

Symmetry == Permutations(Tokens) \cup Permutations(Handlers) \cup Permutations(Server)

-----------------------------------------------------------------------------
(* What the run checks of StartUp.                                         *)

\* A start is safe: plain HTTP only where nobody listens in or where it was asked for, no
\* secret of the environment hides another, an early refusal leaves nothing behind, and the
\* bootstrap admin token can be known unless its start was killed.
StartIsSafe ==
  /\ Starts!TypeOK /\ Starts!ClearOnlyWhereAllowed /\ Starts!SecretsAreTheirOwn
  /\ Starts!EarlyRefusalLeavesNothing /\ Starts!RootIsKnown
=============================================================================
