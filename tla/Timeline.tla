------------------------------ MODULE Timeline ------------------------------
(***************************************************************************)
(* What the store promises a caller, before any row, version or index: for *)
(* each record (a uri in a scope) the body it is believed to have at each  *)
(* instant of valid time.                                                  *)
(*                                                                         *)
(*   - a save asserts one body over a half-open interval of one record and *)
(*     leaves every other instant and every other record alone;            *)
(*   - a forget retracts whole records of one uri;                         *)
(*   - an invalidation ends what is believed of one uri from a cut on.     *)
(*                                                                         *)
(* BitemporalStore implements it with versions, splits and remainders.     *)
(***************************************************************************)
EXTENDS Integers

CONSTANTS
  Uris,      \* record addresses (the dedup key of a record is its uri)
  Scopes,    \* audiences; a record is a (uri, scope) pair
  Bodies,    \* contents
  Instants,  \* the instants of valid time that are told apart
  Open       \* the end of an interval that has none (None, +infinity)

VARIABLE belief  \* the set of <<uri, scope, instant, body>> believed now

\* The instants of the half-open interval [from, to).
Span(from, to) == {t \in Instants : from <= t /\ t < to}

TimelineInit == belief = {}

\* A save: [from, to) of this one record now carries body, nothing else moves.
Assert(u, s, body, from, to) ==
  belief' = {x \in belief : ~(x[1] = u /\ x[2] = s /\ x[3] \in Span(from, to))}
              \cup {<<u, s, t, body>> : t \in Span(from, to)}

\* An invalidation: what the scopes in S believe of u ends at cut.
EndAt(u, S, cut) ==
  belief' = {x \in belief : ~(x[1] = u /\ x[2] \in S /\ x[3] >= cut)}

\* A forget: the scopes in S believe nothing of u any more.
Retract(u, S) == belief' = {x \in belief : ~(x[1] = u /\ x[2] \in S)}

\* A scoped writer acts on its own scope, a full-tenant writer on all of them.
Reaches == {{s} : s \in Scopes} \cup {Scopes}

TimelineNext ==
  \/ \E u \in Uris, s \in Scopes, b \in Bodies, from \in Instants,
        to \in Instants \cup {Open} : from < to /\ Assert(u, s, b, from, to)
  \/ \E u \in Uris, S \in Reaches :
        Retract(u, S) \/ \E cut \in Instants : EndAt(u, S, cut)

TimelineSpec == TimelineInit /\ [][TimelineNext]_belief
=============================================================================
