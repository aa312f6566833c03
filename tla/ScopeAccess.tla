---------------------------- MODULE ScopeAccess ------------------------------
(***************************************************************************)
(* Who may read and change which records of a tenant: the scope binding    *)
(* the server derives from a token and its headers (src/src/server.rs) and *)
(* the guards of the engine behind it (src/src/tools.rs, sqlite.rs).       *)
(*                                                                         *)
(* One engine handle serves every caller of the tenant.  A request takes   *)
(* the tenant lock, binds its context to the handle, runs one operation,   *)
(* and resets the context; a panic leaves the context behind (the poisoned *)
(* lock is recovered by the next request).                                 *)
(*                                                                         *)
(* A record is a uri in a scope: Global, or one of the Rooms.  The store's *)
(* versions are BitemporalStore's; here a record is held or not.           *)
(***************************************************************************)
EXTENDS Integers

CONSTANTS
  Uris, Rooms, Global, Agents, None,
  Owner,   \* Owner[u]: the agent whose agents/ tree u is in, or None
  Calls    \* the requests that arrive: a subset of Call

ASSUME ScopesAssumption ==
  /\ Global \notin Rooms /\ None \notin Rooms \cup Agents \cup {Global}
  /\ Owner \in [Uris -> Agents \cup {None}]

Scopes == Rooms \cup {Global}

\* A token: "full" is scope-unbound; `grants` is scope_read and `write`
\* scope_write; an adapter with scope_read is capped by it.
Identity == [kind : {"full", "scoped", "adapter"}, grants : SUBSET Rooms,
             capped : BOOLEAN, write : Scopes \cup {None}, agent : Agents \cup {None}]

\* A request: its token, X-DM-Write-Scope, X-DM-Scopes, and the tenant policy
\* require_explicit_write_scope as it was read for it.  (A header that cannot
\* be used is answered 400 before anything else.)
Call == [token : Identity, named : Scopes \cup {None}, asserted : SUBSET Rooms,
         policy : BOOLEAN]
ASSUME CallsAssumption == Calls \subseteq Call

Edges == {e \in Uris \X Uris : e[1] # e[2]}

VARIABLES
  held,     \* the records with a live row: <<uri, scope>>
  raised,   \* those backdated or ranked above their kind's default
  edges,    \* relations: <<from, to>>
  ctx,      \* the context bound to the handle
  phase,    \* "free" (the tenant lock is), "bound", "done"
  call,     \* the request that has the lock, or None
  seen      \* what it was answered

vars == <<held, raised, edges, ctx, phase, call, seen>>

-----------------------------------------------------------------------------
(* scope_binding.                                                          *)

Bound(write, read, limited) == [write |-> write, read |-> read, limited |-> limited]

FullBinding(c) ==
  Bound(IF c.named = None /\ ~c.policy THEN Global ELSE c.named, Scopes, FALSE)

\* Static grants: the headers are ignored.
ScopedBinding(c) ==
  Bound(c.token.write, (c.token.grants \cup {Global, c.token.write}) \ {None}, TRUE)

\* Mutant: the cap bounds the asserted read set, not the write scope.
AdapterBindingUncapped(c) ==
  LET read == IF c.token.capped THEN c.asserted \cap c.token.grants ELSE c.asserted
  IN Bound(c.named, (read \cup {Global, c.named}) \ {None}, TRUE)

\* The reader's scopes are asserted per request, and so is the write scope;
\* the cap bounds both, and a write scope outside it leaves the request
\* read-only.
AdapterBinding(c) ==
  LET read  == IF c.token.capped THEN c.asserted \cap c.token.grants ELSE c.asserted
      write == IF c.token.capped /\ c.named \notin c.token.grants THEN None ELSE c.named
  IN Bound(write, (read \cup {Global, write}) \ {None}, TRUE)

Binding(c) ==
  CASE c.token.kind = "full"    -> FullBinding(c)
    [] c.token.kind = "scoped"  -> ScopedBinding(c)
    [] c.token.kind = "adapter" -> AdapterBinding(c)

\* set_scope_context, set_write_refusal, set_scope_unbound, set_agent_view.
Context(b, unbound, agent) ==
  [write |-> b.write, read |-> b.read, limited |-> b.limited,
   unbound |-> unbound, agent |-> agent]

\* The reset leaves the handle full tenant and agent-less.
ResetContext == Context(Bound(Global, Scopes, FALSE), FALSE, None)

-----------------------------------------------------------------------------
(* The guards of the engine, over the context bound to the handle.         *)

\* Mutant: a global write scope is taken for a full tenant.
FullTenantByWrite == ctx.write = Global

\* full_tenant: it writes global and reads everything.
FullTenant == ctx.write = Global /\ ~ctx.limited

\* ns_ok, of a uri's namespace.
InView(u) == ctx.agent = None \/ Owner[u] \in {None, ctx.agent}

\* visibility_sql.
Visible == {r \in held : r[2] \in ctx.read /\ InView(r[1])}

RowsOf(u) == {r \in held : r[1] = u}

\* mutation_scope: the rows a retraction selects.
Selected(u) == IF FullTenant THEN RowsOf(u) ELSE RowsOf(u) \cap {<<u, ctx.write>>}

\* Mutant: an identity without an agent label may write into any tree.
TreeOkUnlabelled(u) == InView(u)

\* guard_agent_namespace.
TreeOk(u) ==
  \/ Owner[u] = None
  \/ Owner[u] = ctx.agent
  \/ ctx.agent = None /\ FullTenant

\* Mutant: one live row in the scope makes the uri its own.
OwnsAny(u) == <<u, ctx.write>> \in held

\* wholly_in_scope.
Owns(u) == RowsOf(u) = {<<u, ctx.write>>}

\* guard_edge_endpoints.
MayWire(e) ==
  \/ FullTenant /\ ctx.agent = None
  \/ /\ ctx.write # None
     /\ \A i \in {1, 2} : RowsOf(e[i]) \cap Visible # {}
     /\ FullTenant \/ \E i \in {1, 2} : Owns(e[i])

\* Mutant: the migration levers are anybody's.
MayRaiseAll == TRUE

\* import_record_at: an early created_ms, a high importance.
MayRaise == FullTenant \/ ctx.unbound

-----------------------------------------------------------------------------
Init ==
  /\ held = {} /\ raised = {} /\ edges = {}
  /\ ctx = ResetContext /\ phase = "free"
  /\ call = None /\ seen = {}

\* on_tenant: the tenant lock is taken and the context bound.
Bind(c) ==
  /\ phase = "free" /\ phase' = "bound"
  /\ call' = c
  /\ ctx' = Context(Binding(c), c.token.kind = "full", c.token.agent)
  /\ UNCHANGED <<held, raised, edges, seen>>

Operate == phase = "bound" /\ phase' = "done" /\ UNCHANGED <<ctx, call>>

\* save_valid.
Save(u) ==
  /\ Operate /\ ctx.write # None /\ TreeOk(u)
  /\ held' = held \cup {<<u, ctx.write>>}
  /\ raised' = raised \ {<<u, ctx.write>>}
  /\ UNCHANGED <<edges, seen>>

\* import_record_at with a lever.
ImportRaised(u) ==
  /\ Operate /\ ctx.write # None /\ TreeOk(u) /\ MayRaise
  /\ held' = held \cup {<<u, ctx.write>>}
  /\ raised' = raised \cup {<<u, ctx.write>>}
  /\ UNCHANGED <<edges, seen>>

\* forget, and invalidate with a cut before every segment: guarded by
\* guard_mutation_target; the last row takes the edges along.
Retract(u) ==
  /\ Operate /\ ctx.write # None
  /\ Selected(u) # {} /\ InView(u)
  /\ held' = held \ Selected(u)
  /\ raised' = raised \ Selected(u)
  /\ edges' = IF RowsOf(u)' = {} THEN {e \in edges : u \notin {e[1], e[2]}} ELSE edges
  /\ UNCHANGED seen

Link(e) ==
  /\ Operate /\ MayWire(e)
  /\ edges' = edges \cup {e}
  /\ UNCHANGED <<held, raised, seen>>

Unlink(e) ==
  /\ Operate /\ MayWire(e)
  /\ edges' = edges \ {e}
  /\ UNCHANGED <<held, raised, seen>>

\* reindex_links: dangling edges go, those the texts name come.
Reindex ==
  /\ Operate /\ FullTenant
  /\ \E new \in SUBSET Edges :
       edges' = {e \in edges \cup new : RowsOf(e[1]) # {} /\ RowsOf(e[2]) # {}}
  /\ UNCHANGED <<held, raised, seen>>

\* recall, and every other read, through the visibility gate.
Recall ==
  /\ Operate /\ seen' = Visible
  /\ UNCHANGED <<held, raised, edges>>

\* The operation is over, or was refused.
Reset ==
  /\ phase # "free" /\ phase' = "free"
  /\ ctx' = ResetContext /\ call' = None /\ seen' = {}
  /\ UNCHANGED <<held, raised, edges>>

\* A panic: nothing resets the context.
Panic ==
  /\ phase # "free" /\ phase' = "free" /\ call' = None /\ seen' = {}
  /\ UNCHANGED <<held, raised, edges, ctx>>

Operation ==
  \/ \E u \in Uris : Save(u) \/ ImportRaised(u) \/ Retract(u)
  \/ \E e \in Edges : Link(e) \/ Unlink(e)
  \/ Reindex \/ Recall

Next == (\E c \in Calls : Bind(c)) \/ Operation \/ Reset \/ Panic

Spec == Init /\ [][Next]_vars

-----------------------------------------------------------------------------
(* What a token and its headers entitle to, as iam.rs and the scope design *)
(* document have it, and the properties.                                   *)

\* The scopes a call may change records in.
MayWrite(c) ==
  CASE c.token.kind = "full"    ->
         IF c.named \in Rooms THEN {c.named}
         ELSE IF c.named = None /\ c.policy THEN {} ELSE Scopes
    [] c.token.kind = "scoped"  -> {c.token.write} \ {None}
    [] c.token.kind = "adapter" ->
         {c.named} \cap (IF c.token.capped THEN c.token.grants ELSE Scopes)

\* The scopes a call may read.
MayRead(c) ==
  CASE c.token.kind = "full"    -> Scopes
    [] c.token.kind = "scoped"  -> c.token.grants \cup MayWrite(c) \cup {Global}
    [] c.token.kind = "adapter" ->
         {Global} \cup (IF c.token.capped THEN c.token.grants
                        ELSE c.asserted \cup MayWrite(c))

MayTouch(c, u) == c.token.agent = None \/ Owner[u] \in {None, c.token.agent}

\* Types, and a writer always reads the scope it writes (the guards of its
\* own mutations look for their target there).
TypeOK ==
  /\ held \subseteq Uris \X Scopes /\ raised \subseteq held
  /\ edges \subseteq Edges
  /\ ctx.write \in ctx.read \cup {None} /\ ctx.read \subseteq Scopes
  /\ phase \in {"free", "bound", "done"} /\ call \in Calls \cup {None}

\* Whoever had the handle before, and whatever it left bound, a call changes
\* records of its own scopes only, and an agent none of another agent's tree.
MutationsStayInReach ==
  [][\A r \in (held \ held') \cup (held' \ held) :
       r[2] \in MayWrite(call) /\ MayTouch(call, r[1])]_held

\* A call that is less than full tenant never adds or cuts an edge between
\* two uris somebody else holds too, by linking, by forgetting or otherwise.
SharedEdgesStay ==
  [][\A e \in (edges \ edges') \cup (edges' \ edges) :
       \/ MayWrite(call) = Scopes
       \/ \E i \in {1, 2} : /\ RowsOf(e[i]) # {}
                            /\ \A r \in RowsOf(e[i]) : r[2] \in MayWrite(call)]_edges

\* A call is answered with records of the scopes it may read, and an agent
\* with none of another agent's tree.
ReadsStayInReach ==
  \A r \in seen : r[2] \in MayRead(call) /\ MayTouch(call, r[1])

\* Only a scope-unbound token backdates a record or ranks it up.
OnlyOperatorsRaise == [][raised' \subseteq raised \/ call.token.kind = "full"]_raised

\* Nobody plants a record in an agent's tree but that agent, or a full-tenant
\* writer without an agent label.
NoPlanting ==
  [][\A r \in held' \ held :
       \/ Owner[r[1]] \in {None, call.token.agent}
       \/ call.token.agent = None /\ MayWrite(call) = Scopes]_held
=============================================================================
