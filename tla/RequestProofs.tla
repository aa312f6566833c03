---------------------------- MODULE RequestProofs ----------------------------
(***************************************************************************)
(* Proofs about the three sides of a request that MCRequests composes, for *)
(* every set of uris, rooms, agents and clients.                           *)
(*                                                                         *)
(* What it may reach (ScopeAccess).  The properties speak of the call, the *)
(* guards of the context bound to the handle.  AccessInv joins the two:    *)
(* while an operation runs, the context is the one the running call's      *)
(* token and headers bind, whatever a panic left before; and               *)
(* BindingEntitled says what that binding is worth.                        *)
(*                                                                         *)
(* How it is dispatched (Route).  That the model never runs under the      *)
(* tenant lock for a save or a recall rests on two functions written       *)
(* apart: the texts a route plans (Plan) and the ones the engine embeds    *)
(* (Uses).  PlanCovers joins them, all but the body that a retraction      *)
(* leaves behind; Planned carries it through the wait for the lock, in     *)
(* which an index may heal.                                                *)
(*                                                                         *)
(* The client (Remote).  The properties speak of one request; what makes   *)
(* them true is spread over the invocation: the one question it asks, the  *)
(* answer it keeps, and whether the server is still the one that answered. *)
(* ClientInv says what the answer is worth in each phase.                  *)
(***************************************************************************)
EXTENDS MCRequests, TLAPS

\* What on_tenant binds for a call.
ContextOf(c) == Context(Binding(c), c.token.kind = "full", c.token.agent)

\* The context is the running call's, and nothing is answered between calls.
BoundToCall ==
  /\ phase # "free" => call \in Calls /\ ctx = ContextOf(call)
  /\ phase = "free" => seen = {}

AccessInv == TypeOK /\ BoundToCall /\ ReadsStayInReach

\* What a context x may do stays within what the call c is entitled to.
Entitled(x, c) ==
  /\ x.write \in MayWrite(c) \cup {None}
  /\ x.read \subseteq MayRead(c)
  /\ x.write = Global /\ ~x.limited => MayWrite(c) = Scopes /\ c.token.kind = "full"
  /\ x.unbound <=> c.token.kind = "full"
  /\ x.agent = c.token.agent

-----------------------------------------------------------------------------
\* None is no scope, and Global no room.
LEMMA NoneIsNoScope == None \notin Scopes /\ Global \in Scopes /\ Rooms \subseteq Scopes
BY ScopesAssumption DEF Scopes

\* scope_binding, for every kind of token: the binding is well formed, and
\* entitled.
LEMMA BindingEntitled ==
  ASSUME NEW c \in Calls
  PROVE  /\ Entitled(ContextOf(c), c)
         /\ ContextOf(c).read \subseteq Scopes
         /\ ContextOf(c).write \in ContextOf(c).read \cup {None}
<1>1. /\ c.token.kind \in {"full", "scoped", "adapter"}
      /\ c.token.grants \subseteq Rooms /\ c.token.capped \in BOOLEAN
      /\ c.token.write \in Scopes \cup {None} /\ c.named \in Scopes \cup {None}
      /\ c.asserted \subseteq Rooms /\ c.policy \in BOOLEAN
  BY CallsAssumption DEF Call, Identity
<1> DEFINE x == ContextOf(c)
<1>2. /\ x.write = Binding(c).write /\ x.read = Binding(c).read
      /\ x.limited = Binding(c).limited /\ x.agent = c.token.agent
      /\ x.unbound = (c.token.kind = "full")
  BY DEF ContextOf, Context
<1> HIDE DEF x
<1>3. CASE c.token.kind = "full"
  <2>1. Binding(c) = FullBinding(c) /\ MayRead(c) = Scopes
    BY <1>3 DEF Binding, MayRead
  <2>2. MayWrite(c) = IF c.named \in Rooms THEN {c.named}
                      ELSE IF c.named = None /\ c.policy THEN {} ELSE Scopes
    BY <1>3 DEF MayWrite
  <2>3. /\ x.write = IF c.named = None /\ ~c.policy THEN Global ELSE c.named
        /\ x.read = Scopes
    BY <1>2, <2>1 DEF FullBinding, Bound
  <2>4. x.write \in MayWrite(c) \cup {None} /\ x.write \in Scopes \cup {None}
    BY <1>1, <2>2, <2>3, NoneIsNoScope
  <2>5. x.write = Global => MayWrite(c) = Scopes
    BY <1>1, <2>2, <2>3, NoneIsNoScope, ScopesAssumption
  <2> QED BY <1>2, <1>3, <2>1, <2>3, <2>4, <2>5 DEF Entitled, x
<1>4. CASE c.token.kind = "scoped"
  <2>1. Binding(c) = ScopedBinding(c)
    BY <1>4 DEF Binding
  <2>2. /\ MayWrite(c) = {c.token.write} \ {None}
        /\ MayRead(c) = c.token.grants \cup MayWrite(c) \cup {Global}
    BY <1>4 DEF MayWrite, MayRead
  <2>3. /\ x.write = c.token.write /\ x.limited
        /\ x.read = (c.token.grants \cup {Global, c.token.write}) \ {None}
    BY <1>2, <2>1 DEF ScopedBinding, Bound
  <2>4. /\ x.write \in MayWrite(c) \cup {None} /\ x.write \in x.read \cup {None}
        /\ x.read \subseteq MayRead(c) /\ x.read \subseteq Scopes
    BY <1>1, <2>2, <2>3, NoneIsNoScope
  <2> QED BY <1>2, <1>4, <2>3, <2>4 DEF Entitled, x
<1>5. CASE c.token.kind = "adapter"
  <2>1. Binding(c) = AdapterBinding(c)
    BY <1>5 DEF Binding
  <2>2. /\ MayWrite(c) = {c.named} \cap (IF c.token.capped THEN c.token.grants ELSE Scopes)
        /\ MayRead(c) = {Global} \cup (IF c.token.capped THEN c.token.grants
                                       ELSE c.asserted \cup MayWrite(c))
    BY <1>5 DEF MayWrite, MayRead
  <2>3. /\ x.write = IF c.token.capped /\ c.named \notin c.token.grants
                     THEN None ELSE c.named
        /\ x.limited
        /\ x.read = ((IF c.token.capped THEN c.asserted \cap c.token.grants ELSE c.asserted)
                      \cup {Global, x.write}) \ {None}
    BY <1>2, <2>1 DEF AdapterBinding, Bound
  <2>4. x.write \in MayWrite(c) \cup {None} /\ x.write \in Scopes \cup {None}
    BY <1>1, <2>2, <2>3, NoneIsNoScope
  <2>5. x.read \subseteq MayRead(c) /\ x.read \subseteq Scopes
    <3>1. CASE c.token.capped
      BY <1>1, <2>2, <2>3, <3>1, NoneIsNoScope
    <3>2. CASE ~c.token.capped
      BY <1>1, <2>2, <2>3, <3>2, NoneIsNoScope
    <3> QED BY <1>1, <3>1, <3>2
  <2>6. x.write \in x.read \cup {None}
    BY <2>3
  <2> QED BY <1>2, <1>5, <2>3, <2>4, <2>5, <2>6 DEF Entitled, x
<1> QED BY <1>1, <1>3, <1>4, <1>5

\* While an operation runs it acts under an entitled context.
LEMMA RunningEntitled ==
  ASSUME AccessInv, Operate
  PROVE  /\ call \in Calls /\ call' = call /\ ctx' = ctx
         /\ phase' = "done" /\ Entitled(ctx, call)
BY BindingEntitled DEF AccessInv, BoundToCall, Operate

\* What Visible selects may be read by the call.
LEMMA VisibleInReach ==
  ASSUME AccessInv, Operate, NEW r \in Visible
  PROVE  r[2] \in MayRead(call) /\ MayTouch(call, r[1])
BY RunningEntitled DEF Visible, InView, Entitled, MayTouch

\* The full tenant is a full token that may write every scope.
LEMMA FullTenantMayWriteAll ==
  ASSUME AccessInv, Operate, FullTenant
  PROVE  MayWrite(call) = Scopes /\ call.token.kind = "full"
BY RunningEntitled DEF FullTenant, Entitled

-----------------------------------------------------------------------------
\* A handle just opened is bound to nobody, and nothing has been answered.
LEMMA InitAccessInv == Init => AccessInv
BY NoneIsNoScope
   DEF Init, AccessInv, TypeOK, BoundToCall, ReadsStayInReach, ResetContext, Context, Bound

\* Every step preserves the invariant: a binding establishes it for the new
\* call, an operation acts under it, a reset or a panic ends the call.
LEMMA StepAccessInv == AccessInv /\ [Next]_vars => AccessInv'
<1> SUFFICES ASSUME AccessInv, [Next]_vars PROVE AccessInv'
  OBVIOUS
<1> USE DEF AccessInv
<1>1. ASSUME NEW c \in Calls, Bind(c) PROVE AccessInv'
  <2>1. /\ ctx' = ContextOf(c) /\ call' = c /\ phase' = "bound" /\ seen' = {}
        /\ UNCHANGED <<held, raised, edges>>
    BY <1>1 DEF Bind, ContextOf, BoundToCall
  <2> QED
    BY <2>1, BindingEntitled DEF TypeOK, BoundToCall, ReadsStayInReach
<1>2. ASSUME Operate, held' \subseteq Uris \X Scopes, raised' \subseteq held',
             edges' \subseteq Edges, seen' = seen
      PROVE  AccessInv'
  <2>1. call' = call /\ ctx' = ctx /\ phase = "bound" /\ phase' = "done"
    BY <1>2 DEF Operate
  <2> QED
    BY <1>2, <2>1 DEF TypeOK, BoundToCall, ReadsStayInReach, MayRead, MayWrite, MayTouch
<1>3. ASSUME NEW u \in Uris, Save(u) \/ ImportRaised(u) PROVE AccessInv'
  <2>1. Operate /\ ctx.write \in Scopes
    BY <1>3 DEF Save, ImportRaised, TypeOK
  <2> QED BY <1>2, <1>3, <2>1 DEF Save, ImportRaised, TypeOK
<1>4. ASSUME NEW u \in Uris, Retract(u) PROVE AccessInv'
  BY <1>2, <1>4 DEF Retract, TypeOK
<1>5. ASSUME NEW e \in Edges, Link(e) \/ Unlink(e) PROVE AccessInv'
  BY <1>2, <1>5 DEF Link, Unlink, TypeOK
<1>6. CASE Reindex
  BY <1>2, <1>6 DEF Reindex, TypeOK
<1>7. CASE Recall
  <2>1. Operate /\ seen' = Visible /\ UNCHANGED <<held, raised, edges>>
    BY <1>7 DEF Recall
  <2>2. /\ call \in Calls /\ call' = call /\ ctx' = ctx /\ phase' = "done" /\ phase # "free"
    BY <2>1, RunningEntitled DEF Operate
  <2>3. ReadsStayInReach'
    BY <2>1, <2>2, VisibleInReach DEF ReadsStayInReach, MayRead, MayWrite, MayTouch
  <2> QED BY <2>1, <2>2, <2>3 DEF TypeOK, BoundToCall
<1>8. CASE Reset
  BY <1>8, NoneIsNoScope
     DEF Reset, TypeOK, BoundToCall, ReadsStayInReach, ResetContext, Context, Bound
<1>9. CASE Panic
  BY <1>9 DEF Panic, TypeOK, BoundToCall, ReadsStayInReach
<1>10. CASE UNCHANGED vars
  BY <1>10 DEF vars, TypeOK, BoundToCall, ReadsStayInReach, MayRead, MayWrite, MayTouch
<1> QED
  BY <1>1, <1>3, <1>4, <1>5, <1>6, <1>7, <1>8, <1>9, <1>10 DEF Next, Operation

\* The context on the shared handle is the running call's whenever an
\* operation of the engine reads it.
THEOREM AccessInvariant == Spec => []AccessInv
<1> QED BY InitAccessInv, StepAccessInv, PTL DEF Spec

\* The types, and that a writer reads the scope it writes.
THEOREM AccessTypeOK == Spec => []TypeOK
<1>1. AccessInv => TypeOK
  BY DEF AccessInv
<1> QED BY <1>1, AccessInvariant, PTL

\* No read, through any gate and after any panic, is answered with a record
\* the call may not read.
THEOREM AccessReads == Spec => []ReadsStayInReach
<1>1. AccessInv => ReadsStayInReach
  BY DEF AccessInv
<1> QED BY <1>1, AccessInvariant, PTL
-----------------------------------------------------------------------------
(* What a step may change.                                                 *)

\* The rows a step touches are the one it saves or those it retracts.
LEMMA StepTouches ==
  ASSUME AccessInv, Next, held' # held
  PROVE  \E u \in Uris :
           /\ Operate /\ ctx.write # None
           /\ \/ TreeOk(u) /\ held' = held \cup {<<u, ctx.write>>}
              \/ InView(u) /\ Retract(u) /\ held' = held \ Selected(u)
BY DEF Next, Operation, Bind, Save, ImportRaised, Retract, Link, Unlink, Reindex, Recall,
       Reset, Panic

\* A retraction selects rows of one uri, of scopes the call may write.
LEMMA SelectedInReach ==
  ASSUME AccessInv, Operate, ctx.write # None, NEW u \in Uris, NEW r \in Selected(u)
  PROVE  r \in held /\ r[1] = u /\ r[2] \in MayWrite(call)
<1>1. CASE FullTenant
  <2>1. r \in held /\ r[1] = u /\ r[2] \in Scopes
    BY <1>1 DEF Selected, RowsOf, AccessInv, TypeOK
  <2> QED BY <1>1, <2>1, FullTenantMayWriteAll
<1>2. CASE ~FullTenant
  BY <1>2, RunningEntitled DEF Selected, RowsOf, Entitled
<1> QED BY <1>1, <1>2

\* A call changes records of the scopes it may write only, and an agent none
\* of another agent's tree.
THEOREM AccessMutations == Spec => MutationsStayInReach
<1>1. AccessInv /\ [Next]_vars =>
        [\A r \in (held \ held') \cup (held' \ held) :
           r[2] \in MayWrite(call) /\ MayTouch(call, r[1])]_held
  <2> SUFFICES ASSUME AccessInv, Next, held' # held,
                      NEW r \in (held \ held') \cup (held' \ held)
               PROVE  r[2] \in MayWrite(call) /\ MayTouch(call, r[1])
    BY DEF vars
  <2>1. PICK u \in Uris :
           /\ Operate /\ ctx.write # None
           /\ \/ TreeOk(u) /\ held' = held \cup {<<u, ctx.write>>}
              \/ InView(u) /\ Retract(u) /\ held' = held \ Selected(u)
    BY StepTouches
  <2>2. Entitled(ctx, call)
    BY <2>1, RunningEntitled
  <2>3. CASE TreeOk(u) /\ held' = held \cup {<<u, ctx.write>>}
    BY <2>1, <2>2, <2>3 DEF Entitled, TreeOk, MayTouch
  <2>4. CASE InView(u) /\ held' = held \ Selected(u)
    <3>1. r[1] = u /\ r[2] \in MayWrite(call)
      BY <2>1, <2>4, SelectedInReach
    <3> QED BY <2>2, <2>4, <3>1 DEF Entitled, InView, MayTouch
  <2> QED BY <2>1, <2>3, <2>4
<1> QED BY <1>1, AccessInvariant, PTL DEF Spec, MutationsStayInReach

\* No call plants a record in an agent's tree but that agent's, or a
\* full-tenant one without an agent label.
THEOREM AccessNoPlanting == Spec => NoPlanting
<1>1. AccessInv /\ [Next]_vars =>
        [\A r \in held' \ held :
           \/ Owner[r[1]] \in {None, call.token.agent}
           \/ call.token.agent = None /\ MayWrite(call) = Scopes]_held
  <2> SUFFICES ASSUME AccessInv, Next, held' # held, NEW r \in held' \ held
               PROVE  \/ Owner[r[1]] \in {None, call.token.agent}
                      \/ call.token.agent = None /\ MayWrite(call) = Scopes
    BY DEF vars
  <2>1. PICK u \in Uris : Operate /\ TreeOk(u) /\ r = <<u, ctx.write>>
    BY StepTouches
  <2> QED
    BY <2>1, RunningEntitled, FullTenantMayWriteAll DEF TreeOk, Entitled
<1> QED BY <1>1, AccessInvariant, PTL DEF Spec, NoPlanting

\* Only a scope-unbound token backdates a record or ranks it up.
THEOREM AccessRaises == Spec => OnlyOperatorsRaise
<1>1. AccessInv /\ [Next]_vars =>
        [raised' \subseteq raised \/ call.token.kind = "full"]_raised
  <2> SUFFICES ASSUME AccessInv, Next, ~(raised' \subseteq raised)
               PROVE  call.token.kind = "full"
    BY DEF vars
  <2>1. \E u \in Uris : ImportRaised(u)
    BY DEF Next, Operation, Bind, Save, Retract, Link, Unlink, Reindex, Recall, Reset, Panic
  <2>2. Operate /\ MayRaise
    BY <2>1 DEF ImportRaised
  <2> QED
    BY <2>2, RunningEntitled, FullTenantMayWriteAll DEF MayRaise, Entitled
<1> QED BY <1>1, AccessInvariant, PTL DEF Spec, OnlyOperatorsRaise

\* An edge that a call adds or cuts is the full tenant's, or has an endpoint
\* that the writer's scope alone holds.
THEOREM AccessSharedEdges == Spec => SharedEdgesStay
<1> DEFINE Reached(e) ==
      \/ MayWrite(call) = Scopes
      \/ \E i \in {1, 2} : /\ RowsOf(e[i]) # {}
                           /\ \A r \in RowsOf(e[i]) : r[2] \in MayWrite(call)
<1>1. AccessInv /\ [Next]_vars =>
        [\A e \in (edges \ edges') \cup (edges' \ edges) : Reached(e)]_edges
  <2> SUFFICES ASSUME AccessInv, Next, edges' # edges,
                      NEW e \in (edges \ edges') \cup (edges' \ edges)
               PROVE  Reached(e)
    BY DEF vars
  <2>1. ASSUME NEW u \in Uris, Retract(u) PROVE Reached(e)
    <3>1. /\ Operate /\ ctx.write # None /\ Selected(u) # {}
          /\ held' = held \ Selected(u)
          /\ e \in edges /\ RowsOf(u)' = {} /\ u \in {e[1], e[2]}
      BY <2>1 DEF Retract
    <3>2. RowsOf(u) \subseteq Selected(u) /\ RowsOf(u) # {}
      BY <3>1 DEF RowsOf, Selected
    <3>3. \A r \in RowsOf(u) : r[2] \in MayWrite(call)
      BY <3>1, <3>2, SelectedInReach
    <3>4. PICK i \in {1, 2} : u = e[i]
      BY <3>1
    <3> QED BY <3>2, <3>3, <3>4
  <2>2. ASSUME NEW f \in Edges, Link(f) \/ Unlink(f) PROVE Reached(e)
    <3>1. Operate /\ MayWire(f) /\ e = f
      BY <2>2 DEF Link, Unlink
    <3>2. CASE FullTenant
      BY <3>1, <3>2, FullTenantMayWriteAll
    <3>3. CASE ~FullTenant
      <4>1. ctx.write # None /\ \E i \in {1, 2} : Owns(e[i])
        BY <3>1, <3>3 DEF MayWire
      <4>2. PICK i \in {1, 2} : RowsOf(e[i]) = {<<e[i], ctx.write>>}
        BY <4>1 DEF Owns
      <4>3. ctx.write \in MayWrite(call)
        BY <3>1, <4>1, RunningEntitled DEF Entitled
      <4>4. RowsOf(e[i]) # {} /\ \A r \in RowsOf(e[i]) : r[2] \in MayWrite(call)
        BY <4>2, <4>3
      <4> QED BY <4>4
    <3> QED BY <3>2, <3>3
  <2>3. CASE Reindex
    BY <2>3, FullTenantMayWriteAll DEF Reindex
  <2> QED
    BY <2>1, <2>2, <2>3
       DEF Next, Operation, Bind, Save, ImportRaised, Recall, Reset, Panic
<1> QED BY <1>1, AccessInvariant, PTL DEF Spec, SharedEdgesStay

-----------------------------------------------------------------------------
(* How a request is dispatched and answered.                               *)

Phases == {"idle", "auth", "open", "embed", "wait", "locked", "done"}

\* A client past Arrive has a request; the maps are over the clients.
RouteTyped ==
  /\ pc \in [Client -> Phases] /\ index \in BOOLEAN /\ closing \in BOOLEAN
  /\ DOMAIN req = Client /\ DOMAIN pre = Client /\ DOMAIN ran = Client
  /\ DOMAIN answer = Client
  /\ \A c \in Client : pc[c] # "idle" => req[c] \in Route!Requests
  /\ \A c \in Client : pc[c] = "idle" => req[c] = None
  /\ healed \subseteq Client /\ changed \subseteq Client

\* The lock is held by the client that is in it; stdio has none to take.
RouteLocks ==
  /\ lock \in Client \cup {None}
  /\ \A c \in Client : lock = c => pc[c] = "locked"
  /\ \A c \in Client : pc[c] = "locked" /\ req[c].via # "stdio" => lock = c

\* Past Auth the token is one of this tenant.
Member ==
  \A c \in Client :
    pc[c] \in {"open", "embed", "wait", "locked"} => req[c].token \notin {"none", "admin"}

\* A request the extractor let pass, or a message that is an object.
Framed(r) == r.via = "rest" \/ r.form = "object"

\* A client that waits for the lock, or has it, has planned all its texts but the body that a
\* retraction leaves behind, or planned before there was an index.
Planned ==
  \A c \in Client :
    pc[c] \in {"wait", "locked"} /\ req[c].via # "stdio" /\ Framed(req[c]) =>
      \/ Route!Uses(req[c]) \ {Route!Remnant} \subseteq pre[c]
      \/ ~index \/ c \in healed

\* What ran so far: under the lock only for a retraction, or after the index came between.
Ran ==
  \A c \in Client : \A t \in ran[c] :
    /\ t[2] \in {"before", "under"}
    /\ t[2] = "under" => index /\ (req[c].op \in Route!Retractions \/ c \in healed)
    /\ pc[c] # "idle" /\ req[c].token \notin {"none", "admin"}
    /\ t[1][1] = "body" => Route!MayWrite(req[c])

\* Nobody changed the store but a request that was answered as done.
Changed ==
  \A c \in Client :
    c \in changed =>
      /\ pc[c] = "done"
      /\ answer[c][1] \in {400, 401, 403, 503, 202} => req[c].op = "batch"

DispatchInv == RouteTyped /\ RouteLocks /\ Member /\ Planned /\ Ran /\ Changed

-----------------------------------------------------------------------------
\* What is planned is a query, or a body of one that may write.
LEMMA WorthItIsFit ==
  ASSUME NEW r, NEW t \in Route!WorthIt(r)
  PROVE  t[1] = "body" => Route!MayWrite(r)
BY DEF Route!WorthIt

LEMMA UsesAreFit ==
  ASSUME NEW r, NEW t \in Route!Uses(r)
  PROVE  t[1] = "body" => Route!MayWrite(r)
<1>1. CASE Route!MayWrite(r)
  BY <1>1
<1>2. CASE ~Route!MayWrite(r)
  <2>1. Route!Uses(r) \subseteq {<<"query", "as sent">>, <<"query", "trimmed">>}
    BY <1>2 DEF Route!Uses
  <2>2. t = <<"query", "as sent">> \/ t = <<"query", "trimmed">>
    BY <2>1
  <2>3. <<"query", "as sent">>[1] = "query" /\ <<"query", "trimmed">>[1] = "query"
    OBVIOUS
  <2>4. t[1] = "query"
    BY <2>2, <2>3, Zenon
  <2> QED
    BY <2>4
<1> QED
  BY <1>1, <1>2

\* The body that is left behind is a retraction's only: a body, and neither as sent nor composed.
LEMMA RemnantIsRetracted ==
  ASSUME NEW r, Route!Remnant \in Route!Uses(r)
  PROVE  r.op \in Route!Retractions
<1>1. ASSUME r.op \notin Route!Retractions
      PROVE  Route!Uses(r) \subseteq {<<"query", "as sent">>, <<"query", "trimmed">>,
                                      <<"body", "as sent">>, <<"body", "composed">>}
  BY <1>1 DEF Route!Uses, Route!Composed
<1>2. <<"body", "left behind">> \notin {<<"query", "as sent">>, <<"query", "trimmed">>,
                                        <<"body", "as sent">>, <<"body", "composed">>}
  OBVIOUS
<1> QED
  BY <1>1, <1>2 DEF Route!Remnant

\* What the engine embeds for a request that is run, its route has planned: in the same words,
\* and for nobody who may not write; all but what a retraction leaves behind.
LEMMA PlanCovers ==
  ASSUME NEW r \in Route!Requests, r.via # "stdio", Framed(r), index
  PROVE  Route!Uses(r) \ {Route!Remnant} \subseteq Route!WorthIt(r)
<1>1. \A t \in Route!Uses(r) : t[1] = "body" => Route!MayWrite(r)
  BY UsesAreFit
<1>2. Route!Uses(r) \ {Route!Remnant} \subseteq Route!Plan(r)
  <2>1. CASE r.via = "rest"
    <3>1. r.op \in Route!RestOps
      BY <2>1 DEF Route!Requests
    <3> QED
      BY <2>1, <3>1 DEF Route!Uses, Route!Plan, Route!RestPlan, Route!RestOps
  <2>2. CASE r.via # "rest"
    <3>1. r.op \in Route!McpOps
      BY <2>2 DEF Route!Requests
    <3> QED
      BY <2>2, <3>1 DEF Route!Uses, Route!Plan, Route!ToolPlan, Route!McpOps, Framed
  <2> QED
    BY <2>1, <2>2
<1> QED
  BY <1>1, <1>2 DEF Route!WorthIt

LEMMA SaveIsRequest == Route!Save \in Route!Requests
BY DEF Route!Save, Route!Requests, Route!RestOps, Route!McpOps, Route!Ops, Route!Protocol,
   Route!Queries, Route!Changes, Route!Saves

LEMMA RouteInit == ASSUME Route!DispatchConstants, Route!Init PROVE DispatchInv
BY DEF Route!DispatchConstants, Route!Init, DispatchInv, RouteTyped, RouteLocks, Member, Planned,
   Ran, Changed, Phases

LEMMA PairOf == ASSUME NEW a, NEW b PROVE <<a, b>>[1] = a /\ <<a, b>>[2] = b
OBVIOUS

\* A request arrives, and is answered by the extractor, passed to the door, or, on stdio, run.
LEMMA ArriveInv ==
  ASSUME Route!DispatchConstants, DispatchInv, NEW c \in Client, Route!Arrive(c)
  PROVE  DispatchInv'
<1>1. PICK r \in Route!Requests :
        /\ req' = [req EXCEPT ![c] = r]
        /\ \/ r.via = "rest" /\ Route!Ends(c, 400, "text")
           \/ r.via = "stdio" /\ Route!Goes(c, "locked")
           \/ Route!Goes(c, "auth")
  BY SaveIsRequest DEF Route!Arrive, Route!Asks
<1>2. pc[c] = "idle" /\ UNCHANGED <<index, closing, lock, pre, ran, changed, healed>>
  BY DEF Route!Arrive
<1>3. r.via = "stdio" => r.token = "full"
  BY DEF Route!Requests
<1>4. PICK to \in {"done", "locked", "auth"} :
        /\ pc' = [pc EXCEPT ![c] = to]
        /\ to = "locked" => r.via = "stdio"
        /\ answer' = answer \/ \E x : answer' = [answer EXCEPT ![c] = x]
  BY <1>1 DEF Route!Ends, Route!Goes
<1>5. RouteTyped'
  BY <1>1, <1>2, <1>4 DEF DispatchInv, RouteTyped, Phases
<1>6. \A d \in Client \ {c} : pc'[d] = pc[d] /\ req'[d] = req[d] /\ answer'[d] = answer[d]
  BY <1>1, <1>4 DEF DispatchInv, RouteTyped
<1>7. pc'[c] = to /\ req'[c] = r /\ c \notin changed /\ ran[c] = {}
  BY <1>1, <1>2, <1>4 DEF DispatchInv, RouteTyped, Changed, Ran
<1>8. RouteLocks' /\ Member'
  BY <1>2, <1>3, <1>4, <1>6, <1>7 DEF DispatchInv, RouteLocks, Member
<1>9. Planned' /\ Ran' /\ Changed'
  BY <1>2, <1>4, <1>6, <1>7 DEF DispatchInv, Planned, Ran, Changed
<1> QED
  BY <1>5, <1>8, <1>9 DEF DispatchInv

\* A step of c that leaves the store, the requests and the index alone, runs nothing, and
\* neither takes the lock nor passes it on.
Quiet(c, to) ==
  /\ pc' = [pc EXCEPT ![c] = to]
  /\ answer' = answer \/ \E x : answer' = [answer EXCEPT ![c] = x]
  /\ UNCHANGED <<req, index, closing, lock, pre, ran, changed, healed>>

LEMMA QuietInv ==
  ASSUME Route!DispatchConstants, DispatchInv, NEW c \in Client,
         NEW to \in {"open", "embed", "done"},
         pc[c] \in {"auth", "open"}, Quiet(c, to),
         to # "done" => req[c].token \notin {"none", "admin"}
  PROVE  DispatchInv'
<1>1. RouteTyped'
  BY DEF DispatchInv, RouteTyped, Phases, Quiet
<1>2. \A d \in Client \ {c} : pc'[d] = pc[d] /\ answer'[d] = answer[d]
  BY DEF DispatchInv, RouteTyped, Quiet
<1>3. pc'[c] = to /\ c \notin changed
  BY DEF DispatchInv, RouteTyped, Changed, Quiet
<1>4. RouteLocks' /\ Member'
  BY <1>2, <1>3 DEF DispatchInv, RouteLocks, Member, Quiet
<1>5. Planned' /\ Ran' /\ Changed'
  BY <1>2, <1>3 DEF DispatchInv, Planned, Ran, Changed, Quiet
<1> QED
  BY <1>1, <1>4, <1>5 DEF DispatchInv

LEMMA AuthInv ==
  ASSUME Route!DispatchConstants, DispatchInv, NEW c \in Client, Route!Auth(c)
  PROVE  DispatchInv'
<1>1. pc[c] = "auth"
  BY DEF Route!Auth
<1>2. Quiet(c, "done") \/ (Quiet(c, "open") /\ req[c].token \notin {"none", "admin"})
  BY DEF Route!Auth, Route!Ends, Route!Goes, Quiet
<1> QED
  BY <1>1, <1>2, QuietInv

LEMMA OpenInv ==
  ASSUME Route!DispatchConstants, DispatchInv, NEW c \in Client, Route!Open(c)
  PROVE  DispatchInv'
<1>1. pc[c] = "open" /\ req[c].token \notin {"none", "admin"}
  BY DEF Route!Open, DispatchInv, Member
<1>2. Quiet(c, "done") \/ Quiet(c, "embed")
  BY DEF Route!Open, Route!Ends, Route!Goes, Quiet
<1> QED
  BY <1>1, <1>2, QuietInv

\* What is planned is embedded before the lock is waited for.
LEMMA PreEmbedInv ==
  ASSUME Route!DispatchConstants, DispatchInv, NEW c \in Client, Route!PreEmbed(c)
  PROVE  DispatchInv'
<1> DEFINE plan == Route!WorthIt(req[c])
           new == {<<t, "before">> : t \in plan}
<1>1. PICK to \in {"done", "wait"} :
        /\ pc[c] = "embed" /\ pc' = [pc EXCEPT ![c] = to]
        /\ answer' = answer \/ \E x : answer' = [answer EXCEPT ![c] = x]
        /\ pre' = [pre EXCEPT ![c] = plan] /\ ran' = [ran EXCEPT ![c] = @ \cup new]
        /\ UNCHANGED <<req, index, closing, lock, changed, healed>>
  BY DEF Route!PreEmbed, Route!Ends, Route!Goes
<1>2. RouteTyped'
  BY <1>1 DEF DispatchInv, RouteTyped, Phases
<1>3. \A d \in Client \ {c} : /\ pc'[d] = pc[d] /\ answer'[d] = answer[d]
                              /\ pre'[d] = pre[d] /\ ran'[d] = ran[d]
  BY <1>1 DEF DispatchInv, RouteTyped
<1>4. /\ pc'[c] = to /\ c \notin changed /\ pre'[c] = plan /\ ran'[c] = ran[c] \cup new
      /\ req[c] \in Route!Requests /\ req[c].token \notin {"none", "admin"}
  BY <1>1 DEF DispatchInv, RouteTyped, Changed, Member
<1>5. RouteLocks' /\ Member' /\ Changed'
  BY <1>1, <1>3, <1>4 DEF DispatchInv, RouteLocks, Member, Changed
<1>6. Planned'
  <2>1. req[c].via # "stdio" /\ Framed(req[c]) /\ index =>
          Route!Uses(req[c]) \ {Route!Remnant} \subseteq plan
    BY <1>4, PlanCovers
  <2> QED
    BY <1>1, <1>3, <1>4, <2>1 DEF DispatchInv, Planned
<1>7. Ran'
  <2>1. ASSUME NEW u \in new
        PROVE  u[2] = "before" /\ (u[1][1] = "body" => Route!MayWrite(req[c]))
    <3>1. PICK t \in plan : u = <<t, "before">>
      BY <2>1
    <3>2. u[1] = t /\ u[2] = "before"
      BY <3>1, PairOf
    <3> QED
      BY <3>2, WorthItIsFit
  <2> QED
    BY <1>1, <1>3, <1>4, <2>1 DEF DispatchInv, Ran
<1> QED
  BY <1>2, <1>5, <1>6, <1>7 DEF DispatchInv

LEMMA TakeInv ==
  ASSUME Route!DispatchConstants, DispatchInv, NEW c \in Client, Route!Take(c)
  PROVE  DispatchInv'
<1>1. /\ pc[c] = "wait" /\ lock = None /\ lock' = c /\ pc' = [pc EXCEPT ![c] = "locked"]
      /\ UNCHANGED <<answer, req, index, closing, pre, ran, changed, healed>>
  BY DEF Route!Take, Route!Goes
<1>2. RouteTyped'
  BY <1>1 DEF DispatchInv, RouteTyped, Phases
<1>3. pc'[c] = "locked" /\ \A d \in Client \ {c} : pc'[d] = pc[d]
  BY <1>1 DEF DispatchInv, RouteTyped
<1>4. RouteLocks' /\ Member'
  BY <1>1, <1>3 DEF Route!DispatchConstants, DispatchInv, RouteLocks, Member
<1>5. Planned' /\ Ran' /\ Changed'
  BY <1>1, <1>3 DEF DispatchInv, Planned, Ran, Changed
<1> QED
  BY <1>2, <1>4, <1>5 DEF DispatchInv

\* The end of a client in the lock: it lets go of it, and may have run texts or changed the
\* store on the way.
Leaves(c, status, body, more) ==
  /\ pc[c] = "locked" /\ Route!Release(c) /\ pc' = [pc EXCEPT ![c] = "done"]
  /\ answer' = [answer EXCEPT ![c] = <<status, body>>]
  /\ DOMAIN ran' = Client /\ ran'[c] = ran[c] \cup more
  /\ \A d \in Client \ {c} : ran'[d] = ran[d]
  /\ \A u \in more : /\ u[2] = "under" /\ index
                     /\ req[c].op \in Route!Retractions \/ c \in healed
                     /\ u[1][1] = "body" => Route!MayWrite(req[c])
  /\ changed' \in {changed, changed \cup {c}}
  /\ changed' # changed /\ status \in {400, 401, 403, 503, 202} => req[c].op = "batch"
  /\ UNCHANGED <<req, index, closing, pre, healed>>

LEMMA LeaveInv ==
  ASSUME Route!DispatchConstants, DispatchInv, NEW c \in Client, NEW status, NEW body, NEW more,
         Leaves(c, status, body, more)
  PROVE  DispatchInv'
<1>1. RouteTyped'
  BY DEF DispatchInv, RouteTyped, Phases, Leaves
<1>2. \A d \in Client \ {c} : pc'[d] = pc[d] /\ answer'[d] = answer[d] /\ ran'[d] = ran[d]
  BY DEF DispatchInv, RouteTyped, Leaves
<1>3. /\ pc'[c] = "done" /\ ran'[c] = ran[c] \cup more /\ c \notin changed
      /\ req[c].token \notin {"none", "admin"}
  BY DEF DispatchInv, RouteTyped, Changed, Member, Leaves
<1>4. answer'[c][1] = status
  BY PairOf DEF DispatchInv, RouteTyped, Leaves
<1>5. lock' # c /\ \A d \in Client \ {c} : lock = d <=> lock' = d
  BY DEF Route!Release, Leaves, Route!DispatchConstants
<1>6. RouteLocks' /\ Member'
  BY <1>2, <1>3, <1>5 DEF Route!DispatchConstants, DispatchInv, RouteLocks, Member, Route!Release,
     Leaves
<1>7. Planned' /\ Ran'
  BY <1>2, <1>3 DEF DispatchInv, Planned, Ran, Leaves
<1>8. Changed'
  BY <1>2, <1>3, <1>4 DEF DispatchInv, Changed, Leaves
<1> QED
  BY <1>1, <1>6, <1>7, <1>8 DEF DispatchInv

LEMMA TooLateInv ==
  ASSUME Route!DispatchConstants, DispatchInv, NEW c \in Client, Route!TooLate(c)
  PROVE  DispatchInv'
<1>1. Leaves(c, 503, "text", {})
  BY DEF Route!TooLate, Route!Ends, Leaves, DispatchInv, RouteTyped
<1> QED
  BY <1>1, LeaveInv

\* What the engine embeds in the lock is not planned: a retraction's, or the index came between.
LEMMA UnderIsFit ==
  ASSUME DispatchInv, NEW c \in Client, NEW cut \in BOOLEAN, NEW u \in Route!Under(c, cut),
         pc[c] = "locked", Framed(req[c])
  PROVE  /\ u[2] = "under" /\ index
         /\ req[c].op \in Route!Retractions \/ c \in healed
         /\ u[1][1] = "body" => Route!MayWrite(req[c])
<1>1. index /\ req[c].via # "stdio"
  BY DEF Route!Under
<1>2. PICK t \in Route!Uses(req[c]) \ pre[c] : u = <<t, "under">>
  BY <1>1 DEF Route!Under
<1>3. u[1] = t /\ u[2] = "under"
  BY <1>2, PairOf
<1>4. CASE t = Route!Remnant
  BY <1>1, <1>2, <1>3, <1>4, UsesAreFit, RemnantIsRetracted
<1>5. CASE t # Route!Remnant
  <2>1. c \in healed
    BY <1>1, <1>2, <1>5 DEF DispatchInv, Planned
  <2> QED
    BY <1>1, <1>2, <1>3, <2>1, UsesAreFit
<1> QED
  BY <1>4, <1>5

LEMMA PanicInv ==
  ASSUME Route!DispatchConstants, DispatchInv, NEW c \in Client, NEW cut \in BOOLEAN,
         Route!Panic(c, cut)
  PROVE  DispatchInv'
<1>1. pc[c] = "locked" /\ Framed(req[c])
  BY DEF Route!Panic, Route!IsRun, Framed
<1>2. ran' = ran \/ ran' = [ran EXCEPT ![c] = @ \cup Route!Under(c, cut)]
  BY DEF Route!Panic
<1>3. PICK some \in {{}, Route!Under(c, cut)} :
        /\ DOMAIN ran' = Client /\ ran'[c] = ran[c] \cup some
        /\ \A d \in Client \ {c} : ran'[d] = ran[d]
  BY <1>2 DEF DispatchInv, RouteTyped
<1>4. \A u \in some : /\ u[2] = "under" /\ index
                      /\ req[c].op \in Route!Retractions \/ c \in healed
                      /\ u[1][1] = "body" => Route!MayWrite(req[c])
  BY <1>1, <1>2, <1>3, UnderIsFit
<1>5. Leaves(c, 500, "text", some)
  BY <1>3, <1>4 DEF Route!Panic, Route!Ends, Leaves, DispatchInv, RouteTyped
<1> QED
  BY <1>5, LeaveInv

\* A request that did what it was asked is not answered like a refusal.
LEMMA GoodIsTold ==
  ASSUME NEW c \in Client, req[c].op \in Route!Changes, req[c].via = "rest" \/ Route!IsRun(req[c]),
         Route!Answer(c, "good")
  PROVE  Route!Ends(c, 200, "result")
<1>1. req[c].op \notin Route!Protocol \cup {"prompt", "bootstrap"}
  BY DEF Route!Changes, Route!Saves, Route!Retractions, Route!Protocol
<1>2. CASE req[c].via = "rest"
  BY <1>2 DEF Route!Answer, Route!Rest
<1>3. CASE req[c].via # "rest"
  BY <1>1, <1>3 DEF Route!Answer, Route!Rpc, Route!IsRun, Route!Tool, Route!Protocol
<1> QED
  BY <1>2, <1>3

\* Every answer ends the request.
LEMMA AnswerEnds ==
  ASSUME NEW c \in Client, NEW end \in {"good", "fault", "refused"}, Route!Answer(c, end)
  PROVE  \E status, body : Route!Ends(c, status, body)
<1>1. CASE req[c].via = "rest"
  BY <1>1 DEF Route!Answer, Route!Rest
<1>2. CASE req[c].via # "rest"
  BY <1>2 DEF Route!Answer, Route!Rpc, Route!Tool, Route!Prompt, Route!HttpFrame, Route!StdioFrame
<1> QED
  BY <1>1, <1>2

LEMMA RunInv ==
  ASSUME Route!DispatchConstants, DispatchInv, NEW c \in Client,
         NEW fault \in BOOLEAN, NEW cut \in BOOLEAN, Route!Run(c, fault, cut)
  PROVE  DispatchInv'
<1> DEFINE r == req[c]
           runs == r.via = "rest" \/ Route!IsRun(r)
           end == IF ~runs \/ ~Route!Succeeds(r) THEN "refused"
                  ELSE IF fault THEN "fault" ELSE "good"
           more == IF runs THEN Route!Under(c, cut) ELSE {}
<1>1. /\ pc[c] = "locked" /\ Route!Release(c) /\ Route!Answer(c, end)
      /\ changed' = IF r.op \in Route!Changes /\ (end = "good" \/ (end = "fault" /\ r.op = "batch"))
                    THEN changed \cup {c} ELSE changed
      /\ ran' = [ran EXCEPT ![c] = @ \cup more]
      /\ UNCHANGED <<req, index, closing, pre, healed>>
  BY DEF Route!Run
<1>2. end \in {"good", "fault", "refused"} /\ (end = "good" => runs)
  OBVIOUS
<1>3. PICK status, body : Route!Ends(c, status, body)
  BY <1>1, <1>2, AnswerEnds
<1>4. answer' = [answer EXCEPT ![c] = <<status, body>>] /\ pc' = [pc EXCEPT ![c] = "done"]
  BY <1>3 DEF Route!Ends
<1>5. ASSUME NEW u \in more
      PROVE  /\ u[2] = "under" /\ index
             /\ r.op \in Route!Retractions \/ c \in healed
             /\ u[1][1] = "body" => Route!MayWrite(r)
  <2>1. runs /\ u \in Route!Under(c, cut)
    BY <1>5
  <2>2. Framed(r)
    BY <2>1 DEF Framed, Route!IsRun
  <2> QED
    BY <1>1, <2>1, <2>2, UnderIsFit
<1>6. ASSUME changed' # changed, status \in {400, 401, 403, 503, 202}
      PROVE  r.op = "batch"
  <2>1. CASE end = "good"
    <3>1. Route!Ends(c, 200, "result")
      BY <1>1, <1>2, <1>6, <2>1, GoodIsTold
    <3>2. answer'[c] = <<200, "result">> /\ answer'[c] = <<status, body>>
      BY <1>4, <3>1 DEF Route!Ends, DispatchInv, RouteTyped
    <3>3. status = 200
      BY <3>2, PairOf
    <3> QED
      BY <1>6, <3>3
  <2>2. CASE end # "good"
    BY <1>1, <1>6, <2>2
  <2> QED
    BY <2>1, <2>2
<1>7. changed' \in {changed, changed \cup {c}}
  BY <1>1
<1>8. /\ DOMAIN ran' = Client /\ ran'[c] = ran[c] \cup more
      /\ \A d \in Client \ {c} : ran'[d] = ran[d]
  BY <1>1 DEF DispatchInv, RouteTyped
<1> HIDE DEF runs, end, more
<1>9. Leaves(c, status, body, more)
  BY <1>1, <1>4, <1>5, <1>6, <1>7, <1>8 DEF Leaves
<1> QED
  BY <1>9, LeaveInv

\* An index that heals meets nobody in the lock, and finds who waits for it.
LEMMA HealInv ==
  ASSUME Route!DispatchConstants, DispatchInv, Route!Heal
  PROVE  DispatchInv'
<1>1. /\ ~index /\ lock = None /\ index' = TRUE /\ healed' = {c \in Client : pc[c] = "wait"}
      /\ UNCHANGED <<req, pc, closing, lock, pre, answer, ran, changed>>
  BY DEF Route!Heal
<1>2. RouteTyped' /\ RouteLocks' /\ Member' /\ Changed'
  BY <1>1 DEF Route!DispatchConstants, DispatchInv, RouteTyped, RouteLocks, Member, Changed
<1>3. Planned'
  BY <1>1 DEF Route!DispatchConstants, DispatchInv, Planned, RouteLocks
<1>4. Ran'
  BY <1>1 DEF DispatchInv, Ran
<1> QED
  BY <1>2, <1>3, <1>4 DEF DispatchInv

\* Every step keeps the invariant.
LEMMA RouteStep ==
  ASSUME Route!DispatchConstants, DispatchInv, [Route!Next]_(Route!vars)
  PROVE  DispatchInv'
<1>1. CASE Route!Close
  BY <1>1 DEF Route!Close, DispatchInv, RouteTyped, RouteLocks, Member, Planned, Ran, Changed
<1>2. CASE UNCHANGED Route!vars
  BY <1>2 DEF Route!vars, DispatchInv, RouteTyped, RouteLocks, Member, Planned, Ran, Changed
<1> QED
  BY <1>1, <1>2, ArriveInv, AuthInv, OpenInv, PreEmbedInv, TakeInv, TooLateInv, PanicInv, RunInv,
     HealInv DEF Route!Next, Route!Step

\* The invariant says all that the requests run checks in a state.
LEMMA InvSays ==
  ASSUME Route!DispatchConstants, DispatchInv
  PROVE  Route!TypeOK /\ Route!LockIsShort /\ Route!ModelIsForMembers /\ Route!RefusedChangesNothing
<1>1. Route!TypeOK
  <2>1. \A c \in Client : req[c] = None <=> pc[c] = "idle"
    BY DEF Route!DispatchConstants, DispatchInv, RouteTyped
  <2> QED
    BY <2>1 DEF DispatchInv, RouteTyped, RouteLocks, Route!TypeOK
<1>2. Route!LockIsShort /\ Route!ModelIsForMembers
  BY DEF DispatchInv, Ran, Route!LockIsShort, Route!ModelIsForMembers
<1>3. Route!RefusedChangesNothing
  BY DEF DispatchInv, Changed, Route!RefusedChangesNothing
<1> QED
  BY <1>1, <1>2, <1>3

\* The other parts of a behaviour leave a route as it is.
LEMMA RouteAlways == MCSpec => []DispatchInv
<1>1. MCInit => DispatchInv
  BY DispatchAssumption, RouteInit DEF MCInit
<1>2. DispatchInv /\ [MCNext]_<<part, vars, dispatch_vars, client_vars>> => DispatchInv'
  <2>1. dispatch_vars' = dispatch_vars => UNCHANGED Route!vars
    BY DEF dispatch_vars, Route!vars
  <2>2. [MCNext]_<<part, vars, dispatch_vars, client_vars>> => [Route!Next]_(Route!vars)
    BY <2>1 DEF MCNext, Accessing, Routing, Calling
  <2> QED
    BY <2>2, DispatchAssumption, RouteStep
<1> QED
  BY <1>1, <1>2, PTL DEF MCSpec

\* No save, recall or prompt runs the model under the tenant lock but one that planned before the
\* index came, and the model runs for members of the tenant only (server.rs pre_embed, mcp.rs
\* embed_plan, against what tools.rs embeds).
THEOREM RequestLockIsShort == MCSpec => []LockIsShort
<1>1. DispatchInv => LockIsShort
  BY DispatchAssumption, InvSays DEF LockIsShort
<1> QED
  BY <1>1, RouteAlways, PTL

\* A refusal, a stop or a notification leaves the store as it was (server.rs on_tenant and its
\* routes, mcp.rs handle).
THEOREM RequestRefusalIsWhole == MCSpec => []Route!RefusedChangesNothing
<1>1. DispatchInv => Route!RefusedChangesNothing
  BY DispatchAssumption, InvSays
<1> QED
  BY <1>1, RouteAlways, PTL

-----------------------------------------------------------------------------
(* The client that keeps --scope.                                          *)

Session == [place : {"remote", "insecure", "local", "bound"},
            token : {"full", "scoped", "adapter"},
            policy : BOOLEAN, scope : Remote!Scopes \cup {None, Bad}]

\* A request is on its way to a server, and names a record.
Underway ==
  /\ session \in Session
  /\ step \in {"ask", "send", "reply"} =>
       /\ session.place = "remote" /\ uri \in Uri
       /\ verb \in {"save", "retract", "wire", "recall"}

\* Past `Open` the session is fit, before it nothing is done.
Opened ==
  /\ step \in {"open", "over"} => ~wrote /\ asked = None
  /\ step \notin {"open", "over"} => ~Remote!Unfit

\* The question: asked under --scope only, at most once, and before any write.
AskedFirst ==
  /\ asked # None => session.place = "remote" /\ session.scope # None
  /\ step = "ask" => asked = None /\ session.scope # None /\ verb # "recall"
  /\ step = "send" /\ verb # "recall" => session.scope = None \/ asked = "yes"
  /\ wrote => session.place # "remote" \/ session.scope = None \/ asked = "yes"
  /\ told = "nothing" => step = "over" \/ asked = "no"

\* The answer: as long as the server is the one that gave it, it is true.
AnswerHolds ==
  /\ asked = None => ~stale
  /\ asked = "yes" /\ ~stale => server = "header" /\ session.token # "scoped"

\* A scope named in a reply is the one the rows are stamped with.
EchoIsTrue == reply.scope \in {None, reply.stamp}

ClientInv == Remote!TypeOK /\ Underway /\ Opened /\ AskedFirst /\ AnswerHolds /\ EchoIsTrue

-----------------------------------------------------------------------------
\* The embedded engine writes in the scope asked for, Own or the global one.
LEMMA EmbeddedIsScope ==
  ASSUME Remote!ClientConstants, session \in Session, ~Remote!Unfit,
         session.place \in {"local", "bound"}
  PROVE  /\ Remote!Embedded \in Remote!Scopes
         /\ session.scope \in Scope => Remote!Embedded = session.scope
BY DEF Remote!ClientConstants, Session, Remote!Unfit, Remote!Embedded, Remote!Scopes

\* What a retraction reaches lies in the scope it is stamped with, but for an unbound one.
LEMMA ReachedInScope ==
  ASSUME NEW stamp \in Remote!Scopes, NEW u \in Uri
  PROVE  /\ Remote!Reached(stamp, u) \subseteq Uri \X Remote!Scopes
         /\ stamp # Global => \A r \in Remote!Reached(stamp, u) : r[2] = stamp
BY DEF Remote!Reached

LEMMA RemoteInit == ASSUME Remote!ClientConstants, Remote!Init PROVE ClientInv
<1>1. Remote!TypeOK
  <2>1. rows \subseteq Uri \X Remote!Scopes
    BY DEF Remote!Init
  <2>2. server \in Remote!Servers /\ swaps \in 0..MaxSwaps
    BY DEF Remote!Init, Remote!ClientConstants
  <2>3. step = "open" /\ asked = None /\ asked # "no" /\ wrote = FALSE /\ stale = FALSE
    BY DEF Remote!Init, Remote!ClientConstants
  <2> QED
    BY <2>1, <2>2, <2>3 DEF Remote!TypeOK
<1>2. Underway /\ Opened /\ AskedFirst /\ AnswerHolds
  BY DEF Remote!Init, Underway, Opened, AskedFirst, AnswerHolds, Session, Remote!ClientConstants
<1>3. EchoIsTrue
  BY DEF Remote!Init, EchoIsTrue, Remote!NoReply
<1> QED
  BY <1>1, <1>2, <1>3 DEF ClientInv

\* Every step keeps the invariant.
LEMMA RemoteStep ==
  ASSUME Remote!ClientConstants, ClientInv, [Remote!Next]_(Remote!vars)
  PROVE  ClientInv'
<1> USE DEF Remote!ClientConstants
<1> DEFINE Parts ==
             Remote!TypeOK' /\ Underway' /\ Opened' /\ AskedFirst' /\ AnswerHolds' /\ EchoIsTrue'
<1>0. SUFFICES Parts
  BY DEF ClientInv
<1>1. ASSUME NEW v \in Remote!Servers, Remote!Swap(v) PROVE Parts
  <2>1. /\ server' = v /\ swaps' \in 0..MaxSwaps /\ stale' = (asked # None)
        /\ UNCHANGED <<session, shown, rows, step, verb, uri, asked, reply, told, wrote>>
    BY <1>1 DEF Remote!Swap, ClientInv, Remote!TypeOK
  <2>2. Remote!TypeOK'
    BY <2>1 DEF ClientInv, Remote!TypeOK
  <2>3. Underway' /\ Opened' /\ EchoIsTrue'
    BY <2>1 DEF ClientInv, Underway, Opened, EchoIsTrue, Remote!Unfit, Remote!Embedded
  <2>4. AskedFirst' /\ AnswerHolds'
    BY <2>1 DEF ClientInv, AskedFirst, AnswerHolds
  <2> QED
    BY <2>2, <2>3, <2>4
<1>2. CASE Remote!Open
  BY <1>2 DEF ClientInv, Remote!Open, Remote!TypeOK, Underway, Opened, AskedFirst, AnswerHolds,
     EchoIsTrue,
              Remote!Unfit, Remote!Embedded
<1>3. CASE Remote!Ask
  <2>1. step = "ask" /\ asked = None /\ ~stale /\ ~stale' /\ session.scope \in Remote!Scopes
    BY <1>3 DEF Remote!Ask, ClientInv, AskedFirst, AnswerHolds, Opened, Remote!Unfit, Underway,
       Session
  <2>2. CASE Remote!Probe /\ step' = "send" /\ asked' = "yes" /\ UNCHANGED told
    BY <1>3, <2>1, <2>2 DEF Remote!Ask, Remote!Probe, ClientInv, Remote!TypeOK, Underway, Opened,
       AskedFirst,
       AnswerHolds, EchoIsTrue, Remote!Unfit, Remote!Embedded
  <2>3. CASE step' = "ready" /\ asked' = "no" /\ told' = "nothing"
    BY <1>3, <2>1, <2>3 DEF Remote!Ask, ClientInv, Remote!TypeOK, Underway, Opened, AskedFirst,
       AnswerHolds, EchoIsTrue, Remote!Unfit, Remote!Embedded
  <2> QED
    BY <1>3, <2>2, <2>3 DEF Remote!Ask
<1>4. CASE Remote!Send
  <2>1. /\ step = "send" /\ step' = "reply" /\ uri \in Uri
        /\ verb \in {"save", "retract", "wire", "recall"}
        /\ UNCHANGED <<session, shown, server, swaps, verb, uri, asked, told, stale>>
    BY <1>4 DEF Remote!Send, ClientInv, Underway
  <2>2. rows' \subseteq Uri \X Remote!Scopes /\ wrote' \in BOOLEAN /\ EchoIsTrue'
    <3>1. CASE verb = "recall"
      BY <1>4, <3>1 DEF Remote!Send, ClientInv, Remote!TypeOK, EchoIsTrue, Remote!NoReply
    <3>2. CASE verb # "recall" /\ Remote!Stamped \in Remote!Scopes
      <4>1. \/ rows' = rows \cup {<<uri, Remote!Stamped>>}
            \/ rows' = rows \ Remote!Reached(Remote!Stamped, uri)
              \/ rows' = rows
        BY <1>4, <2>1, <3>2 DEF Remote!Send, Remote!Writes
      <4>2. wrote' = TRUE /\ reply' = Remote!Answer(Remote!Stamped)
        BY <1>4, <3>2 DEF Remote!Send, Remote!Writes
      <4> QED
        BY <2>1, <3>2, <4>1, <4>2 DEF ClientInv, Remote!TypeOK, EchoIsTrue, Remote!Answer,
           Remote!NoReply
    <3>3. CASE verb # "recall" /\ Remote!Stamped \notin Remote!Scopes
      BY <1>4, <3>3 DEF Remote!Send, ClientInv, Remote!TypeOK, EchoIsTrue
    <3> QED
      BY <3>1, <3>2, <3>3
  <2>3. wrote' => wrote \/ verb # "recall"
    BY <1>4 DEF Remote!Send
  <2> QED
    BY <2>1, <2>2, <2>3 DEF ClientInv, Remote!TypeOK, Underway, Opened, AskedFirst, AnswerHolds,
       Remote!Unfit, Remote!Embedded
<1>5. CASE Remote!Hear \/ Remote!Miss \/ Remote!Show
  BY <1>5 DEF Remote!Hear, Remote!Miss, Remote!Show, ClientInv, Remote!TypeOK, Underway, Opened,
     AskedFirst, AnswerHolds,
              EchoIsTrue, Remote!Unfit, Remote!Embedded
<1>6. ASSUME NEW v \in {"save", "retract", "wire", "recall"}, NEW u \in Uri, Remote!Call(v, u)
      PROVE  Parts
  <2>1. Remote!First(v) \in {"send", "ready", "ask"}
    BY DEF Remote!First
  <2>2. Remote!First(v) = "ready" => asked = "no"
    BY DEF Remote!First
  <2>3. Remote!First(v) = "ask" => asked = None /\ session.scope # None /\ v # "recall"
    BY <1>6 DEF Remote!First, ClientInv, Remote!TypeOK
  <2>4. Remote!First(v) = "send" => v = "recall" \/ session.scope = None \/ asked = "yes"
    BY DEF Remote!First
  <2> QED
    BY <1>6, <2>1, <2>2, <2>3, <2>4 DEF Remote!Call, Remote!NoReply, ClientInv, Remote!TypeOK,
       Underway, Opened,
       AskedFirst, AnswerHolds, EchoIsTrue, Remote!Unfit, Remote!Embedded
<1>7. ASSUME NEW v \in {"save", "retract", "wire", "recall"}, NEW u \in Uri, Remote!Embed(v, u)
      PROVE  Parts
  <2>1. Remote!Embedded \in Remote!Scopes
    BY <1>7, EmbeddedIsScope DEF Remote!Embed, ClientInv, Underway, Opened
  <2>2. rows' \subseteq Uri \X Remote!Scopes
    BY <1>7, <2>1 DEF Remote!Embed, ClientInv, Remote!TypeOK
  <2>3. EchoIsTrue'
    BY <1>7 DEF Remote!Embed, EchoIsTrue, Remote!NoReply
  <2> QED
    BY <1>7, <2>2, <2>3 DEF Remote!Embed, ClientInv, Remote!TypeOK, Underway, Opened, AskedFirst,
       AnswerHolds, Remote!Unfit, Remote!Embedded
<1>8. CASE UNCHANGED Remote!vars
  BY <1>8 DEF Remote!vars, ClientInv, Remote!TypeOK, Underway, Opened, AskedFirst, AnswerHolds,
     EchoIsTrue,
              Remote!Unfit, Remote!Embedded
<1> QED
  BY <1>1, <1>2, <1>3, <1>4, <1>5, <1>6, <1>7, <1>8 DEF Remote!Next

-----------------------------------------------------------------------------
\* "Nothing was written" is true of the invocation so far.
LEMMA InvRefusal == ASSUME Remote!ClientConstants, ClientInv PROVE Remote!RefusalIsWhole
BY DEF Remote!ClientConstants, ClientInv, Opened, AskedFirst, Remote!RefusalIsWhole, Remote!TypeOK

\* A save that is confirmed was stamped with the scope asked for.
LEMMA StepSaved ==
  ASSUME ClientInv, Remote!Hear, verb = "save", session.scope # None, told' = "done"
  PROVE  reply.stamp = session.scope
BY DEF ClientInv, EchoIsTrue, Remote!Hear, Remote!Confirmed

\* A retraction under --scope reaches that scope's rows, on the server that was asked and in
\* the embedded engine.
LEMMA StepRetracted ==
  ASSUME Remote!ClientConstants, ClientInv, Remote!Next,
         session.scope \in Scope, ~stale, verb' = "retract",
         NEW r \in rows \ rows'
  PROVE  r[2] = session.scope
<1> USE DEF Remote!ClientConstants
<1>1. CASE Remote!Send
  <2>1. verb = "retract" /\ step = "send" /\ uri \in Uri
    BY <1>1 DEF Remote!Send, ClientInv, Underway
  <2>2. asked = "yes" /\ server = "header" /\ session.token # "scoped"
    BY <2>1 DEF ClientInv, AskedFirst, AnswerHolds
  <2>3. Remote!Stamped = session.scope
    <3>1. session.token \in {"full", "adapter"} /\ session.scope # None
      BY <2>2 DEF ClientInv, Underway, Session
    <3>2. CASE session.token = "adapter"
      BY <3>2 DEF Remote!Stamped
    <3>3. CASE session.token = "full"
      BY <2>2, <3>1, <3>3 DEF Remote!Stamped
    <3> QED
      BY <3>1, <3>2, <3>3
  <2>4. Remote!Stamped \in Remote!Scopes /\ Remote!Stamped # Global
    BY <2>3 DEF Remote!Scopes
  <2>5. rows' = rows \ Remote!Reached(Remote!Stamped, uri)
    BY <1>1, <2>1, <2>4 DEF Remote!Send, Remote!Writes
  <2> QED
    BY <2>1, <2>3, <2>4, <2>5, ReachedInScope
<1>2. ASSUME NEW v \in {"save", "retract", "wire", "recall"}, NEW u \in Uri, Remote!Embed(v, u)
      PROVE  r[2] = session.scope
  <2>1. /\ Remote!Embedded = session.scope /\ Remote!Embedded \in Remote!Scopes
        /\ Remote!Embedded # Global
    BY <1>2, EmbeddedIsScope DEF Remote!Embed, ClientInv, Underway, Opened
  <2>2. rows' = rows \ Remote!Reached(Remote!Embedded, u)
    BY <1>2 DEF Remote!Embed
  <2> QED
    BY <2>1, <2>2, ReachedInScope
<1> QED
  BY <1>1, <1>2 DEF Remote!Next, Remote!Swap, Remote!Open, Remote!Ask, Remote!Hear, Remote!Miss,
     Remote!Show, Remote!Call

\* A recall shows what was sent.
LEMMA StepShown ==
  ASSUME Remote!Show
  PROVE  /\ shown'.seeds \cup shown'.found = reply.seeds \cup reply.found
         /\ reply.stamp # "flat" => shown'.found = reply.found
BY DEF Remote!Show, Remote!Decoded

\* A step of a behaviour is one of the client, or leaves it as it is.
LEMMA RemoteSteps ==
  [MCNext]_<<part, vars, dispatch_vars, client_vars>> => [Remote!Next]_(Remote!vars)
<1>1. client_vars' = client_vars => UNCHANGED Remote!vars
  BY DEF client_vars, Remote!vars
<1> QED
  BY <1>1 DEF MCNext, Accessing, Routing, Calling

\* Every reachable state satisfies the invariant.
LEMMA RemoteAlways == MCSpec => []ClientInv
<1>1. MCInit => ClientInv
  BY ClientAssumption, RemoteInit DEF MCInit
<1>2. ClientInv /\ [MCNext]_<<part, vars, dispatch_vars, client_vars>> => ClientInv'
  BY ClientAssumption, RemoteSteps, RemoteStep
<1> QED
  BY <1>1, <1>2, PTL DEF MCSpec

\* --scope is kept, whatever servers come and go (client.rs ensure_write_scope_honoured,
\* uri_of; tools.rs effective_write_scope): all that the requests run checks of ScopedClient.
THEOREM RequestScopeIsKept == MCSpec => ScopeIsKept
<1>1. ClientInv => Remote!TypeOK /\ Remote!RefusalIsWhole
  BY ClientAssumption, InvRefusal DEF ClientInv
<1>2. ClientInv /\ [MCNext]_<<part, vars, dispatch_vars, client_vars>> =>
        [Remote!Hear /\ verb = "save" /\ session.scope # None /\ told' = "done" =>
           reply.stamp = session.scope]_(Remote!vars)
  BY ClientAssumption, RemoteSteps, StepSaved
<1>3. ClientInv /\ [MCNext]_<<part, vars, dispatch_vars, client_vars>> =>
        [session.scope \in Scope /\ ~stale /\ verb' = "retract" =>
           \A r \in rows \ rows' : r[2] = session.scope]_(Remote!vars)
  BY ClientAssumption, RemoteSteps, StepRetracted
<1>4. ClientInv /\ [MCNext]_<<part, vars, dispatch_vars, client_vars>> =>
        [Remote!Show => /\ shown'.seeds \cup shown'.found = reply.seeds \cup reply.found
                        /\ reply.stamp # "flat" => shown'.found = reply.found]_(Remote!vars)
  BY StepShown
<1> QED
  BY <1>1, <1>2, <1>3, <1>4, RemoteAlways, PTL
     DEF MCSpec, ScopeIsKept, Remote!ScopeIsKept, Remote!SavedWhereAsked,
         Remote!RetractedWhereAsked, Remote!SkewLosesNothing
=============================================================================
