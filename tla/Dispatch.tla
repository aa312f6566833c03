------------------------------ MODULE Dispatch ------------------------------
(***************************************************************************)
(* A request on its way through `dmem serve` (src/src/server.rs on_tenant  *)
(* and its routes, src/src/mcp.rs) or `dmem mcp` over stdio: whom it comes *)
(* from, which texts it will embed, what it does under the tenant lock,    *)
(* and how it is answered.  Requests of one tenant meet a stop, an index   *)
(* that heals between two of their steps, and one another's panics.        *)
(***************************************************************************)
EXTENDS Naturals, FiniteSets

CONSTANTS
  Client,  \* each sends one request
  Savers,  \* those of them that send a save that nothing is wrong with
  None

Queries == {"recall", "graph", "prompt"}
\* log_*, add_reminder and their like are "typed": their body is composed of their fields.
Saves   == {"remember", "typed", "entity", "import"}
Retractions == {"forget", "invalidate"}
Changes == Saves \cup Retractions \cup {"batch"}
\* What is answered without the engine: a list, a call without a name, unknown tools and methods.
Protocol == {"plain", "noname", "notool", "nomethod"}
Ops == Queries \cup Changes \cup Protocol \cup {"past", "read", "bootstrap"}
RestOps == Ops \ (Protocol \cup {"prompt", "bootstrap", "entity"})
McpOps == Ops \ {"graph", "import", "read"}

VARIABLES
  req,      \* [client -> request, or None]
  pc,       \* [client -> "idle", "auth", "open", "embed", "wait", "locked" or "done"]
  index,    \* the tenant's handle has a vector index
  closing, lock,
  pre,      \* [client -> texts embedded before the lock]
  reply,    \* [client -> <<status, body>>]
  ran,      \* ghost: [client -> <<text, "before" or "under" the lock>>]
  changed,  \* ghost: the clients whose request changed the store
  healed    \* ghost: the clients that planned before the index came
vars == <<req, pc, index, closing, lock, pre, reply, ran, changed, healed>>

Requests ==
  {r \in [via : {"rest", "mcp", "stdio"}, op : Ops, form : {"object", "array", "junk"},
          id : BOOLEAN, fit : BOOLEAN, token : {"none", "admin", "reader", "room", "full"},
          header : BOOLEAN] :
     /\ r.op \in IF r.via = "rest" THEN RestOps ELSE McpOps
     /\ r.via = "rest" => r.id
     /\ r.via = "stdio" => r.token = "full" /\ r.header
     \* Nobody looks at the rest of a request that is refused for one thing.
     /\ r.form # "object" => r.op \in {"plain", "forget"} /\ r.id /\ r.fit
     /\ r.token \in {"none", "admin"} \/ ~r.header => r.op = "remember" /\ r.id /\ r.fit}
Save == [via |-> "mcp", op |-> "remember", form |-> "object", id |-> TRUE, fit |-> TRUE,
         token |-> "full", header |-> TRUE]
Asks(c) == IF c \in Savers THEN {Save} ELSE Requests

\* What a configuration gives the constants: None is neither a client nor a request.
DispatchConstants == Savers \subseteq Client /\ None \notin Client \cup Requests

Init ==
  /\ req = [c \in Client |-> None] /\ pc = [c \in Client |-> "idle"]
  /\ index \in BOOLEAN /\ closing = FALSE /\ lock = None
  /\ pre = [c \in Client |-> {}] /\ ran = pre
  /\ reply = [c \in Client |-> <<0, "none">>]
  /\ changed = {} /\ healed = {}

-----------------------------------------------------------------------------
(* The texts of a request.  A text is what it is and how it was made.      *)

\* decision_body, lesson_body and the others.
Composed == <<"body", "composed">>
\* What a retracted record is left with: the body of the row that is its newest live one now.
Remnant == <<"body", "left behind">>
MayWrite(r) == r.token \in {"room", "full"}

\* body_chunks and query_vector: what the engine embeds, if there is an index.  A retraction
\* brings the slots back in line with the rows (resync_vector_slots).
Uses(r) ==
  CASE r.op \in {"recall", "graph"} -> {<<"query", "as sent">>}
    [] r.op = "prompt" /\ r.fit -> {<<"query", "trimmed">>}
    [] r.op \in {"remember", "import"} /\ r.fit /\ MayWrite(r) -> {<<"body", "as sent">>}
    [] r.op \in {"typed", "entity"} /\ r.fit /\ MayWrite(r) -> {Composed}
    [] r.op \in Retractions /\ r.fit /\ MayWrite(r) -> {Remnant}
    [] OTHER -> {}

\* Mutant: the text of a typed save is planned as it was sent.
PlanAsSent(r) ==
  CASE r.op \in Queries -> {<<"query", "as sent">>}
    [] r.op \in Saves -> {<<"body", "as sent">>}
    [] OTHER -> {}
\* The plan each route names.
RestPlan(r) ==
  CASE r.op \in {"recall", "graph"} -> {<<"query", "as sent">>}
    [] r.op \in {"remember", "import"} -> {<<"body", "as sent">>}
    [] r.op = "typed" -> {Composed}
    [] OTHER -> {}
\* embed_plan: nothing for an entity of no kind or no name, a blank query of the prompt, a
\* slice of the past.  A notification is planned too.
ToolPlan(r) ==
  IF r.form # "object" THEN {}
  ELSE CASE r.op = "recall" -> {<<"query", "as sent">>}
         [] r.op = "prompt" /\ r.fit -> {<<"query", "trimmed">>}
         [] r.op = "remember" -> {<<"body", "as sent">>}
         [] r.op = "typed" \/ (r.op = "entity" /\ r.fit) -> {Composed}
         [] OTHER -> {}
Plan(r) == IF r.via = "rest" THEN RestPlan(r) ELSE ToolPlan(r)

\* Mutant: the bodies are embedded whoever asks.
WorthItAlways(r) == IF index THEN Plan(r) ELSE {}
\* pre_embed: nothing without an index, no body for a token that cannot write.
WorthIt(r) ==
  IF index THEN {t \in Plan(r) : t[1] = "body" => MayWrite(r)} ELSE {}

-----------------------------------------------------------------------------
(* The steps of a request.                                                 *)

Ends(c, status, body) ==
  /\ pc' = [pc EXCEPT ![c] = "done"] /\ reply' = [reply EXCEPT ![c] = <<status, body>>]
Goes(c, to) == pc' = [pc EXCEPT ![c] = to] /\ UNCHANGED reply

\* The extractor refuses a malformed body of a REST route before anything else.
Arrive(c) ==
  /\ pc[c] = "idle"
  /\ \E r \in Asks(c) :
       /\ req' = [req EXCEPT ![c] = r]
       /\ CASE r.via = "rest" /\ r.form # "object" -> Ends(c, 400, "text")
            [] r.via = "stdio" -> Goes(c, "locked")
            [] OTHER -> Goes(c, "auth")
  /\ UNCHANGED <<index, closing, lock, pre, ran, changed, healed>>

\* on_tenant, and with_tenant_unscoped before it; the policy may not be readable.
Auth(c) ==
  /\ pc[c] = "auth"
  /\ LET r == req[c] IN
       IF r.token \in {"none", "admin"} THEN Ends(c, 401, "text")
       ELSE IF r.via = "rest" /\ r.op = "batch" /\ r.token # "full" THEN Ends(c, 403, "text")
       ELSE IF ~r.header THEN Ends(c, 400, "text")
       ELSE Goes(c, "open") \/ (r.token = "full" /\ Ends(c, 500, "text"))
  /\ UNCHANGED <<req, index, closing, lock, pre, ran, changed, healed>>

\* memory_for.
Open(c) ==
  /\ pc[c] = "open"
  /\ Goes(c, "embed") \/ Ends(c, 500, "text")
  /\ UNCHANGED <<req, index, closing, lock, pre, ran, changed, healed>>

\* pre_embed, and the first look at `closing`.
PreEmbed(c) ==
  /\ pc[c] = "embed"
  /\ pre' = [pre EXCEPT ![c] = WorthIt(req[c])]
  /\ ran' = [ran EXCEPT ![c] = @ \cup {<<t, "before">> : t \in WorthIt(req[c])}]
  /\ IF closing THEN Ends(c, 503, "text") ELSE Goes(c, "wait")
  /\ UNCHANGED <<req, index, closing, lock, changed, healed>>

\* A lock poisoned by a panic is taken all the same.
Take(c) ==
  /\ pc[c] = "wait" /\ lock = None /\ lock' = c
  /\ Goes(c, "locked")
  /\ UNCHANGED <<req, index, closing, pre, ran, changed, healed>>

\* handle: a request without an id is a notification, and nothing is done.
IsRun(r) == r.form = "object" /\ r.id

\* The engine does as asked.
Succeeds(r) ==
  /\ r.op \notin Protocol /\ r.fit
  /\ r.op \in Changes => MayWrite(r)
  /\ r.op = "batch" => r.token = "full"

\* The routes whose failure is no fault of the client's.
RestFaults == {"recall", "past", "graph", "read", "forget"}
\* A guard's refusal is a 400 on every route.
Rest(c, end) ==
  CASE end = "good" -> Ends(c, 200, "result")
    [] end = "fault" /\ req[c].op \in RestFaults -> Ends(c, 500, "text")
    [] OTHER -> Ends(c, 400, "text")

\* What is no JSON-RPC message: stdio passes an array over, HTTP does not.
HttpFrame(c) == Ends(c, 400, "null id")
StdioFrame(c) == Ends(c, 0, IF req[c].form = "junk" THEN "null id" ELSE "none")
\* call_tool: what fails is a result that says so.
Tool(c, end) == Ends(c, 200, IF end = "good" THEN "result" ELSE "isError")
\* get_prompt: a blank query and a failure are errors; bootstrap swallows its failures.
Prompt(c, end) ==
  Ends(c, 200, IF end = "good" \/ req[c].op = "bootstrap" THEN "result" ELSE "error")
Rpc(c, end) ==
  LET r == req[c] IN
  IF r.form # "object" THEN IF r.via = "stdio" THEN StdioFrame(c) ELSE HttpFrame(c)
  ELSE IF ~r.id THEN Ends(c, 202, "none")
  ELSE CASE r.op = "plain" -> Ends(c, 200, "result")
         [] r.op \in {"noname", "nomethod"} -> Ends(c, 200, "error")
         [] r.op \in {"prompt", "bootstrap"} -> Prompt(c, end)
         [] OTHER -> Tool(c, end)
Answer(c, end) == IF req[c].via = "rest" THEN Rest(c, end) ELSE Rpc(c, end)

\* What the engine embeds itself: the texts the request did not bring.  The record of a
\* retraction has another body only where the row that was `cut` covered one, or where another
\* process saved it meanwhile.
Under(c, cut) ==
  IF index /\ req[c].via # "stdio"
  THEN {<<t, "under">> : t \in {u \in Uses(req[c]) \ pre[c] : u = Remnant => cut}}
  ELSE {}

Stopped(c) == closing /\ req[c].via # "stdio"

\* Mutant: a panic keeps the lock.
ReleaseKeeps(c) == lock' = lock
Release(c) == lock' = IF lock = c THEN None ELSE lock

TooLate(c) ==
  /\ pc[c] = "locked" /\ Stopped(c) /\ Release(c) /\ Ends(c, 503, "text")
  /\ UNCHANGED <<req, index, closing, pre, ran, changed, healed>>
\* A batch pass that meets a storage error has changed edges before it.
Run(c, fault, cut) ==
  /\ pc[c] = "locked" /\ ~Stopped(c) /\ Release(c)
  /\ LET r == req[c]
         runs == r.via = "rest" \/ IsRun(r)
         end == IF ~runs \/ ~Succeeds(r) THEN "refused" ELSE IF fault THEN "fault" ELSE "good"
     IN /\ Answer(c, end)
        /\ changed' = IF r.op \in Changes /\ (end = "good" \/ (end = "fault" /\ r.op = "batch"))
                      THEN changed \cup {c} ELSE changed
        /\ ran' = [ran EXCEPT ![c] = @ \cup IF runs THEN Under(c, cut) ELSE {}]
  /\ UNCHANGED <<req, index, closing, pre, healed>>
\* The blocking task dies with the lock, before or after the commit and the model.
Panic(c, cut) ==
  /\ pc[c] = "locked" /\ req[c].via # "stdio" /\ ~Stopped(c) /\ Release(c)
  /\ IsRun(req[c]) /\ Succeeds(req[c])
  /\ changed' = IF req[c].op \in Changes THEN changed \cup {c} ELSE changed
  /\ ran' \in {ran, [ran EXCEPT ![c] = @ \cup Under(c, cut)]}
  /\ Ends(c, 500, "text")
  /\ UNCHANGED <<req, index, closing, pre, healed>>

-----------------------------------------------------------------------------
\* The background thread attaches an index, under the tenant lock.
Heal ==
  /\ ~index /\ lock = None /\ ~closing /\ index' = TRUE
  /\ healed' = {c \in Client : pc[c] = "wait"}
  /\ UNCHANGED <<req, pc, closing, lock, pre, reply, ran, changed>>
\* close_tenants.
Close ==
  /\ ~closing /\ closing' = TRUE
  /\ UNCHANGED <<req, pc, index, lock, pre, reply, ran, changed, healed>>

Step(c) ==
  \/ Auth(c) \/ Open(c) \/ PreEmbed(c) \/ Take(c) \/ TooLate(c)
  \/ \E cut \in BOOLEAN : Panic(c, cut) \/ \E fault \in BOOLEAN : Run(c, fault, cut)
Next ==
  \/ \E c \in Client : Arrive(c) \/ Step(c)
  \/ Heal \/ Close
\* A task that was spawned runs on; a lock that is free is taken.
Fairness == \A c \in Client : WF_vars(Step(c))
Spec == Init /\ [][Next]_vars /\ Fairness

-----------------------------------------------------------------------------
TypeOK ==
  /\ \A c \in Client : req[c] = None <=> pc[c] = "idle"
  /\ lock \in Client \cup {None}
  /\ \A c \in Client : lock = c => pc[c] = "locked"
  /\ healed \subseteq Client /\ changed \subseteq Client
  /\ closing \in BOOLEAN /\ index \in BOOLEAN

\* No save, recall or prompt runs the model under the tenant lock, unless it planned before the
\* index came (P0-5; the plan and the engine make their texts apart).  A retraction does: what
\* its record is left with is known under the lock only ("a re-embed after an invalidation").
LockIsShort ==
  \A c \in Client :
    (\E t \in ran[c] : t[2] = "under") /\ req[c].op \notin Retractions => c \in healed

\* The model runs for a token of this tenant only, and on a body only for one that may write.
ModelIsForMembers ==
  \A c \in Client : \A t \in ran[c] :
    /\ req[c].token \notin {"none", "admin"}
    /\ t[1][1] = "body" => MayWrite(req[c])

\* A refusal, a stop or a notification leaves the store as it was.  (A batch pass answers a
\* storage error like a refusal.)
RefusedChangesNothing ==
  \A c \in Client : pc[c] = "done" /\ reply[c][1] \in {400, 401, 403, 503, 202} =>
                      c \notin changed \/ req[c].op = "batch"

\* "An id-bearing request ALWAYS gets a reply", also when another's panic poisoned the lock or
\* a stop begins: it ends, and silence is for notifications (and stdio's arrays) only.
EveryRequestAnswered ==
  \A c \in Client :
    pc[c] # "idle" ~>
      /\ pc[c] = "done"
      /\ reply[c][2] = "none" => ~req[c].id \/ (req[c].via = "stdio" /\ req[c].form = "array")
=============================================================================
