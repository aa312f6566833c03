-------------------------------- MODULE Iam ----------------------------------
(***************************************************************************)
(* The tenants and tokens of `dmem serve` (src/src/iam.rs) and the         *)
(* requests that are resolved against them (src/src/server.rs).            *)
(*                                                                         *)
(* Every statement on iam.db is a transaction of its own: an admin handler *)
(* runs one to three of them on its own connection, a request reads the    *)
(* token, the tenant and the write-scope policy one after the other, and   *)
(* the others' statements come between.  Only the start-up's registration  *)
(* of DM_ADMIN_TOKEN is one transaction.  A restart ends whatever runs.    *)
(*                                                                         *)
(* Env member tokens (DM_TOKEN_TENANT) have no row here.                   *)
(***************************************************************************)
EXTENDS Integers, Sequences

CONSTANTS
  Tenants,
  Tokens,       \* the member tokens there will ever be
  EnvValues,    \* values of DM_ADMIN_TOKEN
  Boots,        \* the bootstrap admin tokens there will ever be
  Handlers,     \* concurrent admin requests
  Requests,     \* concurrent member requests
  None,
  MaxStarts,    \* bound: starts of the server
  MaxOps        \* bound: admin requests

Admins == EnvValues \cup Boots
ASSUME NamesAssumption ==
  /\ Tokens \cap Admins = {} /\ EnvValues \cap Boots = {}
  /\ Handlers \cap Requests = {}
  /\ None \notin Tenants \cup Tokens \cup Admins
ASSUME BoundsAssumption == MaxStarts \in Nat /\ MaxOps \in Nat

VARIABLES
  status,    \* of each tenant: "none" (no row), "active", "suspended"
  policy,    \* require_explicit_write_scope
  owner,     \* the tenant of each member token issued so far, else None
  bound,     \* the member tokens that are scope-bound
  known,     \* the admin tokens with a row
  revoked,
  starts, ops,
  op,        \* of each handler: the statements left, tenant and token
  req,       \* of each request: the read it is at, and what it brought
  decided,   \* history: the policy an admin set last
  removed,   \* history: tokens issued before a remove that finished
  owed,      \* history: tokens create_tenant returned, not retracted since
  env,       \* history: the last non-empty DM_ADMIN_TOKEN
  cut        \* history: admin tokens an admin revoked

iam == <<status, policy, owner, bound, known, revoked>>
history == <<decided, removed, owed, env, cut>>
vars == <<iam, starts, ops, op, req, history>>

NoOp == [todo |-> <<>>, tenant |-> None, token |-> None, clean |-> TRUE, old |-> {}]
NoReq == [at |-> "idle", token |-> None, named |-> FALSE, dead |-> FALSE, strict |-> FALSE]

Live(k) == k \notin revoked /\ (k \in known \/ (k \in Tokens /\ owner[k] # None))
LiveAdmins == {k \in Admins : Live(k)}
TokensOf(t) == {k \in Tokens : owner[k] = t}
Resolves(k) == Live(k) /\ status[owner[k]] = "active"

Init ==
  /\ status = [t \in Tenants |-> "none"] /\ policy = [t \in Tenants |-> FALSE]
  /\ owner = [k \in Tokens |-> None] /\ bound = {}
  /\ known = {} /\ revoked = {} /\ starts = 0 /\ ops = 0
  /\ op = [h \in Handlers |-> NoOp] /\ req = [r \in Requests |-> NoReq]
  /\ decided = [t \in Tenants |-> FALSE] /\ removed = {} /\ owed = {}
  /\ env = None /\ cut = {}

-----------------------------------------------------------------------------
(* Start-up: ensure_admin_from.                                            *)

Restart ==
  /\ starts < MaxStarts /\ starts' = starts + 1
  /\ op' = [h \in Handlers |-> NoOp] /\ req' = [r \in Requests |-> NoReq]
  /\ UNCHANGED <<status, policy, owner, bound, ops, decided, removed, owed, cut>>

\* Mutant: the values of earlier starts stay.
StaleNever(v) == {}

\* Env admin tokens of other values.
Stale(v) == (known \cap EnvValues) \ {v}

\* INSERT OR IGNORE: a row there already is left as it is.
StartEnv(v) ==
  /\ Restart
  /\ known' = known \cup {v} /\ revoked' = revoked \cup Stale(v)
  /\ env' = v

\* Set but empty, or not UTF-8.
StartEmpty == Restart /\ UNCHANGED <<known, revoked, env>>

StartUnset ==
  /\ Restart
  /\ \/ LiveAdmins # {} /\ UNCHANGED known
     \/ LiveAdmins = {} /\ \E b \in Boots \ known : known' = known \cup {b}
  /\ UNCHANGED <<revoked, env>>

-----------------------------------------------------------------------------
(* The admin routes.  with_admin resolves the admin token, then the        *)
(* handler's statements follow.                                            *)

Begin(h, statements, t, k) ==
  /\ op[h] = NoOp /\ LiveAdmins # {} /\ ops < MaxOps /\ ops' = ops + 1
  /\ op' = [op EXCEPT ![h] = [NoOp EXCEPT !.todo = statements, !.tenant = t, !.token = k]]
  /\ UNCHANGED <<iam, starts, req, history>>

BeginAny(h) ==
  \/ \E t \in Tenants :
       \/ Begin(h, <<"register", "activate", "issue">>, t, None)   \* create_tenant
       \/ Begin(h, <<"register", "issueBound">>, t, None)         \* mint_scoped_token
       \/ Begin(h, <<"suspend", "revokeAll">>, t, None)           \* remove_tenant
       \/ Begin(h, <<"revokeAll">>, t, None)                      \* revoke, a tenant
       \/ \E s \in {"policyOn", "policyOff"} : Begin(h, <<s>>, t, None)
  \/ \E k \in Tokens \cup Admins : Live(k) /\ Begin(h, <<"revokeOne">>, None, k)

At(h, statement) == op[h].todo # <<>> /\ Head(op[h].todo) = statement

\* The handler's next statement ran; `others` are the handlers it disturbs.
Advance(h, others) ==
  LET left == Tail(op[h].todo)
      moved == IF left = <<>> THEN NoOp ELSE [op[h] EXCEPT !.todo = left]
  IN op' = [g \in Handlers |->
              IF g = h THEN moved ELSE [op[g] EXCEPT !.clean = @ /\ g \notin others]]

\* Mutants: the tenant is not registered; INSERT OR REPLACE.
RegisterNone(t) == UNCHANGED <<status, policy>>
RegisterReplaces(t) ==
  /\ status' = [status EXCEPT ![t] = "active"]
  /\ policy' = [policy EXCEPT ![t] = FALSE]

\* INSERT OR IGNORE INTO tenants.
Register(t) ==
  /\ status' = [status EXCEPT ![t] = IF @ = "none" THEN "active" ELSE @]
  /\ UNCHANGED policy

DoRegister(h) ==
  /\ At(h, "register") /\ Register(op[h].tenant)
  /\ Advance(h, {})
  /\ UNCHANGED <<owner, bound, known, revoked, starts, ops, req, history>>

\* Mutant: a suspended tenant is not re-activated.
ActivateNew(t) == UNCHANGED status

Activate(t) == status' = [status EXCEPT ![t] = IF @ = "none" THEN @ ELSE "active"]

DoActivate(h) ==
  /\ At(h, "activate") /\ Activate(op[h].tenant)
  /\ Advance(h, {})
  /\ UNCHANGED <<policy, owner, bound, known, revoked, starts, ops, req, history>>

\* The token row; the plaintext goes back to the admin.
DoIssue(h) ==
  LET t == op[h].tenant
  IN /\ \/ At(h, "issue") \/ At(h, "issueBound")
     /\ \E k \in Tokens :
          /\ owner[k] = None
          /\ owner' = [owner EXCEPT ![k] = t]
          /\ bound' = IF At(h, "issueBound") THEN bound \cup {k} ELSE bound
          /\ owed' = IF At(h, "issue") /\ op[h].clean THEN owed \cup {k} ELSE owed
     /\ Advance(h, {})
     /\ UNCHANGED <<status, policy, known, revoked, starts, ops, req, decided, removed,
                    env, cut>>

OthersOn(t) == {g \in Handlers : op[g].tenant = t}

DoSuspend(h) ==
  LET t == op[h].tenant
  IN /\ At(h, "suspend")
     /\ status' = [status EXCEPT ![t] = IF @ = "none" THEN @ ELSE "suspended"]
     /\ owed' = owed \ TokensOf(t)
     /\ op' = [g \in Handlers |->
                 IF g = h
                 THEN [op[h] EXCEPT !.todo = Tail(@), !.old = TokensOf(t)]
                 ELSE [op[g] EXCEPT !.clean = @ /\ op[g].tenant # t]]
     /\ UNCHANGED <<policy, owner, bound, known, revoked, starts, ops, req, decided, removed,
                    env, cut>>

\* Mutant: the tokens of a suspended tenant, which do not resolve, are left.
OutOfIfActive(t) == IF status[t] = "active" THEN TokensOf(t) ELSE {}

OutOf(t) == TokensOf(t)

\* revoke of a tenant, and the second half of remove_tenant.
DoRevokeAll(h) ==
  LET t == op[h].tenant
  IN /\ At(h, "revokeAll")
     /\ revoked' = revoked \cup OutOf(t)
     /\ removed' = removed \cup op[h].old
     /\ owed' = owed \ TokensOf(t)
     /\ Advance(h, OthersOn(t))
     /\ UNCHANGED <<status, policy, owner, bound, known, starts, ops, req, decided, env, cut>>

\* A token that is out already goes on to the tokens of the tenant of that name; as tokens are
\* minted, none is a tenant's name.
DoRevokeOne(h) ==
  LET k == op[h].token
  IN /\ At(h, "revokeOne")
     /\ revoked' = revoked \cup {k}
     /\ owed' = owed \ {k} /\ cut' = cut \cup ({k} \cap Admins)
     /\ Advance(h, {})
     /\ UNCHANGED <<status, policy, owner, bound, known, starts, ops, req, decided,
                    removed, env>>

\* An unknown tenant is refused.
DoPolicy(h) ==
  LET t == op[h].tenant
  IN /\ At(h, "policyOn") \/ At(h, "policyOff")
     /\ IF status[t] = "none"
        THEN UNCHANGED <<policy, decided, req>>
        ELSE /\ policy' = [policy EXCEPT ![t] = At(h, "policyOn")]
             /\ decided' = policy'
             /\ req' = [r \in Requests |->
                          [req[r] EXCEPT !.strict = @ /\ (\/ At(h, "policyOn")
                                                          \/ req[r].token \notin TokensOf(t))]]
     /\ Advance(h, {})
     /\ UNCHANGED <<status, owner, bound, known, revoked, starts, ops, removed, owed, env, cut>>

-----------------------------------------------------------------------------
(* A member request: resolve, then the policy, then the write.             *)

Move(r, at) ==
  /\ req' = [req EXCEPT ![r] = IF at = "idle" THEN NoReq ELSE [@ EXCEPT !.at = at]]
  /\ UNCHANGED <<iam, starts, ops, op, history>>

Arrive(r, k, named) ==
  /\ req[r] = NoReq /\ owner[k] # None
  /\ req' = [req EXCEPT ![r] =
               [at |-> "token", token |-> k, named |-> named,
                dead |-> k \in revoked \cup removed,
                strict |-> decided[owner[k]]]]
  /\ UNCHANGED <<iam, starts, ops, op, history>>

ReadToken(r) ==
  /\ req[r].at = "token"
  /\ Move(r, IF Live(req[r].token) THEN "tenant" ELSE "idle")

ReadTenant(r) ==
  /\ req[r].at = "tenant"
  /\ Move(r, IF status[owner[req[r].token]] = "active" THEN "policy" ELSE "idle")

\* Only an unbound token that names no scope is asked about; refused, it may
\* still read.
MayWrite(r) ==
  req[r].token \in bound \/ req[r].named \/ ~policy[owner[req[r].token]]

ReadPolicy(r) ==
  /\ req[r].at = "policy"
  /\ Move(r, IF MayWrite(r) THEN "write" ELSE "idle")

Write(r) == req[r].at = "write" /\ Move(r, "idle")

Handle(h) ==
  \/ BeginAny(h) \/ DoRegister(h) \/ DoActivate(h) \/ DoIssue(h) \/ DoSuspend(h)
  \/ DoRevokeAll(h) \/ DoRevokeOne(h) \/ DoPolicy(h)

Request(r) ==
  \/ \E k \in Tokens, named \in BOOLEAN : Arrive(r, k, named)
  \/ ReadToken(r) \/ ReadTenant(r) \/ ReadPolicy(r) \/ Write(r)

Next ==
  \/ (\E v \in EnvValues : StartEnv(v)) \/ StartEmpty \/ StartUnset
  \/ \E h \in Handlers : Handle(h)
  \/ \E r \in Requests : Request(r)

Spec == Init /\ [][Next]_vars

-----------------------------------------------------------------------------
(* Properties.                                                             *)

\* Types; and a tenant without a row has no tokens and no policy.
TypeOK ==
  /\ status \in [Tenants -> {"none", "active", "suspended"}]
  /\ policy \in [Tenants -> BOOLEAN]
  /\ owner \in [Tokens -> Tenants \cup {None}] /\ bound \subseteq Tokens
  /\ known \subseteq Admins /\ revoked \subseteq Tokens \cup Admins
  /\ \A t \in Tenants : status[t] = "none" => TokensOf(t) = {} /\ ~policy[t]

\* A token revoked, or issued before a remove that finished, writes nothing
\* for a request that arrives later, also when the tenant is created again.
RevokedStaysOut == [][\A r \in Requests : Write(r) => ~req[r].dead]_vars

\* "The change applies from the next request": a request that arrives after
\* the policy was set, and until it is reset, does not write with an unbound
\* token in an unnamed scope, whatever was created and removed since.
PolicyFromNextRequest ==
  [][\A r \in Requests :
       Write(r) /\ req[r].strict => req[r].named \/ req[r].token \in bound]_vars

\* The token create_tenant returned resolves until it is revoked or its
\* tenant removed, also one created again after its removal.
CreatedTokensResolve == \A k \in owed : Resolves(k)

\* Of the env admin tokens only the current value may resolve, in whatever
\* order the values come and with starts in between that set none.
OneEnvAdmin == LiveAdmins \cap EnvValues \subseteq {env}

\* "A non-empty value is THE env admin token": after a start with it, it is
\* an admin token, unless an admin revoked it.
EnvValueIsAdmin == [][\A v \in EnvValues \ cut : StartEnv(v) => v \notin revoked']_vars
=============================================================================
