------------------------------- MODULE StartUp -------------------------------
(***************************************************************************)
(* What `dmem serve` checks before it listens, and in which order          *)
(* (src/src/server.rs run_blocking, src/src/tools.rs build_embedder).      *)
(* Several starts may meet over one data directory and one port: a service *)
(* manager's and one by hand, a restart after a kill.                      *)
(***************************************************************************)
EXTENDS Naturals, Sequences

CONSTANTS Server, None

\* 127.0.0.1:p, a name that only begins like it (or is localhost), 0.0.0.0:p, no address at all.
Addrs == {"loopback", "lookalike", "public", "junk"}
Options == [addr : Addrs, cert : BOOLEAN, key : BOOLEAN, generate : BOOLEAN, insecure : BOOLEAN]
\* What a start goes on with: "clear" with `part` had half of a pair.
Links == [addr : Addrs, wire : {"clear", "own", "generate"}, insecure : BOOLEAN, part : BOOLEAN]
NoLink == [addr |-> "junk", wire |-> "clear", insecure |-> FALSE, part |-> FALSE]

\* DM_TOKEN_<TENANT>[__<AGENT>]=<secret>, as the process finds them in its environment.
\* The same agent of a tenant in another spelling, other agents and tenants, other secrets.
EnvTokens ==
  {[tenant |-> e[1], agent |-> e[2], secret |-> e[3]] :
     e \in {<<"acme", "none", "k1">>, <<"ACME", "none", "k1">>, <<"acme", "bot", "k1">>,
            <<"beta", "none", "k1">>, <<"beta", "bot", "k2">>, <<"", "none", "k2">>,
            <<"acme", "none", "short">>, <<"acme", "none", "">>}}

VARIABLES
  pc,     \* [server -> "off", the step it is at, "serving" or "refused"]
  link,   \* [server -> what it will listen with]
  bound,  \* the server that has the port
  roots,  \* the bootstrap admin tokens of iam.db, each by the server that made it
  seen,   \* the tokens a person can know: printed, or in admin.token
  why,    \* ghost: [server -> what it was refused for]
  made,   \* ghost: the servers whose start has left something in the data directory
  shadow, \* ghost: the servers that accepted tokens of which one hides another
  cut     \* ghost: a start was killed between its token's row and its showing
vars == <<pc, link, bound, roots, seen, why, made, shadow, cut>>

Init ==
  /\ pc = [p \in Server |-> "off"] /\ link = [p \in Server |-> NoLink]
  /\ bound = None /\ roots = {} /\ seen = {}
  /\ why = [p \in Server |-> "nothing"] /\ made = {} /\ shadow = {} /\ cut = FALSE

Refused(p, cause) ==
  /\ pc' = [pc EXCEPT ![p] = "refused"] /\ why' = [why EXCEPT ![p] = cause]
  /\ link' = [link EXCEPT ![p] = NoLink]
Goes(p, to) == pc' = [pc EXCEPT ![p] = to] /\ UNCHANGED <<why, link>>

-----------------------------------------------------------------------------
(* The link: plain HTTP only where nobody listens in, unless told.         *)

\* is_loopback_addr looks at how the text begins.
LooksLocal(a) == a \in {"loopback", "lookalike"}
\* SocketAddr's parser takes numbers only.
Parses(a) == a \in {"loopback", "public"}

\* Mutant: a certificate without its key counts as no TLS.
HalfPairPasses(o) == TRUE
WholePair(o) == o.cert = o.key
\* tls_config: the operator's pair first.
Wire(o) == IF o.cert /\ o.key THEN "own" ELSE IF o.generate THEN "generate" ELSE "clear"
LinkOf(o) ==
  LET clear == Wire(o) = "clear" IN
  [addr |-> o.addr, wire |-> Wire(o), insecure |-> clear /\ o.insecure,
   part |-> clear /\ (o.cert \/ o.key)]

Begin(p) ==
  /\ pc[p] \in {"off", "refused"}
  /\ \E o \in Options :
       LET l == LinkOf(o) IN
       IF ~WholePair(o) THEN Refused(p, "pair")
       ELSE IF ~LooksLocal(o.addr) /\ l.wire = "clear" /\ ~o.insecure THEN Refused(p, "clear")
       ELSE /\ link' = [link EXCEPT ![p] = l]
            /\ pc' = [pc EXCEPT ![p] = "secrets"] /\ why' = [why EXCEPT ![p] = "nothing"]
  /\ made' = made \ {p} /\ shadow' = shadow \ {p}
  /\ UNCHANGED <<bound, roots, seen, cut>>

-----------------------------------------------------------------------------
(* The environment's tokens, in whatever order it lists them.              *)

\* canonical_tenant folds the case.
Canon(t) == IF t = "ACME" THEN "acme" ELSE t
Ident(e) == <<Canon(e.tenant), e.agent>>
Environments == {<<e>> : e \in EnvTokens} \cup (EnvTokens \X EnvTokens)
Skipped(e) == e.tenant = "" \/ e.secret = ""

\* Mutant: only the tenants are compared.
ClashByTenant(prev, new) == prev # <<>> /\ prev[1] # new[1]
Clash(prev, new) == prev # <<>> /\ prev # new

\* BearerAuth::from_env up to the i-th variable: the identity of each secret.
MapOf(q) ==
  LET map[i \in 0..Len(q)] ==
        IF i = 0 THEN [k \in {"k1", "k2", "short", ""} |-> <<>>]
        ELSE IF Skipped(q[i]) THEN map[i - 1]
        ELSE [map[i - 1] EXCEPT ![q[i].secret] = Ident(q[i])]
  IN  map
Accepts(q) ==
  \A i \in DOMAIN q :
    Skipped(q[i]) \/ (/\ q[i].secret # "short"
                     /\ ~Clash(MapOf(q)[i - 1][q[i].secret], Ident(q[i])))
Shadows(q) ==
  \E i \in DOMAIN q : ~Skipped(q[i]) /\ MapOf(q)[Len(q)][q[i].secret] # Ident(q[i])
\* Each environment as the start tells it apart.
Readings == {[accepted |-> Accepts(q), shadows |-> Shadows(q)] : q \in Environments}

\* What comes after each stage.  Mutant: IAM is opened before the model is looked at.
AfterIamFirst(stage) ==
  CASE stage = "secrets" -> "iam" [] stage = "iam" -> "model" [] stage = "model" -> "tls"
After(stage) ==
  CASE stage = "secrets" -> "model" [] stage = "model" -> "iam" [] stage = "iam" -> "tls"

\* metrics_token_from_env has a lower bound of its own.
Secrets(p) ==
  /\ pc[p] = "secrets"
  /\ \E e \in Readings :
       IF ~e.accepted THEN Refused(p, "tokens") /\ UNCHANGED shadow
       ELSE /\ Goes(p, After("secrets")) \/ Refused(p, "metrics")
            /\ shadow' = IF e.shadows THEN shadow \cup {p} ELSE shadow
  /\ UNCHANGED <<bound, roots, seen, made, cut>>

-----------------------------------------------------------------------------
(* The model and IAM.                                                      *)

\* build_embedder and probe_embedder: a model that does not load, or embeds as nothing, leaves
\* the placeholder in its place.
Loads == {"neural", "hash"}
\* check_model_requirement, DM_REQUIRE_MODEL.
Meets(name, required) == required => name # "hash"

Model(p) ==
  /\ pc[p] = "model"
  /\ \E name \in Loads, required \in BOOLEAN :
       IF Meets(name, required) THEN Goes(p, After("model")) ELSE Refused(p, "model")
  /\ UNCHANGED <<bound, roots, seen, made, shadow, cut>>

\* Without iam.db a start is refused, or it serves the environment's tokens alone.
OpenIam(p) ==
  /\ pc[p] = "iam"
  /\ \/ Goes(p, "look") /\ made' = made \cup {p}
     \/ (Refused(p, "iam") \/ Goes(p, After("iam"))) /\ UNCHANGED made
  /\ UNCHANGED <<bound, roots, seen, shadow, cut>>

\* ensure_admin_from: count, then mint; an error is a warning.
Look(p) ==
  /\ pc[p] = "look"
  /\ IF roots = {} THEN Goes(p, "mint") ELSE Goes(p, After("iam"))
  /\ UNCHANGED <<bound, roots, seen, made, shadow, cut>>
\* Mutant: the row is left out when another start has made one since the count.
MintedOnce(p) == IF roots = {} THEN {p} ELSE roots
Minted(p) == roots \cup {p}
Mint(p) ==
  /\ pc[p] = "mint"
  /\ roots' = Minted(p) /\ made' = made \cup {p}
  /\ Goes(p, "tell")
  /\ UNCHANGED <<bound, seen, shadow, cut>>

\* Mutant: only admin.token tells the token.
ToldByFile(p, written) == IF written THEN {p} ELSE {}
\* The token is printed whether or not admin.token could be written.
Told(p, written) == {p}
Tell(p) ==
  /\ pc[p] = "tell"
  /\ \E written \in BOOLEAN : seen' = seen \cup Told(p, written)
  /\ Goes(p, After("iam"))
  /\ UNCHANGED <<bound, roots, made, shadow, cut>>

-----------------------------------------------------------------------------
(* The port.  The start-up pass already runs in the background.            *)

\* tls_config: a pair that does not load is refused; a generated one is left in <data>/tls.
Tls(p) ==
  /\ pc[p] = "tls"
  /\ CASE ~Parses(link[p].addr) -> Refused(p, "addr") /\ UNCHANGED made
       [] Parses(link[p].addr) /\ link[p].wire = "own" ->
            (Goes(p, "bind") \/ Refused(p, "pem")) /\ UNCHANGED made
       [] Parses(link[p].addr) /\ link[p].wire = "generate" ->
            Goes(p, "bind") /\ made' = made \cup {p}
       [] OTHER -> Goes(p, "bind") /\ UNCHANGED made
  /\ UNCHANGED <<bound, roots, seen, shadow, cut>>

\* serve_tls binds as it serves, serve_plain gets a bound listener.
Bind(p) ==
  /\ pc[p] = "bind"
  /\ IF bound = None THEN bound' = p /\ Goes(p, "serving")
                     ELSE UNCHANGED bound /\ Refused(p, "port")
  /\ UNCHANGED <<roots, seen, made, shadow, cut>>

\* A stop, or a kill wherever it is.
Ends(p) ==
  /\ pc[p] \notin {"off", "refused"} /\ pc' = [pc EXCEPT ![p] = "off"]
  /\ bound' = IF bound = p THEN None ELSE bound
  /\ cut' = (cut \/ pc[p] = "tell")
  /\ link' = [link EXCEPT ![p] = NoLink]
  /\ made' = made \ {p} /\ shadow' = shadow \ {p}
  /\ UNCHANGED <<roots, seen, why>>

Next ==
  \E p \in Server :
    \/ Begin(p) \/ Secrets(p) \/ Model(p) \/ OpenIam(p) \/ Look(p)
    \/ Mint(p) \/ Tell(p) \/ Tls(p) \/ Bind(p) \/ Ends(p)
Spec == Init /\ [][Next]_vars

-----------------------------------------------------------------------------
\* Types of each start and of what it leaves (server.rs run_blocking).
TypeOK ==
  /\ pc \in [Server -> {"off", "refused", "secrets", "model", "iam", "look", "mint", "tell", "tls",
                        "bind", "serving"}]
  /\ link \in [Server -> Links] /\ bound \in Server \cup {None} /\ shadow \in SUBSET Server
  /\ roots \in SUBSET Server /\ seen \in SUBSET roots /\ cut \in BOOLEAN

\* A server that other machines can reach answers in the clear only when --allow-insecure-http
\* said so, and one that was given any part of a TLS setup never does: neither an address that
\* only begins like a local one nor half a pair slips through to serve_plain.
ClearOnlyWhereAllowed ==
  \A p \in Server :
    LET l == link[p] IN
    pc[p] = "serving" /\ l.wire = "clear" =>
      ~l.part /\ (l.addr = "loopback" \/ (l.addr = "public" /\ l.insecure))

\* Whatever order the environment lists its tokens in, a start that goes on gives every secret
\* the one identity that each of its variables names: none is shadowed by another.
SecretsAreTheirOwn == shadow = {}

\* A start refused for its link, its secrets or its model has left nothing behind: no iam.db,
\* no token, no certificate ("before IAM mints anything").
EarlyRefusalLeavesNothing ==
  \A p \in Server :
    pc[p] = "refused" /\ why[p] \in {"pair", "clear", "tokens", "metrics", "model"} =>
      p \notin made

\* Someone can know every bootstrap admin token of a served iam.db, with starts that race for
\* the first one and with an admin.token that cannot be written -- unless a kill fell between
\* the token's row and its showing: the next start finds an admin and mints none.
RootIsKnown ==
  ~cut => \A p \in roots : p \in seen \/ pc[p] = "tell"
=============================================================================
