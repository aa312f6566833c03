------------------------------ MODULE IamProofs ------------------------------
(***************************************************************************)
(* Proofs about Iam, for every set of tenants, tokens, values, handlers    *)
(* and requests and every bound.                                           *)
(*                                                                         *)
(* What an admin was told holds because of what the handlers have still to *)
(* run: a token is issued to a tenant that is registered and, if nothing   *)
(* came between, active; a removal revokes the tokens it saw; and a token  *)
(* that is revoked stays so, whoever has read it.  IamInv says this of     *)
(* every handler's statements left and of every request's reads so far.    *)
(*                                                                         *)
(* At the end, the starts that MCIam composes with it (StartUp), for any   *)
(* number of them.                                                         *)
(***************************************************************************)
EXTENDS MCIam, TLAPS

\* The statements a handler on a tenant may have left.
Programs ==
  {<<"register", "activate", "issue">>, <<"activate", "issue">>, <<"issue">>,
   <<"register", "issueBound">>, <<"issueBound">>,
   <<"suspend", "revokeAll">>, <<"revokeAll">>, <<"policyOn">>, <<"policyOff">>}

\* Those left when the tenant has been registered.
Registered == {<<"activate", "issue">>, <<"issue">>, <<"issueBound">>}

Ops == [todo : Programs \cup {<<>>, <<"revokeOne">>}, tenant : Tenants \cup {None},
        token : Tokens \cup Admins \cup {None}, clean : BOOLEAN, old : SUBSET Tokens]

Reqs == [at : {"idle", "token", "tenant", "policy", "write"}, token : Tokens \cup {None},
         named : BOOLEAN, dead : BOOLEAN, strict : BOOLEAN]

Issued == {k \in Tokens : owner[k] # None}

StatesOK ==
  /\ op \in [Handlers -> Ops] /\ req \in [Requests -> Reqs]
  /\ owed \subseteq Tokens

\* A handler works on a tenant, or on a token that exists; it issues to a
\* registered tenant, an active one if it was not disturbed; and a removal has
\* seen only tokens of its tenant.
HandlersOK ==
  \A h \in Handlers :
    /\ op[h].todo \in Programs => op[h].tenant \in Tenants
    /\ op[h].todo = <<"revokeOne">> => op[h].token \in Issued \cup Admins
    /\ op[h].todo \in Registered => status[op[h].tenant] # "none"
    /\ op[h].todo = <<"issue">> /\ op[h].clean => status[op[h].tenant] = "active"
    /\ op[h].old \subseteq {k \in Issued : owner[k] = op[h].tenant}

\* Tokens are revoked after they are issued, and a removal that finished has
\* revoked those it saw.
RevokedOK == revoked \cap Tokens \subseteq Issued /\ removed \subseteq revoked

\* A request with a dead token does not get past its first read; one that came
\* under the policy finds it set, and writes by naming its scope or by a bound
\* token.
RequestsOK ==
  \A r \in Requests :
    /\ req[r].at # "idle" => req[r].token \in Issued
    /\ req[r].dead => req[r].token \in revoked /\ req[r].at \in {"idle", "token"}
    /\ req[r].strict => req[r].token \in Issued /\ policy[owner[req[r].token]]
    /\ req[r].strict /\ req[r].at = "write" => req[r].named \/ req[r].token \in bound

IamInv ==
  /\ TypeOK /\ StatesOK /\ decided = policy
  /\ HandlersOK /\ RevokedOK /\ RequestsOK
  /\ CreatedTokensResolve /\ OneEnvAdmin
-----------------------------------------------------------------------------
(* The statements a handler has left, and what its next one leaves.        *)

\* The kinds of names are disjoint.
LEMMA Names ==
  /\ None \notin Tenants /\ None \notin Tokens /\ None \notin Admins
  /\ Tokens \cap Admins = {} /\ EnvValues \cap Boots = {} /\ EnvValues \subseteq Admins
BY NamesAssumption DEF Admins

\* The first statement of each program, and the others.
LEMMA HeadsAndTails ==
  /\ Head(<<"register", "activate", "issue">>) = "register"
  /\ Tail(<<"register", "activate", "issue">>) = <<"activate", "issue">>
  /\ Head(<<"activate", "issue">>) = "activate"
  /\ Tail(<<"activate", "issue">>) = <<"issue">>
  /\ Head(<<"issue">>) = "issue"
  /\ Tail(<<"issue">>) = <<>>
  /\ Head(<<"register", "issueBound">>) = "register"
  /\ Tail(<<"register", "issueBound">>) = <<"issueBound">>
  /\ Head(<<"issueBound">>) = "issueBound"
  /\ Tail(<<"issueBound">>) = <<>>
  /\ Head(<<"suspend", "revokeAll">>) = "suspend"
  /\ Tail(<<"suspend", "revokeAll">>) = <<"revokeAll">>
  /\ Head(<<"revokeAll">>) = "revokeAll"
  /\ Tail(<<"revokeAll">>) = <<>>
  /\ Head(<<"policyOn">>) = "policyOn"
  /\ Tail(<<"policyOn">>) = <<>>
  /\ Head(<<"policyOff">>) = "policyOff"
  /\ Tail(<<"policyOff">>) = <<>>
  /\ Head(<<"revokeOne">>) = "revokeOne"
  /\ Tail(<<"revokeOne">>) = <<>>
<1>1. Head(<<"register", "activate", "issue">>) = "register"
  OBVIOUS
<1>2. Tail(<<"register", "activate", "issue">>) = <<"activate", "issue">>
  OBVIOUS
<1>3. Head(<<"activate", "issue">>) = "activate"
  OBVIOUS
<1>4. Tail(<<"activate", "issue">>) = <<"issue">>
  OBVIOUS
<1>5. Head(<<"issue">>) = "issue"
  OBVIOUS
<1>6. Tail(<<"issue">>) = <<>>
  OBVIOUS
<1>7. Head(<<"register", "issueBound">>) = "register"
  OBVIOUS
<1>8. Tail(<<"register", "issueBound">>) = <<"issueBound">>
  OBVIOUS
<1>9. Head(<<"issueBound">>) = "issueBound"
  OBVIOUS
<1>10. Tail(<<"issueBound">>) = <<>>
  OBVIOUS
<1>11. Head(<<"suspend", "revokeAll">>) = "suspend"
  OBVIOUS
<1>12. Tail(<<"suspend", "revokeAll">>) = <<"revokeAll">>
  OBVIOUS
<1>13. Head(<<"revokeAll">>) = "revokeAll"
  OBVIOUS
<1>14. Tail(<<"revokeAll">>) = <<>>
  OBVIOUS
<1>15. Head(<<"policyOn">>) = "policyOn"
  OBVIOUS
<1>16. Tail(<<"policyOn">>) = <<>>
  OBVIOUS
<1>17. Head(<<"policyOff">>) = "policyOff"
  OBVIOUS
<1>18. Tail(<<"policyOff">>) = <<>>
  OBVIOUS
<1>19. Head(<<"revokeOne">>) = "revokeOne"
  OBVIOUS
<1>20. Tail(<<"revokeOne">>) = <<>>
  OBVIOUS
<1> QED
  BY <1>1, <1>2, <1>3, <1>4, <1>5, <1>6, <1>7, <1>8, <1>9, <1>10, <1>11, <1>12, <1>13,
     <1>14, <1>15, <1>16, <1>17, <1>18, <1>19, <1>20

\* Which programs a statement heads, and what is left of them after it.
LEMMA ProgramStep ==
  ASSUME NEW p \in Programs \cup {<<>>, <<"revokeOne">>}, p # <<>>
  PROVE  /\ Tail(p) \in Programs \cup {<<>>}
         /\ Head(p) = "revokeOne" <=> p = <<"revokeOne">>
         /\ Head(p) # "revokeOne" => p \in Programs
         /\ Head(p) = "register" => Tail(p) \in {<<"activate", "issue">>, <<"issueBound">>}
         /\ Head(p) = "activate" => p \in Registered /\ Tail(p) = <<"issue">>
         /\ Head(p) = "issue" => p = <<"issue">> /\ p \in Registered /\ Tail(p) = <<>>
         /\ Head(p) = "issueBound" => p \in Registered /\ Tail(p) = <<>>
         /\ Head(p) = "suspend" => Tail(p) = <<"revokeAll">>
         /\ Head(p) \in {"revokeAll", "revokeOne", "policyOn", "policyOff"}
              => Tail(p) = <<>>
BY HeadsAndTails DEF Programs, Registered

\* A handler at rest has no statements left.
LEMMA NoOpOK == NoOp \in Ops /\ NoOp.todo = <<>> /\ NoOp.old = {}
BY DEF NoOp, Ops

\* Nothing left, and the revocation of one token, are no work on a tenant.
LEMMA EmptyIsNoProgram ==
  <<>> \notin Programs /\ <<>> # <<"revokeOne">> /\ <<"revokeOne">> \notin Programs
    /\ <<>> \notin Registered /\ <<>> # <<"issue">> /\ <<"revokeOne">> # <<"issue">>
    /\ <<"revokeOne">> \notin Registered
BY DEF Programs, Registered

\* What Advance does to each handler.
LEMMA Advanced ==
  ASSUME StatesOK, NEW h \in Handlers, NEW s, At(h, s), NEW others, Advance(h, others)
  PROVE  /\ op' \in [Handlers -> Ops]
         /\ \A g \in Handlers \ {h} :
              /\ op'[g].todo = op[g].todo /\ op'[g].tenant = op[g].tenant
              /\ op'[g].token = op[g].token /\ op'[g].old = op[g].old
              /\ op'[g].clean => op[g].clean
         /\ op'[h] = IF Tail(op[h].todo) = <<>> THEN NoOp
                     ELSE [op[h] EXCEPT !.todo = Tail(op[h].todo)]
<1>1. op[h] \in Ops /\ op[h].todo # <<>> /\ op \in [Handlers -> Ops]
  BY DEF StatesOK, At
<1>2. op[h].todo \in Programs \cup {<<>>, <<"revokeOne">>}
  BY <1>1 DEF Ops
<1>3. Tail(op[h].todo) \in Programs \cup {<<>>}
  BY <1>1, <1>2, ProgramStep
<1>4. op'[h] = IF Tail(op[h].todo) = <<>> THEN NoOp
               ELSE [op[h] EXCEPT !.todo = Tail(op[h].todo)]
  BY DEF Advance
<1>5. op'[h] \in Ops
  BY <1>1, <1>3, <1>4, NoOpOK DEF Ops
<1>6. ASSUME NEW g \in Handlers \ {h}
      PROVE  /\ op'[g] = [op[g] EXCEPT !.clean = @ /\ g \notin others]
             /\ op[g] \in Ops
  BY <1>1, <1>6 DEF Advance
<1>7. ASSUME NEW g \in Handlers \ {h}
      PROVE  /\ op'[g] \in Ops
             /\ op'[g].todo = op[g].todo /\ op'[g].tenant = op[g].tenant
             /\ op'[g].token = op[g].token /\ op'[g].old = op[g].old
             /\ op'[g].clean => op[g].clean
  BY <1>6 DEF Ops
<1>8. op' \in [Handlers -> Ops]
  <2>1. \A g \in Handlers : op'[g] \in Ops
    BY <1>5, <1>7
  <2>2. op' = [g \in Handlers |-> op'[g]]
    BY DEF Advance
  <2> QED BY <2>1, <2>2
<1> QED BY <1>4, <1>7, <1>8

\* Issued tokens keep their tenant.
OwnersKept == \A k \in Issued : owner'[k] = owner[k]

\* A statement leaves the handlers in order when no tenant is lost or
\* suspended by it and what the handler goes on to is allowed.
LEMMA HandlersAdvance ==
  ASSUME StatesOK, HandlersOK, NEW h \in Handlers, NEW s, At(h, s),
         NEW others, Advance(h, others), OwnersKept,
         \A t \in Tenants : status[t] # "none" => status'[t] # "none",
         \A t \in Tenants : status[t] = "active" => status'[t] = "active",
         Tail(op[h].todo) \in Registered => status'[op[h].tenant] # "none",
         Tail(op[h].todo) = <<"issue">> => status'[op[h].tenant] = "active"
  PROVE  HandlersOK'
<1>1. op[h] \in Ops /\ op[h].todo # <<>>
  BY DEF StatesOK, At
<1>2. op[h].todo \in Programs \cup {<<>>, <<"revokeOne">>}
  BY <1>1 DEF Ops
<1>3. Issued \subseteq Issued'
  BY DEF Issued, OwnersKept
<1> SUFFICES ASSUME NEW g \in Handlers
             PROVE  /\ op'[g].todo \in Programs => op'[g].tenant \in Tenants
                    /\ op'[g].todo = <<"revokeOne">> => op'[g].token \in Issued' \cup Admins
                    /\ op'[g].todo \in Registered => status'[op'[g].tenant] # "none"
                    /\ op'[g].todo = <<"issue">> /\ op'[g].clean
                         => status'[op'[g].tenant] = "active"
                    /\ op'[g].old \subseteq {k \in Issued' : owner'[k] = op'[g].tenant}
  BY DEF HandlersOK
<1>4. Registered \subseteq Programs /\ <<"issue">> \in Programs
  BY DEF Registered, Programs
<1>5. CASE g # h
  <2>1. /\ op'[g].todo = op[g].todo /\ op'[g].tenant = op[g].tenant
        /\ op'[g].token = op[g].token /\ op'[g].old = op[g].old
        /\ op'[g].clean => op[g].clean
    BY <1>5, Advanced
  <2>2. op[g].old \subseteq {k \in Issued : owner[k] = op[g].tenant}
    BY DEF HandlersOK
  <2>3. op[g].old \subseteq {k \in Issued' : owner'[k] = op[g].tenant}
    BY <1>3, <2>2 DEF OwnersKept
  <2> QED BY <1>3, <1>4, <2>1, <2>3 DEF HandlersOK
<1>6. CASE g = h /\ Tail(op[h].todo) = <<>>
  <2>1. op'[g] = NoOp
    BY <1>6, Advanced
  <2> QED BY <2>1, NoOpOK, EmptyIsNoProgram
<1>7. CASE g = h /\ Tail(op[h].todo) # <<>>
  <2>1. op'[g] = [op[h] EXCEPT !.todo = Tail(op[h].todo)]
    BY <1>7, Advanced
  <2>2. /\ op'[g].todo = Tail(op[h].todo) /\ op'[g].tenant = op[h].tenant
        /\ op'[g].old = op[h].old
    BY <1>1, <2>1 DEF Ops
  <2>3. op[h].todo \in Programs /\ Tail(op[h].todo) \in Programs
    BY <1>1, <1>2, <1>7, ProgramStep DEF Programs
  <2>4. op[h].tenant \in Tenants
    BY <2>3 DEF HandlersOK
  <2>5. op[h].old \subseteq {k \in Issued : owner[k] = op[h].tenant}
    BY DEF HandlersOK
  <2>6. op'[g].old \subseteq {k \in Issued' : owner'[k] = op'[g].tenant}
    BY <1>3, <2>2, <2>5 DEF OwnersKept
  <2> QED BY <2>2, <2>3, <2>4, <2>6, EmptyIsNoProgram
<1> QED BY <1>5, <1>6, <1>7

\* Statements that take nothing from a request leave the requests in order.
LEMMA RequestsKept ==
  ASSUME RequestsOK, req' = req, OwnersKept, revoked \subseteq revoked',
         bound \subseteq bound', policy' = policy
  PROVE  RequestsOK'
<1>1. Issued \subseteq Issued' /\ \A k \in Issued : owner'[k] = owner[k]
  BY DEF Issued, OwnersKept
<1> QED BY <1>1 DEF RequestsOK
-----------------------------------------------------------------------------
(* Each statement preserves the invariant.                                 *)

\* What a handler at a statement is known to work on.
LEMMA Working ==
  ASSUME IamInv, NEW h \in Handlers, NEW s, At(h, s)
  PROVE  /\ StatesOK /\ HandlersOK /\ op[h] \in Ops /\ Head(op[h].todo) = s
         /\ op[h].todo # <<>> /\ op[h].todo \in Programs \cup {<<>>, <<"revokeOne">>}
         /\ s # "revokeOne" => op[h].todo \in Programs /\ op[h].tenant \in Tenants
BY ProgramStep DEF IamInv, StatesOK, HandlersOK, At, Ops

\* Of the statements only two issue or suspend: after the others the tokens
\* returned still resolve if none of them was revoked.
LEMMA OwedKept ==
  ASSUME IamInv, owed' \subseteq owed, OwnersKept, known \subseteq known',
         \A k \in owed' : k \notin revoked' \/ k \in revoked,
         \A k \in owed' : status[owner[k]] = "active" => status'[owner[k]] = "active"
  PROVE  CreatedTokensResolve'
<1> SUFFICES ASSUME NEW k \in owed' PROVE Resolves(k)'
  BY DEF CreatedTokensResolve
<1>1. k \in owed /\ k \in Tokens /\ Resolves(k)
  BY DEF IamInv, StatesOK, CreatedTokensResolve
<1>2. CASE k \in Issued
  BY <1>1, <1>2 DEF Resolves, Live, Issued, OwnersKept
<1>3. CASE k \notin Issued
  BY <1>1, <1>3, Names DEF Resolves, Live, Issued, IamInv, TypeOK
<1> QED BY <1>2, <1>3

\* Registering gives a tenant its row, and leaves one that has it as it is.
LEMMA RegisterStep ==
  ASSUME IamInv, NEW h \in Handlers, DoRegister(h) PROVE IamInv'
<1> DEFINE t == op[h].tenant
<1>1. /\ At(h, "register") /\ Advance(h, {})
      /\ status' = [status EXCEPT ![t] = IF @ = "none" THEN "active" ELSE @]
      /\ UNCHANGED <<policy, owner, bound, known, revoked, req, decided, removed, owed, env>>
  BY DEF DoRegister, Register, history
<1>2. t \in Tenants /\ StatesOK /\ HandlersOK
  BY <1>1, Working
<1>3. /\ \A u \in Tenants : status[u] # "none" => status'[u] # "none"
      /\ \A u \in Tenants : status[u] = "active" => status'[u] = "active"
      /\ status'[t] # "none" /\ OwnersKept
      /\ status' \in [Tenants -> {"none", "active", "suspended"}]
  BY <1>1, <1>2 DEF IamInv, TypeOK, OwnersKept
<1>4. Tail(op[h].todo) # <<"issue">>
  <2>1. Tail(op[h].todo) \in {<<"activate", "issue">>, <<"issueBound">>}
    BY <1>1, Working, ProgramStep
  <2>2. <<"issueBound">> # <<"issue">> /\ <<"activate", "issue">> # <<"issue">>
    OBVIOUS
  <2> QED BY <2>1, <2>2
<1>5. HandlersOK'
  BY <1>1, <1>2, <1>3, <1>4, HandlersAdvance
<1>6. StatesOK'
  BY <1>1, <1>2, Advanced DEF StatesOK
<1>7. TypeOK'
  BY <1>1, <1>3 DEF IamInv, TypeOK, TokensOf
<1>8. RequestsOK'
  BY <1>1, <1>3, RequestsKept DEF IamInv
<1>9. CreatedTokensResolve'
  <2>1. \A k \in owed : owner[k] \in Tenants /\ status[owner[k]] = "active"
                         => status'[owner[k]] = "active"
    BY <1>3
  <2>2. \A k \in owed : owner[k] \in Tenants
    BY Names DEF IamInv, StatesOK, CreatedTokensResolve, Resolves, Live, TypeOK
  <2> QED BY <1>1, <1>3, <2>1, <2>2, OwedKept
<1>10. RevokedOK' /\ OneEnvAdmin' /\ decided' = policy'
  BY <1>1 DEF IamInv, RevokedOK, Issued, OneEnvAdmin, LiveAdmins, Live
<1> QED BY <1>5, <1>6, <1>7, <1>8, <1>9, <1>10 DEF IamInv

\* The tenant has its row by now, so activating it makes it active.
LEMMA ActivateStep ==
  ASSUME IamInv, NEW h \in Handlers, DoActivate(h) PROVE IamInv'
<1> DEFINE t == op[h].tenant
<1>1. /\ At(h, "activate") /\ Advance(h, {})
      /\ status' = [status EXCEPT ![t] = IF @ = "none" THEN @ ELSE "active"]
      /\ UNCHANGED <<policy, owner, bound, known, revoked, req, decided, removed, owed, env>>
  BY DEF DoActivate, Activate, history
<1>2. t \in Tenants /\ StatesOK /\ HandlersOK
  BY <1>1, Working
<1>3. op[h].todo \in Registered
  BY <1>1, Working, ProgramStep
<1>4. status[t] # "none"
  BY <1>2, <1>3 DEF HandlersOK
<1>5. /\ \A u \in Tenants : status[u] # "none" => status'[u] # "none"
      /\ \A u \in Tenants : status[u] = "active" => status'[u] = "active"
      /\ status'[t] = "active" /\ OwnersKept
      /\ status' \in [Tenants -> {"none", "active", "suspended"}]
      /\ \A u \in Tenants : status'[u] = "none" => status[u] = "none"
  BY <1>1, <1>2, <1>4 DEF IamInv, TypeOK, OwnersKept
<1>6. HandlersOK'
  BY <1>1, <1>2, <1>5, HandlersAdvance
<1>7. StatesOK'
  BY <1>1, <1>2, Advanced DEF StatesOK
<1>8. TypeOK'
  BY <1>1, <1>5 DEF IamInv, TypeOK, TokensOf
<1>9. RequestsOK'
  BY <1>1, <1>5, RequestsKept DEF IamInv
<1>10. CreatedTokensResolve'
  <2>1. \A k \in owed : owner[k] \in Tenants
    BY Names DEF IamInv, StatesOK, CreatedTokensResolve, Resolves, Live, TypeOK
  <2> QED BY <1>1, <1>5, <2>1, OwedKept
<1>11. RevokedOK' /\ OneEnvAdmin' /\ decided' = policy'
  BY <1>1 DEF IamInv, RevokedOK, Issued, OneEnvAdmin, LiveAdmins, Live
<1> QED BY <1>6, <1>7, <1>8, <1>9, <1>10, <1>11 DEF IamInv

\* The new token was nobody's, so it is not revoked; and it goes to a tenant
\* that has a row.
LEMMA IssueStep ==
  ASSUME IamInv, NEW h \in Handlers, DoIssue(h) PROVE IamInv'
<1> DEFINE t == op[h].tenant
<1>1. PICK k \in Tokens :
        /\ owner[k] = None
        /\ owner' = [owner EXCEPT ![k] = t]
        /\ bound' = IF At(h, "issueBound") THEN bound \cup {k} ELSE bound
        /\ owed' = IF At(h, "issue") /\ op[h].clean THEN owed \cup {k} ELSE owed
  BY DEF DoIssue
<1>2. /\ At(h, "issue") \/ At(h, "issueBound")
      /\ Advance(h, {})
      /\ UNCHANGED <<status, policy, known, revoked, req, decided, removed, env>>
  BY DEF DoIssue
<1>3. /\ StatesOK /\ HandlersOK /\ op[h] \in Ops /\ t \in Tenants
      /\ op[h].todo \in Registered /\ Tail(op[h].todo) = <<>>
      /\ At(h, "issue") => op[h].todo = <<"issue">>
  BY <1>2, Working, ProgramStep
<1>4. status[t] # "none" /\ (At(h, "issue") /\ op[h].clean => status[t] = "active")
  BY <1>2, <1>3 DEF HandlersOK
<1>5. /\ OwnersKept /\ owner' \in [Tokens -> Tenants \cup {None}]
      /\ owner'[k] = t /\ \A j \in Tokens \ {k} : owner'[j] = owner[j]
  BY <1>1, <1>3 DEF IamInv, TypeOK, OwnersKept, Issued
<1>6. Issued' = Issued \cup {k} /\ k \notin Issued
  BY <1>1, <1>3, <1>5, Names DEF Issued
<1>7. k \notin revoked
  BY <1>6 DEF IamInv, RevokedOK
<1>8. HandlersOK'
  <2>1. Tail(op[h].todo) \notin Registered /\ Tail(op[h].todo) # <<"issue">>
    BY <1>3, EmptyIsNoProgram
  <2> QED BY <1>2, <1>3, <1>5, <2>1, HandlersAdvance
<1>9. StatesOK'
  <2>1. owed' \subseteq Tokens
    BY <1>1 DEF IamInv, StatesOK
  <2> QED BY <1>2, <1>3, <2>1, Advanced DEF StatesOK
<1>10. TypeOK'
  <2>1. bound' \subseteq Tokens
    BY <1>1 DEF IamInv, TypeOK
  <2>2. \A u \in Tenants : status[u] = "none" => TokensOf(u)' = {} /\ ~policy[u]
    BY <1>4, <1>5 DEF IamInv, TypeOK, TokensOf
  <2> QED BY <1>2, <1>5, <2>1, <2>2 DEF IamInv, TypeOK
<1>11. RequestsOK'
  <2>1. bound \subseteq bound'
    BY <1>1
  <2> QED BY <1>2, <1>5, <2>1, RequestsKept DEF IamInv
<1>12. CreatedTokensResolve'
  <2>1. ASSUME NEW j \in owed', j = k PROVE Resolves(j)'
    <3>1. k \notin owed
      BY <1>6, <1>1, Names DEF IamInv, StatesOK, CreatedTokensResolve, Resolves, Live, TypeOK
    <3>2. status[t] = "active"
      BY <1>1, <1>4, <2>1, <3>1
    <3> QED BY <1>2, <1>3, <1>5, <1>7, <2>1, <3>2, Names DEF Resolves, Live
  <2>2. ASSUME NEW j \in owed', j # k PROVE Resolves(j)'
    <3>1. j \in owed /\ j \in Tokens /\ Resolves(j)
      BY <1>1, <2>2 DEF IamInv, StatesOK, CreatedTokensResolve
    <3> QED BY <1>2, <1>5, <2>2, <3>1 DEF Resolves, Live
  <2> QED BY <2>1, <2>2 DEF CreatedTokensResolve
<1>13. RevokedOK'
  BY <1>2, <1>6 DEF IamInv, RevokedOK
<1>14. OneEnvAdmin'
  <2>1. \A a \in Admins : a \notin Tokens
    BY Names
  <2> QED BY <1>2, <2>1 DEF IamInv, OneEnvAdmin, LiveAdmins, Live
<1> QED BY <1>2, <1>8, <1>9, <1>10, <1>11, <1>12, <1>13, <1>14 DEF IamInv

\* Suspending retracts what the others were told: their tokens need no longer
\* resolve, and what they issue next is not owed.
LEMMA SuspendStep ==
  ASSUME IamInv, NEW h \in Handlers, DoSuspend(h) PROVE IamInv'
<1> DEFINE t == op[h].tenant
<1>1. /\ At(h, "suspend")
      /\ status' = [status EXCEPT ![t] = IF @ = "none" THEN @ ELSE "suspended"]
      /\ owed' = owed \ TokensOf(t)
      /\ op' = [g \in Handlers |->
                 IF g = h
                 THEN [op[h] EXCEPT !.todo = Tail(@), !.old = TokensOf(t)]
                 ELSE [op[g] EXCEPT !.clean = @ /\ op[g].tenant # t]]
      /\ UNCHANGED <<policy, owner, bound, known, revoked, req, decided, removed, env>>
  BY DEF DoSuspend
<1>2. /\ t \in Tenants /\ StatesOK /\ HandlersOK /\ op[h] \in Ops
      /\ Tail(op[h].todo) = <<"revokeAll">>
  BY <1>1, Working, ProgramStep
<1>3. /\ \A u \in Tenants : status'[u] = "none" <=> status[u] = "none"
      /\ \A u \in Tenants \ {t} : status'[u] = status[u]
      /\ status' \in [Tenants -> {"none", "active", "suspended"}]
  BY <1>1, <1>2 DEF IamInv, TypeOK
<1>4. TokensOf(t) \subseteq Tokens /\ \A k \in TokensOf(t) : k \in Issued /\ owner[k] = t
  BY <1>2, Names DEF TokensOf, Issued
<1>5. /\ op'[h] = [op[h] EXCEPT !.todo = <<"revokeAll">>, !.old = TokensOf(t)]
      /\ \A g \in Handlers \ {h} :
           op'[g] = [op[g] EXCEPT !.clean = @ /\ op[g].tenant # t]
  BY <1>1, <1>2
<1>6. <<"revokeAll">> \in Programs /\ <<"revokeAll">> \notin Registered
        /\ <<"revokeAll">> # <<"issue">> /\ <<"revokeAll">> # <<"revokeOne">>
        /\ Registered \subseteq Programs /\ <<"issue">> \in Programs
  BY DEF Programs, Registered
<1>7. /\ op'[h] \in Ops /\ op'[h].todo = <<"revokeAll">> /\ op'[h].tenant = t
      /\ op'[h].old = TokensOf(t)
  BY <1>2, <1>4, <1>5, <1>6 DEF Ops
<1>8. ASSUME NEW g \in Handlers \ {h}
      PROVE  /\ op'[g] \in Ops
             /\ op'[g].todo = op[g].todo /\ op'[g].tenant = op[g].tenant
             /\ op'[g].token = op[g].token /\ op'[g].old = op[g].old
             /\ op'[g].clean => op[g].clean /\ op[g].tenant # t
  <2>1. op[g] \in Ops
    BY <1>2 DEF StatesOK
  <2> QED BY <1>5, <2>1 DEF Ops
<1>9. StatesOK'
  <2>1. op' = [g \in Handlers |-> op'[g]]
    BY <1>1
  <2>2. \A g \in Handlers : op'[g] \in Ops
    BY <1>7, <1>8
  <2> QED BY <1>1, <2>1, <2>2 DEF IamInv, StatesOK
<1>10. HandlersOK'
  <2> SUFFICES ASSUME NEW g \in Handlers
      PROVE  /\ op'[g].todo \in Programs => op'[g].tenant \in Tenants
             /\ op'[g].todo = <<"revokeOne">> => op'[g].token \in Issued' \cup Admins
             /\ op'[g].todo \in Registered => status'[op'[g].tenant] # "none"
             /\ op'[g].todo = <<"issue">> /\ op'[g].clean
                  => status'[op'[g].tenant] = "active"
             /\ op'[g].old \subseteq {k \in Issued' : owner'[k] = op'[g].tenant}
    BY DEF HandlersOK
  <2>1. Issued' = Issued /\ owner' = owner
    BY <1>1 DEF Issued
  <2>2. CASE g = h
    BY <1>2, <1>4, <1>6, <1>7, <2>1, <2>2
  <2>3. CASE g # h
    BY <1>2, <1>3, <1>6, <1>8, <2>1, <2>3 DEF HandlersOK
  <2> QED BY <2>2, <2>3
<1>11. TypeOK'
  <2>1. \A u \in Tenants : status'[u] = "none" => TokensOf(u)' = {} /\ ~policy'[u]
    <3>1. \A u \in Tenants : TokensOf(u)' = TokensOf(u) /\ policy'[u] = policy[u]
      BY <1>1 DEF TokensOf
    <3>2. \A u \in Tenants : status[u] = "none" => TokensOf(u) = {} /\ ~policy[u]
      BY DEF IamInv, TypeOK
    <3> QED BY <1>3, <3>1, <3>2
  <2> QED BY <1>1, <1>3, <2>1 DEF IamInv, TypeOK
<1>12. OwnersKept
  BY <1>1 DEF OwnersKept
<1>13. RequestsOK'
  BY <1>1, <1>12, RequestsKept DEF IamInv
<1>14. CreatedTokensResolve'
  <2>1. ASSUME NEW k \in owed' PROVE status'[owner[k]] = status[owner[k]]
    <3>1. k \in owed /\ k \in Tokens /\ k \notin TokensOf(t) /\ owner[k] \in Tenants
      BY <1>1, <2>1, Names DEF IamInv, StatesOK, CreatedTokensResolve, Resolves, Live, TypeOK
    <3> QED BY <1>3, <3>1 DEF TokensOf
  <2> QED BY <1>1, <1>12, <2>1, OwedKept
<1>15. RevokedOK' /\ OneEnvAdmin' /\ decided' = policy'
  BY <1>1 DEF IamInv, RevokedOK, Issued, OneEnvAdmin, LiveAdmins, Live
<1> QED BY <1>9, <1>10, <1>11, <1>13, <1>14, <1>15 DEF IamInv
\* The removal revokes every token of the tenant, those it saw when it
\* suspended it among them.
LEMMA RevokeAllStep ==
  ASSUME IamInv, NEW h \in Handlers, DoRevokeAll(h) PROVE IamInv'
<1> DEFINE t == op[h].tenant
<1>1. /\ At(h, "revokeAll") /\ Advance(h, OthersOn(t))
      /\ revoked' = revoked \cup TokensOf(t)
      /\ removed' = removed \cup op[h].old
      /\ owed' = owed \ TokensOf(t)
      /\ UNCHANGED <<status, policy, owner, bound, known, req, decided, env>>
  BY DEF DoRevokeAll, OutOf
<1>2. /\ t \in Tenants /\ StatesOK /\ HandlersOK /\ op[h] \in Ops
      /\ Tail(op[h].todo) = <<>>
  BY <1>1, Working, ProgramStep
<1>3. TokensOf(t) = {k \in Issued : owner[k] = t} /\ TokensOf(t) \subseteq Tokens
  BY <1>2, Names DEF TokensOf, Issued
<1>4. OwnersKept
  BY <1>1 DEF OwnersKept
<1>5. HandlersOK'
  BY <1>1, <1>2, <1>4, EmptyIsNoProgram, HandlersAdvance
<1>6. StatesOK'
  BY <1>1, <1>2, Advanced DEF StatesOK
<1>7. TypeOK'
  BY <1>1, <1>3 DEF IamInv, TypeOK, TokensOf
<1>8. RequestsOK'
  BY <1>1, <1>4, RequestsKept DEF IamInv
<1>9. CreatedTokensResolve'
  <2>1. \A k \in owed' : k \in revoked' => k \in revoked
    BY <1>1
  <2> QED BY <1>1, <1>4, <2>1, OwedKept
<1>10. RevokedOK'
  <2>1. op[h].old \subseteq TokensOf(t)
    BY <1>2, <1>3 DEF HandlersOK
  <2>2. Issued' = Issued
    BY <1>1 DEF Issued
  <2> QED BY <1>1, <1>3, <2>1, <2>2 DEF IamInv, RevokedOK
<1>11. OneEnvAdmin' /\ decided' = policy'
  BY <1>1 DEF IamInv, OneEnvAdmin, LiveAdmins, Live
<1> QED BY <1>5, <1>6, <1>7, <1>8, <1>9, <1>10, <1>11 DEF IamInv

\* A token that is revoked alone exists, and is no longer owed.
LEMMA RevokeOneStep ==
  ASSUME IamInv, NEW h \in Handlers, DoRevokeOne(h) PROVE IamInv'
<1> DEFINE k == op[h].token
<1>1. /\ At(h, "revokeOne") /\ Advance(h, {})
      /\ revoked' = revoked \cup {k}
      /\ owed' = owed \ {k}
      /\ UNCHANGED <<status, policy, owner, bound, known, req, decided, removed, env>>
  BY DEF DoRevokeOne
<1>2. /\ StatesOK /\ HandlersOK /\ op[h] \in Ops
      /\ op[h].todo = <<"revokeOne">> /\ Tail(op[h].todo) = <<>>
  BY <1>1, Working, ProgramStep
<1>3. k \in Issued \cup Admins
  BY <1>2 DEF HandlersOK
<1>4. OwnersKept
  BY <1>1 DEF OwnersKept
<1>5. HandlersOK'
  BY <1>1, <1>2, <1>4, EmptyIsNoProgram, HandlersAdvance
<1>6. StatesOK'
  BY <1>1, <1>2, Advanced DEF StatesOK
<1>7. TypeOK'
  BY <1>1, <1>3 DEF IamInv, TypeOK, TokensOf, Issued
<1>8. RequestsOK'
  BY <1>1, <1>4, RequestsKept DEF IamInv
<1>9. CreatedTokensResolve'
  <2>1. \A j \in owed' : j \in revoked' => j \in revoked
    BY <1>1
  <2> QED BY <1>1, <1>4, <2>1, OwedKept
<1>10. RevokedOK'
  BY <1>1, <1>3, Names DEF IamInv, RevokedOK, Issued
<1>11. OneEnvAdmin' /\ decided' = policy'
  BY <1>1 DEF IamInv, OneEnvAdmin, LiveAdmins, Live
<1> QED BY <1>5, <1>6, <1>7, <1>8, <1>9, <1>10, <1>11 DEF IamInv

\* The requests that came under a policy of this tenant are let off when it is
\* reset; those of other tenants are not concerned.
LEMMA PolicyStep ==
  ASSUME IamInv, NEW h \in Handlers, DoPolicy(h) PROVE IamInv'
<1> DEFINE t == op[h].tenant
<1>1. /\ At(h, "policyOn") \/ At(h, "policyOff")
      /\ Advance(h, {})
      /\ UNCHANGED <<status, owner, bound, known, revoked, removed, owed, env>>
  BY DEF DoPolicy
<1>2. /\ t \in Tenants /\ StatesOK /\ HandlersOK /\ op[h] \in Ops
      /\ Tail(op[h].todo) = <<>>
  BY <1>1, Working, ProgramStep
<1>3. OwnersKept
  BY <1>1 DEF OwnersKept
<1>4. HandlersOK'
  BY <1>1, <1>2, <1>3, EmptyIsNoProgram, HandlersAdvance
<1>5. op' \in [Handlers -> Ops] /\ owed' \subseteq Tokens
  BY <1>1, <1>2, Advanced DEF StatesOK
<1>6. CreatedTokensResolve'
  BY <1>1, <1>3, OwedKept
<1>7. RevokedOK' /\ OneEnvAdmin'
  BY <1>1 DEF IamInv, RevokedOK, Issued, OneEnvAdmin, LiveAdmins, Live
<1>8. CASE status[t] = "none"
  <2>1. UNCHANGED <<policy, decided, req>>
    BY <1>8 DEF DoPolicy
  <2>2. RequestsOK'
    BY <1>1, <1>3, <2>1, RequestsKept DEF IamInv
  <2>3. TypeOK' /\ StatesOK' /\ decided' = policy'
    BY <1>1, <1>2, <1>5, <2>1 DEF IamInv, TypeOK, TokensOf, StatesOK
  <2> QED BY <1>4, <1>6, <1>7, <2>2, <2>3 DEF IamInv
<1>9. CASE status[t] # "none"
  <2>1. /\ policy' = [policy EXCEPT ![t] = At(h, "policyOn")]
        /\ decided' = policy'
        /\ req' = [r \in Requests |->
                     [req[r] EXCEPT !.strict = @ /\ (\/ At(h, "policyOn")
                                                     \/ req[r].token \notin TokensOf(t))]]
    BY <1>9 DEF DoPolicy
  <2>2. At(h, "policyOn") \in BOOLEAN
    BY DEF At
  <2>3. /\ policy' \in [Tenants -> BOOLEAN]
        /\ policy'[t] <=> At(h, "policyOn")
        /\ \A u \in Tenants \ {t} : policy'[u] = policy[u]
    BY <1>2, <2>1, <2>2 DEF IamInv, TypeOK
  <2>4. \A r \in Requests :
          /\ req'[r] \in Reqs
          /\ req'[r].at = req[r].at /\ req'[r].token = req[r].token
          /\ req'[r].named = req[r].named /\ req'[r].dead = req[r].dead
          /\ req'[r].strict => /\ req[r].strict
                               /\ At(h, "policyOn") \/ req[r].token \notin TokensOf(t)
    BY <1>2, <2>1, <2>2 DEF StatesOK, Reqs
  <2>5. StatesOK'
    BY <1>5, <2>1, <2>4 DEF StatesOK
  <2>6. TypeOK'
    BY <1>1, <1>9, <2>3 DEF IamInv, TypeOK, TokensOf
  <2>7. RequestsOK'
    <3>1. Issued' = Issued
      BY <1>1 DEF Issued
    <3>2. ASSUME NEW r \in Requests, req'[r].strict
          PROVE  req[r].token \in Issued /\ policy'[owner[req[r].token]]
      <4>1. req[r].token \in Issued /\ policy[owner[req[r].token]]
        BY <2>4, <3>2 DEF IamInv, RequestsOK
      <4>2. owner[req[r].token] \in Tenants
        BY <4>1 DEF Issued, IamInv, TypeOK
      <4>3. CASE owner[req[r].token] = t
        BY <2>3, <2>4, <3>2, <4>1, <4>3 DEF TokensOf, Issued
      <4>4. CASE owner[req[r].token] # t
        BY <2>3, <4>1, <4>2, <4>4
      <4> QED BY <4>1, <4>3, <4>4
    <3> QED BY <1>1, <2>4, <3>1, <3>2 DEF IamInv, RequestsOK
  <2> QED BY <1>4, <1>6, <1>7, <2>1, <2>5, <2>6, <2>7 DEF IamInv
<1> QED BY <1>8, <1>9
\* A handler that begins has all its statements left.
LEMMA BeginStep ==
  ASSUME IamInv, NEW h \in Handlers, BeginAny(h) PROVE IamInv'
<1>1. PICK statements, t, k :
        /\ Begin(h, statements, t, k)
        /\ \/ statements \in Programs \ Registered /\ t \in Tenants /\ k = None
           \/ statements = <<"revokeOne">> /\ t = None /\ k \in Issued \cup Admins
  <2>1. /\ <<"register", "activate", "issue">> \in Programs \ Registered
        /\ <<"register", "issueBound">> \in Programs \ Registered
        /\ <<"suspend", "revokeAll">> \in Programs \ Registered
        /\ <<"revokeAll">> \in Programs \ Registered
        /\ <<"policyOn">> \in Programs \ Registered
        /\ <<"policyOff">> \in Programs \ Registered
    BY HeadsAndTails DEF Programs, Registered
  <2>2. CASE \E t \in Tenants :
               \/ Begin(h, <<"register", "activate", "issue">>, t, None)
               \/ Begin(h, <<"register", "issueBound">>, t, None)
               \/ Begin(h, <<"suspend", "revokeAll">>, t, None)
               \/ Begin(h, <<"revokeAll">>, t, None)
               \/ \E s \in {"policyOn", "policyOff"} : Begin(h, <<s>>, t, None)
    BY <2>1, <2>2, Zenon
  <2>3. CASE \E k \in Tokens \cup Admins : Live(k) /\ Begin(h, <<"revokeOne">>, None, k)
    <3>1. PICK k \in Tokens \cup Admins : Live(k) /\ Begin(h, <<"revokeOne">>, None, k)
      BY <2>3
    <3>2. k \in Issued \cup Admins
      BY <3>1 DEF Live, Issued, IamInv, TypeOK
    <3> QED BY <3>1, <3>2
  <2> QED BY <2>2, <2>3 DEF BeginAny
<1>2. /\ op' = [op EXCEPT ![h] =
              [NoOp EXCEPT !.todo = statements, !.tenant = t, !.token = k]]
      /\ UNCHANGED <<status, policy, owner, bound, known, revoked, req,
                     decided, removed, owed, env>>
  BY <1>1 DEF Begin, iam, history
<1>3. op \in [Handlers -> Ops] /\ Issued \subseteq Tokens
  BY DEF IamInv, StatesOK, Issued
<1> DEFINE new == [NoOp EXCEPT !.todo = statements, !.tenant = t, !.token = k]
<1>4. /\ new.todo = statements /\ new.tenant = t /\ new.token = k /\ new.old = {}
      /\ new \in Ops
  BY <1>1, <1>3 DEF NoOp, Ops
<1>5. op'[h] = new /\ \A g \in Handlers \ {h} : op'[g] = op[g]
  BY <1>2, <1>3
<1>6. StatesOK'
  BY <1>2, <1>3, <1>4 DEF IamInv, StatesOK
<1>7. HandlersOK'
  <2>1. Issued' = Issued
    BY <1>2 DEF Issued
  <2>2. <<"issue">> \in Registered
    BY DEF Registered
  <2>3. /\ new.todo \in Programs => t \in Tenants
        /\ new.todo = <<"revokeOne">> => k \in Issued \cup Admins
        /\ new.todo \notin Registered /\ new.todo # <<"issue">>
    BY <1>1, <1>4, <2>2, EmptyIsNoProgram
  <2> QED BY <1>2, <1>4, <1>5, <2>1, <2>3 DEF IamInv, HandlersOK
<1>8. OwnersKept
  BY <1>2 DEF OwnersKept
<1>9. RequestsOK'
  BY <1>2, <1>8, RequestsKept DEF IamInv
<1>10. CreatedTokensResolve'
  BY <1>2, <1>8, OwedKept
<1>11. TypeOK' /\ RevokedOK' /\ OneEnvAdmin' /\ decided' = policy'
  BY <1>2 DEF IamInv, TypeOK, TokensOf, RevokedOK, Issued, OneEnvAdmin, LiveAdmins, Live
<1> QED BY <1>6, <1>7, <1>9, <1>10, <1>11 DEF IamInv

\* A restart leaves the tokens and ends everything that ran; an env admin
\* token that is not revoked is the one of the last start that set any.
LEMMA RestartStep ==
  ASSUME IamInv, (\E v \in EnvValues : StartEnv(v)) \/ StartEmpty \/ StartUnset
  PROVE  IamInv'
<1>1. /\ op' = [h \in Handlers |-> NoOp] /\ req' = [r \in Requests |-> NoReq]
      /\ UNCHANGED <<status, policy, owner, bound, decided, removed, owed>>
  BY DEF StartEnv, StartEmpty, StartUnset, Restart
<1>2. /\ known \subseteq known' /\ known' \subseteq Admins
      /\ revoked \subseteq revoked' /\ revoked' \ revoked \subseteq EnvValues
      /\ OneEnvAdmin'
  <2>1. /\ known \subseteq Admins /\ OneEnvAdmin /\ EnvValues \cap Boots = {}
        /\ EnvValues \subseteq Admins /\ Boots \subseteq Admins /\ Tokens \cap Admins = {}
    BY Names DEF IamInv, TypeOK, Admins
  <2>2. ASSUME NEW v \in EnvValues, StartEnv(v)
        PROVE  /\ known \subseteq known' /\ known' \subseteq Admins
               /\ revoked \subseteq revoked' /\ revoked' \ revoked \subseteq EnvValues
               /\ OneEnvAdmin'
    <3>1. /\ known' = known \cup {v} /\ env' = v
          /\ revoked' = revoked \cup ((known \cap EnvValues) \ {v})
      BY <2>2 DEF StartEnv, Stale
    <3>2. OneEnvAdmin'
      BY <2>1, <3>1 DEF OneEnvAdmin, LiveAdmins, Live
    <3> QED BY <2>1, <3>1, <3>2
  <2>3. CASE StartEmpty
    BY <1>1, <2>1, <2>3 DEF StartEmpty, OneEnvAdmin, LiveAdmins, Live
  <2>4. CASE StartUnset
    <3>1. /\ UNCHANGED <<revoked, env>>
          /\ known' = known \/ \E b \in Boots : known' = known \cup {b}
      BY <2>4 DEF StartUnset
    <3>2. OneEnvAdmin'
      BY <1>1, <2>1, <3>1 DEF OneEnvAdmin, LiveAdmins, Live
    <3> QED BY <2>1, <3>1, <3>2
  <2> QED BY <2>2, <2>3, <2>4
<1>3. NoReq \in Reqs /\ NoReq.at = "idle" /\ ~NoReq.dead /\ ~NoReq.strict
  <2>1. /\ NoReq = [at |-> "idle", token |-> None, named |-> FALSE, dead |-> FALSE,
                    strict |-> FALSE]
    BY DEF NoReq
  <2> QED BY <2>1 DEF Reqs
<1>4. StatesOK'
  BY <1>1, <1>3, NoOpOK DEF IamInv, StatesOK
<1>5. HandlersOK'
  <2>1. \A h \in Handlers : op'[h] = NoOp
    BY <1>1
  <2> QED BY <2>1, NoOpOK, EmptyIsNoProgram DEF HandlersOK
<1>6. RequestsOK'
  <2>1. \A r \in Requests : req'[r] = NoReq
    BY <1>1
  <2> QED BY <1>3, <2>1 DEF RequestsOK
<1>7. TypeOK'
  <2>1. revoked' \subseteq Tokens \cup Admins
    BY <1>2, Names DEF IamInv, TypeOK
  <2> QED BY <1>1, <1>2, <2>1 DEF IamInv, TypeOK, TokensOf
<1>8. RevokedOK'
  <2>1. revoked' \cap Tokens = revoked \cap Tokens /\ Issued' = Issued
    BY <1>1, <1>2, Names DEF Issued
  <2> QED BY <1>1, <1>2, <2>1 DEF IamInv, RevokedOK
<1>9. CreatedTokensResolve'
  <2>1. OwnersKept
    BY <1>1 DEF OwnersKept
  <2>2. \A k \in owed' : k \in revoked' => k \in revoked
    BY <1>1, <1>2, Names DEF IamInv, StatesOK
  <2> QED BY <1>1, <1>2, <2>1, <2>2, OwedKept
<1> QED BY <1>1, <1>2, <1>4, <1>5, <1>6, <1>7, <1>8, <1>9 DEF IamInv
\* What holds of one request and what IamInv asks of it.
ReqOK(q) ==
  /\ q \in Reqs
  /\ q.at # "idle" => q.token \in Issued
  /\ q.dead => q.token \in revoked /\ q.at \in {"idle", "token"}
  /\ q.strict => q.token \in Issued /\ policy[owner[q.token]]
  /\ q.strict /\ q.at = "write" => q.named \/ q.token \in bound

\* A step of one request preserves the invariant if that request is in order.
LEMMA OneRequest ==
  ASSUME IamInv, NEW r \in Requests, NEW q, ReqOK(q), req' = [req EXCEPT ![r] = q],
         UNCHANGED <<iam, starts, ops, op, history>>
  PROVE  IamInv'
<1>1. UNCHANGED <<status, policy, owner, bound, known, revoked, op,
                  decided, removed, owed, env>>
  BY DEF iam, history
<1>2. req \in [Requests -> Reqs] /\ q \in Reqs
  BY DEF IamInv, StatesOK, ReqOK
<1>3. StatesOK'
  BY <1>1, <1>2 DEF IamInv, StatesOK
<1>4. RequestsOK'
  <2>1. req'[r] = q /\ \A o \in Requests \ {r} : req'[o] = req[o]
    BY <1>2
  <2>2. Issued' = Issued
    BY <1>1 DEF Issued
  <2> QED BY <1>1, <2>1, <2>2 DEF IamInv, RequestsOK, ReqOK
<1>5. TypeOK' /\ RevokedOK' /\ OneEnvAdmin' /\ decided' = policy'
  BY <1>1 DEF IamInv, TypeOK, TokensOf, RevokedOK, Issued, OneEnvAdmin, LiveAdmins, Live
<1>6. HandlersOK' /\ CreatedTokensResolve'
  BY <1>1 DEF IamInv, HandlersOK, Issued, CreatedTokensResolve, Resolves, Live
<1> QED BY <1>1, <1>3, <1>4, <1>5, <1>6 DEF IamInv

\* A request that is over is in order.
LEMMA IdleOK == NoReq \in Reqs /\ ReqOK(NoReq)
<1>1. NoReq = [at |-> "idle", token |-> None, named |-> FALSE, dead |-> FALSE,
               strict |-> FALSE]
  BY DEF NoReq
<1>2. NoReq \in Reqs
  BY <1>1 DEF Reqs
<1> QED BY <1>1, <1>2 DEF ReqOK

\* A request that arrives is dead only if its token is revoked, and under the
\* policy only if it is set; it passes its first read only with a token that
\* is not, and its last only if it may write.
LEMMA RequestStep ==
  ASSUME IamInv, NEW r \in Requests, Request(r) PROVE IamInv'
<1>1. ASSUME NEW k \in Tokens, NEW named \in BOOLEAN, Arrive(r, k, named) PROVE IamInv'
  <2> DEFINE q == [at |-> "token", token |-> k, named |-> named,
                   dead |-> k \in revoked \cup removed, strict |-> decided[owner[k]]]
  <2>1. /\ owner[k] # None /\ req' = [req EXCEPT ![r] = q]
        /\ UNCHANGED <<iam, starts, ops, op, history>>
    BY <1>1 DEF Arrive
  <2>2. k \in Issued /\ owner[k] \in Tenants
    BY <2>1 DEF Issued, IamInv, TypeOK
  <2>3. decided = policy /\ policy \in [Tenants -> BOOLEAN] /\ removed \subseteq revoked
    BY DEF IamInv, TypeOK, RevokedOK
  <2>4. (k \in revoked \cup removed) \in BOOLEAN /\ decided[owner[k]] \in BOOLEAN
    BY <2>2, <2>3
  <2>5. q \in Reqs
    BY <2>4 DEF Reqs
  <2>6. ReqOK(q)
    BY <2>2, <2>3, <2>5 DEF ReqOK
  <2> HIDE DEF q
  <2> QED BY <2>1, <2>6, OneRequest
<1>2. req[r] \in Reqs /\ ReqOK(req[r])
  BY DEF IamInv, StatesOK, RequestsOK, ReqOK
<1>3. ASSUME NEW at, Move(r, at), at = "idle" PROVE IamInv'
  <2>1. req' = [req EXCEPT ![r] = NoReq] /\ UNCHANGED <<iam, starts, ops, op, history>>
    BY <1>3 DEF Move
  <2> QED BY <2>1, IdleOK, OneRequest
<1>4. ASSUME NEW at \in {"tenant", "policy", "write"}, Move(r, at), req[r].at # "idle",
             req[r].token \notin revoked \/ req[r].at # "token",
             at = "write" => MayWrite(r)
      PROVE  IamInv'
  <2> DEFINE q == [req[r] EXCEPT !.at = at]
  <2>1. req' = [req EXCEPT ![r] = q] /\ UNCHANGED <<iam, starts, ops, op, history>>
    BY <1>2, <1>4 DEF Move, IamInv, StatesOK
  <2>2. /\ q \in Reqs /\ q.at = at /\ q.token = req[r].token /\ q.named = req[r].named
        /\ q.dead = req[r].dead /\ q.strict = req[r].strict
    BY <1>2, <1>4 DEF Reqs
  <2>3. ReqOK(q)
    BY <1>2, <1>4, <2>2 DEF ReqOK, MayWrite
  <2> HIDE DEF q
  <2> QED BY <2>1, <2>3, OneRequest
<1>5. CASE ReadToken(r)
  <2>1. CASE Live(req[r].token)
    BY <1>4, <1>5, <2>1 DEF ReadToken, Live
  <2>2. CASE ~Live(req[r].token)
    BY <1>3, <1>5, <2>2 DEF ReadToken
  <2> QED BY <2>1, <2>2
<1>6. CASE ReadTenant(r)
  <2>1. CASE status[owner[req[r].token]] = "active"
    BY <1>4, <1>6, <2>1 DEF ReadTenant
  <2>2. CASE status[owner[req[r].token]] # "active"
    BY <1>3, <1>6, <2>2 DEF ReadTenant
  <2> QED BY <2>1, <2>2
<1>7. CASE ReadPolicy(r)
  <2>1. CASE MayWrite(r)
    BY <1>4, <1>7, <2>1 DEF ReadPolicy
  <2>2. CASE ~MayWrite(r)
    BY <1>3, <1>7, <2>2 DEF ReadPolicy
  <2> QED BY <2>1, <2>2
<1>8. CASE Write(r)
  BY <1>3, <1>8 DEF Write
<1> QED BY <1>1, <1>5, <1>6, <1>7, <1>8 DEF Request
-----------------------------------------------------------------------------
(* The theorems.                                                           *)

\* Nothing is registered, issued or owed before the first start.
LEMMA InitIamInv == Init => IamInv
<1> SUFFICES ASSUME Init PROVE IamInv
  OBVIOUS
<1>1. /\ status = [t \in Tenants |-> "none"] /\ policy = [t \in Tenants |-> FALSE]
      /\ owner = [k \in Tokens |-> None] /\ bound = {} /\ known = {} /\ revoked = {}
      /\ op = [h \in Handlers |-> NoOp] /\ req = [r \in Requests |-> NoReq]
      /\ decided = policy /\ removed = {} /\ owed = {}
  BY DEF Init
<1>2. StatesOK
  BY <1>1, NoOpOK, IdleOK DEF StatesOK
<1>3. HandlersOK
  BY <1>1, NoOpOK, EmptyIsNoProgram DEF HandlersOK
<1>4. RequestsOK
  BY <1>1, IdleOK DEF RequestsOK, ReqOK
<1>5. TypeOK
  BY <1>1, Names DEF TypeOK, TokensOf
<1>6. RevokedOK /\ CreatedTokensResolve /\ OneEnvAdmin
  BY <1>1, Names DEF RevokedOK, CreatedTokensResolve, OneEnvAdmin, LiveAdmins, Live
<1> QED BY <1>1, <1>2, <1>3, <1>4, <1>5, <1>6 DEF IamInv

\* Every start, statement and read preserves the invariant.
LEMMA StepIamInv == IamInv /\ [Next]_vars => IamInv'
<1> SUFFICES ASSUME IamInv, [Next]_vars PROVE IamInv'
  OBVIOUS
<1>1. CASE (\E v \in EnvValues : StartEnv(v)) \/ StartEmpty \/ StartUnset
  BY <1>1, RestartStep
<1>2. ASSUME NEW h \in Handlers, Handle(h) PROVE IamInv'
  BY <1>2, BeginStep, RegisterStep, ActivateStep, IssueStep, SuspendStep,
     RevokeAllStep, RevokeOneStep, PolicyStep DEF Handle
<1>3. ASSUME NEW r \in Requests, Request(r) PROVE IamInv'
  BY <1>3, RequestStep
<1>4. CASE UNCHANGED vars
  <2>1. UNCHANGED <<status, policy, owner, bound, known, revoked, op, req,
                    decided, removed, owed, env>>
    BY <1>4 DEF vars, iam, history
  <2> QED BY <2>1 DEF IamInv, TypeOK, TokensOf, StatesOK, HandlersOK, RevokedOK, RequestsOK,
             Issued, CreatedTokensResolve, Resolves, OneEnvAdmin, LiveAdmins, Live
<1> QED BY <1>1, <1>2, <1>3, <1>4 DEF Next

\* In every reachable state, what the handlers have left to run and what the
\* requests have read are in order.
THEOREM IamInvariant == Spec => []IamInv
BY InitIamInv, StepIamInv, PTL DEF Spec

\* The types hold, and a tenant without a row has neither tokens nor a policy.
THEOREM IamTypeOK == Spec => []TypeOK
<1>1. IamInv => TypeOK
  BY DEF IamInv
<1> QED BY <1>1, IamInvariant, PTL

\* The token create_tenant returned resolves until it is revoked or its tenant
\* removed, however the admin handlers' statements interleave.
THEOREM IamCreatedTokens == Spec => []CreatedTokensResolve
<1>1. IamInv => CreatedTokensResolve
  BY DEF IamInv
<1> QED BY <1>1, IamInvariant, PTL

\* No env admin token of an earlier start resolves.
THEOREM IamOneEnvAdmin == Spec => []OneEnvAdmin
<1>1. IamInv => OneEnvAdmin
  BY DEF IamInv
<1> QED BY <1>1, IamInvariant, PTL

\* Nothing is written for a request that came with a token already revoked, or
\* issued before a removal that had finished.
THEOREM IamRevoked == Spec => RevokedStaysOut
<1>1. IamInv /\ [Next]_vars => [\A r \in Requests : Write(r) => ~req[r].dead]_vars
  BY DEF IamInv, RequestsOK, Write
<1> QED BY <1>1, IamInvariant, PTL DEF Spec, RevokedStaysOut

\* A request that comes after the policy was set does not write with an unbound
\* token in a scope it does not name.
THEOREM IamPolicy == Spec => PolicyFromNextRequest
<1>1. IamInv /\ [Next]_vars =>
        [\A r \in Requests :
           Write(r) /\ req[r].strict => req[r].named \/ req[r].token \in bound]_vars
  BY DEF IamInv, RequestsOK, Write
<1> QED BY <1>1, IamInvariant, PTL DEF Spec, PolicyFromNextRequest

-----------------------------------------------------------------------------
(* The starts beside it: MCIam composes StartUp as Starts.                 *)

\* Every start goes on with a link that is allowed, and has left nothing before IAM is opened.
LinksAllowed ==
  \A p \in Server :
    /\ step[p] \in {"secrets", "model", "iam", "look", "mint", "tell", "tls", "bind", "serving"} =>
         /\ link[p].wire = "clear" =>
              ~link[p].part /\ (Starts!LooksLocal(link[p].addr) \/ link[p].insecure)
    /\ step[p] \in {"bind", "serving"} => Starts!Parses(link[p].addr)
NothingLeft ==
  \A p \in Server :
    (\/ step[p] \in {"secrets", "model"}
     \/ step[p] = "refused" /\ why[p] \in {"pair", "clear", "tokens", "metrics", "model"})
      => p \notin made
\* Who is about to tell a token has made one.
RootsOK == Starts!RootIsKnown /\ \A p \in Server : step[p] = "tell" => p \in roots

StartInv ==
  /\ Starts!TypeOK /\ DOMAIN why = Server
  /\ LinksAllowed /\ NothingLeft /\ RootsOK /\ Starts!SecretsAreTheirOwn

\* One variable or two.
LEMMA FewVariables ==
  ASSUME NEW q \in Starts!Environments
  PROVE  (DOMAIN q = {1} /\ Len(q) = 1) \/ (DOMAIN q = {1, 2} /\ Len(q) = 2)
<1>1. CASE \E e \in Starts!EnvTokens : q = <<e>>
  <2>1. Len(q) = 1 /\ DOMAIN q = 1..1
    BY <1>1
  <2>2. 1..1 = {1}
    OBVIOUS
  <2> QED
    BY <2>1, <2>2
<1>2. CASE q \in Starts!EnvTokens \X Starts!EnvTokens
  <2>1. q = <<q[1], q[2]>>
    BY <1>2
  <2>2. Len(q) = 2 /\ DOMAIN q = 1..2
    BY <2>1
  <2>3. 1..2 = {1, 2}
    OBVIOUS
  <2> QED
    BY <2>2, <2>3
<1> QED
  BY <1>1, <1>2 DEF Starts!Environments

\* The map of each environment: a recursive function over the few variables it has.
LEMMA MapStep ==
  ASSUME NEW q \in Starts!Environments
  PROVE  /\ Starts!MapOf(q)[0] = [k \in {"k1", "k2", "short", ""} |-> <<>>]
         /\ \A i \in DOMAIN q :
              Starts!MapOf(q)[i] =
                IF Starts!Skipped(q[i]) THEN Starts!MapOf(q)[i - 1]
                ELSE [Starts!MapOf(q)[i - 1] EXCEPT ![q[i].secret] = Starts!Ident(q[i])]
<1> DEFINE Zero == [k \in {"k1", "k2", "short", ""} |-> <<>>]
           Put(m, e) == IF Starts!Skipped(e) THEN m
                        ELSE [m EXCEPT ![e.secret] = Starts!Ident(e)]
           Body(m) == [i \in 0..Len(q) |-> IF i = 0 THEN Zero ELSE Put(m[i - 1], q[i])]
<1>1. Len(q) \in {1, 2} /\ DOMAIN q = 1..Len(q)
  BY FewVariables
<1>2. Starts!MapOf(q) = CHOOSE m : m = Body(m)
  BY DEF Starts!MapOf
<1> HIDE DEF Zero, Put
<1>3. \E m : m = Body(m)
  <2> DEFINE one == Put(Zero, q[1])
             two == Put(one, q[2])
             w == [i \in 0..Len(q) |-> IF i = 0 THEN Zero ELSE IF i = 1 THEN one ELSE two]
  <2>1. w[0] = Zero /\ w[1] = one
    BY <1>1
  <2>2. \A i \in 0..Len(q) : w[i] = (IF i = 0 THEN Zero ELSE Put(w[i - 1], q[i]))
    <3>1. 0..Len(q) \subseteq {0, 1, 2}
      BY <1>1
    <3>2. 2 \in 0..Len(q) => w[2] = two
      OBVIOUS
    <3> HIDE DEF w
    <3>3. ASSUME NEW i \in 0..Len(q) PROVE w[i] = (IF i = 0 THEN Zero ELSE Put(w[i - 1], q[i]))
      <4>1. i \in {0, 1, 2}
        BY <3>1
      <4>2. CASE i = 0
        BY <2>1, <4>2
      <4>3. CASE i = 1
        BY <2>1, <4>3
      <4>4. CASE i = 2
        BY <2>1, <3>2, <4>4
      <4> QED
        BY <4>1, <4>2, <4>3, <4>4
    <3> QED
      BY <3>3
  <2>3. w = Body(w)
    BY <2>2
  <2> QED
    BY <2>3
<1>4. Starts!MapOf(q) = Body(Starts!MapOf(q))
  BY <1>2, <1>3
<1> DEFINE f == Starts!MapOf(q)
<1> HIDE DEF f
<1>5. \A i \in 0..Len(q) : f[i] = (IF i = 0 THEN Zero ELSE Put(f[i - 1], q[i]))
  BY <1>4 DEF f
<1>6. f[0] = Zero /\ \A i \in DOMAIN q : f[i] = Put(f[i - 1], q[i])
  BY <1>1, <1>5
<1> QED
  BY <1>6 DEF f, Put, Zero

\* Whatever the environment lists, and in which order: what is accepted hides nothing.
LEMMA AcceptedHidesNothing ==
  ASSUME NEW q \in Starts!Environments, Starts!Accepts(q)
  PROVE  ~Starts!Shadows(q)
<1> DEFINE m == Starts!MapOf(q)
<1>1. /\ DOMAIN m[0] = {"k1", "k2", "short", ""} /\ \A k \in DOMAIN m[0] : m[0][k] = <<>>
      /\ \A i \in DOMAIN q :
           m[i] = IF Starts!Skipped(q[i]) THEN m[i - 1]
                  ELSE [m[i - 1] EXCEPT ![q[i].secret] = Starts!Ident(q[i])]
  BY MapStep
<1>2. \A i \in DOMAIN q : /\ q[i].secret \in {"k1", "k2", "short", ""}
                          /\ Starts!Ident(q[i]) # <<>>
  <2>1. \A i \in DOMAIN q : q[i] \in Starts!EnvTokens
    BY DEF Starts!Environments
  <2>2. ASSUME NEW e \in Starts!EnvTokens PROVE e.secret \in {"k1", "k2", "short", ""}
    <3> DEFINE Listed ==
                 {<<"acme", "none", "k1">>, <<"ACME", "none", "k1">>, <<"acme", "bot", "k1">>,
                  <<"beta", "none", "k1">>, <<"beta", "bot", "k2">>, <<"", "none", "k2">>,
                  <<"acme", "none", "short">>, <<"acme", "none", "">>}
    <3>1. ASSUME NEW t \in Listed
          PROVE  t[3] = "k1" \/ t[3] = "k2" \/ t[3] = "short" \/ t[3] = ""
      <4>1. \/ t = <<"acme", "none", "k1">> \/ t = <<"ACME", "none", "k1">>
            \/ t = <<"acme", "bot", "k1">> \/ t = <<"beta", "none", "k1">>
            \/ t = <<"beta", "bot", "k2">> \/ t = <<"", "none", "k2">>
            \/ t = <<"acme", "none", "short">> \/ t = <<"acme", "none", "">>
        OBVIOUS
      <4> HIDE DEF Listed
      <4>2. \A a, b, c : t = <<a, b, c>> => t[3] = c
        OBVIOUS
      <4> QED
        BY <4>1, <4>2, Zenon
    <3>2. Starts!EnvTokens =
            {[tenant |-> t[1], agent |-> t[2], secret |-> t[3]] : t \in Listed}
      BY Zenon DEF Starts!EnvTokens
    <3> HIDE DEF Listed
    <3>3. PICK t \in Listed : e.secret = t[3]
      BY <3>2
    <3> QED
      BY <3>1, <3>3
  <2>3. \A e : Starts!Ident(e) # <<>>
    BY DEF Starts!Ident
  <2> QED
    BY <2>1, <2>2, <2>3
<1>3. \A i \in DOMAIN q :
        Starts!Skipped(q[i]) \/ m[i - 1][q[i].secret] \in {<<>>, Starts!Ident(q[i])}
  BY DEF Starts!Accepts, Starts!Clash
<1> HIDE DEF m
<1>4. CASE DOMAIN q = {1} /\ Len(q) = 1
  <2>1. 1 \in DOMAIN q /\ 1 - 1 = 0
    BY <1>4
  <2>2. m[1] = IF Starts!Skipped(q[1]) THEN m[0]
               ELSE [m[0] EXCEPT ![q[1].secret] = Starts!Ident(q[1])]
    BY <1>1, <2>1
  <2>3. ~Starts!Skipped(q[1]) => m[1][q[1].secret] = Starts!Ident(q[1])
    BY <1>1, <1>2, <2>1, <2>2
  <2> QED
    BY <1>4, <2>3 DEF Starts!Shadows, m
<1>5. CASE DOMAIN q = {1, 2} /\ Len(q) = 2
  <2>1. m[1] = IF Starts!Skipped(q[1]) THEN m[0]
               ELSE [m[0] EXCEPT ![q[1].secret] = Starts!Ident(q[1])]
    <3>1. 1 \in DOMAIN q /\ 1 - 1 = 0
      BY <1>5
    <3> QED
      BY <1>1, <3>1
  <2>2. m[2] = IF Starts!Skipped(q[2]) THEN m[1]
               ELSE [m[1] EXCEPT ![q[2].secret] = Starts!Ident(q[2])]
    <3>1. 2 \in DOMAIN q /\ 2 - 1 = 1
      BY <1>5
    <3> QED
      BY <1>1, <3>1
  <2>3. Starts!Skipped(q[2]) \/ m[1][q[2].secret] \in {<<>>, Starts!Ident(q[2])}
    BY <1>3, <1>5
  <2>4. ~Starts!Skipped(q[1]) => m[2][q[1].secret] = Starts!Ident(q[1])
    <3>1. ASSUME ~Starts!Skipped(q[1])
          PROVE  m[1][q[1].secret] = Starts!Ident(q[1]) /\ q[1].secret \in DOMAIN m[1]
      BY <1>1, <1>2, <1>5, <2>1, <3>1
    <3>2. Starts!Ident(q[1]) # <<>>
      BY <1>2, <1>5
    <3> QED
      BY <2>2, <2>3, <3>1, <3>2
  <2>5. ~Starts!Skipped(q[2]) => m[2][q[2].secret] = Starts!Ident(q[2])
    BY <1>1, <1>2, <1>5, <2>1, <2>2
  <2> QED
    BY <1>5, <2>4, <2>5 DEF Starts!Shadows, m
<1>6. (DOMAIN q = {1} /\ Len(q) = 1) \/ (DOMAIN q = {1, 2} /\ Len(q) = 2)
  BY FewVariables
<1> QED
  BY <1>4, <1>5, <1>6

LEMMA ReadingsOK == \A e \in Starts!Readings : e.accepted => ~e.shadows
BY AcceptedHidesNothing DEF Starts!Readings

LEMMA InitStarts == ASSUME Starts!Init PROVE StartInv
BY DEF Starts!Init, StartInv, Starts!TypeOK, LinksAllowed, NothingLeft, RootsOK,
   Starts!RootIsKnown, Starts!SecretsAreTheirOwn, Starts!NoLink, Starts!Links, Starts!Addrs

\* What a start goes on with: half a pair never, and in the clear only as it was told.
LEMMA LinkOfOptions ==
  /\ Starts!NoLink \in Starts!Links
  /\ \A o \in Starts!Options :
       /\ Starts!LinkOf(o) \in Starts!Links /\ Starts!LinkOf(o).addr = o.addr
       /\ Starts!WholePair(o) /\ Starts!LinkOf(o).wire = "clear" =>
            ~Starts!LinkOf(o).part /\ (Starts!LinkOf(o).insecure <=> o.insecure)
<1>1. Starts!NoLink \in Starts!Links
  BY DEF Starts!NoLink, Starts!Links, Starts!Addrs
<1>2. ASSUME NEW o \in Starts!Options
      PROVE  /\ Starts!LinkOf(o) \in Starts!Links /\ Starts!LinkOf(o).addr = o.addr
             /\ Starts!LinkOf(o).wire = Starts!Wire(o)
             /\ Starts!LinkOf(o).part = (Starts!Wire(o) = "clear" /\ (o.cert \/ o.key))
             /\ Starts!LinkOf(o).insecure = (Starts!Wire(o) = "clear" /\ o.insecure)
  BY <1>2 DEF Starts!LinkOf, Starts!Wire, Starts!Links, Starts!Options
<1>3. ASSUME NEW o \in Starts!Options, Starts!WholePair(o), Starts!Wire(o) = "clear"
      PROVE  ~(o.cert \/ o.key)
  BY <1>3 DEF Starts!WholePair, Starts!Wire, Starts!Options
<1> QED
  BY <1>1, <1>2, <1>3

\* Every step of a start keeps it.
LEMMA StepStarts ==
  ASSUME StartInv, [Starts!Next]_(Starts!vars)
  PROVE  StartInv'
<1> USE DEF StartInv, Starts!TypeOK, LinksAllowed, NothingLeft, RootsOK, Starts!RootIsKnown,
            Starts!SecretsAreTheirOwn, Starts!Goes, Starts!Refused, Starts!After
<1>1. ASSUME NEW p \in Server, Starts!Begin(p) PROVE StartInv'
  BY <1>1, LinkOfOptions DEF Starts!Begin
<1>2. ASSUME NEW p \in Server, Starts!Secrets(p) PROVE StartInv'
  BY <1>2, LinkOfOptions, ReadingsOK DEF Starts!Secrets
<1>3. ASSUME NEW p \in Server, Starts!Model(p) PROVE StartInv'
  BY <1>3, LinkOfOptions DEF Starts!Model
<1>4. ASSUME NEW p \in Server, Starts!OpenIam(p) PROVE StartInv'
  BY <1>4, LinkOfOptions DEF Starts!OpenIam
<1>5. ASSUME NEW p \in Server, Starts!Look(p) PROVE StartInv'
  BY <1>5 DEF Starts!Look
<1>6. ASSUME NEW p \in Server, Starts!Mint(p) PROVE StartInv'
  BY <1>6 DEF Starts!Mint, Starts!Minted
<1>7. ASSUME NEW p \in Server, Starts!Tell(p) PROVE StartInv'
  BY <1>7 DEF Starts!Tell, Starts!Told
<1>8. ASSUME NEW p \in Server, Starts!Tls(p) PROVE StartInv'
  BY <1>8, LinkOfOptions DEF Starts!Tls
<1>9. ASSUME NEW p \in Server, Starts!Bind(p) PROVE StartInv'
  BY <1>9, LinkOfOptions DEF Starts!Bind
<1>10. ASSUME NEW p \in Server, Starts!Ends(p) PROVE StartInv'
  BY <1>10, LinkOfOptions DEF Starts!Ends
<1>11. CASE UNCHANGED Starts!vars
  BY <1>11 DEF Starts!vars
<1> QED
  BY <1>1, <1>2, <1>3, <1>4, <1>5, <1>6, <1>7, <1>8, <1>9, <1>10, <1>11 DEF Starts!Next

\* A start is safe, however many meet over one data directory and one port: plain HTTP only
\* where it is allowed, no secret of the environment hidden by another whatever their order, an
\* early refusal leaves nothing behind, and the bootstrap token is known to someone (server.rs
\* run_blocking, BearerAuth::from_env, iam.rs ensure_admin_from).
THEOREM StartsAreSafe == MCSpec => []StartIsSafe
<1>1. MCInit => StartInv
  BY InitStarts DEF MCInit
<1>2. StartInv /\ [MCNext]_<<part, vars, start_vars>> => StartInv'
  <2>1. start_vars' = start_vars => UNCHANGED Starts!vars
    BY DEF start_vars, Starts!vars
  <2>2. [MCNext]_<<part, vars, start_vars>> => [Starts!Next]_(Starts!vars)
    BY <2>1 DEF MCNext, Administering, Starting
  <2> QED
    BY <2>2, StepStarts
<1>3. StartInv => StartIsSafe
  <2>1. ASSUME StartInv PROVE Starts!ClearOnlyWhereAllowed
    BY <2>1 DEF StartInv, LinksAllowed, Starts!ClearOnlyWhereAllowed, Starts!LooksLocal,
       Starts!Parses, Starts!TypeOK, Starts!Links, Starts!Addrs
  <2>2. ASSUME StartInv PROVE Starts!EarlyRefusalLeavesNothing
    BY <2>2 DEF StartInv, NothingLeft, Starts!EarlyRefusalLeavesNothing
  <2> QED
    BY <2>1, <2>2 DEF StartInv, RootsOK, StartIsSafe
<1> QED
  BY <1>1, <1>2, <1>3, PTL DEF MCSpec
=============================================================================
