---------------------------- MODULE ScopedClient ----------------------------
(***************************************************************************)
(* `dmem --scope S ...` (src/src/client.rs, Memory of src/src/tools.rs):   *)
(* one invocation writes and reads one record after another, in the store  *)
(* of this machine or over HTTP.  The server at the other end may be       *)
(* replaced by an older or a newer one, and a reply may be lost, between   *)
(* any two requests; one older than 0.3.7 does not know the header that    *)
(* names the scope.                                                        *)
(***************************************************************************)
EXTENDS Naturals, FiniteSets

CONSTANTS
  Uri, Scope,
  Own,      \* the scope a bound token, or DM_SCOPE, is bound to
  Global,   \* the scope ''
  Bad,      \* a value that is no single scope
  None,
  MaxSwaps  \* how often the server is replaced

\* What a configuration gives them: scopes and the three marks are all different.
ClientConstants ==
  /\ Own \in Scope /\ {Global, Bad, None} \cap Scope = {}
  /\ Global # None /\ Bad # None /\ Bad # Global
  /\ None \notin {"yes", "no", "done", "failed", "nothing"}
  /\ MaxSwaps \in Nat

Scopes == Scope \cup {Global}
\* By what they know: the flat reply, the split one, the riders, the header.
Servers == {"flat", "split", "riders", "header"}

VARIABLES
  session,  \* [place, token, policy, scope]: what the invocation starts with
  server, swaps,
  rows,     \* live rows <<uri, scope>> of the tenant
  pc,       \* "open", "ready", "ask", "send", "reply" or "over"
  verb, uri,
  asked,    \* scope_probe: None, "yes" or "no"
  reply,    \* what the server answered
  told,     \* what the invocation said of the last record
  shown,    \* the seeds and the neighbours it showed
  wrote, stale  \* ghosts: it changed rows; the server is not the one it asked
vars == <<session, server, swaps, rows, pc, verb, uri, asked, reply, told, shown, wrote,
          stale>>

Hidden == [seeds |-> {}, found |-> {}]
NoReply == [stamp |-> None, scope |-> None, seeds |-> {}, found |-> {}]

Init ==
  /\ session \in [place : {"remote", "insecure", "local", "bound"},
                  token : {"full", "scoped", "adapter"},
                  policy : BOOLEAN, scope : Scopes \cup {None, Bad}]
  /\ session.place \in {"local", "bound"} => session.token = "full" /\ ~session.policy
  /\ server \in Servers /\ swaps = 0
  /\ rows \in {{}, Uri \X Scopes}
  /\ pc = "open" /\ verb = None /\ uri = None /\ asked = None /\ reply = NoReply
  /\ told = None /\ shown = Hidden /\ wrote = FALSE /\ stale = FALSE

Swap(v) ==
  /\ swaps < MaxSwaps /\ v # server /\ server' = v /\ swaps' = swaps + 1
  /\ stale' = (asked # None)
  /\ UNCHANGED <<session, shown, rows, pc, verb, uri, asked, reply, told, wrote>>

-----------------------------------------------------------------------------
(* What a server, or the embedded engine, does with a request.             *)

\* scope_binding: the scope a save is stamped with, None when it is refused.  A server that
\* does not know the header gives a full token the global scope.
Stamped ==
  IF session.token = "scoped" THEN Own
  ELSE IF session.token = "adapter" \/ (session.scope # None /\ server = "header")
  THEN session.scope
  ELSE IF session.policy /\ server = "header" THEN None ELSE Global
\* The rows a retraction reaches: a token bound to nothing that writes global reaches all.
Reached(stamp, u) ==
  IF stamp = Global /\ session.token = "full" THEN {u} \X Scopes ELSE {<<u, stamp>>}

\* embedded_write_scope: a session bound by DM_SCOPE takes no other.
Embedded ==
  CASE session.place = "bound" -> IF session.scope \in {None, Own} THEN Own ELSE Bad
    [] OTHER -> IF session.scope = None THEN Global ELSE session.scope

\* `saved` names the scope since the header is known.
Answer(stamp) ==
  [NoReply EXCEPT !.stamp = stamp, !.scope = IF server = "header" THEN stamp ELSE None]

\* The error of a save or a retraction is no news of the rows.
Writes(stamp) ==
  /\ rows' = CASE verb = "save"    -> rows \cup {<<uri, stamp>>}
               [] verb = "retract" -> rows \ Reached(stamp, uri)
               [] verb = "wire"    -> rows
  /\ wrote' = TRUE

-----------------------------------------------------------------------------
(* The invocation.                                                         *)

\* RemoteClient::new: a link whose certificate nobody verifies, or whose pinned one cannot be
\* read.  with_write_scope: a scope that is none is refused, not dropped.
Unfit ==
  \/ session.place = "insecure" \/ session.scope = Bad
  \/ session.place = "bound" /\ Embedded = Bad
Open ==
  /\ pc = "open"
  /\ LET refused == Unfit
     IN /\ pc' = IF refused THEN "over" ELSE "ready"
        /\ told' = IF refused THEN "nothing" ELSE None
  /\ UNCHANGED <<session, shown, server, swaps, rows, verb, uri, asked, reply, wrote, stale>>

\* Mutant: the server is asked before every record.
FirstAskAgain(v) == IF v # "recall" /\ session.scope # None THEN "ask" ELSE "send"
\* ensure_write_scope_honoured: asked once, the answer stands for the whole invocation.
First(v) ==
  IF v = "recall" \/ session.scope = None \/ asked = "yes" THEN "send"
  ELSE IF asked = "no" THEN "ready" ELSE "ask"

Call(v, u) ==
  /\ pc = "ready" /\ session.place = "remote" /\ verb' = v /\ uri' = u
  /\ pc' = First(v)
  /\ told' = IF pc' = "ready" THEN "nothing" ELSE None
  /\ reply' = NoReply /\ shown' = Hidden
  /\ UNCHANGED <<session, server, swaps, rows, asked, wrote, stale>>

\* Mutant: a server that does not know the question is taken to know the header.
ProbeTrusts == session.token # "scoped"
\* capabilities_h, and 404 from an older server; a lost answer or an error is a no too.
Probe == server = "header" /\ session.token # "scoped"
Ask ==
  /\ pc = "ask" /\ stale' = FALSE
  /\ \E heard \in BOOLEAN :
       IF heard /\ Probe THEN pc' = "send" /\ asked' = "yes" /\ UNCHANGED told
       ELSE pc' = "ready" /\ asked' = "no" /\ told' = "nothing"
  /\ UNCHANGED <<session, shown, server, swaps, rows, verb, uri, reply, wrote>>

\* send_post, and the handler at the other end.
Send ==
  /\ pc = "send" /\ pc' = "reply"
  /\ IF verb = "recall"
     THEN /\ \E s, n \in SUBSET {r[1] : r \in rows} :
               /\ s \cap n = {}
               /\ reply' = [NoReply EXCEPT !.seeds = s, !.found = n,
                                           !.stamp = server]
          /\ UNCHANGED <<rows, wrote>>
     ELSE IF Stamped \in Scopes
     THEN Writes(Stamped) /\ reply' = Answer(Stamped)
     ELSE UNCHANGED <<rows, wrote, reply>>
  /\ UNCHANGED <<session, shown, server, swaps, verb, uri, asked, told, stale>>

\* Mutant: what the server says of the scope is not looked at.
ConfirmedAny == reply.stamp # None
\* uri_of: the scope echoed is the one asked for.
Confirmed ==
  /\ reply.stamp # None
  /\ verb = "save" /\ session.scope # None => reply.scope = session.scope

Hear ==
  /\ pc = "reply" /\ verb # "recall" /\ pc' = "ready"
  /\ told' = IF Confirmed THEN "done" ELSE "failed"
  /\ UNCHANGED <<session, shown, server, swaps, rows, verb, uri, asked, reply, wrote, stale>>
\* A transport error, a status that is no success, or a body that does not decode.
Miss ==
  /\ pc = "reply" /\ pc' = "ready" /\ told' = "failed"
  /\ UNCHANGED <<session, shown, server, swaps, rows, verb, uri, asked, reply, wrote, stale>>

\* Mutant: neighbours are read from the riders alone.
RidersOnly(v) == [seeds |-> IF v = "flat" THEN reply.seeds \cup reply.found ELSE reply.seeds,
                  found |-> IF v \in {"flat", "split"} THEN {} ELSE reply.found]
\* recall_expanded_graph: a flat reply is all seeds, neighbours without riders are riders.
Decoded(v) == [seeds |-> IF v = "flat" THEN reply.seeds \cup reply.found ELSE reply.seeds,
               found |-> IF v = "flat" THEN {} ELSE reply.found]
Show ==
  /\ pc = "reply" /\ verb = "recall" /\ pc' = "ready"
  /\ shown' = Decoded(reply.stamp) /\ told' = "done"
  /\ UNCHANGED <<session, server, swaps, rows, verb, uri, asked, reply, wrote, stale>>

\* The embedded engine: nothing on the way can be lost.
Embed(v, u) ==
  /\ pc = "ready" /\ session.place \in {"local", "bound"} /\ v # "recall" /\ verb' = v /\ uri' = u
  /\ wrote' = TRUE /\ told' = "done" /\ reply' = [NoReply EXCEPT !.stamp = Embedded]
  /\ rows' = CASE v = "save"    -> rows \cup {<<u, Embedded>>}
               [] v = "retract" -> rows \ Reached(Embedded, u)
               [] v = "wire"    -> rows
  /\ UNCHANGED <<session, shown, server, swaps, pc, asked, stale>>

Next ==
  \/ \E v \in Servers : Swap(v)
  \/ Open \/ Ask \/ Send \/ Hear \/ Miss \/ Show
  \/ \E v \in {"save", "retract", "wire", "recall"}, u \in Uri : Call(v, u) \/ Embed(v, u)
Spec == Init /\ [][Next]_vars

-----------------------------------------------------------------------------
TypeOK ==
  /\ rows \subseteq Uri \X Scopes /\ server \in Servers /\ swaps \in 0..MaxSwaps
  /\ pc \in {"open", "ready", "ask", "send", "reply", "over"}
  /\ asked \in {None, "yes", "no"} /\ wrote \in BOOLEAN /\ stale \in BOOLEAN
  /\ asked = "no" => session.scope \in Scopes /\ ~(pc = "send" /\ verb # "recall")

\* A save reported as done is where --scope asked for it, whatever servers came and went
\* between the question and the write ("never as done").
SavedWhereAsked ==
  [][Hear /\ verb = "save" /\ session.scope # None /\ told' = "done" =>
       reply.stamp = session.scope]_vars

\* A retraction under --scope takes rows of no other scope, unless the server was replaced
\* after it was asked: the reply to a retraction names no scope.
RetractedWhereAsked ==
  [][session.scope \in Scope /\ ~stale /\ verb' = "retract" =>
       \A r \in rows \ rows' : r[2] = session.scope]_vars

\* "nothing was written" is true of the whole invocation, not of its last record only.
RefusalIsWhole == told = "nothing" => ~wrote

\* Whatever server answers, a recall shows every record it sent, and marks as neighbours the
\* ones it said are.
SkewLosesNothing ==
  [][Show => /\ shown'.seeds \cup shown'.found = reply.seeds \cup reply.found
             /\ reply.stamp # "flat" => shown'.found = reply.found]_vars

\* --scope is kept, whatever servers the invocation meets: a save reported as done is where
\* it was asked for, a retraction takes rows of no other scope, "nothing was written" is true
\* of the whole invocation, and a recall shows every record it was sent.
ScopeIsKept ==
  [](TypeOK /\ RefusalIsWhole) /\ SavedWhereAsked /\ RetractedWhereAsked /\ SkewLosesNothing
=============================================================================
