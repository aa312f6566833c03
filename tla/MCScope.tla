------------------------------ MODULE MCScope -------------------------------
(* A tenant with two rooms: a shared uri and one in agent a1's tree. *)
EXTENDS ScopeAccess

CONSTANTS plain, persona, room1, room2, a1, a2

TheOwner == [u \in {plain, persona} |-> IF u = persona THEN a1 ELSE None]

Token(kind, grants, capped, write, agent) ==
  [kind |-> kind, grants |-> grants, capped |-> capped, write |-> write, agent |-> agent]

From(token, named, asserted, policy) ==
  [token |-> token, named |-> named, asserted |-> asserted, policy |-> policy]

FullCalls ==
  {From(Token("full", {}, FALSE, None, a), n, {}, p) :
     a \in {None, a1, a2}, n \in {None, Global, room1}, p \in BOOLEAN}

\* One of them asserts headers, which are ignored.
ScopedCalls ==
  {From(Token("scoped", {room2}, FALSE, w, None), None, {}, FALSE) : w \in {room1, Global, None}}
    \cup {From(Token("scoped", {}, FALSE, room1, a2), room2, {room2}, TRUE)}

AdapterCalls ==
  {From(Token("adapter", {}, FALSE, None, None), n, {room2}, FALSE) :
     n \in {None, Global, room1}}
    \cup {From(Token("adapter", {room1}, TRUE, None, None), n, {room1, room2}, FALSE) :
            n \in {None, Global, room1, room2}}

TheCalls == FullCalls \cup ScopedCalls \cup AdapterCalls
=============================================================================
