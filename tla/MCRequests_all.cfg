\* Tokens of every kind over two rooms and an agent's tree; two clients, one of them with any
\* request; and an invocation with --scope whose server is replaced once.
CONSTANTS
  plain = plain
  persona = persona
  room1 = room1
  room2 = room2
  a1 = a1
  a2 = a2
  Global = Global
  None = None
  Uris = {plain, persona}
  Rooms = {room1, room2}
  Agents = {a1, a2}
  Owner <- TheOwner
  Calls <- TheCalls
  Client = {c1, c2}
  Savers = {c2}
  Uri = {u1, u2}
  Scope = {s1, s2}
  Own = s1
  Bad = Bad
  MaxSwaps = 1
SPECIFICATION MCSpec
INVARIANTS ReadsStayInReach LockIsShort
PROPERTIES MutationsStayInReach SharedEdgesStay OnlyOperatorsRaise NoPlanting EveryRequestAnswered ScopeIsKept
CHECK_DEADLOCK FALSE
