------------------------------ MODULE Retrieval ------------------------------
(***************************************************************************)
(* One recall: the keyword and vector channels, the relevance floor, their *)
(* fusion, and the graph expansion that follows (src/src/tools.rs recall   *)
(* to links_within, sqlite.rs, store.rs neighbors_scored).  Each statement *)
(* reads the store as it is then; other processes forget records between   *)
(* them.  Scores are abstract: a channel's order, and what clears a floor. *)
(***************************************************************************)
EXTENDS Integers, FiniteSets, SequencesExt

CONSTANTS
  Record,    \* the records that ever had a row: <<uri, scope>>
  Skills,    \* the uris of kind skill
  Global, Mine,  \* a scope of everybody's, and the one a gated reader writes
  Held,      \* the records that may be live at the start: a set of sets
  Rankings,  \* the chunk hits of a query, best first: sequences of records
  Queries,   \* [strong, weak: records its words match; boot: it has no words]
  Nears,     \* how many chunk hits may clear the cosine floor
  Graphs,    \* sets of edges <<from, to>>; a uri may have no record
  Newer(_, _),  \* of two versions: the one written later
  Limit, Depth,
  Pool,      \* how many hits a channel is asked for (max(2 * limit, 10))
  Over,      \* chunk hits asked for per slot (8)
  MaxSlots,  \* MAX_VECTOR_SLOTS (1024)
  Cands,     \* how many neighbours a walk collects (4 * limit)
  MaxForgets \* bound: records forgotten while the recall runs

VARIABLES
  indexed,   \* its handle has a vector index
  gated,     \* the reader sees its own scope and Global only
  query, floored, ranked,
  near,      \* how many of the chunk hits clear the cosine floor
  held, edges, forgets,
  pc, kw, k, hits, channel, failed,
  seeds,     \* the records recalled, best first
  todo, next,  \* the walk: uris with their weight, of this hop and of the next
  hop, reached,  \* [uri -> [via, hop, score]]
  checked,   \* the neighbours hydration has come to
  riders, links
reader == <<indexed, gated, query, floored, ranked, near>>
channels == <<kw, k, hits, channel, failed>>
walk == <<todo, next, hop, reached>>
vars == <<reader, held, edges, forgets, pc, channels, seeds, walk, checked, riders, links>>

-----------------------------------------------------------------------------
(* What the reader may see.                                                *)

Uri(r) == r[1]
RowsOf(u) == {r \in Record : Uri(r) = u}
Sees(r) == ~gated \/ r[2] \in {Global, Mine}

\* The newest of a set of versions.
Newest(S) == CHOOSE r \in S : \A o \in S \ {r} : Newer(r, o)

\* Mutant: a uri without a live row is nobody's.
ScopeVisibleDead(u) ==
  \/ ~gated
  \/ LET live == RowsOf(u) \cap held IN live = {} \/ \E r \in live : Sees(r)

\* A live row it sees; else, when none is live, what the newest ever was; a uri
\* that never had a row is everybody's.
ScopeVisible(u) ==
  \/ ~gated
  \/ \E r \in RowsOf(u) \cap held : Sees(r)
  \/ RowsOf(u) \cap held = {} /\ (RowsOf(u) = {} \/ Sees(Newest(RowsOf(u))))

Touches(e, u) == u \in {e[1], e[2]}
\* edges_of: none of a uri the reader does not see, none to one.
Adjacent(u) ==
  IF ScopeVisible(u)
  THEN {v \in (UNION {{e[1], e[2]} : e \in {x \in edges : Touches(x, u)}}) \ {u} :
          ScopeVisible(v)}
  ELSE {}

-----------------------------------------------------------------------------
(* The two channels.                                                       *)

Init ==
  /\ indexed \in BOOLEAN /\ gated \in BOOLEAN /\ query \in Queries /\ floored \in BOOLEAN
  /\ ranked \in Rankings /\ near \in Nears \cap 0..Len(ranked)
  /\ held \in Held /\ edges \in Graphs /\ forgets = 0
  /\ pc = "keyword" /\ kw = {} /\ k = Pool /\ hits = <<>> /\ channel = <<>> /\ failed = FALSE
  /\ seeds = <<>> /\ todo = <<>> /\ next = <<>> /\ hop = 1 /\ reached = <<>>
  /\ checked = {} /\ riders = <<>> /\ links = {}

Recallable == {r \in held : Sees(r) /\ Uri(r) \notin Skills}

\* recall_scored: the best Pool live matches; without words, the recent records.
Keyword ==
  /\ pc = "keyword" /\ pc' = "search"
  /\ LET weak   == Recallable \cap (query.weak \ query.strong)
         found  == IF query.boot THEN Recallable ELSE Recallable \cap (query.strong \cup weak)
         better == IF query.boot THEN {} ELSE found \ weak
     IN kw' \in {S \in SUBSET found :
                   /\ Cardinality(S) = IF Cardinality(found) < Pool THEN Cardinality(found)
                                       ELSE Pool
                   /\ better \subseteq S \/ S \subseteq better}
  /\ UNCHANGED <<reader, held, edges, forgets, k, hits, channel, failed, seeds, walk,
                 checked, riders, links>>

FirstAt(r) == SelectInSeq(ranked, LAMBDA c : c = r)
\* The entries of s at the places I, in their order.
EntriesAt(s, I) == FlattenSeq([i \in DOMAIN s |-> IF i \in I THEN <<s[i]>> ELSE <<>>])
\* The chunk hits, collapsed to their slots: a slot's best chunk is its place.
Collapse(s) == EntriesAt(s, {i \in DOMAIN s : \A j \in 1..i - 1 : s[j] # s[i]})
AtMost(s, n) == SubSeq(s, 1, IF Len(s) < n THEN Len(s) ELSE n)
Search ==
  /\ pc = "search" /\ indexed /\ pc' = "resolve"
  /\ hits' = AtMost(Collapse(AtMost(ranked, Over * k)), k)
  /\ UNCHANGED <<reader, held, edges, forgets, kw, k, channel, failed, seeds, walk,
                 checked, riders, links>>

\* A search that fails, or no index: keyword results only.
SearchFails ==
  /\ pc = "search" /\ pc' = "fuse" /\ failed' = TRUE /\ channel' = <<>>
  /\ UNCHANGED <<reader, held, edges, forgets, kw, k, hits, seeds, walk, checked, riders, links>>

\* A slot whose record is not live, or that the reader does not see, drops out.
Resolved ==
  EntriesAt(hits, {i \in DOMAIN hits : hits[i] \in held /\ (hits[i] \in kw \/ Sees(hits[i]))})

\* Mutant: the index is taken for exhausted by what the reader sees of it.
EnoughSeen ==
  Len(Resolved) >= Pool \/ Len(Resolved) < k \/ k >= MaxSlots \/ ~gated
Enough ==
  Len(Resolved) >= Pool \/ Len(hits) < k \/ k >= MaxSlots \/ ~gated

Resolve ==
  /\ pc = "resolve"
  /\ IF Enough
     THEN pc' = "fuse" /\ channel' = AtMost(Resolved, Pool) /\ UNCHANGED k
     ELSE /\ pc' = "search" /\ k' = IF 4 * k < MaxSlots THEN 4 * k ELSE MaxSlots
          /\ UNCHANGED channel
  /\ UNCHANGED <<reader, held, edges, forgets, kw, hits, failed, seeds, walk,
                 checked, riders, links>>

-----------------------------------------------------------------------------
(* The floor and the fusion.                                               *)

Clears(r) == FirstAt(r) \in 1..near
\* The keyword gate: the hits far behind the best one drop out.  Without an index it is told
\* of uris, and a copy passes with another one of its title.
KeywordSurvivors ==
  LET strong == kw \cap query.strong
  IN IF query.boot \/ strong = {} THEN kw
     ELSE IF indexed THEN strong ELSE {r \in kw : \E s \in strong : Uri(s) = Uri(r)}
\* Mutant: a keyword hit passes the cosine floor.
SurvivorsEither == kw \cup {r \in ToSet(channel) : Clears(r)}
\* floor_survivors.  (The default relative gate of the cosine is implied by the
\* absolute one; the strong keyword hits are those that clear the relative gate.)
Survivors ==
  IF ~floored THEN kw \cup ToSet(channel)
  ELSE IF channel = <<>> THEN KeywordSurvivors
  ELSE {r \in ToSet(channel) : Clears(r)} \cup IF query.boot THEN kw ELSE {}

\* one_per_uri: the copy of the scope that the reader writes (of one that is not gated,
\* Global: no --scope is given here), else the newest.
Copy(S, u) ==
  LET own == <<u, IF gated THEN Mine ELSE Global>>
      of  == {r \in S : Uri(r) = u}
  IN IF own \in of THEN own ELSE Newest(of)
\* Mutant: each audience's copy is a candidate of its own.
EveryCopy(S) == S
OnePerUri(S) == {Copy(S, Uri(r)) : r \in S}

\* A seed weighs by its place; six is a number that the places divide.
Weight(i) == 6 \div i
\* The ranking is any (reciprocal ranks, nudged by importance and use), the limit exact.
Answers(best) ==
  LET n == IF Cardinality(best) < Limit THEN Cardinality(best) ELSE Limit
  IN {s \in [1..n -> best] : \A i, j \in 1..n : s[i] = s[j] => i = j}
Fuse ==
  /\ pc = "fuse"
  /\ seeds' \in Answers(OnePerUri({r \in Survivors : Uri(r) \notin Skills}))
  /\ IF Depth = 0 \/ seeds' = <<>>
     THEN pc' = "done" /\ UNCHANGED todo
     ELSE pc' = "walk" /\ todo' = [i \in DOMAIN seeds' |-> <<Uri(seeds'[i]), 2 * Weight(i)>>]
  /\ UNCHANGED <<reader, held, edges, forgets, channels, next, hop, reached,
                 checked, riders, links>>

-----------------------------------------------------------------------------
(* The walk, its hydration, and the links within.                          *)

SeedUris == {Uri(r) : r \in ToSet(seeds)}
\* One uri of the frontier: each neighbour is scored by its best arrival, and at
\* most Cands are collected.
Expand ==
  /\ pc = "walk" /\ todo # <<>>
  /\ LET u     == todo[1][1]
         score == todo[1][2] \div 2
         met   == Adjacent(u) \ SeedUris
         fresh == met \ DOMAIN reached
         room  == Cands - Cardinality(DOMAIN reached)
         n     == IF Cardinality(fresh) < room THEN Cardinality(fresh) ELSE room
         hit   == [via |-> u, hop |-> hop, score |-> score]
     IN \E new \in {S \in SUBSET fresh : Cardinality(S) = n} :
          /\ reached' = [v \in DOMAIN reached \cup new |->
                           IF v \in new THEN hit
                           ELSE IF v \in met /\ reached[v].score < score
                           THEN [hit EXCEPT !.hop = reached[v].hop] ELSE reached[v]]
          /\ next' = next \o SetToSeq({<<v, score>> : v \in new})
  /\ todo' = Tail(todo)
  /\ UNCHANGED <<reader, held, edges, forgets, pc, channels, seeds, hop, checked, riders, links>>

NextHop ==
  /\ pc = "walk" /\ todo = <<>>
  /\ IF next = <<>> \/ hop = Depth
     THEN pc' = "hydrate" /\ UNCHANGED <<todo, hop>>
     ELSE pc' = "walk" /\ todo' = next /\ hop' = hop + 1
  /\ next' = <<>>
  /\ UNCHANGED <<reader, held, edges, forgets, channels, seeds, reached, checked, riders, links>>

Left == DOMAIN reached \ checked
Before(u, v) ==
  \/ reached[u].score > reached[v].score
  \/ reached[u].score = reached[v].score /\ reached[u].hop < reached[v].hop

\* Mutant: a neighbour without a live record takes a place.
FilledByAll == Cardinality(checked) >= Limit
Filled == Len(riders) >= Limit

\* The best neighbour left, unless it is dead, invisible or a skill.
Hydrate ==
  /\ pc = "hydrate" /\ ~Filled
  /\ \E u \in Left :
       /\ \A v \in Left : ~Before(v, u)
       /\ checked' = checked \cup {u}
       /\ LET rows == {r \in RowsOf(u) \cap held : Sees(r)}
          IN riders' = IF rows = {} \/ u \in Skills THEN riders
                       ELSE Append(riders, Newest(rows))
  /\ UNCHANGED <<reader, held, edges, forgets, pc, channels, seeds, walk, links>>

LinksWithin ==
  /\ pc = "hydrate" /\ (Filled \/ Left = {}) /\ pc' = "done"
  /\ LET set == SeedUris \cup {Uri(r) : r \in ToSet(riders)}
     IN links' = {e \in edges : {e[1], e[2]} \subseteq set
                                  /\ (e[2] \in Adjacent(e[1]) \/ e[1] \in Adjacent(e[2]))}
  /\ UNCHANGED <<reader, held, edges, forgets, channels, seeds, walk, checked, riders>>

\* Another process forgets a record meanwhile; a uri's edges go with its last.
Forget ==
  /\ pc # "done" /\ forgets < MaxForgets /\ forgets' = forgets + 1
  /\ \E r \in held :
       /\ held' = held \ {r}
       /\ edges' = IF RowsOf(Uri(r)) \cap held = {r}
                   THEN {e \in edges : ~Touches(e, Uri(r))} ELSE edges
  /\ UNCHANGED <<reader, pc, channels, seeds, walk, checked, riders, links>>

Next ==
  \/ Keyword \/ Search \/ SearchFails \/ Resolve \/ Fuse
  \/ Expand \/ NextHop \/ Hydrate \/ LinksWithin \/ Forget
Spec == Init /\ [][Next]_vars

-----------------------------------------------------------------------------
(* Properties.                                                             *)

Uris == {Uri(r) : r \in Record} \cup UNION {{e[1], e[2]} : e \in UNION Graphs}
\* Every variable stays in its domain; a recall answers one copy of a uri, a
\* graph rides with what it was not asked for, and each list keeps to its limit.
TypeOK ==
  /\ held \subseteq Record /\ forgets \in 0..MaxForgets
  /\ pc \in {"keyword", "search", "resolve", "fuse", "walk", "hydrate", "done"}
  /\ kw \subseteq Record /\ Cardinality(kw) <= Pool
  /\ k \in {Pool} \cup (Pool..MaxSlots) /\ Len(hits) <= k /\ Len(channel) <= Pool
  /\ failed \in BOOLEAN
  /\ ToSet(hits) \cup ToSet(channel) \cup ToSet(seeds) \cup ToSet(riders) \subseteq Record
  /\ Len(seeds) <= Limit /\ Cardinality(SeedUris) = Len(seeds)
  /\ Len(riders) <= Limit /\ hop \in 1..(Depth + 1)
  /\ DOMAIN reached \subseteq Uris \ SeedUris /\ Cardinality(DOMAIN reached) <= Cands
  /\ checked \subseteq DOMAIN reached /\ {Uri(r) : r \in ToSet(riders)} \subseteq checked

\* What a gated reader's vector channel ought to have left out by now: nothing it
\* sees, unless the channel is full of better ones or the search came to its cap.
LeftOut(r) ==
  r \in held /\ Sees(r) /\ r \in ToSet(ranked) /\ r \notin ToSet(channel)
Complete ==
  \A r \in Record : LeftOut(r) =>
    \/ Len(channel) = Pool /\ \A c \in ToSet(channel) : FirstAt(c) < FirstAt(r)
    \/ k >= MaxSlots
Searched == pc \in {"fuse", "walk", "hydrate", "done"} /\ ~failed

\* The slots of other audiences, and of dead records, never crowd a reader's own out
\* of its vector channel: it is searched again until it is full, the index has no
\* more, or the cap is reached (vector_channel) - as documented, for all bodies.
ChannelIsComplete == Searched /\ gated => Complete

\* No body has more chunks among the hits than are asked for per slot.
ShortBodies ==
  \A r \in ToSet(ranked) :
    Cardinality({i \in 1..Len(ranked) : ranked[i] = r}) <= Over
\* The same, where no body spans more chunks than the index over-fetches per slot.
ShortChannelIsComplete == ShortBodies => ChannelIsComplete

\* A query far from everything injects nothing where the reader has a vector to
\* measure it by, whatever words it shares (floor_survivors), for short bodies: so
\* the search must find that vector among the others' slots.
OffTopicInjectsNothing ==
  /\ Searched /\ pc # "fuse" /\ floored /\ ~query.boot /\ near = 0 /\ ShortBodies
  /\ \E r \in held \cap ToSet(ranked) : Sees(r) /\ ((gated /\ k < MaxSlots) \/ FirstAt(r) <= Pool)
  => seeds = <<>>

\* A uri the reader may have heard of: a version of it was in sight, or it never had one.
Known(u) == RowsOf(u) = {} \/ \E r \in RowsOf(u) : Sees(r)
\* Nothing of another room's is recalled, rides, or is named as the way a rider was
\* reached or as the end of a link, live or dead, though records go in between.
NothingOfOthers ==
  /\ \A r \in ToSet(seeds) \cup ToSet(riders) : Sees(r)
  /\ \A u \in DOMAIN reached : Known(u) /\ Known(reached[u].via)
  /\ \A e \in links : Known(e[1]) /\ Known(e[2])

\* A live neighbour of a seed is left out only for as many riders that are at least as
\* near, or when the walk had collected all it may: dead uris, skills and records
\* forgotten on the way take no place (recall_expanded_graph).
RidersAreTheBest ==
  pc = "done" /\ Cardinality(DOMAIN reached) < Cands =>
    \A i \in DOMAIN seeds :
      \A u \in (Adjacent(Uri(seeds[i])) \cap {Uri(r) : r \in Recallable}) \ SeedUris :
        \/ Depth = 0
        \/ u \in {Uri(r) : r \in ToSet(riders)}
        \/ /\ Len(riders) = Limit
           /\ \A r \in ToSet(riders) : reached[Uri(r)].score >= Weight(i)
=============================================================================
