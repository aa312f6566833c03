------------------------------ MODULE MCVectors ------------------------------
(***************************************************************************)
(* The two sides of the vector index: how writes keep a record's slot      *)
(* (VectorSlots) and what a recall makes of the hits it reads              *)
(* (Retrieval).  They share no variable, so a behaviour is one of them:    *)
(* the one in `part`.                                                      *)
(***************************************************************************)
EXTENDS VectorSlots, TLC

CONSTANTS Parts  \* a subset of {"slots", "recall"}
ASSUME PartsAssumption == Parts \subseteq {"slots", "recall"}

VARIABLES
  part,
  indexed, gated, query, floored, ranked, near, held, edges, forgets,
  pc, kw, k, hits, channel, failed, seeds, front, next, hop, reached, checked, riders, links

reading == <<indexed, gated, query, floored, ranked, near, held, edges, forgets, pc, kw, k, hits,
             channel, failed, seeds, front, next, hop, reached, checked, riders, links>>

\* Seven versions of five uris; "f" never had a row, and is a skill.
R(u, s) == <<u, s>>
TheRecords ==
  {R("a", "shared"), R("a", "mine"), R("a", "other"), R("b", "other"), R("c", "shared"),
   R("d", "other"), R("e", "shared")}
Rank(r) == CASE r[2] = "other" -> 3 [] r[2] = "mine" -> 2 [] OTHER -> 1
IsNewer(r, s) == Rank(r) > Rank(s)
TheHeld ==
  {TheRecords \ {R("d", "other"), R("a", "mine")}, TheRecords \ {R("a", "other"), R("e", "shared")}}
\* The same record twice or more: several chunks of one body.
TheRankings ==
  {<<R("a", "other"), R("b", "other"), R("a", "shared"), R("a", "mine"), R("c", "shared")>>,
   <<R("b", "other"), R("b", "other"), R("a", "other"), R("a", "other"), R("c", "shared"),
     R("a", "mine")>>,
   <<R("b", "other"), R("b", "other"), R("b", "other"), R("b", "other"), R("c", "shared"),
     R("a", "mine")>>,
   <<R("b", "other"), R("d", "other"), R("a", "other"), R("e", "shared"), R("c", "shared")>>}
Asked(strong, weak, boot) == [strong |-> strong, weak |-> weak, boot |-> boot]
TheQueries ==
  {Asked({R("a", "shared"), R("b", "other")}, {R("c", "shared"), R("a", "mine")}, FALSE),
   Asked({}, {R("c", "shared"), R("a", "mine")}, FALSE), Asked({}, {}, TRUE)}
\* "x" is the end of edges only.
TheGraphs ==
  {{<<"a", "d">>, <<"d", "e">>, <<"c", "a">>},
   {<<"a", "x">>, <<"x", "e">>, <<"a", "e">>, <<"c", "b">>, <<"b", "f">>, <<"c", "e">>}}

\* The pool and the widening in small: two hits per slot asked for, five slots at most.
Recall == INSTANCE Retrieval WITH
  Record <- TheRecords, Skills <- {"f"}, Global <- "shared", Mine <- "mine",
  Held <- TheHeld, Rankings <- TheRankings, Queries <- TheQueries, Nears <- {0, 3},
  Graphs <- TheGraphs, Newer <- IsNewer, Limit <- 2, Depth <- 2, Pool <- 2, Over <- 2,
  MaxSlots <- 5, Cands <- 4, MaxForgets <- 1, todo <- front

RecallOff ==
  /\ indexed = None /\ gated = None /\ query = None /\ floored = None /\ ranked = None
  /\ near = None /\ held = None /\ edges = None /\ forgets = None /\ pc = None /\ kw = None
  /\ k = None
  /\ hits = None /\ channel = None /\ failed = None /\ seeds = None /\ front = None
  /\ next = None /\ hop = None /\ reached = None /\ checked = None /\ riders = None
  /\ links = None

\* VectorSlots stays at its Init while a recall is checked.
MCInit ==
  /\ part \in Parts /\ Init
  /\ IF part = "recall" THEN Recall!Init ELSE RecallOff
Writing == part = "slots" /\ Next /\ UNCHANGED <<part, reading>>
Reading == part = "recall" /\ Recall!Next /\ UNCHANGED <<part, vars>>
MCNext == Writing \/ Reading
MCSpec == MCInit /\ [][MCNext]_<<part, vars, reading>>

Symmetry == Permutations(Bodies)

-----------------------------------------------------------------------------
(* What the runs check.                                                    *)

\* A slot is behind its record only by what came after the re-embedder listed it; and no
\* write leaves a slot, or the failure it may owe, outside its domain.
BehindOnlyByRaces == TypeOK /\ RaceIsBounded

\* A vector channel that is short of hits has all those that its reader may see, a query
\* that nothing is near to injects nothing, each list keeps to its limit, and the neighbours
\* that ride along are the best of those that the reader sees.
FindsWhatItMaySee ==
  part = "recall" =>
    /\ Recall!TypeOK /\ Recall!ShortChannelIsComplete
    /\ Recall!OffTopicInjectsNothing /\ Recall!RidersAreTheBest

\* Nothing is shown that the reader's scope does not see, by a hit or by an edge.
NothingOfOthers == part = "recall" => Recall!NothingOfOthers

\* "searches again with a larger `k` until `pool` visible records resolve, the index runs
\* out, or `MAX_VECTOR_SLOTS` is reached".
ChannelIsComplete == part = "recall" => Recall!ChannelIsComplete
=============================================================================
