----------------------------- MODULE AgentFiles -----------------------------
(***************************************************************************)
(* `dmem bootstrap` (src/src/bootstrap.rs): the configuration files of     *)
(* other programs, live while they are edited, and the plugin trees beside *)
(* them.  An installer is the sequence of its steps; a step reads one file,*)
(* refuses it or gives up, copies it to <file>.dmbak and rewrites it.  A   *)
(* run wires (or with --remove unwires) the selected agents in run_mode's  *)
(* order, may be killed inside any write, and is repeated.                 *)
(***************************************************************************)
EXTENDS Naturals, Sequences, SequencesExt, FiniteSets

CONSTANTS
  Selections,   \* the sets of agents, of those installed, that a user passes flags for
  MaxKills      \* bound: runs that are killed

Order == <<"devin", "claude", "codex", "hermes", "opencode", "grok", "workbuddy", "desktop",
           "cowork">>
Agents == ToSet(Order)

(* A file holds the user's own entries or not (user), among them a hook     *)
(* group that also names the dmem binary (mixed), an entry of dmem under an *)
(* earlier path of the binary (moved) or of the first version (v1), ours    *)
(* copies of dmem's entry, and the flag that enables its plugin (on).       *)
States == {"absent", "ok", "broken", "torn"}
Contents == [st : States, user : BOOLEAN, mixed : BOOLEAN, moved : BOOLEAN,
             v1 : BOOLEAN, ours : 0..2, on : BOOLEAN]
Absent == [st |-> "absent", user |-> FALSE, mixed |-> FALSE, moved |-> FALSE,
           v1 |-> FALSE, ours |-> 0, on |-> FALSE]
Torn == [Absent EXCEPT !.st = "torn"]
Ok == [Absent EXCEPT !.st = "ok"]
Parses(c) == c.st \in {"absent", "ok"}

VARIABLES
  sel,    \* the agents selected; they do not change from run to run
  had,    \* files that held entries of the user at first
  live,   \* [file -> content]
  back,   \* its .dmbak
  soul,   \* the identity file (SOUL.md), as the sequence of its parts
  cmd,    \* "none", "install" or "remove"
  queue,  \* agents the run has still to come to
  todo,   \* steps of the current agent still to do
  reg,    \* the current agent registered its marketplace
  start,  \* what the current agent's files were when its turn began
  told,   \* agents the run said "(nothing was changed)" of
  last,   \* the command of the run that ended before this one, "none" if it did not end well
  nobak,  \* files whose backup copy failed
  kills
vars == <<sel, had, live, back, soul, cmd, queue, todo, reg, start, told, last, nobak, kills>>

Removing == cmd = "remove"
Copies(rm) == IF rm THEN 0 ELSE 1

-----------------------------------------------------------------------------
(* What each writer makes of a file it can read.                            *)

\* Hook lists are matched by the path of the binary inside the command: a group of the user
\* that mentions it goes with ours, an entry with an earlier path stays.
HooksTwice(c, rm) ==  \* mutant: nothing of ours is dropped first
  [c EXCEPT !.st = "ok", !.ours = IF rm THEN 0 ELSE c.ours + 1]
Hooks(c, rm) == [c EXCEPT !.st = "ok", !.mixed = FALSE, !.ours = Copies(rm)]

\* Tables and maps are matched by the key dmem: what any earlier version wrote is replaced.
DesktopEntry(c, rm) == [c EXCEPT !.st = "ok", !.moved = FALSE, !.ours = Copies(rm)]
CodexTables(c, rm) == [DesktopEntry(c, rm) EXCEPT !.v1 = FALSE]
\* The plugin list is matched by the file name dmem.ts.
OpencodeEntriesStay(c, rm) == DesktopEntry(c, FALSE)  \* mutant: --remove leaves the entry
OpencodeEntries(c, rm) == DesktopEntry(c, rm)
RegistryEntry(c, rm) == DesktopEntry(c, rm)
EnabledFlag(c, rm) == [c EXCEPT !.st = "ok", !.ours = Copies(rm), !.on = ~rm]
MarketEntry(c, rm) == DesktopEntry(c, rm)
PluginList(c, rm) == [c EXCEPT !.on = ~rm, !.v1 = c.v1 /\ rm]
HermesYaml(c, rm) == PluginList(Hooks(c, rm), rm)
WorkbuddySettingsBlind(c, rm) ==  \* mutant: enabled, registered or not
  [Hooks(c, rm) EXCEPT !.on = ~rm]
WorkbuddySettings(c, rm) == [Hooks(c, rm) EXCEPT !.on = ~rm /\ reg]
\* Not a file of anyone's to keep: what does not parse starts over empty.
Approvals(c, rm) ==
  IF Parses(c) THEN [c EXCEPT !.st = "ok", !.ours = Copies(rm)]
  ELSE [Ok EXCEPT !.ours = Copies(rm)]

Edited(f, c, rm) ==
  CASE f \in {"devin config", "settings"} -> Hooks(c, rm)
    [] f = "config.toml" -> CodexTables(c, rm)
    [] f = "config.yaml" -> HermesYaml(c, rm)
    [] f = "allowlist" -> Approvals(c, rm)
    [] f = "opencode.json" -> OpencodeEntries(c, rm)
    [] f = "marketplaces" -> MarketEntry(c, rm)
    [] f = "wbsettings" -> WorkbuddySettings(c, rm)
    [] f \in {"mcp.json", "desktop"} -> DesktopEntry(c, rm)
    [] f = "registry" -> RegistryEntry(c, rm)
    [] f = "cwsettings" -> EnabledFlag(c, rm)

\* The managed block of a markdown file, from the first BEGIN to the first END after it, is
\* taken out and the new one goes to the end of the file; without END there is no block.
UpsertAppends(s, block) == s \o block  \* mutant: the old block stays
Upsert(s, block) ==
  LET b == SelectInSeq(s, LAMBDA t : t = "BEGIN")
      e == SelectInSeq(s, LAMBDA t : t = "END")
      outside == IF 0 < b /\ b < e
                 THEN SubSeq(s, 1, b - 1) \o SubSeq(s, e + 1, Len(s)) ELSE s
  IN outside \o block
Persona == <<"BEGIN", "persona", "END">>

-----------------------------------------------------------------------------
(* The installers.  A step: the operation, the file, and whether a file that*)
(* does not parse ends the agent's turn with "(nothing was changed)".       *)

Step(op, f) == [op |-> op, f |-> f, ends |-> FALSE]
Merge(f) == [op |-> "merge", f |-> f, ends |-> TRUE]      \* parse, then back up and write
MergeOn(f) == [op |-> "merge", f |-> f, ends |-> FALSE]   \* a refusal only goes unsaid
Blind(f) == Step("blind", f)     \* back up, then parse; a file that does not parse is an error
Tree(f, rm) == Step(IF rm THEN "drop" ELSE "tree", f)
Cli(f) == Step("cli", f)         \* the agent's own `mcp add` or `plugin add`

DevinSteps(rm) == <<Merge("devin config"), Cli("devin mcp")>>
ClaudeSteps(rm) == <<Merge("settings"), Cli("claude mcp")>>
CodexTree(rm) == Tree("codex plugin", rm)
CodexSteps(rm) ==
  IF rm THEN <<Blind("config.toml"), Cli("codex cache"), CodexTree(rm)>>
  ELSE <<Blind("config.toml"), CodexTree(rm), Cli("codex cache")>>
HermesTree(rm) == Tree("hermes plugin", rm)
HermesSteps(rm) ==
  <<Blind("config.yaml"), Step("approve", "allowlist"), HermesTree(rm), Step("soul", "SOUL.md")>>
OpencodeSteps(rm) == <<Tree("dmem.ts", rm), MergeOn("opencode.json")>>
GrokSteps(rm) == <<Cli("grok mcp")>>
WorkbuddyTree(rm) == Tree("wb plugin", rm)
\* The turn of an app home; a plain CodeBuddy home has the last three steps.
WorkbuddySteps(rm) ==
  LET market == Step("market", "marketplaces")
      plugin == IF rm THEN <<market, WorkbuddyTree(rm)>> ELSE <<WorkbuddyTree(rm), market>>
  IN plugin \o <<Merge("wbsettings"), MergeOn("mcp.json"), Step("soul", "SOUL.md")>>
DesktopSteps(rm) == <<Merge("desktop")>>
CoworkTree(rm) == Tree("cw plugin", rm)
\* One workspace: both app files are read before anything of it is touched; a removal only
\* rewrites those that exist.
WorkspaceStepsTreeFirst(rm) ==  \* mutant: the tree is written before the files are read
  <<CoworkTree(rm), Step("check", "registry"), MergeOn("registry"), MergeOn("cwsettings")>>
WorkspaceSteps(rm) ==
  <<Step("check", "registry"), CoworkTree(rm)>> \o
  (IF rm THEN <<Step("ifthere", "registry"), Step("ifthere", "cwsettings")>>
   ELSE <<MergeOn("registry"), MergeOn("cwsettings")>>)
CoworkSteps(rm) ==
  IF rm THEN WorkspaceSteps(rm) \o <<Tree("cw zip", rm)>>
  ELSE (IF "desktop" \in sel THEN <<>> ELSE <<MergeOn("desktop")>>)
         \o <<Tree("cw zip", rm)>> \o WorkspaceSteps(rm)

Steps(a, rm) ==
  CASE a = "devin" -> DevinSteps(rm)
    [] a = "claude" -> ClaudeSteps(rm)
    [] a = "codex" -> CodexSteps(rm)
    [] a = "hermes" -> HermesSteps(rm)
    [] a = "opencode" -> OpencodeSteps(rm)
    [] a = "grok" -> GrokSteps(rm)
    [] a = "workbuddy" -> WorkbuddySteps(rm)
    [] a = "desktop" -> DesktopSteps(rm)
    [] a = "cowork" -> CoworkSteps(rm)

FilesOf(a) == {s.f : s \in ToSet(Steps(a, FALSE))} \cup
                (IF a = "cowork" THEN {"desktop"} ELSE {})
Selected == (UNION {FilesOf(a) : a \in sel}) \ {"SOUL.md"}
Clis == {"devin mcp", "claude mcp", "codex cache", "grok mcp"}
Trees == {"codex plugin", "hermes plugin", "dmem.ts", "wb plugin", "cw plugin", "cw zip"}
Configs == {"devin config", "settings", "config.toml", "config.yaml", "allowlist",
            "opencode.json", "marketplaces", "wbsettings", "mcp.json", "desktop", "registry",
            "cwsettings"}
Workspace == {"registry", "cw plugin", "cwsettings"}

-----------------------------------------------------------------------------
\* A user's files of any age: none, their own (with hooks that name the binary, or what an
\* earlier dmem left), or edited by hand into something that does not parse.
InitialConfigs(f) ==
  {[Ok EXCEPT !.user = TRUE], [Ok EXCEPT !.user = TRUE, !.st = "broken"]}
  \cup (IF f \in {"config.toml", "config.yaml"} THEN {[Ok EXCEPT !.user = TRUE, !.v1 = TRUE]}
        ELSE {Absent})
  \cup (IF f \in {"devin config", "settings"}
          THEN {[Ok EXCEPT !.user = TRUE, !.mixed = TRUE, !.moved = TRUE]} ELSE {})

Init ==
  /\ sel \in Selections
  /\ live \in {l \in [Selected -> UNION {InitialConfigs(f) : f \in Configs}] :
                 \A f \in Selected : l[f] \in IF f \in Configs THEN InitialConfigs(f)
                                              ELSE {Absent}}
  /\ had = {f \in Selected : live[f].user} /\ back = [f \in Selected |-> Absent]
  /\ soul \in IF sel \cap {"hermes", "workbuddy"} = {} THEN {<<>>}
              ELSE {<<>>, <<"mine">>, <<"mine">> \o Persona \o <<"also mine">>}
  /\ cmd = "none" /\ queue = {} /\ todo = <<>> /\ reg = FALSE
  /\ start = <<>> /\ told = {} /\ last = "none" /\ nobak = {} /\ kills = 0

Start(c) ==
  /\ cmd = "none"
  /\ cmd' = c /\ queue' = sel
  /\ last' = IF last = c THEN c ELSE "none"
  /\ UNCHANGED <<sel, had, live, back, soul, todo, reg, start, told, nobak, kills>>

\* The first of those to come.
Agent ==
  LET Place(a) == CHOOSE i \in DOMAIN Order : Order[i] = a
  IN CHOOSE a \in queue : \A b \in queue : Place(a) <= Place(b)

Turn ==
  /\ cmd # "none" /\ todo = <<>> /\ queue # {}
  /\ todo' = Steps(Agent, Removing)
  /\ start' = [f \in FilesOf(Agent) \cap Selected |-> live[f]]
  /\ UNCHANGED <<sel, had, live, back, soul, cmd, queue, reg, told, last, nobak, kills>>

EndTurn == queue' = queue \ {Agent} /\ start' = <<>> /\ reg' = FALSE
SameTurn == UNCHANGED <<queue, start, reg>>
Leave == todo' = <<>> /\ EndTurn
\* The step is done; after the last one the turn passes to the next agent.
Done == /\ todo' = Tail(todo)
        /\ IF Len(todo) = 1 THEN EndTurn ELSE SameTurn
\* An error is passed up and ends the run, for the agents after this one too.
GiveUp == /\ cmd' = "none" /\ todo' = <<>> /\ queue' = {} /\ last' = "none"
          /\ start' = <<>> /\ reg' = FALSE /\ told' = {}

Put(f, c) == live' = [live EXCEPT ![f] = c]
BackUp(f) == back' = IF live[f].st = "absent" THEN back ELSE [back EXCEPT ![f] = live[f]]

RefuseCopied(s) ==  \* mutant: the copy is made before the text is parsed
  /\ IF s.ends THEN Leave /\ told' = told \cup {Agent} ELSE Done /\ told' = told
  /\ BackUp(s.f) /\ live' = live
Refuse(s) ==
  /\ IF s.ends THEN Leave /\ told' = told \cup {Agent} ELSE Done /\ told' = told
  /\ UNCHANGED <<live, back>>

\* Strict JSON: read, refuse what does not parse, back up, write.
DoMerge(s) ==
  /\ s.op = "merge" /\ soul' = soul
  /\ IF Parses(live[s.f])
     THEN BackUp(s.f) /\ Put(s.f, Edited(s.f, live[s.f], Removing)) /\ Done /\ told' = told
     ELSE Refuse(s)
  /\ UNCHANGED <<cmd, last>>

DoMarket(s) ==
  /\ s.op = "market" /\ soul' = soul
  /\ reg' = Parses(live[s.f])
  /\ IF reg' THEN BackUp(s.f) /\ Put(s.f, Edited(s.f, live[s.f], Removing))
     ELSE UNCHANGED <<live, back>>
  /\ todo' = Tail(todo) /\ UNCHANGED <<queue, start, told, cmd, last>>

\* TOML and YAML: the copy is written before the text is parsed.
DoBlind(s) ==
  /\ s.op = "blind" /\ soul' = soul
  /\ IF live[s.f].st = "absent" THEN Leave /\ UNCHANGED <<live, back, told, cmd, last>>
     ELSE /\ BackUp(s.f)
          /\ IF Parses(live[s.f])
             THEN /\ Put(s.f, Edited(s.f, live[s.f], Removing))
                  /\ Done /\ UNCHANGED <<told, cmd, last>>
             ELSE GiveUp /\ UNCHANGED live

\* No backup, and nothing is refused.
DoApprove(s) ==
  /\ s.op = "approve"
  /\ Put(s.f, Approvals(live[s.f], Removing))
  /\ Done /\ UNCHANGED <<back, soul, told, cmd, last>>

DoCheck(s) ==
  /\ s.op = "check"
  /\ IF Parses(live["registry"]) /\ Parses(live["cwsettings"])
     THEN Done /\ told' = told
     ELSE /\ told' = told \cup {Agent}
          /\ IF Removing THEN todo' = <<Last(todo)>> /\ SameTurn ELSE Leave
  /\ UNCHANGED <<live, back, soul, cmd, last>>

DoIfThere(s) ==
  /\ s.op = "ifthere"
  /\ IF live[s.f].st = "absent" THEN UNCHANGED <<live, back>>
     ELSE BackUp(s.f) /\ Put(s.f, Edited(s.f, live[s.f], TRUE))
  /\ Done /\ UNCHANGED <<soul, told, cmd, last>>

\* A tree is written from scratch, and a removal takes all of it.
DoTree(s) ==
  /\ s.op \in {"tree", "drop"}
  /\ Put(s.f, IF s.op = "drop" THEN Absent ELSE [Ok EXCEPT !.ours = 1])
  /\ Done /\ UNCHANGED <<back, soul, told, cmd, last>>

\* The agent's program drops the entry and adds it; it may be missing, or refuse the addition.
DoCli(s) ==
  /\ s.op = "cli"
  /\ \E c \in {live[s.f], Absent} \cup (IF Removing THEN {} ELSE {[Ok EXCEPT !.ours = 1]}) :
       Put(s.f, c)
  /\ Done /\ UNCHANGED <<back, soul, told, cmd, last>>

\* The persona may not be there to be read (no records, no server): that is only reported.
DoSoul(s) ==
  /\ s.op = "soul"
  /\ \/ soul' = Upsert(soul, IF Removing THEN <<>> ELSE Persona)
     \/ ~Removing /\ soul' = soul
     \/ Agent = "workbuddy" /\ soul = <<>> /\ soul' = soul   \* a home without the file
  /\ Done /\ UNCHANGED <<live, back, told, cmd, last>>

Do ==
  /\ cmd # "none" /\ todo # <<>>
  /\ LET s == Head(todo) IN
       \/ DoMerge(s) \/ DoMarket(s) \/ DoBlind(s) \/ DoApprove(s) \/ DoCheck(s)
       \/ DoIfThere(s) \/ DoTree(s) \/ DoCli(s) \/ DoSoul(s)
  /\ UNCHANGED <<sel, had, nobak, kills>>

Finish ==
  /\ cmd # "none" /\ todo = <<>> /\ queue = {}
  /\ cmd' = "none" /\ last' = cmd /\ told' = {}
  /\ UNCHANGED <<sel, had, live, back, soul, queue, todo, reg, start, nobak, kills>>

-----------------------------------------------------------------------------
(* The process dies: in a write (fs::write cuts the file off first), in the *)
(* copy before it, or between two steps.                                    *)
Replaces == {"merge", "market", "ifthere"}     \* with a copy kept
Overwrites == {"approve", "tree", "drop"}      \* without
Kill == /\ cmd # "none" /\ todo # <<>> /\ kills < MaxKills
        /\ kills' = kills + 1 /\ GiveUp /\ UNCHANGED <<sel, had>>
Rewrites(s) ==
  \/ s.op \in Replaces /\ Parses(live[s.f]) /\ (s.op = "ifthere" => live[s.f].st # "absent")
  \/ s.op = "blind" /\ live[s.f].st = "ok"

DieWriting ==
  /\ Kill
  /\ LET s == Head(todo) IN
       /\ \/ Rewrites(s) /\ BackUp(s.f)
          \/ s.op \in Overwrites /\ back' = back
       /\ Put(s.f, Torn)
  /\ UNCHANGED <<soul, nobak>>

\* On a full disk the copy fails unnoticed (its result is dropped), and then the write.
DieCopying ==
  /\ Kill
  /\ LET s == Head(todo) IN
       /\ Rewrites(s) /\ live[s.f].st # "absent"
       /\ back' = [back EXCEPT ![s.f] = Torn]
       /\ \/ UNCHANGED <<live, nobak>>
          \/ Put(s.f, Torn) /\ nobak' = nobak \cup {s.f}
  /\ UNCHANGED soul

\* A managed block is written over a file no copy is kept of; what is cut off is gone.
DieInSoul ==
  /\ Kill /\ Head(todo).op = "soul"
  /\ LET new == Upsert(soul, IF Removing THEN <<>> ELSE Persona) IN
       \E n \in 0..Len(new) : soul' = SubSeq(new, 1, n)
  /\ UNCHANGED <<live, back, nobak>>

DieBetween == Kill /\ UNCHANGED <<live, back, soul, nobak>>

-----------------------------------------------------------------------------
\* Between runs the user puts a file right: from its backup, or by hand.
Repair(f) ==
  /\ cmd = "none" /\ f \in Configs
  /\ \/ live[f].st = "torn" /\ back[f].st = "ok" /\ Put(f, back[f])
     \/ live[f].st = "broken" /\ Put(f, [live[f] EXCEPT !.st = "ok"])
  /\ last' = "none"
  /\ UNCHANGED <<sel, had, back, soul, cmd, queue, todo, reg, start, told, nobak, kills>>

Next ==
  \/ \E c \in {"install", "remove"} : Start(c)
  \/ Turn \/ Do \/ Finish
  \/ DieWriting \/ DieCopying \/ DieInSoul \/ DieBetween
  \/ \E f \in Selected : Repair(f)

Spec == Init /\ [][Next]_vars

-----------------------------------------------------------------------------
(* What could go wrong.                                                     *)

\* Types: what every file, its copy and the run's position may be (bootstrap.rs as a whole).
TypeOK ==
  /\ sel \in Selections /\ {live, back} \subseteq [Selected -> Contents]
  /\ cmd \in {"none", "install", "remove"} /\ (todo # <<>> => queue # {})
  /\ nobak \subseteq Configs /\ told \subseteq sel /\ had \subseteq Selected

\* Whatever write the process died in, and however often bootstrap was run again over what it
\* left, the user's entries are in the file or in its .dmbak, unless the copy had failed.  Of
\* files that are parsed before they are copied: config.toml, config.yaml are copied first, and
\* the allowlist never.
UserEntriesSurvive ==
  \A f \in had \ (nobak \cup {"config.toml", "config.yaml", "allowlist"}) :
    live[f].user \/ back[f].user

\* A whole run after a whole run of the same command changes no file again: nothing is added
\* twice, whatever earlier versions and interrupted runs left (the agents' own registrations
\* may come and go).
RerunChangesNothing ==
  [][Do /\ last = cmd => \A f \in Selected \ Clis : live'[f] = live[f]]_vars

\* A run that comes to its end has wired, or unwired, every file of every selected agent,
\* whatever earlier runs were killed in: only what the user broke, and the rest of an agent
\* that was said to be left alone, is not.
EndsWired ==
  [][Finish => \A a \in sel \ told : \A f \in FilesOf(a) \ (Clis \cup {"SOUL.md"}) :
       \/ live[f].st \in {"broken", "torn"} /\ f \in Configs
       \/ f = "config.toml" /\ live[f].st = "absent"
       \/ live[f].ours = Copies(Removing)
       \/ f = "desktop" /\ a = "cowork" /\ Removing]_vars

\* "(nothing was changed)" is true: the agent's files are what they were when its turn began
\* (of a Cowork workspace, the workspace's).  WorkBuddy's turn says it after its plugin was
\* written and registered.
KeepsItsWord ==
  [][\A a \in (told' \ told) \ {"workbuddy"} :
       \A f \in (IF a = "cowork" THEN Workspace ELSE FilesOf(a) \ {"SOUL.md"}) :
         live'[f] = start[f]]_vars

\* What `dmem status` counts as a wired Cowork workspace.
CoworkWired ==
  /\ live["registry"].ours = 1 /\ live["cwsettings"].on
  /\ live["cw plugin"] = [Ok EXCEPT !.ours = 1]

\* After a whole run no agent is told to load a plugin that is not there: an enabled plugin of
\* WorkBuddy or Cowork is registered and its tree is whole.
EnabledIsThere ==
  [][Finish /\ ~Removing =>
       /\ ("workbuddy" \in sel \ told /\ live["wbsettings"].on /\ Parses(live["wbsettings"])
             => live["marketplaces"].ours = 1 /\ live["wb plugin"] = [Ok EXCEPT !.ours = 1])
       /\ ("cowork" \in sel \ told => CoworkWired)]_vars

\* What is the user's of an identity file, in its order.
Mine(s) ==
  LET I == {i \in DOMAIN s : s[i] \notin ToSet(Persona)}
  IN [n \in 1..Cardinality(I) |-> s[CHOOSE i \in I : Cardinality({j \in I : j <= i}) = n]]

\* The managed block of an identity file, cut off anywhere by a kill, is one whole block again
\* after two refreshes, and stays so; no refresh takes text of the user with it (text typed
\* after a block that was cut off would be: without END it is part of the block).
SoulSettles ==
  LET Again(s) == Upsert(s, Persona)
      settled == Again(Again(soul))
  IN /\ Again(settled) = settled /\ Mine(settled) = Mine(soul)
     /\ Cardinality({i \in DOMAIN settled : settled[i] = "BEGIN"}) = 1
=============================================================================
