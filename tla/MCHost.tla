------------------------------- MODULE MCHost --------------------------------
(***************************************************************************)
(* What dmem does on a machine around the store: `bootstrap`, `service`    *)
(* and the client config, `upgrade`, `import`, `sync-skills`, and the      *)
(* readiness of a server.  They share no state, so one behaviour is one of *)
(* them: the one in `part`; the others' variables stay None, those of      *)
(* Upgrade as an install that nothing has touched.                         *)
(***************************************************************************)
EXTENDS Upgrade

CONSTANTS
  Parts,  \* those that this run checks
  None,
  Selections, MaxKills,                  \* AgentFiles
  Addrs, MaxToken,                       \* ServiceLink
  File, Texts, Blank, Places, MaxEvents, \* Imports
  Skill, Unsafe, Bodies,                 \* Skills
  Tenants, Prober, Followed, Ttl, MaxSlow \* Readiness

ASSUME PartsAssumption ==
  Parts \subseteq {"files", "service", "upgrade", "import", "skills", "ready"}
ASSUME SkillsAssumption == Unsafe \subseteq Skill
ASSUME ReadinessAssumption == Ttl \in Nat \ {0} /\ MaxSlow \in Nat /\ Followed \subseteq Prober

VARIABLES
  part,
  sel, had, live, back, soul, cmd, queue, todo, reg, start, told, last, nobak, kills,
  platform, cfg, unit, daemon, writing, minted, connected, given,
  disk, manifest, store, place, run, unsaved, calm, events,
  folder, remote, records, others, loaded, temp, job, left, listed,
  envonly, fault, since, vectors, waiting, started, draining, cache, lock, rest, probe,
  same, moment, panicked

files   == <<sel, had, live, back, soul, cmd, queue, todo, reg, start, told, last, nobak, kills>>
service == <<platform, cfg, unit, daemon, writing, minted, connected, given>>
import  == <<disk, manifest, store, place, run, unsaved, calm, events>>
skills  == <<folder, remote, records, others, loaded, temp, job, left, listed>>
ready   == <<envonly, fault, since, vectors, waiting, started, draining, cache, lock, rest,
             probe, same, moment, panicked>>

Files    == INSTANCE AgentFiles
ASSUME SelectionsAssumption == Selections \subseteq SUBSET Files!Agents /\ MaxKills \in Nat
Service  == INSTANCE ServiceLink
ASSUME VersionsAssumption == UpgradeConstants
Import   == INSTANCE Imports
Skilled  == INSTANCE Skills
Ready    == INSTANCE Readiness WITH todo <- waiting, calm <- rest
\* None is no text, link, unit, prober, tenant, fault or result; "far" is another machine.
ASSUME NoneAssumption ==
  /\ None \notin Texts \cup {Blank}
  /\ None \notin Service!Links \cup Service!Units /\ "far" \notin Addrs /\ MaxToken \in Nat
  /\ None \notin Prober \cup Tenants \cup Ready!Faults
  /\ None \notin [bad : SUBSET Ready!Faults, age : 0..Ttl]

FilesOff ==
  /\ sel = None /\ had = None /\ live = None /\ back = None /\ soul = None /\ cmd = None
  /\ queue = {} /\ todo = <<>> /\ reg = None /\ start = None /\ told = {} /\ last = None
  /\ nobak = None /\ kills = None
ServiceOff ==
  /\ platform = None /\ cfg = None /\ unit = None /\ daemon = None /\ writing = None
  /\ minted = None /\ connected = None /\ given = None
ImportOff ==
  /\ disk = None /\ manifest = None /\ store = None /\ place = None /\ run = [at |-> None]
  /\ unsaved = None /\ calm = None /\ events = None
SkilledOff ==
  /\ folder = None /\ remote = None /\ records = None /\ others = None /\ loaded = None
  /\ temp = None /\ job = None /\ left = None /\ listed = None
ReadyOff ==
  /\ envonly = None /\ fault = None /\ since = None /\ vectors = None /\ waiting = None
  /\ started = None /\ draining = None /\ cache = None /\ lock = None /\ rest = None
  /\ probe = [p \in Prober |-> [pc |-> None]] /\ same = None /\ moment = None /\ panicked = None

MCInit ==
  /\ part \in Parts
  /\ Init /\ (part # "upgrade" => ~marker)
  /\ IF part = "files" THEN Files!Init ELSE FilesOff
  /\ IF part = "service" THEN Service!Init ELSE ServiceOff
  /\ IF part = "import" THEN Import!Init ELSE ImportOff
  /\ IF part = "skills" THEN Skilled!Init ELSE SkilledOff
  /\ IF part = "ready" THEN Ready!Init ELSE ReadyOff

Bootstrapping ==
  /\ part = "files" /\ Files!Next
  /\ UNCHANGED <<part, service, vars, import, skills, ready>>
Serving ==
  /\ part = "service" /\ Service!Next
  /\ UNCHANGED <<part, files, vars, import, skills, ready>>
Upgrading ==
  /\ part = "upgrade" /\ Next
  /\ UNCHANGED <<part, files, service, import, skills, ready>>
Importing ==
  /\ part = "import" /\ Import!Next
  /\ UNCHANGED <<part, files, service, vars, skills, ready>>
Syncing ==
  /\ part = "skills" /\ Skilled!Next
  /\ UNCHANGED <<part, files, service, vars, import, ready>>
Probing ==
  /\ part = "ready" /\ Ready!Next
  /\ UNCHANGED <<part, files, service, vars, import, skills>>

MCNext ==
  \/ Bootstrapping \/ Serving \/ Upgrading \/ Importing \/ Syncing \/ Probing
MCSpec == MCInit /\ [][MCNext]_<<part, files, service, vars, import, skills, ready>>

-----------------------------------------------------------------------------
(* What the run checks, as the components' modules state it; of Upgrade,   *)
(* InstallsWhatItSaid.                                                     *)

\* bootstrap: a user's entries survive in the file or its .dmbak through any kill, and an
\* identity file that was cut off settles with the user's text.
UserEntriesSurvive ==
  part = "files" => Files!TypeOK /\ Files!UserEntriesSurvive /\ Files!SoulSettles

\* bootstrap: a run that ends has wired, or unwired, every file or says "(nothing was
\* changed)" and means it; run again it changes no file; and no agent is told to load a
\* plugin that is not there.
WiresOrSaysSo ==
  /\ Files!RerunChangesNothing /\ Files!EndsWired /\ Files!KeepsItsWord
  /\ Files!EnabledIsThere

\* service install and the client config: a client reaches the store that the install named,
\* keeps the token it was given, and writes to no store of its own instead, as long as its
\* config can be read.
ReachesItsStore ==
  /\ [](part = "service" =>
          Service!TypeOK /\ Service!NeverFallsBackToOwn /\ Service!TokenKept)
  /\ Service!InstallConnects

\* import and sync-skills: an import that ends has every file as it was read, while its
\* manifest can know; a sync that ends shows every title as it read a record of it, and agents
\* find whole skills only, whatever cuts it off.
CopiesAreWhole ==
  /\ [](part = "import" => Import!TypeOK) /\ Import!ImportIsWhole
  /\ [](part = "skills" => Skilled!LoadedIsWhole) /\ Skilled!SyncIsWhole

\* readyz: probes share one recent look at the disk, and "ready" is never said before the
\* start-up pass is over, nor after it unless it was true at one moment.
ReadyIsHonest ==
  /\ [](part = "ready" =>
          /\ Ready!TypeOK /\ Ready!DiskIsRecent
          /\ Ready!ReadyIsAfterThePass /\ Ready!LateReadyWasTrue)
  /\ Ready!OneRefreshPerTtl
=============================================================================
