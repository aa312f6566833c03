---------------------------- MODULE ServiceLink -----------------------------
(***************************************************************************)
(* Which store a `dmem` command reaches: the config file that setup, login,*)
(* logout and `service install` write (src/src/config.rs, client.rs,       *)
(* setup.rs, service.rs), the service unit and the daemon that was started *)
(* from it.  DM_ENDPOINT, DM_TOKEN, DM_TENANT and DM_DATA_DIR are not set. *)
(***************************************************************************)
EXTENDS Naturals

CONSTANTS
  Addrs,      \* addresses the local daemon may listen on
  None,       \* no value: a key that is not set, a unit that is not there
  MaxToken    \* bound: tokens that gen_token mints, 1..MaxToken

(* A link names the server a command talks to; "far" is another machine.   *)
FarToken == 0
Tokens == 0..MaxToken
Links == [url : Addrs \cup {"far"}, token : Tokens, insecure : BOOLEAN]
Units == [addr : Addrs, token : Tokens, tenant : {"default", "acme"}, data : {"default", "custom"}]
Configs == [st : {"ok", "broken", "unread"}, data : {None, "custom"},
            tenant : {None, "default", "acme"},
            link : Links \cup {None}]
NoConfig == [st |-> "ok", data |-> None, tenant |-> None, link |-> None]

VARIABLES
  platform,   \* "macos" or "linux"
  cfg,        \* config.toml, and whether it is TOML ("ok"), something else ("broken"), or gone
              \* or out of reach ("unread")
  unit,       \* the LaunchAgent or systemd unit
  daemon,     \* the unit the running daemon was started from, or None
  writing,    \* a `service install` that started its service and has the config to write
  minted,     \* tokens minted
  connected,  \* history: the last command about it that ended told dmem to use a server
  given       \* history: what the last whole install set up, while no one changed the config
              \* since, nor installed without it
vars == <<platform, cfg, unit, daemon, writing, minted, connected, given>>

\* A config that is present and not TOML ends the command; it is never read as an empty one.
LoadsDefault == TRUE  \* mutant: a config that does not parse reads like none
Loads == cfg.st # "broken"

\* load_config of the others: one that is absent, or that the process may not read or decode,
\* reads like one without keys ("embedded fallback").
Config == IF cfg.st = "ok" THEN cfg ELSE NoConfig
DataDir == IF Config.data = None THEN "default" ELSE Config.data
Tenant == IF Config.tenant = None THEN "default" ELSE Config.tenant
ServerLink == Config.link

(* Where a save lands: the store of a tenant in a data directory, opened by *)
(* this process ("own") or by the daemon, the far server, or nowhere.       *)
Store(by, dir, tenant) == [by |-> by, dir |-> dir, tenant |-> tenant]
Nowhere == Store("nobody", None, None)
Far == Store("far", None, None)
Target ==
  IF ~Loads THEN Nowhere
  ELSE IF ServerLink = None THEN Store("own", DataDir, Tenant)
  ELSE IF ServerLink.insecure THEN Nowhere
  ELSE IF ServerLink.url = "far"
       THEN IF ServerLink.token = FarToken THEN Far ELSE Nowhere
  ELSE IF daemon # None /\ daemon.addr = ServerLink.url /\ daemon.token = ServerLink.token
       THEN Store("daemon", daemon.data, daemon.tenant)
  ELSE Nowhere

-----------------------------------------------------------------------------
Init ==
  /\ platform \in {"macos", "linux"}
  /\ cfg \in [st : {"ok"}, data : {None, "custom"}, tenant : {None, "acme"}, link : {None}]
               \cup {[NoConfig EXCEPT !.link = [url |-> "far", token |-> FarToken,
                                                insecure |-> TRUE]]}
  /\ unit = None /\ daemon = None /\ writing = None /\ minted = 0
  /\ connected = FALSE /\ given = None

\* The wizard writes a config of its own: what the old one held is gone.
Setup ==
  /\ writing = None
  /\ \/ \E t \in {"default", "acme"} : cfg' = [NoConfig EXCEPT !.tenant = t] /\ connected' = FALSE
     \/ /\ cfg' = [NoConfig EXCEPT !.link = [url |-> "far", token |-> FarToken, insecure |-> FALSE]]
        /\ connected' = TRUE
  /\ given' = None
  /\ UNCHANGED <<platform, unit, daemon, writing, minted>>

\* login keeps the other keys, of a config it can read and parse.
Login ==
  /\ writing = None
  /\ \E u \in Addrs \cup {"far"}, t \in 1..minted \cup {FarToken} :
       cfg' = [Config EXCEPT !.link = [url |-> u, token |-> t, insecure |-> FALSE]]
  /\ connected' = TRUE /\ given' = None
  /\ UNCHANGED <<platform, unit, daemon, writing, minted>>

\* logout leaves a config it cannot read or parse, and one without a link, as it is.  It
\* rewrites the file in place: killed there, it leaves an empty file, or one cut off, in the
\* middle of a character too.
Logout ==
  /\ writing = None /\ cfg.st = "ok" /\ cfg.link # None
  /\ \/ cfg' = [cfg EXCEPT !.link = None]
     \/ \E st \in {"ok", "broken", "unread"} : cfg' = [NoConfig EXCEPT !.st = st]
  /\ connected' = FALSE /\ given' = None
  /\ UNCHANGED <<platform, unit, daemon, writing, minted>>

\* An edit gone wrong; another owner or mode, bytes that are not UTF-8, a file moved away.
UserBreaks ==
  /\ writing = None /\ cfg.st = "ok" /\ cfg.link # None
  /\ \E st \in {"broken", "unread"} : cfg' = [cfg EXCEPT !.st = st]
  /\ UNCHANGED <<platform, unit, daemon, writing, minted, connected, given>>
UserRepairs ==
  /\ writing = None /\ cfg.st # "ok" /\ cfg' = [cfg EXCEPT !.st = "ok"]
  /\ UNCHANGED <<platform, unit, daemon, writing, minted, connected, given>>

-----------------------------------------------------------------------------
TokenAnew == minted + 1  \* mutant: every install mints a token
Token == IF ServerLink = None THEN minted + 1 ELSE ServerLink.token

\* launchd loads the agent anew; systemd starts the unit unless it runs already, and a daemon
\* that runs keeps the environment it was started with.
Started(u) == IF platform = "linux" /\ daemon # None THEN daemon ELSE u

\* `service install`: the unit is written and started; the command may fail there.  Of a config
\* it cannot read it takes neither the token nor the store.
Install(addr) ==
  /\ writing = None /\ Loads /\ (ServerLink = None => minted < MaxToken)
  /\ LET u == [addr |-> addr, token |-> Token, tenant |-> Tenant, data |-> DataDir] IN
       /\ unit' = u
       /\ \/ daemon' = Started(u) /\ writing' = u
          \/ daemon' \in {None, daemon} /\ writing' = None
  /\ minted' = IF ServerLink = None THEN minted + 1 ELSE minted
  /\ given' = IF cfg.st = "unread" THEN None ELSE given
  /\ UNCHANGED <<platform, cfg, connected>>

\* The config is written whole, with the tenant and the link and nothing else.
WriteServerConfigStale ==  \* mutant: the link of the first install
  /\ writing # None /\ minted > 0
  /\ cfg' = [NoConfig EXCEPT !.tenant = writing.tenant,
               !.link = [url |-> writing.addr, token |-> 1, insecure |-> FALSE]]
  /\ writing' = None /\ connected' = TRUE /\ given' = writing
  /\ UNCHANGED <<platform, unit, daemon, minted>>
WriteServerConfig ==
  /\ writing # None
  /\ cfg' = [NoConfig EXCEPT !.tenant = writing.tenant,
               !.link = [url |-> writing.addr, token |-> writing.token, insecure |-> FALSE]]
  /\ writing' = None /\ connected' = TRUE /\ given' = writing
  /\ UNCHANGED <<platform, unit, daemon, minted>>

InstallKilled ==
  /\ writing # None /\ writing' = None
  /\ UNCHANGED <<platform, cfg, unit, daemon, minted, connected, given>>

\* The config's link stays.
Uninstall ==
  /\ writing = None /\ unit # None
  /\ unit' = None /\ daemon' = None
  /\ UNCHANGED <<platform, cfg, writing, minted, connected, given>>

ServiceStart ==
  /\ writing = None /\ unit # None
  /\ daemon' = IF daemon = None THEN unit ELSE daemon
  /\ UNCHANGED <<platform, cfg, unit, writing, minted, connected, given>>
ServiceStop ==
  /\ writing = None /\ daemon # None /\ daemon' = None
  /\ UNCHANGED <<platform, cfg, unit, writing, minted, connected, given>>
\* `service restart`; a daemon that crashed comes back by KeepAlive or Restart=on-failure the
\* same way, from the unit as it is now.
ServiceRestart ==
  /\ unit # None /\ daemon' = unit
  /\ UNCHANGED <<platform, cfg, unit, writing, minted, connected, given>>

Next ==
  \/ Setup \/ Login \/ Logout \/ UserBreaks \/ UserRepairs
  \/ (\E a \in Addrs : Install(a)) \/ WriteServerConfig \/ InstallKilled
  \/ Uninstall \/ ServiceStart \/ ServiceStop \/ ServiceRestart

Spec == Init /\ [][Next]_vars

-----------------------------------------------------------------------------
\* Types of the config, the unit and the daemon (config.rs Config, service.rs platform).
TypeOK ==
  /\ cfg \in Configs /\ {unit, daemon, writing} \subseteq Units \cup {None}
  /\ minted \in 0..MaxToken /\ connected \in BOOLEAN /\ given \in Units \cup {None}

\* Once told to use a server, dmem writes to a store of its own only while its config is gone or
\* cannot be read: not when it is broken or replaced, nor once it is back, nor when the service
\* is stopped, moved or gone, or an install was killed.
NeverFallsBackToOwn == connected /\ Target.by = "own" => cfg.st = "unread"

\* After `service install`, as soon as the daemon runs the unit it wrote, a client reaches the
\* store the install named; under launchd at once, under systemd only after a restart when a
\* daemon was running already.
InstallConnects ==
  [][WriteServerConfig /\ (platform = "linux" => daemon = unit) /\ daemon # None =>
       Target' = Store("daemon", writing.data, writing.tenant)]_vars

\* The token that clients were given stays the service's through reinstalls, removals and
\* installs killed half-way, until someone logs in or out, runs the wizard, or installs while the
\* config cannot be read.
\* (The data directory does not: an install that names none goes back to the default.)
TokenKept == given # None /\ unit # None => unit.token = given.token
=============================================================================
