# A formal model of dm-lite

dm-lite (`dmem`) is a typed memory engine in one Rust binary: a bitemporal
record store in SQLite, a vector index beside it, an engine that joins the two,
a multi-tenant HTTP server in front, a client, and the commands that wire all of
it into a machine. This directory holds TLA+ modules that model the parts of it
where order, interleaving, failure and access matter, the TLC runs that check
them, and proofs that TLAPS checks. Every definition is translated from the code
under `src/src/`; `PROJECT.json` maps each one to its lines.

    tlc -workers 2 -config MCStore_split.cfg MCStore     # one run
    tlapm BitemporalStoreProofs.tla                      # the proofs of one module

Contents: [inventory](#1-the-system), [modules](#2-the-modules),
[runs](#3-the-runs), [fairness](#4-fairness), [proofs](#5-the-proofs),
[divergences](#6-where-the-code-and-its-comments-differ),
[what is left out](#7-what-is-not-modelled), [plan](#8-plan).

## 1. The system

| Component | State it keeps | Operations | What is hard |
|---|---|---|---|
| `SqliteStore` (`sqlite.rs`) | versions of records on two time axes, the FTS table over the live ones, edges | `put`, `forget_in`, `invalidate_in`, `link`, `unlink`, `prune_dangling_edges`, `recall_as_of` | splitting intervals; the clock is read before the write lock is taken |
| `LocalMemory` (`tools.rs`) | one handle per tenant: store, index, the scope context of the caller | `remember`, `forget`, `invalidate`, `link`, imports, reindexing | the database commits first and the index follows, fail-open; guards over a context that is bound per call |
| `ZvecIndex` (`zvec_index.rs`) | a directory, a dirty marker, chunks per vector slot | open, probe in a child, quarantine, upsert (delete, then insert), flush, close | a damaged directory kills the process that opens it; one process at a time |
| open, migration and backfill (`tools.rs`, `server.rs`) | three marker files and two checkpoints beside the index | `open_vector_index`, `migrate_vector_slots`, `backfill_vectors`, `run_backfill` | a crash between any two file operations |
| `dmem serve` (`server.rs`) | a slot per tenant with its handle, save permits, `BACKFILLS`, retry list, `draining`, `closing` | `memory_for`, `on_tenant`, `reopen_for_vectors`, `reembed`, `close_tenants` | a heal replaces a handle that requests still hold; a stop beside a backfill; few permits shared with the re-embedder |
| scope binding (`server.rs`, `tools.rs`) | what a token and its headers entitle the call to | `scope_binding`, the mutation guards, the read gates | one handle serves everybody in turn, and a panic skips the reset |
| IAM (`iam.rs`) | tenants, tokens, admin tokens, the write-scope policy | registration and rotation of `DM_ADMIN_TOKEN`, create, mint, revoke, remove, resolve | each statement is a transaction of its own |
| routes and MCP (`server.rs`, `mcp.rs`) | a request: what it will embed, its place before the tenant lock, its reply | every member route, `tools_call`, `get_prompt`, stdio framing | the texts are planned before the lock and used under it; panics and a stop meet those that wait |
| readiness (`server.rs`) | the disk verdict and its age, the start-up pass, each tenant's index | `/readyz`, `io_checks`, `PassDone` | probes that share one look, and read the rest at different moments |
| start-up (`server.rs`, `iam.rs`) | the options, the environment's secrets, `admin.token` | `run_blocking` up to the bound port | several starts over one directory; the order of checks and side effects |
| recall (`tools.rs`, `sqlite.rs`) | two channels of hits, the walk over edges | keyword and vector search, floor, fusion, expansion, links | others' slots crowd a reader's; records go between the statements |
| remote client (`client.rs`) | what it was told of the server | save, retract, batch and recall under `--scope` | a server of another version, replaced between two requests |
| bootstrap (`bootstrap.rs`) | the files of each agent, and a `.dmbak` of each | wire, unwire, repeat | killed inside any write; one file of an agent is broken |
| setup, service, login, logout (`setup.rs`, `service.rs`, `config.rs`) | config file, service unit, running daemon | wizard, install, start, stop, remove | the three disagree |
| upgrade and fence (`upgrade.rs`, `fence.rs`) | the installed binary and library | pick, download, verify, replace | releases and other upgrades come in between |
| importers (`main.rs`, `migrate.rs`) | a manifest of what was imported | import a folder, migrate an export | the manifest and the store part ways |
| skills (`skills.rs`) | skill files an agent loads | import, sync | killed between write and rename |
| embedder, metrics, rendering, UI, hooks, TLS loop, command line | little or none | text, numbers, glue | see [section 7](#7-what-is-not-modelled) |

How they interact. An HTTP handler resolves its token in `iam.db`, derives a
scope binding, gets the tenant's handle from `memory_for`, embeds under one of
the process's few save permits, takes the tenant lock (`on_tenant`), binds its
context to the handle, runs one
`LocalMemory` call and resets the context. `LocalMemory` commits to
`SqliteStore` and then rewrites the record's vector slot in `ZvecIndex`, whose
errors it logs and swallows. One background thread of the server opens tenants
at start-up and retries the vector indexes that did not open. Re-embedding runs
on its own database connection and without the tenant lock. A local `dmem`
command opens the same files beside a server; zvec's own lock keeps it off the
index. `SIGTERM` sets `draining`, then `close_tenants` sets `closing`, waits for
backfills, and flushes and closes each index.

What makes each part correct:

- **Store.** A record has one body at an instant; the keyword index is exact;
  nothing recorded is overwritten; the past, once over, does not change; edges
  live as long as a holder of each endpoint does.
- **Slots.** Whatever fails, a slot is as new as its record, or known not to be.
- **Index.** It is never opened damaged, never taken from who uses it, and never
  serves incomplete without a backfill that will run.
- **Server.** What an outage left out is made up for; nothing is written after
  the final flush; no stop cuts a record in half; no request waits for ever.
- **Access.** A call reads and changes what its token entitles it to, whoever
  had the handle before.
- **IAM.** Revoked stays revoked, created works, the policy holds from the next
  request on.
- **Requests.** A save, a recall or a prompt runs the model before the tenant
  lock, not under it (a retraction re-embeds what its record is left with under
  it: nobody knows that text earlier); a refusal changes nothing; every request is
  answered.
- **Recall.** What a reader may see is found behind what it may not, and nothing
  of the latter shows, by a hit or by an edge.
- **Client.** Nothing is reported as done that landed in another scope.
- **Start.** No start listens in the clear unasked, confuses two secrets, or
  mints a token nobody learns.
- **The machine.** The user's entries survive; a command that says it changed
  nothing did not; a client told to use a server does not open a store of its own
  as long as the file that tells it can be read; what is installed is what was
  announced.

The hazards that follow from this, each at its line, are in `PROJECT.json`.

## 2. The modules

| Module | Models | Checked by |
|---|---|---|
| `Timeline` | the abstract promise of the store: a belief per record and instant | `MCStore` (refinement) |
| `BitemporalStore` | `SqliteStore` | `MCStore` |
| `VectorSlots` | the slots of one uri beside its live rows; requests, re-embedder, crashes | `MCVectors`, part `slots` |
| `Retrieval` | one recall, and the records that go while it runs | `MCVectors`, part `recall` |
| `IndexLifecycle` | the index directory and its marker files, through process lives | `MCIndex`; `MCServe`, part `index` |
| `TenantServer` | the threads of one tenant of the server | `MCServe`, part `tenant` |
| `ScopeAccess` | bindings, guards and read gates | `MCScope` under `MCRequests`, part `access` |
| `Dispatch` | a request from its extractor to its reply, HTTP and stdio | `MCRequests`, part `route` |
| `ScopedClient` | an invocation of the remote client | `MCRequests`, part `client` |
| `Iam` | tenants, tokens and requests, statement by statement | `MCIam`, part `admin` |
| `StartUp` | what a start checks, makes and tells before it listens | `MCIam`, part `start` |
| `AgentFiles` | `dmem bootstrap` | `MCHost`, part `files` |
| `ServiceLink` | config, unit and daemon | `MCHost`, part `service` |
| `Upgrade` | `dmem upgrade` and the fence | `MCHost`, part `upgrade` |
| `Imports` | `dmem import`, `dmem migrate` | `MCHost`, part `import` |
| `Skills` | `dmem skills` | `MCHost`, part `skills` |
| `Readiness` | `/readyz` | `MCHost`, part `ready` |
| `BitemporalStoreProofs` | theorems about the store | TLAPS |
| `VectorProofs`, `RetrievalProofs` | theorems about the slots and about a recall | TLAPS |
| `IndexProofs`, `TenantServerProofs` | theorems about the index directory, and about a served tenant and its index | TLAPS |
| `RequestProofs` | theorems about access, dispatch and the remote client | TLAPS |
| `IamProofs`, `HostProofs` | theorems about IAM and starts, and about what runs on a machine | TLAPS |

An MC module gives constants, symmetry sets and bounds. `MCVectors`, `MCServe`,
`MCRequests`, `MCIam` and `MCHost` each check components that share no variable
in one run: the variable `part` names the one that moves, chosen by the initial
state, and the others stay where they started. Nothing is composed that way; it
is one state graph per component. They also join related properties of a
component under one name (section 3).

Operators whose comment says *mutant* are wrong on purpose: each is a variant of
the definition after it with one plausible slip (a dropped guard, a missing
reset, an off-by-one). No specification uses them. `PROJECT.json` pairs each with
a property that catches it, as evidence that the property, or the clause of it
that the mutant is about, can fail.

### BitemporalStore

A row is `[uri, scope, body, vf, vt, sf, st, tx]`: valid time `vf..vt`, system
time `sf..st`, `Open` for a NULL end. The rowid is `RowId(r)`, made of the
record, the inserting transaction and `vf`; that this names a row is a lemma
(`RowIdentity`), not an assumption.

| Code | Model |
|---|---|
| `put` | `Put`: `AlreadyBelieved` is the idempotence test, `Overlaps` is `intervals_overlap`, `Left`/`Right` the remainders, `Replace` the `close_version` and `insert_version` statements with their `entries_fts` writes |
| `forget_in`, `invalidate_in` | `ForgetIn`, `InvalidateIn`; `Reaches` is the scope argument (`Some(s)`, or `None` for all) |
| `delete_edges_of` when the last live row goes | `Cascade` |
| `link`, `unlink`, `prune_dangling_edges` | `Link`, `Unlink`, `PruneDanglingEdges` |
| `let now = now_ms()` before `BEGIN IMMEDIATE` | `Stamp`, a step of its own; `Abandon` when the lock wait or the transaction fails |
| `recall_as_of` | `AsOf` |

`Timeline` says what a caller is promised without any row: `Assert` an interval
of one record, `Retract` records, `EndAt` a cut. `Believed` is the refinement
mapping, from live rows to the set of believed (uri, scope, instant, body).

### VectorSlots

One uri, with a slot per scope. `segs[s]` lists the live rows of a record in
insertion order, so `Newest` is `newest_live`. `slot[s]` is the set of bodies a
slot has chunks of. `SaveEntry`, `Forget` and `Invalidate` commit and queue slot
work (`Resync` is `mutation_slots` with `resync_vector_slots`), which `NextSlot`
takes up. `Clear` and `Insert` are the two halves of `upsert_chunks`;
`IndexError` and `Crash` end them early. `HealGlobal`, `ListScopes`, `HealScope`
and `HealDone` are `resync_uri_vectors` on the re-embedder's connection, without
the tenant lock. The history variable `since` holds, per record, the bodies that
have been its newest since the re-embedder last read it. It is per record, and
not reset for all when a re-embedding begins, for a reason a second re-embedding
shows: a record forgotten while the first inserts its body leaves a slot that no
record owns, and the next re-embedding, which lists live records only
(`ListScopes`), does not come to it. `Insert` over chunks the other actor put there is left to zvec:
either outcome.

### IndexLifecycle

The state is the directory's condition, the uris with vectors in it, the files
`.dirty`, `.scope-slots`, `.backfill` and the two `.progress` checkpoints, and
each process's phase in `open_vector_index`. Each file operation is a step;
`Crash` may fall between any two, and leaves the directory whole, torn (which
its file sizes show) or damaged (which they do not), with or without the
unflushed vectors. `MayFail` names the operations that may return an error. The
history variable `excused` holds the uris a failure left out for good; the two
completeness properties are about the rest, and `MarkerOutlastsRun` is the one
that does not excuse.

### TenantServer

Actors are threads and a step is what one does between lock operations. `slotLock`
is the tenant's slot, held through an open; `lock[h]` is the lock of handle `h`,
keyword-only or with vectors. The history variable `late` records that a bounded
wait (`HEAL_DRAIN`, the grace, the close budget) ran out, after which the code
itself promises less. Records are numbered in save order, so `retry` is the
moment `note_vectors` stored. The registration of a full backfill by
`reopen_for_vectors` is one step with the reopen. `permits` is the pool of save
permits: a request holds one while it embeds (`TakePermit` to `Embedded`), and a
re-embedding thread from `TakeRecord`, taken after it looked at the record
(`BeginRecord`), over `DeleteOld` to `InsertNew`.

### ScopeAccess

`Binding` is `scope_binding` for full, scoped and adapter tokens; `ctx` the
context on the shared handle; `Bind`, an operation, then `Reset` or `Panic` a
request. Each operation has the guards of its engine call in their order.
`MayWrite`, `MayRead` and `MayTouch` state the entitlement separately, from the
token and headers and not from the context, so the properties compare the two.
A record is held or not (its versions are `BitemporalStore`'s), and a header
that cannot be used, which is answered 400 before anything happens, is not a
call.

### Iam

Each handler's operation is a list of the statements it has still to run, and
other actors' statements come between. A restart ends what runs. A request reads
its token, its tenant's status and the policy in three steps. `decided`,
`removed`, `owed`, `env` and `cut` are history variables that record what an
admin was told.

### Retrieval

One recall is `Keyword`, `Search` (widened for a gated reader until `Enough`),
`Resolve`, `Fuse`, then `Expand`/`NextHop`, `Hydrate` and `LinksWithin`; each
reads the store as it then is, and `Forget` comes between. Scores are abstract: a
channel is an order, and `near` says how many slots are near enough to clear the
cosine floor. `ranked` repeats a record once per chunk, so that `Over`, the
eight chunk hits asked for per slot, can be too few. Without an index (`indexed`)
there is no vector channel, and the keyword floor is by uri. `Copy` is the row of a
uri that a reader is shown: that of its write scope if there is one (the global one
for a reader without a gate), else the newest it may see.

### Dispatch

`Arrive` brings a request of any kind, REST, HTTP `/mcp` or stdio; `Step` goes
through `Auth`, `Open` (the tenant), `PreEmbed`, `Take` (the lock), then `Run`, and
`TooLate` (a stop, or a lock that a panic poisoned) or `Panic` instead. `Plan` is
the route's choice of texts before the lock (`embed_plan`, `embed_for`), `Uses` the
engine's under it; the two are translated from different code on purpose, as
`LockIsShort` is about their agreement. A retraction is planned nothing: the
`Remnant`, the body of the row that is its record's newest once the retraction has
committed, is embedded under the lock if it is another than before (`cut`). `Heal` gives the
tenant an index between any two steps, `Close` begins a stop, a panic poisons the
lock.

### ScopedClient

`Open` decides local or remote, `Ask` is the probe of the server, `Call`, `Send`,
`Hear` or `Miss` a request and its answer or loss, `Show` what the user is told.
`Swap` replaces the server by one of four versions, told apart by what they know
of scope headers and of split recall replies.

### StartUp

The steps of `run_blocking` in their order, each start of `Server` on its own:
options (`Begin`), secrets, model, `iam.db`, the bootstrap token (`Look`, `Mint`,
`Tell`), TLS, the port. `shadow`, `seen`, `made` and `cut` are history variables.

### Readiness

`ListKnown`, `OpenKnown`, `Started` are the start-up pass; a probe is `Arrive`,
`Cached` or `Refresh`/`Probed`, then the vectors, `started` and `draining` read
one after the other, then `Answer`. Time is ticks: `Ttl` is the two seconds a
verdict is reused, a refresh may take up to `MaxSlow`.

### AgentFiles

An installer is the sequence of its steps (`Steps`), a step one file. A file has a
condition (`absent`, `ok`, `broken` by the user, `torn` by a kill), the user's
entries, ours (counted, so that one too many shows) and what earlier versions
left. `Start`, `Turn` (the next agent), `Do` (a step), `Finish`; `DieWriting`,
`DieCopying`, `DieInSoul`, `DieBetween` are the kills. `SOUL.md` is a sequence of
lines, because its managed block is found by its marks.

### ServiceLink, Upgrade, Imports, Skills

Each operation of the commands is one action, or one per file it writes where a
kill between two matters. `ServiceLink`'s `Target` is the store that
`server_link`, `data_dir` and `tenant` lead a client to; a config can be one that
does not parse, at which dmem exits, or one that cannot be read, which is as none
(`Config`). In `Upgrade` a release
is an archive and a signature, either missing, tampered with or another
release's. `Imports` has the store as what the importer put there, keyed by place
and file; a line of `dmem migrate` (`MigrateLine`) is there for what it does to those
records. `Skills` has `temp` for the file beside the target, and `others` for the
skill records of a title besides the one an import addresses: a title is one file,
whatever the namespaces and scopes of its records.

## 3. The runs

| Run | Question | Bounds | Result |
|---|---|---|---|
| `store_split` | do splits and closings keep one body per instant, an exact keyword index, and implement `Timeline`? | 1 uri, 2 scopes, 2 bodies, 3 instants, 4 writes | holds |
| `store_clock` | is the past settled and append-only with stamps taken before the lock; do edges follow the last holder? | 2 uris, 2 scopes, 2 connections, clock to 2, 3 writes | holds |
| `vectors` | is a quiet slot the newest live body, and the race with the re-embedder bounded; does a recall find what its reader may see, and nothing else? | slots: 2 scopes, 2 bodies, 3 instants, 3 writes, 2 re-embeddings, 1 fault; recall: 7 versions of 5 uris, 4 rankings, 2 graphs, 2 hits asked for per slot, 1 forget | holds |
| `slots_past` | is the slot the *current* version, as `save_entry`'s comment says? | callers name the interval, 2 writes | violated |
| `crowded_recall` | is a channel complete for bodies of any length? | as `vectors` | violated |
| `serve_outages` | do outages heal, does a stop end cleanly, does every request come back; does a server killed or powered off ever open damage, or stay incomplete? | 2 requests, up to 3 records (none arrives once there are 2), 1 save permit, either setting of `DM_REQUIRE_VECTORS`, waits may run out; 3 uris, 2 crashes, 1 error, 3 starts | holds |
| `index_beside` | does a command beside a server leave its index alone; is an open index marked; does an interrupted migration or backfill resume? | 3 uris, 2 processes, 10 failing operations, 1 crash that may leave damage, 1 error, 4 starts, no open beside a quarantine (`Apart`) | holds |
| `index_bgerror` | is the marker removed only after a complete run? | 1 error, no crash | violated |
| `requests` | do reads and mutations stay within the token; is the model kept from under the lock by saves, recalls and prompts, and every request answered; is `--scope` kept? | access: 2 uris (one in an agent's tree), 2 rooms, 2 agents, 29 kinds of call; routes: 2 clients, one of them any request, one a save; client: 2 records, 2 scopes, 4 versions of server, 1 replacement | holds |
| `iam_admin` | do interleaved admin statements, requests and restarts keep revocation, creation and policy; is a start safe? | 1 tenant, 2 tokens, 2 handlers, 4 operations, 3 starts; 2 starts over one directory, any options | holds |
| `iam_rotate` | does the current `DM_ADMIN_TOKEN` work? | 2 values, 4 starts | violated |
| `host` | bootstrap, service, upgrade, import, skills, readiness: is a command killed half-way or overlapped taken up right, and does it say what it did? | every agent or pair that shares a file, 1 kill; 2 addresses; 3 versions, 2 upgrades; 2 files, 2 places, 2 events; 2 skills; 2 probes, 1 slow tick | holds |

Some properties of a run join several of one component (`/\`), each of which is a
definition with its own comment:

| Property | Joins |
|---|---|
| `BehindOnlyByRaces` | `VectorSlots`: `TypeOK`, `RaceIsBounded` |
| `FindsWhatItMaySee` | `Retrieval`: `TypeOK`, `ShortChannelIsComplete`, `OffTopicInjectsNothing`, `RidersAreTheBest` |
| `CompleteOnceHealed` | `TenantServer`: `TypeOK`, `HealedIsComplete` |
| `StopIsClean` | `TenantServer`: `NothingAfterFlush`, `BackfillsAreWhole` |
| `MarkedWhileOpen` | `IndexLifecycle`: `TypeOK`, `OpenIsMarked` |
| `LockIsShort` | `Dispatch`: `TypeOK`, `LockIsShort`, `ModelIsForMembers` |
| `EveryRequestAnswered` | `Dispatch`: `RefusedChangesNothing`, `EveryRequestAnswered` |
| `ScopeIsKept` | `ScopedClient`: `TypeOK`, `RefusalIsWhole`, `SavedWhereAsked`, `RetractedWhereAsked`, `SkewLosesNothing` |
| `StartIsSafe` | `StartUp`: `TypeOK`, `ClearOnlyWhereAllowed`, `SecretsAreTheirOwn`, `EarlyRefusalLeavesNothing`, `RootIsKnown` |
| `UserEntriesSurvive` | `AgentFiles`: `TypeOK`, `UserEntriesSurvive`, `SoulSettles` |
| `WiresOrSaysSo` | `AgentFiles`: `RerunChangesNothing`, `EndsWired`, `KeepsItsWord`, `EnabledIsThere` |
| `ReachesItsStore` | `ServiceLink`: `TypeOK`, `NeverFallsBackToOwn`, `TokenKept`, `InstallConnects` |
| `InstallsWhatItSaid` | `Upgrade`: `TypeOK`, `SaysWhatItInstalls`, `FencedChangesNothing`, `NeverDowngrades` |
| `CopiesAreWhole` | `Imports`: `TypeOK`, `ImportIsWhole`; `Skills`: `LoadedIsWhole`, `SyncIsWhole` |
| `ReadyIsHonest` | `Readiness`: `TypeOK`, `DiskIsRecent`, `OneRefreshPerTtl`, `ReadyIsAfterThePass`, `LateReadyWasTrue` |

What each property says is in the comment before it. Why the bounds suffice:

- **Store.** A write touches the segments of one record, and a segment is cut at
  most twice, so three instants and an open end give every relative position of
  two intervals (disjoint, touching, nested, crossing, equal). Four writes build
  three segments and cut across them. Two connections are enough for stamps out
  of order; two related uris in two scopes are enough for an edge whose endpoint
  one scope leaves and the other holds. For the rest see the proofs.
- **Slots.** A global slot and a scoped one are the two paths of
  `resync_uri_vectors`; a superseding body and a superseded one that comes back
  are two, and the second re-embedding meets what the first has left behind.
  `vectors` has saves that are open-ended, as `import_record_at` and the
  plain calls make them; the named intervals are `slots_past`.
- **Index.** Three uris, two of them scoped, put one before, one at and one after
  any checkpoint. Two crashes and a third start cover a crash during the recovery
  of a crash. Crash points leave out the instants between creating the directory
  and marking it, and `Apart` leaves out an open of the index between another
  process's verdict of damage and the end of that one's quarantine: there the
  code breaks `InUseIsKept` and `MarkedWhileOpen` (section 6).
- **Server.** Two requests are what is needed for one to hold a replaced handle
  while another uses the new one; a record of before, one during the outage and one
  that follows the listing make three. One save permit, fewer than the code's pool,
  is the case in which each holder can starve the others.
- **Access.** Two rooms separate granted from written from neither; two agents,
  the owner of a tree from another.
- **Recall.** Three of seven versions are another room's; the rankings put them
  before every record of the reader, once, twice, and four times where two hits
  are asked for per slot. Five uris make walks of two hops with a dead end, a
  skill and another room's node on the way.
- **Routes.** What a client's request meets from others is the lock, the poison, the
  stop and the heal; one other client gives all of them.
- **Client.** One replacement falls between any two requests of an invocation,
  its probe included, and to or from any of the versions.
- **Start.** Two starts are what a race for the first token needs. Environments
  have one or two variables, in either order: a clash is between two.
- **Machine.** Agents that share no file do not meet, hence the pairs. A kill, then
  runs until one is whole, is the cycle that repeats. Three versions, one of them a
  release candidate, give a newest, a newest of the channel and an older one.
- **IAM.** Two handlers and one request are the pairs of the races; two tokens
  tell the one retracted from the one created after. Three starts have one
  without `DM_ADMIN_TOKEN` between two with it.

`CHECK_DEADLOCK FALSE` is set where the bound on starts, writes or operations ends
the behaviour, or a stopped server, an answered request, an ended invocation or a
finished recall does nothing more.

## 4. Fairness

Three modules state any. In `IndexLifecycle` a process weakly fairly runs its
straight-line code (`Opening`, `Backfilling`, the return of a flush) and a
stopped one is started again, as a service manager does with `dmem serve`;
saves, stops, crashes and failures are never owed. In `TenantServer` each request
thread, the background thread, the backfill thread and the closer go on when
they are not blocked; this is the operating system's thread scheduling, the locks
being held over finite work. A request waiting for the tenant's slot gets it
strongly fairly (`SF_vars(EnterSlot(r))`): the background thread enters the slot
once per retry, and between two retries the slot is free for the whole backoff,
seconds in which a blocked thread is woken. Locks and permits that requests
compete for need no more, as the bound on arrivals bounds the competition: a
mutex that starved one of an endless crowd is not excluded by `RequestsEnd`.
Nothing is assumed of arrivals, of an outage ending
(`Repair`), or of a stop (`Signal`). Hence `BackfillEnds` and `HealsAtLast` are
about what the code does by itself: the retry loop is unconditional, so
`HealsAtLast` needs no request to come, and `RequestsEnd` none of the others to
stay away. In `Dispatch` each client's request goes on when it can
(`WF_vars(Step(c))`): a spawned task is polled, and a lock that is free is taken
by one that waits. `MCServe` restates the fairness of its two parts with the
part's guard, so that a part that does not move owes nothing; `MCRequests` need
not, as a client that has not asked has no step. `IndexLifecycle` and `TenantServer` bound
crashes and starts: a server killed for ever at the same point of a backfill would not end it, and
no code could.

## 5. The proofs

### The store (`BitemporalStoreProofs`)

Assumptions: `TimesAssumption` (instants are integers below `Open`),
`ClockAssumption` (the clock is positive and below `Open`) and
`BoundAssumption`. Nothing is assumed of uris, scopes, bodies, relations and
writers, which may be infinite.

`NonOverlap` and `KeywordIndexIsLive` are not inductive. `Replace` deletes the
closed rows' keys from the keyword index, and if two rows shared a key that would
take a live row's text along; and whether two remainders collide depends on the
segments they come from being non-empty and disjoint. The inductive invariant is

    StoreInv == TypeOK /\ WellFormed /\ RowIdentity /\ NonOverlap /\ KeywordIndexIsLive

where `WellFormed` says intervals are not empty and no row is from a transaction
to come, and `RowIdentity` that a key names one row.

The argument. Every mutation is a `Replace(R, new, at)`. `ReplacePreserves`
shows that it keeps `StoreInv` when `new` is *insertable*: well formed, keyed by
the coming transaction, disjoint from each other and from the live rows outside
`R`. `PutInserts` and `InvalidateInserts` show that for the two mutations that
insert, from `LeftPieces` and `RightPieces`; `StepStoreInv` goes through the
actions.

| Theorem | Module | Establishes |
|---|---|---|
| `StoreInvariant` | `BitemporalStoreProofs` | `Spec => []StoreInv` |
| `StoreTypeOK`, `StoreNonOverlap`, `StoreKeywordIndex` | `BitemporalStoreProofs` | its parts that the runs check |
| `StoreAppendOnly` | `BitemporalStoreProofs` | a version keeps its columns and is closed once |
| `StoreAsOfSettled` | `BitemporalStoreProofs` | no commit changes a settled past |
| `StoreEdges` | `BitemporalStoreProofs` | edges go exactly with the last live row |
| `StoreSaveIsBelieved` | `BitemporalStoreProofs` | a save is believed over exactly its interval |
| `StoreImplementsTimeline` | `BitemporalStoreProofs` | the refinement |

The history theorems use the invariant and `StepReplaces` (every step that
changes rows is a `Replace` of live rows). The refinement maps each action:
`PutAsserts`, `ForgetRetracts` and `InvalidateEnds` are the three cases, all
other steps stutter. `PutAsserts` needs `NonOverlap` for the no-op: a segment
that already says the body is the only one there.

### The slots (`VectorProofs`)

Assumptions: `ScopesAssumption`, `InstantsAssumption`, and `OpenEnded`, that no
caller names an interval of its own. Bodies, scopes, instants and the bounds on
writes, faults and re-embeddings are arbitrary.

`OpenEnded` is a hypothesis because without it the two theorems are false, and
the code says so too: `slots_past` is that counterexample. Where it holds, the
live rows of a record are a *chronicle*: each row ends before the next begins.
`PutKeeps` and `InvalidateKeeps` prove that of the two ways the rows change, and
with it that the row inserted last is the one that is valid now
(`CurrentIsNewest`), which is what lets `save_entry` embed the body it was given.
The invariant is

    SlotInv == TypeOK /\ Chronicles /\ Owed /\ Recent /\ Fresh

`Owed`: a request under the lock resyncs each slot to what is newest in its own
commit. `Recent`: what an actor is about to insert has been newest since the
re-embedder last read that record, and so has what the slot holds, unless it is
about to be cleared. `Fresh`: before the first re-embedding a slot is up to date
or a request still has it to do; an insert that finds chunks is then one that
finds its own.

| Theorem | Establishes |
|---|---|
| `SlotsEmbedNewest` | `SlotEmbedsNewest` |
| `SlotsBehindOnlyByRaces` | `BehindOnlyByRaces` |
| `ReaderSeesItsOwn` | `NothingOfOthers` of the recalls that `vectors` runs, from the next section |
| `ReaderFindsItsOwn` | `FindsWhatItMaySee` of those recalls, from the next section |

### Recall (`RetrievalProofs`)

`RecallStaysInSight` states `NothingOfOthers` of `Retrieval` from `Inputs`: finitely
many records, of which the versions of one uri are written one after the other,
limits that are natural numbers, rankings that are sequences of records. `Inputs`
is a hypothesis and not an `ASSUME` since it is about operators; `TheInputs` of
`VectorProofs` shows that the instance of `MCVectors` satisfies it. The graph, the
queries, the skills and what is forgotten meanwhile are arbitrary.

`InSight` says that the channels, the seeds and the riders hold nothing out of the
reader's sight, and that the walk has come to, and by way of, no uri the reader
may not have heard of. What `search` returns is not in it: the index knows no
scopes, and the claim begins with `resolve_vector_hits`. `VisibleIsKnown` is the
lemma behind the walk: `scope_visible` lets a uri through that has no live row,
but only by the last version it had.

`RecallFinds` states the other half, the four parts of `FindsWhatItMaySee`: that what
the reader may see is not left out either. Its hypothesis `Sizes` adds to `Inputs` that
the pool and the chunks asked for per slot are not zero and that the edges have
finitely many ends; `TheSizes` shows it of the instance. The invariant `FindInv` is
`InSight` with

- `ChannelInv`: while the hits are resolved they are the best slots there are
  (`BestHits`), and from then on the vector channel leaves a live record that the
  reader sees out only for better ones (`Found`). A search asks for `Over * k` chunks
  and keeps `k` slots of them, so a slot that is missing from fewer than `k` hits would
  have to be pushed out by the chunks of the others; `ManyBodies` counts them, which is
  where `ShortBodies` is needed (without it the claim is false: section 6);
- `OffTopicInjectsNothing` itself, since `Fuse` measures against the channel that
  `Found` says is not empty;
- `WalkInv`: in its first hop the walk goes through the seeds in their order, and the
  neighbours of each seed whose turn has come are reached with at least its weight,
  unless the walk has collected all it may (`Cands`); later hops only add, and raise;
- `HydrateInv`: whatever is hydrated already is not behind anything that is left, and
  hydration ends only when the riders are full or nothing is left. A record forgotten
  meanwhile gives up no place, and keeps none.

`NotYet`, `WalkTyped`, `SeedsOnce` and `Bounds` are the types of it. `TypeOK` bounds each
list by its limit, and is part of what is stated.

Sequences are picked out with `FlattenSeq`, which is recursive. What it returns
(`FlattenType`, `FlattenOrdered`) is proved by induction on the number of
sequences, in the form the provers can use: if it failed, there would be a least
number for which it does (`NatMin`).

### The index (`IndexProofs`)

Assumption: `BoundsAssumption`. Uris, processes and what may fail are arbitrary.

`OpenInv` is about who has the index open: one process, from its open to its end,
with the marker beside it, and nobody about to move the directory aside. It holds
under the bound `Apart` of `MCIndex` (section 3), without which the code breaks it
(section 6). `CoverInv` says of every moment from the open to the end of a
backfill which records are owed a vector and by which marker that is remembered:

- `Covered`: a settled index with no backfill outstanding is complete, or complete
  up to the checkpoint of its migration;
- `Migrated`, `Filled`: a migration, and a backfill at its end, have been everywhere;
- `Checked`: a checkpoint stands for vectors that are there.

`IndexIsComplete` has the hypothesis `KillsAreCovered`, which names where the
marker scheme does not reach: a kill between the creation of a fresh index and its
marker (`tools.rs:836-839`), and a power-off that takes vectors a checkpoint
stands for, where a local command resumes from one. Both break `HybridComplete` in
the code. `IndexOpenedWhole` has `Alone`: with a second process at a damaged
index, or a kill between zvec's open and its marker, a torn index is opened.

| Theorem | Module | Establishes |
|---|---|---|
| `IndexMarkedWhileOpen`, `IndexInUseIsKept` | `IndexProofs` | `MarkedWhileOpen` and `InUseIsKept` of `index_beside` |
| `IndexIsComplete` | `IndexProofs` | `HybridComplete` of `index_beside` |
| `IndexOpenedWhole` | `IndexProofs` | `NeverOpensTorn`, for one process at a time |
| `ServedIndexIsComplete`, `ServedIndexOpensWhole` | `TenantServerProofs` | the same of the server's index, as `serve_outages` has it, without a hypothesis |

### A served tenant (`TenantServerProofs`)

Assumption: `ServerAssumption` (the names of requests and threads differ, the
bounds are natural numbers, a permit exists). Requests, records and permits are
arbitrary, and so is the order of their steps with a heal, a backfill and the stop.

    StopInv == Typed /\ Locks /\ Stopping /\ SameHandle /\ Registered /\ NothingBegun

`NothingAfterFlush` is about one moment, but why it holds is spread over three
threads: a request that got past its second look at `closing` holds the lock of
its handle, the stop takes the handle out of the slot and then waits for that
lock, and the handle such a request holds can only be the one that was in the slot
(`SameHandle`). `BackfillsAreWhole` rests on `Registered`, that whatever re-embeds
for a full backfill is in `BACKFILLS` while it does, and on `NothingBegun`, that it
begins no record once the stop has waited for it. `TenantStopIsClean` states
`StopIsClean`.

    TenantInv == StopInv /\ Domains /\ SlotHeld /\ HealInv /\ Limits /\ Counted

`HealInv` is the ledger of an outage. Before the first handle with the index
(`Unserved`) what is missing was saved since the index was missed, which is what
`note_vectors` stored as `retry`. From then on (`Served`) whatever is missing is
owed (`Owes`) by the one re-embedder that runs, and it waits for the requests on
the old handle before it lists. A stop, or a bounded wait that ran out, ends the
promise, as it does in the code. `Limits` counts the permits: who embeds before the
lock and a re-embedder inside a record have one each. `TenantCompleteOnceHealed`
states `CompleteOnceHealed`.

### Access (`RequestProofs`)

Assumptions: `Global` and `None` are no rooms, `Owner` gives a uri an agent or
`None`, and the calls are well formed (`ScopesAssumption`, `CallsAssumption`).
Uris, rooms, agents, tokens and calls are arbitrary.

The properties compare what a call did with what its token and headers entitle
it to; the guards look at neither, but at the context on the shared handle,
which the call before bound. The invariant that joins the two is

    AccessInv == TypeOK /\ BoundToCall /\ ReadsStayInReach

`BoundToCall` says that while an operation runs the context is the one
`scope_binding` derives for the running call: a panic leaves a stale context,
but no operation runs before the next call has bound its own.
`BindingEntitled` goes through the kinds of tokens and says what a binding is
worth: it writes within `MayWrite`, reads within `MayRead`, and is the full
tenant's only for a token that is. Each theorem follows from these two and the
guards of its operations.

| Theorem | Establishes |
|---|---|
| `AccessInvariant`, `AccessTypeOK` | the invariant, and its part on types |
| `AccessReads` | `ReadsStayInReach`: every read gate, after every panic |
| `AccessMutations`, `AccessNoPlanting`, `AccessRaises`, `AccessSharedEdges` | the four action properties of `requests` that are about access |

### Dispatch (`RequestProofs`)

Assumption: `DispatchConstants`. Clients and savers are arbitrary; a request is
any member of `Requests`.

That a save, a recall or a prompt does not run the model under the tenant lock
rests on two functions written apart: `PlanCovers` shows that `Plan` has every text
that `Uses` wants but a retraction's `Remnant`, for every route and form, and `Planned` carries it through the wait for the lock, in which an
index may appear. `DispatchInv == RouteTyped /\ RouteLocks /\ Member /\ Planned /\
Ran /\ Changed` is inductive.

| Theorem | Establishes |
|---|---|
| `RequestLockIsShort` | `LockIsShort` of `requests` |
| `RequestRefusalIsWhole` | `RefusedChangesNothing` |

### The remote client (`RequestProofs`)

Assumption: `ClientConstants` (scopes and the marks `Global`, `None`, `Bad` differ).
Uris, scopes and the number of replacements are arbitrary.

`ClientInv` says what the one answer to the probe is worth in each phase of the
invocation: under `--scope` no write goes out before the question (`AskedFirst`), the answer is true
as long as the server that gave it is there (`AnswerHolds`), and a reply that names
a scope names the one the rows got (`EchoIsTrue`). `RequestScopeIsKept` states
`ScopeIsKept`.

### IAM and starts (`IamProofs`)

Assumptions: the kinds of names are disjoint (`NamesAssumption`) and the bounds
natural numbers. Tenants, tokens, handlers, requests and the number of starts
and operations are arbitrary.

What an admin was told holds because of what the handlers have still to run, so
the invariant speaks of that:

    IamInv == /\ TypeOK /\ StatesOK /\ decided = policy
              /\ HandlersOK /\ RevokedOK /\ RequestsOK
              /\ CreatedTokensResolve /\ OneEnvAdmin

`HandlersOK` says that a handler about to issue has registered its tenant, which
is active unless another handler came between, and that a removal about to
revoke has seen only its tenant's tokens; `RevokedOK` that tokens are revoked
after they are issued, and those of a finished removal all are; `RequestsOK`
what each request has read so far. There is a lemma per statement
(`RegisterStep` to `PolicyStep`), one for a request, one for the restarts;
`HandlersAdvance` and `OwedKept` are what they share. A new token cannot be
revoked already because it was nobody's, which is why `RevokedOK` is needed for
`CreatedTokensResolve`.

| Theorem | Establishes |
|---|---|
| `IamInvariant`, `IamTypeOK` | the invariant, and its part on types |
| `IamCreatedTokens`, `IamOneEnvAdmin` | its parts that the runs check |
| `IamRevoked`, `IamPolicy` | the action properties `RevokedStaysOut` and `PolicyFromNextRequest` |
| `StartsAreSafe` | `StartIsSafe`, of the starts that `iam_admin` composes beside it |

`StartInv` carries what a start has checked to the steps after it: a link it goes
on with is allowed and, once it binds, an address (`LinksAllowed`); what it refused
before IAM was opened left nothing (`NothingLeft`); who is about to show a token
has made one (`RootsOK`). That no secret hides another (`SecretsAreTheirOwn`) is
about one or two variables of the environment, which is what `StartUp` has.

### Upgrades (`HostProofs`)

Assumption: `UpgradeConstants`. Versions may be infinite, and any number of
upgrades may overlap.

`UpgradeInv` carries three facts from an upgrade's first check to the rename: what
it holds past `Verify` is the build it announced (`Genuine`), it did not begin on
a managed install (`Unfenced`), and while it is alone the installed version is
the one it compared with (`Newer`, `Alone`). `UpgradeIsAsAnnounced` states
`InstallsWhatItSaid`, and `CommandUpgrades` says it of `MCHost`'s behaviours.

### Bootstrap (`HostProofs`)

Assumption: `SelectionsAssumption`; any sets of agents may be selected, and any
number of runs killed.

`BootstrapKeepsEntries` states `UserEntriesSurvive`: the types, that the user's
entries are in the file or its copy, and `SoulSettles`. Its invariant has, beside
the types of a run's steps (`Turns`):

- `Kept`: a file that held entries of the user is readable (or broken by the user)
  with them in it, or torn with them in its copy. "In the file or in its copy" is
  not inductive: a copy of a torn file would lose both. What replaces a file
  therefore has to have parsed it.
- `ReadFirst`: removing from a Cowork workspace rewrites files without parsing them
  again, so when such a step is still to do, either the check comes before it or
  both files are known to parse; and the last step of a turn, all that is left when
  the check fails, is not such a step.
- `SoulInv`: an identity file is the user's text and then blocks, each cut off but
  perhaps the last (`Shape`), or the user wrote on both sides of a whole block. A
  cut (`ShapeCut`) keeps that, so does a refresh (`UpsertShape`), and two refreshes
  of such a file leave the user's text and one block (`Refreshed`).

### The client and its service, imports, skills (`HostProofs`)

Assumptions: `NoneAssumption` (None is none of the values, "far" no local address).
Addresses, tokens, files, texts, stores, skills and the number of events are
arbitrary. `HostInv` gives each part of `MCHost` its invariant while it runs.

- `ServiceInv`: once told to use a server dmem has a link, also in a config that
  does not parse or cannot be read (what `NeverFallsBackToOwn` needs when the user
  repairs it); the
  link has the token that was given; and an install that is still to write its link
  has written the unit, which under launchd the daemon runs already.
- `ImportInv`: while nothing happened that the manifest cannot know of, an entry is
  right about the store, or a killed import stored the file since, and then the store
  and the disk agree on it (`Remembers`). During a run (`Follows`) the same holds of
  its copy, which differs from the manifest only where the run stored; and what it
  has come to without passing it over is in the store as it read it.
- `SkillsInv`: a sync under way has shown every title it is done with as a record of
  it that it read.

`ClientsReachTheirStore` states `ReachesItsStore`, `ImportsAndSyncsAreWhole` states
`CopiesAreWhole`.

### Readiness (`HostProofs`)

Assumptions: `ReadinessAssumption`, `NoneAssumption`. Probes, tenants, the limit
`Ttl` and the slowest refresh `MaxSlow` are arbitrary. `ReadyInv` has four parts:

- `ReadyType`;
- `OneProbes`: who refreshes holds the lock, and the ghost clock `calm` is the age of
  what is cached;
- `ReadsRight`: what is cached is right about the fault if the fault has lasted longer
  than the cached age and `MaxSlow`, and a refresh under way is right about IAM if the
  fault has lasted longer than the refresh. These carry the result over ticks and
  changes; a probe that takes it keeps it right for as long as `same` holds;
- `Passed`: `started` is final and comes with the end of the pass; a probe that came
  after it and passed the indexes was told of a moment or of a server that is
  stopping, which the last check tells apart.

`ProbesAreToldTheTruth` states `ReadyIsHonest`.

### Only model-checked

- All liveness (`BackfillEnds`, `HealsAtLast`, `RequestsEnd`,
  `EveryRequestAnswered`): the prover handles neither ENABLED nor induction on a
  variant.
- `WiresOrSaysSo` of `AgentFiles`: it is about what each step of a turn leaves to the
  next run of the same steps. The agents, their files and their steps are fixed by
  the program; TLC goes through them all, for the selections and one kill.
- The violations of section 6, which are counterexamples.

Composed modules are proved about by way of their parts: the lemmas of a part's
proof module are cited for the instance in the MC module, after lemmas that say
the steps are the same (`SameIndexStep`, `SameNext`). The bounds (`MaxNow`,
`MaxWrites`, `MaxStarts`, `MaxOps`, `MaxSwaps`, `MaxSaves`, `MaxHeals`, `MaxFaults`) are constants of the theorems, which hold for each value
of them, except where an MC module fixes them: the served index of `MCServe`, the
starts of `MCIam` and the recalls of `MCVectors`.

## 6. Where the code and its comments differ

Shown by a run:

- **`slots_past`**: `save_entry` embeds the body it was given whatever interval
  it is for (`tools.rs:1370`), so a save about the past or the future leaves a
  slot that is not "exactly the current valid version" (`tools.rs:1366`).
- **`index_bgerror`**: `run_backfill` removes the marker also when `reembed` could
  not open or list the store (`server.rs:491`), against "only after a complete
  run" (`server.rs:469`).
- **`crowded_recall`**: the widening takes fewer slots than it asked for as the
  end of the index (`tools.rs:1690`), but the index was asked for eight chunk hits
  per slot (`zvec_index.rs:466`): records of more chunks end it early, and a gated
  reader misses its own records.
- **`iam_rotate`**: `INSERT OR IGNORE` leaves a value revoked by an earlier
  rotation revoked (`iam.rs:232`): set A, then B, then A again, and no env admin
  token works.

Met while reading, and modelled as the code has it or left out as noted:

- A heal's re-embedding of an index that was not created fresh is not in
  `BACKFILLS`, so the stop does not wait for it and the flush can fall between its
  delete and insert (`server.rs:548`, against `server.rs:777`).
  `BackfillsAreWhole` is about those that are.
- The checkpoint `.backfill.progress` is not removed with the torn index it
  belongs to, nor by the server's `finish_backfill`; a later local run resumes
  after it (`tools.rs:677`). `Quarantine` moves the skipped uris to `excused`.
- Between creating a fresh index and writing its marker (`tools.rs:836-839`) a
  crash leaves an empty index that nothing backfills, and between zvec's open and
  the dirty marker (`zvec_index.rs:387-402`) one that nothing probes. Crash points
  there would violate `HybridComplete` and `NeverOpensTorn`; the runs leave them
  out.
- A record that is forgotten while a re-embedder, which read it before, inserts its
  body leaves a slot without a record. A later re-embedding lists live records
  only and does not come to it. A recall drops it (`resolve_vector_hits`), so it
  costs a place among the hits and shows nothing.
- A save that the store finds redundant still rewrites the slot
  (`tools.rs:1371`): over a newer live segment the slot then embeds the older
  body. Needs a named interval, as `slots_past` does.
- A connection that waited for the write lock closes a version before the moment
  it is stamped to have been recorded (`sqlite.rs:644`); no past moment shows that
  version. `AsOfSettled` holds nevertheless.
- A request that still waits on a keyword-only handle after a heal replaced it can
  save, without a vector, after `close_tenants` flushed; `NothingAfterFlush` is
  stated of the index accordingly (`server.rs:1449`).
- A probe's verdict is acted on without looking again (`tools.rs:779`): with two
  processes at one damaged index, the second can move aside the one the first has
  just made and opened, or, at the end of its own quarantine, remove the dirty
  marker of it. `Apart` excludes both from `index_beside`.
- Minting a token for a suspended tenant returns one that does not resolve
  (`iam.rs:334`); a removal cut between its two statements leaves tokens that a
  later creation revives (`iam.rs:426`). `CreatedTokensResolve` and
  `RevokedStaysOut` are stated of creations and of removals that finished.
- A panic inside a backfill or heal leaves the tenant in `BACKFILLS`
  (`server.rs:484`): no other backfill starts and a stop waits its whole budget.
- Comments behind the code: the probe's timeout is said to be 60 s and is 20
  (`zvec_index.rs:139`, `161-164`); `latest_save_ms` does not see a `put` that is a
  no-op (`sqlite.rs:875-877`).

*The server and its client*

- A probe of `/readyz` that reads the vectors before the start-up pass has judged
  them, and `started` after its end, is told ready of a server that never was
  (`server.rs:888-905`, against `CHANGELOG.md:275-278`: "a tenant whose vector
  index cannot open fails readiness before the server takes traffic").
  `LateReadyWasTrue` is about probes that came after the pass. A known tenant whose
  *database* does not open is not judged at all.
- The disk verdict can be older than two seconds by the time of its refresh; three
  stale probe files make `data_dir` fail once (`server.rs:986`).
- A start that is refused for its address, its certificate or its port has opened
  `iam.db`, perhaps minted an admin token, and begun to open tenants;
  `EarlyRefusalLeavesNothing` is about the refusals before. A kill between the
  token's row and its showing leaves an admin token that nobody knows
  (`iam.rs:261`); `RootIsKnown` excludes it.
- `--tls-generate` writes a new certificate at every start, before the port is
  bound: a second start by mistake replaces the files of the one that runs
  (`server.rs:2301`). An address like `localhost:8077` passes the loopback check and
  is then refused as no address (`server.rs:2205`).
- A storage error in a write route is answered 400, like a refusal, and a batch
  pass may have changed edges before it: `RefusedChangesNothing` excepts it.
- stdio MCP drops a message that is no object without a word (`mcp.rs:460`: "An
  `id`-bearing request ALWAYS gets a reply"); HTTP answers 400. A notification's
  texts are embedded though nothing is run.
- Saves over HTTP `/mcp`, and imports, carry no `author:` tag, though
  `README.md:84` says an agent's writes are stamped. `/decision` defaults to
  `resources/notes`, MCP's `log_decision` to `resources/decisions` (`mcp.rs:287`).
- A retraction or link under `--scope`, sent after the server was replaced by one
  that does not know the header, reaches every scope: its reply names none.
  `RetractedWhereAsked` excepts it.
- An index may heal between a route's plan and the engine's: the model then runs
  under the tenant lock. `LockIsShort` excepts that request, and retractions, whose
  re-embedding is under the lock by design (`server.rs:367-369`, `tools.rs:1316`).

*Recall*

- The slots of skill records take part of the pool, and neighbours that died of the
  walk's candidates (`4 * limit`). A hybrid search without a visible vector hit
  falls back to the keyword gate. With the default constants the cosine gate
  relative to the top is implied by the absolute one, and the keyword floor's
  absolute gate is 0 (`config.rs:284`). Without an index the keyword floor is keyed
  by uri (`tools.rs:1548-1550`): a copy that clears it carries
  the copies of other scopes.

*The machine*

- Codex and Hermes files are copied to `.dmbak` before they are parsed: a run after
  a kill copies the torn file over the good copy. The Hermes allowlist and `SOUL.md`
  have no copy, a copy that fails is passed over, and text typed after a block whose
  end was cut off goes with it. `UserEntriesSurvive` and `SoulSettles` say so.
- A hook group of the user that also names the `dmem` binary is dropped with ours;
  entries under an earlier path of the binary stay. An agent may rewrite its
  settings between bootstrap's read and its write.
- WorkBuddy's turn says "(nothing was changed)" after it wrote and registered the
  plugin: `KeepsItsWord` excepts it. A persona of reminders only, once in OpenCode's
  plugin, stays.
- `service uninstall` says that `config.toml` is "left intact; reinstall with
  `dmem service install`" (`service.rs:68`), but an install that names no data
  directory goes back to the default one and writes a link without the one of
  before. setup and install rewrite the whole config (`data_dir`, `ca_cert` go). A
  reinstall under systemd does not restart a daemon that runs (`service.rs:233`), so
  that it serves what the unit of before said until it is restarted.
- A config that is there but cannot be read (its permissions, or text that is not
  UTF-8) is as none (`config.rs:59-62`; the comment before it accepts that): dmem
  reads and writes a store of its own although it was told to use a server, and an
  install mints another token and rewrites the file. `NeverFallsBackToOwn` and
  `TokenKept` except it; a file that does not parse makes dmem exit, as the same
  comment asks.
- The manifest of `import` is keyed by path alone: a store that was lost, rolled
  back or retargeted, an edit that was reverted after a killed run, two runs at once,
  or two files of one title are not noticed, though "a stale or missing manifest just
  falls back to the store's idempotent `put`" (`config.rs:371`).
- `migrate`, which no property is about, takes an export whose body it cannot read for an empty one and succeeds
  (`migrate.rs:164`), and one run twice overwrites, with the dates of then, what was
  edited since.
- Overlapping upgrades can go back to an older version, and a library that cannot
  be replaced is passed over: `NeverDowngrades` is about upgrades that run alone.
- `skills sync` reads the local store when the config names a server, and never
  removes the files of skills that were forgotten. Two live skills of one title, in
  two namespaces or scopes, are written to one file (`skills.rs:117-135`), of which
  the less important or older stays (`sqlite.rs:743`): `SyncIsWhole` asks for one of
  them.
- `logout` rewrites the config in place (`client.rs:483`): a kill leaves it cut off.
- The metrics histogram can be read in the middle of an observation, with buckets
  that do not add up (`metrics.rs:28`).

## 7. What is not modelled

- *The numbers of recall, and text*: scores and their fusion weights, near-duplicate
  search, FTS matching, mention mining, dream and health reports, personas and
  briefs as text. `Retrieval` has a channel as an order and a floor as a number of
  hits. An embedding is a function of the body.
- *zvec and SQLite*: external. Modelled from use: a transaction is atomic, one
  writer at a time; an index is open in one process at a time.
- *Clock steps backwards*: the clock is monotone in the store.
- *The query permits*: a second pool beside that of the saves, held over one
  embedding and given back on every path. Save permits are modelled as a pool; the
  condition variable under it is not. *Connections*: the TLS accept loop, its limits
  and timeouts belong to the libraries under it.
- *Hooks* (`hooks.rs`): each call of an agent's hook reads the payload, asks the
  memory once and prints; it keeps nothing but an optional debug log.
- *Rendering, UI, `/metrics`*: text from records; counters nothing reads back.
- *The embedder*: inference and the windows of a long text, numeric.
- *Configuration*: the temporary file of `write_secret`, dotenv syntax. *MCP*: the
  negotiated protocol version and the text of the tools.
- *The schema migrations of IAM and the store, release tooling, contrib.*

## 8. Plan

Order, most important first; (done) marks what this directory holds.

1. `Timeline`, `BitemporalStore`, its runs and proofs (done).
2. `VectorSlots`: store and index together (done).
3. `IndexLifecycle`: crashes and restarts (done).
4. `TenantServer`: heals, backfills, the stop (done).
5. `ScopeAccess` and `Iam` (done).
6. Proofs of `ScopeAccess` and `Iam` for all constants (done).
7. `Retrieval`: one recall beside the writes (done).
8. `Dispatch`, `ScopedClient`, `StartUp`, `Readiness`: a request from the client's
   probe to its reply, and the server from its options to `ready` (done).
9. `AgentFiles`, `ServiceLink`, `Upgrade`, `Imports`, `Skills`: the machine (done).
10. Proofs: the stop of a tenant, requests, the client, upgrades (done).
11. Proofs: heals and backfills, the index and the server over it, starts, the
    slots, a recall's sight and what it finds (done).
12. Proofs: `UserEntriesSurvive` for any sets of agents, `ReachesItsStore`,
    `CopiesAreWhole`, `ReadyIsHonest` (done); `WiresOrSaysSo`.
13. Near-duplicate search beside the save it guards; the importers on top of the
    scoped client instead of a store of their own.
14. `Readiness`: the delay of a refresh against the probe's own timeout.
15. Pure decisions against a reference: the overlapping windows of `embedder`, the
    budget of a context.
