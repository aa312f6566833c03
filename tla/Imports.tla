------------------------------ MODULE Imports ------------------------------
(***************************************************************************)
(* `dmem import` of a folder of Markdown files, with the manifest that     *)
(* remembers what was imported (src/src/main.rs, config.rs), and `dmem     *)
(* migrate` of an export of daimon-memory v1 (src/src/migrate.rs).  Files  *)
(* are edited, an import is killed, single records fail, and the command   *)
(* may be pointed at another store between two runs.  Imports do not       *)
(* overlap here.                                                           *)
(***************************************************************************)
EXTENDS Naturals

CONSTANTS
  File,      \* the files of the folder, each with a title, and so a record's address, of its own;
             \* a file retitled is another one
  Texts,     \* what they may say
  Blank,     \* or a front matter without a title, or bytes that are no text
  None,      \* nothing there
  Places,    \* stores: a tenant here, one on a server
  MaxEvents  \* bound: edits, kills and other commands

VARIABLES
  disk,     \* [file -> what it says]
  manifest, \* import-manifest.json: [file -> what it said when it was last imported]
  store,    \* [<<place, file>> -> the live text at the file's address]
  place,    \* the store that config and options name now
  run,      \* the import: see NotRunning
  unsaved,  \* history: files that a killed import stored, which the manifest does not say
  calm,     \* history: nothing happened that the manifest cannot know of
  events
vars == <<disk, manifest, store, place, run, unsaved, calm, events>>

NoFile == [f \in File |-> None]

\* memo: its copy of the manifest; to: the store it opened; todo: the files to come; file: the
\* one read and not yet stored; saw: the texts it read; skipped: a record was passed over.
NotRunning == [at |-> "idle", memo |-> NoFile, to |-> None, todo |-> {}, file |-> None,
               saw |-> NoFile, skipped |-> FALSE, force |-> FALSE]

Init ==
  /\ disk \in [File -> Texts]
  /\ manifest = NoFile /\ store = [k \in Places \X File |-> None] /\ place \in Places
  /\ run = NotRunning
  /\ unsaved = {} /\ calm = TRUE /\ events = 0

-----------------------------------------------------------------------------
(* What goes on around the imports.                                        *)

Happens == events < MaxEvents /\ events' = events + 1

\* After an edit of a file that a killed import stored, the manifest may be right about the
\* wrong moment.
Edit(f) ==
  /\ Happens
  /\ \E c \in (Texts \cup {Blank}) \ {disk[f]} : disk' = [disk EXCEPT ![f] = c]
  /\ calm' = (calm /\ f \notin unsaved)
  /\ UNCHANGED <<manifest, store, place, run, unsaved>>

\* The record is forgotten, or saved anew by some other command.
OtherWrites(k) ==
  /\ Happens
  /\ \E t \in (Texts \cup {None}) \ {store[k]} : store' = [store EXCEPT ![k] = t]
  /\ calm' = FALSE
  /\ UNCHANGED <<disk, manifest, place, run, unsaved>>

\* login, --scope, DM_TENANT: the same folder, another store.
Retarget ==
  /\ Happens /\ place' \in Places \ {place} /\ calm' = FALSE
  /\ UNCHANGED <<disk, manifest, store, run, unsaved>>

\* One line of a v1 export: a record with a title is saved in place of what its address holds,
\* and a line that is no record, or is refused, is passed over.  It stands here for what it does
\* to an import's records, like OtherWrites: no property is about the migration itself.
MigrateLine(f, t) ==
  /\ Happens /\ t # store[<<place, f>>] /\ store' = [store EXCEPT ![<<place, f>>] = t]
  /\ calm' = FALSE
  /\ UNCHANGED <<disk, manifest, place, run, unsaved>>

-----------------------------------------------------------------------------
Start ==
  /\ run.at = "idle"
  /\ \E force \in BOOLEAN :
       run' = [NotRunning EXCEPT !.at = "next", !.memo = manifest, !.to = place, !.todo = File,
                 !.force = force]
  /\ UNCHANGED <<disk, manifest, store, place, unsaved, calm, events>>

\* A file is unchanged when the manifest has the hash of the text just read.
Unchanged(f) == ~run.force /\ run.memo[f] = disk[f]

Read(f) ==
  LET r == [run EXCEPT !.todo = @ \ {f}, !.saw[f] = disk[f]] IN
  /\ run.at = "next" /\ f \in run.todo
  /\ run' = IF Unchanged(f) THEN r
            ELSE IF disk[f] = Blank THEN [r EXCEPT !.skipped = TRUE]
            ELSE [r EXCEPT !.at = "put", !.file = f]
  /\ UNCHANGED <<disk, manifest, store, place, unsaved, calm, events>>

\* The hash is of the text that was stored.  Mutant: the file is hashed again afterwards.
RecordedLate ==
  LET f == run.file IN
  [run.memo EXCEPT ![f] = IF disk[f] = Blank THEN run.saw[f] ELSE disk[f]]
Recorded == [run.memo EXCEPT ![run.file] = run.saw[run.file]]

Put ==
  /\ run.at = "put"
  /\ store' = [store EXCEPT ![<<run.to, run.file>>] = run.saw[run.file]]
  /\ run' = [run EXCEPT !.at = "next", !.memo = Recorded, !.file = None]
  /\ UNCHANGED <<disk, manifest, place, unsaved, calm, events>>

\* The record is refused, or the server does not answer.
PutFails ==
  /\ run.at = "put"
  /\ run' = [run EXCEPT !.at = "next", !.skipped = TRUE, !.file = None]
  /\ UNCHANGED <<disk, manifest, store, place, unsaved, calm, events>>

\* The whole manifest is written, once, at the end.
Ending == run.at = "next" /\ run.todo = {}
End ==
  /\ Ending
  /\ manifest' = run.memo /\ run' = NotRunning
  /\ unsaved' = {f \in unsaved : run.saw[f] # run.memo[f]}
  /\ UNCHANGED <<disk, store, place, calm, events>>

\* Killed anywhere, in the middle of the write too: a manifest cut off reads like none.
Kill ==
  /\ run.at # "idle" /\ Happens /\ run' = NotRunning
  /\ \/ LET stored == {f \in File : run.memo[f] # manifest[f]} IN
          /\ unsaved' = unsaved \cup stored
          /\ calm' = (calm /\ \A f \in stored : disk[f] = run.memo[f])
          /\ UNCHANGED manifest
     \/ Ending /\ manifest' = NoFile /\ unsaved' = {} /\ UNCHANGED calm
  /\ UNCHANGED <<disk, store, place>>

Next ==
  \/ \E f \in File : Edit(f) \/ Read(f) \/ \E t \in Texts : MigrateLine(f, t)
  \/ \E k \in Places \X File : OtherWrites(k)
  \/ Retarget \/ Start \/ Put \/ PutFails \/ End \/ Kill

Spec == Init /\ [][Next]_vars

-----------------------------------------------------------------------------
\* Types of the files, the store and the runs (main.rs Cmd::Import).
TypeOK ==
  /\ disk \in [File -> Texts \cup {Blank}]
  /\ manifest \in [File -> Texts \cup {None}]
  /\ store \in [Places \X File -> Texts \cup {None}]
  /\ run.memo \in [File -> Texts \cup {None}]

Holds == \A f \in File : store[<<run.to, f>>] \in {run.saw[f], disk[f]}

\* An import that passed over nothing leaves the store with every file as it read it, or newer:
\* through edits while it ran, records that failed before, kills and a lost manifest, as long
\* as nothing happened that the manifest cannot know of: a lost, reverted or retargeted store,
\* which it is silent about though "a stale or missing manifest just falls back to the store's
\* idempotent put" (config.rs:371).
ImportIsWhole == [][End /\ calm /\ ~run.skipped => Holds]_vars
=============================================================================
