------------------------------- MODULE Skills -------------------------------
(***************************************************************************)
(* Skills as records (src/src/skills.rs): `dmem skills import` stores each *)
(* SKILL.md of a folder, `dmem skills sync` writes the records of the      *)
(* local store back as the files Claude Code loads.  Either may fail or be *)
(* killed between two files, and other commands change the records.        *)
(***************************************************************************)
EXTENDS Naturals

CONSTANTS
  Skill,    \* names that front matter, titles and directories carry
  Unsafe,   \* those of them that would leave the skills directory, or hide in it
  Bodies, None

VARIABLES
  folder,   \* [skill -> the SKILL.md to import]
  remote,   \* imports go to a server on another machine; sync reads the store of this one
  records,  \* [skill -> body]: the records that imports address, in the local store
  others,   \* [skill -> bodies]: its live records of that title in other namespaces and scopes
  loaded,   \* [skill -> <<text>>, <<>> when cut off, or None]: what Claude Code finds
  temp,     \* [skill -> <<text>> or <<>> or None]: the temporary files beside it
  job,      \* "idle", "import" or "sync"
  left,     \* the names that the import, the <<name, body>> that the sync has to come to
  listed    \* [skill -> bodies]: the records as the sync read them
vars == <<folder, remote, records, others, loaded, temp, job, left, listed>>

Nothing == [n \in Skill |-> None]
Safe == Skill \ Unsafe
NoneListed == [n \in Safe |-> {}]

Init ==
  /\ folder \in [Skill -> Bodies \cup {None}] /\ remote \in BOOLEAN
  /\ records = Nothing /\ others = NoneListed /\ loaded = Nothing /\ temp = Nothing
  /\ job = "idle" /\ left = {} /\ listed = NoneListed

\* A skill is saved or forgotten by some other command, under any title; or edited on disk.
Changes ==
  /\ \/ \E n \in Skill, b \in Bodies \cup {None} : records' = [records EXCEPT ![n] = b]
        /\ UNCHANGED <<folder, others>>
     \/ \E n \in Safe, B \in SUBSET Bodies : others' = [others EXCEPT ![n] = B]
        /\ UNCHANGED <<folder, records>>
     \/ \E n \in Skill, b \in Bodies : folder' = [folder EXCEPT ![n] = b]
        /\ UNCHANGED <<records, others>>
  /\ UNCHANGED <<remote, loaded, temp, job, left, listed>>

StartImport ==
  /\ job = "idle" /\ job' = "import" /\ left' = {n \in Skill : folder[n] # None}
  /\ UNCHANGED <<folder, remote, records, others, loaded, temp, listed>>
\* An unsafe name is passed over; a record that fails ends the import (Stops).
ImportSkill(n) ==
  /\ job = "import" /\ n \in left /\ left' = left \ {n}
  /\ records' = IF n \in Safe /\ ~remote THEN [records EXCEPT ![n] = folder[n]] ELSE records
  /\ UNCHANGED <<folder, remote, others, loaded, temp, job, listed>>

\* Every live skill record of a title that may be a directory's name.
Titled(n) == others[n] \cup ({records[n]} \ {None})
\* Mutant: what is there already is not written again.
ToWriteNew == [n \in Safe |-> IF loaded[n] = None THEN Titled(n) ELSE {}]
ToWrite == [n \in Safe |-> Titled(n)]
StartSync ==
  /\ job = "idle" /\ job' = "sync" /\ listed' = [n \in Safe |-> Titled(n)]
  /\ left' = UNION {{n} \X ToWrite[n] : n \in Safe}
  /\ UNCHANGED <<folder, remote, records, others, loaded, temp>>
\* The text goes into a temporary file, created empty first, that is renamed over the target.
\* Mutant: straight into the target.
WriteTempDirect(n, b) ==
  /\ loaded' = [loaded EXCEPT ![n] = IF @ = <<>> THEN <<b>> ELSE <<>>]
  /\ temp' = [temp EXCEPT ![n] = loaded'[n]]
WriteTemp(n, b) ==
  /\ temp' = [temp EXCEPT ![n] = IF @ = <<>> THEN <<b>> ELSE <<>>]
  /\ UNCHANGED loaded
SyncWrite(n, b) ==
  /\ job = "sync" /\ <<n, b>> \in left /\ temp[n] \in {None, <<>>} /\ WriteTemp(n, b)
  /\ UNCHANGED <<folder, remote, records, others, job, left, listed>>
SyncRename(n, b) ==
  /\ job = "sync" /\ <<n, b>> \in left /\ temp[n] = <<b>>
  /\ loaded' = [loaded EXCEPT ![n] = temp[n]] /\ temp' = [temp EXCEPT ![n] = None]
  /\ left' = left \ {<<n, b>>}
  /\ UNCHANGED <<folder, remote, records, others, job, listed>>

Ends ==
  /\ job # "idle" /\ left = {} /\ job' = "idle" /\ listed' = NoneListed
  /\ UNCHANGED <<folder, remote, records, others, loaded, temp, left>>
\* An error, or a kill; the next process takes another name for its temporary file.
Stops ==
  /\ job # "idle" /\ job' = "idle" /\ left' = {} /\ listed' = NoneListed /\ temp' = Nothing
  /\ UNCHANGED <<folder, remote, records, others, loaded>>

Next ==
  \/ Changes \/ StartImport \/ StartSync \/ Ends \/ Stops
  \/ \E n \in Skill : ImportSkill(n) \/ \E b \in Bodies : SyncWrite(n, b) \/ SyncRename(n, b)
Spec == Init /\ [][Next]_vars

-----------------------------------------------------------------------------
\* What Claude Code may load at any moment is a whole skill, and one that was a record, however
\* a sync ends ("the target is always either the old full file or the new full file").
LoadedIsWhole ==
  /\ loaded \in [Skill -> {None} \cup {<<b>> : b \in Bodies}]
  /\ left \subseteq Skill \cup (Safe \X Bodies) /\ records \in [Skill -> Bodies \cup {None}]

\* A sync that ends shows every title with a usable name as a record of it said when it was
\* read, other commands' saves and forgets in between included.  Of two live records of one
\* title (in two namespaces or scopes) it shows the one that it came to last: both are written
\* to one file.  Files of records forgotten since stay.
SyncIsWhole ==
  [][job = "sync" /\ Ends =>
       \A n \in Safe : listed[n] # {} => \E b \in listed[n] : loaded[n] = <<b>>]_vars
=============================================================================
