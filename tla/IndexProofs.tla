----------------------------- MODULE IndexProofs -----------------------------
(***************************************************************************)
(* Proofs about IndexLifecycle, for any number of uris and processes, any  *)
(* faults and any bound on them.                                           *)
(*                                                                         *)
(* Two invariants, each of several parts.  OpenInv is about who has the    *)
(* index open: one process at a time, from its open to its end, and never  *)
(* while another is about to move the directory aside.  CoverInv says of   *)
(* every moment between an open and the end of a backfill which records    *)
(* are owed a vector, and by which of the markers that is remembered.      *)
(***************************************************************************)
EXTENDS MCIndex, TLAPS, WellFoundedInduction

\* The phases in which a process has the index open.
Holding == {"mark", "migrate", "slotmark", "fresh?", "fill", "filled", "serving"}

\* It is open in one process, from its open to its end, is whole meanwhile, and nobody is
\* about to move it aside.
Holds ==
  /\ \A p \in Procs : held[p] = IF phase[p] \in Holding THEN "here" ELSE "none"
  /\ \A p, q \in Procs : held[p] = "here" /\ held[q] = "here" => p = q
  /\ Locked => dir = "whole"
  /\ \A p \in Procs : phase[p] \in {"condemned", "quarantined"} => ~Locked

\* A flush belongs to a backfill that has come to its end, or to a stop.
Flushes ==
  \A p \in Procs :
    /\ flushing[p] = "fill" => phase[p] = "fill"
    /\ flushing[p] \in {"backfill", "stop"} => phase[p] = "serving"
    /\ bg[p] # "off" => phase[p] = "serving"
    /\ flushing[p] = "backfill" => bg[p] = "embed" /\ todo[p] = {}

OpenInv == TypeOK /\ Holds /\ OpenIsMarked /\ Flushes

-----------------------------------------------------------------------------
\* The least of some naturals, the next uri to work through: the choice of Min is well defined.
LEMMA MinOf ==
  ASSUME NEW S, S \subseteq Nat, S # {}
  PROVE  Min(S) \in S /\ \A y \in S : Min(S) <= y
<1> DEFINE R == OpToRel(<, Nat)
<1>1. IsWellFoundedOn(R, Nat)
  BY NatLessThanWellFounded
<1> HIDE DEF R
<1>2. PICK x \in S : \A y \in S : <<y, x>> \notin R
  BY <1>1, WFMin
<1>3. ASSUME NEW y \in S PROVE x <= y
  <2>1. x \in Nat /\ y \in Nat /\ <<y, x>> \in Nat \X Nat
    OBVIOUS
  <2>2. ~(<<y, x>>[1] < <<y, x>>[2])
    BY <1>2, <2>1, Zenon DEF R, OpToRel
  <2> QED
    BY <2>1, <2>2
<1> QED
  BY <1>3 DEF Min

LEMMA MinUri ==
  ASSUME NEW S \in SUBSET Uris, S # {}
  PROVE  Min(S) \in S /\ Min(S) \in Uris /\ \A y \in S : Min(S) <= y
<1>1. S \subseteq Nat
  BY BoundsAssumption DEF Uris
<1> QED
  BY <1>1, MinOf

-----------------------------------------------------------------------------
(* One process has the index.                                              *)

LEMMA InitOpen == ASSUME Init PROVE OpenInv
<1>1. vec \subseteq Uris /\ durable \subseteq vec /\ dir \in Conditions /\ slots \in BOOLEAN
  BY DEF Init, Conditions
<1>2. slotDone \in 0..MaxUri /\ done \in 0..MaxUri
  BY BoundsAssumption DEF Init
<1>3. TypeOK
  BY <1>1, <1>2 DEF Init, TypeOK, Phases
<1> QED
  BY <1>3 DEF Init, OpenInv, Holds, OpenIsMarked, Flushes, Holding, Locked

\* The open itself: nobody had the index, and by the bound nobody is about to move it aside.
LEMMA OpenOpen ==
  ASSUME OpenInv, NEW p \in Procs, Open(p), Apart
  PROVE  OpenInv'
<1> USE DEF OpenInv, Goto
<1>1. dir' \in Conditions /\ vec' = vec /\ durable' = durable /\ dirty' = dirty
      /\ slots' = slots /\ pending' = pending /\ slotDone' = slotDone /\ done' = done
  BY DEF Open, TypeOK, Conditions, files
<1>2. fresh' \in [Procs -> BOOLEAN]
  <2>1. fresh' = fresh \/ fresh' = [fresh EXCEPT ![p] = (dir = "absent")]
    BY DEF Open
  <2> QED
    BY <2>1, Zenon DEF TypeOK
<1>3. phase' \in [Procs -> Phases] /\ held' \in [Procs -> {"none", "here", "moved"}]
  BY DEF Open, TypeOK, Phases
<1>4. TypeOK'
  BY <1>1, <1>2, <1>3 DEF Open, TypeOK
<1>5. Holds'
  BY DEF Open, TypeOK, Holds, Holding, Locked, Apart, files
<1>6. OpenIsMarked' /\ Flushes'
  BY DEF Open, TypeOK, OpenIsMarked, Flushes, Holds, Holding, Locked, files
<1> QED
  BY <1>4, <1>5, <1>6

\* The steps that work through the uris one at a time.
LEMMA MigrateOpen ==
  ASSUME OpenInv, NEW p \in Procs, Migrate(p)
  PROVE  OpenInv'
<1> USE DEF OpenInv, Goto
<1> DEFINE left == {u \in Scoped \cap db : u > slotDone}
<1>1. left # {} => Min(left) \in Uris
  BY MinUri DEF TypeOK
<1>2. slotDone' \in 0..MaxUri
  BY <1>1, BoundsAssumption DEF Migrate, TypeOK, Uris
<1>3. vec' \subseteq Uris /\ durable' \subseteq vec'
  BY <1>1 DEF Migrate, TypeOK, Embedded
<1>4. TypeOK'
  BY <1>2, <1>3 DEF Migrate, TypeOK, Phases
<1>5. Holds' /\ OpenIsMarked' /\ Flushes'
  BY DEF Migrate, TypeOK, OpenIsMarked, Flushes, Holds, Holding, Locked
<1> QED
  BY <1>4, <1>5

LEMMA FillOpen ==
  ASSUME OpenInv, NEW p \in Procs, Fill(p)
  PROVE  OpenInv'
<1> USE DEF OpenInv, Goto
<1> DEFINE left == {u \in db : u > done}
<1>1. left # {} => Min(left) \in Uris
  BY MinUri DEF TypeOK
<1>2. done' \in 0..MaxUri
  BY <1>1, BoundsAssumption DEF Fill, TypeOK, Uris
<1>3. vec' \subseteq Uris /\ durable' \subseteq vec'
  BY <1>1 DEF Fill, TypeOK, Embedded
<1>4. TypeOK'
  BY <1>2, <1>3 DEF Fill, TypeOK, Phases
<1>5. Holds' /\ OpenIsMarked' /\ Flushes'
  BY DEF Fill, TypeOK, OpenIsMarked, Flushes, Holds, Holding, Locked
<1> QED
  BY <1>4, <1>5

\* An index that a stopped process leaves open is in some condition, and is marked.
LEMMA CrashOpen ==
  ASSUME OpenInv, NEW p \in Procs, Crash(p)
  PROVE  OpenInv'
<1> USE DEF OpenInv, Goto
<1>1. db' = db /\ dir' \in Conditions
  BY FaultsAssumption DEF Crash, TypeOK
<1>2. vec' \subseteq Uris /\ durable' \subseteq vec' /\ excused' \subseteq Uris
  BY DEF Crash, TypeOK
<1>3. TypeOK'
  BY <1>1, <1>2 DEF Crash, TypeOK, Phases
<1>4. Holds' /\ OpenIsMarked' /\ Flushes'
  BY DEF Crash, TypeOK, OpenIsMarked, Flushes, Holds, Holding, Locked
<1> QED
  BY <1>3, <1>4

\* The end of a flush: a clean close takes the marker of an index that nobody else has open.
LEMMA FlushedOpen ==
  ASSUME OpenInv, NEW p \in Procs, Flushed(p)
  PROVE  OpenInv'
<1> USE DEF OpenInv
<1>1. dirty' \in BOOLEAN /\ pending' \in BOOLEAN /\ durable' \subseteq vec'
  BY DEF Flushed, TypeOK, IsClose
<1>2. TypeOK'
  BY <1>1 DEF Flushed, TypeOK, Phases, Flushes
<1>3. Holds'
  BY DEF Flushed, TypeOK, Holds, Holding, Flushes, Locked
<1>4. OpenIsMarked'
  <2>1. CASE flushing[p] = "stop"
    <3>1. \A q \in Procs : held'[q] # "here"
      BY <2>1 DEF Flushed, TypeOK, Holds, Holding, Flushes
    <3> QED
      BY <3>1 DEF OpenIsMarked
  <2>2. CASE flushing[p] # "stop"
    <3>1. dirty' = dirty /\ held' = held
      BY <2>2 DEF Flushed, TypeOK, IsClose
    <3> QED
      BY <3>1 DEF Flushed, TypeOK, Flushes, OpenIsMarked
  <2> QED
    BY <2>1, <2>2
<1>5. Flushes'
  BY DEF Flushed, TypeOK, Flushes
<1> QED
  BY <1>2, <1>3, <1>4, <1>5

LEMMA MarksOpen ==
  ASSUME OpenInv, NEW p \in Procs, MarkSlots(p) \/ MarkFresh(p) \/ DropProgress(p) \/ Unmark(p)
  PROVE  OpenInv'
<1> USE DEF OpenInv, Goto
<1>1. CASE MarkSlots(p)
  <2>1. slots' \in BOOLEAN /\ excused' \subseteq Uris
    BY <1>1 DEF MarkSlots, TypeOK
  <2>4. slotDone' \in 0..MaxUri
    BY <1>1, BoundsAssumption DEF MarkSlots, TypeOK
  <2>2. TypeOK'
    BY <1>1, <2>1, <2>4 DEF MarkSlots, TypeOK, Phases
  <2>3. Holds' /\ OpenIsMarked' /\ Flushes'
    BY <1>1 DEF MarkSlots, TypeOK, OpenIsMarked, Flushes, Holds, Holding, Locked
  <2> QED
    BY <2>2, <2>3
<1>2. CASE MarkFresh(p)
  BY <1>2 DEF MarkFresh, TypeOK, Owed, Backfills, Phases, OpenIsMarked, Flushes, Holds, Holding,
     Locked
<1>3. CASE DropProgress(p)
  <2>1. pending' \in BOOLEAN
    BY <1>3 DEF DropProgress, TypeOK
  <2>4. done' \in 0..MaxUri
    BY <1>3, BoundsAssumption DEF DropProgress, TypeOK
  <2>2. TypeOK'
    BY <1>3, <2>1, <2>4 DEF DropProgress, TypeOK, Phases
  <2>3. Holds' /\ OpenIsMarked' /\ Flushes'
    BY <1>3 DEF DropProgress, TypeOK, OpenIsMarked, Flushes, Holds, Holding, Locked
  <2> QED
    BY <2>2, <2>3
<1>4. CASE Unmark(p)
  <2>1. TypeOK'
    BY <1>4 DEF Unmark, TypeOK, Phases
  <2>2. Holds' /\ OpenIsMarked' /\ Flushes'
    BY <1>4 DEF Unmark, TypeOK, OpenIsMarked, Flushes, Holds, Holding, Locked
  <2> QED
    BY <2>1, <2>2
<1> QED
  BY <1>1, <1>2, <1>3, <1>4

\* Before the open nothing is done to an index that somebody has.
LEMMA LookOpen ==
  ASSUME OpenInv, NEW p \in Procs, CheckTorn(p) \/ Probe(p) \/ MoveAside(p)
  PROVE  OpenInv'
<1> USE DEF OpenInv, TypeOK, Holds, Holding, OpenIsMarked, Flushes, Locked, Goto, files, Phases
<1>1. CASE CheckTorn(p)
  BY <1>1 DEF CheckTorn, Quarantine, Conditions
<1>2. CASE Probe(p)
  BY <1>2 DEF Probe
<1>3. CASE MoveAside(p)
  BY <1>3 DEF MoveAside, Quarantine, Conditions
<1> QED
  BY <1>1, <1>2, <1>3

\* No step of any process disturbs it.
LEMMA StepOpen ==
  ASSUME OpenInv, [MCNext]_vars
  PROVE  OpenInv'
<1> USE DEF OpenInv, TypeOK, Holds, Holding, OpenIsMarked, Flushes, Locked, Goto, files, counts,
            Phases
<1>1. ASSUME NEW p \in Procs, Start(p) \/ Retry(p) \/ Exit(p) PROVE OpenInv'
  BY <1>1 DEF Start, Retry, Exit
<1>2. ASSUME NEW p \in Procs, MarkDirty(p) \/ Stop(p) PROVE OpenInv'
  <2>1. CASE MarkDirty(p)
    BY <2>1 DEF MarkDirty
  <2>2. CASE Stop(p)
    BY <2>2 DEF Stop
  <2> QED
    BY <1>2, <2>1, <2>2
<1>3. ASSUME NEW p \in Procs, BgList(p) \/ BgEmbed(p) \/ BgFlush(p) PROVE OpenInv'
  <2>1. CASE BgList(p)
    BY <2>1 DEF BgList, BgStep
  <2>2. CASE BgEmbed(p)
    BY <2>2, MinUri DEF BgEmbed, BgStep, Embedded
  <2>3. CASE BgFlush(p)
    BY <2>3 DEF BgFlush, BgStep
  <2> QED
    BY <1>3, <2>1, <2>2, <2>3
<1>4. ASSUME NEW p \in Procs, NEW u \in Uris, Save(p, u) PROVE OpenInv'
  BY <1>4 DEF Save, Embedded
<1>5. CASE UNCHANGED vars
  BY <1>5 DEF vars
<1> QED
  BY <1>1, <1>2, <1>3, <1>4, <1>5, LookOpen, OpenOpen, MarksOpen, MigrateOpen, FillOpen,
     FlushedOpen, CrashOpen DEF MCNext, Next, Opening, Backfilling

\* An index that a process has open carries its dirty marker, however many processes come and
\* go beside it (open_vector_index of tools.rs, close of zvec_index.rs): the next process looks
\* at it before it opens it.
THEOREM IndexMarkedWhileOpen == MCSpec => []MarkedWhileOpen
<1>1. OpenInv => MarkedWhileOpen
  BY DEF OpenInv, MarkedWhileOpen
<1> QED
  BY <1>1, InitOpen, StepOpen, PTL DEF MCSpec

\* And it stays where it is: nobody moves it aside under the process that has it (the probe of
\* tools.rs counts a locked index as in use).
THEOREM IndexInUseIsKept == MCSpec => InUseIsKept
<1>1. OpenInv /\ OpenInv' /\ [MCNext]_vars =>
        [\A p \in Procs : held[p] = "here" => held'[p] # "moved"]_held
  BY DEF OpenInv, Holds
<1> QED
  BY <1>1, InitOpen, StepOpen, PTL DEF MCSpec, InUseIsKept

-----------------------------------------------------------------------------
(* Which records are owed a vector.                                        *)

\* A record's vector is in the index, or was lost or left out by a failure.
Has(u) == u \in vec \cup excused
Complete == \A u \in db : Has(u)

\* An index that was created and whose backfill marker is not yet written.
Unsettled == \E p \in Procs : fresh[p] /\ phase[p] \in {"mark", "slotmark", "fresh?"}

\* With no backfill outstanding an index is complete, or complete up to the checkpoint of its
\* migration.
Covered ==
  dir # "absent" /\ ~Unsettled /\ ~pending =>
    \A u \in db : slots \/ u \notin Scoped \/ u <= slotDone => Has(u)

\* A fresh index is not migrated, one that was migrated is complete.
Migrated ==
  \A p \in Procs :
    /\ phase[p] = "migrate" => ~fresh[p]
    /\ phase[p] = "slotmark" /\ ~fresh[p] /\ ~slots /\ ~pending => Complete

\* The checkpoint of a backfill stands for vectors that are there, which takes that no vector
\* is lost while one is kept.
Checked ==
  /\ \A u \in db : u <= done => Has(u)
  /\ \A p \in Procs : phase[p] \in {"fill", "filled"} => p \notin Servers
  /\ LosesUnflushed => done = 0

\* A backfill that has come to its end has been everywhere.
Filled ==
  \A p \in Procs :
    /\ phase[p] = "filled" \/ flushing[p] = "fill" => Complete
    /\ bg[p] = "embed" => \A u \in db \ todo[p] : Has(u)

CoverInv == Covered /\ Migrated /\ Checked /\ Filled

\* Where the marker scheme reaches: no process is killed between the open of a fresh index and
\* its marker, and where a power-off may take vectors nobody resumes from a checkpoint.
KillsAreCovered ==
  /\ CrashPoints \cap {"mark", "slotmark", "fresh?"} = {}
  /\ LosesUnflushed => Procs \subseteq Servers

LEMMA InitCover == ASSUME Init PROVE CoverInv
BY BoundsAssumption
   DEF Init, CoverInv, Covered, Migrated, Checked, Filled, Complete, Has, Unsettled, Uris

\* Who has the index open is alone with it, and its phase says whether it is settled.
LEMMA HolderAlone ==
  ASSUME OpenInv, NEW p \in Procs, phase[p] \in Holding
  PROVE  /\ held[p] = "here" /\ dir = "whole"
         /\ \A q \in Procs : phase[q] \in Holding => q = p
         /\ Unsettled <=> fresh[p] /\ phase[p] \in {"mark", "slotmark", "fresh?"}
<1>1. held[p] = "here" /\ \A q \in Procs : phase[q] \in Holding => q = p
  BY DEF OpenInv, Holds
<1>2. dir = "whole"
  BY <1>1 DEF OpenInv, Holds, Locked
<1> QED
  BY <1>1, <1>2 DEF Unsettled, Holding

\* What the looks at a directory, and the moves, leave of it.
LEMMA LookCover ==
  ASSUME OpenInv, CoverInv, NEW p \in Procs, CheckTorn(p) \/ Probe(p) \/ MoveAside(p) \/ Unmark(p)
  PROVE  CoverInv'
<1> USE DEF OpenInv, CoverInv, TypeOK, Holds, Holding, Locked, Flushes, Goto, files, Quarantine,
            Complete, Has, Unsettled
<1>1. CASE CheckTorn(p)
  <2>1. Covered' /\ Checked'
    BY <1>1 DEF CheckTorn, Covered, Checked
  <2>2. Migrated' /\ Filled'
    BY <1>1 DEF CheckTorn, Migrated, Filled
  <2> QED
    BY <2>1, <2>2
<1>2. CASE Probe(p)
  <2>1. Covered' /\ Checked'
    BY <1>2 DEF Probe, Covered, Checked
  <2>2. Migrated' /\ Filled'
    BY <1>2 DEF Probe, Migrated, Filled
  <2> QED
    BY <2>1, <2>2
<1>3. CASE MoveAside(p)
  <2>1. Covered' /\ Checked'
    BY <1>3 DEF MoveAside, Covered, Checked
  <2>2. Migrated' /\ Filled'
    BY <1>3 DEF MoveAside, Migrated, Filled
  <2> QED
    BY <2>1, <2>2
<1>4. CASE Unmark(p)
  <2>1. Covered' /\ Checked'
    BY <1>4 DEF Unmark, Covered, Checked
  <2>2. Migrated' /\ Filled'
    BY <1>4 DEF Unmark, Migrated, Filled
  <2> QED
    BY <2>1, <2>2
<1> QED
  BY <1>1, <1>2, <1>3, <1>4

\* A directory that was not there is fresh, and unsettled from here on.
LEMMA OpenCover ==
  ASSUME OpenInv, CoverInv, NEW p \in Procs, Open(p)
  PROVE  CoverInv'
<1> USE DEF OpenInv, CoverInv, TypeOK, Holds, Holding, Locked, Flushes, Goto, files
<1>1. Covered'
  <2>1. CASE dir = "absent" /\ dir' = "whole"
    <3>1. fresh'[p] /\ phase'[p] = "mark"
      BY <2>1 DEF Open
    <3> QED
      BY <3>1 DEF Covered, Unsettled
  <2>2. CASE dir' = dir
    <3>1. \A q \in Procs : q # p => phase'[q] = phase[q] /\ fresh'[q] = fresh[q]
      BY DEF Open
    <3>2. phase[p] = "open"
      BY DEF Open
    <3>3. Unsettled => Unsettled'
      BY <3>1, <3>2 DEF Unsettled
    <3> QED
      BY <2>2, <3>3 DEF Open, Covered, Has
  <2> QED
    BY <2>1, <2>2 DEF Open
<1>2. Migrated'
  BY DEF Open, Migrated, Complete, Has
<1>3. Checked'
  BY DEF Open, Checked, Has
<1>4. Filled'
  BY DEF Open, Filled, Complete, Has
<1> QED
  BY <1>1, <1>2, <1>3, <1>4

LEMMA MigrateCover ==
  ASSUME OpenInv, CoverInv, NEW p \in Procs, Migrate(p)
  PROVE  CoverInv'
<1> USE DEF OpenInv, CoverInv, TypeOK, Goto
<1> DEFINE left == {u \in Scoped \cap db : u > slotDone}
<1>1. /\ phase[p] = "migrate" /\ held[p] = "here" /\ dir = "whole" /\ ~Unsettled
      /\ \A q \in Procs : phase[q] \in Holding => q = p
  BY HolderAlone DEF Migrate, Holding
<1>2. left # {} => Min(left) \in left /\ Min(left) \in Uris /\ \A u \in left : Min(left) <= u
  BY MinUri
<1>3. \A u \in db : Has(u) => Has(u)'
  BY <1>1 DEF Migrate, Has, Embedded
<1>4. Covered'
  <2>1. ASSUME NEW u \in db, ~pending, slots \/ u \notin Scoped \/ u <= slotDone' PROVE Has(u)'
    <3>1. CASE slots \/ u \notin Scoped \/ u <= slotDone
      BY <1>1, <1>3, <2>1, <3>1 DEF Covered
    <3>2. CASE u \in left /\ ~slots
      <4>1. CASE slotDone' = Min(left) /\ vec' = Embedded(p, {Min(left)})
        <5>1. u = Min(left)
          BY <1>2, <2>1, <3>2, <4>1 DEF Uris
        <5> QED
          BY <1>1, <4>1, <5>1 DEF Has, Embedded
      <4>2. CASE slotDone' = slotDone
        BY <2>1, <3>2, <4>2 DEF Uris
      <4> QED
        BY <3>2, <4>1, <4>2 DEF Migrate
    <3> QED
      BY <2>1, <3>1, <3>2 DEF Uris
  <2> QED
    BY <2>1 DEF Migrate, Covered
<1>5. Migrated'
  <2>1. left = {} /\ ~pending => Complete
    BY <1>1 DEF Covered, Complete, Uris
  <2> QED
    BY <1>1, <1>3, <2>1 DEF Migrate, Migrated, Complete, Holding
<1>6. Checked'
  BY <1>1, <1>3 DEF Migrate, Checked
<1>7. Filled'
  BY <1>1, <1>3 DEF Migrate, Filled, Complete, Flushes, Holding
<1> QED
  BY <1>4, <1>5, <1>6, <1>7

LEMMA MarksCover ==
  ASSUME OpenInv, CoverInv, NEW p \in Procs, MarkDirty(p) \/ MarkSlots(p) \/ MarkFresh(p)
  PROVE  CoverInv'
<1> USE DEF OpenInv, CoverInv, TypeOK, Holds, Holding, Locked, Flushes, Goto, Owed, Backfills
<1>1. CASE MarkDirty(p)
  BY <1>1 DEF MarkDirty, Covered, Migrated, Checked, Filled, Complete, Has, Unsettled
<1>2. CASE MarkSlots(p)
  <2>1. /\ phase[p] = "slotmark" /\ dir = "whole" /\ (Unsettled <=> fresh[p])
        /\ \A q \in Procs : phase[q] \in Holding => q = p
    BY <1>2, HolderAlone DEF MarkSlots
  <2>2. Covered'
    <3>1. CASE slots' /\ fresh[p]
      <4>1. Unsettled'
        BY <1>2, <3>1 DEF MarkSlots, Unsettled
      <4> QED
        BY <4>1 DEF Covered
    <3>2. CASE slots' /\ ~fresh[p]
      <4>1. ~pending /\ ~slots => Complete
        BY <2>1, <3>2 DEF Migrated
      <4>2. ~pending /\ slots => Complete
        BY <2>1, <3>2 DEF Covered, Complete
      <4> QED
        BY <1>2, <3>2, <4>1, <4>2 DEF MarkSlots, Covered, Complete, Has
    <3>3. CASE ~slots' /\ fresh[p]
      BY <1>2, <3>3 DEF MarkSlots, Covered, Has
    <3>4. CASE ~slots' /\ ~fresh[p]
      BY <1>2, <2>1, <3>4 DEF MarkSlots, Covered, Has
    <3> QED
      BY <3>1, <3>2, <3>3, <3>4
  <2>3. Migrated' /\ Checked'
    BY <1>2, <2>1 DEF MarkSlots, Migrated, Checked, Complete, Has
  <2>4. Filled'
    BY <1>2, <2>1 DEF MarkSlots, Filled, Complete, Has
  <2> QED
    BY <2>2, <2>3, <2>4
<1>3. CASE MarkFresh(p)
  BY <1>3 DEF MarkFresh, Covered, Migrated, Checked, Filled, Complete, Has, Unsettled
<1> QED
  BY <1>1, <1>2, <1>3

\* A checkpoint goes with its vector, and the end of the walk is the end of the records.
LEMMA FillCover ==
  ASSUME KillsAreCovered, OpenInv, CoverInv, NEW p \in Procs, Fill(p)
  PROVE  CoverInv'
<1> USE DEF OpenInv, CoverInv, TypeOK, Goto
<1> DEFINE left == {u \in db : u > done}
<1>1. /\ phase[p] = "fill" /\ held[p] = "here" /\ dir = "whole" /\ ~Unsettled
      /\ \A q \in Procs : phase[q] \in Holding => q = p
  BY HolderAlone DEF Fill, Holding
<1>2. left # {} => Min(left) \in left /\ Min(left) \in Uris /\ \A u \in left : Min(left) <= u
  BY MinUri
<1>3. \A u \in db : Has(u) => Has(u)'
  BY <1>1 DEF Fill, Has, Embedded
<1>4. p \notin Servers /\ ~LosesUnflushed
  BY <1>1 DEF Checked, KillsAreCovered
<1>5. Checked'
  <2>1. ASSUME NEW u \in db, u <= done' PROVE Has(u)'
    <3>1. CASE u <= done
      BY <1>3, <3>1 DEF Checked
    <3>2. CASE u \in left
      <4>1. CASE done' = Min(left) /\ vec' = Embedded(p, {Min(left)})
        <5>1. u = Min(left)
          BY <1>2, <2>1, <3>2, <4>1 DEF Uris
        <5> QED
          BY <1>1, <4>1, <5>1 DEF Has, Embedded
      <4>2. CASE done' = done
        BY <2>1, <3>2, <4>2 DEF Uris
      <4> QED
        BY <3>2, <4>1, <4>2 DEF Fill
    <3> QED
      BY <3>1, <3>2 DEF Uris
  <2> QED
    BY <1>1, <1>4, <2>1 DEF Fill, Checked
<1>6. Filled'
  <2>1. left = {} => Complete
    BY DEF Checked, Complete, Uris
  <2> QED
    BY <1>1, <1>3, <2>1 DEF Fill, Filled, Complete, Flushes, Holding
<1>7. Covered' /\ Migrated'
  BY <1>1, <1>3 DEF Fill, Covered, Migrated, Complete, Unsettled, Holding
<1> QED
  BY <1>5, <1>6, <1>7

\* The marker goes after the last record, in a local process and in a server.
LEMMA EndCover ==
  ASSUME OpenInv, CoverInv, NEW p \in Procs, DropProgress(p) \/ Flushed(p)
  PROVE  CoverInv'
<1> USE DEF OpenInv, CoverInv, TypeOK, Holds, Holding, Flushes, Goto
<1>1. CASE DropProgress(p)
  <2>1. Complete /\ Complete'
    BY <1>1 DEF DropProgress, Filled, Complete, Has
  <2>2. Covered' /\ Migrated' /\ Filled'
    BY <1>1, <2>1 DEF DropProgress, Covered, Migrated, Filled, Complete, Has
  <2>3. \A u \in db : Has(u)'
    BY <1>1, <2>1 DEF DropProgress, Complete, Has
  <2>4. (LosesUnflushed => done' = 0) /\ db' = db
    BY <1>1 DEF DropProgress, Checked
  <2>5. \A q \in Procs : phase'[q] \in {"fill", "filled"} => q \notin Servers
    BY <1>1 DEF DropProgress, Checked
  <2>6. Checked'
    BY <2>3, <2>4, <2>5 DEF Checked
  <2> QED
    BY <2>2, <2>6
<1>2. CASE Flushed(p)
  <2>1. \A u \in db : Has(u)' <=> Has(u)
    BY <1>2 DEF Flushed, Has
  <2>2. Migrated' /\ Checked' /\ Filled'
    BY <1>2 DEF Flushed, Migrated, Checked, Filled, Complete, Has
  <2>3. Covered'
    <3>1. CASE flushing[p] = "backfill"
      <4>1. Complete
        BY <3>1 DEF Filled, Complete
      <4> QED
        BY <1>2, <2>1, <4>1 DEF Flushed, Covered, Complete
    <3>2. CASE flushing[p] # "backfill"
      <4>1. pending' = pending /\ (Unsettled => Unsettled')
        BY <1>2, <3>2 DEF Flushed, Unsettled
      <4> QED
        BY <1>2, <2>1, <4>1 DEF Flushed, Covered
    <3> QED
      BY <3>1, <3>2
  <2> QED
    BY <2>2, <2>3
<1> QED
  BY <1>1, <1>2

\* A kill loses what was not flushed, of an index that was settled, and no checkpoint with it.
LEMMA CrashCover ==
  ASSUME KillsAreCovered, OpenInv, CoverInv, NEW p \in Procs, Crash(p)
  PROVE  CoverInv'
<1> USE DEF OpenInv, CoverInv, TypeOK, Goto
<1>1. phase[p] \notin {"mark", "slotmark", "fresh?"} /\ db' = db /\ pending' = pending
      /\ slots' = slots /\ slotDone' = slotDone /\ done' = done
  BY DEF Crash, KillsAreCovered
<1>2. Unsettled => Unsettled'
  BY <1>1 DEF Crash, Unsettled
<1>3. CASE held[p] = "here"
  <2>1. \A q \in Procs : phase'[q] \notin Holding
    BY <1>3 DEF Crash, Holds, Holding
  <2>2. ~pending => \A u \in db : Has(u) => Has(u)'
    BY <1>3 DEF Crash, Has
  <2>3. ~LosesUnflushed => \A u \in db : Has(u) => Has(u)'
    BY <1>3 DEF Crash, Has
  <2>4. dir # "absent"
    BY <1>3, HolderAlone DEF Holds
  <2>5. Covered'
    BY <1>1, <1>2, <2>2, <2>4 DEF Covered
  <2>6. Checked'
    <3>1. CASE LosesUnflushed
      <4>1. done' = 0 /\ \A u \in db : ~(u <= done')
        BY <1>1, <3>1 DEF Checked, Uris
      <4> QED
        BY <1>1, <4>1 DEF Crash, Checked
    <3>2. CASE ~LosesUnflushed
      BY <1>1, <2>3, <3>2 DEF Crash, Checked
    <3> QED
      BY <3>1, <3>2
  <2>7. Migrated' /\ Filled'
    BY <2>1 DEF Crash, Migrated, Filled, Flushes, Holds, Holding
  <2> QED
    BY <2>5, <2>6, <2>7
<1>4. CASE held[p] # "here"
  <2>1. UNCHANGED <<dir, vec, excused>> /\ \A u \in db : Has(u)' <=> Has(u)
    BY <1>4 DEF Crash, Has
  <2>2. Covered'
    BY <1>1, <1>2, <2>1 DEF Covered
  <2>3. Migrated' /\ Checked' /\ Filled'
    BY <1>1, <2>1 DEF Crash, Migrated, Checked, Filled, Complete
  <2> QED
    BY <2>2, <2>3
<1> QED
  BY <1>3, <1>4

LEMMA StepCover ==
  ASSUME KillsAreCovered, OpenInv, CoverInv, [MCNext]_vars
  PROVE  CoverInv'
<1> USE DEF OpenInv, CoverInv, TypeOK, Holds, Holding, Flushes, Goto, files, counts, Covered,
            Migrated, Checked, Filled, Complete, Has, Unsettled
<1>1. ASSUME NEW p \in Procs, Start(p) \/ Retry(p) \/ Exit(p) PROVE CoverInv'
  <2>1. UNCHANGED <<db, files, fresh, held, flushing, todo, bg, excused>>
    BY <1>1 DEF Start, Retry, Exit
  <2>2. \A q \in Procs : phase'[q] = phase[q] \/ (q = p /\ phase'[q] \in {"torn?", "down"})
    BY <1>1 DEF Start, Retry, Exit
  <2> QED
    BY <1>1, <2>1, <2>2 DEF Start, Retry, Exit
<1>2. ASSUME NEW p \in Procs, BgList(p) PROVE CoverInv'
  BY <1>2 DEF BgList, BgStep
<1>3. ASSUME NEW p \in Procs, BgEmbed(p) PROVE CoverInv'
  BY <1>3 DEF BgEmbed, BgStep, Embedded
<1>4. ASSUME NEW p \in Procs, BgFlush(p) \/ Stop(p) PROVE CoverInv'
  BY <1>4 DEF BgFlush, BgStep, Stop
<1>5. ASSUME NEW p \in Procs, NEW u \in Uris, Save(p, u) PROVE CoverInv'
  BY <1>5 DEF Save, Embedded
<1>6. CASE UNCHANGED vars
  BY <1>6 DEF vars
<1> QED
  BY <1>1, <1>2, <1>3, <1>4, <1>5, <1>6, LookCover, OpenCover, MigrateCover, MarksCover, FillCover,
     EndCover, CrashCover DEF MCNext, Next, Opening, Backfilling

\* Where a process serves, the markers are settled, so what it does not owe is there.
LEMMA CoverIsComplete == ASSUME OpenInv, CoverInv PROVE HybridComplete
<1>1. ASSUME NEW p \in Procs, phase[p] = "serving", slots, ~pending
      PROVE  db \subseteq vec \cup excused
  <2>1. dir = "whole" /\ ~Unsettled
    BY <1>1, HolderAlone DEF Holding
  <2> QED
    BY <1>1, <2>1 DEF CoverInv, Covered, Has
<1> QED
  BY <1>1 DEF HybridComplete

\* Hybrid recall gates on cosine, so a record without a vector is not found: a process that
\* serves an index with no backfill outstanding has a vector for every record, whatever index
\* it found and however often the processes before it were stopped (open_vector_index,
\* migrate_vector_slots, backfill_vectors of tools.rs, run_backfill of server.rs).
THEOREM IndexIsComplete == ASSUME KillsAreCovered PROVE MCSpec => []HybridComplete
<1>1. OpenInv /\ CoverInv => HybridComplete
  BY CoverIsComplete
<1>2. Init => OpenInv /\ CoverInv
  BY InitOpen, InitCover
<1>3. OpenInv /\ CoverInv /\ [MCNext]_vars => OpenInv' /\ CoverInv'
  BY StepOpen, StepCover
<1> QED
  BY <1>1, <1>2, <1>3, PTL DEF MCSpec

-----------------------------------------------------------------------------
(* An index that is not whole.                                             *)

\* One process at a time uses the directory, and is not killed between the open and its marker.
Alone == (\A p, q \in Procs : p = q) /\ "mark" \notin CrashPoints

\* A damaged index is marked, and each look narrows what the next finds.
Sound ==
  /\ dir \in {"torn", "damaged"} => dirty
  /\ \A p \in Procs :
       /\ phase[p] = "probe" => dir # "torn"
       /\ phase[p] = "quarantined" => dir = "absent"
       /\ phase[p] = "open" => dir \in {"absent", "whole"}

\* The bound of MCNext holds of one process by itself.
LEMMA AloneIsApart ==
  ASSUME Alone, OpenInv, [Next]_vars
  PROVE  [MCNext]_vars
<1>1. ASSUME NEW p \in Procs, NEW q \in Procs, phase[p] \in {"condemned", "quarantined"}, Next
      PROVE  held'[q] = "here" => held[q] = "here"
  <2>1. p = q /\ \A r \in Procs : phase[r] \in {"condemned", "quarantined"}
    BY <1>1 DEF Alone
  <2>2. ASSUME NEW r \in Procs, Start(r) \/ Opening(r) PROVE held'[q] = "here" => held[q] = "here"
    BY <2>1, <2>2
       DEF OpenInv, TypeOK, Opening, Start, Retry, CheckTorn, Probe, MoveAside, Quarantine, Unmark,
           Open, MarkDirty, Migrate, MarkSlots, MarkFresh
  <2>3. ASSUME NEW r \in Procs, Backfilling(r) PROVE held' = held
    BY <2>3 DEF Backfilling, Fill, DropProgress, BgList, BgEmbed, BgFlush
  <2>4. ASSUME NEW r \in Procs, Stop(r) \/ Flushed(r) \/ Crash(r) \/ Exit(r)
        PROVE  held'[q] = "here" => held[q] = "here"
    BY <2>4 DEF OpenInv, TypeOK, Stop, Flushed, Crash, Exit
  <2>5. ASSUME NEW r \in Procs, NEW u \in Uris, Save(r, u) PROVE held' = held
    BY <2>5 DEF Save
  <2> QED
    BY <1>1, <2>2, <2>3, <2>4, <2>5 DEF Next
<1> QED
  BY <1>1 DEF MCNext, Apart

LEMMA StepSound ==
  ASSUME Alone, OpenInv, Sound, [Next]_vars
  PROVE  Sound'
<1> USE DEF Alone, OpenInv, TypeOK, Holds, Holding, Locked, OpenIsMarked, Sound, Goto, files, counts
<1>1. ASSUME NEW p \in Procs, Start(p) \/ Retry(p) \/ Exit(p) PROVE Sound'
  BY <1>1 DEF Start, Retry, Exit
<1>2. ASSUME NEW p \in Procs, CheckTorn(p) PROVE Sound'
  BY <1>2 DEF CheckTorn, Quarantine
<1>3. ASSUME NEW p \in Procs, Probe(p) PROVE Sound'
  BY <1>3 DEF Probe, Conditions
<1>4. ASSUME NEW p \in Procs, MoveAside(p) \/ Unmark(p) PROVE Sound'
  BY <1>4 DEF MoveAside, Unmark, Quarantine
<1>5. ASSUME NEW p \in Procs, Open(p) \/ MarkDirty(p) PROVE Sound'
  BY <1>5 DEF Open, MarkDirty
<1>6. ASSUME NEW p \in Procs, Migrate(p) \/ MarkSlots(p) \/ MarkFresh(p) PROVE Sound'
  BY <1>6 DEF Migrate, MarkSlots, MarkFresh
<1>7. ASSUME NEW p \in Procs, Fill(p) \/ DropProgress(p) PROVE Sound'
  BY <1>7 DEF Fill, DropProgress
<1>8. ASSUME NEW p \in Procs, BgList(p) \/ BgEmbed(p) \/ BgFlush(p) \/ Stop(p) PROVE Sound'
  BY <1>8 DEF BgList, BgEmbed, BgFlush, BgStep, Stop
<1>9. ASSUME NEW p \in Procs, Flushed(p) PROVE Sound'
  BY <1>9 DEF Flushed, Flushes
<1>10. ASSUME NEW p \in Procs, Crash(p) PROVE Sound'
  BY <1>10 DEF Crash
<1>11. ASSUME NEW p \in Procs, NEW u \in Uris, Save(p, u) PROVE Sound'
  BY <1>11 DEF Save
<1>12. CASE UNCHANGED vars
  BY <1>12 DEF vars
<1> QED
  BY <1>1, <1>2, <1>3, <1>4, <1>5, <1>6, <1>7, <1>8, <1>9, <1>10, <1>11, <1>12
     DEF Next, Opening, Backfilling

\* zvec dies opening an index that is not whole, on every restart: a process that is alone with
\* the directory never hands it one (torn_reason of zvec_index.rs, the probe of tools.rs).
THEOREM IndexOpenedWhole == ASSUME Alone PROVE Spec => []NeverOpensTorn
<1>1. Init => OpenInv /\ Sound
  BY InitOpen DEF Init, Sound
<1>2. OpenInv /\ Sound /\ [Next]_vars => OpenInv' /\ Sound'
  BY AloneIsApart, StepOpen, StepSound
<1>3. Sound => NeverOpensTorn
  BY DEF Sound, NeverOpensTorn
<1> QED
  BY <1>1, <1>2, <1>3, PTL DEF Spec
=============================================================================
