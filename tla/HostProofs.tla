----------------------------- MODULE HostProofs -----------------------------
(***************************************************************************)
(* Proofs about what dmem does on a machine: upgrades, for every set of    *)
(* versions and any number of them at a time; bootstrap, for any sets of   *)
(* agents and any number of kills; the client and its service, imports,    *)
(* skills, and the readiness of a server with any number of probes.        *)
(*                                                                         *)
(* Three facts carry an upgrade from its first check to the rename: what   *)
(* it holds past Verify is the build it announced, it did not begin on a   *)
(* managed install, and while it is alone the installed version is the one *)
(* it compared with.                                                       *)
(*                                                                         *)
(* Bootstrap keeps a file of the user readable with their entries in it,   *)
(* or torn with the entries in its copy: what replaces a file reads it     *)
(* first, and the removal from a Cowork workspace, which does not, comes   *)
(* after the check of both its files.  An identity file is the user's text *)
(* and then blocks, of which only the last can be whole.                   *)
(*                                                                         *)
(* A client is kept on its server by the link, which only logout and the   *)
(* wizard take out.  A manifest that nobody went past is right about the   *)
(* store but for files that a killed import stored, which say what the     *)
(* store says.  A fault that is older than the limit and the slowest       *)
(* refresh was there when the cached result was read.                      *)
(***************************************************************************)
EXTENDS MCHost, TLAPS, SequenceTheorems, WellFoundedInduction, FiniteSetTheorems

-----------------------------------------------------------------------------
(* Upgrades.                                                               *)

Stages == {"idle", "list", "download", "verify", "prompt", "replace", "library"}

\* The types the proofs need beyond TypeOK.
Typed ==
  /\ pc \in [Upgraders -> Stages] /\ own \in [Upgraders -> Versions]
  /\ picked \in [Upgraders -> Versions \cup {0}]
  /\ \A v \in DOMAIN released : released[v] \in Assets

\* Past Verify the archive is the build of the release that was picked.
Genuine ==
  \A p \in Upgraders :
    pc[p] \in {"prompt", "replace", "library"} => held[p].archive = picked[p]

\* What is picked is a release, and newer than the running version.
Newer ==
  \A p \in Upgraders :
    pc[p] \in Stages \ {"idle", "list"} =>
      picked[p] \in DOMAIN released /\ picked[p] \in Versions /\ own[p] < picked[p]

\* A process that is under way began on an install that nobody managed.
Unfenced == \A p \in Upgraders : pc[p] # "idle" => p \notin fenced

\* While no two overlap, the running version is still the installed one.
Alone ==
  ~overlap => /\ \A p, q \in Upgraders : pc[p] # "idle" /\ pc[q] # "idle" => p = q
              /\ \A p \in Upgraders :
                   pc[p] \in Stages \ {"idle", "library"} => own[p] = bin

UpgradeInv == TypeOK /\ Typed /\ Genuine /\ Newer /\ Unfenced /\ Alone

-----------------------------------------------------------------------------
LEMMA InitInv == ASSUME UpgradeConstants, Init PROVE UpgradeInv
<1> USE DEF UpgradeConstants
<1>1. TypeOK /\ Typed
  BY DEF Init, TypeOK, Typed, Stages, Assets, NoAsset, Tampered
<1>2. Genuine /\ Newer /\ Unfenced /\ Alone
  BY DEF Init, Genuine, Newer, Unfenced, Alone, Stages
<1> QED
  BY <1>1, <1>2 DEF UpgradeInv

\* A process that ends leaves the invariant as it was, whatever version it leaves behind.
LEMMA EndsInv ==
  ASSUME UpgradeConstants, UpgradeInv, NEW p \in Upgraders, Ends(p),
         UNCHANGED <<released, bin, marker, fenced, overlap>>, lib' \in Versions
  PROVE  UpgradeInv'
<1> USE DEF UpgradeConstants
<1>1. TypeOK' /\ Typed'
  BY DEF UpgradeInv, TypeOK, Typed, Ends, Goto, Stages, Assets, NoAsset, Tampered
<1>2. \A q \in Upgraders \ {p} : /\ pc'[q] = pc[q] /\ own'[q] = own[q]
                                 /\ picked'[q] = picked[q] /\ held'[q] = held[q]
  BY DEF UpgradeInv, TypeOK, Typed, Ends, Goto
<1>3. pc'[p] = "idle"
  BY DEF UpgradeInv, Typed, Ends, Goto
<1>4. Genuine' /\ Newer' /\ Unfenced' /\ Alone'
  BY <1>2, <1>3 DEF UpgradeInv, Genuine, Newer, Unfenced, Alone, Stages
<1> QED
  BY <1>1, <1>4 DEF UpgradeInv

\* Every step keeps the invariant.
LEMMA StepInv ==
  ASSUME UpgradeConstants, UpgradeInv, [Next]_vars
  PROVE  UpgradeInv'
<1> USE DEF UpgradeConstants
<1>1. ASSUME NEW v \in Versions, NEW a \in Assets, Publish(v, a) PROVE UpgradeInv'
  <2>1. \A w \in DOMAIN released' : w \in Versions /\ released'[w] \in Assets
    BY <1>1 DEF Publish, UpgradeInv, TypeOK, Typed
  <2> QED
    BY <1>1, <2>1 DEF Publish, UpgradeInv, TypeOK, Typed, Genuine, Newer, Unfenced, Alone
<1>2. CASE Manage
  BY <1>2 DEF Manage, UpgradeInv, TypeOK, Typed, Genuine, Newer, Unfenced, Alone
<1>3. ASSUME NEW p \in Upgraders, Begin(p) PROVE UpgradeInv'
  <2>1. CASE marker
    BY <1>3, <2>1 DEF Begin, Fence, UpgradeInv, TypeOK, Typed, Genuine, Newer, Unfenced, Alone
  <2>2. CASE ~marker
    <3>1. /\ pc[p] = "idle" /\ pc' = [pc EXCEPT ![p] = "list"] /\ fenced' = fenced \ {p}
          /\ own' = [own EXCEPT ![p] = bin]
          /\ overlap' = (overlap \/ \E q \in Upgraders \ {p} : pc[q] # "idle")
          /\ UNCHANGED <<released, bin, lib, marker, picked, held>>
      BY <1>3, <2>2 DEF Begin, Fence, Goto
    <3>2. TypeOK' /\ Typed'
      BY <3>1 DEF UpgradeInv, TypeOK, Typed, Stages
    <3>3. Genuine' /\ Newer' /\ Unfenced' /\ Alone'
      BY <3>1 DEF UpgradeInv, Typed, Genuine, Newer, Unfenced, Alone, Stages
    <3> QED
      BY <3>2, <3>3 DEF UpgradeInv
  <2> QED
    BY <2>1, <2>2
<1>4. ASSUME NEW p \in Upgraders, Pick(p) PROVE UpgradeInv'
  <2>1. CASE Ends(p)
    BY <1>4, <2>1, EndsInv DEF Pick, UpgradeInv, TypeOK
  <2>2. CASE ~Ends(p)
    <3>1. pc[p] = "list"
      BY <1>4 DEF Pick
    <3>2. PICK v \in DOMAIN released :
            ~UpToDate(p, v) /\ picked' = [picked EXCEPT ![p] = v] /\ Goto(p, "download")
      BY <1>4, <2>2 DEF Pick, Newest
    <3>3. v \in Versions /\ own[p] < v
      <4>1. v \in Versions /\ own[p] \in Nat /\ v \in Nat
        BY DEF UpgradeInv, TypeOK, Typed
      <4> QED
        BY <3>2, <4>1 DEF UpToDate
    <3>4. UNCHANGED <<released, bin, lib, marker, own, held, fenced, overlap>>
      BY <1>4, <2>2 DEF Pick
    <3> QED
      BY <3>1, <3>2, <3>3, <3>4 DEF Goto, UpgradeInv, TypeOK, Typed, Genuine, Newer, Unfenced,
         Alone, Stages
  <2> QED
    BY <2>1, <2>2
<1>5. ASSUME NEW p \in Upgraders, Download(p) PROVE UpgradeInv'
  <2>1. released[picked[p]] \in Assets
    BY <1>5 DEF Download, UpgradeInv, Typed, Newer, Stages
  <2>2. pc[p] = "download" /\ Goto(p, "verify") /\ held' = [held EXCEPT ![p] = released[picked[p]]]
        /\ UNCHANGED <<released, bin, lib, marker, own, picked, fenced, overlap>>
    BY <1>5 DEF Download
  <2>3. TypeOK' /\ Typed'
    BY <2>1, <2>2 DEF Goto, UpgradeInv, TypeOK, Typed, Stages
  <2>4. Genuine' /\ Newer' /\ Unfenced' /\ Alone'
    BY <2>2 DEF Goto, UpgradeInv, TypeOK, Typed, Genuine, Newer, Unfenced, Alone, Stages
  <2> QED
    BY <2>3, <2>4 DEF UpgradeInv
<1>6. ASSUME NEW p \in Upgraders, Verify(p) PROVE UpgradeInv'
  <2>1. CASE Verified(held[p], picked[p])
    <3>1. /\ pc[p] = "verify" /\ Goto(p, "prompt") /\ held[p].archive = picked[p]
          /\ UNCHANGED <<released, bin, lib, marker, own, picked, held, fenced, overlap>>
      BY <1>6, <2>1 DEF Verify, Verified
    <3>2. TypeOK' /\ Typed'
      BY <3>1 DEF Goto, UpgradeInv, TypeOK, Typed, Stages
    <3>3. Genuine' /\ Newer' /\ Unfenced' /\ Alone'
      BY <3>1 DEF Goto, UpgradeInv, Typed, Genuine, Newer, Unfenced, Alone, Stages
    <3> QED
      BY <3>2, <3>3 DEF UpgradeInv
  <2>2. CASE ~Verified(held[p], picked[p])
    BY <1>6, <2>2, EndsInv DEF Verify, UpgradeInv, TypeOK
  <2> QED
    BY <2>1, <2>2
<1>7. ASSUME NEW p \in Upgraders, Confirm(p) PROVE UpgradeInv'
  BY <1>7 DEF Confirm, Goto, UpgradeInv, TypeOK, Typed, Genuine, Newer, Unfenced, Alone, Stages
<1>8. ASSUME NEW p \in Upgraders, ReplaceBinary(p) PROVE UpgradeInv'
  <2>1. bin' = picked[p] /\ picked[p] \in Versions
    BY <1>8 DEF ReplaceBinary, UpgradeInv, Genuine, Newer, Stages
  <2> QED
    BY <1>8, <2>1 DEF ReplaceBinary, Goto, UpgradeInv, TypeOK, Typed, Genuine, Newer, Unfenced,
       Alone, Stages
<1>9. ASSUME NEW p \in Upgraders, ReplaceLibrary(p) PROVE UpgradeInv'
  <2>1. lib' \in Versions
    BY <1>9 DEF ReplaceLibrary, UpgradeInv, TypeOK, Genuine, Newer, Stages
  <2> QED
    BY <1>9, <2>1, EndsInv DEF ReplaceLibrary
<1>10. ASSUME NEW p \in Upgraders, Fails(p) PROVE UpgradeInv'
  BY <1>10, EndsInv DEF Fails, UpgradeInv, TypeOK
<1>11. CASE UNCHANGED vars
  BY <1>11 DEF vars, UpgradeInv, TypeOK, Typed, Genuine, Newer, Unfenced, Alone
<1> QED
  BY <1>1, <1>2, <1>3, <1>4, <1>5, <1>6, <1>7, <1>8, <1>9, <1>10, <1>11 DEF Next

-----------------------------------------------------------------------------
\* Only the two renames change the install.
LEMMA WhoInstalls ==
  ASSUME UpgradeInv, Next, bin' # bin \/ lib' # lib
  PROVE  \E p \in Upgraders : ReplaceBinary(p) \/ ReplaceLibrary(p)
BY DEF Next, Publish, Manage, Begin, Pick, Download, Verify, Confirm, Fails

\* A rename changes the process's stage, and the process began unfenced.
LEMMA InstallerIsUnfenced ==
  ASSUME UpgradeInv, NEW p \in Upgraders, ReplaceBinary(p) \/ ReplaceLibrary(p)
  PROVE  p \notin fenced /\ pc[p] # pc'[p]
BY DEF ReplaceBinary, ReplaceLibrary, Ends, Goto, UpgradeInv, Typed, Unfenced

\* While upgrades do not overlap the version only rises.
LEMMA NoDowngrade ==
  ASSUME UpgradeConstants, UpgradeInv, Next, ~overlap
  PROVE  bin' >= bin
<1>1. bin \in Nat
  BY DEF UpgradeConstants, UpgradeInv, TypeOK
<1>2. ASSUME NEW p \in Upgraders, ReplaceBinary(p) PROVE bin' >= bin
  <2>1. bin' = picked[p] /\ picked[p] \in Nat /\ own[p] = bin /\ own[p] < picked[p]
    BY <1>2 DEF UpgradeConstants, ReplaceBinary, UpgradeInv, Genuine, Newer, Alone, Stages
  <2> QED
    BY <1>1, <2>1
<1>3. ASSUME NEW p \in Upgraders, ReplaceLibrary(p) PROVE bin' >= bin
  BY <1>1, <1>3 DEF ReplaceLibrary
<1> QED
  BY <1>1, <1>2, <1>3, WhoInstalls

\* Every reachable state satisfies the invariant.
THEOREM UpgradeInvariant == ASSUME UpgradeConstants PROVE Spec => []UpgradeInv
<1>1. Init => UpgradeInv
  BY InitInv
<1>2. UpgradeInv /\ [Next]_vars => UpgradeInv'
  BY StepInv
<1> QED
  BY <1>1, <1>2, PTL DEF Spec

\* An upgrade installs what it announced, nothing on a managed install, and without an overlap
\* never an older release (upgrade.rs run, fence.rs check).
THEOREM UpgradeIsAsAnnounced == ASSUME UpgradeConstants PROVE Spec => InstallsWhatItSaid
<1>1. UpgradeInv => TypeOK
  BY DEF UpgradeInv
<1>2. UpgradeInv /\ [Next]_vars =>
        [\A p \in Upgraders : ReplaceBinary(p) => bin' = picked[p]]_vars
  BY DEF ReplaceBinary, UpgradeInv, Genuine
<1>3. UpgradeInv /\ [Next]_vars =>
        [(bin' # bin \/ lib' # lib) => \E p \in Upgraders \ fenced : pc[p] # pc'[p]]_vars
  BY WhoInstalls, InstallerIsUnfenced
<1>4. ASSUME UpgradeInv, [Next]_vars PROVE [~overlap => bin' >= bin]_vars
  BY <1>4, NoDowngrade
<1> QED
  BY <1>1, <1>2, <1>3, <1>4, UpgradeInvariant, PTL
     DEF Spec, InstallsWhatItSaid, SaysWhatItInstalls, FencedChangesNothing, NeverDowngrades

-----------------------------------------------------------------------------
(* Bootstrap.                                                              *)

\* Which operation is done to which files.
Exempt == {"config.toml", "config.yaml", "allowlist"}
StepOK(s) ==
  \/ s.op \in {"merge", "market"} /\ s.f \in Files!Configs \ Exempt
  \/ s.op = "ifthere" /\ s.f \in {"registry", "cwsettings"}
  \/ s.op = "blind" /\ s.f \in {"config.toml", "config.yaml"}
  \/ s.op = "approve" /\ s.f = "allowlist"
  \/ s.op \in {"tree", "drop", "cli"} /\ s.f \notin Files!Configs
  \/ s.op \in {"check", "soul"}
Ops == {"merge", "market", "ifthere", "blind", "approve", "tree", "drop", "cli", "check", "soul"}
StepType ==
  LET F == Files!Configs \cup Files!Trees \cup Files!Clis \cup {"SOUL.md"}
  IN {s \in [op : Ops, f : F, ends : BOOLEAN] : StepOK(s)}

Turns ==
  /\ sel \subseteq Files!Agents /\ queue \subseteq sel /\ todo \in Seq(StepType) /\ reg \in BOOLEAN
  /\ had \subseteq Files!Configs

\* No file of a workspace is removed from that was not read first.
ReadFirst ==
  /\ todo # <<>> => todo[Len(todo)].op # "ifthere"
  /\ (\E i \in DOMAIN todo : todo[i].op = "ifthere") =>
       \/ todo[1].op = "check"
       \/ \A f \in {"registry", "cwsettings"} \cap Files!Selected : Files!Parses(live[f])

\* The user's entries are in the file; or it was cut off, and they are in its copy.
Kept ==
  \A f \in had \ (nobak \cup Exempt) :
    \/ live[f].user /\ live[f].st \in {"ok", "broken"}
    \/ live[f].st = "torn" /\ back[f].user

UserText == {"mine", "also mine"}
Shape(s, m) ==
  /\ s \in Seq(UserText \cup Files!ToSet(Files!Persona)) /\ m \in 0..Len(s)
  /\ \A i \in 1..m : s[i] \in UserText
  /\ \A i \in m + 1..Len(s) : s[i] \notin UserText
  /\ m < Len(s) => s[m + 1] = "BEGIN"
  /\ \A i \in 1..Len(s) - 1 : s[i] # "END"
Between == <<"mine", "BEGIN", "persona", "END", "also mine">>
SoulInv == soul = Between \/ \E m \in 0..Len(soul) : Shape(soul, m)

FilesInv == Files!TypeOK /\ Turns /\ ReadFirst /\ Kept /\ SoulInv

\* A set of numbers has a least element.
LEMMA NatMin == ASSUME NEW T, T \subseteq Nat, T # {} PROVE \E x \in T : \A y \in T : x <= y
<1> DEFINE I == {1..n : n \in T}
           R == StrictSubsetOrdering(Int)
<1>1. I \subseteq FiniteSubsetsOf(Int)
  <2>1. ASSUME NEW n \in T PROVE (1..n) \in FiniteSubsetsOf(Int)
    BY <2>1, FS_Interval DEF FiniteSubsetsOf
  <2> QED BY <2>1
<1>2. I # {}
  OBVIOUS
<1>3. \E i \in I : \A j \in I : ~(<<j, i>> \in R)
  <2> HIDE DEF I, R
  <2>1. IsWellFoundedOn(R, FiniteSubsetsOf(Int))
    BY FS_StrictSubsetOrderingWellFounded DEF R
  <2> QED
    BY <2>1, <1>1, <1>2, WFMin, Zenon
<1>4. PICK x \in T : \A y \in T : ~(<<1..y, 1..x>> \in R)
  BY <1>3
<1>5. ASSUME NEW y \in T, y < x PROVE FALSE
  <2>1. (1..y) \subseteq (1..x) /\ x \in 1..x /\ x \notin 1..y
    BY <1>5
  <2>2. (1..y) # (1..x)
    BY <2>1
  <2>3. <<1..y, 1..x>> \in R
    BY <2>1, <2>2, SMT DEF StrictSubsetOrdering
  <2> QED
    BY <1>4, <1>5, <2>3, Zenon
<1> QED BY <1>4, <1>5

\* The turn is of one of those to come.
LEMMA FirstAgent == ASSUME queue \subseteq Files!Agents, queue # {} PROVE Files!Agent \in queue
<1> DEFINE Place(a) == CHOOSE i \in DOMAIN Files!Order : Files!Order[i] = a
           T == {Place(a) : a \in queue}
<1>1. \A a \in queue : Place(a) \in Nat
  BY DEF Files!Agents, Files!Order, Files!ToSet
<1>2. T \subseteq Nat /\ T # {}
  BY <1>1
<1>3. PICK x \in T : \A y \in T : x <= y
  <2> HIDE DEF T
  <2> QED BY <1>2, NatMin
<1>4. \E a \in queue : \A b \in queue : Place(a) <= Place(b)
  <2> HIDE DEF Place
  <2>1. PICK a \in queue : x = Place(a)
    BY <1>3
  <2>2. \A b \in queue : Place(b) \in T
    OBVIOUS
  <2> HIDE DEF T
  <2> QED BY <1>3, <2>1, <2>2
<1> HIDE DEF Place, T
<1>5. (CHOOSE a \in queue : \A b \in queue : Place(a) <= Place(b)) \in queue
  BY <1>4
<1> QED BY <1>5 DEF Files!Agent, Place

\* The steps other than those of a removal from a workspace.
Plain == {s \in StepType : s.op # "ifthere"}

\* What a constructor makes is a step.
LEMMA StepKinds ==
  /\ \A f \in Files!Configs \ Exempt :
       {Files!Merge(f), Files!MergeOn(f), Files!Step("market", f)} \subseteq Plain
  /\ \A f \in {"config.toml", "config.yaml"} : Files!Blind(f) \in Plain
  /\ \A f \in Files!Clis : Files!Cli(f) \in Plain
  /\ \A f \in Files!Trees, rm \in BOOLEAN : Files!Tree(f, rm) \in Plain
  /\ Files!Step("approve", "allowlist") \in Plain /\ Files!Step("soul", "SOUL.md") \in Plain
  /\ Files!Step("check", "registry") \in Plain
  /\ \A f \in {"registry", "cwsettings"} : Files!Step("ifthere", f) \in StepType
<1> DEFINE F == Files!Configs \cup Files!Trees \cup Files!Clis \cup {"SOUL.md"}
<1>1. \A o \in Ops, f \in F, e \in BOOLEAN :
        LET s == [op |-> o, f |-> f, ends |-> e]
        IN StepOK(s) => s \in StepType /\ (o # "ifthere" => s \in Plain)
  BY DEF StepType, Plain
<1>2. \A f \in Files!Configs \ Exempt :
        {Files!Merge(f), Files!MergeOn(f), Files!Step("market", f)} \subseteq Plain
  <2> SUFFICES ASSUME NEW f \in Files!Configs \ Exempt
               PROVE  {Files!Merge(f), Files!MergeOn(f), Files!Step("market", f)} \subseteq Plain
    OBVIOUS
  <2>1. {"merge", "market"} \subseteq Ops /\ f \in F
    BY DEF Ops
  <2>2. StepOK(Files!Merge(f)) /\ StepOK(Files!MergeOn(f)) /\ StepOK(Files!Step("market", f))
    BY DEF Files!Merge, Files!MergeOn, Files!Step, StepOK
  <2> HIDE DEF F
  <2> QED BY <1>1, <2>1, <2>2 DEF Files!Merge, Files!MergeOn, Files!Step
<1>3. \A f \in {"config.toml", "config.yaml"} : Files!Blind(f) \in Plain
  <2> SUFFICES ASSUME NEW f \in {"config.toml", "config.yaml"} PROVE Files!Blind(f) \in Plain
    OBVIOUS
  <2>1. "blind" \in Ops /\ f \in F
    BY DEF Ops, Files!Configs
  <2>2. StepOK(Files!Blind(f))
    BY DEF Files!Blind, Files!Step, StepOK
  <2> HIDE DEF F
  <2> QED BY <1>1, <2>1, <2>2 DEF Files!Blind, Files!Step
<1>4. \A f \in Files!Clis : Files!Cli(f) \in Plain
  <2> SUFFICES ASSUME NEW f \in Files!Clis PROVE Files!Cli(f) \in Plain
    OBVIOUS
  <2>1. "cli" \in Ops /\ f \in F
    BY DEF Ops
  <2>2. f \notin Files!Configs
    BY DEF Files!Clis, Files!Configs
  <2>3. StepOK(Files!Cli(f))
    BY <2>2 DEF Files!Cli, Files!Step, StepOK
  <2> HIDE DEF F
  <2> QED BY <1>1, <2>1, <2>3 DEF Files!Cli, Files!Step
<1>5. \A f \in Files!Trees, rm \in BOOLEAN : Files!Tree(f, rm) \in Plain
  <2> SUFFICES ASSUME NEW f \in Files!Trees, NEW rm \in BOOLEAN PROVE Files!Tree(f, rm) \in Plain
    OBVIOUS
  <2>1. {"tree", "drop"} \subseteq Ops /\ f \in F
    BY DEF Ops
  <2>2. f \notin Files!Configs
    BY DEF Files!Trees, Files!Configs
  <2>3. StepOK(Files!Step("tree", f)) /\ StepOK(Files!Step("drop", f))
    BY <2>2 DEF Files!Step, StepOK
  <2> HIDE DEF F
  <2> QED BY <1>1, <2>1, <2>3 DEF Files!Tree, Files!Step
<1>6. /\ Files!Step("approve", "allowlist") \in Plain /\ Files!Step("soul", "SOUL.md") \in Plain
      /\ Files!Step("check", "registry") \in Plain
      /\ \A f \in {"registry", "cwsettings"} : Files!Step("ifthere", f) \in StepType
  <2>1. {"approve", "soul", "check", "ifthere"} \subseteq Ops
    BY DEF Ops
  <2>2. {"allowlist", "SOUL.md", "registry", "cwsettings"} \subseteq F
    BY DEF Files!Configs
  <2>3. /\ StepOK(Files!Step("approve", "allowlist")) /\ StepOK(Files!Step("soul", "SOUL.md"))
        /\ StepOK(Files!Step("check", "registry"))
        /\ \A f \in {"registry", "cwsettings"} : StepOK(Files!Step("ifthere", f))
    BY DEF Files!Step, StepOK
  <2> HIDE DEF F
  <2> QED BY <1>1, <2>1, <2>2, <2>3 DEF Files!Step
<1> QED BY <1>2, <1>3, <1>4, <1>5, <1>6

\* A concatenation begins as its first part does.
LEMMA StartsAlike ==
  ASSUME NEW S, NEW s \in Seq(S), NEW t \in Seq(S), Len(s) > 0
  PROVE  s \o t \in Seq(S) /\ Len(s \o t) > 0 /\ (s \o t)[1] = s[1]
<1>1. Len(s) \in Nat /\ Len(t) \in Nat
  BY LenProperties
<1>2. s \o t \in Seq(S) /\ Len(s \o t) = Len(s) + Len(t)
  BY ConcatProperties
<1>3. \A i \in 1..Len(s) + Len(t) : (s \o t)[i] = IF i <= Len(s) THEN s[i] ELSE t[i - Len(s)]
  BY ConcatProperties
<1> QED BY <1>1, <1>2, <1>3

\* One that ends in a single entry ends with it.
LEMMA EndsAlike ==
  ASSUME NEW S, NEW s \in Seq(S), NEW t \in Seq(S), Len(t) = 1
  PROVE  (s \o t)[Len(s \o t)] = t[1]
<1>1. Len(s) \in Nat /\ Len(s \o t) = Len(s) + Len(t)
  BY ConcatProperties, LenProperties
<1>2. \A i \in 1..Len(s) + Len(t) : (s \o t)[i] = IF i <= Len(s) THEN s[i] ELSE t[i - Len(s)]
  BY ConcatProperties
<1> QED BY <1>1, <1>2

\* What an agent's turn is made of.
LEMMA StepsType ==
  ASSUME NEW a \in Files!Agents, NEW rm \in BOOLEAN
  PROVE  /\ Files!Steps(a, rm) \in Seq(StepType)
         /\ \/ Files!Steps(a, rm) \in Seq(Plain)
            \/ /\ Len(Files!Steps(a, rm)) > 0 /\ Files!Steps(a, rm)[1].op = "check"
               /\ Files!Steps(a, rm)[Len(Files!Steps(a, rm))].op # "ifthere"
<1> DEFINE S == Seq(Plain)
<1>0. /\ {"devin config", "settings", "desktop", "opencode.json", "marketplaces", "wbsettings",
           "mcp.json", "registry", "cwsettings"} \subseteq Files!Configs \ Exempt
      /\ {"devin mcp", "claude mcp", "codex cache", "grok mcp"} \subseteq Files!Clis
      /\ {"codex plugin", "hermes plugin", "dmem.ts", "wb plugin", "cw plugin", "cw zip"}
           \subseteq Files!Trees
  BY DEF Files!Configs, Exempt, Files!Clis, Files!Trees
<1>1. /\ \A x, y \in Plain : <<x>> \in S /\ <<x, y>> \in S
      /\ \A x, y, z \in Plain : <<x, y, z>> \in S
      /\ \A x, y, z, w \in Plain : <<x, y, z, w>> \in S
      /\ \A x, y \in S : x \o y \in S
      /\ <<>> \in S
  <2> HIDE DEF Plain
  <2> QED OBVIOUS
<1>2. \A s \in S : s \in Seq(StepType)
  BY ElementOfSeq DEF Plain
<1> HIDE DEF S
<1>3. /\ Files!DevinSteps(rm) \in S /\ Files!ClaudeSteps(rm) \in S
      /\ Files!GrokSteps(rm) \in S /\ Files!DesktopSteps(rm) \in S
  BY <1>0, <1>1, StepKinds DEF Files!DevinSteps, Files!ClaudeSteps, Files!GrokSteps,
     Files!DesktopSteps
<1>4. Files!CodexSteps(rm) \in S
  <2>1. /\ Files!Blind("config.toml") \in Plain /\ Files!Cli("codex cache") \in Plain
        /\ Files!CodexTree(rm) \in Plain
    BY <1>0, StepKinds DEF Files!CodexTree
  <2> QED BY <1>1, <2>1 DEF Files!CodexSteps
<1>5. Files!HermesSteps(rm) \in S
  <2>1. /\ Files!Blind("config.yaml") \in Plain /\ Files!Step("approve", "allowlist") \in Plain
        /\ Files!HermesTree(rm) \in Plain /\ Files!Step("soul", "SOUL.md") \in Plain
    BY <1>0, StepKinds DEF Files!HermesTree
  <2> QED BY <1>1, <2>1 DEF Files!HermesSteps
<1>6. Files!OpencodeSteps(rm) \in S
  <2>1. Files!Tree("dmem.ts", rm) \in Plain /\ Files!MergeOn("opencode.json") \in Plain
    BY <1>0, StepKinds
  <2> QED BY <1>1, <2>1 DEF Files!OpencodeSteps
<1>7. Files!WorkbuddySteps(rm) \in S
  <2>1. /\ Files!Step("market", "marketplaces") \in Plain /\ Files!WorkbuddyTree(rm) \in Plain
        /\ Files!Merge("wbsettings") \in Plain /\ Files!MergeOn("mcp.json") \in Plain
        /\ Files!Step("soul", "SOUL.md") \in Plain
    BY <1>0, StepKinds DEF Files!WorkbuddyTree
  <2>2. /\ <<Files!Step("market", "marketplaces"), Files!WorkbuddyTree(rm)>> \in S
        /\ <<Files!WorkbuddyTree(rm), Files!Step("market", "marketplaces")>> \in S
        /\ <<Files!Merge("wbsettings"), Files!MergeOn("mcp.json"),
             Files!Step("soul", "SOUL.md")>> \in S
    BY <1>1, <2>1
  <2> QED BY <1>1, <2>2 DEF Files!WorkbuddySteps
<1>8. CASE a # "cowork"
  <2>1. a \in {"devin", "claude", "codex", "hermes", "opencode", "grok", "workbuddy", "desktop"}
    BY <1>8 DEF Files!Agents, Files!Order, Files!ToSet
  <2>2. Files!Steps(a, rm) \in S
    BY <2>1, <1>3, <1>4, <1>5, <1>6, <1>7 DEF Files!Steps
  <2> QED BY <1>2, <2>2 DEF S
<1>9. CASE a = "cowork" /\ ~rm
  <2>1. /\ Files!Step("check", "registry") \in Plain
        /\ Files!CoworkTree(rm) \in Plain /\ Files!MergeOn("registry") \in Plain
        /\ Files!MergeOn("cwsettings") \in Plain /\ Files!MergeOn("desktop") \in Plain
        /\ Files!Tree("cw zip", rm) \in Plain
    BY <1>0, StepKinds DEF Files!CoworkTree
  <2>2. /\ <<Files!Step("check", "registry"), Files!CoworkTree(rm)>> \in S
        /\ <<Files!MergeOn("registry"), Files!MergeOn("cwsettings")>> \in S
        /\ <<Files!Tree("cw zip", rm)>> \in S /\ <<Files!MergeOn("desktop")>> \in S
    BY <1>1, <2>1
  <2>3. Files!WorkspaceSteps(rm) \in S
    BY <1>1, <1>9, <2>2 DEF Files!WorkspaceSteps
  <2>4. Files!CoworkSteps(rm) \in S
    BY <1>1, <1>9, <2>2, <2>3 DEF Files!CoworkSteps
  <2>5. Files!Steps(a, rm) = Files!CoworkSteps(rm)
    BY <1>9 DEF Files!Steps
  <2> QED BY <1>2, <2>4, <2>5 DEF S
<1>10. CASE a = "cowork" /\ rm
  <2> DEFINE A == <<Files!Step("check", "registry"), Files!CoworkTree(rm)>>
             B == <<Files!Step("ifthere", "registry"), Files!Step("ifthere", "cwsettings")>>
             C == <<Files!Tree("cw zip", rm)>>
  <2>1. A \in Seq(StepType) /\ B \in Seq(StepType) /\ C \in Seq(StepType)
    <3>1. Files!CoworkTree(rm) \in StepType /\ Files!Tree("cw zip", rm) \in StepType
      BY <1>0, StepKinds DEF Files!CoworkTree, Plain
    <3>2. Files!Step("check", "registry") \in StepType
      BY StepKinds DEF Plain
    <3>3. /\ Files!Step("ifthere", "registry") \in StepType
          /\ Files!Step("ifthere", "cwsettings") \in StepType
      BY StepKinds
    <3> HIDE DEF A, B, C
    <3>4. \A x, y \in StepType : <<x, y>> \in Seq(StepType) /\ <<x>> \in Seq(StepType)
      OBVIOUS
    <3> QED BY <3>1, <3>2, <3>3, <3>4 DEF A, B, C
  <2>2. Len(A) = 2 /\ A[1].op = "check"
    BY DEF Files!Step
  <2>3. Files!Steps(a, rm) = (A \o B) \o C
    BY <1>10 DEF Files!Steps, Files!CoworkSteps, Files!WorkspaceSteps
  <2> HIDE DEF A, B, C
  <2>4. A \o B \in Seq(StepType) /\ Len(A \o B) > 0 /\ (A \o B)[1] = A[1]
    BY <2>1, <2>2, StartsAlike
  <2>5. /\ (A \o B) \o C \in Seq(StepType) /\ Len((A \o B) \o C) > 0
        /\ ((A \o B) \o C)[1] = (A \o B)[1]
    BY <2>1, <2>4, StartsAlike
  <2>6. Len(C) = 1 /\ C[1].op # "ifthere"
    BY DEF C, Files!Tree, Files!Step
  <2>7. LET t == (A \o B) \o C IN t[Len(t)] = C[1]
    BY <2>1, <2>4, <2>6, EndsAlike
  <2> QED BY <2>2, <2>3, <2>4, <2>5, <2>6, <2>7
<1> QED BY <1>8, <1>9, <1>10 DEF S

\* The files do not change from run to run.
LEMMA SameSelected == ASSUME sel' = sel PROVE Files!Selected' = Files!Selected
<1>1. \A a, rm : Files!CoworkSteps(rm)' = Files!CoworkSteps(rm)
  BY DEF Files!CoworkSteps, Files!WorkspaceSteps, Files!CoworkTree, Files!Tree, Files!Step,
     Files!MergeOn
<1>2. \A a, rm : Files!Steps(a, rm)' = Files!Steps(a, rm)
  BY <1>1 DEF Files!Steps, Files!DevinSteps, Files!ClaudeSteps, Files!CodexSteps, Files!CodexTree,
     Files!HermesSteps, Files!HermesTree, Files!OpencodeSteps, Files!GrokSteps,
     Files!WorkbuddySteps, Files!WorkbuddyTree, Files!DesktopSteps, Files!Tree, Files!Step,
     Files!Merge, Files!MergeOn, Files!Blind, Files!Cli
<1>3. \A a : Files!FilesOf(a)' = Files!FilesOf(a)
  BY <1>2 DEF Files!FilesOf, Files!ToSet
<1> QED BY <1>3 DEF Files!Selected

\* What a writer makes of a file: readable, and the user's as it was.
LEMMA EditedIs ==
  ASSUME NEW f \in Files!Configs, NEW c \in Files!Contents, NEW rm \in BOOLEAN, reg \in BOOLEAN
  PROVE  /\ Files!Edited(f, c, rm) \in Files!Contents /\ Files!Edited(f, c, rm).st = "ok"
         /\ f # "allowlist" => Files!Edited(f, c, rm).user = c.user
<1> DEFINE Good(d) == d \in Files!Contents /\ d.st = "ok" /\ d.user = c.user
<1>1. Files!Copies(rm) \in 0..2
  BY DEF Files!Copies
<1>2. Good(Files!Hooks(c, rm)) /\ Good(Files!DesktopEntry(c, rm)) /\ Good(Files!CodexTables(c, rm))
  BY <1>1 DEF Files!Hooks, Files!DesktopEntry, Files!CodexTables, Files!Contents, Files!States
<1>3. Good(Files!HermesYaml(c, rm))
  BY <1>1 DEF Files!HermesYaml, Files!PluginList, Files!Hooks, Files!Contents, Files!States
<1>4. Good(Files!WorkbuddySettings(c, rm)) /\ Good(Files!EnabledFlag(c, rm))
  BY <1>1 DEF Files!WorkbuddySettings, Files!EnabledFlag, Files!Hooks, Files!Contents, Files!States
<1>5. Files!Approvals(c, rm) \in Files!Contents /\ Files!Approvals(c, rm).st = "ok"
  BY <1>1 DEF Files!Approvals, Files!Ok, Files!Absent, Files!Contents, Files!States
<1>6. /\ Good(Files!OpencodeEntries(c, rm)) /\ Good(Files!MarketEntry(c, rm))
      /\ Good(Files!RegistryEntry(c, rm))
  BY <1>2 DEF Files!OpencodeEntries, Files!MarketEntry, Files!RegistryEntry
<1> HIDE DEF Good
<1>7. f = "allowlist" \/ Good(Files!Edited(f, c, rm))
  BY <1>2, <1>3, <1>4, <1>6 DEF Files!Edited, Files!Configs
<1>8. f = "allowlist" => Files!Edited(f, c, rm) = Files!Approvals(c, rm)
  BY DEF Files!Edited
<1> QED BY <1>5, <1>7, <1>8 DEF Good

\* What is left of a file.
RunKnown == /\ {live, back} \subseteq [Files!Selected -> Files!Contents]
         /\ Turns /\ ReadFirst /\ cmd \in {"none", "install", "remove"}

\* The step that a run is at.
Doing(s) ==
  \/ Files!DoMerge(s) \/ Files!DoMarket(s) \/ Files!DoBlind(s) \/ Files!DoApprove(s)
  \/ Files!DoCheck(s) \/ Files!DoIfThere(s) \/ Files!DoTree(s) \/ Files!DoCli(s)
  \/ Files!DoSoul(s)

\* What a step does to a configuration file.
Change(f) ==
  \/ live'[f] = live[f] /\ back'[f] = back[f]
  \/ f \in Exempt /\ (live'[f] = live[f] \/ live'[f].st = "ok")
  \/ /\ Files!Parses(live[f]) /\ live'[f].st = "ok" /\ live'[f].user = live[f].user
     /\ live[f].st = "absent" \/ back'[f] = live[f]

\* A step keeps the types of the files, and changes configuration files only so.
LEMMA DoFiles ==
  ASSUME RunKnown, todo # <<>>, NEW s, s = Head(todo),
         Doing(s)
  PROVE  /\ {live', back'} \subseteq [Files!Selected -> Files!Contents]
         /\ \A f \in Files!Selected \cap Files!Configs : Change(f)
<1>1. /\ live \in [Files!Selected -> Files!Contents] /\ back \in [Files!Selected -> Files!Contents]
      /\ s \in StepType /\ s = todo[1] /\ Files!Removing \in BOOLEAN /\ reg \in BOOLEAN
  BY HeadTailProperties, ElementOfSeq DEF RunKnown, Turns, Files!Removing
<1>2. \A f, c : Files!Put(f, c) => live' = [live EXCEPT ![f] = c]
  BY DEF Files!Put
<1>3. \A f : Files!BackUp(f) => back' \in [Files!Selected -> Files!Contents]
             /\ \A g \in Files!Selected :
                  back'[g] = IF g = f /\ live[f].st # "absent" THEN live[f] ELSE back[g]
  BY <1>1 DEF Files!BackUp
<1>4. \A f, c : Files!Put(f, c) /\ (f \in Files!Selected => c \in Files!Contents) =>
        /\ live' \in [Files!Selected -> Files!Contents]
        /\ \A g \in Files!Selected : live'[g] = IF g = f THEN c ELSE live[g]
  BY <1>1, <1>2
<1>5. ASSUME s.f \in Files!Configs, Files!BackUp(s.f), NEW rm \in BOOLEAN,
             Files!Put(s.f, Files!Edited(s.f, live[s.f], rm)), s.f # "allowlist",
             s.f \in Exempt \/ (s.f \in Files!Selected => Files!Parses(live[s.f]))
      PROVE  /\ {live', back'} \subseteq [Files!Selected -> Files!Contents]
             /\ \A f \in Files!Selected \cap Files!Configs : Change(f)
  <2> DEFINE c == Files!Edited(s.f, live[s.f], rm)
  <2>1. s.f \in Files!Selected => c \in Files!Contents /\ c.st = "ok" /\ c.user = live[s.f].user
    BY <1>1, <1>5, EditedIs
  <2> HIDE DEF c
  <2>2. Files!Put(s.f, c)
    BY <1>5 DEF c
  <2>3. /\ live' \in [Files!Selected -> Files!Contents]
        /\ \A g \in Files!Selected : live'[g] = IF g = s.f THEN c ELSE live[g]
    BY <1>4, <2>1, <2>2
  <2>4. /\ back' \in [Files!Selected -> Files!Contents]
        /\ \A g \in Files!Selected :
             back'[g] = IF g = s.f /\ live[s.f].st # "absent" THEN live[s.f] ELSE back[g]
    BY <1>3, <1>5
  <2> QED BY <2>1, <2>3, <2>4, <1>5 DEF Change
<1>6. ASSUME NEW c, back' = back /\ Files!Put(s.f, c),
             s.f \in Files!Selected => c \in Files!Contents,
             s.f \notin Files!Configs \/ (s.f = "allowlist" /\ c.st = "ok")
      PROVE  /\ {live', back'} \subseteq [Files!Selected -> Files!Contents]
             /\ \A f \in Files!Selected \cap Files!Configs : Change(f)
  <2>1. /\ live' \in [Files!Selected -> Files!Contents]
        /\ \A g \in Files!Selected : live'[g] = IF g = s.f THEN c ELSE live[g]
    BY <1>4, <1>6
  <2> QED BY <1>1, <1>6, <2>1 DEF Change, Exempt
<1>7. live' = live /\ back' = back =>
             /\ {live', back'} \subseteq [Files!Selected -> Files!Contents]
             /\ \A f \in Files!Selected \cap Files!Configs : Change(f)
  BY <1>1 DEF Change
<1>8. s.op \in {"merge", "market"} => s.f \in Files!Configs \ Exempt
  BY <1>1 DEF StepType, StepOK
<1>9. CASE Files!DoMerge(s)
  <2>1. CASE Files!Parses(live[s.f])
    BY <1>1, <1>5, <1>8, <1>9, <2>1 DEF Files!DoMerge, Exempt
  <2>2. CASE ~Files!Parses(live[s.f])
    BY <1>7, <1>9, <2>2 DEF Files!DoMerge, Files!Refuse
  <2> QED BY <2>1, <2>2
<1>10. CASE Files!DoMarket(s)
  <2>1. CASE Files!Parses(live[s.f])
    BY <1>1, <1>5, <1>8, <1>10, <2>1 DEF Files!DoMarket, Exempt
  <2>2. CASE ~Files!Parses(live[s.f])
    BY <1>7, <1>10, <2>2 DEF Files!DoMarket
  <2> QED BY <2>1, <2>2
<1>11. CASE Files!DoBlind(s)
  <2>1. s.f \in Files!Configs /\ s.f \in Exempt /\ s.f # "allowlist"
    BY <1>1, <1>11 DEF Files!DoBlind, StepType, StepOK, Files!Configs, Exempt
  <2>2. CASE live[s.f].st = "absent"
    BY <1>7, <1>11, <2>2 DEF Files!DoBlind
  <2>3. CASE live[s.f].st # "absent" /\ Files!Parses(live[s.f])
    BY <1>1, <1>5, <1>11, <2>1, <2>3 DEF Files!DoBlind
  <2>4. CASE live[s.f].st # "absent" /\ ~Files!Parses(live[s.f])
    <3>1. Files!BackUp(s.f) /\ live' = live
      BY <1>11, <2>4 DEF Files!DoBlind
    <3> QED BY <1>1, <1>3, <2>1, <3>1 DEF Change
  <2> QED BY <2>2, <2>3, <2>4
<1>12. CASE Files!DoApprove(s)
  <2>1. s.f = "allowlist"
    BY <1>1, <1>12 DEF Files!DoApprove, StepType, StepOK
  <2>2. s.f \in Files!Selected => Files!Approvals(live[s.f], Files!Removing) \in Files!Contents
    BY <1>1, <2>1, EditedIs DEF Files!Edited, Files!Configs
  <2>3. Files!Approvals(live[s.f], Files!Removing).st = "ok"
    BY DEF Files!Approvals, Files!Ok, Files!Absent
  <2> QED BY <1>6, <1>12, <2>1, <2>2, <2>3 DEF Files!DoApprove
<1>13. CASE Files!DoCheck(s)
  BY <1>7, <1>13 DEF Files!DoCheck
<1>14. CASE Files!DoIfThere(s)
  <2>1. s.f \in {"registry", "cwsettings"} /\ s.f \in Files!Configs /\ s.f # "allowlist"
    BY <1>1, <1>14 DEF Files!DoIfThere, StepType, StepOK, Files!Configs
  <2>2. s.f \in Files!Selected => Files!Parses(live[s.f])
    BY <1>1, <1>14, <2>1, HeadTailProperties DEF Files!DoIfThere, RunKnown, ReadFirst
  <2>3. CASE live[s.f].st = "absent"
    BY <1>7, <1>14, <2>3 DEF Files!DoIfThere
  <2>4. CASE live[s.f].st # "absent"
    BY <1>5, <1>14, <2>1, <2>2, <2>4 DEF Files!DoIfThere
  <2> QED BY <2>3, <2>4
<1>20. Files!Absent \in Files!Contents /\ [Files!Ok EXCEPT !.ours = 1] \in Files!Contents
  <2>1. Files!Absent \in Files!Contents
    BY DEF Files!Absent, Files!Contents, Files!States
  <2>2. Files!Ok \in Files!Contents
    BY <2>1 DEF Files!Ok, Files!Contents, Files!States
  <2> QED BY <2>1, <2>2 DEF Files!Contents
<1>15. CASE Files!DoTree(s)
  <2>1. s.f \notin Files!Configs
    BY <1>1, <1>15 DEF Files!DoTree, StepType, StepOK
  <2> DEFINE c == IF s.op = "drop" THEN Files!Absent ELSE [Files!Ok EXCEPT !.ours = 1]
  <2>2. Files!Put(s.f, c) /\ back' = back
    BY <1>15 DEF Files!DoTree
  <2>3. c \in Files!Contents
    BY <1>20
  <2> HIDE DEF c
  <2>4. back' = back /\ Files!Put(s.f, c)
    BY <2>2
  <2> QED BY <1>6, <2>1, <2>3, <2>4
<1>16. CASE Files!DoCli(s)
  <2>1. s.f \notin Files!Configs
    BY <1>1, <1>16 DEF Files!DoCli, StepType, StepOK
  <2>3. PICK c \in {live[s.f], Files!Absent} \cup
                     (IF Files!Removing THEN {} ELSE {[Files!Ok EXCEPT !.ours = 1]}) :
          Files!Put(s.f, c)
    BY <1>16 DEF Files!DoCli
  <2>4. s.f \in Files!Selected => c \in Files!Contents
    BY <1>1, <1>20, <2>3
  <2>5. back' = back /\ Files!Put(s.f, c)
    BY <1>16, <2>3 DEF Files!DoCli
  <2> QED BY <1>6, <2>1, <2>4, <2>5
<1>17. CASE Files!DoSoul(s)
  BY <1>7, <1>17 DEF Files!DoSoul
<1> QED BY <1>9, <1>10, <1>11, <1>12, <1>13, <1>14, <1>15, <1>16, <1>17 DEF Doing

\* Both files of a workspace can be read.
AppFilesParse == \A f \in {"registry", "cwsettings"} \cap Files!Selected : Files!Parses(live[f])

\* Where a step leaves the turn.
LEMMA DoTurn ==
  ASSUME Files!TypeOK, Turns, todo # <<>>, NEW s, s = Head(todo), Doing(s)
  PROVE  /\ cmd' \in {cmd, "none"} /\ told' \subseteq sel /\ queue' \subseteq sel
         /\ reg' \in BOOLEAN
         /\ \/ todo' = <<>>
            \/ todo' = Tail(todo) /\ (s.op = "check" => AppFilesParse)
            \/ todo' = <<Files!Last(todo)>>
         /\ todo' # <<>> => queue' # {}
<1>1. /\ todo \in Seq(StepType) /\ Len(todo) \in Nat \ {0} /\ (Len(todo) = 1 => Tail(todo) = <<>>)
      /\ queue \subseteq sel /\ queue # {} /\ reg \in BOOLEAN /\ told \subseteq sel
  <2>1. /\ todo \in Seq(StepType) /\ queue \subseteq sel /\ queue # {} /\ reg \in BOOLEAN
        /\ told \subseteq sel
    BY DEF Files!TypeOK, Turns
  <2>2. Len(todo) \in Nat \ {0}
    BY <2>1, EmptySeq, LenProperties
  <2>3. Len(todo) = 1 => Tail(todo) = <<>>
    BY <2>1, <2>2, HeadTailProperties, EmptySeq
  <2> QED BY <2>1, <2>2, <2>3
<1>2. Files!Agent \in sel
  <2>1. queue \subseteq Files!Agents
    BY <1>1 DEF Turns
  <2> QED BY <1>1, <2>1, FirstAgent
<1>3. Files!Done => /\ todo' = Tail(todo) /\ queue' \subseteq sel /\ reg' \in BOOLEAN
                    /\ todo' # <<>> => queue' # {}
  BY <1>1 DEF Files!Done, Files!EndTurn, Files!SameTurn
<1>4. Files!Leave => todo' = <<>> /\ queue' \subseteq sel /\ reg' \in BOOLEAN
  BY <1>1 DEF Files!Leave, Files!EndTurn
<1>5. Files!GiveUp => todo' = <<>> /\ queue' = {} /\ reg' = FALSE /\ cmd' = "none" /\ told' = {}
  BY DEF Files!GiveUp
<1> DEFINE Goal == /\ cmd' \in {cmd, "none"} /\ told' \subseteq sel
                   /\ queue' \subseteq sel /\ reg' \in BOOLEAN
                   /\ \/ todo' = <<>>
                      \/ todo' = Tail(todo) /\ (s.op = "check" => AppFilesParse)
                      \/ todo' = <<Files!Last(todo)>>
                   /\ todo' # <<>> => queue' # {}
<1>6. ASSUME s.op # "check", Files!Done, cmd' = cmd, told' = told PROVE Goal
  BY <1>1, <1>3, <1>6
<1>7. CASE Files!DoMerge(s)
  <2>1. CASE Files!Parses(live[s.f])
    BY <1>6, <1>7, <2>1 DEF Files!DoMerge
  <2>2. CASE ~Files!Parses(live[s.f])
    <3>1. CASE s.ends
      <4>1. Files!Leave /\ told' = told \cup {Files!Agent} /\ cmd' = cmd
        BY <1>7, <2>2, <3>1 DEF Files!DoMerge, Files!Refuse
      <4> QED BY <1>1, <1>2, <1>4, <4>1
    <3>2. CASE ~s.ends
      BY <1>6, <1>7, <2>2, <3>2 DEF Files!DoMerge, Files!Refuse
    <3> QED BY <3>1, <3>2
  <2> QED BY <2>1, <2>2
<1>8. CASE Files!DoMarket(s)
  <2>1. s.op # "check" /\ reg' \in BOOLEAN /\ todo' = Tail(todo) /\ UNCHANGED <<queue, told, cmd>>
    BY <1>8 DEF Files!DoMarket, Files!Parses
  <2> QED BY <1>1, <2>1
<1>9. CASE Files!DoBlind(s)
  <2>1. CASE live[s.f].st = "absent"
    <3>1. Files!Leave /\ UNCHANGED <<told, cmd>>
      BY <1>9, <2>1 DEF Files!DoBlind
    <3> QED BY <1>1, <1>4, <3>1
  <2>2. CASE live[s.f].st # "absent" /\ Files!Parses(live[s.f])
    BY <1>6, <1>9, <2>2 DEF Files!DoBlind
  <2>3. CASE live[s.f].st # "absent" /\ ~Files!Parses(live[s.f])
    <3>1. Files!GiveUp
      BY <1>9, <2>3 DEF Files!DoBlind
    <3> QED BY <1>5, <3>1
  <2> QED BY <2>1, <2>2, <2>3
<1>10. CASE Files!DoApprove(s)
  BY <1>6, <1>10 DEF Files!DoApprove
<1>11. CASE Files!DoCheck(s)
  <2>1. cmd' = cmd
    BY <1>11 DEF Files!DoCheck
  <2>2. CASE Files!Parses(live["registry"]) /\ Files!Parses(live["cwsettings"])
    <3>1. Files!Done /\ told' = told
      BY <1>11, <2>2 DEF Files!DoCheck
    <3>2. AppFilesParse
      BY <2>2 DEF AppFilesParse
    <3> QED BY <1>1, <1>3, <2>1, <3>1, <3>2
  <2>3. CASE ~(Files!Parses(live["registry"]) /\ Files!Parses(live["cwsettings"]))
    <3>1. /\ told' = told \cup {Files!Agent}
          /\ IF Files!Removing THEN todo' = <<Files!Last(todo)>> /\ Files!SameTurn ELSE Files!Leave
      BY <1>11, <2>3 DEF Files!DoCheck
    <3> QED BY <1>1, <1>2, <1>4, <2>1, <3>1 DEF Files!SameTurn
  <2> QED BY <2>2, <2>3
<1>12. CASE Files!DoIfThere(s) \/ Files!DoTree(s) \/ Files!DoCli(s) \/ Files!DoSoul(s)
  <2>1. s.op # "check" /\ Files!Done /\ cmd' = cmd /\ told' = told
    BY <1>12 DEF Files!DoIfThere, Files!DoTree, Files!DoCli, Files!DoSoul
  <2> QED BY <1>6, <2>1
<1> QED BY <1>7, <1>8, <1>9, <1>10, <1>11, <1>12 DEF Doing

\* What is said of the files and of the run.
RunInv == Files!TypeOK /\ Turns /\ ReadFirst /\ Kept

\* A step of the run.
LEMMA DoKeeps == ASSUME RunInv, Files!Do PROVE RunInv'
<1> DEFINE s == Head(todo)
<1>1. /\ cmd # "none" /\ todo # <<>> /\ UNCHANGED <<sel, had, nobak>>
      /\ Doing(s)
  BY DEF Files!Do, Doing
<1> HIDE DEF s
<1>2. RunKnown
  BY DEF RunInv, Files!TypeOK, RunKnown
<1>3. /\ {live', back'} \subseteq [Files!Selected -> Files!Contents]
      /\ \A f \in Files!Selected \cap Files!Configs : Change(f)
  BY <1>1, <1>2, DoFiles DEF s
<1>4. /\ cmd' \in {cmd, "none"} /\ told' \subseteq sel /\ queue' \subseteq sel /\ reg' \in BOOLEAN
      /\ \/ todo' = <<>>
         \/ todo' = Tail(todo) /\ (s.op = "check" => AppFilesParse)
         \/ todo' = <<Files!Last(todo)>>
      /\ todo' # <<>> => queue' # {}
  BY <1>1, DoTurn DEF RunInv, s
<1>5. Files!Selected' = Files!Selected
  BY <1>1, SameSelected
<1>6. /\ todo \in Seq(StepType) /\ Len(todo) \in Nat \ {0} /\ s = todo[1]
      /\ \A i \in 1..Len(todo) : todo[i] \in StepType
      /\ Tail(todo) \in Seq(StepType) /\ Len(Tail(todo)) = Len(todo) - 1
      /\ \A i \in 1..Len(Tail(todo)) : Tail(todo)[i] = todo[i + 1]
      /\ DOMAIN todo = 1..Len(todo) /\ DOMAIN Tail(todo) = 1..Len(Tail(todo))
  <2>1. todo \in Seq(StepType)
    BY DEF RunInv, Turns
  <2>2. Len(todo) \in Nat \ {0}
    BY <1>1, <2>1, EmptySeq, LenProperties
  <2>3. /\ Tail(todo) \in Seq(StepType) /\ Len(Tail(todo)) = Len(todo) - 1
        /\ \A i \in 1..Len(Tail(todo)) : Tail(todo)[i] = todo[i + 1]
        /\ Head(todo) = todo[1]
    BY <1>1, <2>1, HeadTailProperties
  <2> QED BY <2>1, <2>2, <2>3, LenProperties, ElementOfSeq DEF s
<1>7. /\ <<Files!Last(todo)>> \in Seq(StepType) /\ <<Files!Last(todo)>>[1] = todo[Len(todo)]
      /\ Len(<<Files!Last(todo)>>) = 1
  <2>1. Files!Last(todo) = todo[Len(todo)]
    BY DEF Files!Last
  <2>2. Files!Last(todo) \in StepType
    BY <1>6, <2>1
  <2> HIDE DEF StepType
  <2> QED BY <2>1, <2>2
<1>8. Files!TypeOK'
  <2>1. /\ had \subseteq Files!Selected /\ nobak \subseteq Files!Configs /\ sel \in Selections
        /\ cmd \in {"none", "install", "remove"}
    BY DEF RunInv, Files!TypeOK
  <2> QED BY <1>1, <1>3, <1>4, <1>5, <2>1 DEF Files!TypeOK
<1>9. Turns'
  <2>1. todo' \in Seq(StepType)
    <3>1. <<>> \in Seq(StepType)
      OBVIOUS
    <3> QED BY <1>4, <1>6, <1>7, <3>1
  <2> QED BY <1>1, <1>4, <2>1 DEF RunInv, Turns
<1>10. ReadFirst'
  <2>1. todo[Len(todo)].op # "ifthere"
    BY <1>1 DEF RunInv, ReadFirst
  <2>2. CASE todo' = <<>>
    BY <2>2 DEF ReadFirst
  <2>3. CASE todo' = <<Files!Last(todo)>>
    <3>1. DOMAIN todo' = {1} /\ Len(todo') = 1 /\ todo'[1] = todo[Len(todo)]
      BY <1>7, <2>3, LenProperties
    <3> QED BY <2>1, <3>1 DEF ReadFirst
  <2>4. CASE todo' = Tail(todo) /\ (s.op = "check" => AppFilesParse)
    <3>1. todo' # <<>> => todo'[Len(todo')].op # "ifthere"
      <4>1. SUFFICES ASSUME todo' # <<>> PROVE todo'[Len(todo')] = todo[Len(todo)]
        BY <2>1
      <4>2. Len(Tail(todo)) \in Nat \ {0}
        BY <1>6, <2>4, <4>1, EmptySeq
      <4> QED BY <1>6, <2>4, <4>2
    <3>2. SUFFICES ASSUME NEW i \in DOMAIN todo', todo'[i].op = "ifthere" PROVE AppFilesParse'
      BY <3>1 DEF ReadFirst, AppFilesParse
    <3>3. i + 1 \in DOMAIN todo /\ todo[i + 1].op = "ifthere"
      BY <1>6, <2>4, <3>2
    <3>4. AppFilesParse
      BY <1>6, <2>4, <3>3 DEF RunInv, ReadFirst, AppFilesParse
    <3>5. ASSUME NEW f \in {"registry", "cwsettings"} \cap Files!Selected
          PROVE  Files!Parses(live'[f])
      <4>1. Change(f)
        BY <1>3 DEF Files!Configs
      <4>2. Files!Parses(live[f])
        BY <3>4 DEF AppFilesParse
      <4> QED BY <4>1, <4>2 DEF Change, Files!Parses, Exempt
    <3> QED BY <1>5, <3>5 DEF AppFilesParse
  <2> QED BY <1>4, <2>2, <2>3, <2>4
<1>11. Kept'
  <2>1. SUFFICES ASSUME NEW f \in had \ (nobak \cup Exempt)
                 PROVE  \/ live'[f].user /\ live'[f].st \in {"ok", "broken"}
                        \/ live'[f].st = "torn" /\ back'[f].user
    BY <1>1 DEF Kept
  <2>2. /\ \/ live[f].user /\ live[f].st \in {"ok", "broken"}
           \/ live[f].st = "torn" /\ back[f].user
        /\ f \in Files!Selected \cap Files!Configs
    BY DEF RunInv, Kept, Files!TypeOK, Turns
  <2>3. Change(f)
    BY <1>3, <2>2
  <2> QED BY <2>1, <2>2, <2>3 DEF Change, Files!Parses
<1> QED BY <1>8, <1>9, <1>10, <1>11 DEF RunInv

\* The steps between the agents' turns.
LEMMA TurnKeeps ==
  ASSUME RunInv,
         \/ \E c \in {"install", "remove"} : Files!Start(c)
         \/ Files!Turn \/ Files!Finish \/ UNCHANGED Files!vars
  PROVE  RunInv'
<1>1. UNCHANGED <<sel, had, live, back, nobak>>
  BY DEF Files!Start, Files!Turn, Files!Finish, Files!vars
<1>2. Files!Selected' = Files!Selected
  BY <1>1, SameSelected
<1>3. Kept'
  BY <1>1 DEF RunInv, Kept
<1>4. sel \subseteq Files!Agents /\ queue \subseteq sel
  BY DEF RunInv, Turns
<1>5. CASE Files!Turn
  <2>1. Files!Agent \in Files!Agents /\ queue # {}
    <3>1. queue # {} /\ queue \subseteq Files!Agents
      BY <1>4, <1>5 DEF Files!Turn
    <3> QED BY <1>4, <3>1, FirstAgent
  <2>2. /\ todo' = Files!Steps(Files!Agent, Files!Removing) /\ Files!Removing \in BOOLEAN
        /\ UNCHANGED <<queue, cmd, told, reg>>
    BY <1>5 DEF Files!Turn, Files!Removing
  <2> DEFINE t == Files!Steps(Files!Agent, Files!Removing)
  <2>3. /\ t \in Seq(StepType)
        /\ \/ t \in Seq(Plain)
           \/ /\ Len(t) > 0 /\ t[1].op = "check"
              /\ t[Len(t)].op # "ifthere"
    BY <2>1, <2>2, StepsType
  <2> HIDE DEF t
  <2>4. Files!TypeOK'
    BY <1>1, <1>2, <2>1, <2>2 DEF RunInv, Files!TypeOK
  <2>5. Turns'
    BY <1>1, <2>2, <2>3 DEF RunInv, Turns, t
  <2>6. ReadFirst'
    <3>1. CASE t \in Seq(Plain)
      <4>1. DOMAIN t = 1..Len(t) /\ Len(t) \in Nat /\ \A i \in DOMAIN t : t[i].op # "ifthere"
        BY <3>1, LenProperties, ElementOfSeq DEF Plain
      <4>2. t # <<>> => Len(t) \in DOMAIN t
        BY <3>1, <4>1, EmptySeq
      <4>3. todo' = t
        BY <2>2 DEF t
      <4> QED BY <4>1, <4>2, <4>3 DEF ReadFirst
    <3>2. CASE Len(t) > 0 /\ t[1].op = "check" /\ t[Len(t)].op # "ifthere"
      <4>3. todo' = t
        BY <2>2 DEF t
      <4> QED BY <3>2, <4>3 DEF ReadFirst
    <3> QED BY <2>3, <3>1, <3>2
  <2> QED BY <1>3, <2>4, <2>5, <2>6 DEF RunInv
<1>6. CASE (\E c \in {"install", "remove"} : Files!Start(c)) \/ Files!Finish \/ UNCHANGED Files!vars
  <2>1. UNCHANGED <<todo, reg>> /\ queue' \in {sel, queue} /\ (queue' = sel \/ queue' = queue)
    BY <1>6 DEF Files!Start, Files!Finish, Files!vars
  <2>2. /\ cmd' \in {"none", "install", "remove"} /\ told' \subseteq sel
        /\ todo' # <<>> => queue' # {}
    <3>1. /\ cmd \in {"none", "install", "remove"} /\ told \subseteq sel
          /\ todo # <<>> => queue # {}
      BY DEF RunInv, Files!TypeOK
    <3>2. CASE \E c \in {"install", "remove"} : Files!Start(c)
      BY <3>1, <3>2, <1>4 DEF Files!Start
    <3>3. CASE Files!Finish \/ UNCHANGED Files!vars
      BY <3>1, <3>3 DEF Files!Finish, Files!vars
    <3> QED BY <1>6, <3>2, <3>3
  <2>3. Files!TypeOK'
    BY <1>1, <1>2, <2>2 DEF RunInv, Files!TypeOK
  <2>4. Turns'
    BY <1>1, <2>1 DEF RunInv, Turns
  <2>5. ReadFirst'
    BY <1>1, <1>2, <2>1 DEF RunInv, ReadFirst
  <2> QED BY <1>3, <2>3, <2>4, <2>5 DEF RunInv
<1> QED BY <1>5, <1>6

\* A run that is killed, wherever it is.
LEMMA KillKeeps ==
  ASSUME RunInv, Files!DieWriting \/ Files!DieCopying \/ Files!DieInSoul \/ Files!DieBetween
  PROVE  RunInv'
<1> DEFINE s == Head(todo)
<1>1. /\ UNCHANGED <<sel, had>> /\ todo # <<>> /\ queue' = {} /\ todo' = <<>> /\ cmd' = "none"
      /\ told' = {} /\ reg' = FALSE
  BY DEF Files!DieWriting, Files!DieCopying, Files!DieInSoul, Files!DieBetween, Files!Kill,
     Files!GiveUp
<1>2. Files!Selected' = Files!Selected
  BY <1>1, SameSelected
<1>3. /\ live \in [Files!Selected -> Files!Contents]
      /\ back \in [Files!Selected -> Files!Contents] /\ s \in StepType
      /\ todo \in Seq(StepType) /\ nobak \subseteq Files!Configs /\ s = todo[1]
  BY <1>1, HeadTailProperties DEF RunInv, Files!TypeOK, Turns
<1>4. Files!Torn \in Files!Contents
  <2>1. Files!Absent \in Files!Contents
    BY DEF Files!Absent, Files!Contents, Files!States
  <2> QED BY <2>1 DEF Files!Torn, Files!Contents, Files!States
<1>5. Files!Rewrites(s) => s.f \in Files!Configs
  BY <1>3 DEF Files!Rewrites, Files!Replaces, StepType, StepOK, Files!Configs
<1>6. s.op \in Files!Overwrites => s.f \notin Files!Configs \/ s.f = "allowlist"
  BY <1>3 DEF Files!Overwrites, StepType, StepOK
<1> DEFINE KeptAt(f) == \/ live'[f].user /\ live'[f].st \in {"ok", "broken"}
                        \/ live'[f].st = "torn" /\ back'[f].user
<1> HIDE DEF s
<1>7. \A f \in had \ (nobak \cup Exempt) :
        /\ \/ live[f].user /\ live[f].st \in {"ok", "broken"}
           \/ live[f].st = "torn" /\ back[f].user
        /\ f \in Files!Selected \cap Files!Configs
  BY DEF RunInv, Kept, Files!TypeOK, Turns
<1>8. /\ {live', back'} \subseteq [Files!Selected -> Files!Contents] /\ nobak \subseteq nobak'
      /\ nobak' \subseteq Files!Configs
      /\ \A f \in had \ (nobak' \cup Exempt) : KeptAt(f)
  <2>1. CASE Files!DieWriting
    <3>1. live' = [live EXCEPT ![s.f] = Files!Torn] /\ nobak' = nobak
      BY <2>1 DEF Files!DieWriting, Files!Put, s
    <3>2. /\ live' \in [Files!Selected -> Files!Contents]
          /\ \A g \in Files!Selected : live'[g] = IF g = s.f THEN Files!Torn ELSE live[g]
      BY <1>3, <1>4, <3>1
    <3>3. CASE Files!Rewrites(s) /\ Files!BackUp(s.f)
      <4>1. back' \in [Files!Selected -> Files!Contents]
            /\ \A g \in Files!Selected :
                 back'[g] = IF g = s.f /\ live[s.f].st # "absent" THEN live[s.f] ELSE back[g]
        BY <1>3, <3>3 DEF Files!BackUp
      <4>2. live[s.f].st \in {"absent", "ok"}
        BY <3>3 DEF Files!Rewrites, Files!Parses
      <4>3. \A f \in had \ (nobak' \cup Exempt) : KeptAt(f)
        BY <1>7, <3>1, <3>2, <4>1, <4>2 DEF Files!Torn
      <4> QED BY <1>3, <3>1, <3>2, <4>1, <4>3
    <3>4. CASE s.op \in Files!Overwrites /\ back' = back
      <4>1. \A f \in had \ (nobak' \cup Exempt) : KeptAt(f)
        BY <1>6, <1>7, <3>1, <3>2, <3>4 DEF Exempt
      <4> QED BY <1>3, <3>1, <3>2, <3>4, <4>1
    <3> QED BY <2>1, <3>3, <3>4 DEF Files!DieWriting, s
  <2>2. CASE Files!DieCopying
    <3>1. /\ Files!Rewrites(s) /\ live[s.f].st # "absent"
          /\ back' = [back EXCEPT ![s.f] = Files!Torn]
          /\ \/ UNCHANGED <<live, nobak>>
             \/ live' = [live EXCEPT ![s.f] = Files!Torn] /\ nobak' = nobak \cup {s.f}
      BY <2>2 DEF Files!DieCopying, Files!Put, s
    <3>2. /\ back' \in [Files!Selected -> Files!Contents]
          /\ \A g \in Files!Selected : g # s.f => back'[g] = back[g]
      BY <1>3, <1>4, <3>1
    <3>3. live[s.f].st = "ok"
      BY <3>1 DEF Files!Rewrites, Files!Parses
    <3>4. CASE UNCHANGED <<live, nobak>>
      BY <1>3, <1>7, <3>2, <3>3, <3>4
    <3>5. CASE live' = [live EXCEPT ![s.f] = Files!Torn] /\ nobak' = nobak \cup {s.f}
      <4>1. /\ live' \in [Files!Selected -> Files!Contents]
            /\ \A g \in Files!Selected : g # s.f => live'[g] = live[g]
        BY <1>3, <1>4, <3>5
      <4> QED BY <1>3, <1>5, <1>7, <3>1, <3>2, <3>5, <4>1
    <3> QED BY <3>1, <3>4, <3>5
  <2>3. CASE Files!DieInSoul \/ Files!DieBetween
    <3>1. UNCHANGED <<live, back, nobak>>
      BY <2>3 DEF Files!DieInSoul, Files!DieBetween
    <3> QED BY <1>3, <1>7, <3>1
  <2> QED BY <2>1, <2>2, <2>3
<1>9. Kept'
  BY <1>1, <1>8 DEF Kept
<1>10. Files!TypeOK'
  BY <1>1, <1>2, <1>8 DEF RunInv, Files!TypeOK
<1>11. Turns' /\ ReadFirst'
  <2>1. <<>> \in Seq(StepType) /\ DOMAIN <<>> = {}
    OBVIOUS
  <2>2. queue' \subseteq sel /\ todo' \in Seq(StepType) /\ reg' \in BOOLEAN
    BY <1>1, <2>1
  <2> QED BY <1>1, <2>1, <2>2 DEF RunInv, Turns, ReadFirst
<1> QED BY <1>9, <1>10, <1>11 DEF RunInv

\* A file that the user puts right.
LEMMA RepairKeeps == ASSUME RunInv, NEW g \in Files!Selected, Files!Repair(g) PROVE RunInv'
<1>1. UNCHANGED <<sel, had, back, queue, todo, reg, told, nobak, cmd>> /\ cmd = "none"
  BY DEF Files!Repair
<1>2. Files!Selected' = Files!Selected
  BY <1>1, SameSelected
<1>3. live \in [Files!Selected -> Files!Contents] /\ back \in [Files!Selected -> Files!Contents]
  BY DEF RunInv, Files!TypeOK
<1>4. PICK c : /\ live' = [live EXCEPT ![g] = c]
               /\ \/ live[g].st = "torn" /\ back[g].st = "ok" /\ c = back[g]
                  \/ live[g].st = "broken" /\ c = [live[g] EXCEPT !.st = "ok"]
  BY DEF Files!Repair, Files!Put
<1>5. c \in Files!Contents /\ c.st = "ok" /\ (live[g].st = "broken" => c.user = live[g].user)
  BY <1>3, <1>4 DEF Files!Contents, Files!States
<1>6. /\ live' \in [Files!Selected -> Files!Contents]
      /\ \A f \in Files!Selected : live'[f] = IF f = g THEN c ELSE live[f]
  BY <1>3, <1>4, <1>5
<1>7. Files!TypeOK' /\ Turns'
  BY <1>1, <1>2, <1>6 DEF RunInv, Files!TypeOK, Turns
<1>8. ReadFirst'
  <2>1. \A f \in Files!Selected : Files!Parses(live[f]) => Files!Parses(live'[f])
    BY <1>5, <1>6 DEF Files!Parses
  <2> QED BY <1>1, <1>2, <2>1 DEF RunInv, ReadFirst
<1>9. Kept'
  <2>1. \A f \in had \ (nobak \cup Exempt) :
          /\ \/ live[f].user /\ live[f].st \in {"ok", "broken"}
             \/ live[f].st = "torn" /\ back[f].user
          /\ f \in Files!Selected \cap Files!Configs
    BY DEF RunInv, Kept, Files!TypeOK, Turns
  <2> QED BY <1>1, <1>4, <1>5, <1>6, <2>1 DEF Kept
<1> QED BY <1>7, <1>8, <1>9 DEF RunInv

\* Before the first run.
LEMMA RunInit == ASSUME Files!Init PROVE RunInv
<1>1. /\ sel \in Selections /\ sel \subseteq Files!Agents
      /\ live \in [Files!Selected -> UNION {Files!InitialConfigs(f) : f \in Files!Configs}]
      /\ \A f \in Files!Selected :
           live[f] \in IF f \in Files!Configs THEN Files!InitialConfigs(f) ELSE {Files!Absent}
      /\ had = {f \in Files!Selected : live[f].user}
      /\ back = [f \in Files!Selected |-> Files!Absent]
      /\ cmd = "none" /\ queue = {} /\ todo = <<>> /\ reg = FALSE /\ told = {} /\ nobak = {}
  BY SelectionsAssumption DEF Files!Init
<1>2. Files!Absent \in Files!Contents /\ Files!Absent.user = FALSE
  BY DEF Files!Absent, Files!Contents, Files!States
<1>3. Files!Ok \in Files!Contents
  BY <1>2 DEF Files!Ok, Files!Contents, Files!States
<1>4. \A f : \A c \in Files!InitialConfigs(f) :
        c \in Files!Contents /\ (c.user => c.st \in {"ok", "broken"})
  BY <1>2, <1>3 DEF Files!InitialConfigs, Files!Contents, Files!States, Files!Ok
<1>5. /\ live \in [Files!Selected -> Files!Contents]
      /\ \A f \in Files!Selected :
             live[f].user => f \in Files!Configs /\ live[f].st \in {"ok", "broken"}
  BY <1>1, <1>2, <1>4
<1>8. Files!TypeOK
  <2>1. back \in [Files!Selected -> Files!Contents]
    BY <1>1, <1>2
  <2> QED BY <1>1, <1>5, <2>1 DEF Files!TypeOK
<1>6. Files!TypeOK /\ Turns /\ Kept
  <2>1. had \subseteq Files!Configs
    BY <1>1, <1>5
  <2>2. todo \in Seq(StepType)
    <3>1. <<>> \in Seq(StepType)
      OBVIOUS
    <3> QED BY <1>1, <3>1
  <2>3. Kept
    BY <1>1, <1>5 DEF Kept
  <2> QED BY <1>1, <1>8, <2>1, <2>2, <2>3 DEF Turns
<1>7. ReadFirst
  BY <1>1 DEF ReadFirst
<1> QED BY <1>6, <1>7 DEF RunInv

Words == UserText \cup Files!ToSet(Files!Persona)
HasEnd(s) == \E i \in 1..Len(s) : s[i] = "END"

\* The words of the user are not those of the block.
LEMMA WordsAre ==
  /\ Files!ToSet(Files!Persona) = {"BEGIN", "persona", "END"} /\ Files!Persona \in Seq(Words)
  /\ Len(Files!Persona) = 3
  /\ Files!Persona[1] = "BEGIN" /\ Files!Persona[2] = "persona" /\ Files!Persona[3] = "END"
  /\ \A t \in UserText : t \notin {"BEGIN", "persona", "END"}
<1>1. /\ Files!Persona \in Seq({"BEGIN", "persona", "END"}) /\ Len(Files!Persona) = 3
      /\ Files!Persona[1] = "BEGIN" /\ Files!Persona[2] = "persona" /\ Files!Persona[3] = "END"
  BY DEF Files!Persona
<1>2. Files!ToSet(Files!Persona) = {"BEGIN", "persona", "END"}
  <2>1. DOMAIN Files!Persona = 1..3
    BY <1>1, LenProperties
  <2> QED BY <1>1, <2>1 DEF Files!ToSet
<1>3. Files!Persona \in Seq(Words)
  <2>1. Files!Persona \in Seq(Files!ToSet(Files!Persona))
    BY <1>1, <1>2
  <2>2. Files!ToSet(Files!Persona) \subseteq Words
    BY DEF Words
  <2> HIDE DEF Words, Files!Persona
  <2> QED BY <2>1, <2>2, ElementOfSeq
<1> QED BY <1>1, <1>2, <1>3 DEF UserText

\* Where a word is first, if it is.
LEMMA FirstWord ==
  ASSUME NEW S, NEW s \in Seq(S), NEW w
  PROVE  LET p == Files!SelectInSeq(s, LAMBDA t : t = w)
         IN \/ p = 0 /\ \A i \in 1..Len(s) : s[i] # w
            \/ p \in 1..Len(s) /\ s[p] = w /\ \A i \in 1..Len(s) : s[i] = w => p <= i
<1> DEFINE I == {i \in 1..Len(s) : s[i] = w}
<1>1. Files!SelectInSeq(s, LAMBDA t : t = w) = IF I # {} THEN Files!Min(I) ELSE 0
  BY DEF Files!SelectInSeq
<1>2. Len(s) \in Nat /\ I \subseteq Nat
  BY LenProperties
<1>3. I # {} => Files!Min(I) \in I /\ \A j \in I : Files!Min(I) <= j
  <2> HIDE DEF I
  <2>1. I # {} => \E x \in I : \A j \in I : x <= j
    BY <1>2, NatMin
  <2> QED BY <2>1 DEF Files!Min
<1> QED
  BY <1>1, <1>2, <1>3

\* A file without the end of a block has none.
LEMMA UpsertKeeps ==
  ASSUME NEW s \in Seq(Words), ~HasEnd(s), NEW block
  PROVE  Files!Upsert(s, block) = s \o block
<1> DEFINE b == Files!SelectInSeq(s, LAMBDA t : t = "BEGIN")
           e == Files!SelectInSeq(s, LAMBDA t : t = "END")
           n == Len(s)
<1>1. s \in Seq(Words) /\ n \in Nat /\ \A i \in 1..n : s[i] # "END"
  BY LenProperties DEF HasEnd
<1>2. \/ b = 0 /\ \A i \in 1..n : s[i] # "BEGIN"
      \/ b \in 1..n /\ s[b] = "BEGIN" /\ \A i \in 1..n : s[i] = "BEGIN" => b <= i
  BY <1>1, FirstWord
<1>3. \/ e = 0 /\ \A i \in 1..n : s[i] # "END"
      \/ e \in 1..n /\ s[e] = "END" /\ \A i \in 1..n : s[i] = "END" => e <= i
  BY <1>1, FirstWord
<1>4. Files!Upsert(s, block) =
        (IF 0 < b /\ b < e THEN SubSeq(s, 1, b - 1) \o SubSeq(s, e + 1, n) ELSE s) \o block
  BY DEF Files!Upsert
<1> HIDE DEF b, e, n
<1>5. e = 0 /\ ~(0 < b /\ b < e)
  BY <1>1, <1>2, <1>3
<1> QED BY <1>4, <1>5

\* One that ends with it is the user's text and blocks, of which the user's text stays.
LEMMA UpsertCuts ==
  ASSUME NEW s, NEW m, Shape(s, m), HasEnd(s), NEW T, NEW block \in Seq(T)
  PROVE  Files!Upsert(s, block) = SubSeq(s, 1, m) \o block
<1> DEFINE b == Files!SelectInSeq(s, LAMBDA t : t = "BEGIN")
           e == Files!SelectInSeq(s, LAMBDA t : t = "END")
           n == Len(s)
<1>1. /\ s \in Seq(Words) /\ n \in Nat /\ m \in 0..n
      /\ \A i \in 1..n : s[i] \in Words
      /\ \A i \in 1..m : s[i] \in UserText
      /\ \A i \in m + 1..n : s[i] \notin UserText
      /\ m < n => s[m + 1] = "BEGIN"
      /\ \A i \in 1..n - 1 : s[i] # "END"
  BY LenProperties, ElementOfSeq DEF Shape, Words
<1>2. \/ b = 0 /\ \A i \in 1..n : s[i] # "BEGIN"
      \/ b \in 1..n /\ s[b] = "BEGIN" /\ \A i \in 1..n : s[i] = "BEGIN" => b <= i
  BY <1>1, FirstWord
<1>3. \/ e = 0 /\ \A i \in 1..n : s[i] # "END"
      \/ e \in 1..n /\ s[e] = "END" /\ \A i \in 1..n : s[i] = "END" => e <= i
  BY <1>1, FirstWord
<1>4. Files!Upsert(s, block) =
        (IF 0 < b /\ b < e THEN SubSeq(s, 1, b - 1) \o SubSeq(s, e + 1, n) ELSE s) \o block
  BY DEF Files!Upsert
<1> HIDE DEF b, e, n
<1>5. e = n /\ n > 0 /\ s[n] = "END"
  BY <1>1, <1>3 DEF HasEnd, n
<1>6. m < n
  <2>1. n \notin 1..m
    BY <1>1, <1>5, WordsAre
  <2> QED BY <1>1, <1>5, <2>1
<1>7. b = m + 1 /\ b < e
  <2>1. m + 1 \in 1..n /\ s[m + 1] = "BEGIN"
    BY <1>1, <1>6
  <2>2. b \in 1..n /\ s[b] = "BEGIN" /\ b <= m + 1
    BY <1>2, <2>1
  <2>3. b \notin 1..m
    BY <1>1, <2>2, WordsAre
  <2>4. b = m + 1
    BY <1>1, <2>2, <2>3
  <2>5. m + 1 # n
    BY <1>5, <2>1
  <2> QED BY <1>1, <1>5, <1>6, <2>4, <2>5
<1>8. SubSeq(s, 1, m) \in Seq(Words)
  BY <1>1, SubSeqProperties DEF n
<1>9. SubSeq(s, n + 1, n) = <<>>
  BY <1>1, SubSeqProperties, EmptySeq DEF n
<1>10. SubSeq(s, 1, m) \o <<>> = SubSeq(s, 1, m)
  BY <1>8, ConcatEmptySeq
<1>11. b - 1 = m
  BY <1>1, <1>7
<1>12. 0 < b
  BY <1>1, <1>7
<1>13. Files!Upsert(s, block) = (SubSeq(s, 1, m) \o SubSeq(s, n + 1, n)) \o block
  BY <1>4, <1>5, <1>7, <1>11, <1>12
<1> QED BY <1>9, <1>10, <1>13

\* What is cut off of one is one.
LEMMA ShapeCut ==
  ASSUME NEW s, NEW m, Shape(s, m), NEW n \in 0..Len(s)
  PROVE  \E l \in 0..Len(SubSeq(s, 1, n)) : Shape(SubSeq(s, 1, n), l)
<1>1. s \in Seq(Words) /\ Len(s) \in Nat /\ m \in 0..Len(s) /\ \A i \in 1..Len(s) : s[i] \in Words
  BY LenProperties, ElementOfSeq DEF Shape, Words
<1>2. /\ SubSeq(s, 1, n) \in Seq(Words) /\ Len(SubSeq(s, 1, n)) = n
      /\ \A i \in 1..n : SubSeq(s, 1, n)[i] = s[i]
  BY <1>1, SubSeqProperties
<1> DEFINE l == IF m < n THEN m ELSE n
<1>3. l \in 0..n
  BY <1>1
<1>4. Shape(SubSeq(s, 1, n), l)
  BY <1>1, <1>2 DEF Shape, Words
<1> QED BY <1>2, <1>3, <1>4

\* What is the user's, with a block after it or none.
LEMMA ShapeUser ==
  ASSUME NEW s, NEW m, Shape(s, m)
  PROVE  LET u == SubSeq(s, 1, m) IN
         /\ u \in Seq(UserText) /\ Len(u) = m
         /\ Shape(u, m) /\ Shape(u \o Files!Persona, m) /\ HasEnd(u \o Files!Persona)
         /\ SubSeq(u \o Files!Persona, 1, m) = u
         /\ {i \in DOMAIN (u \o Files!Persona) : (u \o Files!Persona)[i] = "BEGIN"} = {m + 1}
<1> DEFINE u == SubSeq(s, 1, m)
           t == u \o Files!Persona
<1>1. /\ s \in Seq(Words) /\ Len(s) \in Nat /\ m \in 0..Len(s) /\ m \in Nat
      /\ \A i \in 1..m : s[i] \in UserText
  BY LenProperties DEF Shape, Words
<1>2. /\ u \in Seq(UserText) /\ Len(u) = m /\ \A i \in 1..m : u[i] = s[i]
      /\ u \in Seq(Words) /\ \A i \in 1..m : u[i] \in UserText
  <2>1. Len(u) = m /\ u \in Seq(Words) /\ \A i \in 1..m : u[i] = s[i]
    BY <1>1, SubSeqProperties
  <2>2. u \in Seq(UserText)
    BY <1>1, SubSeqProperties
  <2> QED BY <1>1, <2>1, <2>2
<1>3. /\ t \in Seq(Words) /\ Len(t) = m + 3
      /\ \A i \in 1..m + 3 : t[i] = IF i <= m THEN u[i] ELSE Files!Persona[i - m]
  <2>1. u \in Seq(Words) /\ Len(u) = m /\ Files!Persona \in Seq(Words) /\ Len(Files!Persona) = 3
    BY <1>2, WordsAre
  <2> HIDE DEF u
  <2>2. t \in Seq(Words) /\ Len(t) = Len(u) + Len(Files!Persona)
    BY <2>1, ConcatProperties
  <2>3. \A i \in 1..Len(u) + Len(Files!Persona) :
          t[i] = IF i <= Len(u) THEN u[i] ELSE Files!Persona[i - Len(u)]
    BY <2>1, ConcatProperties
  <2> HIDE DEF t
  <2> QED BY <2>1, <2>2, <2>3
<1>4. /\ t[m + 1] = "BEGIN" /\ t[m + 2] = "persona" /\ t[m + 3] = "END"
      /\ \A i \in 1..m : t[i] = u[i]
  <2> HIDE DEF u, t
  <2> QED BY <1>1, <1>3, WordsAre
<1> HIDE DEF u, t
<1>5. Shape(u, m)
  BY <1>1, <1>2 DEF Shape, Words
<1>6. Shape(t, m)
  <2>1. t \in Seq(UserText \cup Files!ToSet(Files!Persona)) /\ m \in 0..Len(t) /\ m < Len(t)
    BY <1>1, <1>3 DEF Words
  <2>2. \A i \in 1..m : t[i] \in UserText
    BY <1>2, <1>4
  <2>3. \A i \in m + 1..m + 3 : i \in {m + 1, m + 2, m + 3}
    BY <1>1
  <2>4. \A i \in m + 1..m + 3 : t[i] \notin UserText
    BY <1>4, <2>3, WordsAre
  <2>5. ASSUME NEW i \in 1..m + 2 PROVE t[i] # "END"
    <3>1. i \in 1..m \/ i \in {m + 1, m + 2}
      BY <1>1
    <3> QED BY <1>4, <2>2, <3>1, WordsAre
  <2>6. Len(t) - 1 = m + 2
    BY <1>1, <1>3
  <2> QED BY <1>3, <1>4, <2>1, <2>2, <2>4, <2>5, <2>6 DEF Shape
<1>7. HasEnd(t)
  BY <1>1, <1>3, <1>4 DEF HasEnd
<1>8. SubSeq(t, 1, m) = u
  <2>1. /\ SubSeq(t, 1, m) \in Seq(Words) /\ Len(SubSeq(t, 1, m)) = m
        /\ \A i \in 1..m : SubSeq(t, 1, m)[i] = t[i]
    BY <1>1, <1>3, SubSeqProperties
  <2> QED BY <1>2, <1>4, <2>1, SeqEqual
<1>9. {i \in DOMAIN t : t[i] = "BEGIN"} = {m + 1}
  <2>1. DOMAIN t = 1..m + 3
    BY <1>3, LenProperties
  <2>2. ASSUME NEW i \in 1..m + 3 PROVE t[i] = "BEGIN" <=> i = m + 1
    <3>1. i \in 1..m \/ i \in {m + 1, m + 2, m + 3}
      BY <1>1
    <3>2. \A j \in 1..m : j # m + 1
      BY <1>1
    <3> QED BY <1>2, <1>4, <3>1, <3>2, WordsAre
  <2>3. m + 1 \in 1..m + 3
    BY <1>1
  <2> QED BY <2>1, <2>2, <2>3
<1> QED BY <1>2, <1>5, <1>6, <1>7, <1>8, <1>9 DEF t, u

\* A file whose block was cut off keeps what it has, and is one with a whole block after.
LEMMA ShapeGrows ==
  ASSUME NEW s, NEW m, Shape(s, m), ~HasEnd(s)
  PROVE  LET t == s \o Files!Persona IN
         Shape(t, m) /\ HasEnd(t) /\ SubSeq(t, 1, m) = SubSeq(s, 1, m)
<1> DEFINE t == s \o Files!Persona
           n == Len(s)
<1>1. /\ s \in Seq(Words) /\ n \in Nat /\ m \in 0..n /\ m \in Nat
      /\ \A i \in 1..n : s[i] # "END"
      /\ \A i \in 1..m : s[i] \in UserText
      /\ \A i \in m + 1..n : s[i] \notin UserText
      /\ m < n => s[m + 1] = "BEGIN"
  BY LenProperties DEF Shape, Words, HasEnd
<1>2. /\ t \in Seq(Words) /\ Len(t) = n + 3
      /\ \A i \in 1..n + 3 : t[i] = IF i <= n THEN s[i] ELSE Files!Persona[i - n]
  <2>1. Files!Persona \in Seq(Words) /\ Len(Files!Persona) = 3
    BY WordsAre
  <2>2. t \in Seq(Words) /\ Len(t) = Len(s) + Len(Files!Persona)
    BY <1>1, <2>1, ConcatProperties
  <2>3. \A i \in 1..Len(s) + Len(Files!Persona) :
          t[i] = IF i <= Len(s) THEN s[i] ELSE Files!Persona[i - Len(s)]
    BY <1>1, <2>1, ConcatProperties
  <2> HIDE DEF t
  <2> QED BY <2>1, <2>2, <2>3
<1> HIDE DEF t, n
<1>3. /\ t[n + 1] = "BEGIN" /\ t[n + 2] = "persona" /\ t[n + 3] = "END"
      /\ \A i \in 1..n : t[i] = s[i]
  BY <1>1, <1>2, WordsAre
<1>4. Shape(t, m)
  <2>1. t \in Seq(UserText \cup Files!ToSet(Files!Persona)) /\ m \in 0..Len(t)
    BY <1>1, <1>2 DEF Words
  <2>2. \A i \in 1..m : t[i] \in UserText
    BY <1>1, <1>3
  <2>3. ASSUME NEW i \in m + 1..n + 3 PROVE t[i] \notin UserText
    <3>1. i \in m + 1..n \/ i \in {n + 1, n + 2, n + 3}
      BY <1>1
    <3>2. \A j \in m + 1..n : j \in 1..n
      BY <1>1
    <3> QED BY <1>1, <1>3, <3>1, <3>2, WordsAre
  <2>4. t[m + 1] = "BEGIN"
    <3>1. m = n \/ (m < n /\ m + 1 \in 1..n)
      BY <1>1
    <3> QED BY <1>1, <1>3, <3>1
  <2>5. ASSUME NEW i \in 1..n + 2 PROVE t[i] # "END"
    <3>1. i \in 1..n \/ i \in {n + 1, n + 2}
      BY <1>1
    <3> QED BY <1>1, <1>3, <3>1
  <2>6. Len(t) - 1 = n + 2
    BY <1>1, <1>2
  <2> QED BY <1>2, <2>1, <2>2, <2>3, <2>4, <2>5, <2>6 DEF Shape
<1>5. HasEnd(t)
  BY <1>1, <1>2, <1>3 DEF HasEnd
<1>6. SubSeq(t, 1, m) = SubSeq(s, 1, m)
  <2>1. /\ SubSeq(t, 1, m) \in Seq(Words) /\ Len(SubSeq(t, 1, m)) = m
        /\ \A i \in 1..m : SubSeq(t, 1, m)[i] = t[i]
    BY <1>1, <1>2, SubSeqProperties
  <2>2. /\ SubSeq(s, 1, m) \in Seq(Words) /\ Len(SubSeq(s, 1, m)) = m
        /\ \A i \in 1..m : SubSeq(s, 1, m)[i] = s[i]
    BY <1>1, SubSeqProperties DEF n
  <2>3. \A i \in 1..m : t[i] = s[i]
    BY <1>1, <1>3
  <2> QED BY <2>1, <2>2, <2>3, SeqEqual
<1> QED BY <1>4, <1>5, <1>6 DEF t

\* What two refreshes make of a file: the user's text, and one block.
LEMMA Refreshed ==
  ASSUME NEW s, NEW m, Shape(s, m)
  PROVE  LET done == SubSeq(s, 1, m) \o Files!Persona IN
         /\ Files!Upsert(Files!Upsert(s, Files!Persona), Files!Persona) = done
         /\ Files!Upsert(done, Files!Persona) = done
         /\ \A new \in {Files!Upsert(s, Files!Persona), Files!Upsert(s, <<>>)} :
              \E l \in 0..Len(new) : Shape(new, l)
<1> DEFINE u == SubSeq(s, 1, m)
           done == u \o Files!Persona
<1>1. /\ u \in Seq(UserText) /\ Shape(u, m) /\ Shape(done, m) /\ HasEnd(done)
      /\ SubSeq(done, 1, m) = u
  BY ShapeUser
<1>2. \A x, l : Shape(x, l) => l \in 0..Len(x)
  BY DEF Shape
<1>3. Files!Persona \in Seq(Words) /\ <<>> \in Seq(Words) /\ s \in Seq(Words)
  BY WordsAre DEF Shape, Words
<1> HIDE DEF u, done
<1>4. Files!Upsert(done, Files!Persona) = done
  <2>1. Files!Upsert(done, Files!Persona) = SubSeq(done, 1, m) \o Files!Persona
    BY <1>1, <1>3, UpsertCuts
  <2> QED BY <1>1, <2>1 DEF done
<1>5. CASE HasEnd(s)
  <2>1. Files!Upsert(s, Files!Persona) = done /\ Files!Upsert(s, <<>>) = u \o <<>>
    BY <1>3, <1>5, UpsertCuts DEF u, done
  <2>2. u \o <<>> = u
    BY <1>1, ConcatEmptySeq
  <2> QED BY <1>1, <1>2, <1>4, <2>1, <2>2 DEF u, done
<1>6. CASE ~HasEnd(s)
  <2>1. Files!Upsert(s, Files!Persona) = s \o Files!Persona /\ Files!Upsert(s, <<>>) = s \o <<>>
    BY <1>3, <1>6, UpsertKeeps
  <2>2. s \o <<>> = s
    BY <1>3, ConcatEmptySeq
  <2>3. /\ Shape(s \o Files!Persona, m) /\ HasEnd(s \o Files!Persona)
        /\ SubSeq(s \o Files!Persona, 1, m) = u
    BY <1>6, ShapeGrows DEF u
  <2>4. Files!Upsert(s \o Files!Persona, Files!Persona) = done
    BY <1>3, <2>3, UpsertCuts DEF done
  <2> QED BY <1>2, <1>4, <2>1, <2>2, <2>3, <2>4 DEF u, done
<1> QED BY <1>5, <1>6

Joined == <<"mine", "also mine">>

\* A block with a text of the user before it and one after it.
Among(s) ==
  /\ s \in Seq(Words) /\ Len(s) = 5 /\ s[1] = "mine" /\ s[2] = "BEGIN" /\ s[3] = "persona"
  /\ s[4] = "END" /\ s[5] = "also mine"

\* A block between texts of the user is taken out, and the texts come together.
LEMMA CutBetween ==
  ASSUME NEW s, Among(s), NEW block
  PROVE  Files!Upsert(s, block) = Joined \o block
<1> DEFINE b == Files!SelectInSeq(s, LAMBDA t : t = "BEGIN")
           e == Files!SelectInSeq(s, LAMBDA t : t = "END")
           n == Len(s)
<1>1. s \in Seq(Words) /\ n \in Nat /\ \A i \in 1..n : s[i] \in Words /\ s[i] # ""
  <2>1. "" \notin Words
    BY WordsAre DEF Words, UserText
  <2>2. s \in Seq(Words) /\ n \in Nat
    BY LenProperties DEF Among
  <2>3. \A i \in 1..n : s[i] \in Words
    BY <2>2, ElementOfSeq
  <2> QED BY <2>1, <2>2, <2>3
<1>2. \/ b = 0 /\ \A i \in 1..n : s[i] # "BEGIN"
      \/ b \in 1..n /\ s[b] = "BEGIN" /\ \A i \in 1..n : s[i] = "BEGIN" => b <= i
  BY <1>1, FirstWord
<1>3. \/ e = 0 /\ \A i \in 1..n : s[i] # "END"
      \/ e \in 1..n /\ s[e] = "END" /\ \A i \in 1..n : s[i] = "END" => e <= i
  BY <1>1, FirstWord
<1>4. Files!Upsert(s, block) =
        (IF 0 < b /\ b < e THEN SubSeq(s, 1, b - 1) \o SubSeq(s, e + 1, n) ELSE s) \o block
  BY DEF Files!Upsert
<1> HIDE DEF b, e, n
<1>8. n = 5
  BY DEF n, Among
<1>5. b = 2 /\ e = 4
  <2>1. s[1] = "mine" /\ s[2] = "BEGIN" /\ s[3] = "persona" /\ s[4] = "END" /\ s[5] = "also mine"
    BY DEF Among
  <2>3. \A i \in 1..n : i = 1 \/ i = 2 \/ i = 3 \/ i = 4 \/ i = 5
    BY <1>8
  <2>4. \A i \in 1..n : (s[i] = "BEGIN" <=> i = 2) /\ (s[i] = "END" <=> i = 4)
    BY <2>1, <2>3
  <2>5. 2 \in 1..n /\ 4 \in 1..n
    BY <1>8
  <2>2. b \in 1..n /\ s[b] = "BEGIN" /\ e \in 1..n /\ s[e] = "END"
    BY <1>2, <1>3, <2>4, <2>5
  <2> QED BY <2>4, <2>2
<1>6. Files!Upsert(s, block) = (SubSeq(s, 1, 1) \o SubSeq(s, 5, 5)) \o block
  BY <1>4, <1>5, <1>8
<1>9. \A i \in 1..5 : s[i] \in Words
  BY <1>1, <1>8
<1>7. SubSeq(s, 1, 1) \o SubSeq(s, 5, 5) = Joined
  <2> DEFINE x == SubSeq(s, 1, 1)
             y == SubSeq(s, 5, 5)
  <2>1. x \in Seq(Words) /\ Len(x) = 1 /\ x[1] = s[1]
    BY <1>9, SubSeqProperties
  <2>2. y \in Seq(Words) /\ Len(y) = 1 /\ y[1] = s[5]
    BY <1>9, SubSeqProperties
  <2> HIDE DEF x, y
  <2>3. x \o y \in Seq(Words) /\ Len(x \o y) = 2 /\ (x \o y)[1] = x[1] /\ (x \o y)[2] = y[1]
    BY <2>1, <2>2, ConcatProperties
  <2>4. Joined \in Seq(Words) /\ Len(Joined) = 2 /\ Joined[1] = "mine" /\ Joined[2] = "also mine"
    BY DEF Joined, Words, UserText
  <2>6. \A i \in 1..2 : i = 1 \/ i = 2
    OBVIOUS
  <2>7. s[1] = "mine" /\ s[5] = "also mine"
    BY DEF Among
  <2>5. \A i \in 1..2 : (x \o y)[i] = Joined[i]
    BY <2>1, <2>2, <2>3, <2>4, <2>6, <2>7
  <2> QED BY <2>3, <2>4, <2>5, SeqEqual DEF x, y
<1> QED BY <1>6, <1>7

\* What a refresh makes of the file with a block between, and the shape of what is left.
LEMMA BetweenIs ==
  /\ Shape(Joined, 2) /\ SubSeq(Joined, 1, 2) = Joined
  /\ \A block : Files!Upsert(Between, block) = Joined \o block
<1>1. /\ Len(Between) = 5 /\ Between[1] = "mine" /\ Between[2] = "BEGIN" /\ Between[3] = "persona"
      /\ Between[4] = "END" /\ Between[5] = "also mine"
  BY DEF Between
<1>2. Between \in Seq(Words)
  <2> DEFINE W == {"mine", "BEGIN", "persona", "END", "also mine"}
  <2>1. Between \in Seq(W)
    BY DEF Between
  <2>2. W \subseteq Words
    BY WordsAre DEF Words, UserText
  <2> HIDE DEF W, Words
  <2> QED BY <2>1, <2>2, ElementOfSeq
<1>8. \A block : Files!Upsert(Between, block) = Joined \o block
  BY <1>1, <1>2, CutBetween DEF Among
<1>9. Joined \in Seq(Words) /\ Joined \in Seq(UserText) /\ Len(Joined) = 2
      /\ \A i \in 1..2 : Joined[i] \in UserText
  BY DEF Joined, Words, UserText
<1>10. Shape(Joined, 2)
  <2>1. Joined[1] # "END"
    BY DEF Joined
  <2> QED BY <1>9, <2>1 DEF Shape, Words
<1>11. SubSeq(Joined, 1, 2) = Joined
  BY <1>9, SubSeqFull
<1> QED BY <1>8, <1>10, <1>11

\* The sizes that AgentFiles counts.
LEMMA SameSizes == \A S : Files!Cardinality(S) = Cardinality(S)
BY DEF Files!Cardinality, Cardinality

\* What is the user's is what stands before the first block.
LEMMA MineIs == ASSUME NEW s, NEW m, Shape(s, m) PROVE Files!Mine(s) = SubSeq(s, 1, m)
<1> DEFINE I == {i \in DOMAIN s : s[i] \notin Files!ToSet(Files!Persona)}
<1>1. /\ s \in Seq(Words) /\ Len(s) \in Nat /\ m \in 0..Len(s) /\ m \in Nat
      /\ \A i \in 1..m : s[i] \in UserText
      /\ \A i \in m + 1..Len(s) : s[i] \notin UserText
      /\ \A i \in 1..Len(s) : s[i] \in Words
      /\ DOMAIN s = 1..Len(s)
  BY LenProperties, ElementOfSeq DEF Shape, Words
<1>2. I = 1..m
  <2>1. ASSUME NEW i \in 1..Len(s) PROVE s[i] \notin Files!ToSet(Files!Persona) <=> i \in 1..m
    <3>1. i \in 1..m \/ i \in m + 1..Len(s)
      BY <1>1
    <3>2. \A j \in m + 1..Len(s) : j \notin 1..m
      BY <1>1
    <3>3. UserText \cap Files!ToSet(Files!Persona) = {}
      BY WordsAre
    <3> QED BY <1>1, <3>1, <3>2, <3>3 DEF Words
  <2>2. \A i \in 1..m : i \in 1..Len(s)
    BY <1>1
  <2> QED BY <1>1, <2>1, <2>2
<1> HIDE DEF I
<1>3. Files!Cardinality(I) = m
  BY <1>1, <1>2, FS_Interval, SameSizes
<1>4. \A i \in I : Files!Cardinality({j \in I : j <= i}) = i
  <2>1. SUFFICES ASSUME NEW i \in 1..m PROVE Files!Cardinality({j \in 1..m : j <= i}) = i
    BY <1>2
  <2>2. {j \in 1..m : j <= i} = 1..i
    BY <1>1
  <2>3. Files!Cardinality(1..i) = i
    BY <2>1, FS_Interval, SameSizes
  <2> QED BY <2>2, <2>3
<1>5. \A n \in 1..m : (CHOOSE i \in I : Files!Cardinality({j \in I : j <= i}) = n) = n
  BY <1>2, <1>4
<1>6. Files!Mine(s) = [n \in 1..m |-> s[n]]
  <2>1. Files!Mine(s) =
          [n \in 1..Files!Cardinality(I) |->
             s[CHOOSE i \in I : Files!Cardinality({j \in I : j <= i}) = n]]
    BY DEF Files!Mine, I
  <2> QED BY <1>3, <1>5, <2>1
<1>7. SubSeq(s, 1, m) = [n \in 1..m |-> s[n]]
  <2> DEFINE f == [n \in 1..m |-> s[n]]
  <2>1. f \in Seq(Words) /\ Len(f) = m
    BY <1>1
  <2>2. /\ SubSeq(s, 1, m) \in Seq(Words) /\ Len(SubSeq(s, 1, m)) = m
        /\ \A i \in 1..m : SubSeq(s, 1, m)[i] = s[i]
    BY <1>1, SubSeqProperties
  <2> QED BY <2>1, <2>2, SeqEqual
<1> QED BY <1>6, <1>7

\* Of a file with a block between, the texts before and after it.
LEMMA MineBetween == Files!Mine(Between) = Joined
<1> DEFINE s == Between
           I == {i \in DOMAIN s : s[i] \notin Files!ToSet(Files!Persona)}
<1>1. /\ DOMAIN s = 1..5 /\ s[1] = "mine" /\ s[2] = "BEGIN" /\ s[3] = "persona"
      /\ s[4] = "END" /\ s[5] = "also mine"
  BY DEF Between
<1>2. I = {1, 5}
  <2>1. DOMAIN s = 1..5
    BY <1>1
  <2>2. \A i \in 1..5 : i \in {1, 2, 3, 4, 5}
    OBVIOUS
  <2> HIDE DEF s
  <2>3. \A i \in 1..5 : s[i] \in {"BEGIN", "persona", "END"} <=> i \notin {1, 5}
    BY <1>1, <2>2
  <2> QED BY <2>1, <2>3, WordsAre
<1> HIDE DEF I
<1>3. Files!Cardinality({1, 5}) = 2 /\ Files!Cardinality({1}) = 1
  <2>1. IsFiniteSet({1}) /\ Cardinality({1}) = 1
    BY FS_Singleton
  <2>2. {1, 5} = {1} \cup {5} /\ 5 \notin {1}
    OBVIOUS
  <2>3. Cardinality({1} \cup {5}) = 2
    BY <2>1, <2>2, FS_AddElement
  <2> QED BY <2>1, <2>2, <2>3, SameSizes
<1>4. {j \in I : j <= 1} = {1} /\ {j \in I : j <= 5} = {1, 5}
  BY <1>2
<1>5. /\ (CHOOSE i \in I : Files!Cardinality({j \in I : j <= i}) = 1) = 1
      /\ (CHOOSE i \in I : Files!Cardinality({j \in I : j <= i}) = 2) = 5
  BY <1>2, <1>3, <1>4
<1>6. Files!Mine(s) =
        [n \in 1..2 |-> s[CHOOSE i \in I : Files!Cardinality({j \in I : j <= i}) = n]]
  <2>1. Files!Mine(s) =
          [n \in 1..Files!Cardinality(I) |->
             s[CHOOSE i \in I : Files!Cardinality({j \in I : j <= i}) = n]]
    BY DEF Files!Mine, I
  <2> QED BY <1>2, <1>3, <2>1
<1>7. \A n \in 1..2 :
        s[CHOOSE i \in I : Files!Cardinality({j \in I : j <= i}) = n] = Joined[n]
  <2>1. \A n \in 1..2 : n \in {1, 2}
    OBVIOUS
  <2>2. s[1] = Joined[1] /\ s[5] = Joined[2]
    BY <1>1 DEF Joined
  <2> QED BY <1>5, <2>1, <2>2
<1>8. Joined = [n \in 1..2 |-> Joined[n]]
  BY DEF Joined
<1> QED BY <1>6, <1>7, <1>8

\* The identity file is the user's text with blocks after it, whole or cut off; or nothing of
\* dmem has run yet.
LEMMA UpsertShape ==
  ASSUME SoulInv, NEW block \in {<<>>, Files!Persona}
  PROVE  \E l \in 0..Len(Files!Upsert(soul, block)) : Shape(Files!Upsert(soul, block), l)
<1>1. ASSUME NEW x, NEW l, Shape(x, l) PROVE l \in 0..Len(x)
  BY <1>1 DEF Shape
<1>2. CASE soul = Between
  <2>1. Files!Upsert(soul, block) = Joined \o block
    BY <1>2, BetweenIs
  <2>2. Shape(Joined, 2) /\ Joined = SubSeq(Joined, 1, 2)
    BY BetweenIs
  <2>3. Shape(Joined \o Files!Persona, 2)
    BY <2>2, ShapeUser
  <2>4. Joined \o <<>> = Joined
    BY <2>2, ConcatEmptySeq DEF Shape
  <2> QED BY <1>1, <2>1, <2>2, <2>3, <2>4
<1>3. CASE \E m \in 0..Len(soul) : Shape(soul, m)
  BY <1>3, Refreshed
<1> QED BY <1>2, <1>3 DEF SoulInv

\* No step takes the file out of that shape.
LEMMA SoulKeeps == ASSUME SoulInv, [Files!Next]_(Files!vars) PROVE SoulInv'
<1> DEFINE Plan == IF Files!Removing THEN <<>> ELSE Files!Persona
<1>1. Plan \in {<<>>, Files!Persona}
  OBVIOUS
<1> DEFINE new == Files!Upsert(soul, Plan)
<1>2. \E l \in 0..Len(new) : Shape(new, l)
  <2> HIDE DEF Plan
  <2> QED BY <1>1, UpsertShape
<1> HIDE DEF new
<1>3. soul' = soul => SoulInv'
  BY DEF SoulInv, Shape
<1>4. soul' = new => SoulInv'
  BY <1>2 DEF SoulInv, Shape
<1>5. ASSUME Files!DieInSoul PROVE SoulInv'
  <2>1. PICK n \in 0..Len(new) : soul' = SubSeq(new, 1, n)
    BY <1>5 DEF Files!DieInSoul, new
  <2>2. \E l \in 0..Len(soul') : Shape(soul', l)
    BY <1>2, <2>1, ShapeCut
  <2> QED BY <2>2 DEF SoulInv, Shape
<1>6. soul' = soul \/ soul' = new \/ Files!DieInSoul
  BY DEF Files!Next, Files!vars, Files!Start, Files!Turn, Files!Do, Files!DoMerge, Files!DoMarket,
     Files!DoBlind, Files!DoApprove, Files!DoCheck, Files!DoIfThere, Files!DoTree, Files!DoCli,
     Files!DoSoul, Files!Finish, Files!DieWriting, Files!DieCopying, Files!DieBetween,
     Files!Repair, new
<1> QED BY <1>3, <1>4, <1>5, <1>6

\* Three words between one and one.
LEMMA FiveWords ==
  ASSUME NEW S, NEW x \in Seq(S), NEW s \in Seq(S), NEW y \in Seq(S),
         Len(x) = 1, Len(s) = 3, Len(y) = 1
  PROVE  LET t == x \o s \o y IN
         /\ t \in Seq(S) /\ Len(t) = 5 /\ t[1] = x[1] /\ t[2] = s[1] /\ t[3] = s[2] /\ t[4] = s[3]
         /\ t[5] = y[1]
<1> DEFINE z == x \o s
<1>1. /\ z \in Seq(S) /\ Len(z) = 4
      /\ \A i \in 1..4 : z[i] = IF i <= 1 THEN x[i] ELSE s[i - 1]
  <2>1. z \in Seq(S) /\ Len(z) = Len(x) + Len(s)
    BY ConcatProperties
  <2>2. \A i \in 1..Len(x) + Len(s) : z[i] = IF i <= Len(x) THEN x[i] ELSE s[i - Len(x)]
    BY ConcatProperties
  <2> QED BY <2>1, <2>2
<1> HIDE DEF z
<1>2. /\ z \o y \in Seq(S) /\ Len(z \o y) = 5
      /\ \A i \in 1..5 : (z \o y)[i] = IF i <= 4 THEN z[i] ELSE y[i - 4]
  <2>1. z \o y \in Seq(S) /\ Len(z \o y) = Len(z) + Len(y)
    BY <1>1, ConcatProperties
  <2>2. \A i \in 1..Len(z) + Len(y) : (z \o y)[i] = IF i <= Len(z) THEN z[i] ELSE y[i - Len(z)]
    BY <1>1, ConcatProperties
  <2> QED BY <1>1, <2>1, <2>2
<1> QED BY <1>1, <1>2 DEF z

\* Before the first run the file is the user's, or has dmem's block in it.
LEMMA SoulInit == ASSUME Files!Init PROVE SoulInv
<1>1. soul \in {<<>>, <<"mine">>, <<"mine">> \o Files!Persona \o <<"also mine">>}
  BY SelectionsAssumption DEF Files!Init
<1>2. Shape(<<>>, 0)
  BY DEF Shape
<1>3. Shape(<<"mine">>, 1)
  <2>1. <<"mine">> \in Seq(UserText \cup Files!ToSet(Files!Persona))
    <3> HIDE DEF UserText
    <3>1. "mine" \in UserText \cup Files!ToSet(Files!Persona)
      BY DEF UserText
    <3> QED BY <3>1
  <2> QED BY <2>1 DEF Shape, UserText
<1>4. <<"mine">> \o Files!Persona \o <<"also mine">> = Between
  <2> DEFINE W == {"mine", "BEGIN", "persona", "END", "also mine"}
             x == <<"mine">>
             y == <<"also mine">>
  <2>1. /\ x \in Seq(W) /\ Len(x) = 1 /\ x[1] = "mine" /\ y \in Seq(W) /\ Len(y) = 1
        /\ y[1] = "also mine"
    OBVIOUS
  <2>2. /\ Files!Persona \in Seq(W) /\ Len(Files!Persona) = 3 /\ Files!Persona[1] = "BEGIN"
        /\ Files!Persona[2] = "persona"
        /\ Files!Persona[3] = "END"
    BY DEF Files!Persona
  <2>3. Between \in Seq(W) /\ Len(Between) = 5 /\ Between[1] = "mine" /\ Between[2] = "BEGIN"
        /\ Between[3] = "persona" /\ Between[4] = "END" /\ Between[5] = "also mine"
    BY DEF Between
  <2> HIDE DEF W, x, y
  <2> DEFINE t == x \o Files!Persona \o y
  <2>4. /\ t \in Seq(W) /\ Len(t) = 5 /\ t[1] = x[1] /\ t[2] = Files!Persona[1]
        /\ t[3] = Files!Persona[2]
        /\ t[4] = Files!Persona[3] /\ t[5] = y[1]
    <3>1. x \in Seq(W) /\ Len(x) = 1 /\ y \in Seq(W) /\ Len(y) = 1
      BY <2>1
    <3>2. Files!Persona \in Seq(W) /\ Len(Files!Persona) = 3
      BY <2>2
    <3> QED BY <3>1, <3>2, FiveWords
  <2> HIDE DEF t
  <2>5. \A i \in 1..5 : i = 1 \/ i = 2 \/ i = 3 \/ i = 4 \/ i = 5
    OBVIOUS
  <2>6. \A i \in 1..5 : t[i] = Between[i]
    BY <2>1, <2>2, <2>3, <2>4, <2>5
  <2>7. t = Between
    BY <2>3, <2>4, <2>6, SeqEqual
  <2> QED BY <2>7 DEF x, y, t
<1>5. \A x, m : Shape(x, m) => m \in 0..Len(x)
  BY DEF Shape
<1>6. CASE soul = <<>>
  BY <1>2, <1>5, <1>6 DEF SoulInv
<1>7. CASE soul = <<"mine">>
  BY <1>3, <1>5, <1>7 DEF SoulInv
<1>8. CASE soul = <<"mine">> \o Files!Persona \o <<"also mine">>
  BY <1>4, <1>8, Zenon DEF SoulInv
<1> QED BY <1>1, <1>6, <1>7, <1>8, Zenon

\* A file of that shape settles.
LEMMA Settled == ASSUME SoulInv PROVE Files!SoulSettles
<1> DEFINE u(s, m) == SubSeq(s, 1, m)
           Again(s) == Files!Upsert(s, Files!Persona)
           settled == Again(Again(soul))
<1>1. PICK s, m : /\ Shape(s, m) /\ Again(Again(soul)) = SubSeq(s, 1, m) \o Files!Persona
                  /\ Files!Mine(soul) = SubSeq(s, 1, m)
  <2>1. CASE soul = Between
    <3>1. Again(soul) = Joined \o Files!Persona /\ Files!Mine(soul) = Joined
      BY <2>1, BetweenIs, MineBetween
    <3>2. Shape(Joined, 2) /\ SubSeq(Joined, 1, 2) = Joined
      BY BetweenIs
    <3>3. Files!Upsert(Joined \o Files!Persona, Files!Persona) = Joined \o Files!Persona
      BY <3>2, Refreshed
    <3>4. /\ Again(Again(soul)) = SubSeq(Joined, 1, 2) \o Files!Persona
          /\ Files!Mine(soul) = SubSeq(Joined, 1, 2)
      BY <3>1, <3>2, <3>3
    <3> QED BY <3>2, <3>4
  <2>2. CASE \E m \in 0..Len(soul) : Shape(soul, m)
    <3>1. PICK m \in 0..Len(soul) : Shape(soul, m)
      BY <2>2
    <3>2. Files!Mine(soul) = SubSeq(soul, 1, m)
      BY <3>1, MineIs
    <3>3. Again(Again(soul)) = SubSeq(soul, 1, m) \o Files!Persona
      BY <3>1, Refreshed
    <3> QED BY <3>1, <3>2, <3>3
  <2> QED BY <2>1, <2>2 DEF SoulInv
<1> DEFINE t == SubSeq(s, 1, m) \o Files!Persona
<1>2. Files!Upsert(t, Files!Persona) = t
  BY <1>1, Refreshed
<1>3. /\ Shape(t, m) /\ SubSeq(t, 1, m) = SubSeq(s, 1, m)
      /\ {i \in DOMAIN t : t[i] = "BEGIN"} = {m + 1}
  BY <1>1, ShapeUser
<1>4. Files!Mine(t) = Files!Mine(soul)
  BY <1>1, <1>3, MineIs
<1>5. Cardinality({i \in DOMAIN t : t[i] = "BEGIN"}) = 1
  BY <1>3, FS_Singleton
<1>6. settled = t
  BY <1>1
<1> HIDE DEF t
<1>7. Again(settled) = settled /\ Files!Mine(settled) = Files!Mine(soul)
      /\ Cardinality({i \in DOMAIN settled : settled[i] = "BEGIN"}) = 1
  BY <1>2, <1>4, <1>5, <1>6
<1> QED BY <1>7, SameSizes DEF Files!SoulSettles

-----------------------------------------------------------------------------
\* Every step keeps what is said of the files.
LEMMA FilesStep == ASSUME FilesInv, [Files!Next]_(Files!vars) PROVE FilesInv'
<1>1. RunInv /\ SoulInv
  BY DEF FilesInv, RunInv
<1>2. RunInv'
  <2>1. CASE Files!Do
    BY <1>1, <2>1, DoKeeps
  <2>2. CASE \/ \E c \in {"install", "remove"} : Files!Start(c)
             \/ Files!Turn \/ Files!Finish \/ UNCHANGED Files!vars
    BY <1>1, <2>2, TurnKeeps
  <2>3. CASE Files!DieWriting \/ Files!DieCopying \/ Files!DieInSoul \/ Files!DieBetween
    BY <1>1, <2>3, KillKeeps
  <2>4. CASE \E f \in Files!Selected : Files!Repair(f)
    BY <1>1, <2>4, RepairKeeps
  <2> QED
    BY <2>1, <2>2, <2>3, <2>4 DEF Files!Next
<1>3. SoulInv'
  BY <1>1, SoulKeeps
<1> QED
  BY <1>2, <1>3 DEF FilesInv, RunInv

-----------------------------------------------------------------------------
(* The client and its service (ServiceLink).                               *)

\* A link outlives what it was made for: dmem stays told, the token stays given, and an
\* install under way has set the unit that it will write the link to.
ServiceInv ==
  /\ Service!TypeOK
  /\ connected => cfg.link # None
  /\ given # None => cfg.link # None /\ cfg.link.token = given.token
  /\ Service!TokenKept
  /\ writing # None => unit = writing /\ (platform # "linux" => daemon = unit)

\* A config with another link is a config.
LEMMA NewLink ==
  ASSUME NEW c \in Service!Configs, NEW l \in Service!Links \cup {None}
  PROVE  /\ [c EXCEPT !.link = l] \in Service!Configs
         /\ [c EXCEPT !.link = l].link = l /\ [c EXCEPT !.link = l].st = c.st
BY DEF Service!Configs

\* What the commands make of a config is a config.
LEMMA Configured ==
  /\ Service!NoConfig \in Service!Configs
  /\ Service!NoConfig.st = "ok"
  /\ \A t \in {"default", "acme"} : [Service!NoConfig EXCEPT !.tenant = t] \in Service!Configs
  /\ \A c \in Service!Configs, s \in {"ok", "broken", "unread"} :
       [c EXCEPT !.st = s] \in Service!Configs /\ [c EXCEPT !.st = s].link = c.link
BY DEF Service!Configs, Service!NoConfig

\* What login and the installs write is a link.
LEMMA Linked ==
  ASSUME NEW u \in Addrs \cup {"far"}, NEW t \in Service!Tokens
  PROVE  [url |-> u, token |-> t, insecure |-> FALSE] \in Service!Links
BY DEF Service!Links

\* It holds before the first command.
LEMMA ServiceInit == ASSUME Service!Init PROVE ServiceInv
<1> DEFINE link == [url |-> "far", token |-> Service!FarToken, insecure |-> TRUE]
<1>1. link \in Service!Links
  BY NoneAssumption DEF Service!Links, Service!Tokens, Service!FarToken
<1> HIDE DEF link
<1>2. \A c \in [st : {"ok"}, data : {None, "custom"}, tenant : {None, "acme"}, link : {None}] :
        c \in Service!Configs
  BY DEF Service!Configs
<1>3. [Service!NoConfig EXCEPT !.link = link] \in Service!Configs
  BY <1>1, Configured, NewLink
<1>4. cfg \in Service!Configs
  BY <1>2, <1>3 DEF Service!Init, link
<1> QED
  <2>1. /\ unit = None /\ daemon = None /\ writing = None /\ minted = 0
        /\ connected = FALSE /\ given = None
    BY DEF Service!Init
  <2>2. Service!TypeOK
    <3>1. MaxToken \in Nat
      BY NoneAssumption
    <3>2. minted \in 0..MaxToken
      BY <2>1, <3>1
    <3>3. {unit, daemon, writing} \subseteq Service!Units \cup {None}
      BY <2>1
    <3>4. connected \in BOOLEAN /\ given \in Service!Units \cup {None}
      BY <2>1
    <3> QED
      BY <1>4, <3>2, <3>3, <3>4 DEF Service!TypeOK
  <2> QED
    BY <2>1, <2>2 DEF ServiceInv, Service!TokenKept

\* Every command keeps what is said of the link.
LEMMA ServiceStep == ASSUME ServiceInv, [Service!Next]_(Service!vars) PROVE ServiceInv'
<1> USE NoneAssumption DEF ServiceInv, Service!TypeOK, Service!TokenKept
<1>1. CASE Service!Setup
  <2>1. cfg' \in Service!Configs /\ (connected' => cfg'.link # None)
    <3>1. CASE \E t \in {"default", "acme"} :
                 cfg' = [Service!NoConfig EXCEPT !.tenant = t] /\ connected' = FALSE
      BY <3>1, Configured
    <3>2. CASE /\ cfg' = [Service!NoConfig EXCEPT !.link =
                           [url |-> "far", token |-> Service!FarToken, insecure |-> FALSE]]
               /\ connected' = TRUE
      <4>1. [url |-> "far", token |-> Service!FarToken, insecure |-> FALSE] \in Service!Links
        BY Linked DEF Service!FarToken, Service!Tokens
      <4> QED
        <5> DEFINE l == [url |-> "far", token |-> Service!FarToken, insecure |-> FALSE]
        <5> HIDE DEF l
        <5>0. l \in Service!Links /\ l # None
          BY <4>1, NoneAssumption DEF l
        <5>1. [Service!NoConfig EXCEPT !.link = l].link = l /\ l # None
          BY <5>0, Configured, NewLink
        <5>2. [Service!NoConfig EXCEPT !.link = l] \in Service!Configs
          BY <4>1, Configured, NewLink DEF l
        <5> QED
          BY <3>2, <5>1, <5>2 DEF l
    <3> QED
      BY <1>1, <3>1, <3>2 DEF Service!Setup
  <2> QED
    BY <1>1, <2>1 DEF Service!Setup
<1>2. CASE Service!Login
  <2>1. PICK u \in Addrs \cup {"far"}, t \in 1..minted \cup {Service!FarToken} :
          cfg' = [Service!Config EXCEPT !.link = [url |-> u, token |-> t, insecure |-> FALSE]]
    BY <1>2 DEF Service!Login
  <2>2. [url |-> u, token |-> t, insecure |-> FALSE] \in Service!Links
    BY Linked DEF Service!FarToken, Service!Tokens
  <2> DEFINE c == Service!Config
             l == [url |-> u, token |-> t, insecure |-> FALSE]
  <2>3. c \in Service!Configs /\ cfg' = [c EXCEPT !.link = l]
    BY <2>1, Configured DEF Service!Config
  <2> HIDE DEF c, l
  <2>4. cfg' \in Service!Configs /\ cfg'.link = l
    BY <2>2, <2>3, NewLink DEF l
  <2>5. cfg'.link # None
    BY <2>2, <2>4 DEF l
  <2> QED
    BY <1>2, <2>4, <2>5 DEF Service!Login
<1>3. CASE Service!Logout
  <2>1. \/ cfg' = [cfg EXCEPT !.link = None]
        \/ \E st \in {"ok", "broken", "unread"} : cfg' = [Service!NoConfig EXCEPT !.st = st]
    BY <1>3 DEF Service!Logout
  <2>2. CASE cfg' = [cfg EXCEPT !.link = None]
    BY <1>3, <2>2, NewLink DEF Service!Logout
  <2>3. CASE \E st \in {"ok", "broken", "unread"} : cfg' = [Service!NoConfig EXCEPT !.st = st]
    <3>1. PICK st \in {"ok", "broken", "unread"} : cfg' = [Service!NoConfig EXCEPT !.st = st]
      BY <2>3
    <3>2. cfg' \in Service!Configs
      BY <3>1, Configured
    <3> QED
      BY <1>3, <3>2 DEF Service!Logout
  <2> QED
    BY <2>1, <2>2, <2>3
<1>4. CASE Service!UserBreaks \/ Service!UserRepairs
  <2>1. PICK st \in {"ok", "broken", "unread"} : cfg' = [cfg EXCEPT !.st = st]
    BY <1>4 DEF Service!UserBreaks, Service!UserRepairs
  <2>2. cfg' \in Service!Configs /\ cfg'.link = cfg.link
    BY <2>1, Configured
  <2> QED
    BY <1>4, <2>2 DEF Service!UserBreaks, Service!UserRepairs
<1>5. ASSUME NEW a \in Addrs, Service!Install(a) PROVE ServiceInv'
  <2> DEFINE u == [addr |-> a, token |-> Service!Token, tenant |-> Service!Tenant,
                   data |-> Service!DataDir]
  <2>1. Service!Config \in Service!Configs
    BY Configured DEF Service!Config
  <2>2. u \in Service!Units
    BY <1>5, <2>1 DEF Service!Install, Service!Token, Service!Tenant, Service!DataDir,
       Service!ServerLink, Service!Units, Service!Configs, Service!Links, Service!Tokens
  <2>3. /\ unit' = u /\ minted' \in 0..MaxToken /\ UNCHANGED <<platform, cfg, connected>>
        /\ given' \in {None, given} /\ (given' # None => cfg.st # "unread")
        /\ \/ daemon' = Service!Started(u) /\ writing' = u
           \/ daemon' \in {None, daemon} /\ writing' = None
    BY <1>5 DEF Service!Install
  <2>4. given' # None => u.token = given'.token
    BY <1>5, <2>3 DEF Service!Install, Service!Loads, Service!Token, Service!ServerLink,
       Service!Config, Service!Configs
  <2> HIDE DEF u
  <2> QED
    BY <2>2, <2>3, <2>4 DEF Service!Started
<1>6. CASE Service!WriteServerConfig
  <2> DEFINE link == [url |-> writing.addr, token |-> writing.token, insecure |-> FALSE]
  <2>1. writing \in Service!Units /\ unit = writing
    BY <1>6 DEF Service!WriteServerConfig
  <2>2. link \in Service!Links /\ link.token = writing.token
    BY <2>1, Linked DEF Service!Units
  <2>3. cfg' \in Service!Configs /\ cfg'.link = link
    BY <1>6, <2>1, <2>2 DEF Service!WriteServerConfig, Service!Configs, Service!NoConfig,
       Service!Units
  <2> HIDE DEF link
  <2> QED
    BY <1>6, <2>1, <2>2, <2>3 DEF Service!WriteServerConfig
<1>7. CASE \/ Service!InstallKilled \/ Service!Uninstall \/ Service!ServiceStart
           \/ Service!ServiceStop \/ Service!ServiceRestart
  BY <1>7 DEF Service!InstallKilled, Service!Uninstall, Service!ServiceStart,
     Service!ServiceStop, Service!ServiceRestart
<1>8. CASE UNCHANGED Service!vars
  BY <1>8 DEF Service!vars
<1> QED
  BY <1>1, <1>2, <1>3, <1>4, <1>5, <1>6, <1>7, <1>8 DEF Service!Next

\* Then no save lands in a store of its own, but without a config to read.
LEMMA NoOwnStore == ASSUME ServiceInv PROVE Service!NeverFallsBackToOwn
BY DEF ServiceInv, Service!TypeOK, Service!Configs, Service!NeverFallsBackToOwn, Service!Target,
   Service!Loads, Service!ServerLink, Service!Config, Service!Store, Service!Nowhere, Service!Far

\* When an install ends, a client reaches the store it named.
LEMMA Connects ==
  ASSUME ServiceInv, Service!WriteServerConfig, platform = "linux" => daemon = unit,
         daemon # None
  PROVE  Service!Target' = Service!Store("daemon", writing.data, writing.tenant)
<1>1. daemon = writing /\ writing \in Service!Units /\ daemon' = daemon
  BY DEF ServiceInv, Service!TypeOK, Service!WriteServerConfig
<1>2. /\ cfg'.st = "ok" 
      /\ cfg'.link = [url |-> writing.addr, token |-> writing.token, insecure |-> FALSE]
  BY DEF Service!WriteServerConfig, Service!NoConfig
<1>3. cfg'.link \in Service!Links /\ writing.addr # "far"
  BY <1>1, <1>2, NoneAssumption DEF Service!Links, Service!Units, Service!Tokens
<1>4. Service!Loads' /\ Service!ServerLink' = cfg'.link
  BY <1>2 DEF Service!Loads, Service!ServerLink, Service!Config
<1>6. /\ Service!ServerLink' # None /\ Service!ServerLink'.insecure = FALSE
      /\ Service!ServerLink'.url = daemon'.addr /\ Service!ServerLink'.url # "far"
      /\ Service!ServerLink'.token = daemon'.token
  <2> DEFINE l == [url |-> writing.addr, token |-> writing.token, insecure |-> FALSE]
  <2>1. Service!ServerLink' = l /\ l # None
    BY <1>2, <1>3, <1>4, NoneAssumption
  <2>2. l.insecure = FALSE /\ l.url = writing.addr /\ l.token = writing.token
    OBVIOUS
  <2> HIDE DEF l
  <2> QED
    BY <1>1, <1>3, <2>1, <2>2
<1>5. Service!Target' = Service!Store("daemon", daemon'.data, daemon'.tenant)
  BY <1>1, <1>4, <1>6 DEF Service!Target
<1> QED
  BY <1>1, <1>5

-----------------------------------------------------------------------------
(* Imports.                                                                *)

\* An import, as a record.
Running == [at : {"idle", "next", "put"}, memo : [File -> Texts \cup {None}],
            to : Places \cup {None}, todo : SUBSET File, file : File \cup {None},
            saw : [File -> Texts \cup {Blank, None}], skipped : BOOLEAN, force : BOOLEAN]
\* What the store that config and options name has of a file.
Stored(f) == store[<<place, f>>]
\* A manifest is right about the store, or an import that was killed stored the file since.
Remembers(m) == \A f \in File : m[f] \in {None, Stored(f)} \/ f \in unsaved
\* An import under way: its manifest is right too, and so is what it stored.
Follows ==
  /\ run.to = place /\ Remembers(run.memo)
  /\ \A f \in File : run.memo[f] \in {manifest[f], Stored(f)}
  /\ \A f \in unsaved \ run.todo : run.saw[f] = disk[f]
  /\ ~run.skipped =>
       \A f \in File \ run.todo : (run.at = "put" => f # run.file) => Stored(f) = run.saw[f]
\* Types of the files and of the import.
ImportType ==
  /\ Import!TypeOK
  /\ place \in Places /\ unsaved \subseteq File /\ run \in Running
  /\ run.at # "idle" => run.to \in Places
  /\ run.at = "put" => run.file \in File \ run.todo /\ run.saw[run.file] \in Texts
\* While nothing happened that the manifest cannot know of.
Tracks ==
  calm => /\ \A f \in unsaved : Stored(f) = disk[f]
          /\ IF run.at = "idle" THEN Remembers(manifest) ELSE Follows
ImportInv == ImportType /\ Tracks

\* It holds before the first import.
LEMMA ImportInit == ASSUME Import!Init PROVE ImportInv
BY DEF Import!Init, Import!NotRunning, Import!NoFile, ImportInv, ImportType, Tracks, Import!TypeOK,
   Running, Remembers

\* Types are kept.
LEMMA ImportTypes == ASSUME ImportType, [Import!Next]_(Import!vars) PROVE ImportType'
<1> USE DEF ImportType, Import!TypeOK
<1>0. Import!NotRunning \in Running /\ Import!NotRunning.at = "idle"
  BY DEF Import!NotRunning, Import!NoFile, Running
<1>1. ASSUME NEW f \in File, Import!Edit(f) PROVE ImportType'
  BY <1>1 DEF Import!Edit
<1>2. ASSUME NEW f \in File, Import!Read(f) PROVE ImportType'
  <2> DEFINE r == [run EXCEPT !.todo = @ \ {f}, !.saw[f] = disk[f]]
  <2>1. /\ r \in Running /\ r.at = "next" /\ r.to \in Places /\ r.memo = run.memo
        /\ r.todo = run.todo \ {f} /\ r.saw[f] = disk[f]
    BY <1>2 DEF Import!Read, Running
  <2> HIDE DEF r
  <2>2. run' = r \/ run' = [r EXCEPT !.skipped = TRUE]
        \/ (disk[f] # Blank /\ run' = [r EXCEPT !.at = "put", !.file = f])
    BY <1>2 DEF Import!Read, r
  <2>3. /\ run' \in Running /\ run'.to \in Places /\ run'.memo = run.memo
        /\ run'.at = "put" => run'.file \in File \ run'.todo /\ run'.saw[run'.file] \in Texts
    BY <2>1, <2>2 DEF Running
  <2> QED
    BY <1>2, <2>3 DEF Import!Read
<1>3. ASSUME NEW f \in File, NEW t \in Texts, Import!MigrateLine(f, t) PROVE ImportType'
  BY <1>3 DEF Import!MigrateLine
<1>4. ASSUME NEW k \in Places \X File, Import!OtherWrites(k) PROVE ImportType'
  BY <1>4 DEF Import!OtherWrites
<1>5. CASE Import!Retarget
  BY <1>5 DEF Import!Retarget
<1>6. CASE Import!Start
  <2>1. PICK force \in BOOLEAN :
          run' = [Import!NotRunning EXCEPT !.at = "next", !.memo = manifest, !.to = place,
                    !.todo = File, !.force = force]
    BY <1>6 DEF Import!Start
  <2>2. run' \in Running /\ run'.at = "next" /\ run'.to \in Places /\ run'.memo = manifest
    BY <1>0, <2>1 DEF Running
  <2> QED
    BY <1>6, <2>2 DEF Import!Start
<1>7. CASE Import!Put
  <2>1. Import!Recorded \in [File -> Texts \cup {None}]
    BY <1>7 DEF Import!Put, Import!Recorded
  <2>2. /\ run' \in Running /\ run'.at = "next" /\ run'.to = run.to
        /\ run'.memo = Import!Recorded
    BY <1>7, <2>1 DEF Import!Put, Running
  <2>3. store' \in [Places \X File -> Texts \cup {None}]
    BY <1>7 DEF Import!Put
  <2> QED
    BY <1>7, <2>1, <2>2, <2>3 DEF Import!Put
<1>8. CASE Import!PutFails
  <2>1. run' \in Running /\ run'.at = "next" /\ run'.to = run.to /\ run'.memo = run.memo
    BY <1>8 DEF Import!PutFails, Running
  <2> QED
    BY <1>8, <2>1 DEF Import!PutFails
<1>9. CASE Import!End
  BY <1>0, <1>9 DEF Import!End, Import!NotRunning, Import!NoFile
<1>10. CASE Import!Kill
  <2>1. /\ unsaved' \subseteq File /\ manifest' \in [File -> Texts \cup {None}]
        /\ run' = Import!NotRunning /\ UNCHANGED <<disk, store, place>>
    BY <1>10 DEF Import!Kill, Import!NoFile
  <2> QED
    BY <1>0, <2>1 DEF Import!NotRunning, Import!NoFile
<1>11. CASE UNCHANGED Import!vars
  BY <1>11 DEF Import!vars
<1> QED
  BY <1>1, <1>2, <1>3, <1>4, <1>5, <1>6, <1>7, <1>8, <1>9, <1>10, <1>11 DEF Import!Next

\* Every step keeps what the manifest is right about.
LEMMA ImportStep == ASSUME ImportInv, [Import!Next]_(Import!vars) PROVE ImportInv'
<1>t. ImportType /\ ImportType'
  BY ImportTypes DEF ImportInv
<1> SUFFICES ASSUME calm' PROVE Tracks'
  BY <1>t DEF ImportInv, Tracks
<1> USE DEF ImportType, Import!TypeOK
<1>0. Import!NotRunning.at = "idle" /\ Import!NotRunning \in Running
  BY DEF Import!NotRunning, Import!NoFile, Running
<1>tr. calm => /\ \A f \in unsaved : Stored(f) = disk[f]
               /\ IF run.at = "idle" THEN Remembers(manifest) ELSE Follows
  BY DEF ImportInv, Tracks
<1>1. ASSUME NEW f \in File, Import!Edit(f) PROVE Tracks'
  BY <1>t, <1>tr, <1>1 DEF Import!Edit, Tracks, Follows, Remembers, Stored
<1>2. ASSUME NEW f \in File, Import!Read(f) PROVE Tracks'
  <2> DEFINE r == [run EXCEPT !.todo = @ \ {f}, !.saw[f] = disk[f]]
  <2>1. /\ r \in Running /\ r.at = "next" /\ r.to = run.to /\ r.memo = run.memo
        /\ r.todo = run.todo \ {f} /\ r.saw = [run.saw EXCEPT ![f] = disk[f]]
        /\ r.skipped = run.skipped
    BY <1>t, <1>2 DEF Import!Read, Running
  <2>2. run.at = "next" /\ UNCHANGED <<disk, manifest, store, place, unsaved, calm>>
    BY <1>2 DEF Import!Read
  <2>3. Follows
    BY <1>tr, <2>2
  <2> HIDE DEF r
  <2>4. run' \in {r, [r EXCEPT !.skipped = TRUE], [r EXCEPT !.at = "put", !.file = f]}
    BY <1>2 DEF Import!Read, r
  <2>5. /\ run'.to = run.to /\ run'.memo = run.memo /\ run'.todo = run.todo \ {f}
        /\ run'.saw = [run.saw EXCEPT ![f] = disk[f]] /\ run'.at # "idle"
        /\ run'.at = "put" => run'.file = f
        /\ ~run'.skipped => ~run.skipped
    BY <2>1, <2>4 DEF Running
  <2>6. ~run'.skipped /\ run'.at # "put" => Import!Unchanged(f)
    BY <1>2, <2>1 DEF Import!Read, r, Running
  <2>7. Import!Unchanged(f) => Stored(f) = disk[f]
    BY <1>t, <1>tr, <2>2, <2>3, NoneAssumption DEF Import!Unchanged, Follows, Remembers
  <2>8. Follows'
    <3>1. run'.to = place' /\ Remembers(run.memo)' 
      BY <2>2, <2>3, <2>5 DEF Follows, Remembers, Stored
    <3>2. \A g \in File : run'.memo[g] \in {manifest'[g], Stored(g)'}
      BY <2>2, <2>3, <2>5 DEF Follows, Stored
    <3>3. \A g \in unsaved' \ run'.todo : run'.saw[g] = disk'[g]
      BY <1>t, <2>2, <2>3, <2>5 DEF Follows, Running
    <3>4. ASSUME ~run'.skipped, NEW g \in File \ run'.todo, run'.at = "put" => g # run'.file
          PROVE  Stored(g)' = run'.saw[g]
      BY <1>t, <2>2, <2>3, <2>5, <2>6, <2>7, <3>4 DEF Follows, Stored, Running
    <3> QED
      BY <2>5, <3>1, <3>2, <3>3, <3>4 DEF Follows, Remembers
  <2> QED
    BY <1>tr, <2>2, <2>5, <2>8 DEF Tracks, Stored
<1>3. CASE \/ \E f \in File, t \in Texts : Import!MigrateLine(f, t)
           \/ \E k \in Places \X File : Import!OtherWrites(k)
           \/ Import!Retarget
  BY <1>3 DEF Import!MigrateLine, Import!OtherWrites, Import!Retarget
<1>6. CASE Import!Start
  <2>1. PICK force \in BOOLEAN :
          run' = [Import!NotRunning EXCEPT !.at = "next", !.memo = manifest, !.to = place,
                    !.todo = File, !.force = force]
    BY <1>6 DEF Import!Start
  <2>2. run'.at = "next" /\ run'.to = place /\ run'.memo = manifest /\ run'.todo = File
    BY <1>0, <2>1 DEF Running
  <2> QED
    BY <1>t, <1>tr, <1>6, <2>2 DEF Import!Start, Tracks, Follows, Remembers, Stored
<1>7. CASE Import!Put
  <2> PICK f \in File : f = run.file
    BY <1>t, <1>7 DEF Import!Put
  <2>1. /\ f \in File \ run.todo /\ run.saw[f] \in Texts /\ run.at = "put" /\ run.to \in Places
        /\ UNCHANGED <<disk, manifest, place, unsaved, calm>>
        /\ run.memo \in [File -> Texts \cup {None}]
    BY <1>t, <1>7 DEF Import!Put
  <2>2. Follows
    BY <1>tr, <2>1
  <2>3. /\ run'.at = "next" /\ run'.to = run.to /\ run'.todo = run.todo /\ run'.saw = run.saw
        /\ run'.skipped = run.skipped /\ run'.memo = [run.memo EXCEPT ![f] = run.saw[f]]
    BY <1>t, <1>7 DEF Import!Put, Import!Recorded, Running
  <2>4. store' = [store EXCEPT ![<<place, f>>] = run.saw[f]]
    BY <1>7, <2>2 DEF Import!Put, Follows
  <2>5. Stored(f)' = run.saw[f] /\ \A g \in File \ {f} : Stored(g)' = Stored(g)
    BY <1>t, <2>1, <2>4 DEF Stored
  <2>6. run'.memo[f] = run.saw[f] /\ \A g \in File \ {f} : run'.memo[g] = run.memo[g]
    BY <2>1, <2>3
  <2>7. \A g \in unsaved' : Stored(g)' = disk'[g]
    BY <1>t, <1>tr, <2>1, <2>2, <2>5 DEF Follows
  <2>8. Remembers(run.memo)'
    BY <1>t, <2>1, <2>2, <2>5, <2>6 DEF Follows, Remembers
  <2>9. \A g \in File : run'.memo[g] \in {manifest'[g], Stored(g)'}
    BY <2>1, <2>2, <2>5, <2>6 DEF Follows
  <2>10. ASSUME ~run'.skipped, NEW g \in File \ run'.todo PROVE Stored(g)' = run'.saw[g]
    BY <2>1, <2>2, <2>3, <2>5, <2>10 DEF Follows
  <2>11. Follows'
    BY <2>1, <2>2, <2>3, <2>8, <2>9, <2>10 DEF Follows
  <2> QED
    BY <2>3, <2>7, <2>11 DEF Tracks
<1>8. CASE Import!PutFails
  <2>1. /\ run'.at = "next" /\ run'.to = run.to /\ run'.memo = run.memo /\ run'.skipped
        /\ run'.todo = run.todo /\ run'.saw = run.saw
    BY <1>t, <1>8 DEF Import!PutFails, Running
  <2> QED
    BY <1>tr, <1>8, <2>1 DEF Import!PutFails, Tracks, Follows, Remembers, Stored
<1>9. CASE Import!End
  <2>1. /\ run.at = "next" /\ run.todo = {} /\ manifest' = run.memo /\ run' = Import!NotRunning
        /\ unsaved' = {f \in unsaved : run.saw[f] # run.memo[f]}
        /\ UNCHANGED <<disk, store, place, calm>>
    BY <1>9 DEF Import!End, Import!Ending
  <2>2. Follows
    BY <1>tr, <2>1
  <2>3. Remembers(manifest)'
    BY <1>t, <1>tr, <2>1, <2>2 DEF Follows, Remembers, Stored
  <2> QED
    BY <1>0, <1>t, <1>tr, <2>1, <2>3 DEF Tracks, Stored
<1>10. CASE Import!Kill
  <2>1. run.at # "idle" /\ run' = Import!NotRunning /\ UNCHANGED <<disk, store, place>> /\ calm
    BY <1>10 DEF Import!Kill
  <2>2. Follows
    BY <1>tr, <2>1
  <2> DEFINE stored == {f \in File : run.memo[f] # manifest[f]}
  <2>3. CASE /\ unsaved' = unsaved \cup stored /\ UNCHANGED manifest
             /\ \A f \in stored : disk[f] = run.memo[f]
    <3>1. Remembers(manifest)'
      BY <1>t, <2>1, <2>2, <2>3 DEF Follows, Remembers, Stored
    <3>2. \A f \in unsaved' : Stored(f)' = disk'[f]
      BY <1>t, <1>tr, <2>1, <2>2, <2>3 DEF Follows, Stored
    <3> QED
      BY <1>0, <2>1, <3>1, <3>2 DEF Tracks
  <2>4. CASE manifest' = Import!NoFile /\ unsaved' = {}
    BY <1>0, <2>1, <2>4 DEF Tracks, Remembers, Import!NoFile
  <2> QED
    BY <1>10, <2>3, <2>4 DEF Import!Kill
<1>11. CASE UNCHANGED Import!vars
  BY <1>tr, <1>11 DEF Import!vars, Tracks, Follows, Remembers, Stored
<1> QED
  BY <1>1, <1>2, <1>3, <1>6, <1>7, <1>8, <1>9, <1>10, <1>11 DEF Import!Next

\* When an import ends that passed nothing over, the store has what it read.
LEMMA EndHolds == ASSUME ImportInv, Import!End, calm, ~run.skipped PROVE Import!Holds
BY DEF ImportInv, ImportType, Tracks, Follows, Import!End, Import!Ending, Import!Holds, Stored

-----------------------------------------------------------------------------
(* Skills.                                                                 *)

\* What a sync has written so far: a title that it came to has the file of one of its records.
Shows(n) == \E b \in listed[n] : loaded[n] = <<b>>
Shown == \A n \in Skilled!Safe : (\A b \in listed[n] : <<n, b>> \in left) \/ Shows(n)
\* A sync under way writes the records as it read them.
SkillsInv ==
  /\ Skilled!LoadedIsWhole
  /\ folder \in [Skill -> Bodies \cup {None}] /\ others \in [Skilled!Safe -> SUBSET Bodies]
  /\ job = "sync" =>
       /\ listed \in [Skilled!Safe -> SUBSET Bodies]
       /\ \A k \in left : \E n \in Skilled!Safe : \E b \in listed[n] : k = <<n, b>>
       /\ Shown

\* It holds before the first sync.
LEMMA SkillsInit == ASSUME Skilled!Init PROVE SkillsInv
BY DEF Skilled!Init, Skilled!Nothing, Skilled!NoneListed, Skilled!Safe, SkillsInv,
   Skilled!LoadedIsWhole

\* Every step keeps what is shown.
LEMMA SkillsStep == ASSUME SkillsInv, [Skilled!Next]_(Skilled!vars) PROVE SkillsInv'
<1> USE DEF SkillsInv, Skilled!LoadedIsWhole
<1>1. CASE Skilled!Changes
  BY <1>1 DEF Skilled!Changes, Shown, Shows, Skilled!Safe
<1>2. CASE Skilled!StartImport \/ Skilled!Ends \/ Skilled!Stops
  BY <1>2 DEF Skilled!StartImport, Skilled!Ends, Skilled!Stops
<1>3. CASE Skilled!StartSync
  <2>1. \A n \in Skilled!Safe : Skilled!Titled(n) \subseteq Bodies
    BY DEF Skilled!Titled, Skilled!Safe
  <2>2. /\ listed' = [n \in Skilled!Safe |-> Skilled!Titled(n)] /\ UNCHANGED loaded
        /\ left' = UNION {{n} \X Skilled!Titled(n) : n \in Skilled!Safe}
    BY <1>3 DEF Skilled!StartSync, Skilled!ToWrite
  <2>3. \A k \in left' : \E n \in Skilled!Safe : \E b \in Skilled!Titled(n) : k = <<n, b>>
    BY <2>2
  <2>4. \A n \in Skilled!Safe : \A b \in Skilled!Titled(n) : <<n, b>> \in left'
    BY <2>2
  <2> HIDE DEF Skilled!Titled
  <2>5. left' \subseteq Skilled!Safe \X Bodies
    BY <2>1, <2>3
  <2> QED
    BY <1>3, <2>1, <2>2, <2>3, <2>4, <2>5 DEF Skilled!StartSync, Shown
<1>4. ASSUME NEW n \in Skill, Skilled!ImportSkill(n) PROVE SkillsInv'
  BY <1>4 DEF Skilled!ImportSkill, Shown, Shows, Skilled!Safe
<1>5. ASSUME NEW n \in Skill, NEW b \in Bodies, Skilled!SyncWrite(n, b) PROVE SkillsInv'
  BY <1>5 DEF Skilled!SyncWrite, Skilled!WriteTemp, Shown, Shows, Skilled!Safe
<1>6. ASSUME NEW n \in Skill, NEW b \in Bodies, Skilled!SyncRename(n, b) PROVE SkillsInv'
  <2>1. /\ job = "sync" /\ <<n, b>> \in left /\ loaded' = [loaded EXCEPT ![n] = <<b>>]
        /\ left' = left \ {<<n, b>>} /\ UNCHANGED <<folder, records, others, job, listed>>
    BY <1>6 DEF Skilled!SyncRename
  <2>2. n \in Skilled!Safe /\ b \in listed[n]
    BY <2>1
  <2>3. ASSUME NEW m \in Skilled!Safe, m # n
        PROVE  (\A c \in listed[m] : <<m, c>> \in left') \/ Shows(m)'
    BY <2>1, <2>3 DEF Shown, Shows, Skilled!Safe
  <2>4. Shows(n)'
    BY <2>1, <2>2 DEF Shows, Skilled!Safe
  <2>5. Shown'
    BY <2>1, <2>3, <2>4 DEF Shown
  <2>6. loaded' \in [Skill -> {None} \cup {<<c>> : c \in Bodies}]
    BY <2>1
  <2> QED
    BY <2>1, <2>5, <2>6
<1>7. CASE UNCHANGED Skilled!vars
  BY <1>7 DEF Skilled!vars, Shown, Shows, Skilled!Safe
<1> QED
  BY <1>1, <1>2, <1>3, <1>4, <1>5, <1>6, <1>7 DEF Skilled!Next

\* When a sync ends, every title is shown as a record of it was read.
LEMMA SyncShows ==
  ASSUME SkillsInv, job = "sync", Skilled!Ends
  PROVE  \A n \in Skilled!Safe : listed[n] # {} => \E b \in listed[n] : loaded[n] = <<b>>
BY DEF SkillsInv, Shown, Shows, Skilled!Ends

-----------------------------------------------------------------------------
(* Readiness.                                                              *)

\* The two disk checks, what a probe can be at, and what it has read.
Parted == {"iam", "data_dir"}
Asked == {"vectors", "startup", "shutdown", "answer"}
Probes == [pc : {"idle", "io", "probing"} \cup Asked, bad : SUBSET Parted,
           slow : 0..MaxSlow, passes : BOOLEAN, late : BOOLEAN]
\* A result is right about a fault.
Tells(bad, f) ==
  /\ "iam" \in bad <=> (envonly \/ f = "iam")
  /\ "data_dir" \in bad <=> f = "data_dir"

\* Types of the server and of the probes.
ReadyType ==
  /\ fault \in Ready!Faults /\ since \in 0..(Ttl + MaxSlow) /\ rest \in 0..Ttl
  /\ vectors \in [Tenants -> {"unjudged", "with", "without"}]
  /\ waiting \in (SUBSET Tenants) \cup {{None}}
  /\ envonly \in BOOLEAN /\ started \in BOOLEAN /\ draining \in BOOLEAN
  /\ lock \in Prober \cup {None} /\ probe \in [Prober -> Probes]
  /\ cache \in {None} \cup [bad : SUBSET Parted, age : 0..Ttl]
\* One probe refreshes, and the ghost clock goes with the age of what is cached.
OneProbes ==
  /\ \A p \in Prober : probe[p].pc = "probing" => lock = p
  /\ \A p \in Prober : probe[p].pc # "probing" => probe[p].slow = 0
  /\ rest = IF cache = None THEN Ttl ELSE cache.age
\* Whatever has been true for longer than a refresh took is what the refresh saw.
ReadsRight ==
  /\ \A p \in Prober : probe[p].pc = "probing" =>
       /\ probe[p].bad \subseteq {"iam"}
       /\ since > probe[p].slow => ("iam" \in probe[p].bad <=> (envonly \/ fault = "iam"))
  /\ cache # None /\ cache.age < Ttl /\ since > cache.age + MaxSlow => Tells(cache.bad, fault)
  /\ \A p \in Prober : same[p] # None => same[p] = fault /\ since = Ttl + MaxSlow
  /\ \A p \in Prober : probe[p].pc \in Asked /\ same[p] # None => Tells(probe[p].bad, same[p])
\* What a probe that passed so far has been told of the pass, of the indexes and of a stop.
Passed ==
  /\ started => waiting = {} \/ panicked
  /\ \A p \in Prober :
       probe[p].late \/ (probe[p].pc \in {"shutdown", "answer"} /\ probe[p].passes) => started
  /\ \A p \in Followed : probe[p].late /\ probe[p].passes =>
       /\ probe[p].pc \in {"startup", "shutdown"} => moment[p] \/ draining
       /\ probe[p].pc = "answer" => moment[p]
ReadyInv == ReadyType /\ OneProbes /\ ReadsRight /\ Passed

\* It holds before the first probe.
LEMMA ReadyInit == ASSUME Ready!Init PROVE ReadyInv
<1>1. Ready!Idle \in Probes /\ Ready!Idle.pc = "idle" /\ Ready!Idle.slow = 0 /\ ~Ready!Idle.late
  BY ReadinessAssumption DEF Ready!Idle, Probes
<1>2. ReadyType
  <2>1. Ttl \in 0..Ttl /\ 0 \in 0..(Ttl + MaxSlow)
    BY ReadinessAssumption
  <2>2. probe \in [Prober -> Probes] /\ vectors \in [Tenants -> {"unjudged", "with", "without"}]
    BY <1>1 DEF Ready!Init
  <2>3. /\ fault = "none" /\ since = 0 /\ rest = Ttl /\ waiting = {None} /\ lock = None
        /\ cache = None /\ envonly \in BOOLEAN /\ started = FALSE /\ draining = FALSE
    BY DEF Ready!Init
  <2> QED
    BY <2>1, <2>2, <2>3 DEF ReadyType, Ready!Faults
<1>3. \A p \in Prober : probe[p] = Ready!Idle /\ same[p] = None
  BY DEF Ready!Init
<1> QED
  BY <1>1, <1>2, <1>3, ReadinessAssumption DEF Ready!Init, ReadyInv, OneProbes, ReadsRight, Passed,
     Asked

Server == <<vectors, waiting, started, draining, panicked>>
Disk == <<envonly, fault, since>>
Io == <<cache, lock, rest>>

\* What a tick does to the ages and to a refresh under way.
LEMMA TickIs ==
  ASSUME ReadyType, Ready!Tick
  PROVE  /\ UNCHANGED <<envonly, fault, Server, lock>>
         /\ since' \in 0..(Ttl + MaxSlow) /\ since' <= since + 1
         /\ since = Ttl + MaxSlow => since' = since
         /\ rest' = Ready!Least(rest + 1, Ttl)
         /\ cache' = IF cache = None THEN None
                     ELSE [cache EXCEPT !.age = Ready!Least(@ + 1, Ttl)]
         /\ probe' \in [Prober -> Probes]
         /\ \A p \in Prober : 
              /\ probe'[p].pc = probe[p].pc /\ probe'[p].bad = probe[p].bad
              /\ probe'[p].passes = probe[p].passes /\ probe'[p].late = probe[p].late
              /\ probe[p].pc # "probing" => probe'[p] = probe[p]
              /\ probe[p].pc = "probing" => probe'[p].slow = probe[p].slow + 1
<1>1. Ttl \in Nat /\ MaxSlow \in Nat /\ Ttl > 0
  BY ReadinessAssumption
<1>2. since' = Ready!Least(since + 1, Ttl + MaxSlow)
  BY DEF Ready!Tick
<1>3. ASSUME NEW p \in Prober
      PROVE  /\ probe'[p] \in Probes
             /\ probe'[p].pc = probe[p].pc /\ probe'[p].bad = probe[p].bad
             /\ probe'[p].passes = probe[p].passes /\ probe'[p].late = probe[p].late
             /\ probe[p].pc # "probing" => probe'[p] = probe[p]
             /\ probe[p].pc = "probing" => probe'[p].slow = probe[p].slow + 1
  <2>1. probe[p] \in Probes
    BY DEF ReadyType
  <2>2. probe'[p] = IF probe[p].pc = "probing"
                    THEN [probe[p] EXCEPT !.slow = @ + 1] ELSE probe[p]
    BY DEF Ready!Tick
  <2>3. probe[p].pc = "probing" => probe[p].slow < MaxSlow
    BY DEF Ready!Tick
  <2> QED
    BY <1>1, <2>1, <2>2, <2>3 DEF Probes
<1>4. probe' \in [Prober -> Probes]
  BY <1>3 DEF Ready!Tick
<1>5. /\ since' \in 0..(Ttl + MaxSlow) /\ since' <= since + 1
      /\ since = Ttl + MaxSlow => since' = since
  BY <1>1, <1>2 DEF Ready!Least, ReadyType
<1> QED
  BY <1>3, <1>4, <1>5 DEF Ready!Tick, Ready!Server, Server

\* A probe that is not under way.
LEMMA Idles ==
  /\ Ready!Idle \in Probes
  /\ Ready!Idle.pc = "idle" /\ Ready!Idle.slow = 0 /\ Ready!Idle.late = FALSE
  /\ Ready!Idle.passes = TRUE
BY ReadinessAssumption DEF Ready!Idle, Probes

\* A probe comes, and the others are as they were.
LEMMA ArriveIs ==
  ASSUME ReadyType, NEW p \in Prober, Ready!Arrive(p)
  PROVE  /\ probe[p].pc = "idle" /\ UNCHANGED <<Disk, Server, Io>> /\ Ready!Watch
         /\ probe' \in [Prober -> Probes] /\ \A q \in Prober \ {p} : probe'[q] = probe[q]
         /\ probe'[p].pc = "io" /\ probe'[p].slow = 0 /\ (probe'[p].late => started)
<1>1. probe' = [probe EXCEPT ![p] = [Ready!Idle EXCEPT !.pc = "io",
                                                      !.late = (p \in Followed /\ started)]]
  BY DEF Ready!Arrive
<1>2. [Ready!Idle EXCEPT !.pc = "io", !.late = (p \in Followed /\ started)] \in Probes
  BY Idles DEF Probes, ReadyType
<1> QED
  BY <1>1, <1>2, Idles DEF Ready!Arrive, Ready!At, ReadyType, Ready!Disk, Ready!Server, Ready!Io,
     Disk, Server, Io, Probes

\* A probe that has a result goes on with it, or is followed no further.
LEMMA LearnsIs ==
  ASSUME ReadyType, NEW p \in Prober, NEW bad \in SUBSET Parted, Ready!Learns(p, bad)
  PROVE  /\ probe' \in [Prober -> Probes] /\ \A q \in Prober \ {p} : probe'[q] = probe[q]
         /\ probe'[p].slow = 0
         /\ \/ p \notin Followed /\ probe'[p].pc = "idle" /\ ~probe'[p].late
            \/ /\ p \in Followed /\ probe'[p].pc = "vectors" /\ probe'[p].bad = bad
               /\ probe'[p].late = probe[p].late /\ probe'[p].passes = probe[p].passes
<1>1. probe[p] \in Probes /\ 0 \in 0..MaxSlow
  BY ReadinessAssumption DEF ReadyType
<1>2. CASE p \in Followed
  <2>1. probe' = [probe EXCEPT ![p] = [probe[p] EXCEPT !.pc = "vectors", !.bad = bad, !.slow = 0]]
    BY <1>2 DEF Ready!Learns
  <2>2. [probe[p] EXCEPT !.pc = "vectors", !.bad = bad, !.slow = 0] \in Probes
    BY <1>1 DEF Probes, Asked
  <2> QED
    BY <1>1, <1>2, <2>1, <2>2 DEF ReadyType, Probes
<1>3. CASE p \notin Followed
  <2>1. probe' = [probe EXCEPT ![p] = Ready!Idle]
    BY <1>3 DEF Ready!Learns
  <2> QED
    BY <1>3, <2>1, Idles DEF ReadyType
<1> QED
  BY <1>2, <1>3

\* A probe begins a refresh, under the lock.
LEMMA RefreshIs ==
  ASSUME ReadyType, NEW p \in Prober, Ready!Refresh(p)
  PROVE  /\ probe[p].pc = "io" /\ lock = None /\ lock' = p /\ ~Ready!Fresh(cache)
         /\ UNCHANGED <<Disk, Server, cache, rest>> /\ Ready!Watch
         /\ probe' \in [Prober -> Probes] /\ \A q \in Prober \ {p} : probe'[q] = probe[q]
         /\ probe'[p].pc = "probing" /\ probe'[p].slow = probe[p].slow
         /\ probe'[p].bad \subseteq {"iam"}
         /\ "iam" \in probe'[p].bad <=> (envonly \/ fault = "iam")
         /\ probe'[p].late = probe[p].late /\ probe'[p].passes = probe[p].passes
<1> DEFINE bad == IF envonly \/ fault = "iam" THEN {"iam"} ELSE {}
           r == [probe[p] EXCEPT !.pc = "probing", !.bad = bad]
<1>1. probe[p] \in Probes
  BY DEF ReadyType
<1>2. probe' = [probe EXCEPT ![p] = r]
  BY <1>1 DEF Ready!Refresh, ReadyType, Probes
<1>3. r \in Probes
  BY <1>1 DEF Probes, Parted
<1>4. /\ r.pc = "probing" /\ r.slow = probe[p].slow /\ r.bad = bad
      /\ r.late = probe[p].late /\ r.passes = probe[p].passes
  BY <1>1 DEF Probes
<1>5. probe'[p] = r
  BY <1>2 DEF ReadyType
<1>6. bad \subseteq {"iam"} /\ ("iam" \in bad <=> (envonly \/ fault = "iam"))
  OBVIOUS
<1>7. probe' \in [Prober -> Probes] /\ \A q \in Prober \ {p} : probe'[q] = probe[q]
  BY <1>2, <1>3 DEF ReadyType
<1> HIDE DEF r, bad
<1> QED
  BY <1>4, <1>5, <1>6, <1>7 DEF Ready!Refresh, Ready!At, Ready!LockFree, Ready!Disk,
     Ready!Server, Disk, Server

\* A probe reads another check.
LEMMA ReadsIs ==
  ASSUME ReadyType, NEW p \in Prober, NEW here \in Asked, NEW next \in Asked, NEW pass \in BOOLEAN,
         Ready!Reads(p, here, next, pass)
  PROVE  /\ probe[p].pc = here /\ UNCHANGED <<Disk, Server, Io>> /\ Ready!Watch
         /\ probe' \in [Prober -> Probes] /\ \A q \in Prober \ {p} : probe'[q] = probe[q]
         /\ probe'[p].pc = next /\ probe'[p].slow = probe[p].slow /\ probe'[p].bad = probe[p].bad
         /\ probe'[p].late = probe[p].late /\ probe'[p].passes = (probe[p].passes /\ pass)
<1>1. probe[p] \in Probes
  BY DEF ReadyType
<1> DEFINE both == probe[p].passes /\ pass
           r == [probe[p] EXCEPT !.pc = next, !.passes = both]
<1>2. probe' = [probe EXCEPT ![p] = r]
  BY <1>1 DEF Ready!Reads, ReadyType, Probes
<1>3. both \in BOOLEAN
  BY <1>1 DEF Probes
<1>4. r \in Probes /\ r.pc = next /\ r.slow = probe[p].slow /\ r.bad = probe[p].bad
      /\ r.late = probe[p].late /\ r.passes = both
  BY <1>1, <1>3 DEF Probes
<1>5. probe' \in [Prober -> Probes] /\ \A q \in Prober \ {p} : probe'[q] = probe[q]
  BY <1>2, <1>4 DEF ReadyType
<1>6. probe'[p] = r
  BY <1>2 DEF ReadyType
<1> HIDE DEF r
<1> QED
  BY <1>4, <1>5, <1>6 DEF Ready!Reads, Ready!At, Ready!Disk, Ready!Server, Ready!Io, Disk,
     Server, Io

\* What the fault was that was watched.
LEMMA SameIs ==
  ASSUME ReadyType, ReadsRight, Ready!Watch,
         fault' = fault /\ since = Ttl + MaxSlow => since' = since,
         \A p \in Prober :
           probe[p].pc = "idle" /\ probe'[p].pc # "idle" => fault' = fault
  PROVE  \A p \in Prober : same'[p] # None =>
           /\ same'[p] = fault' /\ fault' = fault /\ since' = Ttl + MaxSlow /\ since = Ttl + MaxSlow
           /\ probe'[p].pc # "idle"
           /\ probe[p].pc # "idle" => same'[p] = same[p]
<1> SUFFICES ASSUME NEW p \in Prober, same'[p] # None
             PROVE  /\ same'[p] = fault' /\ fault' = fault /\ since' = Ttl + MaxSlow
                    /\ since = Ttl + MaxSlow
                    /\ probe'[p].pc # "idle"
                    /\ probe[p].pc # "idle" => same'[p] = same[p]
  OBVIOUS
<1>1. same'[p] = IF p \notin Followed \/ probe'[p].pc = "idle" THEN None
                 ELSE IF probe[p].pc = "idle"
                 THEN IF since = Ttl + MaxSlow THEN fault ELSE None
                 ELSE IF fault' = same[p] THEN same[p] ELSE None
  BY DEF Ready!Watch
<1> QED
  BY <1>1 DEF ReadsRight

\* A step of the start-up pass, of a request, of the retry or of a stop.
ServerStep ==
  \/ Ready!ListKnown \/ Ready!OpenKnown \/ Ready!Started \/ Ready!Drain
  \/ \E t \in Tenants : Ready!Request(t) \/ Ready!Heal(t)
\* A read of one of the last three checks.
ProbeStep(p) ==
  \/ Ready!ReadVectors(p) \/ Ready!ReadStarted(p) \/ Ready!ReadDraining(p)

\* What such a step leaves as it was, and that nothing of it is taken back.
LEMMA ServerIs ==
  ASSUME ReadyType, ServerStep
  PROVE  /\ UNCHANGED <<Disk, Io, probe>> /\ Ready!Watch
         /\ vectors' \in [Tenants -> {"unjudged", "with", "without"}]
         /\ waiting' \in (SUBSET Tenants) \cup {{None}}
         /\ started' \in BOOLEAN /\ draining' \in BOOLEAN
         /\ started => started' /\ panicked' = panicked /\ (waiting = {} => waiting' = {})
         /\ ~started /\ started' => waiting' = {} \/ panicked'
         /\ draining => draining'
<1> USE DEF ReadyType, Disk, Io, Ready!Disk, Ready!Io
<1>1. CASE Ready!ListKnown
  BY <1>1 DEF Ready!ListKnown
<1>2. CASE Ready!OpenKnown
  <2>1. vectors' \in [Tenants -> {"unjudged", "with", "without"}]
    BY <1>2 DEF Ready!OpenKnown, Ready!Judged
  <2>2. /\ waiting \notin {{}, {None}}
        /\ waiting' = {} \/ \E t \in waiting : waiting' = waiting \ {t}
    BY <1>2 DEF Ready!OpenKnown
  <2> QED
    BY <1>2, <2>1, <2>2 DEF Ready!OpenKnown
<1>3. CASE Ready!Started
  BY <1>3 DEF Ready!Started, Ready!PassDone
<1>4. CASE Ready!Drain
  BY <1>4 DEF Ready!Drain
<1>5. ASSUME NEW t \in Tenants, Ready!Request(t) \/ Ready!Heal(t)
      PROVE  /\ UNCHANGED <<Disk, Io, probe, waiting, started, draining, panicked>> /\ Ready!Watch
             /\ vectors' \in [Tenants -> {"unjudged", "with", "without"}]
  BY <1>5 DEF Ready!Request, Ready!Heal, Ready!Judged
<1> QED
  BY <1>1, <1>2, <1>3, <1>4, <1>5 DEF ServerStep

\* What such a read adds to the probe.
LEMMA ProbeIs ==
  ASSUME ReadyType, NEW p \in Prober, ProbeStep(p)
  PROVE  /\ UNCHANGED <<Disk, Server, Io>> /\ Ready!Watch
         /\ probe' \in [Prober -> Probes] /\ \A q \in Prober \ {p} : probe'[q] = probe[q]
         /\ probe'[p].slow = probe[p].slow /\ probe'[p].bad = probe[p].bad
         /\ probe'[p].late = probe[p].late /\ (probe'[p].passes => probe[p].passes)
         /\ \/ /\ probe[p].pc = "vectors" /\ probe'[p].pc = "startup"
               /\ probe'[p].passes => Ready!Missing(vectors) = {}
            \/ /\ probe[p].pc = "startup" /\ probe'[p].pc = "shutdown"
               /\ probe'[p].passes => started
            \/ /\ probe[p].pc = "shutdown" /\ probe'[p].pc = "answer"
               /\ probe'[p].passes => ~draining
<1>1. CASE Ready!ReadVectors(p)
  <2>1. (Ready!Missing(vectors) = {}) \in BOOLEAN
    OBVIOUS
  <2> QED
    BY <1>1, <2>1, ReadsIs DEF Ready!ReadVectors, Asked
<1>2. CASE Ready!ReadStarted(p)
  <2>1. started \in BOOLEAN /\ "startup" \in Asked /\ "shutdown" \in Asked
    BY DEF ReadyType, Asked
  <2>2. Ready!Reads(p, "startup", "shutdown", started)
    BY <1>2 DEF Ready!ReadStarted
  <2>3. /\ probe[p].pc = "startup" /\ UNCHANGED <<Disk, Server, Io>> /\ Ready!Watch
        /\ probe' \in [Prober -> Probes] /\ \A q \in Prober \ {p} : probe'[q] = probe[q]
        /\ probe'[p].pc = "shutdown" /\ probe'[p].slow = probe[p].slow
        /\ probe'[p].bad = probe[p].bad /\ probe'[p].late = probe[p].late
        /\ probe'[p].passes = (probe[p].passes /\ started)
    BY <2>1, <2>2, ReadsIs
  <2>4. probe'[p].passes => probe[p].passes /\ started
    BY <2>3
  <2> QED
    BY <2>3, <2>4
<1>3. CASE Ready!ReadDraining(p)
  BY <1>3, ReadsIs DEF Ready!ReadDraining, Asked, ReadyType
<1> QED
  BY <1>1, <1>2, <1>3 DEF ProbeStep

\* The steps, by what they do to the probes.
LEMMA ReadySteps ==
  ASSUME Ready!Next
  PROVE  \/ ServerStep \/ Ready!Changes \/ Ready!Tick
         \/ \E p \in Prober :
              \/ Ready!Arrive(p) \/ Ready!Cached(p) \/ Ready!Refresh(p) \/ Ready!Probed(p)
              \/ ProbeStep(p) \/ Ready!Answer(p)
BY DEF Ready!Next, ServerStep, ProbeStep

\* A probe is answered.
LEMMA AnswerIs ==
  ASSUME ReadyType, NEW p \in Prober, Ready!Answer(p)
  PROVE  /\ UNCHANGED <<Disk, Server, Io>> /\ Ready!Watch
         /\ probe' \in [Prober -> Probes] /\ \A q \in Prober \ {p} : probe'[q] = probe[q]
         /\ probe'[p].pc = "idle" /\ probe'[p].slow = 0 /\ ~probe'[p].late
BY Idles DEF Ready!Answer, ReadyType, Ready!Disk, Ready!Server, Ready!Io, Disk, Server, Io

\* A probe takes the result from the cache.
LEMMA CachedIs ==
  ASSUME ReadyType, NEW p \in Prober, Ready!Cached(p)
  PROVE  /\ UNCHANGED <<Disk, Server, Io>> /\ Ready!Watch
         /\ probe[p].pc = "io" /\ cache # None /\ cache.age < Ttl /\ cache.bad \in SUBSET Parted
         /\ Ready!Learns(p, cache.bad)
BY DEF Ready!Cached, Ready!Fresh, ReadyType, Ready!At, Ready!Disk, Ready!Server, Ready!Io, Disk,
   Server, Io

\* A probe ends its refresh.
LEMMA ProbedIs ==
  ASSUME ReadyType, NEW p \in Prober, Ready!Probed(p), probe[p].bad \subseteq {"iam"}
  PROVE  /\ UNCHANGED <<Disk, Server>> /\ Ready!Watch /\ probe[p].pc = "probing"
         /\ lock' = None /\ rest' = 0
         /\ \E bad \in SUBSET Parted :
              /\ cache' = [bad |-> bad, age |-> 0] /\ Ready!Learns(p, bad)
              /\ "iam" \in bad <=> "iam" \in probe[p].bad
              /\ "data_dir" \in bad <=> fault = "data_dir"
<1> DEFINE bad == probe[p].bad \cup ({fault} \cap {"data_dir"})
<1>1. /\ cache' = [bad |-> bad, age |-> 0] /\ Ready!Learns(p, bad)
      /\ UNCHANGED <<Disk, Server>> /\ Ready!Watch /\ probe[p].pc = "probing"
      /\ lock' = None /\ rest' = 0
  BY DEF Ready!Probed, Ready!At, Ready!Disk, Ready!Server, Disk, Server
<1>2. /\ bad \in SUBSET Parted /\ ("iam" \in bad <=> "iam" \in probe[p].bad)
      /\ "data_dir" \in bad <=> fault = "data_dir"
  BY DEF Parted
<1> QED
  BY <1>1, <1>2

\* A fault comes or goes.
LEMMA ChangesIs ==
  ASSUME ReadyType, Ready!Changes
  PROVE  /\ fault' \in Ready!Faults \ {fault} /\ since' = 0 /\ Ready!Watch
         /\ UNCHANGED <<envonly, Server, Io, probe>>
BY DEF Ready!Changes, Ready!Server, Ready!Io, Server, Io

\* Types are kept.
LEMMA ReadyTypes == ASSUME ReadyInv, [Ready!Next]_(Ready!vars) PROVE ReadyType'
<1>0. ReadyType
  BY DEF ReadyInv
<1> USE DEF ReadyType, Disk, Server, Io
<1>1. CASE ServerStep
  BY <1>0, <1>1, ServerIs
<1>2. CASE Ready!Changes
  BY <1>0, <1>2, ChangesIs, ReadinessAssumption
<1>3. CASE Ready!Tick
  <2>1. Ttl \in Nat
    BY ReadinessAssumption
  <2>2. \A a \in 0..Ttl : Ready!Least(a + 1, Ttl) \in 0..Ttl
    BY <2>1 DEF Ready!Least
  <2>3. rest' \in 0..Ttl
    BY <1>0, <1>3, <2>2, TickIs
  <2>4. cache' \in {None} \cup [bad : SUBSET Parted, age : 0..Ttl]
    BY <1>0, <1>3, <2>2, TickIs
  <2> QED
    BY <1>0, <1>3, <2>3, <2>4, TickIs
<1>4. ASSUME NEW p \in Prober, Ready!Arrive(p) PROVE ReadyType'
  BY <1>0, <1>4, ArriveIs
<1>5. ASSUME NEW p \in Prober, Ready!Cached(p) PROVE ReadyType'
  BY <1>0, <1>5, CachedIs, LearnsIs
<1>6. ASSUME NEW p \in Prober, Ready!Refresh(p) PROVE ReadyType'
  BY <1>0, <1>6, RefreshIs
<1>7. ASSUME NEW p \in Prober, Ready!Probed(p) PROVE ReadyType'
  <2>1. probe[p].bad \subseteq {"iam"}
    BY <1>7 DEF ReadyInv, ReadsRight, Ready!Probed, Ready!At
  <2>2. 0 \in 0..Ttl
    BY ReadinessAssumption
  <2>3. cache' \in [bad : SUBSET Parted, age : 0..Ttl] /\ probe' \in [Prober -> Probes]
    BY <1>0, <1>7, <2>1, <2>2, ProbedIs, LearnsIs
  <2> QED
    BY <1>0, <1>7, <2>1, <2>2, <2>3, ProbedIs
<1>8. ASSUME NEW p \in Prober, ProbeStep(p) PROVE ReadyType'
  BY <1>0, <1>8, ProbeIs
<1>9. ASSUME NEW p \in Prober, Ready!Answer(p) PROVE ReadyType'
  BY <1>0, <1>9, AnswerIs
<1>10. CASE UNCHANGED Ready!vars
  BY <1>0, <1>10 DEF Ready!vars
<1> QED
  BY <1>1, <1>2, <1>3, <1>4, <1>5, <1>6, <1>7, <1>8, <1>9, <1>10, ReadySteps

\* One refresh at a time is kept.
LEMMA OneProbesStep == ASSUME ReadyInv, [Ready!Next]_(Ready!vars) PROVE OneProbes'
<1>0. ReadyType /\ OneProbes
  BY DEF ReadyInv
<1> USE DEF OneProbes, Disk, Server, Io
<1>1. CASE ServerStep
  BY <1>0, <1>1, ServerIs
<1>2. CASE Ready!Changes
  BY <1>0, <1>2, ChangesIs
<1>3. CASE Ready!Tick
  <2>1. \A p \in Prober : /\ probe'[p].pc = "probing" => lock' = p
                          /\ probe'[p].pc # "probing" => probe'[p].slow = 0
    BY <1>0, <1>3, TickIs
  <2>2. cache = None => Ready!Least(rest + 1, Ttl) = Ttl
    BY <1>0, ReadinessAssumption DEF Ready!Least
  <2>3. cache # None => /\ cache'.age = Ready!Least(cache.age + 1, Ttl)
                        /\ cache' \in [bad : SUBSET Parted, age : 0..Ttl]
    BY <1>0, <1>3, TickIs, ReadyTypes, ReadinessAssumption DEF ReadyType, Ready!Least
  <2>4. cache # None => cache' # None
    BY <2>3, NoneAssumption DEF Parted, Ready!Faults
  <2> QED
    BY <1>0, <1>3, <2>1, <2>2, <2>3, <2>4, TickIs
<1>4. ASSUME NEW p \in Prober, Ready!Arrive(p) PROVE OneProbes'
  BY <1>0, <1>4, ArriveIs
<1>5. ASSUME NEW p \in Prober, Ready!Cached(p) PROVE OneProbes'
  BY <1>0, <1>5, CachedIs, LearnsIs
<1>6. ASSUME NEW p \in Prober, Ready!Refresh(p) PROVE OneProbes'
  BY <1>0, <1>6, RefreshIs, NoneAssumption
<1>7. ASSUME NEW p \in Prober, Ready!Probed(p) PROVE OneProbes'
  <2>1. probe[p].bad \subseteq {"iam"} /\ probe[p].pc = "probing"
    BY <1>7 DEF ReadyInv, ReadsRight, Ready!Probed, Ready!At
  <2>2. PICK bad \in SUBSET Parted :
          cache' = [bad |-> bad, age |-> 0] /\ Ready!Learns(p, bad)
    BY <1>0, <1>7, <2>1, ProbedIs
  <2>3. \A q \in Prober : probe'[q].pc # "probing" /\ probe'[q].slow = 0
    BY <1>0, <2>1, <2>2, LearnsIs
  <2>4. cache' # None /\ cache'.age = 0
    <3>1. cache' \in [bad : SUBSET Ready!Faults, age : 0..Ttl]
      BY <2>2, ReadinessAssumption DEF Parted, Ready!Faults
    <3> QED
      BY <2>2, <3>1, NoneAssumption
  <2> QED
    BY <1>0, <1>7, <2>1, <2>3, <2>4, ProbedIs
<1>8. ASSUME NEW p \in Prober, ProbeStep(p) PROVE OneProbes'
  BY <1>0, <1>8, ProbeIs
<1>9. ASSUME NEW p \in Prober, Ready!Answer(p) PROVE OneProbes'
  BY <1>0, <1>9, AnswerIs
<1>10. CASE UNCHANGED Ready!vars
  BY <1>0, <1>10 DEF Ready!vars
<1> QED
  BY <1>1, <1>2, <1>3, <1>4, <1>5, <1>6, <1>7, <1>8, <1>9, <1>10, ReadySteps

\* Steps that leave the disk and the cache alone, begin no refresh and learn nothing.
LEMMA NothingRead ==
  ASSUME ReadyType, ReadsRight, Ready!Watch, UNCHANGED <<envonly, fault, since, cache>>,
         \A p \in Prober :
           \/ UNCHANGED probe[p]
           \/ probe'[p].pc \in {"idle", "io"}
           \/ {probe[p].pc, probe'[p].pc} \subseteq Asked /\ probe'[p].bad = probe[p].bad
  PROVE  ReadsRight'
<1>1. \A p \in Prober : same'[p] # None =>
        /\ same'[p] = fault' /\ since' = Ttl + MaxSlow
        /\ probe[p].pc # "idle" => same'[p] = same[p]
  BY SameIs
<1>2. ASSUME NEW p \in Prober, probe'[p].pc = "probing" PROVE probe'[p] = probe[p]
  BY <1>2 DEF Asked
<1>3. ASSUME NEW p \in Prober, probe'[p].pc \in Asked, same'[p] # None
      PROVE  probe[p].pc \in Asked /\ same[p] = same'[p] /\ probe'[p].bad = probe[p].bad
  BY <1>1, <1>3 DEF Asked
<1> QED
  BY <1>1, <1>2, <1>3 DEF ReadsRight, Tells

\* Every step keeps the results right.
LEMMA ReadsRightStep == ASSUME ReadyInv, [Ready!Next]_(Ready!vars) PROVE ReadsRight'
<1>0. ReadyType /\ OneProbes /\ ReadsRight
  BY DEF ReadyInv
<1> USE DEF Disk, Server, Io
<1>1. CASE ServerStep
  BY <1>0, <1>1, ServerIs, NothingRead
<1>2. CASE Ready!Changes
  <2>1. \A p \in Prober : same'[p] = None
    BY <1>0, <1>2, ChangesIs, SameIs, ReadinessAssumption
  <2>2. \A p \in Prober : probe[p].slow \in Nat
    BY <1>0, ReadinessAssumption DEF ReadyType, Probes
  <2>3. cache # None => cache.age + MaxSlow \in Nat
    BY <1>0, ReadinessAssumption DEF ReadyType
  <2> QED
    BY <1>0, <1>2, <2>1, <2>2, <2>3, ChangesIs DEF ReadsRight
<1>3. CASE Ready!Tick
  <2>1. Ttl \in Nat /\ MaxSlow \in Nat
    BY ReadinessAssumption
  <2>2. /\ UNCHANGED <<envonly, fault>> /\ since' <= since + 1 /\ since' \in Int /\ since \in Int
        /\ since = Ttl + MaxSlow => since' = since
    BY <1>0, <1>3, <2>1, TickIs DEF ReadyType
  <2>3. \A p \in Prober : same'[p] # None =>
          /\ same'[p] = fault' /\ since' = Ttl + MaxSlow
          /\ probe[p].pc # "idle" => same'[p] = same[p]
    <3>1. Ready!Watch
      BY <1>3 DEF Ready!Tick
    <3> QED
      BY <1>0, <2>2, <3>1, SameIs
  <2>4. ASSUME NEW p \in Prober, probe'[p].pc = "probing"
        PROVE  /\ probe'[p].bad \subseteq {"iam"}
               /\ since' > probe'[p].slow =>
                    ("iam" \in probe'[p].bad <=> (envonly' \/ fault' = "iam"))
    <3>1. /\ probe[p].pc = "probing" /\ probe'[p].slow = probe[p].slow + 1
          /\ probe'[p].bad = probe[p].bad /\ probe[p].slow \in Int
      BY <1>0, <1>3, <2>4, TickIs DEF ReadyType, Probes
    <3> QED
      BY <1>0, <2>2, <3>1 DEF ReadsRight
  <2>5. ASSUME cache' # None, cache'.age < Ttl, since' > cache'.age + MaxSlow
        PROVE  Tells(cache'.bad, fault)
    <3>1. cache # None /\ cache \in [bad : SUBSET Parted, age : 0..Ttl]
      BY <1>0, <1>3, <2>5, TickIs DEF ReadyType
    <3>2. cache' = [cache EXCEPT !.age = Ready!Least(cache.age + 1, Ttl)]
      BY <1>0, <1>3, <3>1, TickIs
    <3>3. cache'.age = Ready!Least(cache.age + 1, Ttl) /\ cache'.bad = cache.bad
      BY <3>1, <3>2
    <3>4. cache.age < Ttl /\ cache'.age = cache.age + 1 /\ cache.age \in Int
      BY <2>1, <2>5, <3>1, <3>3 DEF Ready!Least
    <3>5. Tells(cache.bad, fault)
      BY <1>0, <2>1, <2>2, <2>5, <3>1, <3>4 DEF ReadsRight
    <3> QED
      BY <3>3, <3>5
  <2>6. ASSUME NEW p \in Prober, probe'[p].pc \in Asked, same'[p] # None
        PROVE  Tells(probe'[p].bad, same'[p])
    <3>1. probe[p].pc = probe'[p].pc /\ probe'[p].bad = probe[p].bad /\ same'[p] = same[p]
      BY <1>0, <1>3, <2>3, <2>6, TickIs DEF Asked
    <3> QED
      BY <1>0, <2>2, <2>6, <3>1 DEF ReadsRight, Tells
  <2> QED
    BY <2>2, <2>3, <2>4, <2>5, <2>6 DEF ReadsRight, Tells
<1>4. ASSUME NEW p \in Prober, Ready!Arrive(p) PROVE ReadsRight'
  BY <1>0, <1>4, ArriveIs, NothingRead
<1>5. ASSUME NEW p \in Prober, Ready!Cached(p) PROVE ReadsRight'
  <2>1. /\ UNCHANGED <<Disk, Server, Io>> /\ Ready!Watch /\ probe[p].pc = "io"
        /\ cache # None /\ cache.age < Ttl /\ cache.bad \in SUBSET Parted
        /\ Ready!Learns(p, cache.bad)
    BY <1>0, <1>5, CachedIs
  <2>2. /\ \A q \in Prober \ {p} : probe'[q] = probe[q]
        /\ \/ probe'[p].pc = "idle"
           \/ probe'[p].pc = "vectors" /\ probe'[p].bad = cache.bad
    BY <1>0, <2>1, LearnsIs
  <2>3. \A q \in Prober : same'[q] # None =>
          /\ same'[q] = fault /\ since = Ttl + MaxSlow /\ probe'[q].pc # "idle"
          /\ probe[q].pc # "idle" => same'[q] = same[q]
    BY <1>0, <2>1, SameIs
  <2>4. ASSUME same'[p] # None PROVE Tells(probe'[p].bad, same'[p])
    <3>1. since > cache.age + MaxSlow
      BY <1>0, <2>1, <2>3, <2>4, ReadinessAssumption DEF ReadyType
    <3> QED
      BY <1>0, <2>1, <2>2, <2>3, <2>4, <3>1 DEF ReadsRight
  <2>5. ASSUME NEW q \in Prober, probe'[q].pc = "probing" PROVE probe'[q] = probe[q]
    BY <2>2, <2>5
  <2>6. ASSUME NEW q \in Prober \ {p}, probe'[q].pc \in Asked, same'[q] # None
        PROVE  Tells(probe'[q].bad, same'[q])
    BY <1>0, <2>2, <2>3, <2>6 DEF ReadsRight, Asked
  <2> QED
    BY <1>0, <2>1, <2>3, <2>4, <2>5, <2>6 DEF ReadsRight, Tells
<1>6. ASSUME NEW p \in Prober, Ready!Refresh(p) PROVE ReadsRight'
  <2>1. /\ UNCHANGED <<Disk, Server, cache, rest>> /\ Ready!Watch /\ probe[p].pc = "io"
        /\ \A q \in Prober \ {p} : probe'[q] = probe[q]
        /\ probe'[p].pc = "probing" /\ probe'[p].bad \subseteq {"iam"}
        /\ "iam" \in probe'[p].bad <=> (envonly \/ fault = "iam")
    BY <1>0, <1>6, RefreshIs
  <2>2. \A q \in Prober : same'[q] # None =>
          /\ same'[q] = fault /\ since = Ttl + MaxSlow
          /\ probe[q].pc # "idle" => same'[q] = same[q]
    BY <1>0, <2>1, SameIs
  <2>3. ASSUME NEW q \in Prober, probe'[q].pc \in Asked, same'[q] # None
        PROVE  Tells(probe'[q].bad, same'[q])
    BY <1>0, <2>1, <2>2, <2>3 DEF ReadsRight, Asked
  <2> QED
    BY <1>0, <2>1, <2>2, <2>3 DEF ReadsRight, Tells
<1>7. ASSUME NEW p \in Prober, Ready!Probed(p) PROVE ReadsRight'
  <2>1. probe[p].bad \subseteq {"iam"} /\ probe[p].pc = "probing"
    BY <1>0, <1>7 DEF ReadsRight, Ready!Probed, Ready!At
  <2>2. /\ UNCHANGED <<Disk, Server>> /\ Ready!Watch
    BY <1>0, <1>7, <2>1, ProbedIs
  <2>3. PICK bad \in SUBSET Parted :
          /\ cache' = [bad |-> bad, age |-> 0] /\ Ready!Learns(p, bad)
          /\ "iam" \in bad <=> "iam" \in probe[p].bad
          /\ "data_dir" \in bad <=> fault = "data_dir"
    BY <1>0, <1>7, <2>1, ProbedIs
  <2>4. /\ \A q \in Prober \ {p} : probe'[q] = probe[q]
        /\ \/ probe'[p].pc = "idle"
           \/ probe'[p].pc = "vectors" /\ probe'[p].bad = bad
    BY <1>0, <2>3, LearnsIs
  <2>5. \A q \in Prober : same'[q] # None =>
          /\ same'[q] = fault /\ since = Ttl + MaxSlow /\ probe'[q].pc # "idle"
          /\ probe[q].pc # "idle" => same'[q] = same[q]
    BY <1>0, <2>2, SameIs
  <2>6. since > MaxSlow => Tells(bad, fault)
    <3>1. probe[p].slow \in Int /\ probe[p].slow <= MaxSlow /\ MaxSlow \in Int /\ since \in Int
      BY <1>0, ReadinessAssumption DEF ReadyType, Probes
    <3>2. since > MaxSlow => ("iam" \in probe[p].bad <=> (envonly \/ fault = "iam"))
      BY <1>0, <2>1, <3>1 DEF ReadsRight
    <3> QED
      BY <2>3, <3>2 DEF Tells
  <2>7. cache'.bad = bad /\ cache'.age = 0
    BY <2>3
  <2>8. ASSUME same'[p] # None PROVE Tells(bad, fault)
    BY <1>0, <2>5, <2>6, <2>8, ReadinessAssumption DEF ReadyType
  <2>9. ASSUME NEW q \in Prober, probe'[q].pc \in Asked, same'[q] # None
        PROVE  Tells(probe'[q].bad, same'[q])
    BY <1>0, <2>4, <2>5, <2>8, <2>9 DEF ReadsRight, Asked
  <2>10. ASSUME NEW q \in Prober, probe'[q].pc = "probing" PROVE probe'[q] = probe[q]
    BY <2>4, <2>10
  <2>11. since > cache'.age + MaxSlow => Tells(cache'.bad, fault)
    BY <1>0, <2>6, <2>7, ReadinessAssumption DEF ReadyType
  <2> QED
    BY <1>0, <2>2, <2>5, <2>9, <2>10, <2>11 DEF ReadsRight, Tells
<1>8. ASSUME NEW p \in Prober, ProbeStep(p) PROVE ReadsRight'
  BY <1>0, <1>8, ProbeIs, NothingRead DEF Asked
<1>9. ASSUME NEW p \in Prober, Ready!Answer(p) PROVE ReadsRight'
  BY <1>0, <1>9, AnswerIs, NothingRead
<1>10. CASE UNCHANGED Ready!vars
  BY <1>0, <1>10 DEF Ready!vars, ReadsRight, Tells
<1> QED
  BY <1>1, <1>2, <1>3, <1>4, <1>5, <1>6, <1>7, <1>8, <1>9, <1>10, ReadySteps

\* What moment remembers of a probe under way.
LEMMA MomentIs ==
  ASSUME Ready!Watch, NEW p \in Followed, ReadyType
  PROVE  moment'[p] <=> probe'[p].pc # "idle" /\ (Ready!AllPass' \/ moment[p])
<1>1. p \in Prober
  BY ReadinessAssumption
<1>2. moment'[p] = (p \in Followed /\ probe'[p].pc # "idle" /\ (Ready!AllPass' \/ moment[p]))
  BY <1>1 DEF Ready!Watch
<1> QED
  BY <1>2

\* Steps that move no probe past the reads of its answer.
LEMMA NothingAnswered ==
  ASSUME ReadyType, Passed, Ready!Watch,
         started => started' /\ panicked' = panicked /\ (waiting = {} => waiting' = {}),
         ~started /\ started' => waiting' = {} \/ panicked',
         draining => draining',
         \A p \in Prober :
           \/ /\ probe'[p].pc = probe[p].pc /\ probe'[p].passes = probe[p].passes
              /\ probe'[p].late = probe[p].late
           \/ /\ probe'[p].pc \notin {"startup", "shutdown", "answer"}
              /\ probe'[p].late => started
  PROVE  Passed'
<1>1. started' => waiting' = {} \/ panicked'
  BY DEF Passed
<1>2. ASSUME NEW p \in Prober,
             probe'[p].late \/ (probe'[p].pc \in {"shutdown", "answer"} /\ probe'[p].passes)
      PROVE  started'
  BY <1>2 DEF Passed
<1>3. ASSUME NEW p \in Followed, probe'[p].late, probe'[p].passes
      PROVE  /\ probe'[p].pc \in {"startup", "shutdown"} => moment'[p] \/ draining'
             /\ probe'[p].pc = "answer" => moment'[p]
  <2>1. p \in Prober
    BY ReadinessAssumption
  <2> QED
    BY <1>3, <2>1, MomentIs DEF Passed
<1> QED
  BY <1>1, <1>2, <1>3 DEF Passed

\* Every step keeps what the probes have been told.
LEMMA PassedStep == ASSUME ReadyInv, [Ready!Next]_(Ready!vars) PROVE Passed'
<1>0. ReadyType /\ ReadsRight /\ Passed
  BY DEF ReadyInv
<1> USE DEF Disk, Server, Io
<1>1. CASE ServerStep
  BY <1>0, <1>1, ServerIs, NothingAnswered
<1>2. CASE Ready!Changes
  BY <1>0, <1>2, ChangesIs, NothingAnswered
<1>3. CASE Ready!Tick
  <2>1. Ready!Watch
    BY <1>3 DEF Ready!Tick
  <2> QED
    BY <1>0, <1>3, <2>1, TickIs, NothingAnswered
<1>4. ASSUME NEW p \in Prober, Ready!Arrive(p) PROVE Passed'
  BY <1>0, <1>4, ArriveIs, NothingAnswered
<1>5. ASSUME NEW p \in Prober, Ready!Cached(p) PROVE Passed'
  BY <1>0, <1>5, CachedIs, LearnsIs, NothingAnswered DEF Passed
<1>6. ASSUME NEW p \in Prober, Ready!Refresh(p) PROVE Passed'
  BY <1>0, <1>6, RefreshIs, NothingAnswered DEF Passed
<1>7. ASSUME NEW p \in Prober, Ready!Probed(p) PROVE Passed'
  <2>1. probe[p].bad \subseteq {"iam"}
    BY <1>0, <1>7 DEF ReadsRight, Ready!Probed, Ready!At
  <2> QED
    BY <1>0, <1>7, <2>1, ProbedIs, LearnsIs, NothingAnswered DEF Passed
<1>8. ASSUME NEW p \in Prober, ProbeStep(p) PROVE Passed'
  <2>1. /\ UNCHANGED <<Disk, Server, Io>> /\ Ready!Watch
        /\ probe' \in [Prober -> Probes] /\ \A q \in Prober \ {p} : probe'[q] = probe[q]
        /\ probe'[p].late = probe[p].late /\ (probe'[p].passes => probe[p].passes)
    BY <1>0, <1>8, ProbeIs
  <2>2. \/ /\ probe[p].pc = "vectors" /\ probe'[p].pc = "startup"
           /\ probe'[p].passes => Ready!Missing(vectors) = {}
        \/ /\ probe[p].pc = "startup" /\ probe'[p].pc = "shutdown"
           /\ probe'[p].passes => started
        \/ /\ probe[p].pc = "shutdown" /\ probe'[p].pc = "answer"
           /\ probe'[p].passes => ~draining
    BY <1>0, <1>8, ProbeIs
  <2>3. ASSUME NEW q \in Prober,
               probe'[q].late \/ (probe'[q].pc \in {"shutdown", "answer"} /\ probe'[q].passes)
        PROVE  started'
    BY <1>0, <2>1, <2>2, <2>3 DEF Passed
  <2>4. ASSUME NEW q \in Followed, probe'[q].late, probe'[q].passes
        PROVE  /\ probe'[q].pc \in {"startup", "shutdown"} => moment'[q] \/ draining'
               /\ probe'[q].pc = "answer" => moment'[q]
    <3>1. q \in Prober /\ started
      BY <1>0, <2>1, <2>4, ReadinessAssumption DEF Passed
    <3>2. CASE q # p
      BY <1>0, <2>1, <2>4, <3>1, <3>2, MomentIs DEF Passed
    <3>3. CASE q = p /\ probe[p].pc = "vectors"
      <4>1. ~draining => Ready!AllPass'
        BY <2>1, <2>2, <2>4, <3>1, <3>3 DEF Ready!AllPass, Ready!Missing
      <4> QED
        BY <1>0, <2>1, <2>2, <2>4, <3>3, <4>1, MomentIs
    <3>4. CASE q = p /\ probe[p].pc # "vectors"
      BY <1>0, <2>1, <2>2, <2>4, <3>4, MomentIs DEF Passed
    <3> QED
      BY <3>2, <3>3, <3>4
  <2>5. started' => waiting' = {} \/ panicked'
    BY <1>0, <2>1 DEF Passed
  <2> QED
    BY <2>3, <2>4, <2>5 DEF Passed
<1>9. ASSUME NEW p \in Prober, Ready!Answer(p) PROVE Passed'
  BY <1>0, <1>9, AnswerIs, NothingAnswered
<1>10. CASE UNCHANGED Ready!vars
  BY <1>0, <1>10 DEF Ready!vars, Passed
<1> QED
  BY <1>1, <1>2, <1>3, <1>4, <1>5, <1>6, <1>7, <1>8, <1>9, <1>10, ReadySteps

\* Every step keeps all of it.
LEMMA ReadyStep == ASSUME ReadyInv, [Ready!Next]_(Ready!vars) PROVE ReadyInv'
BY ReadyTypes, OneProbesStep, ReadsRightStep, PassedStep DEF ReadyInv

\* Then the answers are true.
LEMMA Honest ==
  ASSUME ReadyInv
  PROVE  /\ Ready!TypeOK /\ Ready!DiskIsRecent
         /\ Ready!ReadyIsAfterThePass /\ Ready!LateReadyWasTrue
<1>0. ReadyType /\ OneProbes /\ ReadsRight /\ Passed
  BY DEF ReadyInv
<1>1. Ready!TypeOK
  <2>1. Parted \subseteq Ready!Faults
    BY DEF Parted, Ready!Faults
  <2>2. \A p \in Prober : probe[p] \in Probes
    BY <1>0 DEF ReadyType
  <2>3. \A p \in Prober : probe[p].bad \subseteq Ready!Faults /\ probe[p].slow \in 0..MaxSlow
    BY <2>1, <2>2 DEF Probes
  <2>4. cache = None \/ (cache.bad \subseteq Ready!Faults /\ cache.age \in 0..Ttl)
    BY <1>0, <2>1 DEF ReadyType
  <2> QED
    BY <1>0, <2>3, <2>4 DEF ReadyType, Ready!TypeOK
<1>2. Ready!DiskIsRecent
  BY <1>0, ReadinessAssumption DEF ReadsRight, Tells, Asked, Ready!DiskIsRecent, Ready!At
<1>3. Ready!ReadyIsAfterThePass
  BY <1>0, ReadinessAssumption DEF Passed, Ready!ReadyIsAfterThePass, Ready!IsReady, Ready!At
<1>4. Ready!LateReadyWasTrue
  BY <1>0, ReadinessAssumption DEF Passed, Ready!LateReadyWasTrue, Ready!IsReady, Ready!At
<1> QED
  BY <1>1, <1>2, <1>3, <1>4

\* A refresh begins a whole limit after the last.
LEMMA OneAtATime ==
  ASSUME ReadyInv, [Ready!Next]_(Ready!vars), NEW p \in Prober,
         Ready!At(p, "io"), probe'[p].pc = "probing"
  PROVE  rest = Ttl /\ \A q \in Prober : ~Ready!At(q, "probing")
<1>0. ReadyType /\ OneProbes
  BY DEF ReadyInv
<1>1. Ready!Refresh(p)
  <2> USE DEF Ready!At
  <2>1. ~ServerStep
    BY <1>0, ServerIs
  <2>2. ~Ready!Changes /\ ~Ready!Tick
    BY <1>0, ChangesIs, TickIs
  <2>3. \A q \in Prober : ~Ready!Arrive(q) /\ ~ProbeStep(q) /\ ~Ready!Answer(q)
    BY <1>0, ArriveIs, ProbeIs, AnswerIs
  <2>4. \A q \in Prober : ~Ready!Cached(q)
    BY <1>0, CachedIs, LearnsIs
  <2>5. \A q \in Prober : ~Ready!Probed(q)
    <3> SUFFICES ASSUME NEW q \in Prober, Ready!Probed(q) PROVE FALSE
      OBVIOUS
    <3>1. probe[q].bad \subseteq {"iam"} /\ probe[q].pc = "probing"
      BY DEF ReadyInv, ReadsRight, Ready!Probed
    <3> QED
      BY <1>0, <3>1, ProbedIs, LearnsIs
  <2>6. \A q \in Prober : Ready!Refresh(q) => q = p
    BY <1>0, RefreshIs
  <2>7. ~UNCHANGED Ready!vars
    BY DEF Ready!vars
  <2> QED
    BY <2>1, <2>2, <2>3, <2>4, <2>5, <2>6, <2>7, ReadySteps
<1>2. lock = None /\ ~Ready!Fresh(cache)
  BY <1>0, <1>1, RefreshIs
<1>3. rest = Ttl
  BY <1>0, <1>2, ReadinessAssumption DEF OneProbes, ReadyType, Ready!Fresh
<1> QED
  BY <1>0, <1>2, <1>3, NoneAssumption DEF OneProbes, Ready!At

-----------------------------------------------------------------------------
(* The machine.                                                            *)

\* Whatever part of it runs, the invariant of that part.
HostInv ==
  /\ part = "files" => FilesInv
  /\ part = "service" => ServiceInv
  /\ part = "import" => ImportInv
  /\ part = "skills" => SkillsInv
  /\ part = "ready" => ReadyInv
machine == <<part, files, service, vars, import, skills, ready>>

\* A step is one of the part that runs, and the others stand still.
LEMMA PartsStep ==
  ASSUME [MCNext]_machine
  PROVE  /\ part' = part
         /\ part = "files" => [Files!Next]_(Files!vars)
         /\ IF part = "service" THEN [Service!Next]_(Service!vars) ELSE UNCHANGED Service!vars
         /\ IF part = "import" THEN [Import!Next]_(Import!vars) ELSE UNCHANGED Import!vars
         /\ IF part = "skills" THEN [Skilled!Next]_(Skilled!vars) ELSE UNCHANGED Skilled!vars
         /\ IF part = "ready" THEN [Ready!Next]_(Ready!vars) ELSE UNCHANGED Ready!vars
BY DEF MCNext, Bootstrapping, Serving, Upgrading, Importing, Syncing, Probing, machine,
   files, service, import, skills, ready,
   Files!vars, Service!vars, Import!vars, Skilled!vars, Ready!vars

\* Whatever runs on the machine, in every reachable state its part's invariant holds.
THEOREM HostInvariant == MCSpec => []HostInv
<1>1. MCInit => HostInv
  <2> SUFFICES ASSUME MCInit PROVE HostInv
    OBVIOUS
  <2>1. /\ part = "files" => Files!Init
        /\ part = "service" => Service!Init
        /\ part = "import" => Import!Init
        /\ part = "skills" => Skilled!Init
        /\ part = "ready" => Ready!Init
    BY DEF MCInit
  <2>2. part = "files" => FilesInv
    BY <2>1, RunInit, SoulInit DEF FilesInv, RunInv
  <2> QED
    BY <2>1, <2>2, ServiceInit, ImportInit, SkillsInit, ReadyInit DEF HostInv
<1>2. HostInv /\ [MCNext]_machine => HostInv'
  BY PartsStep, FilesStep, ServiceStep, ImportStep, SkillsStep, ReadyStep DEF HostInv
<1> QED
  BY <1>1, <1>2, PTL DEF MCSpec, machine

\* A user's entries survive in the file or its .dmbak through any kill of bootstrap and any
\* repetition of it, and an identity file that was cut off settles with the user's text
\* (bootstrap.rs as a whole, upsert_managed_block).
THEOREM BootstrapKeepsEntries == MCSpec => []UserEntriesSurvive
<1>1. HostInv => UserEntriesSurvive
  <2> SUFFICES ASSUME FilesInv
               PROVE  Files!TypeOK /\ Files!UserEntriesSurvive /\ Files!SoulSettles
    BY DEF HostInv, UserEntriesSurvive
  <2>1. Files!TypeOK /\ Kept /\ SoulInv
    BY DEF FilesInv
  <2>2. Files!UserEntriesSurvive
    BY <2>1 DEF Kept, Exempt, Files!UserEntriesSurvive
  <2> QED
    BY <2>1, <2>2, Settled
<1> QED
  BY <1>1, HostInvariant, PTL

\* After any order of setup, login, logout, installs, removals, starts and stops, broken configs
\* and killed installs: a client that was told to use a server never writes to a store of its own,
\* keeps the token it was given, and reaches the store that an install named (config.rs, setup.rs,
\* client.rs, service.rs).
THEOREM ClientsReachTheirStore == MCSpec => ReachesItsStore
<1>1. HostInv => (part = "service" =>
                    Service!TypeOK /\ Service!NeverFallsBackToOwn /\ Service!TokenKept)
  BY NoOwnStore DEF HostInv, ServiceInv
<1>2. HostInv /\ [MCNext]_machine =>
        [Service!WriteServerConfig /\ (platform = "linux" => daemon = unit) /\ daemon # None =>
           Service!Target' = Service!Store("daemon", writing.data, writing.tenant)]_(Service!vars)
  BY PartsStep, Connects DEF HostInv
<1>3. MCSpec => Service!InstallConnects
  BY <1>2, HostInvariant, PTL DEF MCSpec, Service!InstallConnects, machine
<1> QED
  BY <1>1, <1>3, HostInvariant, PTL DEF ReachesItsStore

\* An import that ends and passed nothing over has every file as it was read, through edits, kills
\* and a lost manifest, while nothing happened that the manifest cannot know of; a sync that ends
\* shows every title as it read a record of it, and no skill is ever half (main.rs, skills.rs).
THEOREM ImportsAndSyncsAreWhole == MCSpec => CopiesAreWhole
<1>1. HostInv => (part = "import" => Import!TypeOK)
  BY DEF HostInv, ImportInv, ImportType
<1>2. HostInv => (part = "skills" => Skilled!LoadedIsWhole)
  BY DEF HostInv, SkillsInv
<1>3. HostInv /\ [MCNext]_machine =>
        [Import!End /\ calm /\ ~run.skipped => Import!Holds]_(Import!vars)
  BY PartsStep, EndHolds DEF HostInv
<1>4. HostInv /\ [MCNext]_machine =>
        [job = "sync" /\ Skilled!Ends =>
           \A n \in Skilled!Safe :
             listed[n] # {} => \E b \in listed[n] : loaded[n] = <<b>>]_(Skilled!vars)
  BY PartsStep, SyncShows DEF HostInv
<1>5. MCSpec => Import!ImportIsWhole
  BY <1>3, HostInvariant, PTL DEF MCSpec, Import!ImportIsWhole, machine
<1>6. MCSpec => Skilled!SyncIsWhole
  BY <1>4, HostInvariant, PTL DEF MCSpec, Skilled!SyncIsWhole, machine
<1> QED
  BY <1>1, <1>2, <1>5, <1>6, HostInvariant, PTL DEF CopiesAreWhole

\* For any number of probes, any limit and any slowness of the disk: an answer is no older than the
\* limit and one refresh, one refresh runs at a time and none within the limit of the last, and
\* "ready" is neither said before the pass is over nor after it of what never was (server.rs).
THEOREM ProbesAreToldTheTruth == MCSpec => ReadyIsHonest
<1>1. HostInv => (part = "ready" => /\ Ready!TypeOK /\ Ready!DiskIsRecent
                                    /\ Ready!ReadyIsAfterThePass /\ Ready!LateReadyWasTrue)
  BY Honest DEF HostInv
<1>2. HostInv /\ [MCNext]_machine =>
        [\A p \in Prober :
           Ready!At(p, "io") /\ probe'[p].pc = "probing" =>
             rest = Ttl /\ \A q \in Prober : ~Ready!At(q, "probing")]_(Ready!vars)
  BY PartsStep, OneAtATime DEF HostInv
<1>3. MCSpec => Ready!OneRefreshPerTtl
  BY <1>2, HostInvariant, PTL DEF MCSpec, Ready!OneRefreshPerTtl, machine
<1> QED
  BY <1>1, <1>3, HostInvariant, PTL DEF ReadyIsHonest

\* So it is with an upgrade among the other commands (main.rs: each is a process of its own).
THEOREM CommandUpgrades == MCSpec => InstallsWhatItSaid
<1>1. MCInit => Init
  BY DEF MCInit
<1>2. [MCNext]_<<part, files, service, vars, import, skills, ready>> => [Next]_vars
  BY DEF MCNext, Bootstrapping, Serving, Upgrading, Importing, Syncing, Probing
<1>3. MCSpec => Spec
  BY <1>1, <1>2, PTL DEF MCSpec, Spec
<1> QED
  BY <1>3, UpgradeIsAsAnnounced, VersionsAssumption

=============================================================================
