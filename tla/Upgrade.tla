------------------------------ MODULE Upgrade -------------------------------
(***************************************************************************)
(* `dmem upgrade` (src/src/upgrade.rs) behind the fence of an install that *)
(* a host installer manages (src/src/fence.rs): releases appear, carry     *)
(* assets that may be missing, tampered with or taken from another         *)
(* release, and upgrades of one install may overlap, each as long at its   *)
(* prompt as the user likes.                                               *)
(***************************************************************************)
EXTENDS Integers, FiniteSets

CONSTANTS
  Versions,   \* the versions there will ever be, installed first: 1..n
  Prereleases,\* those of them that are release candidates
  Upgraders   \* processes

\* The version installed first is 1.
UpgradeConstants == 1 \in Versions /\ Versions \subseteq Nat \ {0} /\ Prereleases \subseteq Versions

Tampered == 0
\* An archive is the version whose build it holds; the release key signs an archive together
\* with its file name, so a genuine signature is a version too, and 0 is none.
Assets == [archive : Versions \cup {Tampered}, sig : Versions \cup {Tampered}]

NoAsset == [archive |-> Tampered, sig |-> Tampered]

VARIABLES
  released,  \* [version -> asset], the releases to be seen
  bin, lib,  \* the installed versions of the binary and the native library
  marker,    \* .daimon-managed lies beside the binary
  pc, own, picked, held,  \* of each process: where it is, the version it runs, the release it
             \* picked and the asset it downloaded
  fenced,    \* history: processes that began while the marker was there
  overlap    \* history: two upgrades were running at one time
vars == <<released, bin, lib, marker, pc, own, picked, held, fenced, overlap>>

Init ==
  /\ released = [v \in {1} |-> [archive |-> 1, sig |-> 1]]
  /\ bin = 1 /\ lib = 1 /\ marker \in BOOLEAN
  /\ pc = [p \in Upgraders |-> "idle"] /\ own = [p \in Upgraders |-> 1]
  /\ picked = [p \in Upgraders |-> 0] /\ held = [p \in Upgraders |-> NoAsset]
  /\ fenced = {} /\ overlap = FALSE

\* A release appears; whoever publishes it can only reuse signatures that exist.
Publish(v, a) ==
  /\ v \in Versions \ DOMAIN released
  /\ a.sig \in DOMAIN released \cup {v, Tampered}
  /\ released' = [w \in DOMAIN released \cup {v} |-> IF w = v THEN a ELSE released[w]]
  /\ UNCHANGED <<bin, lib, marker, pc, own, picked, held, fenced, overlap>>

\* The installer takes the install over, or lets go of it.
Manage == /\ marker' = ~marker
          /\ UNCHANGED <<released, bin, lib, pc, own, picked, held, fenced, overlap>>

Goto(p, l) == pc' = [pc EXCEPT ![p] = l]
\* The process ends, and what it held in memory is gone.
Ends(p) ==
  /\ Goto(p, "idle") /\ own' = [own EXCEPT ![p] = 1]
  /\ picked' = [picked EXCEPT ![p] = 0] /\ held' = [held EXCEPT ![p] = NoAsset]
FenceOpen == TRUE  \* mutant: the marker is not looked for
Fence == ~marker

\* fence::check before anything else: a refusal ends the command there.
Begin(p) ==
  /\ pc[p] = "idle"
  /\ fenced' = IF marker THEN fenced \cup {p} ELSE fenced \ {p}
  /\ IF Fence THEN Goto(p, "list") /\ own' = [own EXCEPT ![p] = bin]
     ELSE UNCHANGED <<pc, own>>
  /\ overlap' = (overlap \/ (Fence /\ \E q \in Upgraders \ {p} : pc[q] # "idle"))
  /\ UNCHANGED <<released, bin, lib, marker, picked, held>>

\* The newest release of the channel by version; none newer than the running one ends it.
Newest(pre) ==
  LET seen == {v \in DOMAIN released : pre \/ v \notin Prereleases}
  IN {v \in seen : \A w \in seen : w <= v}
UpToDateSame(p, v) == v = own[p]  \* mutant: only the running version itself is up to date
UpToDate(p, v) == v <= own[p]
Pick(p) ==
  /\ pc[p] = "list"
  /\ \E pre \in BOOLEAN : \E v \in Newest(pre) :
       IF UpToDate(p, v) THEN Ends(p)
       ELSE /\ picked' = [picked EXCEPT ![p] = v] /\ Goto(p, "download")
            /\ UNCHANGED <<own, held>>
  /\ UNCHANGED <<released, bin, lib, marker, fenced, overlap>>
\* The archive and its signature; a release without either ends in `Fails`.
Download(p) ==
  /\ pc[p] = "download"
  /\ held' = [held EXCEPT ![p] = released[picked[p]]] /\ Goto(p, "verify")
  /\ UNCHANGED <<released, bin, lib, marker, own, picked, fenced, overlap>>

\* A trusted key verifies the archive, and the signed comment names the file asked for.
VerifiedAnyName(a, v) == a.sig # Tampered /\ a.sig = a.archive  \* mutant: any signed archive
Verified(a, v) == a.sig # Tampered /\ a.sig = a.archive /\ a.sig = v
Verify(p) ==
  /\ pc[p] = "verify"
  /\ IF Verified(held[p], picked[p]) THEN Goto(p, "prompt") /\ UNCHANGED <<own, picked, held>>
     ELSE Ends(p)
  /\ UNCHANGED <<released, bin, lib, marker, fenced, overlap>>

Confirm(p) ==
  /\ pc[p] = "prompt" /\ Goto(p, "replace")
  /\ UNCHANGED <<released, bin, lib, marker, own, picked, held, fenced, overlap>>

\* The binary is replaced first; a library that cannot be replaced is passed over.
ReplaceBinary(p) ==
  /\ pc[p] = "replace"
  /\ bin' = held[p].archive /\ Goto(p, "library")
  /\ UNCHANGED <<released, lib, marker, own, picked, held, fenced, overlap>>
ReplaceLibrary(p) ==
  /\ pc[p] = "library"
  /\ lib' \in {lib, held[p].archive} /\ Ends(p)
  /\ UNCHANGED <<released, bin, marker, fenced, overlap>>

\* A request that fails, an asset that is missing, "N" at the prompt, or a kill.
Fails(p) ==
  /\ pc[p] # "idle" /\ Ends(p)
  /\ UNCHANGED <<released, bin, lib, marker, fenced, overlap>>

Next ==
  \/ \E v \in Versions, a \in Assets : Publish(v, a)
  \/ Manage
  \/ \E p \in Upgraders :
       \/ Begin(p) \/ Pick(p) \/ Download(p) \/ Verify(p) \/ Confirm(p)
       \/ ReplaceBinary(p) \/ ReplaceLibrary(p) \/ Fails(p)

Spec == Init /\ [][Next]_vars

-----------------------------------------------------------------------------
\* Types of the install and of each upgrade (upgrade.rs run).
TypeOK ==
  /\ {bin, lib} \subseteq Versions /\ DOMAIN released \subseteq Versions
  /\ held \in [Upgraders -> Assets] /\ fenced \subseteq Upgraders

\* "dmem {current} -> {latest}" is true: the binary put in place is the release's own build,
\* not one that was signed for another version, however the release's assets were mixed up.
SaysWhatItInstalls ==
  [][\A p \in Upgraders : ReplaceBinary(p) => bin' = picked[p]]_vars

\* An upgrade that began on a managed install changes nothing, also when the installer lets go
\* of the install while the upgrade runs.
FencedChangesNothing ==
  [][(bin' # bin \/ lib' # lib) => \E p \in Upgraders \ fenced : pc[p] # pc'[p]]_vars

\* Upgrades that do not overlap never take an install back to an older version, whatever
\* channel they follow (a second one started at the other's prompt may).
NeverDowngrades == [][~overlap => bin' >= bin]_vars

\* An upgrade puts in place what it announced, nothing on a managed install, and without an
\* overlap never an older release.
InstallsWhatItSaid ==
  []TypeOK /\ SaysWhatItInstalls /\ FencedChangesNothing /\ NeverDowngrades
=============================================================================
