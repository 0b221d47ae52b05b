----------------------------- MODULE MCRemote ------------------------------
(***************************************************************************)
(* What the agent brings to a host, for model checking: the sources of        *)
(* sys/remote, the repositories of sys/repo and the packages of pkg.  A        *)
(* behaviour is one of the eight modules below: they share no state, so that  *)
(* one run checks them all, and its states are the sum of theirs.           *)
(***************************************************************************)
EXTENDS RemoteGit, Repositories, Packages, TLC

CONSTANTS
    Callers, MaxVersion, Keys, MaxPuts, MaxFaults,
    Cap, IntMax, StreamMax, Paths, MaxEntries,
    Apps, MaxHoldCalls, MaxStirs,
    Parcels, Patched, MaxUpCalls, MaxNudges

VARIABLES
    part,
    cfg, upstream, dest, revision, recorded, pc, cached, body, etag, overlapped,
    sync, bucket, puts, tree, token, known, step, listing, todo, wiped, faults,
    format, exAt, total, read, staged, entries,
    mgr, plugin, holds, present, hdCall, hdResult, hdCalls, stirs,
    kind, unattended, ver, manual, needed, upCall, upResult, upCalls, nudges

(* The second commit takes over a path that was free in the first; the      *)
(* third path is never tracked.                                            *)
TwoTrees == 1 :> {1} @@ 2 :> {1, 2}
(* The URL that is a substring of another.                                 *)
OneWithin == {<<"u", "ux">>}

Fetch == INSTANCE RemoteFetch
Prefix == INSTANCE RemotePrefix
Archive == INSTANCE ArchiveExtract
Hd == INSTANCE PackageHolds
Up == INSTANCE PackageUpkeep

fetchVars == <<cfg, upstream, dest, revision, recorded, pc, cached, body, etag, overlapped>>
prefixVars == <<sync, bucket, puts, tree, token, known, step, listing, todo, wiped, faults>>
archiveVars == <<format, exAt, total, read, staged, entries>>
hdVars == <<mgr, plugin, holds, present, hdCall, hdResult, hdCalls, stirs>>
upVars == <<kind, unattended, ver, manual, needed, upCall, upResult, upCalls, nudges>>
sourceVars == <<fetchVars, prefixVars, gitVars, archiveVars>>
packageVars == <<repoVars, pkVars, hdVars, upVars>>
remoteVars == <<part, sourceVars, packageVars>>

(* Those that are not running stay in one initial state.                 *)
RemoteInit ==
    /\ part \in {"fetch", "prefix", "git", "archive", "repos", "packages", "holds", "upkeep"}
    /\ Fetch!Init
    /\ part # "fetch" =>
          /\ cfg = [kind |-> "file", pin |-> 0, prune |-> "no", tagged |-> "yes",
                     managed |-> "yes"]
          /\ dest = Fetch!Absent
    /\ Prefix!PrefixInit
    /\ part # "prefix" => sync = [prune |-> "no", managed |-> "no"]
    /\ GitInit
    /\ part # "git" => clean = "no" /\ origin = NoCommit /\ work = Nothing
    /\ Archive!ArInit  /\ (part # "archive" => format = "zip")
    /\ RepoInit        /\ (part # "repos" => backend = "apt")
    /\ PkInit          /\ (part # "packages" => pm = "apt" /\ runner = "root" /\ installed = 0)
    /\ Hd!HdInit       /\ (part # "holds" => mgr = "apt" /\ holds = {} /\ present = {})
    /\ Up!UpInit       /\ (part # "upkeep" => kind = "dnf" /\ \A p \in Parcels : ver[p] = 0)

InFetch(A) == part = "fetch" /\ A
    /\ UNCHANGED <<part, prefixVars, gitVars, archiveVars, packageVars>>
InPrefix(A) == part = "prefix" /\ A
    /\ UNCHANGED <<part, fetchVars, gitVars, archiveVars, packageVars>>
InGit(A) == part = "git" /\ A
    /\ UNCHANGED <<part, fetchVars, prefixVars, archiveVars, packageVars>>
InArchive(A) == part = "archive" /\ A
    /\ UNCHANGED <<part, fetchVars, prefixVars, gitVars, packageVars>>
InRepo(A) == part = "repos" /\ A /\ UNCHANGED <<part, sourceVars, pkVars, hdVars, upVars>>
InPk(A) == part = "packages" /\ A /\ UNCHANGED <<part, sourceVars, repoVars, hdVars, upVars>>
InHd(A) == part = "holds" /\ A /\ UNCHANGED <<part, sourceVars, repoVars, pkVars, upVars>>
InUp(A) == part = "upkeep" /\ A /\ UNCHANGED <<part, sourceVars, repoVars, pkVars, hdVars>>

(* No call is under way and there will be none: the bounds are used up.      *)
Rests ==
    /\ \/ part = "repos" /\ repoCall = RepoIdle /\ repoCalls = MaxRepoCalls
       \/ part = "packages" /\ pkCall = PkIdle /\ pkCalls = MaxPkCalls
       \/ part = "holds" /\ hdCall = Hd!HdIdle /\ hdCalls = MaxHoldCalls
       \/ part = "upkeep" /\ upCall = Up!UpIdle /\ upCalls = MaxUpCalls
    /\ UNCHANGED remoteVars

RemoteNext ==
    \/ InFetch(Fetch!Next) \/ InPrefix(Prefix!PrefixNext) \/ InGit(GitNext)
    \/ InArchive(Archive!ArNext)
    \/ InRepo(RepoNext) \/ InPk(PkNext) \/ InHd(Hd!HdNext) \/ InUp(Up!UpNext)
    \/ Rests

(* RemotePrefix!Fairness, where it is the one that runs.                   *)
RemoteSpec ==
    /\ RemoteInit /\ [][RemoteNext]_remoteVars
    /\ WF_remoteVars(InPrefix(Prefix!PrefixStarts)) /\ WF_remoteVars(InPrefix(Prefix!PrefixCall))

-----------------------------------------------------------------------------
(* The variables keep their types; of a pinned file nothing but the pinned  *)
(* version is ever at the destination ("a ... poisoned payload never        *)
(* reaches dest", http.go); the drift token of a Source never runs ahead of *)
(* what is at the destination, so that Changed=false covers up nothing old, *)
(* neither a payload nor an object of a prefix; a call that fails leaves no *)
(* repository without the ref asked for ("doesn't leave a half-configured   *)
(* repo behind"), and between calls the working tree is the one of HEAD; no *)
(* source that apt rejected is left behind as applied.                     *)
SourcesConsistent ==
    /\ part = "fetch" => Fetch!TypeOK /\ Fetch!PinnedFileOnly /\ Fetch!TokenNotAhead
    /\ part = "prefix" => Prefix!PrefixTypeOK /\ Prefix!TreeNotBehind
    /\ part = "git" => GitTypeOK /\ NoHalfClone /\ TreeMatchesHead
    /\ part = "repos" => RepoTypeOK /\ RejectedNeverStands
    /\ part = "packages" => PkTypeOK
    /\ part = "holds" => Hd!HdTypeOK
    /\ part = "upkeep" => Up!UpTypeOK

(* What is extracted stays within MaxBytes, whatever the entries declare.   *)
ExtractedWithinCap == part = "archive" =>
    Archive!ArTypeOK /\ Archive!ExtractedWithinCap

(* What a step may not remove: Wipe, outside the managed roots, what no     *)
(* Fetch of this process has reached; the pruning of a prefix, a listed     *)
(* object, or anything before every listed one is in place.                *)
RemovesOnlyItsOwn == Fetch!WipeOnlyFetched /\ Prefix!PruneLast

(* Once the bucket rests, its objects reach the tree.                      *)
EventuallyHeld == Prefix!EventuallyHeld

(* pkg: no downgrade that was not allowed, no success after a cancellation;   *)
(* a Pin or Unpin that reports success has held or released every package it    *)
(* names, and List, IsPinned and ListPinned say what the host says of the     *)
(* packages nobody touches meanwhile; Autoremove, UpgradeAll and InstallLocal  *)
(* spare what they are not asked to change and do what they report.         *)
PackageCallsHonest ==
    /\ DowngradesOnlyIfAllowed /\ CancelledNotSuccess
    /\ Hd!PinsStand /\ Hd!AnswersTrue
    /\ Up!UpkeepSpares /\ Up!UpkeepDone
=============================================================================
