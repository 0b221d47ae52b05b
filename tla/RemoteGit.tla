----------------------------- MODULE RemoteGit -----------------------------
(***************************************************************************)
(* gitSource.Fetch of sys/remote and the go-git backend's CloneOrSync: a    *)
(* working tree is cloned, or brought to what the ref names upstream, with  *)
(* the local additions put aside during the checkout and written back.      *)
(* Calls on one destination are serialised by the caller.  A commit is a    *)
(* number; a path holds the content a commit gave it, or a local one.      *)
(***************************************************************************)
EXTENDS Integers

CONSTANTS
    Files,      \* paths of the working tree
    Commits,    \* commits the ref may name: a set of numbers above 0
    Tracked,    \* Tracked[c]: the paths of the tree of commit c
    MaxMishaps   \* bound: failures and deaths of the process

NoCommit == 0
Local == -1

VARIABLES
    clean,      \* GitConfig.Prune
    origin,     \* the commit the ref names upstream, or None
    dotgit,     \* the destination has a repository
    ref,        \* the commit the repository has for the ref, or None
    head,       \* HEAD of the repository, or None
    work,       \* the content of each path, or None
    rev,        \* g.revision, or None
    gitstep,    \* where the call is
    fresh,      \* this call has cloned
    target,     \* the commit it checks out
    snapshot,   \* the untracked paths it has put aside
    additions,  \* local additions since the clone that no commit has claimed
    torn,       \* a checkout, or the writing back after it, was cut short
    mishaps      \* failures and deaths so far

gitVars == <<clean, origin, dotgit, ref, head, work, rev, gitstep, fresh, target,
          snapshot, additions, torn, mishaps>>
cloneVars == <<dotgit, ref, head>>
gitCallVars == <<fresh, target, snapshot>>

Nothing == [f \in Files |-> NoCommit]
TrackedAt(c) == IF c = NoCommit THEN {} ELSE Tracked[c]
Untracked == {f \in Files : work[f] = Local /\ f \notin TrackedAt(head)}

GitInit ==
    /\ clean \in {"no", "yes"}
    /\ origin \in Commits \cup {NoCommit}
    /\ dotgit = "no" /\ ref = NoCommit /\ head = NoCommit
    /\ work \in [Files -> {NoCommit, Local}]
    /\ rev = NoCommit
    /\ gitstep = "idle"
    /\ fresh = "no" /\ target = NoCommit /\ snapshot = {}
    /\ additions = {}
    /\ torn = "no"
    /\ mishaps = 0

GitFault ==
    /\ mishaps < MaxMishaps
    /\ mishaps' = mishaps + 1

(* The call returns; what it held in memory is gone.                       *)
GitReturns ==
    /\ gitstep' = "idle"
    /\ fresh' = "no" /\ target' = NoCommit /\ snapshot' = {}

RemoveDest ==
    /\ dotgit' = "no" /\ ref' = NoCommit /\ head' = NoCommit
    /\ work' = Nothing
    /\ additions' = {}
    /\ torn' = "no"

-----------------------------------------------------------------------------
(* Upstream, and whoever works in the tree.                                *)

Push(c) ==
    /\ origin' = c /\ origin' # origin
    /\ UNCHANGED <<clean, cloneVars, work, rev, gitstep, gitCallVars, additions, torn, mishaps>>

(* A file is added to the tree, not between the snapshot and the checkout.  *)
AddLocal(f) ==
    /\ gitstep \in {"idle", "resolve", "open", "fetch", "target"}
    /\ work[f] = NoCommit
    /\ f \notin TrackedAt(head)
    /\ work' = [work EXCEPT ![f] = Local]
    /\ additions' = IF dotgit = "yes" /\ fresh = "no" THEN additions \cup {f} ELSE additions
    /\ UNCHANGED <<clean, origin, cloneVars, rev, gitstep, gitCallVars, torn, mishaps>>

-----------------------------------------------------------------------------
(* gitSource.Fetch, up to CloneOrSync.                                     *)

GitStarts ==
    /\ gitstep = "idle"
    /\ gitstep' = IF rev = NoCommit THEN "open" ELSE "resolve"
    /\ UNCHANGED <<clean, origin, cloneVars, work, rev, gitCallVars, additions, torn, mishaps>>

(* Upstream still names the cached revision: Changed=false.                *)
ResolveSame ==
    /\ gitstep = "resolve"
    /\ origin = rev
    /\ GitReturns
    /\ UNCHANGED <<clean, origin, cloneVars, work, rev, additions, torn, mishaps>>

(* It names another, or it could not be asked: the error is not returned.   *)
ResolveOther ==
    /\ gitstep = "resolve"
    /\ origin # rev \/ mishaps < MaxMishaps
    /\ gitstep' = "open"
    /\ UNCHANGED <<clean, origin, cloneVars, work, rev, gitCallVars, additions, torn, mishaps>>

-----------------------------------------------------------------------------
(* CloneOrSync.                                                            *)

OpenExisting ==
    /\ gitstep = "open"
    /\ dotgit = "yes"
    /\ gitstep' = "fetch"
    /\ UNCHANGED <<clean, origin, cloneVars, work, rev, gitCallVars, additions, torn, mishaps>>

(* PlainClone checks out the default branch, whatever commit that is at,    *)
(* over what the directory holds.                                          *)
Clone ==
    /\ gitstep = "open"
    /\ dotgit = "no"
    /\ dotgit' = "yes"
    /\ ref' = origin
    /\ head' \in Commits
    /\ work' = [f \in Files |-> IF f \in Tracked[head'] THEN head' ELSE work[f]]
    /\ fresh' = "yes"
    /\ gitstep' = "target"
    /\ UNCHANGED <<clean, origin, rev, target, snapshot, additions, torn, mishaps>>

(* The clone fails: nothing partial is left behind.                        *)
CloneFails ==
    /\ GitFault
    /\ gitstep = "open"
    /\ dotgit = "no"
    /\ RemoveDest
    /\ GitReturns
    /\ UNCHANGED <<clean, origin, rev>>

(* Refs are updated, never dropped.                                        *)
FetchRefs ==
    /\ gitstep = "fetch"
    /\ ref' = IF origin = NoCommit THEN ref ELSE origin
    /\ gitstep' = "target"
    /\ UNCHANGED <<clean, origin, dotgit, head, work, rev, gitCallVars, additions, torn, mishaps>>

(* Mutant of UnknownRef: the clone is kept.                                *)
UnknownRefKept ==
    /\ gitstep = "target"
    /\ ref = NoCommit
    /\ GitReturns
    /\ UNCHANGED <<clean, origin, cloneVars, work, rev, additions, torn, mishaps>>

(* The ref is not found: a fresh clone is removed.                         *)
UnknownRef ==
    /\ gitstep = "target"
    /\ ref = NoCommit
    /\ IF fresh = "yes" THEN RemoveDest ELSE UNCHANGED <<cloneVars, work, additions, torn>>
    /\ GitReturns
    /\ UNCHANGED <<clean, origin, rev, mishaps>>

(* Clean removes the untracked files.                                      *)
Cleaned == [f \in Files |-> IF f \in Untracked THEN NoCommit ELSE work[f]]

(* HEAD is at the target already: no checkout, only the optional Clean.     *)
AtTarget ==
    /\ gitstep = "target"
    /\ ref # NoCommit /\ ref = head /\ fresh = "no"
    /\ work' = IF clean = "yes" THEN Cleaned ELSE work
    /\ target' = ref
    /\ gitstep' = "mode"
    /\ UNCHANGED <<clean, origin, cloneVars, rev, fresh, snapshot, additions, torn, mishaps>>

(* Mutant of ToPutAside: nothing is.                                       *)
ToPutAsideNothing == {}

ToPutAside == IF "yes" \in {fresh, clean} THEN {} ELSE Untracked

SnapshotUntracked ==
    /\ gitstep = "target"
    /\ ref # NoCommit /\ (ref # head \/ fresh = "yes")
    /\ target' = ref
    /\ snapshot' = ToPutAside
    /\ gitstep' = "checkout"
    /\ UNCHANGED <<clean, origin, cloneVars, work, rev, fresh, additions, torn, mishaps>>

(* What is left of the additions when a checkout is cut short.             *)
Surviving == {f \in additions : work'[f] = Local /\ f \notin TrackedAt(head')}

CheckedOut == [f \in Files |-> IF f \in Tracked[target] THEN target ELSE NoCommit]

(* Mutant of Checkout: HEAD is left where it was.                          *)
CheckoutKeepsHead ==
    /\ gitstep = "checkout"
    /\ work' = CheckedOut
    /\ additions' = additions \ Tracked[target]
    /\ gitstep' = "restore"
    /\ torn' = "no"
    /\ UNCHANGED <<clean, origin, cloneVars, rev, gitCallVars, mishaps>>

(* Checkout with Force: files that are not of the target tree go.          *)
Checkout ==
    /\ gitstep = "checkout"
    /\ head' = target
    /\ work' = CheckedOut
    /\ additions' = additions \ Tracked[target]
    /\ gitstep' = "restore"
    /\ torn' = "no"
    /\ UNCHANGED <<clean, origin, dotgit, ref, rev, gitCallVars, mishaps>>

(* It fails on its way: a fresh clone is removed, another is left torn.     *)
CheckoutFails ==
    /\ GitFault
    /\ gitstep = "checkout"
    /\ \/ fresh = "yes" /\ RemoveDest
       \/ /\ fresh = "no"
          /\ head' \in {head, target}
          /\ \E done \in SUBSET Files :
                work' = [f \in Files |-> IF f \in done THEN CheckedOut[f] ELSE work[f]]
          /\ torn' = "yes"
          /\ additions' = Surviving
          /\ UNCHANGED <<dotgit, ref>>
    /\ GitReturns
    /\ UNCHANGED <<clean, origin, rev>>

(* The files put aside are written back, over what the commit has there.    *)
RestoreUntracked ==
    /\ gitstep = "restore"
    /\ work' = [f \in Files |-> IF f \in snapshot THEN Local ELSE work[f]]
    /\ gitstep' = "clean"
    /\ UNCHANGED <<clean, origin, cloneVars, rev, gitCallVars, additions, torn, mishaps>>

RestoreFails ==
    /\ GitFault
    /\ gitstep = "restore"
    /\ \E back \in SUBSET snapshot :
          work' = [f \in Files |-> IF f \in back THEN Local ELSE work[f]]
    /\ torn' = "yes"
    /\ GitReturns
    /\ UNCHANGED <<clean, origin, cloneVars, rev>>
    /\ additions' = Surviving

CleanWorktree ==
    /\ gitstep = "clean"
    /\ work' = IF clean = "yes" THEN Cleaned ELSE work
    /\ gitstep' = "mode"
    /\ UNCHANGED <<clean, origin, cloneVars, rev, gitCallVars, additions, torn, mishaps>>

(* applyMode, the revision and RecordDest.                                 *)
GitDone ==
    /\ gitstep = "mode"
    /\ rev' = target
    /\ GitReturns
    /\ UNCHANGED <<clean, origin, cloneVars, work, additions, torn, mishaps>>

(* The fetch of the refs, the Clean or the mode fails.                     *)
GitFails ==
    /\ GitFault
    /\ gitstep \in {"fetch", "clean", "mode"}
    /\ GitReturns
    /\ UNCHANGED <<clean, origin, cloneVars, work, rev, additions, torn>>

-----------------------------------------------------------------------------
(* Wipe, of a destination in a managed root.                               *)
GitWipe ==
    /\ gitstep = "idle"
    /\ RemoveDest
    /\ UNCHANGED <<clean, origin, rev, gitstep, gitCallVars, mishaps>>

(* The process dies; a clone, a checkout and the writing back after it are  *)
(* cut short.                                                              *)
GitCrash ==
    /\ GitFault
    /\ LET cloning == gitstep = "open" /\ dotgit = "no" IN
       /\ dotgit' \in {dotgit} \cup IF cloning THEN {"yes"} ELSE {}
       /\ torn' = IF fresh = "yes" \/ cloning \/ gitstep \in {"checkout", "restore"}
                  THEN "yes" ELSE torn
    /\ rev' = NoCommit
    /\ GitReturns
    /\ UNCHANGED <<clean, origin, ref, head, work>>
    /\ additions' = Surviving

GitCall ==
    \/ ResolveSame \/ ResolveOther \/ OpenExisting \/ Clone \/ CloneFails
    \/ FetchRefs \/ UnknownRef \/ AtTarget \/ SnapshotUntracked
    \/ Checkout \/ CheckoutFails \/ RestoreUntracked \/ RestoreFails
    \/ CleanWorktree \/ GitDone \/ GitFails

GitNext ==
    \/ \E c \in Commits \cup {NoCommit} : Push(c)
    \/ \E f \in Files : AddLocal(f)
    \/ GitStarts \/ GitCall \/ GitWipe \/ GitCrash

GitSpec == GitInit /\ [][GitNext]_gitVars

-----------------------------------------------------------------------------
(* The variables keep their types.                                         *)
GitTypeOK ==
    /\ {clean, dotgit, fresh, torn} \subseteq {"no", "yes"}
    /\ {origin, ref, head, rev, target} \subseteq Commits \cup {NoCommit}
    /\ work \in [Files -> Commits \cup {NoCommit, Local}]
    /\ gitstep \in {"idle", "resolve", "open", "fetch", "target", "checkout", "restore",
                    "clean", "mode"}
    /\ snapshot \in SUBSET Files /\ additions \in SUBSET Files
    /\ mishaps \in 0..MaxMishaps

(* Between calls the working tree is the one of HEAD: each of its paths     *)
(* holds what HEAD gave it or a local content, no other path holds the      *)
(* content of a commit.  Only a checkout that was cut short breaks it.     *)
TreeMatchesHead ==
    gitstep = "idle" /\ torn = "no" =>
        \A f \in Files : work[f] \in IF f \in TrackedAt(head) THEN {head, Local} ELSE {NoCommit, Local}

(* "additive sync, preserve local additions": without Prune, a file added   *)
(* to the clone is there, with its content, after every sync that ends.    *)
SyncKeepsAdditions ==
    gitstep = "idle" /\ torn = "no" /\ clean = "no" => \A f \in additions : work[f] = Local

(* "doesn't leave a half-configured repo behind": between calls a           *)
(* repository has the ref that was asked for, unless the process died.     *)
NoHalfClone ==
    gitstep = "idle" /\ dotgit = "yes" /\ torn = "no" => ref # NoCommit

(* The same contract on the first sync: without Prune, the checkout removes *)
(* no file that has not been put aside.  It does not hold: a clone into a   *)
(* directory that has files puts none aside.                               *)
CloneKeepsFiles ==
    [][clean = "no" /\ gitstep = "checkout" /\ gitstep' = "restore" =>
          \A f \in Files : work[f] = Local =>
              work'[f] = Local \/ f \in snapshot \cup Tracked[target]]_gitVars
=============================================================================
