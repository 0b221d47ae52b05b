----------------------------- MODULE RemoveTree ----------------------------
(***************************************************************************)
(* RemoveDir of the root agent (sys/fs): the removal of a directory tree    *)
(* through directory handles, while other processes rename its directories, *)
(* put symbolic links in their place and delete files.  Directories are     *)
(* named by what they are, not by where they are: a handle stays on its     *)
(* directory when that is moved.  /x is "a", /x/x the tree to remove, "t",  *)
(* with the directory "s" in it; /y is "o", which every link points to.     *)
(***************************************************************************)
EXTENDS Naturals, Sequences

CONSTANTS
    MaxRemovals,    \* bound: calls of RemoveDir
    MaxMoves        \* bound: steps of other processes

Dirs == {"root", "a", "t", "s", "o"}
EntryNames == {"x", "y"}
Entries == Dirs \cup {"file", "link", "none"}
Path == <<"x">>     \* of the parent of the tree to remove
Leaf == "x"

VARIABLES
    entry,      \* entry[d][n]: what the directory d holds under the name n
    rmAt,       \* where RemoveDir is
    rmFd,       \* the directory its handle is on while it walks to the parent
    walked,     \* components of Path walked
    frames,     \* the calls of removeAtRecursive that are open, innermost last
    cancelled,  \* its context
    removals, moves

treeVars == <<entry, rmAt, rmFd, walked, frames, cancelled, removals, moves>>

IsDir(e) == e \in Dirs
Holding(x, y) == [n \in EntryNames |-> IF n = "x" THEN x ELSE y]
Outside == Holding("file", "none")

TreeInit ==
    /\ entry = [d \in Dirs |-> CASE d = "root" -> Holding("a", "o")
                                 [] d = "a"    -> Holding("t", "none")
                                 [] d = "t"    -> Holding("s", "file")
                                 [] d = "s"    -> Holding("none", "none")
                                 [] d = "o"    -> Outside]
    /\ rmAt = "idle" /\ rmFd = "root" /\ walked = 0 /\ frames = <<>>
    /\ cancelled = "no"
    /\ removals = 0 /\ moves = 0

-----------------------------------------------------------------------------
Top == frames[Len(frames)]
Under(f) == entry[f.dir][f.name]
WithTop(f) == [frames EXCEPT ![Len(frames)] = f]
Frame(d, n) == [dir |-> d, name |-> n, at |-> "stat", fd |-> d, kids |-> {}]

RmReturns ==
    /\ rmAt' = "idle" /\ rmFd' = "root" /\ walked' = 0 /\ frames' = <<>>
    /\ UNCHANGED <<entry, cancelled, removals, moves>>

(* The path passed ValidatePath and IsUnderProtectedPrefix, and the backend *)
(* is direct.                                                              *)
RemoveDir ==
    /\ rmAt = "idle" /\ removals < MaxRemovals
    /\ removals' = removals + 1
    /\ rmAt' = "chain" /\ cancelled' = "no"
    /\ UNCHANGED <<entry, rmFd, walked, frames, moves>>

Cancel ==
    /\ rmAt # "idle" /\ cancelled = "no"
    /\ cancelled' = "yes"
    /\ UNCHANGED <<entry, rmAt, rmFd, walked, frames, removals, moves>>

(* A link under the name fails the open, as does any system call for       *)
(* reasons of its own (Aborts).                                            *)
openNoFollowChain ==
    /\ rmAt = "chain" /\ walked < Len(Path)
    /\ LET e == entry[rmFd][Path[walked + 1]] IN
          \/ /\ IsDir(e)
             /\ rmFd' = e /\ walked' = walked + 1
             /\ UNCHANGED <<entry, rmAt, frames, cancelled, removals, moves>>
          \/ ~IsDir(e) /\ RmReturns

removeDirSecure ==
    /\ rmAt = "chain" /\ walked = Len(Path)
    /\ \/ /\ IsDir(entry[rmFd][Leaf])
          /\ rmAt' = "remove" /\ frames' = <<Frame(rmFd, Leaf)>>
          /\ UNCHANGED <<entry, rmFd, walked, cancelled, removals, moves>>
       \/ ~IsDir(entry[rmFd][Leaf]) /\ RmReturns

InFrame(at) == rmAt = "remove" /\ Top.at = at

Goes(f) ==
    /\ frames' = WithTop(f)
    /\ UNCHANGED <<entry, rmAt, rmFd, walked, cancelled, removals, moves>>

(* The innermost call returns nil; the outermost one ends the removal.     *)
Pops(newEntry) ==
    /\ entry' = newEntry
    /\ IF Len(frames) = 1
       THEN rmAt' = "idle" /\ rmFd' = "root" /\ walked' = 0 /\ frames' = <<>>
       ELSE frames' = SubSeq(frames, 1, Len(frames) - 1) /\ UNCHANGED <<rmAt, rmFd, walked>>
    /\ UNCHANGED <<cancelled, removals, moves>>

Unlinked(f) == [entry EXCEPT ![f.dir][f.name] = "none"]

Stats ==
    /\ InFrame("stat")
    /\ \/ (cancelled = "yes" \/ Under(Top) = "none") /\ RmReturns
       \/ /\ cancelled = "no" /\ Under(Top) # "none"
          /\ Goes([Top EXCEPT !.at = IF IsDir(Under(Top)) THEN "open" ELSE "unlink"])

(* unlinkat without AT_REMOVEDIR removes no directory.                     *)
Unlinks ==
    /\ InFrame("unlink")
    /\ \/ Under(Top) \in {"file", "link"} /\ Pops(Unlinked(Top))
       \/ Under(Top) \notin {"file", "link"} /\ RmReturns

(* Mutant of Opens: without O_NOFOLLOW.                                    *)
OpensFollowing ==
    /\ InFrame("open")
    /\ LET e == IF Under(Top) = "link" THEN "o" ELSE Under(Top) IN
          \/ IsDir(e) /\ Goes([Top EXCEPT !.at = "read", !.fd = e])
          \/ ~IsDir(e) /\ RmReturns

Opens ==
    /\ InFrame("open")
    /\ \/ IsDir(Under(Top)) /\ Goes([Top EXCEPT !.at = "read", !.fd = Under(Top)])
       \/ ~IsDir(Under(Top)) /\ RmReturns

Reads ==
    /\ InFrame("read")
    /\ Goes([Top EXCEPT !.at = "kids", !.kids = {n \in EntryNames : entry[Top.fd][n] # "none"}])

Recurses ==
    /\ InFrame("kids")
    /\ \E n \in Top.kids :
          frames' = Append(WithTop([Top EXCEPT !.kids = @ \ {n}]), Frame(Top.fd, n))
    /\ UNCHANGED <<entry, rmAt, rmFd, walked, cancelled, removals, moves>>

(* The handle is closed; rmdir takes the entry by name, and wants an empty  *)
(* directory there.                                                        *)
Rmdirs ==
    /\ InFrame("kids") /\ Top.kids = {}
    /\ LET e == Under(Top) IN
          \/ IsDir(e) /\ entry[e] = Holding("none", "none") /\ Pops(Unlinked(Top))
          \/ ~(IsDir(e) /\ entry[e] = Holding("none", "none")) /\ RmReturns

(* A system call fails, or the agent is killed.                            *)
Aborts == rmAt # "idle" /\ RmReturns

-----------------------------------------------------------------------------
(* e is d or below it: it is in every set of directories that holds d and    *)
(* the directories in each of its members.                                  *)
Reaches(d, e) ==
    \A S \in SUBSET Dirs :
        d \in S /\ (\A f \in S, n \in EntryNames : IsDir(entry[f][n]) => entry[f][n] \in S) => e \in S

(* Other processes, which leave /y and what is in it alone.                *)
Other ==
    /\ moves < MaxMoves /\ moves' = moves + 1
    /\ UNCHANGED <<rmAt, rmFd, walked, frames, cancelled, removals>>

Places == {p \in (Dirs \ {"o"}) \X EntryNames : entry[p[1]][p[2]] # "o"}

Move ==
    /\ Other
    /\ \E p, q \in Places :
          LET e == entry[p[1]][p[2]] IN
          /\ e # "none" /\ entry[q[1]][q[2]] = "none"
          /\ IsDir(e) => ~Reaches(e, q[1])
          /\ entry' = [entry EXCEPT ![p[1]][p[2]] = "none", ![q[1]][q[2]] = e]

Put ==
    /\ Other
    /\ \E p \in Places, e \in {"file", "link"} :
          entry[p[1]][p[2]] = "none" /\ entry' = [entry EXCEPT ![p[1]][p[2]] = e]

Drop ==
    /\ Other
    /\ \E p \in Places :
          entry[p[1]][p[2]] \in {"file", "link"} /\ entry' = [entry EXCEPT ![p[1]][p[2]] = "none"]

TreeNext ==
    \/ RemoveDir \/ Cancel \/ openNoFollowChain \/ removeDirSecure
    \/ Stats \/ Unlinks \/ Opens \/ Reads \/ Recurses \/ Rmdirs \/ Aborts
    \/ Move \/ Put \/ Drop

TreeSpec == TreeInit /\ [][TreeNext]_treeVars

-----------------------------------------------------------------------------
TreeTypeOK ==
    /\ entry \in [Dirs -> [EntryNames -> Entries]]
    /\ rmAt \in {"idle", "chain", "remove"} /\ rmFd \in Dirs /\ walked \in 0..Len(Path)
    /\ \A i \in 1..Len(frames) :
          frames[i] \in [dir : Dirs, name : EntryNames, at : {"stat", "unlink", "open", "read", "kids"},
                         fd : Dirs, kids : SUBSET EntryNames]
    /\ (rmAt = "remove") <=> (frames # <<>>)
    /\ cancelled \in {"no", "yes"} /\ removals \in 0..MaxRemovals /\ moves \in 0..MaxMoves

(* RemoveDir "removes a directory and its contents WITHOUT following any    *)
(* symlink (intermediate component, leaf, or descendant)" (fs/dir.go):      *)
(* whatever links others put where and whenever they swap them in, what     *)
(* the links point to keeps its entries.                                   *)
OutsideKept == entry["o"] = Outside
=============================================================================
