---------------------------- MODULE PacmanConf -----------------------------
(***************************************************************************)
(* /etc/pacman.conf, which two packages edit by reading it and writing it      *)
(* back: Pin and Unpin (pkg) with cat and tee, Apply and Remove of a           *)
(* repository (sys/repo) with ReadFile and an atomic WriteFile.  Nothing      *)
(* orders the two; tee empties the file before it fills it.                 *)
(***************************************************************************)
EXTENDS Naturals, Sequences, SequencesExt

CONSTANTS
    ConfCallers,    \* concurrent calls
    Pkgs,           \* packages that are pinned and unpinned
    Sections,       \* repositories
    Servers,        \* their servers
    MaxConfCalls    \* bound: calls

VARIABLES
    conf,       \* the file: has it [options], the packages of each IgnorePkg line,
                \* and the repositories' sections in order
    confCall,   \* what each caller is doing, and the file as it read it
    asked,      \* what the calls that returned success ask the file to say
    mixed,      \* "yes": a call went by a file that another has written since it read
                \* it, or that a tee had emptied; or a tee was killed part way
    confCalls

confVars == <<conf, confCall, asked, mixed, confCalls>>

Empty == [options |-> "no", ignore |-> <<>>, repos |-> <<>>]
ConfIdle == [op |-> "none", at |-> "idle", arg |-> "none", to |-> "none", read |-> Empty]

(* getIgnoredPackages: of every IgnorePkg line.                             *)
getIgnoredPackages(c) == UNION ToSet(c.ignore)

(* buildIgnorePkgConf: one line for all, in place of the first or after       *)
(* [options]; without [options] there is nowhere to put a first one.          *)
buildFirstOnly(c, pins) ==
    [c EXCEPT !.ignore =
       IF @ # <<>> THEN <<pins>> \o Tail(@)
       ELSE IF pins # {} /\ c.options = "yes" THEN <<pins>> ELSE <<>>]
buildIgnorePkgConf(c, pins) ==
    [c EXCEPT !.ignore =
       IF pins # {} /\ (@ # <<>> \/ c.options = "yes") THEN <<pins>> ELSE <<>>]

(* removePacmanSection, and applyPacman's section appended at the end.       *)
removePacmanSection(c, n) ==
    [c EXCEPT !.repos = SelectSeq(@, LAMBDA s : s.name # n)]
withSection(c, n, u) ==
    [removePacmanSection(c, n) EXCEPT !.repos = Append(@, [name |-> n, server |-> u])]

ConfInit ==
    /\ conf \in [options : {"yes"}, repos : {<<>>},
                 ignore : {<<>>} \cup {<<{p}>> : p \in Pkgs}
                          \cup {<<{p}, {q}>> : p \in Pkgs, q \in Pkgs}]
    /\ confCall = [c \in ConfCallers |-> ConfIdle]
    /\ asked = [pins |-> getIgnoredPackages(conf), repos |-> {}]
    /\ mixed = "no" /\ confCalls = 0

-----------------------------------------------------------------------------
(* A valid call, as far as its read of the file (which may fail).            *)
ConfReads(c, op, arg, to) ==
    /\ confCall[c] = ConfIdle /\ confCalls < MaxConfCalls
    /\ confCalls' = confCalls + 1
    /\ \/ confCall' = [confCall EXCEPT ![c] =
             [op |-> op, at |-> "write", arg |-> arg, to |-> to, read |-> conf]]
       \/ UNCHANGED confCall
    /\ mixed' = IF \E d \in ConfCallers : confCall[d].at = "tee" THEN "yes" ELSE mixed
    /\ UNCHANGED <<conf, asked>>

ConfCallsStart(c) ==
    \/ \E p \in Pkgs, op \in {"pin", "unpin"} : ConfReads(c, op, p, "none")
    \/ \E n \in Sections, u \in Servers : ConfReads(c, "apply", n, u)
    \/ \E n \in Sections : ConfReads(c, "remove", n, "none")

(* What the call makes of the file it read.                                 *)
Rewritten(k) ==
    CASE k.op = "pin" -> buildIgnorePkgConf(k.read, getIgnoredPackages(k.read) \cup {k.arg})
      [] k.op = "unpin" -> buildIgnorePkgConf(k.read, getIgnoredPackages(k.read) \ {k.arg})
      [] k.op = "apply" -> withSection(k.read, k.arg, k.to)
      [] k.op = "remove" -> removePacmanSection(k.read, k.arg)

(* What its success promises.                                               *)
Asks(k) ==
    CASE k.op = "pin" -> [asked EXCEPT !.pins = @ \cup {k.arg}]
      [] k.op = "unpin" -> [asked EXCEPT !.pins = @ \ {k.arg}]
      [] k.op = "apply" -> [asked EXCEPT !.repos = {s \in @ : s.name # k.arg}
                                \cup {[name |-> k.arg, server |-> k.to]}]
      [] k.op = "remove" -> [asked EXCEPT !.repos = {s \in @ : s.name # k.arg}]

Fails(c) == confCall' = [confCall EXCEPT ![c] = ConfIdle] /\ UNCHANGED asked
Succeeds(c) == confCall' = [confCall EXCEPT ![c] = ConfIdle] /\ asked' = Asks(confCall[c])
Overwrites(c) == IF conf # confCall[c].read THEN "yes" ELSE mixed

(* The repository's calls: no write where nothing changes, otherwise one       *)
(* atomic replacement (WriteFile), which may fail and leave the file alone.   *)
RepoWrites(c) ==
    LET k == confCall[c]
    IN  /\ k.at = "write" /\ k.op \in {"apply", "remove"}
        /\ \/ /\ Succeeds(c) /\ mixed' = Overwrites(c)
              /\ conf' = IF Rewritten(k) = k.read THEN conf ELSE Rewritten(k)
           \/ Rewritten(k) # k.read /\ Fails(c) /\ UNCHANGED <<conf, mixed>>
        /\ UNCHANGED confCalls

(* writeIgnorePkg: tee truncates the file, or cannot be run, ...             *)
TeeOpens(c) ==
    LET k == confCall[c]
    IN  /\ k.at = "write" /\ k.op \in {"pin", "unpin"}
        /\ \/ Fails(c) /\ UNCHANGED <<conf, mixed>>
           \/ /\ conf' = Empty /\ mixed' = Overwrites(c)
              /\ confCall' = [confCall EXCEPT ![c].at = "tee"] /\ UNCHANGED asked
        /\ UNCHANGED confCalls

(* ... and fills it, or is killed, by the context or with the agent, having   *)
(* written nothing or as far as the options.  Where the path holds a file that  *)
(* another call has written since, it may be that one's or not.              *)
TeeWrites(c) ==
    LET k == confCall[c]
    IN  /\ k.at = "tee"
        /\ \/ /\ Succeeds(c)
              /\ \/ conf' = Rewritten(k) /\ mixed' = IF conf = Empty THEN mixed ELSE "yes"
                 \/ conf # Empty /\ UNCHANGED conf /\ mixed' = "yes"
           \/ /\ Fails(c) /\ mixed' = "yes"
              /\ conf' \in {conf, [Rewritten(k) EXCEPT !.repos = <<>>]}
        /\ UNCHANGED confCalls

ConfNext ==
    \E c \in ConfCallers :
       ConfCallsStart(c) \/ RepoWrites(c) \/ TeeOpens(c) \/ TeeWrites(c)

-----------------------------------------------------------------------------
ConfTypeOK ==
    /\ conf.options \in {"yes", "no"} /\ conf.ignore \in Seq(SUBSET Pkgs)
    /\ conf.repos \in Seq([name : Sections, server : Servers])
    /\ \A c \in ConfCallers : confCall[c].at \in {"idle", "write", "tee"}
    /\ asked.pins \subseteq Pkgs

(* Pin, Unpin, Apply and Remove, in any order and with any failures: while no  *)
(* call went by a file it had not read whole and no tee was killed, the file says what   *)
(* the calls that succeeded ask of it, of packages and of repositories: no     *)
(* IgnorePkg line survives an Unpin, and neither kind of edit costs the other. *)
ConfAsAsked ==
    (mixed = "no" /\ \A c \in ConfCallers : confCall[c].at # "tee")
       => getIgnoredPackages(conf) = asked.pins /\ ToSet(conf.repos) = asked.repos
=============================================================================
