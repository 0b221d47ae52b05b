----------------------------- MODULE Packages ------------------------------
(***************************************************************************)
(* The native package managers (pkg): every mutation is one escalated         *)
(* command, a transaction of apt, dnf, pacman or zypper under that manager's  *)
(* lock, and others on the host run the same commands.  dnf retries a         *)
(* rejected install as a downgrade; Repair deletes a lock it takes for stale  *)
(* and runs a chain of commands most of which may fail.  The context may be   *)
(* cancelled at any moment, which kills the command that runs.              *)
(***************************************************************************)
EXTENDS Naturals, Sequences

CONSTANTS
    Others,         \* package-manager processes the agent did not start
    MaxVer,         \* versions of the package: 1 .. MaxVer, 0 when not installed
    MaxPkCalls,     \* bound: calls of the agent
    MaxInodes       \* bound: lock files made

Agent == "agent"
Procs == Others \cup {Agent}
PkIdle == [op |-> "none", at |-> "idle", cmd |-> "none", ver |-> 0, down |-> "no",
           cut |-> "no", step |-> 0, saw |-> 0]

VARIABLES
    pm,         \* "apt", "dnf", "pacman" or "zypper"
    runner,     \* "root", or "sudo": reads are not escalated, writes are
    lockFile,   \* the inode at the lock's path, 0: none
    inodes,     \* how many lock files were made
    held,       \* the lock file each process made or locked, 0: not in a transaction
    goal,       \* the version each transaction is bringing about
    installed,  \* the version installed
    pkCall,     \* the agent's call
    pkResult,   \* what its last call returned
    blind,      \* "yes": a lock was deleted under a holder the probe could not see
    pkCalls

pkVars == <<pm, runner, lockFile, inodes, held, goal, installed, pkCall, pkResult,
            blind, pkCalls>>

PkInit ==
    /\ pm \in {"apt", "dnf", "pacman", "zypper"} /\ runner \in {"root", "sudo"}
    /\ lockFile = 0 /\ inodes = 0
    /\ held = [p \in Procs |-> 0] /\ goal = [p \in Procs |-> 0]
    /\ installed \in 0 .. MaxVer
    /\ pkCall = PkIdle /\ pkResult = "none" /\ blind = "no" /\ pkCalls = 0

-----------------------------------------------------------------------------
(* The managers' own locks.  pacman creates db.lck exclusively and unlinks it; *)
(* the others lock a file, or write their PID in it, and it stays.            *)
Live(i) == i # 0 /\ \E p \in Procs : held[p] = i
MayLock == IF pm = "pacman" THEN lockFile = 0 ELSE ~Live(lockFile)
Locks(p) ==
    LET i == IF lockFile = 0 THEN inodes + 1 ELSE lockFile
    IN  /\ i <= MaxInodes
        /\ held' = [held EXCEPT ![p] = i] /\ lockFile' = i
        /\ inodes' = IF i > inodes THEN i ELSE inodes
Unlocks(p) ==
    /\ held' = [held EXCEPT ![p] = 0]
    /\ lockFile' = IF pm = "pacman" THEN 0 ELSE lockFile
    /\ UNCHANGED inodes
Dies(p) == held' = [held EXCEPT ![p] = 0] /\ UNCHANGED <<lockFile, inodes>>

-----------------------------------------------------------------------------
(* Another transaction: it reads what is installed under the lock, and ends   *)
(* or is killed.                                                            *)
OtherBegins(o) ==
    /\ held[o] = 0 /\ MayLock /\ Locks(o)
    /\ \E v \in 0 .. MaxVer : goal' = [goal EXCEPT ![o] = v]
    /\ UNCHANGED <<pm, runner, installed, pkCall, pkResult, blind, pkCalls>>

OtherEnds(o) ==
    /\ held[o] # 0
    /\ \/ Unlocks(o) /\ installed' = goal[o]
       \/ Dies(o) /\ installed' \in {installed, goal[o]}
    /\ UNCHANGED <<pm, runner, goal, pkCall, pkResult, blind, pkCalls>>

-----------------------------------------------------------------------------
PkGoes(at) == pkCall' = [pkCall EXCEPT !.at = at]
PkReturns(r) == pkCall' = PkIdle /\ pkResult' = r

(* The commands Repair runs, in order; "key" and "rpmdb" take no lock.       *)
Chain ==
    CASE pm = "apt" -> <<"configure", "fix", "refresh">>
      [] pm = "dnf" -> <<"redo", "dedup", "rpmdb">>
      [] pm = "pacman" -> <<"key", "key", "refresh">>
      [] pm = "zypper" -> <<"clean", "refresh", "verify", "rpmdb">>

(* Valid calls.  Install of a version names one package; without one it asks  *)
(* for the newest, as Upgrade does.  Repair of dnf deletes no lock.          *)
PkStarts(op, v, d) ==
    /\ pkCall = PkIdle /\ pkCalls < MaxPkCalls
    /\ pkCalls' = pkCalls + 1
    /\ pkCall' = [PkIdle EXCEPT !.op = op, !.ver = v, !.down = d,
          !.at = IF op = "repair" /\ pm # "dnf" THEN "stat" ELSE "start",
          !.cmd = IF op = "repair" THEN Chain[1] ELSE op,
          !.step = 1]
    /\ UNCHANGED <<pm, runner, lockFile, inodes, held, goal, installed, pkResult, blind>>

PkCallsStart ==
    \/ \E v \in 0 .. MaxVer, d \in {"no", "yes"} : PkStarts("install", v, d)
    \/ \E op \in {"remove", "upgrade", "repair"} : PkStarts(op, 0, "no")

(* The caller's context is cancelled or runs out.                           *)
PkCancel ==
    /\ pkCall # PkIdle /\ pkCall.cut = "no"
    /\ pkCall' = [pkCall EXCEPT !.cut = "yes"]
    /\ UNCHANGED <<pm, runner, lockFile, inodes, held, goal, installed, pkResult, blind,
                   pkCalls>>

-----------------------------------------------------------------------------
(* removeStaleLock: nothing at the path, a stat that fails: on to the chain. *)
StatLock ==
    /\ pkCall.at = "stat"
    /\ IF pkCall.cut = "yes" THEN PkReturns("cancelled")
       ELSE /\ \/ PkGoes("start")
               \/ lockFile # 0 /\ PkGoes("probe")
            /\ UNCHANGED pkResult
    /\ UNCHANGED <<pm, runner, lockFile, inodes, held, goal, installed, blind, pkCalls>>

(* What fuser, or kill -0 with the PID in the file, answers.  fuser is not    *)
(* escalated: a user other than root sees no other user's descriptors.       *)
Seen == IF pm # "zypper" /\ runner = "sudo" THEN FALSE ELSE Live(lockFile)
FoundStaleUnlessHeld(verdict) == verdict # "held"
FoundStale(verdict) == verdict = "no holder"

ProbeLock ==
    /\ pkCall.at = "probe"
    /\ IF pkCall.cut = "yes" THEN PkReturns("cancelled")
       ELSE /\ \E verdict \in {IF Seen THEN "held" ELSE "no holder", "inconclusive"} :
                 pkCall' = [pkCall EXCEPT !.at = IF FoundStale(verdict) THEN "rm" ELSE "start",
                                          !.saw = IF Seen THEN lockFile ELSE 0]
            /\ UNCHANGED pkResult
    /\ UNCHANGED <<pm, runner, lockFile, inodes, held, goal, installed, blind, pkCalls>>

(* rm -f of the path, whatever is there by now; its failure is a warning.     *)
(* "blind": its holder began after the probe, or the probe could not see it;   *)
(* "saw" is the lock whose holder was there to be seen.                      *)
RemoveLock ==
    /\ pkCall.at = "rm"
    /\ IF pkCall.cut = "yes" THEN PkReturns("cancelled") /\ UNCHANGED <<lockFile, blind>>
       ELSE /\ PkGoes("start") /\ UNCHANGED pkResult
            /\ \/ UNCHANGED <<lockFile, blind>>
               \/ /\ lockFile' = 0
                  /\ blind' = IF Live(lockFile) /\ pkCall.saw # lockFile
                              THEN "yes" ELSE blind
    /\ UNCHANGED <<pm, runner, inodes, held, goal, installed, pkCalls>>

-----------------------------------------------------------------------------
(* bestEffortStep: only a cancelled context stops the chain.                *)
StepFailedAnyway(cut) == "go on"
StepFailed(cut) == IF cut = "yes" THEN "cancelled" ELSE "go on"

NextStep(r) ==
    IF pkCall.step < Len(Chain)
    THEN /\ pkCall' = [pkCall EXCEPT !.at = "start", !.step = @ + 1,
                         !.cmd = Chain[pkCall.step + 1]]
         /\ UNCHANGED pkResult
    ELSE PkReturns(r)

(* A step of Repair: the last of apt's and pacman's must succeed, the others  *)
(* are best effort.                                                         *)
RepairGoesOn(res) ==
    IF res = "ok" THEN NextStep("ok")
    ELSE IF pm \in {"apt", "pacman"} /\ pkCall.step = Len(Chain)
         THEN PkReturns(IF pkCall.cut = "yes" THEN "cancelled" ELSE "error")
    ELSE IF StepFailed(pkCall.cut) = "cancelled" THEN PkReturns("cancelled")
    ELSE NextStep("ok")

(* dnf's own rejection, and nothing else, is retried as a downgrade.         *)
RetriesAlways(res) ==
    pm = "dnf" /\ pkCall.cmd = "install" /\ res = "exit" /\ pkCall.ver # 0
Retries(res) ==
    /\ pm = "dnf" /\ pkCall.cmd = "install" /\ res = "exit"
    /\ pkCall.down = "yes" /\ pkCall.ver # 0

(* res: "ok", "exit" (a non-zero exit, *exec.CommandError) or "unrun".       *)
CommandDone(res) ==
    IF pkCall.op = "repair" THEN RepairGoesOn(res)
    ELSE IF Retries(res)
         THEN pkCall' = [pkCall EXCEPT !.at = "start", !.cmd = "downgrade"] /\ UNCHANGED pkResult
    ELSE PkReturns(IF res = "ok" THEN "ok" ELSE "error")

-----------------------------------------------------------------------------
(* What the manager resolves a command to, given what is installed; a set     *)
(* that is empty is a rejection.  pacman downgrades unasked.                *)
Resolves(cmd, v) ==
    CASE cmd = "install" /\ v # 0 ->
           IF v >= installed \/ pm = "pacman" \/ (pkCall.down = "yes" /\ pm # "dnf")
           THEN {v} ELSE {}
      [] cmd = "install" /\ v = 0 -> {MaxVer}
      [] cmd = "downgrade" -> IF v < installed THEN {v} ELSE {}
      [] cmd = "remove" -> {0}
      [] cmd = "upgrade" -> {IF installed = 0 THEN 0 ELSE MaxVer}
      [] OTHER -> {installed}

(* The Runner refuses to spawn when the context is cancelled, or cannot; the  *)
(* command finds the lock held, or rejects what it is asked; or it begins.    *)
CommandBegins ==
    /\ pkCall.at = "start"
    /\ \/ /\ \/ CommandDone("unrun")
             \/ /\ pkCall.cut = "no"
                /\ \/ pkCall.cmd \in {"key", "rpmdb"} /\ (CommandDone("ok") \/ CommandDone("exit"))
                   \/ pkCall.cmd \notin {"key", "rpmdb"} /\ CommandDone("exit")
          /\ UNCHANGED <<lockFile, inodes, held, goal>>
       \/ /\ pkCall.cut = "no" /\ pkCall.cmd \notin {"key", "rpmdb"} /\ MayLock
          /\ \E v \in Resolves(pkCall.cmd, pkCall.ver) :
               goal' = [goal EXCEPT ![Agent] = v]
          /\ Locks(Agent) /\ PkGoes("running") /\ UNCHANGED pkResult
    /\ UNCHANGED <<pm, runner, installed, blind, pkCalls>>

(* It ends; or the context, or a crash of its own, ends it part way, and it   *)
(* may or may not have made its change.                                     *)
CommandEnds ==
    /\ pkCall.at = "running"
    /\ \/ Unlocks(Agent) /\ installed' = goal[Agent] /\ CommandDone("ok")
       \/ Unlocks(Agent) /\ UNCHANGED installed /\ CommandDone("exit")
       \/ /\ pkCall.cut = "yes" /\ Dies(Agent)
          /\ installed' \in {installed, goal[Agent]}
          /\ CommandDone("unrun")
    /\ UNCHANGED <<pm, runner, goal, blind, pkCalls>>

PkNext ==
    \/ \E o \in Others : OtherBegins(o) \/ OtherEnds(o)
    \/ PkCallsStart \/ PkCancel
    \/ StatLock \/ ProbeLock \/ RemoveLock
    \/ CommandBegins \/ CommandEnds

PkSpec == PkInit /\ [][PkNext]_pkVars

-----------------------------------------------------------------------------
PkTypeOK ==
    /\ lockFile \in 0 .. MaxInodes /\ inodes \in 0 .. MaxInodes
    /\ held \in [Procs -> 0 .. MaxInodes] /\ goal \in [Procs -> 0 .. MaxVer]
    /\ installed \in 0 .. MaxVer
    /\ pkCall.at \in {"idle", "stat", "probe", "rm", "start", "running"}
    /\ pkResult \in {"none", "ok", "error", "cancelled"}

(* Repair: two transactions never change the package database at once, unless *)
(* rm deleted a lock that was taken after the probe, or whose holder the      *)
(* unprivileged probe could not see: a probe that fails, or that finds a      *)
(* holder, leaves the lock to it.                                           *)
OneTransaction ==
    blind = "no" => \A p, q \in Procs : held[p] # 0 /\ held[q] # 0 => p = q

(* Install: no command of the agent's leaves an older version than the one it  *)
(* found, unless the call allows it (pacman does so unasked), whatever else   *)
(* changed the package between a rejection and its retry.                   *)
DowngradesOnlyIfAllowed ==
    [][ (/\ pkCall.at = "running" /\ installed' # installed /\ held[Agent] # held'[Agent]
         /\ blind = "no" /\ pkCall.op # "remove" /\ pm # "pacman")
        => installed' > installed \/ pkCall.down = "yes" ]_pkVars

(* Repair: a call whose context was cancelled before its last command ran has  *)
(* not returned success: no later step is skipped in silence.               *)
CancelledNotSuccess ==
    [][ (/\ pkCall.op = "repair" /\ pkCall.at = "start" /\ pkCall.cut = "yes"
         /\ pkCall'.at = "idle")
        => pkResult' = "cancelled" ]_pkVars

(* Repair never deletes a lock that a live process holds (repair.go says "we   *)
(* must never delete a live lock based on a failed probe").  It does not hold  *)
(* of a lock taken after the probe, or of one the probe could not see.       *)
LiveLockKept ==
    [][lockFile # 0 /\ lockFile' = 0 /\ pkCall.at = "rm" => ~Live(lockFile)]_pkVars
=============================================================================
