---------------------------- MODULE PackageProofs --------------------------
(***************************************************************************)
(* Proofs about the packages of a host: the transactions and locks of pkg   *)
(* (Packages) and the repositories of sys/repo (Repositories).              *)
(***************************************************************************)
EXTENDS Packages, Repositories, TLAPS

-----------------------------------------------------------------------------
(* pkg.  The invariant relates the lock file at the path to whoever holds it. *)

(* The commands of Repair, and what a call is.                              *)
RepairCommands == {"configure", "fix", "refresh", "redo", "dedup", "rpmdb", "key", "clean", "verify"}
PkCallRecords ==
    [op : {"none", "install", "remove", "upgrade", "repair"},
     at : {"idle", "stat", "probe", "rm", "start", "running"},
     cmd : RepairCommands \cup {"none", "install", "remove", "upgrade", "downgrade"},
     ver : 0 .. MaxVer, down : {"no", "yes"}, cut : {"no", "yes"}, step : Nat, saw : 0 .. MaxInodes]

PkTypes ==
    /\ MaxVer \in Nat /\ MaxInodes \in Nat /\ Agent \notin Others
    /\ pm \in {"apt", "dnf", "pacman", "zypper"}
    /\ lockFile \in 0 .. MaxInodes /\ inodes \in 0 .. MaxInodes
    /\ held \in [Procs -> 0 .. MaxInodes] /\ goal \in [Procs -> 0 .. MaxVer]
    /\ installed \in 0 .. MaxVer
    /\ pkCall \in PkCallRecords
    /\ pkResult \in {"none", "ok", "error", "cancelled"}

(* The command a call is at, and that it deletes only a lock whose holder it *)
(* did not see.                                                             *)
CommandInv ==
    /\ pkCall.op = "repair" => pkCall.cmd \in RepairCommands
    /\ pkCall.op # "repair" =>
          pkCall.cmd = pkCall.op \/ (pkCall.cmd = "downgrade" /\ pkCall.down = "yes")
    /\ pkCall.at = "rm" => pkCall.saw = 0

(* Until a lock is deleted blindly, whoever is in a transaction holds the   *)
(* file that is at the lock's path.                                         *)
LockInv ==
    /\ pkCall.at = "running" => held[Agent] # 0
    /\ blind = "no" => \A p \in Procs : held[p] # 0 => lockFile = held[p]
    /\ OneTransaction

(* What the agent's transaction is about to install.                        *)
TargetInv ==
    pkCall.at = "running" /\ blind = "no" /\ pkCall.op # "remove" /\ pm # "pacman"
      /\ pkCall.down = "no" => goal[Agent] >= installed

(* The inductive invariant.                                                 *)
PkInv == PkTypes /\ CommandInv /\ LockInv /\ TargetInv

(* No call.                                                                 *)
LEMMA PkIdleRecord ==
    ASSUME MaxVer \in Nat, MaxInodes \in Nat
    PROVE  PkIdle \in PkCallRecords /\ PkIdle.at = "idle" /\ PkIdle.op = "none" /\ PkIdle.cmd = "none"
BY DEF PkIdle, PkCallRecords

(* The initial states: nobody is in a transaction.                          *)
LEMMA PkInitInv ==
    ASSUME MaxVer \in Nat, MaxInodes \in Nat, Agent \notin Others, PkInit
    PROVE  PkInv
<1>1. PkTypes
  BY PkIdleRecord DEF PkInit, PkTypes
<1>2. CommandInv
  BY PkIdleRecord DEF PkInit, CommandInv
<1>3. LockInv /\ TargetInv
  BY PkIdleRecord DEF PkInit, LockInv, OneTransaction, TargetInv
<1> QED
  BY <1>1, <1>2, <1>3 DEF PkInv

-----------------------------------------------------------------------------
(* The lock.                                                                *)
LEMMA LocksStep ==
    ASSUME PkInv, NEW p \in Procs, MayLock, Locks(p), UNCHANGED blind,
           p = Agent \/ pkCall'.at = pkCall.at
    PROVE  /\ held' \in [Procs -> 0 .. MaxInodes]
           /\ lockFile' \in 0 .. MaxInodes /\ inodes' \in 0 .. MaxInodes
           /\ LockInv'
<1> DEFINE i == IF lockFile = 0 THEN inodes + 1 ELSE lockFile
<1>1. /\ i \in 1 .. MaxInodes /\ held' = [held EXCEPT ![p] = i] /\ lockFile' = i
      /\ inodes' = IF i > inodes THEN i ELSE inodes
  BY DEF Locks, PkInv, PkTypes
<1> HIDE DEF i
<1>2. /\ held' \in [Procs -> 0 .. MaxInodes] /\ held'[p] = i
      /\ \A q \in Procs : q # p => held'[q] = held[q]
      /\ lockFile' \in 0 .. MaxInodes /\ inodes' \in 0 .. MaxInodes
  BY <1>1 DEF PkInv, PkTypes
<1>3. blind = "no" => \A q \in Procs : held[q] = 0
  BY DEF PkInv, PkTypes, LockInv, MayLock, Live
<1>4. pkCall'.at = "running" => held'[Agent] # 0
  BY <1>1, <1>2 DEF PkInv, LockInv, Procs
<1>5. LockInv'
  BY <1>1, <1>2, <1>3, <1>4 DEF LockInv, OneTransaction
<1> QED
  BY <1>2, <1>5

(* A transaction ends, and was the only one.                                *)
LEMMA UnlocksStep ==
    ASSUME PkInv, NEW p \in Procs, held[p] # 0, Unlocks(p) \/ Dies(p), UNCHANGED blind,
           IF p = Agent THEN pkCall'.at # "running" ELSE pkCall'.at = pkCall.at
    PROVE  /\ held' \in [Procs -> 0 .. MaxInodes]
           /\ lockFile' \in 0 .. MaxInodes /\ inodes' \in 0 .. MaxInodes
           /\ LockInv'
<1>1. /\ held' = [held EXCEPT ![p] = 0] /\ lockFile' \in {0, lockFile} /\ inodes' = inodes
  BY DEF Unlocks, Dies
<1>2. /\ held' \in [Procs -> 0 .. MaxInodes] /\ held'[p] = 0
      /\ \A q \in Procs : q # p => held'[q] = held[q]
      /\ lockFile' \in 0 .. MaxInodes /\ inodes' \in 0 .. MaxInodes
  BY <1>1 DEF PkInv, PkTypes
<1>3. blind = "no" => \A q \in Procs : held'[q] = 0
  BY <1>2 DEF PkInv, LockInv, OneTransaction
<1>4. pkCall'.at = "running" => held'[Agent] # 0
  BY <1>2 DEF PkInv, LockInv, Procs
<1>5. LockInv'
  BY <1>2, <1>3, <1>4 DEF LockInv, OneTransaction
<1> QED
  BY <1>2, <1>5

(* A step of the call that takes no lock and gives none back.               *)
LEMMA CallOnly ==
    ASSUME PkInv, UNCHANGED <<pm, lockFile, inodes, held, goal, installed, blind>>,
           pkCall' \in PkCallRecords, CommandInv', pkCall'.at # "running",
           pkResult' \in {"none", "ok", "error", "cancelled"}
    PROVE  PkInv'
<1>1. PkTypes'
  BY DEF PkInv, PkTypes
<1>2. LockInv' /\ TargetInv'
  BY DEF PkInv, LockInv, OneTransaction, TargetInv
<1> QED
  BY <1>1, <1>2 DEF PkInv

-----------------------------------------------------------------------------
(* Another process begins a transaction.                                    *)
LEMMA OtherBeginsStep == ASSUME PkInv, NEW o \in Others, OtherBegins(o) PROVE PkInv'
<1>1. /\ o \in Procs /\ o # Agent /\ MayLock /\ Locks(o)
      /\ UNCHANGED <<pm, installed, pkCall, pkResult, blind>>
  BY DEF OtherBegins, Procs, PkInv, PkTypes
<1>2. goal' \in [Procs -> 0 .. MaxVer] /\ goal'[Agent] = goal[Agent]
  BY <1>1 DEF OtherBegins, PkInv, PkTypes, Procs
<1>3. /\ held' \in [Procs -> 0 .. MaxInodes] /\ LockInv'
      /\ lockFile' \in 0 .. MaxInodes /\ inodes' \in 0 .. MaxInodes
  BY <1>1, LocksStep
<1>4. PkTypes'
  BY <1>1, <1>2, <1>3 DEF PkInv, PkTypes
<1>5. CommandInv' /\ TargetInv'
  BY <1>1, <1>2 DEF PkInv, CommandInv, TargetInv
<1> QED
  BY <1>3, <1>4, <1>5 DEF PkInv

(* It ends: not while the agent is in one, unless a lock was deleted blindly. *)
LEMMA OtherEndsStep == ASSUME PkInv, NEW o \in Others, OtherEnds(o) PROVE PkInv'
<1>1. /\ o \in Procs /\ o # Agent /\ held[o] # 0 /\ (Unlocks(o) \/ Dies(o))
      /\ UNCHANGED <<pm, goal, pkCall, pkResult, blind>>
      /\ installed' \in {installed, goal[o]}
  BY DEF OtherEnds, Procs, PkInv, PkTypes
<1>2. /\ held' \in [Procs -> 0 .. MaxInodes] /\ LockInv'
      /\ lockFile' \in 0 .. MaxInodes /\ inodes' \in 0 .. MaxInodes
  BY <1>1, UnlocksStep
<1>3. PkTypes'
  BY <1>1, <1>2 DEF PkInv, PkTypes
<1>4. CommandInv'
  BY <1>1 DEF PkInv, CommandInv
<1>5. ~(pkCall.at = "running" /\ blind = "no")
  BY <1>1 DEF PkInv, LockInv, OneTransaction, Procs
<1>6. TargetInv'
  BY <1>1, <1>5 DEF TargetInv
<1> QED
  BY <1>2, <1>3, <1>4, <1>6 DEF PkInv

-----------------------------------------------------------------------------
(* Repair installs, removes and upgrades nothing.                           *)
LEMMA ChainCommands ==
    ASSUME pm \in {"apt", "dnf", "pacman", "zypper"}, NEW i \in 1 .. Len(Chain)
    PROVE  Chain[i] \in RepairCommands
<1>1. CASE pm = "apt"
  BY <1>1 DEF Chain, RepairCommands
<1>2. CASE pm = "dnf"
  BY <1>2 DEF Chain, RepairCommands
<1>3. CASE pm = "pacman"
  BY <1>3 DEF Chain, RepairCommands
<1>4. CASE pm = "zypper"
  BY <1>4 DEF Chain, RepairCommands
<1> QED
  BY <1>1, <1>2, <1>3, <1>4

(* The chain has a first command.                                           *)
LEMMA ChainStarts ==
    ASSUME pm \in {"apt", "dnf", "pacman", "zypper"}
    PROVE  1 \in 1 .. Len(Chain) /\ Len(Chain) \in Nat
<1>1. CASE pm = "apt"
  BY <1>1 DEF Chain
<1>2. CASE pm = "dnf"
  BY <1>2 DEF Chain
<1>3. CASE pm = "pacman"
  BY <1>3 DEF Chain
<1>4. CASE pm = "zypper"
  BY <1>4 DEF Chain
<1> QED
  BY <1>1, <1>2, <1>3, <1>4

(* A call starts.                                                           *)
LEMMA PkStartsStep ==
    ASSUME PkInv, NEW op \in {"install", "remove", "upgrade", "repair"}, NEW v \in 0 .. MaxVer,
           NEW d \in {"no", "yes"}, PkStarts(op, v, d)
    PROVE  PkInv'
<1> DEFINE first == IF op = "repair" /\ pm # "dnf" THEN "stat" ELSE "start"
           command == IF op = "repair" THEN Chain[1] ELSE op
<1>1. /\ pkCall' = [op |-> op, at |-> first, cmd |-> command, ver |-> v, down |-> d,
                    cut |-> "no", step |-> 1, saw |-> 0]
      /\ UNCHANGED <<pm, lockFile, inodes, held, goal, installed, pkResult, blind>>
  BY Zenon DEF PkStarts, PkIdle
<1>2. /\ first \in {"stat", "start"} /\ command \in RepairCommands \cup {"install", "remove", "upgrade"}
      /\ op = "repair" => command \in RepairCommands
      /\ op # "repair" => command = op
  BY ChainCommands, ChainStarts DEF PkInv, PkTypes
<1> HIDE DEF first, command
<1>3. pkCall' \in PkCallRecords
  BY <1>1, <1>2 DEF PkCallRecords, PkInv, PkTypes
<1>4. CommandInv' /\ pkCall'.at # "running"
  BY <1>1, <1>2 DEF CommandInv
<1> QED
  BY <1>1, <1>3, <1>4, CallOnly DEF PkInv, PkTypes

(* Its context is cancelled.                                                *)
LEMMA PkCancelStep == ASSUME PkInv, PkCancel PROVE PkInv'
<1>1. /\ pkCall' = [pkCall EXCEPT !.cut = "yes"]
      /\ UNCHANGED <<pm, lockFile, inodes, held, goal, installed, pkResult, blind>>
  BY DEF PkCancel
<1>2. /\ pkCall' \in PkCallRecords /\ pkCall'.at = pkCall.at /\ pkCall'.op = pkCall.op
      /\ pkCall'.cmd = pkCall.cmd /\ pkCall'.down = pkCall.down /\ pkCall'.saw = pkCall.saw
  BY <1>1 DEF PkInv, PkTypes, PkCallRecords
<1>3. PkTypes' /\ CommandInv'
  BY <1>1, <1>2 DEF PkInv, PkTypes, CommandInv
<1>4. LockInv' /\ TargetInv'
  BY <1>1, <1>2 DEF PkInv, LockInv, OneTransaction, TargetInv
<1> QED
  BY <1>3, <1>4 DEF PkInv

(* It returns.                                                              *)
LEMMA ReturnsStep ==
    ASSUME PkInv, NEW r \in {"ok", "error", "cancelled"}, PkReturns(r)
    PROVE  /\ pkCall' \in PkCallRecords /\ CommandInv' /\ pkCall'.at = "idle"
           /\ pkResult' = r
BY PkIdleRecord DEF PkInv, PkTypes, PkReturns, CommandInv

(* It goes on with the command it was at.                                   *)
LEMMA GoesStep ==
    ASSUME PkInv, NEW at \in {"stat", "probe", "start", "running"}, PkGoes(at)
    PROVE  /\ pkCall' \in PkCallRecords /\ CommandInv' /\ pkCall'.at = at
           /\ pkCall'.op = pkCall.op /\ pkCall'.down = pkCall.down
<1>1. /\ pkCall' \in PkCallRecords /\ pkCall'.at = at /\ pkCall'.op = pkCall.op
      /\ pkCall'.cmd = pkCall.cmd /\ pkCall'.down = pkCall.down
  BY DEF PkInv, PkTypes, PkGoes, PkCallRecords
<1> QED
  BY <1>1 DEF PkInv, CommandInv

(* removeStaleLock looks for a lock.                                        *)
LEMMA StatLockStep == ASSUME PkInv, StatLock PROVE PkInv'
<1>1. UNCHANGED <<pm, lockFile, inodes, held, goal, installed, blind>>
  BY DEF StatLock
<1>2. CASE PkReturns("cancelled")
  BY <1>1, <1>2, ReturnsStep, CallOnly
<1>3. CASE (PkGoes("start") \/ PkGoes("probe")) /\ UNCHANGED pkResult
  BY <1>1, <1>3, GoesStep, CallOnly DEF PkInv, PkTypes
<1> QED
  BY <1>2, <1>3 DEF StatLock

(* It goes on to delete a lock only if it saw no holder.                    *)
LEMMA ProbeLockStep == ASSUME PkInv, ProbeLock PROVE PkInv'
<1>1. UNCHANGED <<pm, lockFile, inodes, held, goal, installed, blind>>
  BY DEF ProbeLock
<1>2. CASE PkReturns("cancelled")
  BY <1>1, <1>2, ReturnsStep, CallOnly
<1>3. CASE /\ \E verdict \in {IF Seen THEN "held" ELSE "no holder", "inconclusive"} :
                 pkCall' = [pkCall EXCEPT !.at = IF FoundStale(verdict) THEN "rm" ELSE "start",
                                          !.saw = IF Seen THEN lockFile ELSE 0]
           /\ UNCHANGED pkResult
  <2>1. PICK at \in {"rm", "start"}, saw \in 0 .. MaxInodes :
           /\ pkCall' = [pkCall EXCEPT !.at = at, !.saw = saw]
           /\ at = "rm" => saw = 0
    <3>1. CASE Seen
      BY Zenon, <1>3, <3>1 DEF FoundStale, PkInv, PkTypes
    <3>2. CASE ~Seen
      <4>1. 0 \in 0 .. MaxInodes
        BY DEF PkInv, PkTypes
      <4>2. \/ pkCall' = [pkCall EXCEPT !.at = "rm", !.saw = 0]
            \/ pkCall' = [pkCall EXCEPT !.at = "start", !.saw = 0]
        BY Zenon, <1>3, <3>2 DEF FoundStale
      <4> QED
        BY Zenon, <4>1, <4>2
    <3> QED
      BY Zenon, <3>1, <3>2
  <2>2. /\ pkCall' \in PkCallRecords /\ pkCall'.at = at /\ pkCall'.op = pkCall.op
        /\ pkCall'.cmd = pkCall.cmd /\ pkCall'.down = pkCall.down /\ pkCall'.saw = saw
    BY Zenon, <2>1 DEF PkInv, PkTypes, PkCallRecords
  <2>3. CommandInv' /\ pkCall'.at # "running"
    BY <2>1, <2>2 DEF PkInv, CommandInv
  <2> QED
    BY Zenon, <1>1, <1>3, <2>2, <2>3, CallOnly DEF PkInv, PkTypes
<1> QED
  BY <1>2, <1>3 DEF ProbeLock

(* The lock that is deleted has no holder, or one that makes it blind.      *)
LEMMA RemoveLockStep == ASSUME PkInv, RemoveLock PROVE PkInv'
<1>1. pkCall.at = "rm" /\ pkCall.saw = 0 /\ UNCHANGED <<pm, inodes, held, goal, installed>>
  BY DEF RemoveLock, PkInv, CommandInv
<1>2. CASE PkReturns("cancelled") /\ UNCHANGED <<lockFile, blind>>
  BY <1>1, <1>2, ReturnsStep, CallOnly
<1>3. CASE PkGoes("start") /\ UNCHANGED <<pkResult, lockFile, blind>>
  BY <1>1, <1>3, GoesStep, CallOnly DEF PkInv, PkTypes
<1>4. CASE /\ PkGoes("start") /\ UNCHANGED pkResult /\ lockFile' = 0
           /\ blind' = IF Live(lockFile) /\ pkCall.saw # lockFile THEN "yes" ELSE blind
  <2>1. pkCall' \in PkCallRecords /\ CommandInv' /\ pkCall'.at = "start"
    BY <1>4, GoesStep
  <2>2. blind' = "no" => blind = "no" /\ ~Live(lockFile)
    BY <1>1, <1>4 DEF Live
  <2>3. blind' = "no" => \A p \in Procs : held[p] = 0
    BY <2>2 DEF Live, PkInv, LockInv
  <2>4. PkTypes'
    BY <1>1, <1>4, <2>1 DEF PkInv, PkTypes
  <2>5. LockInv' /\ TargetInv'
    BY <1>1, <2>1, <2>3 DEF LockInv, OneTransaction, TargetInv
  <2> QED
    BY <2>1, <2>4, <2>5 DEF PkInv
<1> QED
  BY <1>2, <1>3, <1>4 DEF RemoveLock

-----------------------------------------------------------------------------
(* Repair goes on with the next command of its chain, or ends.              *)
LEMMA NextStepCall ==
    ASSUME PkInv, pkCall.op = "repair", NextStep("ok")
    PROVE  /\ pkCall' \in PkCallRecords /\ CommandInv' /\ pkCall'.at \in {"idle", "start"}
           /\ pkResult' \in {"none", "ok", "error", "cancelled"}
<1>1. CASE PkReturns("ok")
  BY <1>1, ReturnsStep
<1>2. CASE /\ pkCall.step < Len(Chain) /\ UNCHANGED pkResult
           /\ pkCall' = [pkCall EXCEPT !.at = "start", !.step = @ + 1,
                         !.cmd = Chain[pkCall.step + 1]]
  <2>1. pkCall.step + 1 \in 1 .. Len(Chain) /\ pkCall.step + 1 \in Nat
    BY <1>2, ChainStarts DEF PkInv, PkTypes, PkCallRecords
  <2>2. Chain[pkCall.step + 1] \in RepairCommands
    BY <2>1, ChainCommands DEF PkInv, PkTypes
  <2>3. /\ pkCall' \in PkCallRecords /\ pkCall'.at = "start" /\ pkCall'.op = pkCall.op
        /\ pkCall'.cmd = Chain[pkCall.step + 1]
    BY Zenon, <1>2, <2>1, <2>2 DEF PkInv, PkTypes, PkCallRecords
  <2>4. CommandInv'
    BY <2>2, <2>3 DEF CommandInv
  <2> QED
    BY <1>2, <2>3, <2>4 DEF PkInv, PkTypes
<1> QED
  BY <1>1, <1>2 DEF NextStep

(* What follows a command; a downgrade only where it is allowed.            *)
LEMMA DoneCall ==
    ASSUME PkInv, NEW res \in {"ok", "exit", "unrun"}, CommandDone(res)
    PROVE  /\ pkCall' \in PkCallRecords /\ CommandInv' /\ pkCall'.at \in {"idle", "start"}
           /\ pkResult' \in {"none", "ok", "error", "cancelled"}
<1>1. CASE \E r \in {"ok", "error", "cancelled"} : PkReturns(r)
  BY <1>1, ReturnsStep
<1>2. CASE pkCall.op = "repair" /\ NextStep("ok")
  BY <1>2, NextStepCall
<1>3. CASE /\ pkCall.op # "repair" /\ Retries(res) /\ UNCHANGED pkResult
           /\ pkCall' = [pkCall EXCEPT !.at = "start", !.cmd = "downgrade"]
  <2>1. /\ pkCall' \in PkCallRecords /\ pkCall'.at = "start" /\ pkCall'.op = pkCall.op
        /\ pkCall'.cmd = "downgrade" /\ pkCall'.down = pkCall.down
    BY Zenon, <1>3 DEF PkInv, PkTypes, PkCallRecords
  <2>2. CommandInv'
    BY <1>3, <2>1 DEF CommandInv, Retries
  <2> QED
    BY <1>3, <2>1, <2>2 DEF PkInv, PkTypes
<1> QED
  BY <1>1, <1>2, <1>3 DEF CommandDone, RepairGoesOn

(* A command that is not to downgrade resolves to no older version.         *)
LEMMA ResolvedAbove ==
    ASSUME PkInv, NEW v \in Resolves(pkCall.cmd, pkCall.ver)
    PROVE  /\ v \in 0 .. MaxVer
           /\ pm # "pacman" /\ pkCall.op # "remove" /\ pkCall.down = "no" => v >= installed
<1>1. /\ MaxVer \in Nat /\ installed \in 0 .. MaxVer /\ pkCall.ver \in 0 .. MaxVer
      /\ pkCall.cmd = "downgrade" => pkCall.down = "yes"
      /\ pkCall.cmd = "remove" => pkCall.op = "remove"
  BY DEF PkInv, PkTypes, PkCallRecords, CommandInv, RepairCommands
<1>2. CASE pkCall.cmd = "install" /\ pkCall.ver # 0
  BY <1>1, <1>2 DEF Resolves
<1>3. CASE pkCall.cmd = "install" /\ pkCall.ver = 0
  BY <1>1, <1>3 DEF Resolves
<1>4. CASE pkCall.cmd = "downgrade"
  BY <1>1, <1>4 DEF Resolves
<1>5. CASE pkCall.cmd = "remove"
  BY <1>1, <1>5 DEF Resolves
<1>6. CASE pkCall.cmd = "upgrade"
  BY <1>1, <1>6 DEF Resolves
<1>7. CASE pkCall.cmd \notin {"install", "downgrade", "remove", "upgrade"}
  BY <1>1, <1>7 DEF Resolves
<1> QED
  BY <1>2, <1>3, <1>4, <1>5, <1>6, <1>7

(* A command is not run, fails at once, or begins its transaction.          *)
LEMMA CommandBeginsStep == ASSUME PkInv, CommandBegins PROVE PkInv'
<1>1. pkCall.at = "start" /\ UNCHANGED <<pm, installed, blind>>
  BY DEF CommandBegins
<1>2. CASE /\ \E res \in {"ok", "exit", "unrun"} : CommandDone(res)
           /\ UNCHANGED <<lockFile, inodes, held, goal>>
  BY <1>1, <1>2, DoneCall, CallOnly
<1>3. CASE /\ MayLock /\ Locks(Agent) /\ PkGoes("running") /\ UNCHANGED pkResult
           /\ \E v \in Resolves(pkCall.cmd, pkCall.ver) : goal' = [goal EXCEPT ![Agent] = v]
  <2>1. Agent \in Procs
    BY DEF Procs
  <2>2. /\ pkCall' \in PkCallRecords /\ CommandInv' /\ pkCall'.at = "running"
        /\ pkCall'.op = pkCall.op /\ pkCall'.down = pkCall.down
    BY <1>3, GoesStep
  <2>3. PICK v \in Resolves(pkCall.cmd, pkCall.ver) : goal' = [goal EXCEPT ![Agent] = v]
    BY Zenon, <1>3
  <2>4. /\ v \in 0 .. MaxVer
        /\ pm # "pacman" /\ pkCall.op # "remove" /\ pkCall.down = "no" => v >= installed
    BY ResolvedAbove
  <2>5. goal' \in [Procs -> 0 .. MaxVer] /\ goal'[Agent] = v
    BY <2>1, <2>3, <2>4 DEF PkInv, PkTypes
  <2>6. /\ held' \in [Procs -> 0 .. MaxInodes] /\ LockInv'
        /\ lockFile' \in 0 .. MaxInodes /\ inodes' \in 0 .. MaxInodes
    BY <1>1, <1>3, <2>1, LocksStep
  <2>7. PkTypes'
    BY <1>1, <1>3, <2>2, <2>5, <2>6 DEF PkInv, PkTypes
  <2>8. TargetInv'
    BY <1>1, <2>2, <2>4, <2>5 DEF TargetInv
  <2> QED
    BY <2>2, <2>6, <2>7, <2>8 DEF PkInv
<1> QED
  BY <1>2, <1>3 DEF CommandBegins

(* It ends, or is killed.                                                   *)
LEMMA CommandEndsStep == ASSUME PkInv, CommandEnds PROVE PkInv'
<1>1. /\ pkCall.at = "running" /\ UNCHANGED <<pm, goal, blind>>
      /\ Agent \in Procs /\ held[Agent] # 0
      /\ Unlocks(Agent) \/ Dies(Agent)
      /\ installed' \in {installed, goal[Agent]}
  BY DEF CommandEnds, PkInv, LockInv, Procs
<1>2. PICK res \in {"ok", "exit", "unrun"} : CommandDone(res)
  BY DEF CommandEnds
<1>3. /\ pkCall' \in PkCallRecords /\ CommandInv' /\ pkCall'.at \in {"idle", "start"}
      /\ pkResult' \in {"none", "ok", "error", "cancelled"}
  BY <1>2, DoneCall
<1>4. /\ held' \in [Procs -> 0 .. MaxInodes] /\ LockInv'
      /\ lockFile' \in 0 .. MaxInodes /\ inodes' \in 0 .. MaxInodes
  BY <1>1, <1>3, UnlocksStep
<1>5. PkTypes'
  BY <1>1, <1>3, <1>4 DEF PkInv, PkTypes
<1>6. TargetInv'
  BY <1>3 DEF TargetInv
<1> QED
  BY <1>3, <1>4, <1>5, <1>6 DEF PkInv

(* A step of something else.                                                *)
LEMMA PkStutter == PkInv /\ UNCHANGED pkVars => PkInv'
BY DEF PkInv, PkTypes, CommandInv, LockInv, OneTransaction, TargetInv, pkVars

(* Every step keeps the invariant.                                          *)
LEMMA PkStep == PkInv /\ [PkNext]_pkVars => PkInv'
<1> SUFFICES ASSUME PkInv, [PkNext]_pkVars PROVE PkInv'
  OBVIOUS
<1>1. CASE \E o \in Others : OtherBegins(o) \/ OtherEnds(o)
  BY <1>1, OtherBeginsStep, OtherEndsStep
<1>2. CASE PkCallsStart
  <2>1. 0 \in 0 .. MaxVer
    BY DEF PkInv, PkTypes
  <2> QED
    BY <1>2, <2>1, PkStartsStep DEF PkCallsStart
<1> QED
  BY <1>1, <1>2, PkCancelStep, StatLockStep, ProbeLockStep, RemoveLockStep, CommandBeginsStep,
     CommandEndsStep, PkStutter DEF PkNext

(* Repair and every other mutation of pkg, for any other processes, versions and *)
(* lock files: two transactions never change the package database at once,  *)
(* unless rm deleted a lock taken after the probe or one the probe could not see. *)
THEOREM TransactionsExclude ==
    ASSUME MaxVer \in Nat, MaxInodes \in Nat, Agent \notin Others
    PROVE  PkSpec => [](PkTypeOK /\ OneTransaction)
<1>1. PkInit => PkInv
  BY PkInitInv
<1>2. PkInv => PkTypeOK /\ OneTransaction
  BY DEF PkInv, PkTypes, PkTypeOK, PkCallRecords, LockInv
<1> QED
  BY <1>1, <1>2, PkStep, PTL DEF PkSpec

(* Install and Upgrade: no command of the agent leaves an older version than the *)
(* one it found unless the call allows it, whatever changed the package between *)
(* a rejection and its retry (installDnf); pacman does so unasked.          *)
THEOREM DowngradesAllowed ==
    ASSUME MaxVer \in Nat, MaxInodes \in Nat, Agent \notin Others
    PROVE  PkSpec => DowngradesOnlyIfAllowed
<1> DEFINE Older == (/\ pkCall.at = "running" /\ installed' # installed /\ held[Agent] # held'[Agent]
                     /\ blind = "no" /\ pkCall.op # "remove" /\ pm # "pacman")
                    => installed' > installed \/ pkCall.down = "yes"
<1>1. PkInit => PkInv
  BY PkInitInv
<1>2. PkInv /\ [PkNext]_pkVars => [Older]_pkVars
  <2> SUFFICES ASSUME PkInv, PkNext, pkCall.at = "running", installed' # installed,
                      held[Agent] # held'[Agent], blind = "no", pkCall.op # "remove",
                      pm # "pacman", pkCall.down = "no"
               PROVE  installed' > installed
    BY DEF PkInv, PkTypes, PkCallRecords
  <2>1. goal[Agent] >= installed /\ goal[Agent] \in 0 .. MaxVer /\ installed \in 0 .. MaxVer
    BY DEF PkInv, TargetInv, PkTypes, Procs
  <2>2. ASSUME NEW o \in Others, OtherEnds(o) PROVE FALSE
    BY <2>2 DEF OtherEnds, Unlocks, Dies, PkInv, PkTypes, Procs
  <2>3. CASE CommandEnds
    BY <2>1, <2>3 DEF CommandEnds
  <2> QED
    BY Zenon, <2>2, <2>3 DEF PkNext, OtherBegins, PkCallsStart, PkStarts, PkCancel, StatLock, ProbeLock,
                      RemoveLock, CommandBegins
<1> QED
  BY <1>1, <1>2, PkStep, PTL DEF PkSpec, DowngradesOnlyIfAllowed

(* Repair: a call whose context was cancelled before a command could run returns *)
(* the cancellation, never success (bestEffortStep).                        *)
THEOREM CancelledIsReported ==
    ASSUME MaxVer \in Nat, MaxInodes \in Nat, Agent \notin Others
    PROVE  PkSpec => CancelledNotSuccess
<1> DEFINE Told == (/\ pkCall.op = "repair" /\ pkCall.at = "start" /\ pkCall.cut = "yes"
                    /\ pkCall'.at = "idle")
                   => pkResult' = "cancelled"
<1>1. PkInit => PkInv
  BY PkInitInv
<1>2. PkInv /\ [PkNext]_pkVars => [Told]_pkVars
  <2> SUFFICES ASSUME PkInv, PkNext, pkCall.op = "repair", pkCall.at = "start", pkCall.cut = "yes",
                      pkCall'.at = "idle"
               PROVE  pkResult' = "cancelled"
    OBVIOUS
  <2>1. CASE CommandDone("unrun")
    BY <2>1 DEF CommandDone, RepairGoesOn, StepFailed, PkReturns
  <2>2. pkCall # PkIdle
    BY DEF PkIdle
  <2>3. ~(UNCHANGED pkCall)
    OBVIOUS
  <2> QED
    BY Zenon, <2>1, <2>2, <2>3 DEF PkNext, OtherBegins, OtherEnds, PkCallsStart, PkStarts, PkCancel, StatLock,
              ProbeLock, RemoveLock, CommandBegins, CommandEnds, PkGoes, PkInv, PkTypes, PkCallRecords
<1> QED
  BY <1>1, <1>2, PkStep, PTL DEF PkSpec, CancelledNotSuccess

-----------------------------------------------------------------------------
(* repo.  What an Apply promised is in "stands"; the invariant says which   *)
(* promises a call has taken back by each of its steps, and what it has put in *)
(* place.                                                                   *)

(* The steps of a call, and what one is.                                    *)
RepoSteps == {"idle", "clean", "key", "write", "update", "remove", "import", "drop", "add"}
RepoCallRecords == [op : {"none", "apply", "remove"}, name : RepoNames \cup {"none"},
                    cfg : RepoConfigs \cup {NoRepo}, at : RepoSteps, changed : {"no", "yes"},
                    prior : RepoConfigs \cup {NoRepo}]

RepoTypes ==
    /\ MaxRepoCalls \in Nat /\ None \notin Urls
    /\ backend \in {"apt", "dnf", "zypper"}
    /\ source \in [RepoNames -> RepoConfigs \cup {NoRepo}]
    /\ keyring \in [RepoNames -> SignKeys \cup {None}]
    /\ stands \in [RepoNames -> RepoConfigs \cup {NoRepo}]
    /\ unjudged \subseteq RepoNames /\ repoCalls \in 0..MaxRepoCalls
    /\ repoCall \in RepoCallRecords

(* What a call knows at each of its steps, and whose promise it has taken   *)
(* back: that of its own repository and of those it may remove.             *)
RepoCallInv ==
    /\ repoCall.at # "idle" =>
          /\ repoCall.name \in RepoNames /\ stands[repoCall.name] = NoRepo
          /\ repoCall.op = IF repoCall.at = "remove" THEN "remove" ELSE "apply"
    /\ repoCall.at = "remove" => repoCall.cfg = NoRepo
    /\ repoCall.at \notin {"idle", "remove"} => repoCall.cfg \in RepoConfigs
    /\ repoCall.at \in {"clean", "key", "update"} => backend = "apt"
    /\ repoCall.at \in {"import", "drop", "add"} => backend # "apt"
    /\ repoCall.at = "clean" =>
          \A n \in RepoNames : stands[n] # NoRepo => ~Mentions(stands[n], repoCall.cfg.url)
    /\ backend = "apt" /\ repoCall.at \in {"write", "update"} =>
          keyring[repoCall.name] = repoCall.cfg.key
    /\ repoCall.at \in {"update", "import"} => source[repoCall.name] = repoCall.cfg

(* A source of apt's that it rejects has not passed apt-get update.         *)
BadUnjudged ==
    backend = "apt" => \A n \in RepoNames : source[n] # NoRepo /\ Bad(source[n]) => n \in unjudged

(* The inductive invariant.                                                 *)
RepoInv == RepoTypes /\ RepoCallInv /\ AppliedStands /\ BadUnjudged

(* No call.                                                                 *)
LEMMA IdleRecord == RepoIdle \in RepoCallRecords /\ RepoIdle.at = "idle"
BY DEF RepoIdle, RepoCallRecords, RepoSteps

(* Nothing is configured and nothing promised.                              *)
LEMMA RepoInit0 == ASSUME MaxRepoCalls \in Nat, None \notin Urls PROVE RepoInit => RepoInv
<1> SUFFICES ASSUME RepoInit PROVE RepoInv
  OBVIOUS
<1>1. RepoTypes
  BY IdleRecord DEF RepoInit, RepoTypes
<1>2. RepoCallInv
  BY IdleRecord DEF RepoInit, RepoCallInv
<1>3. AppliedStands /\ BadUnjudged
  BY DEF RepoInit, AppliedStands, BadUnjudged
<1> QED
  BY <1>1, <1>2, <1>3 DEF RepoInv

(* A call that returns, whatever it says.                                   *)
LEMMA ReturnsCall == repoCall' = RepoIdle => repoCall' \in RepoCallRecords /\ RepoCallInv'
BY IdleRecord DEF RepoCallInv

(* A call takes back the promises of its own repository and, for apt, of those *)
(* it may remove before it changes anything.                                *)
LEMMA RepoStartsStep ==
    ASSUME RepoInv, NEW op \in {"apply", "remove"}, NEW r \in RepoNames, NEW c \in RepoConfigs \cup {NoRepo},
           op = "apply" => c \in RepoConfigs, op = "remove" => c = NoRepo,
           RepoStarts(op, r, c)
    PROVE  RepoInv'
<1> DEFINE first == IF op = "remove" THEN "remove" ELSE IF backend = "apt" THEN "clean"
                    ELSE IF backend = "dnf" THEN "write" ELSE "drop"
<1>1. /\ repoCall' = [op |-> op, name |-> r, cfg |-> c, changed |-> "no", prior |-> NoRepo, at |-> first]
      /\ first \in {"remove", "clean", "write", "drop"}
  <2>1. CASE op = "remove"
    BY <2>1 DEF RepoStarts
  <2>2. CASE op # "remove" /\ backend = "apt"
    BY <2>2 DEF RepoStarts
  <2>3. CASE op # "remove" /\ backend = "dnf"
    BY <2>3 DEF RepoStarts
  <2>4. CASE op # "remove" /\ backend = "zypper"
    BY <2>4 DEF RepoStarts
  <2> QED
    BY <2>1, <2>2, <2>3, <2>4 DEF RepoInv, RepoTypes
<1>2. /\ first = "remove" <=> op = "remove"
      /\ first = "clean" => backend = "apt"
      /\ first = "write" => backend = "dnf"
      /\ first = "drop" => backend = "zypper"
  BY DEF RepoInv, RepoTypes
<1>3. /\ UNCHANGED <<backend, source, keyring, unjudged>> /\ repoCalls' \in 0..MaxRepoCalls
      /\ stands' \in [RepoNames -> RepoConfigs \cup {NoRepo}] /\ stands'[r] = NoRepo
      /\ \A n \in RepoNames : stands'[n] # NoRepo => stands'[n] = stands[n]
      /\ backend = "apt" /\ op = "apply" =>
           \A n \in RepoNames : stands'[n] # NoRepo => ~Mentions(stands'[n], c.url)
  BY DEF RepoStarts, RepoInv, RepoTypes
<1> HIDE DEF first
<1>4. /\ repoCall' \in RepoCallRecords
      /\ repoCall'.op = op /\ repoCall'.name = r /\ repoCall'.cfg = c /\ repoCall'.at = first
  BY <1>1 DEF RepoCallRecords, RepoSteps
<1>5. RepoTypes'
  BY <1>3, <1>4 DEF RepoInv, RepoTypes
<1>6. RepoCallInv'
  BY <1>1, <1>2, <1>3, <1>4 DEF RepoCallInv, RepoInv, RepoTypes
<1>7. AppliedStands' /\ BadUnjudged'
  BY <1>3 DEF RepoInv, AppliedStands, BadUnjudged
<1> QED
  BY <1>5, <1>6, <1>7 DEF RepoInv

(* A call that goes on remains the call it was.                             *)
LEMMA GoesRecord ==
    ASSUME RepoInv, NEW at \in RepoSteps, NEW changed \in {"no", "yes"}, RepoGoes(at, changed)
    PROVE  /\ repoCall' \in RepoCallRecords
           /\ repoCall'.op = repoCall.op /\ repoCall'.name = repoCall.name
           /\ repoCall'.cfg = repoCall.cfg /\ repoCall'.at = at
BY Zenon DEF RepoInv, RepoTypes, RepoCallRecords, RepoGoes

(* What apt cleans had its promise taken back when the call started.        *)
LEMMA AptCleansStep == RepoInv /\ AptCleans => RepoInv'
<1> SUFFICES ASSUME RepoInv, AptCleans PROVE RepoInv'
  OBVIOUS
<1> DEFINE touched == Conflicting(repoCall.name, repoCall.cfg.url)
<1>1. PICK gone \in SUBSET touched, keys \in SUBSET touched :
         /\ source' = [n \in RepoNames |-> IF n \in gone THEN NoRepo ELSE source[n]]
         /\ keyring' = [n \in RepoNames |-> IF n \in keys THEN None ELSE keyring[n]]
         /\ \/ /\ \E changed \in {"no", "yes"} : RepoGoes("key", changed)
               /\ UNCHANGED stands
            \/ RepoFails
  BY DEF AptCleans
<1>2. /\ repoCall.at = "clean" /\ UNCHANGED <<backend, unjudged, repoCalls, stands>>
      /\ repoCall' = RepoIdle \/ \E changed \in {"no", "yes"} : RepoGoes("key", changed)
  BY <1>1 DEF AptCleans, RepoFails
<1>3. \A n \in touched : n \in RepoNames /\ stands[n] = NoRepo
  BY <1>2 DEF Conflicting, RepoInv, RepoCallInv, AppliedStands
<1>4. /\ repoCall' \in RepoCallRecords
      /\ \/ repoCall' = RepoIdle
         \/ /\ repoCall'.op = repoCall.op /\ repoCall'.name = repoCall.name
            /\ repoCall'.cfg = repoCall.cfg /\ repoCall'.at = "key"
  BY <1>2, GoesRecord, IdleRecord DEF RepoSteps
<1>5. RepoTypes'
  BY <1>1, <1>2, <1>4 DEF RepoInv, RepoTypes
<1>6. RepoCallInv'
  <2>1. CASE repoCall' = RepoIdle
    BY Zenon, <2>1, ReturnsCall
  <2>2. CASE repoCall' # RepoIdle
    BY <1>2, <1>4, <2>2 DEF RepoInv, RepoCallInv
  <2> QED
    BY <2>1, <2>2
<1>7. AppliedStands' /\ BadUnjudged'
  BY <1>1, <1>2, <1>3 DEF RepoInv, RepoTypes, AppliedStands, BadUnjudged
<1> QED
  BY <1>5, <1>6, <1>7 DEF RepoInv

(* The source and the key of the call's repository change, or neither does, *)
(* and the call goes on, fails, or succeeds with both as it asks.           *)
LEMMA OwnStep ==
    ASSUME RepoInv, repoCall.at # "idle", UNCHANGED <<backend, repoCalls>>,
           NEW s \in RepoConfigs \cup {NoRepo}, NEW k \in SignKeys \cup {None},
           source' = [source EXCEPT ![repoCall.name] = s],
           keyring' = [keyring EXCEPT ![repoCall.name] = k],
           unjudged' \subseteq RepoNames,
           \A n \in RepoNames \ {repoCall.name} : n \in unjudged => n \in unjudged',
           backend = "apt" /\ s # NoRepo /\ Bad(s) => repoCall.name \in unjudged',
           \/ RepoFails
           \/ RepoSucceeds /\ s = repoCall.cfg /\ (backend = "apt" /\ s # NoRepo => k = repoCall.cfg.key)
           \/ UNCHANGED stands /\ repoCall' \in RepoCallRecords /\ RepoCallInv'
    PROVE  RepoInv'
<1>1. repoCall.name \in RepoNames /\ stands[repoCall.name] = NoRepo
  BY DEF RepoInv, RepoCallInv
<1>2. repoCall' \in RepoCallRecords /\ RepoCallInv'
  BY ReturnsCall DEF RepoFails, RepoSucceeds
<1>3. repoCall.cfg \in RepoConfigs \cup {NoRepo}
  BY DEF RepoInv, RepoTypes, RepoCallRecords
<1>4. /\ stands' \in [RepoNames -> RepoConfigs \cup {NoRepo}]
      /\ \A n \in RepoNames \ {repoCall.name} : stands'[n] = stands[n]
      /\ stands'[repoCall.name] = NoRepo \/ (stands'[repoCall.name] = repoCall.cfg /\ s = repoCall.cfg
                                             /\ (backend = "apt" /\ s # NoRepo => k = repoCall.cfg.key))
  BY <1>1, <1>3 DEF RepoFails, RepoSucceeds, RepoInv, RepoTypes
<1>5. RepoTypes'
  BY Zenon, <1>2, <1>4 DEF RepoInv, RepoTypes
<1>6. AppliedStands'
  BY <1>1, <1>4 DEF RepoInv, RepoTypes, AppliedStands
<1>7. BadUnjudged'
  BY <1>1 DEF RepoInv, RepoTypes, BadUnjudged
<1> QED
  BY <1>2, <1>5, <1>6, <1>7 DEF RepoInv

(* The key is in place before the source is written.                        *)
LEMMA AptKeyStep == RepoInv /\ AptKey => RepoInv'
<1> SUFFICES ASSUME RepoInv, AptKey PROVE RepoInv'
  OBVIOUS
<1>1. /\ repoCall.at = "key" /\ UNCHANGED <<backend, source, unjudged, repoCalls>>
      /\ repoCall.name \in RepoNames /\ repoCall.cfg \in RepoConfigs /\ backend = "apt"
      /\ repoCall.cfg.key \in SignKeys
  BY DEF AptKey, RepoInv, RepoCallInv, RepoConfigs
<1>2. /\ source' = [source EXCEPT ![repoCall.name] = source[repoCall.name]]
      /\ source[repoCall.name] \in RepoConfigs \cup {NoRepo}
      /\ keyring[repoCall.name] \in SignKeys \cup {None} /\ unjudged' \subseteq RepoNames
      /\ \A n \in RepoNames : source[n] # NoRepo /\ Bad(source[n]) => n \in unjudged'
  BY <1>1 DEF RepoInv, RepoTypes, BadUnjudged
<1>3. CASE RepoFails /\ UNCHANGED keyring
  <2>1. keyring' = [keyring EXCEPT ![repoCall.name] = keyring[repoCall.name]]
    BY <1>3 DEF RepoInv, RepoTypes
  <2> QED
    BY Zenon, <1>1, <1>2, <1>3, <2>1, OwnStep
<1>4. ASSUME keyring' = [keyring EXCEPT ![repoCall.name] = repoCall.cfg.key], UNCHANGED stands,
             NEW changed \in {"no", "yes"}, RepoGoes("write", changed)
      PROVE  RepoInv'
  <2>1. /\ repoCall' \in RepoCallRecords
        /\ repoCall'.op = repoCall.op /\ repoCall'.name = repoCall.name
        /\ repoCall'.cfg = repoCall.cfg /\ repoCall'.at = "write"
    BY <1>4, GoesRecord DEF RepoSteps
  <2>2. RepoCallInv'
    BY <1>1, <1>4, <2>1 DEF RepoInv, RepoTypes, RepoCallInv
  <2> QED
    BY Zenon, <1>1, <1>2, <1>4, <2>1, <2>2, OwnStep
<1>5. repoCall.changed \in {"no", "yes"}
  BY DEF RepoInv, RepoTypes, RepoCallRecords
<1> QED
  BY <1>3, <1>4, <1>5 DEF AptKey

(* The steps that leave the keys as they are.                               *)
LEMMA SourceStep ==
    ASSUME RepoInv, repoCall.at # "idle", UNCHANGED <<backend, keyring, repoCalls>>,
           NEW s \in RepoConfigs \cup {NoRepo},
           source' = [source EXCEPT ![repoCall.name] = s],
           unjudged' \subseteq RepoNames,
           \A n \in RepoNames \ {repoCall.name} : n \in unjudged => n \in unjudged',
           backend = "apt" /\ s # NoRepo /\ Bad(s) => repoCall.name \in unjudged',
           \/ RepoFails
           \/ RepoSucceeds /\ s = repoCall.cfg
              /\ (backend = "apt" /\ s # NoRepo => keyring[repoCall.name] = repoCall.cfg.key)
           \/ UNCHANGED stands /\ repoCall' \in RepoCallRecords /\ RepoCallInv'
    PROVE  RepoInv'
<1>1. /\ keyring[repoCall.name] \in SignKeys \cup {None}
      /\ keyring' = [keyring EXCEPT ![repoCall.name] = keyring[repoCall.name]]
  BY DEF RepoInv, RepoTypes, RepoCallInv
<1> QED
  BY Zenon, <1>1, OwnStep

(* The facts of a call under way that those steps start from.               *)
LEMMA UnderWay ==
    ASSUME RepoInv, repoCall.at # "idle"
    PROVE  /\ repoCall.name \in RepoNames /\ repoCall.cfg \in RepoConfigs \cup {NoRepo}
           /\ repoCall.prior \in RepoConfigs \cup {NoRepo}
           /\ source[repoCall.name] \in RepoConfigs \cup {NoRepo}
           /\ source = [source EXCEPT ![repoCall.name] = source[repoCall.name]]
           /\ unjudged \subseteq RepoNames
           /\ backend = "apt" /\ source[repoCall.name] # NoRepo /\ Bad(source[repoCall.name])
                 => repoCall.name \in unjudged
BY DEF RepoInv, RepoTypes, RepoCallInv, RepoCallRecords, BadUnjudged

(* A source that is written has yet to be judged by apt-get update.         *)
LEMMA AptWritesStep == RepoInv /\ AptWrites => RepoInv'
<1> SUFFICES ASSUME RepoInv, AptWrites PROVE RepoInv'
  OBVIOUS
<1>1. /\ backend = "apt" /\ repoCall.at = "write" /\ UNCHANGED <<backend, keyring, repoCalls>>
      /\ repoCall.cfg \in RepoConfigs /\ keyring[repoCall.name] = repoCall.cfg.key
  BY DEF AptWrites, RepoInv, RepoCallInv
<1>2. CASE UNCHANGED <<source, unjudged>> /\ RepoFails
  BY <1>1, <1>2, UnderWay, SourceStep
<1>3. CASE UNCHANGED <<source, unjudged>> /\ RepoSucceeds /\ source[repoCall.name] = repoCall.cfg
  BY <1>1, <1>3, UnderWay, SourceStep
<1>4. ASSUME NEW changed \in {"no", "yes"}, NEW prior \in RepoConfigs \cup {NoRepo},
             repoCall' = [repoCall EXCEPT !.at = "update", !.changed = changed, !.prior = prior],
             source'[repoCall.name] = repoCall.cfg, UNCHANGED stands
      PROVE  repoCall' \in RepoCallRecords /\ RepoCallInv'
  <2>1. /\ repoCall' \in RepoCallRecords
        /\ repoCall'.op = repoCall.op /\ repoCall'.name = repoCall.name
        /\ repoCall'.cfg = repoCall.cfg /\ repoCall'.at = "update"
    BY Zenon, <1>4 DEF RepoInv, RepoTypes, RepoCallRecords, RepoSteps
  <2> QED
    BY <1>1, <1>4, <2>1 DEF RepoInv, RepoCallInv
<1>5. CASE /\ source[repoCall.name] = repoCall.cfg /\ UNCHANGED <<source, stands, unjudged>>
           /\ repoCall' = [repoCall EXCEPT !.at = "update", !.prior = repoCall.cfg]
  <2>1. /\ repoCall.changed \in {"no", "yes"}
        /\ repoCall' = [repoCall EXCEPT !.at = "update", !.changed = repoCall.changed, !.prior = repoCall.cfg]
    BY Zenon, <1>5 DEF RepoInv, RepoTypes, RepoCallRecords
  <2>2. repoCall' \in RepoCallRecords /\ RepoCallInv'
    BY Zenon, <1>1, <1>4, <1>5, <2>1
  <2> QED
    BY <1>1, <1>5, <2>2, UnderWay, SourceStep
<1>6. CASE /\ source' = [source EXCEPT ![repoCall.name] = repoCall.cfg]
           /\ unjudged' = unjudged \cup {repoCall.name}
           /\ repoCall' = [repoCall EXCEPT !.at = "update", !.changed = "yes",
                                          !.prior = source[repoCall.name]]
           /\ UNCHANGED stands
  <2>1. source'[repoCall.name] = repoCall.cfg
    BY <1>1, <1>6, UnderWay DEF RepoInv, RepoTypes
  <2>2. repoCall' \in RepoCallRecords /\ RepoCallInv'
    BY Zenon, <1>1, <1>4, <1>6, <2>1, UnderWay
  <2> QED
    BY Zenon, <1>1, <1>6, <2>2, UnderWay, SourceStep
<1> QED
  BY <1>2, <1>3, <1>5, <1>6 DEF AptWrites

(* Only an update that is content with a source clears it; one that rejects it *)
(* leads to the prior one, or leaves it as unjudged.                        *)
LEMMA AptUpdatesStep == RepoInv /\ AptUpdates => RepoInv'
<1> SUFFICES ASSUME RepoInv, AptUpdates PROVE RepoInv'
  OBVIOUS
<1>1. /\ backend = "apt" /\ repoCall.at = "update" /\ UNCHANGED <<backend, keyring, repoCalls>>
      /\ repoCall.cfg \in RepoConfigs /\ keyring[repoCall.name] = repoCall.cfg.key
      /\ source[repoCall.name] = repoCall.cfg
  BY DEF AptUpdates, RepoInv, RepoCallInv
<1>2. CASE ~Bad(repoCall.cfg) /\ RepoSucceeds /\ UNCHANGED source /\ unjudged' = unjudged \ {repoCall.name}
  BY <1>1, <1>2, UnderWay, SourceStep
<1>3. CASE RepoSucceeds /\ UNCHANGED <<source, unjudged>>
  BY <1>1, <1>3, UnderWay, SourceStep
<1>4. CASE /\ Bad(repoCall.cfg) /\ RepoFails
           /\ source' = [source EXCEPT ![repoCall.name] = repoCall.prior]
           /\ unjudged' = IF Bad(repoCall.prior) THEN unjudged ELSE unjudged \ {repoCall.name}
  <2>0. repoCall.cfg # NoRepo
    BY <1>1 DEF NoRepo, RepoConfigs, RepoInv, RepoTypes
  <2>1. Bad(repoCall.prior) => repoCall.name \in unjudged
    BY <1>1, <1>4, <2>0, UnderWay
  <2> QED
    BY Zenon, <1>1, <1>4, <2>1, UnderWay, SourceStep
<1>5. CASE Bad(repoCall.cfg) /\ RepoFails /\ UNCHANGED <<source, unjudged>>
  BY <1>1, <1>5, UnderWay, SourceStep
<1> QED
  BY <1>2, <1>3, <1>4, <1>5 DEF AptUpdates

(* Remove drops the source, and with it what was unjudged.                  *)
LEMMA RepoRemovesStep == RepoInv /\ RepoRemoves => RepoInv'
<1> SUFFICES ASSUME RepoInv, RepoRemoves PROVE RepoInv'
  OBVIOUS
<1>1. /\ repoCall.at = "remove" /\ UNCHANGED <<backend, repoCalls>> /\ repoCall.cfg = NoRepo
  BY DEF RepoRemoves, RepoInv, RepoCallInv
<1>2. CASE RepoFails /\ UNCHANGED <<source, keyring, unjudged>>
  BY <1>1, <1>2, UnderWay, SourceStep
<1>3. CASE /\ source' = [source EXCEPT ![repoCall.name] = NoRepo]
           /\ keyring' \in {keyring, [keyring EXCEPT ![repoCall.name] =
                                       IF backend = "apt" THEN None ELSE @]}
           /\ unjudged' = unjudged \ {repoCall.name}
           /\ RepoSucceeds \/ RepoFails
  <2>1. PICK k \in SignKeys \cup {None} : keyring' = [keyring EXCEPT ![repoCall.name] = k]
    <3>1. keyring[repoCall.name] \in SignKeys \cup {None}
      BY <1>1, UnderWay DEF RepoInv, RepoTypes
    <3>2. keyring' = [keyring EXCEPT ![repoCall.name] = keyring[repoCall.name]]
          \/ keyring' = [keyring EXCEPT ![repoCall.name] = None]
      BY <1>3 DEF RepoInv, RepoTypes
    <3> QED
      BY <3>1, <3>2
  <2>2. /\ unjudged' \subseteq RepoNames
        /\ \A n \in RepoNames \ {repoCall.name} : n \in unjudged => n \in unjudged'
    BY <1>3, <1>1, UnderWay
  <2> QED
    BY Zenon, <1>1, <1>3, <2>1, <2>2, UnderWay, OwnStep
<1> QED
  BY <1>2, <1>3 DEF RepoRemoves

(* applyDnf.                                                                *)
LEMMA DnfWritesStep == RepoInv /\ DnfWrites => RepoInv'
<1> SUFFICES ASSUME RepoInv, DnfWrites PROVE RepoInv'
  OBVIOUS
<1>1. /\ backend = "dnf" /\ repoCall.at = "write" /\ UNCHANGED <<backend, keyring, unjudged, repoCalls>>
      /\ repoCall.cfg \in RepoConfigs
  BY DEF DnfWrites, RepoInv, RepoCallInv
<1>2. CASE UNCHANGED source /\ RepoFails
  BY <1>1, <1>2, UnderWay, SourceStep
<1>3. CASE UNCHANGED source /\ RepoSucceeds /\ source[repoCall.name] = repoCall.cfg
  BY <1>1, <1>3, UnderWay, SourceStep
<1>4. CASE /\ source' = [source EXCEPT ![repoCall.name] = repoCall.cfg]
           /\ RepoGoes("import", "yes") /\ UNCHANGED stands
  <2>1. /\ repoCall' \in RepoCallRecords
        /\ repoCall'.op = repoCall.op /\ repoCall'.name = repoCall.name
        /\ repoCall'.cfg = repoCall.cfg /\ repoCall'.at = "import"
    BY <1>4, GoesRecord DEF RepoSteps
  <2>2. RepoCallInv'
    BY <1>1, <1>4, <2>1, UnderWay DEF RepoInv, RepoTypes, RepoCallInv
  <2> QED
    BY Zenon, <1>1, <1>4, <2>1, <2>2, UnderWay, SourceStep
<1> QED
  BY <1>2, <1>3, <1>4 DEF DnfWrites

(* The import of the key, which may fail.                                   *)
LEMMA RpmImportStep == RepoInv /\ RpmImport => RepoInv'
<1> SUFFICES ASSUME RepoInv, RpmImport PROVE RepoInv'
  OBVIOUS
<1>1. /\ repoCall.at = "import" /\ RepoSucceeds /\ UNCHANGED <<backend, source, unjudged, repoCalls>>
      /\ source[repoCall.name] = repoCall.cfg /\ backend # "apt" /\ repoCall.cfg.key \in SignKeys
  BY DEF RpmImport, RepoInv, RepoCallInv, RepoConfigs
<1>2. PICK k \in SignKeys \cup {None} : keyring' = [keyring EXCEPT ![repoCall.name] = k]
  <2>1. keyring[repoCall.name] \in SignKeys \cup {None}
    BY <1>1, UnderWay DEF RepoInv, RepoTypes
  <2>2. keyring' = [keyring EXCEPT ![repoCall.name] = keyring[repoCall.name]]
        \/ keyring' = [keyring EXCEPT ![repoCall.name] = repoCall.cfg.key]
    BY DEF RpmImport, RepoInv, RepoTypes
  <2> QED
    BY <1>1, <2>1, <2>2
<1> QED
  BY Zenon, <1>1, <1>2, UnderWay, OwnStep

(* removerepo, which may fail.                                              *)
LEMMA ZypperDropsStep == RepoInv /\ ZypperDrops => RepoInv'
<1> SUFFICES ASSUME RepoInv, ZypperDrops PROVE RepoInv'
  OBVIOUS
<1>1. /\ repoCall.at = "drop" /\ UNCHANGED <<backend, keyring, stands, unjudged, repoCalls>>
      /\ backend # "apt" /\ RepoGoes("add", "no")
  BY DEF ZypperDrops, RepoInv, RepoCallInv
<1>2. PICK s \in RepoConfigs \cup {NoRepo} : source' = [source EXCEPT ![repoCall.name] = s]
  BY <1>1, UnderWay DEF ZypperDrops
<1>3. /\ repoCall' \in RepoCallRecords
      /\ repoCall'.op = repoCall.op /\ repoCall'.name = repoCall.name
      /\ repoCall'.cfg = repoCall.cfg /\ repoCall'.at = "add"
  BY <1>1, GoesRecord DEF RepoSteps
<1>4. RepoCallInv'
  BY <1>1, <1>3 DEF RepoInv, RepoCallInv
<1> QED
  BY Zenon, <1>1, <1>2, <1>3, <1>4, UnderWay, SourceStep

(* addrepo and modifyrepo.                                                  *)
LEMMA ZypperAddsStep == RepoInv /\ ZypperAdds => RepoInv'
<1> SUFFICES ASSUME RepoInv, ZypperAdds PROVE RepoInv'
  OBVIOUS
<1>1. /\ repoCall.at = "add" /\ UNCHANGED <<backend, keyring, unjudged, repoCalls>> /\ backend # "apt"
      /\ repoCall.cfg \in RepoConfigs
  BY DEF ZypperAdds, RepoInv, RepoCallInv
<1>2. CASE RepoFails /\ UNCHANGED source
  BY <1>1, <1>2, UnderWay, SourceStep
<1>3. CASE RepoFails /\ source' = [source EXCEPT ![repoCall.name] = repoCall.cfg]
  BY Zenon, <1>1, <1>3, UnderWay, SourceStep
<1>4. CASE /\ source' = [source EXCEPT ![repoCall.name] = repoCall.cfg]
           /\ RepoGoes("import", "yes") /\ UNCHANGED stands
  <2>1. /\ repoCall' \in RepoCallRecords
        /\ repoCall'.op = repoCall.op /\ repoCall'.name = repoCall.name
        /\ repoCall'.cfg = repoCall.cfg /\ repoCall'.at = "import"
    BY <1>4, GoesRecord DEF RepoSteps
  <2>2. RepoCallInv'
    BY <1>1, <1>4, <2>1, UnderWay DEF RepoInv, RepoTypes, RepoCallInv
  <2> QED
    BY Zenon, <1>1, <1>4, <2>1, <2>2, UnderWay, SourceStep
<1> QED
  BY <1>2, <1>3, <1>4 DEF ZypperAdds

(* The agent is killed.                                                     *)
LEMMA RepoKilledStep == RepoInv /\ RepoKilled => RepoInv'
<1> SUFFICES ASSUME RepoInv, RepoKilled PROVE RepoInv'
  OBVIOUS
<1>1. RepoFails /\ UNCHANGED <<backend, source, keyring, unjudged, repoCalls>>
  BY DEF RepoKilled
<1>2. repoCall' \in RepoCallRecords /\ RepoCallInv' /\ UNCHANGED stands
  BY <1>1, ReturnsCall DEF RepoFails
<1>3. RepoTypes'
  BY <1>1, <1>2 DEF RepoInv, RepoTypes
<1>4. AppliedStands' /\ BadUnjudged'
  BY <1>1, <1>2 DEF RepoInv, AppliedStands, BadUnjudged
<1> QED
  BY <1>2, <1>3, <1>4 DEF RepoInv

(* A step of something else.                                                *)
LEMMA RepoStutter == RepoInv /\ UNCHANGED repoVars => RepoInv'
BY DEF RepoInv, RepoTypes, RepoCallInv, AppliedStands, BadUnjudged, repoVars

(* Apply and Remove of apt, dnf and zypper, for any repositories, URLs and keys: *)
(* what an Apply reported done stays as it asked through failures and kills of *)
(* later calls, until one names it or a URL its source contains; and no source *)
(* that apt rejects is reported done once an update has judged it.          *)
THEOREM RepositoriesStand ==
    ASSUME MaxRepoCalls \in Nat, None \notin Urls
    PROVE  RepoSpec => [](RepoTypeOK /\ AppliedStands /\ RejectedNeverStands)
<1>1. RepoInit => RepoInv
  BY RepoInit0
<1>2. RepoInv /\ [RepoNext]_repoVars => RepoInv'
  <2> SUFFICES ASSUME RepoInv, [RepoNext]_repoVars PROVE RepoInv'
    OBVIOUS
  <2>1. ASSUME NEW r \in RepoNames, NEW c \in RepoConfigs, RepoStarts("apply", r, c) PROVE RepoInv'
    BY <2>1, RepoStartsStep
  <2>2. ASSUME NEW r \in RepoNames, RepoStarts("remove", r, NoRepo) PROVE RepoInv'
    BY <2>2, RepoStartsStep
  <2>3. CASE UNCHANGED repoVars
    BY <2>3, RepoStutter
  <2> QED
    BY <2>1, <2>2, <2>3, AptCleansStep, AptKeyStep, AptWritesStep, AptUpdatesStep, RepoRemovesStep,
       DnfWritesStep, RpmImportStep, ZypperDropsStep, ZypperAddsStep, RepoKilledStep DEF RepoNext
<1>3. RepoInv => RepoTypeOK /\ AppliedStands /\ RejectedNeverStands
  BY DEF RepoInv, RepoTypes, RepoTypeOK, RepoCallRecords, RepoSteps, AppliedStands, BadUnjudged,
         RejectedNeverStands
<1> QED
  BY <1>1, <1>2, <1>3, PTL DEF RepoSpec
=============================================================================
