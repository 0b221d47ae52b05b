-------------------------- MODULE TerminalSession --------------------------
(***************************************************************************)
(* A PTY shell session (sys/terminal): the shell, the reaper goroutine,    *)
(* and the goroutines that call Close, Resize, Read and Wait.              *)
(***************************************************************************)
CONSTANTS
    Closers,    \* goroutines that call Close
    Resizers    \* goroutines that call Resize

Nobody == "nobody"
Reaper == "reaper"

VARIABLES
    shell,      \* "running", "zombie" (exited), or "gone" (waited for)
    stranger,   \* another process group has the shell's id by now
    told,       \* the shell has got SIGTERM or SIGHUP
    hit,        \* a stranger has got SIGTERM
    ptyOpen,    \* the PTY master
    fdMu,       \* who holds s.fdMu
    reaper,     \* the step of reap
    recorded,   \* waitErr and exitCode are set
    done,       \* s.done is closed
    once,       \* closeOnce: "new", "running" or "over"
    pc,         \* of each caller of Close and Resize
    reader,     \* a goroutine in Read: "reading" or "ended"
    waiter      \* a goroutine in Wait: "waiting", or what it returned

shellVars == <<shell, stranger, told, hit>>
ioVars == <<reader, waiter>>
vars == <<shellVars, ptyOpen, fdMu, reaper, recorded, done, once, pc, ioVars>>

(* Open has started the shell and the reaper.                              *)
Init ==
    /\ shell = "running" /\ stranger = FALSE /\ told = FALSE /\ hit = FALSE
    /\ ptyOpen = TRUE /\ fdMu = Nobody
    /\ reaper = "wait" /\ recorded = FALSE /\ done = FALSE
    /\ once = "new"
    /\ pc = [c \in Closers \cup Resizers |-> "idle"]
    /\ reader = "reading" /\ waiter = "waiting"

-----------------------------------------------------------------------------
ShellExits ==
    /\ shell = "running"
    /\ shell' = "zombie"
    /\ UNCHANGED <<stranger, told, hit, ptyOpen, fdMu, reaper, recorded, done,
                   once, pc, ioVars>>

(* The id of a process group nobody is in any more is given out again.     *)
IdReused ==
    /\ shell = "gone" /\ ~stranger
    /\ stranger' = TRUE
    /\ UNCHANGED <<shell, told, hit, ptyOpen, fdMu, reaper, recorded, done,
                   once, pc, ioVars>>

-----------------------------------------------------------------------------
(* reap: cmd.Wait, the exit code, the PTY, done.                           *)

ReapWaits ==
    /\ reaper = "wait"
    /\ shell = "zombie"
    /\ shell' = "gone"
    /\ reaper' = "record"
    /\ UNCHANGED <<stranger, told, hit, ptyOpen, fdMu, recorded, done, once,
                   pc, ioVars>>

(* Mutant of ReapRecords: done is closed before the exit code is there.    *)
ReapRecordsLate ==
    /\ reaper = "record"
    /\ done' = TRUE
    /\ reaper' = "lock"
    /\ UNCHANGED <<shellVars, ptyOpen, fdMu, recorded, once, pc, ioVars>>

ReapRecords ==
    /\ reaper = "record"
    /\ recorded' = TRUE
    /\ reaper' = "lock"
    /\ UNCHANGED <<shellVars, ptyOpen, fdMu, done, once, pc, ioVars>>

ReapLocks ==
    /\ reaper = "lock"
    /\ fdMu = Nobody
    /\ fdMu' = Reaper
    /\ reaper' = "close"
    /\ UNCHANGED <<shellVars, ptyOpen, recorded, done, once, pc, ioVars>>

ReapCloses ==
    /\ reaper = "close"
    /\ ptyOpen' = FALSE
    /\ fdMu' = Nobody
    /\ reaper' = "done"
    /\ UNCHANGED <<shellVars, recorded, done, once, pc, ioVars>>

ReapDone ==
    /\ reaper = "done"
    /\ done' = TRUE
    /\ reaper' = "over"
    /\ UNCHANGED <<shellVars, ptyOpen, fdMu, recorded, once, pc, ioVars>>

-----------------------------------------------------------------------------
(* Close.                                                                  *)

At(c, l) == pc' = [pc EXCEPT ![c] = l]

(* closeOnce: the first caller does the work, the others wait for it.      *)
CloseEnters(c) ==
    /\ pc[c] = "idle"
    /\ \/ once = "new" /\ once' = "running" /\ At(c, "check")
       \/ once = "over" /\ At(c, "returned") /\ UNCHANGED once
    /\ UNCHANGED <<shellVars, ptyOpen, fdMu, reaper, recorded, done, ioVars>>

CloseChecks(c) ==
    /\ pc[c] = "check"
    /\ At(c, IF done THEN "lock" ELSE "kill")
    /\ UNCHANGED <<shellVars, ptyOpen, fdMu, reaper, recorded, done, once, ioVars>>

(* SIGTERM to the process group: the shell's, nobody's, or a stranger's.   *)
CloseKills(c) ==
    /\ pc[c] = "kill"
    /\ told' = (told \/ shell = "running")
    /\ hit' = (hit \/ stranger)
    /\ At(c, "lock")
    /\ UNCHANGED <<shell, stranger, ptyOpen, fdMu, reaper, recorded, done, once,
                   ioVars>>

CloseLocks(c) ==
    /\ pc[c] = "lock"
    /\ fdMu = Nobody
    /\ fdMu' = c
    /\ At(c, "close")
    /\ UNCHANGED <<shellVars, ptyOpen, reaper, recorded, done, once, ioVars>>

(* Mutant of CloseCloses: an early return leaves the mutex locked.         *)
CloseClosesLocked(c) ==
    /\ pc[c] = "close"
    /\ ptyOpen' = FALSE
    /\ told' = (told \/ (ptyOpen /\ shell = "running"))
    /\ once' = "over"
    /\ At(c, "returned")
    /\ UNCHANGED <<shell, stranger, hit, fdMu, reaper, recorded, done, ioVars>>

(* Closing the master hangs up on the shell.                               *)
CloseCloses(c) ==
    /\ pc[c] = "close"
    /\ ptyOpen' = FALSE
    /\ told' = (told \/ (ptyOpen /\ shell = "running"))
    /\ fdMu' = Nobody
    /\ once' = "over"
    /\ At(c, "returned")
    /\ UNCHANGED <<shell, stranger, hit, reaper, recorded, done, ioVars>>

-----------------------------------------------------------------------------
(* Mutant of ResizeLocks: the mutex is not taken.                          *)
ResizeUnlocked(z) ==
    /\ pc[z] = "idle"
    /\ At(z, "setsize")
    /\ UNCHANGED <<shellVars, ptyOpen, fdMu, reaper, recorded, done, once, ioVars>>

(* Resize with valid dimensions takes the mutex and reads the fd; one with *)
(* a zero dimension returns at once.                                       *)
ResizeLocks(z) ==
    /\ pc[z] = "idle"
    /\ fdMu = Nobody
    /\ fdMu' = z
    /\ At(z, "setsize")
    /\ UNCHANGED <<shellVars, ptyOpen, reaper, recorded, done, once, ioVars>>

ResizeReturns(z) ==
    /\ pc[z] = "setsize"
    /\ fdMu' = IF fdMu = z THEN Nobody ELSE fdMu
    /\ At(z, "idle")
    /\ UNCHANGED <<shellVars, ptyOpen, reaper, recorded, done, once, ioVars>>

(* A blocked Read returns when the master is closed or nobody has the      *)
(* other end.                                                              *)
ReadEnds ==
    /\ reader = "reading"
    /\ ~ptyOpen \/ shell # "running"
    /\ reader' = "ended"
    /\ UNCHANGED <<shellVars, ptyOpen, fdMu, reaper, recorded, done, once, pc,
                   waiter>>

WaitReturns ==
    /\ waiter = "waiting"
    /\ done
    /\ waiter' = IF recorded THEN "exit code" ELSE "zero value"
    /\ UNCHANGED <<shellVars, ptyOpen, fdMu, reaper, recorded, done, once, pc,
                   reader>>

-----------------------------------------------------------------------------
Reap == ReapWaits \/ ReapRecords \/ ReapLocks \/ ReapCloses \/ ReapDone
Close(c) ==
    CloseEnters(c) \/ CloseChecks(c) \/ CloseKills(c) \/ CloseLocks(c) \/ CloseCloses(c)

Next ==
    \/ ShellExits \/ IdReused \/ Reap \/ ReadEnds \/ WaitReturns
    \/ \E c \in Closers : Close(c)
    \/ \E z \in Resizers : ResizeLocks(z) \/ ResizeReturns(z)

Spec == Init /\ [][Next]_vars

(* Goroutines run, whoever waits for fdMu gets it, and a shell that has    *)
(* been told to stop exits.                                                *)
Fairness ==
    /\ WF_vars(told /\ ShellExits)
    /\ SF_vars(ReapLocks)
    /\ WF_vars(ReapWaits \/ ReapRecords \/ ReapCloses \/ ReapDone)
    /\ \A c \in Closers : SF_vars(CloseEnters(c) /\ once # "new")
                          /\ SF_vars(CloseLocks(c))
                          /\ WF_vars(CloseChecks(c) \/ CloseKills(c) \/ CloseCloses(c))
    /\ \A z \in Resizers : WF_vars(ResizeReturns(z))
    /\ WF_vars(ReadEnds) /\ WF_vars(WaitReturns)

FairSpec == Spec /\ Fairness

-----------------------------------------------------------------------------
(* The variables keep their types; the mutex belongs to whoever is between *)
(* its Lock and Unlock.                                                    *)
TypeOK ==
    /\ shell \in {"running", "zombie", "gone"}
    /\ {stranger, told, hit, ptyOpen, recorded, done} \subseteq BOOLEAN
    /\ fdMu \in Closers \cup Resizers \cup {Reaper, Nobody}
    /\ reaper \in {"wait", "record", "lock", "close", "done", "over"}
    /\ once \in {"new", "running", "over"}
    /\ pc \in [Closers \cup Resizers -> {"idle", "check", "kill", "lock", "close",
                                         "setsize", "returned"}]
    /\ reader \in {"reading", "ended"}
    /\ waiter \in {"waiting", "exit code", "zero value"}
    /\ fdMu = Reaper <=> reaper = "close"
    /\ \A x \in Closers \cup Resizers : fdMu = x <=> pc[x] \in {"close", "setsize"}

(* fdMu: no Resize is inside Setsize, which reads the raw fd, while the    *)
(* reaper or Close closes the PTY.                                         *)
NoCloseDuringSetsize ==
    \A z \in Resizers : pc[z] = "setsize" =>
        reaper # "close" /\ \A c \in Closers : pc[c] # "close"

(* reap against Wait: whoever Wait releases sees the recorded exit code.   *)
WaitSeesExitCode == waiter # "zero value"

(* Close ends the session: the shell that it tells to stop is reaped, Read *)
(* and Wait return, and so does every other Close, under any interleaving  *)
(* with Resize and with the shell exiting by itself.                       *)
CloseEndsSession ==
    (once # "new") ~>
        /\ done /\ reader = "ended" /\ waiter # "waiting"
        /\ \A c \in Closers : pc[c] \in {"idle", "returned"}

(* Close: "Only signal the shell while it is still running."  It does not   *)
(* hold: done is closed some time after the id of the shell is free.       *)
StrangersUnharmed == ~hit
=============================================================================
