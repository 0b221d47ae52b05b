------------------------------ MODULE MCHost -------------------------------
(***************************************************************************)
(* What the agent does on its host over time, for model checking: it keeps  *)
(* WiFi profiles (WifiProfile), runs a shell in a terminal (TerminalSession)  *)
(* and commands (ExecRunner), and waits for a maintenance window             *)
(* (MaintenanceWindow).  A behaviour is one   *)
(* of them: they share no state, so that one run checks all, and its states  *)
(* are the sum of theirs.                                                  *)
(***************************************************************************)
EXTENDS WifiProfile, MaintenanceWindow

CONSTANTS Closers, Resizers, LineLengths, MaxLines, ChanCap, MaxOutputBytes

VARIABLES
    part,
    shell, stranger, told, hit, ptyOpen, fdMu, reaper, recorded, done, once, pc,
    reader, waiter,
    ctx, child, denied, stubborn, wedged, written, pumped, closed, drainer,
    drained, bytes, kept, caller, signals, result

Terminal == INSTANCE TerminalSession
Exec == INSTANCE ExecRunner

ASSUME CallersAssumption ==
    /\ Closers \cap Resizers = {}
    /\ {Terminal!Nobody, Terminal!Reaper} \cap (Closers \cup Resizers) = {}

terminalVars == <<shell, stranger, told, hit, ptyOpen, fdMu, reaper, recorded, done,
                  once, pc, reader, waiter>>
execVars == <<ctx, child, denied, stubborn, wedged, written, pumped, closed,
              drainer, drained, bytes, kept, caller, signals, result>>
hostVars == <<part, vars, windowVars, terminalVars, execVars>>

(* Windows of two groups at the most: without entries, with an entry on      *)
(* every weekday pattern that matters (none, the last, the first, across the *)
(* end of the week, two in a row), alone, with another entry, or with a      *)
(* group whose range runs through midnight into Sunday.                     *)
Entry(days, start, end) == [days |-> days, start |-> start, end |-> end]
OneEntry ==
    {Entry(on, start, end) : on \in {{}, {0}, {6}, {0, 6}, {2, 3}},
                             start \in Minutes, end \in Minutes}
TwoGroups ==
    {{}, {{}}} \cup UNION {{ {{e}}, {{e}, {}}, {{e, Entry({0}, 1, 2)}},
                             {{e}, {Entry({6}, 2, 1)}} } : e \in OneEntry}

(* A part that does not run is in one state.                                *)
HostInit ==
    /\ part \in {"wifi", "shell", "command", "window"}
    /\ Init /\ WindowInit /\ Terminal!Init /\ Exec!Init
    /\ part # "command" => ctx = "live" /\ ~denied /\ ~stubborn /\ ~wedged
    /\ part # "window" => windows = {} /\ day = 0

InWifi(A) == part = "wifi" /\ A /\ UNCHANGED <<part, windowVars, terminalVars, execVars>>
InShell(A) == part = "shell" /\ A /\ UNCHANGED <<part, vars, windowVars, execVars>>
InCommand(A) == part = "command" /\ A /\ UNCHANGED <<part, vars, windowVars, terminalVars>>
InWindow(A) == part = "window" /\ A /\ UNCHANGED <<part, vars, terminalVars, execVars>>

HostNext ==
    \/ InWifi(Next)
    \/ InShell(Terminal!Next)
    \/ InCommand(Exec!Next)
    \/ InWindow(Tick)

(* The fairness of the module that runs.                                    *)
HostFairness ==
    /\ WF_hostVars(InWifi(ApplyStarts))
    /\ WF_hostVars(InWifi(DeleteStarts))
    /\ WF_hostVars(InWifi(Step))
    /\ WF_hostVars(InShell(told /\ Terminal!ShellExits))
    /\ SF_hostVars(InShell(Terminal!ReapLocks))
    /\ WF_hostVars(InShell(Terminal!ReapWaits \/ Terminal!ReapRecords
                            \/ Terminal!ReapCloses \/ Terminal!ReapDone))
    /\ \A c \in Closers :
          /\ SF_hostVars(InShell(Terminal!CloseEnters(c) /\ once # "new"))
          /\ SF_hostVars(InShell(Terminal!CloseLocks(c)))
          /\ WF_hostVars(InShell(Terminal!CloseChecks(c) \/ Terminal!CloseKills(c)
                                  \/ Terminal!CloseCloses(c)))
    /\ \A z \in Resizers : WF_hostVars(InShell(Terminal!ResizeReturns(z)))
    /\ WF_hostVars(InShell(Terminal!ReadEnds)) /\ WF_hostVars(InShell(Terminal!WaitReturns))
    /\ WF_hostVars(InCommand(Exec!Library))
    /\ WF_hostVars(InCommand(Exec!Drain))
    /\ WF_hostVars(InCommand(Exec!Caller))
    /\ WF_hostVars(InWindow(Tick))

HostSpec == HostInit /\ [][HostNext]_hostVars /\ HostFairness

-----------------------------------------------------------------------------
(* The variables keep their types.  Terminal: the PTY is not closed while    *)
(* Resize uses its descriptor, and Wait is released with the exit code in    *)
(* place (reap).  Commands: what is kept of a stream is the longest run of   *)
(* its first lines that fits MaxOutputBytes (recordLine); a call whose       *)
(* context lives to the end returns everything both streams carried, up to   *)
(* the cap, and tells a refused escalation from a failure of the command;    *)
(* when a call returns, the child has exited or its group has been killed.  *)
HostConsistent ==
    /\ part = "wifi" => TypeOK
    /\ part = "window" => WindowTypeOK
    /\ part = "shell" =>
          Terminal!TypeOK /\ Terminal!WaitSeesExitCode /\ Terminal!NoCloseDuringSetsize
    /\ part = "command" =>
          /\ Exec!TypeOK /\ Exec!KeptIsPrefix
          /\ Exec!CompleteUnlessCancelled /\ Exec!NoOrphan

(* Close ends the session whatever interleaves with it, and a cancelled call *)
(* returns whatever the child does (awaitStatusOrKill).                     *)
ProcessEnds == Terminal!CloseEndsSession /\ Exec!CancelledReturns
=============================================================================
