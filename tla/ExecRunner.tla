----------------------------- MODULE ExecRunner ----------------------------
(***************************************************************************)
(* One call of Runner.Run or Runner.Stream (sys/exec): the child, the pump  *)
(* of the go-cmd library from its pipes to two channels, the goroutine that *)
(* drains the channels, and the caller with its context and its grace       *)
(* timers.  A line is its length; MaxOutputBytes caps what is kept of a     *)
(* stream.                                                                 *)
(***************************************************************************)
EXTENDS Integers, Sequences, SequencesExt

CONSTANTS
    LineLengths,        \* lengths of lines
    MaxLines,           \* bound: lines the child writes to a stream
    ChanCap,            \* capacity of go-cmd's channels
    MaxOutputBytes

Streams == {"stdout", "stderr"}
Other(s) == IF s = "stdout" THEN "stderr" ELSE "stdout"

VARIABLES
    ctx,        \* "live" or "cancelled"
    child,      \* "none", "running" or "exited"
    denied,     \* it is a sudo or doas -n that refuses
    stubborn,   \* it ignores SIGTERM
    wedged,     \* it cannot be reaped, even killed
    written,    \* the lines it has written to each stream
    pumped,     \* how many of them are through to the channel
    closed,     \* go-cmd has closed the channels; the status is there
    drainer,    \* the draining goroutine: "none", "select", a stream, "done"
    drained,    \* how many lines of each stream it has received
    bytes,      \* stdoutBytes, stderrBytes
    kept,       \* stdoutBuf, stderrBuf: the lines kept, by number
    caller,     \* the step of the caller
    signals,    \* the signals sent to the process group
    result      \* what the call returned

vars == <<ctx, child, denied, stubborn, wedged, written, pumped, closed, drainer,
          drained, bytes, kept, caller, signals, result>>
childVars == <<child, denied, stubborn, wedged>>
drainVars == <<drainer, drained, bytes, kept>>

TotalBytes(lines) == FoldLeft(LAMBDA sum, n : sum + n, 0, lines)

NoResult == [err |-> "none", truncated |-> {}]
Zero == [s \in Streams |-> 0]

Init ==
    /\ ctx \in {"live", "cancelled"}
    /\ child = "none"
    /\ denied \in BOOLEAN /\ stubborn \in BOOLEAN /\ wedged \in BOOLEAN
    /\ denied => ~stubborn /\ ~wedged
    /\ written = [s \in Streams |-> <<>>]
    /\ pumped = Zero
    /\ closed = FALSE
    /\ drainer = "none" /\ drained = Zero /\ bytes = Zero
    /\ kept = [s \in Streams |-> <<>>]
    /\ caller = "start"
    /\ signals = {}
    /\ result = NoResult

Cancel ==
    /\ ctx = "live"
    /\ ctx' = "cancelled"
    /\ UNCHANGED <<childVars, written, pumped, closed, drainVars, caller, signals, result>>

-----------------------------------------------------------------------------
(* The child and go-cmd.                                                   *)

(* The pipe holds a line the channel has no room for; the child then waits. *)
Write(s, n) ==
    /\ child = "running"
    /\ ~denied \/ (s = "stderr" /\ written[s] = <<>>)
    /\ Len(written[s]) < MaxLines
    /\ pumped[s] = Len(written[s])
    /\ written' = [written EXCEPT ![s] = Append(@, n)]
    /\ UNCHANGED <<ctx, childVars, pumped, closed, drainVars, caller, signals, result>>

(* A refusing wrapper has said so before it exits.                         *)
Exit ==
    /\ child = "running"
    /\ denied => written["stderr"] # <<>>
    /\ child' = "exited"
    /\ UNCHANGED <<ctx, denied, stubborn, wedged, written, pumped, closed, drainVars,
                   caller, signals, result>>

(* A signal that the child does not ignore.                                *)
DiesOfSignal ==
    /\ child = "running"
    /\ ~wedged
    /\ "KILL" \in signals \/ ("TERM" \in signals /\ ~stubborn)
    /\ child' = "exited"
    /\ UNCHANGED <<ctx, denied, stubborn, wedged, written, pumped, closed, drainVars,
                   caller, signals, result>>

Pump(s) ==
    /\ pumped[s] < Len(written[s])
    /\ pumped[s] - drained[s] < ChanCap
    /\ pumped' = [pumped EXCEPT ![s] = @ + 1]
    /\ UNCHANGED <<ctx, childVars, written, closed, drainVars, caller, signals, result>>

(* The child is reaped and its output is through: the channels are closed   *)
(* and the status is sent.                                                 *)
GoCmdEnds ==
    /\ child = "exited" /\ ~wedged /\ ~closed
    /\ \A s \in Streams : pumped[s] = Len(written[s])
    /\ closed' = TRUE
    /\ UNCHANGED <<ctx, childVars, written, pumped, drainVars, caller, signals, result>>

-----------------------------------------------------------------------------
(* The draining goroutine.                                                 *)

Keeps(s, n) == bytes[s] + n <= MaxOutputBytes

(* recordLine: a line is counted, and kept while the count is in the cap.   *)
RecordLine(s) ==
    LET n == written[s][drained[s] + 1] IN
    /\ drained' = [drained EXCEPT ![s] = @ + 1]
    /\ bytes' = [bytes EXCEPT ![s] = @ + n]
    /\ kept' = IF Keeps(s, n) THEN [kept EXCEPT ![s] = Append(@, n)] ELSE kept

DrainLine(s) ==
    /\ drainer \in {"select", s}
    /\ drained[s] < pumped[s]
    /\ RecordLine(s)
    /\ UNCHANGED <<ctx, childVars, written, pumped, closed, drainer, caller, signals, result>>

(* Mutant of StreamClosed: the other stream is not drained.                *)
StreamClosedReturns(s) ==
    /\ closed /\ drained[s] = pumped[s]
    /\ drainer \in {"select", s}
    /\ drainer' = "done"
    /\ UNCHANGED <<ctx, childVars, written, pumped, closed, drained, bytes, kept,
                   caller, signals, result>>

(* A stream is at its end: drainRemaining of the other, whatever the        *)
(* context, then the goroutine returns.                                    *)
StreamClosed(s) ==
    /\ closed /\ drained[s] = pumped[s]
    /\ \/ drainer = "select" /\ drainer' = Other(s)
       \/ drainer = s /\ drainer' = "done"
    /\ UNCHANGED <<ctx, childVars, written, pumped, closed, drained, bytes, kept,
                   caller, signals, result>>

DrainCancelled ==
    /\ drainer = "select"
    /\ ctx = "cancelled"
    /\ drainer' = "done"
    /\ UNCHANGED <<ctx, childVars, written, pumped, closed, drained, bytes, kept,
                   caller, signals, result>>

-----------------------------------------------------------------------------
(* The caller: exec, runStreamingWithStdin and awaitStatusOrKill.          *)

(* A dead context, no name, a blocked variable, no command or no wrapper:   *)
(* nothing is started.                                                     *)
Refuse ==
    /\ caller = "start"
    /\ caller' = "returned"
    /\ result' = [err |-> IF ctx = "cancelled" THEN "cancelled" ELSE "refused", truncated |-> {}]
    /\ UNCHANGED <<ctx, childVars, written, pumped, closed, drainVars, signals>>

Start ==
    /\ caller = "start"
    /\ ctx = "live"
    /\ child' = "running"
    /\ drainer' = "select"
    /\ caller' = "select"
    /\ UNCHANGED <<ctx, denied, stubborn, wedged, written, pumped, closed, drained,
                   bytes, kept, signals, result>>

GotStatus ==
    /\ caller = "select"
    /\ closed
    /\ caller' = "ended"
    /\ UNCHANGED <<ctx, childVars, written, pumped, closed, drainVars, signals, result>>

(* ctx.Done: SIGTERM to the group, and killGrace for the status.           *)
GotCancel ==
    /\ caller = "select"
    /\ ctx = "cancelled"
    /\ caller' = "term"
    /\ signals' = {"TERM"}
    /\ UNCHANGED <<ctx, childVars, written, pumped, closed, drainVars, result>>

GotStatusInGrace ==
    /\ caller \in {"term", "kill"}
    /\ closed
    /\ caller' = "stopped"
    /\ UNCHANGED <<ctx, childVars, written, pumped, closed, drainVars, signals, result>>

(* Mutant of TermGraceOver: the group is not killed.                       *)
TermGraceOverGivesUp ==
    /\ caller = "term"
    /\ caller' = "stopped"
    /\ UNCHANGED <<ctx, childVars, written, pumped, closed, drainVars, signals, result>>

TermGraceOver ==
    /\ caller = "term"
    /\ caller' = "kill"
    /\ signals' = signals \cup {"KILL"}
    /\ UNCHANGED <<ctx, childVars, written, pumped, closed, drainVars, result>>

(* Mutant of KillGraceOver: the status is waited for.                      *)
KillGraceOverWaits ==
    /\ caller = "kill"
    /\ closed
    /\ caller' = "stopped"
    /\ UNCHANGED <<ctx, childVars, written, pumped, closed, drainVars, signals, result>>

KillGraceOver ==
    /\ caller = "kill"
    /\ caller' = "stopped"
    /\ UNCHANGED <<ctx, childVars, written, pumped, closed, drainVars, signals, result>>

(* detectEscalationDenied looks for the wrapper's words in what was kept.   *)
SaysDenied == denied /\ kept["stderr"] # <<>>

(* After <-done: the result, with the mark of a stream over the cap.       *)
Return ==
    /\ caller \in {"ended", "stopped"}
    /\ drainer = "done"
    /\ caller' = "returned"
    /\ result' = [err |-> IF caller = "stopped" THEN "cancelled"
                          ELSE IF SaysDenied THEN "denied" ELSE "nil",
                  truncated |-> {s \in Streams : bytes[s] > MaxOutputBytes}]
    /\ UNCHANGED <<ctx, childVars, written, pumped, closed, drainVars, signals>>

-----------------------------------------------------------------------------
Library == DiesOfSignal \/ GoCmdEnds \/ \E s \in Streams : Pump(s)
Drain == DrainCancelled \/ \E s \in Streams : DrainLine(s) \/ StreamClosed(s)
Caller ==
    \/ Refuse \/ Start \/ GotStatus \/ GotCancel \/ GotStatusInGrace
    \/ TermGraceOver \/ KillGraceOver \/ Return

Next ==
    \/ Cancel \/ Exit \/ \E s \in Streams, n \in LineLengths : Write(s, n)
    \/ Library \/ Drain \/ Caller

Spec == Init /\ [][Next]_vars

(* The goroutines run and the timers fire; the child need not do anything   *)
(* but die of the signals it cannot ignore.                                *)
Fairness == WF_vars(Library) /\ WF_vars(Drain) /\ WF_vars(Caller)

FairSpec == Spec /\ Fairness

-----------------------------------------------------------------------------
Steps == {"start", "select", "term", "kill", "ended", "stopped", "returned"}

(* The variables keep their types.                                         *)
TypeOK ==
    /\ ctx \in {"live", "cancelled"}
    /\ child \in {"none", "running", "exited"}
    /\ {denied, stubborn, wedged, closed} \subseteq BOOLEAN
    /\ \A s \in Streams : /\ written[s] \in BoundedSeq(LineLengths, MaxLines)
                          /\ drained[s] <= pumped[s] /\ pumped[s] <= Len(written[s])
                          /\ pumped[s] - drained[s] <= ChanCap
    /\ drainer \in Streams \cup {"none", "select", "done"}
    /\ caller \in Steps
    /\ signals \in SUBSET {"TERM", "KILL"}

(* What is kept of a stream is the longest run of its first lines that fits *)
(* the cap: a short line after one that did not fit is not kept, and the    *)
(* mark of truncation says when something is missing.                      *)
KeptIsPrefix ==
    \A s \in Streams :
        /\ IsPrefix(kept[s], written[s])
        /\ TotalBytes(kept[s]) <= MaxOutputBytes
        /\ Len(kept[s]) < drained[s] =>
              TotalBytes(SubSeq(written[s], 1, Len(kept[s]) + 1)) > MaxOutputBytes

(* A call whose context lives to the end returns everything both streams    *)
(* carried, up to the cap, and tells a refused escalation from a failure of *)
(* the command.                                                            *)
CompleteUnlessCancelled ==
    caller = "returned" /\ ctx = "live" /\ child # "none" =>
        /\ \A s \in Streams : drained[s] = Len(written[s])
        /\ result.err = "denied" <=> denied /\ Head(written["stderr"]) <= MaxOutputBytes

(* A cancelled call does not leave the child alone: when it returns, the    *)
(* child has exited or its group has been killed.                          *)
NoOrphan ==
    caller = "returned" => child # "running" \/ "KILL" \in signals

(* A cancelled call returns, whether the child ignores SIGTERM, cannot be   *)
(* reaped, or has filled a channel that nobody drains any more.            *)
CancelledReturns == ctx = "cancelled" ~> caller = "returned"

(* "Run executes c and returns its captured output ... a non-nil error      *)
(* means ... ctx cancelled" (Runner): without an error the output is        *)
(* complete.  It does not hold: the status may win the race with ctx.       *)
NoErrorIsComplete ==
    caller = "returned" /\ result.err = "nil" =>
        \A s \in Streams : drained[s] = Len(written[s])
=============================================================================
