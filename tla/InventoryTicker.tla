-------------------------- MODULE InventoryTicker ---------------------------
(***************************************************************************)
(* The inventory goroutine of each Run (client.go): it collects on connect   *)
(* and on every tick and sends with up to three attempts.  Run does not wait  *)
(* for it, so that it may still be at work when the Client is connected      *)
(* again and c.stream is the stream of the next Run.                       *)
(***************************************************************************)
EXTENDS Naturals

CONSTANTS
    MaxConnects,    \* bound: Runs
    MaxAttempts,    \* maxAttempts
    MaxTicks        \* bound: ticks of the 24-hour tickers

Connects == 1 .. MaxConnects

VARIABLES
    current,    \* the current or last Run
    phase,      \* of that Run: "up", "cancelled" (heartbeatCtx is done), "closed"
    tk,         \* each goroutine: its step, the attempt, the stream it read, the ticker's
                \* channel ("none" before there is a ticker); and of the last inventory,
                \* whether it was sent and how often that failed
    strayed,    \* "yes": an inventory went out on another Run's stream
    ticks

tickVars == <<current, phase, tk, strayed, ticks>>

NotStarted == [at |-> "off", attempt |-> 0, on |-> 0, tick |-> "none", sent |-> "yes", failed |-> 0]

TickInit ==
    /\ current = 0 /\ phase = "closed" /\ tk = [r \in Connects |-> NotStarted]
    /\ strayed = "no" /\ ticks = 0

CtxDone(r) == r # current \/ phase # "up"
cStream == IF phase = "closed" THEN 0 ELSE current

-----------------------------------------------------------------------------
(* Run connects; its deferred calls cancel the context and then close.       *)
RunStarts ==
    /\ phase = "closed" /\ current < MaxConnects
    /\ current' = current + 1 /\ phase' = "up"
    /\ tk' = [tk EXCEPT ![current + 1].at = "collect"]
    /\ UNCHANGED <<strayed, ticks>>
RunCancels == phase = "up" /\ phase' = "cancelled" /\ UNCHANGED <<current, tk, strayed, ticks>>
RunCloses == phase = "cancelled" /\ phase' = "closed" /\ UNCHANGED <<current, tk, strayed, ticks>>

(* A tick that finds one in the channel is dropped.                        *)
Ticks(r) ==
    /\ tk[r].at # "ended" /\ tk[r].tick # "none" /\ ticks < MaxTicks
    /\ ticks' = ticks + 1 /\ tk' = [tk EXCEPT ![r].tick = "full"]
    /\ UNCHANGED <<current, phase, strayed>>

-----------------------------------------------------------------------------
(* Done with an inventory: on to the select, with a ticker from then on.     *)
Waits(t) == [t EXCEPT !.at = "wait", !.tick = IF @ = "none" THEN "empty" ELSE @]

(* CollectInventory has an inventory, declines, or panics: safeGo recovers,   *)
(* and this Run sends no more.                                             *)
Collect(r) ==
    /\ tk[r].at = "collect"
    /\ \/ tk' = [tk EXCEPT ![r] = [@ EXCEPT !.at = "send", !.attempt = 1, !.sent = "no",
                                           !.failed = 0]]
       \/ tk' = [tk EXCEPT ![r] = Waits(@)]
       \/ tk' = [tk EXCEPT ![r].at = "ended"]
    /\ UNCHANGED <<current, phase, strayed, ticks>>

(* sendWithRetry, after an attempt that failed.                            *)
GivesUpAtOnce(r) == TRUE
GivesUp(r) == tk[r].attempt = MaxAttempts \/ CtxDone(r)
AfterFailure(r) ==
    LET t == [tk[r] EXCEPT !.failed = @ + 1]
    IN  IF GivesUp(r) THEN Waits(t) ELSE [t EXCEPT !.at = "backoff"]
Failed(r) == tk' = [tk EXCEPT ![r] = AfterFailure(r)]

(* send reads c.stream and then refuses a context that is done.              *)
ReadStream(r) ==
    /\ tk[r].at = "send"
    /\ IF cStream = 0 THEN Failed(r)
       ELSE tk' = [tk EXCEPT ![r].at = "refuse?", ![r].on = cStream]
    /\ UNCHANGED <<current, phase, strayed, ticks>>

RefusesNobody(r) == FALSE
Refuses(r) == CtxDone(r)
CheckCtx(r) ==
    /\ tk[r].at = "refuse?"
    /\ IF Refuses(r) THEN Failed(r) ELSE tk' = [tk EXCEPT ![r].at = "sending"]
    /\ UNCHANGED <<current, phase, strayed, ticks>>

(* stream.Send succeeds on a stream that is open, or fails; once the context  *)
(* is done send no longer waits for it, and it may still have gone out.      *)
SendReturns(r) ==
    /\ tk[r].at = "sending"
    /\ \/ /\ tk[r].on = cStream
          /\ strayed' = IF tk[r].on # r THEN "yes" ELSE strayed
          /\ \/ tk' = [tk EXCEPT ![r] = [Waits(@) EXCEPT !.sent = "yes"]]
             \/ CtxDone(r) /\ Failed(r)
       \/ Failed(r) /\ UNCHANGED strayed
    /\ UNCHANGED <<current, phase, ticks>>

BackoffEnds(r) ==
    /\ tk[r].at = "backoff"
    /\ \/ CtxDone(r) /\ tk' = [tk EXCEPT ![r] = Waits(@)]
       \/ tk' = [tk EXCEPT ![r] = [@ EXCEPT !.at = "send", !.attempt = tk[r].attempt + 1]]
    /\ UNCHANGED <<current, phase, strayed, ticks>>

SelectWakes(r) ==
    /\ tk[r].at = "wait"
    /\ \/ CtxDone(r) /\ tk' = [tk EXCEPT ![r].at = "ended"]
       \/ /\ tk[r].tick = "full"
          /\ tk' = [tk EXCEPT ![r] = [@ EXCEPT !.at = "collect", !.tick = "empty"]]
    /\ UNCHANGED <<current, phase, strayed, ticks>>

Goroutine(r) ==
    Collect(r) \/ ReadStream(r) \/ CheckCtx(r) \/ SendReturns(r) \/ BackoffEnds(r) \/ SelectWakes(r)
TickNext ==
    \/ RunStarts \/ RunCancels \/ RunCloses
    \/ \E r \in Connects : Ticks(r) \/ Goroutine(r)

-----------------------------------------------------------------------------
TickTypeOK ==
    /\ current \in 0 .. MaxConnects /\ phase \in {"up", "cancelled", "closed"}
    /\ \A r \in Connects : tk[r].attempt \in 0 .. MaxAttempts

(* sendWithRetry: as long as the Run lasts, an inventory that was collected    *)
(* is not given up, and left for the next day, before MaxAttempts sends of     *)
(* it have failed.                                                         *)
NoStalledInventory ==
    \A r \in Connects :
        tk[r].at = "wait" /\ tk[r].sent = "no" /\ ~CtxDone(r) => tk[r].failed >= MaxAttempts

(* The goroutine of a Run that has ended, which may be in its back-off or in   *)
(* CollectInventory when the Client connects again, sends nothing on the       *)
(* stream of the next Run, though send takes whatever c.stream is by then.    *)
OnOwnStream == strayed = "no"

(* The goroutine ends after its Run, in whichever step that finds it.         *)
TickerEnds ==
    \A r \in Connects : (tk[r].at # "off" /\ CtxDone(r)) ~> tk[r].at = "ended"
=============================================================================
