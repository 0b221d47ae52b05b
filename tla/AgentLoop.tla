----------------------------- MODULE AgentLoop -----------------------------
(***************************************************************************)
(* The goroutines of Run (client.go): the receive goroutine, the main loop  *)
(* with dispatchServerMessage, the heartbeat goroutine, and the             *)
(* RequestInventory and RevokeLuksDeviceKey handlers that run beside the    *)
(* loop under a semaphore of their own.  The receive goroutine reads        *)
(* c.stream anew before every frame and hands the frame over through msgCh; *)
(* a revoke asks the server for the key (GetLuksKey), and the answer comes  *)
(* through the very loop that started it; a Welcome hands a new interval to *)
(* the heartbeat goroutine through a channel of capacity one.              *)
(*                                                                         *)
(* Each Run opens one stream, so a stream has the number of its Run.  What *)
(* a frame carries is chosen when it is dispatched.                        *)
(***************************************************************************)
EXTENDS Integers, FiniteSets

CONSTANTS
    MaxRuns,        \* bound: how many times Run is called on the same Client
    Tasks,          \* goroutine identities
    InvCap,         \* inventoryDispatchConcurrency
    LuksCap,        \* luksRevokeDispatchConcurrency
    MinHeartbeatInterval, MaxHeartbeatInterval,
    InitialInterval,    \* the interval Run is called with
    Requested           \* intervals a Welcome may ask for; 0 is unset

ASSUME BoundsAssumption == MaxRuns \in Nat /\ InvCap \in Nat /\ LuksCap \in Nat
ASSUME IntervalAssumption ==
    /\ MinHeartbeatInterval \in Nat \ {0} /\ MaxHeartbeatInterval \in Nat
    /\ MinHeartbeatInterval <= MaxHeartbeatInterval
    /\ InitialInterval \in Nat \ {0} /\ Requested \subseteq Int

Runs == 1..MaxRuns
NoFrame == "none"
Frame == "frame"
Err == "err"
Empty == -1
Stopped == 0

Loop == "loop"
Nobody == "nobody"
ASSUME TaskAssumption == Loop \notin Tasks /\ Nobody \notin Tasks

VARIABLES
    run,        \* the current or last Run
    stream,     \* c.stream: the number of a stream, or 0
    broken,     \* streams that failed or were closed
    opened,     \* streams whose first frame was read
    ctxDone,    \* Runs whose ctx was cancelled
    receiver,   \* the step of each Run's receive goroutine
    at,         \* the stream it blocks on
    held,       \* the frame it has to hand over, Err or NoFrame
    unread,     \* frames it has read and the main loop has not taken
    msgCh,      \* the content of each Run's msgCh (capacity 1), or NoFrame
    loop,       \* the step of the main loop of the current Run
    kind,       \* of each goroutine: "inventory", "revoke", or "free"
    step,       \* of each goroutine
    invSem,     \* tokens in c.invSem
    luksRevokeSem,  \* tokens in c.luksRevokeSem
    sender,     \* who is inside stream.Send
    hb          \* the heartbeat: its update channel, the interval of its ticker
                \* (Stopped when the goroutine has returned), and the interval
                \* the last Welcome of the Run asked for

linkVars == <<run, stream, broken, opened>>
recvVars == <<receiver, at, held>>
taskVars == <<kind, step, invSem, luksRevokeSem>>
vars == <<linkVars, ctxDone, recvVars, msgCh, unread, loop, taskVars, sender, hb>>

NoHeartbeat == [ch |-> Empty, ticker |-> Stopped, wanted |-> Empty]

Init ==
    /\ run = 0 /\ stream = 0 /\ broken = {} /\ opened = {} /\ ctxDone = {}
    /\ receiver = [r \in Runs |-> "off"]
    /\ at = [r \in Runs |-> 0]
    /\ held = [r \in Runs |-> NoFrame]
    /\ unread = [r \in Runs |-> 0]
    /\ msgCh = [r \in Runs |-> NoFrame]
    /\ loop = "off"
    /\ kind = [t \in Tasks |-> "free"]
    /\ step = [t \in Tasks |-> "none"]
    /\ invSem = 0 /\ luksRevokeSem = 0
    /\ sender = Nobody
    /\ hb = NoHeartbeat

(* Run connects, publishes a fresh update channel, and starts its heartbeat *)
(* and receive goroutines.                                                 *)
StartRun ==
    /\ loop = "off"
    /\ run < MaxRuns
    /\ run' = run + 1
    /\ stream' = run + 1
    /\ receiver' = [receiver EXCEPT ![run + 1] = "reading"]
    /\ loop' = "idle"
    /\ hb' = [NoHeartbeat EXCEPT !.ticker = InitialInterval]
    /\ UNCHANGED <<broken, opened, ctxDone, at, held, msgCh, unread,
                   taskVars, sender>>

Break ==
    /\ stream # 0
    /\ broken' = broken \cup {stream}
    /\ UNCHANGED <<run, stream, opened, ctxDone, recvVars, msgCh, unread,
                   loop, taskVars, sender, hb>>

CancelCtx(r) ==
    /\ receiver[r] # "off"
    /\ ctxDone' = ctxDone \cup {r}
    /\ UNCHANGED <<linkVars, recvVars, msgCh, unread, loop, taskVars, sender, hb>>

-----------------------------------------------------------------------------
(* The receive goroutine of Run r.                                         *)

(* Receive reads c.stream; without one it returns an error.                *)
ReadPointer(r) ==
    /\ receiver[r] = "reading"
    /\ \/ /\ stream = 0
          /\ receiver' = [receiver EXCEPT ![r] = "pushing"]
          /\ held' = [held EXCEPT ![r] = Err]
          /\ UNCHANGED at
       \/ /\ stream # 0
          /\ receiver' = [receiver EXCEPT ![r] = "blocked"]
          /\ at' = [at EXCEPT ![r] = stream]
          /\ UNCHANGED held
    /\ UNCHANGED <<linkVars, ctxDone, msgCh, unread, loop, taskVars, sender, hb>>

(* stream.Receive returns the next frame of the stream, or an error once it *)
(* is broken or closed.                                                    *)
FrameArrives(r) ==
    /\ receiver[r] = "blocked"
    /\ at[r] \notin broken
    /\ held' = [held EXCEPT ![r] = Frame]
    /\ unread' = [unread EXCEPT ![r] = @ + 1]
    /\ opened' = opened \cup {at[r]}
    /\ receiver' = [receiver EXCEPT ![r] = "pushing"]
    /\ UNCHANGED <<run, stream, broken, ctxDone, at, msgCh, loop,
                   taskVars, sender, hb>>

ReceiveFails(r) ==
    /\ receiver[r] = "blocked"
    /\ at[r] \in broken
    /\ held' = [held EXCEPT ![r] = Err]
    /\ receiver' = [receiver EXCEPT ![r] = "pushing"]
    /\ UNCHANGED <<linkVars, ctxDone, at, msgCh, unread, loop, taskVars, sender, hb>>

(* Mutant of Push: a second frame overwrites the one the loop has not      *)
(* taken yet.                                                              *)
PushOverwrites(r) ==
    /\ receiver[r] = "pushing"
    /\ msgCh' = [msgCh EXCEPT ![r] = held[r]]
    /\ receiver' = [receiver EXCEPT ![r] = IF held[r] = Err THEN "gone" ELSE "reading"]
    /\ held' = [held EXCEPT ![r] = NoFrame]
    /\ UNCHANGED <<linkVars, ctxDone, at, unread, loop, taskVars, sender, hb>>

(* The select: msgCh, or the ctx.  After an error the goroutine returns.   *)
Push(r) ==
    /\ receiver[r] = "pushing"
    /\ msgCh[r] = NoFrame
    /\ msgCh' = [msgCh EXCEPT ![r] = held[r]]
    /\ receiver' = [receiver EXCEPT ![r] = IF held[r] = Err THEN "gone" ELSE "reading"]
    /\ held' = [held EXCEPT ![r] = NoFrame]
    /\ UNCHANGED <<linkVars, ctxDone, at, unread, loop, taskVars, sender, hb>>

(* Mutant of PushAbandoned: the push does not watch the ctx.               *)
PushNeverAbandoned(r) == FALSE /\ UNCHANGED vars

PushAbandoned(r) ==
    /\ receiver[r] = "pushing"
    /\ r \in ctxDone
    /\ receiver' = [receiver EXCEPT ![r] = "gone"]
    /\ held' = [held EXCEPT ![r] = NoFrame]
    /\ UNCHANGED <<linkVars, ctxDone, at, msgCh, unread, loop, taskVars, sender, hb>>

-----------------------------------------------------------------------------
(* The main loop of the current Run.                                       *)

(* It takes the next frame from msgCh.                                     *)
NextFrame ==
    /\ loop = "idle"
    /\ msgCh[run] = Frame
    /\ msgCh' = [msgCh EXCEPT ![run] = NoFrame]
    /\ unread' = [unread EXCEPT ![run] = @ - 1]

(* Frames whose handler runs on the loop: Query, LogQuery, Error without a  *)
(* waiter, Terminal*.  A Welcome without an interval is another.           *)
DispatchInline ==
    /\ NextFrame
    /\ loop' = "handling"
    /\ UNCHANGED <<linkVars, ctxDone, recvVars, taskVars, sender, hb>>

(* Malformed and unknown frames, frames for a handler that is not           *)
(* implemented, deliveries that go to the worker, and requests at capacity. *)
DispatchDrops ==
    /\ NextFrame
    /\ UNCHANGED <<linkVars, ctxDone, recvVars, loop, taskVars, sender, hb>>

(* The handler returns with nothing to send, or with an error that ends the *)
(* Run; a panic is recovered and the frame dropped.                        *)
InlineReturns ==
    /\ loop = "handling"
    /\ loop' \in {"idle", "leaving"}
    /\ UNCHANGED <<linkVars, ctxDone, recvVars, msgCh, unread, taskVars, sender, hb>>

LoopSeesError ==
    /\ loop = "idle"
    /\ msgCh[run] = Err
    /\ msgCh' = [msgCh EXCEPT ![run] = NoFrame]
    /\ loop' = "leaving"
    /\ UNCHANGED <<linkVars, ctxDone, recvVars, unread, taskVars, sender, hb>>

LoopSeesCtx ==
    /\ loop = "idle"
    /\ run \in ctxDone
    /\ loop' = "leaving"
    /\ UNCHANGED <<linkVars, ctxDone, recvVars, msgCh, unread, taskVars, sender, hb>>

(* Run's deferred calls, once the delivery worker is joined: the heartbeat  *)
(* is cancelled and its channel unpublished, and Close takes the stream     *)
(* down and ends every wait for an answer.                                 *)
RunReturns ==
    /\ loop = "leaving"
    /\ loop' = "off"
    /\ broken' = broken \cup {stream}
    /\ stream' = 0
    /\ hb' = NoHeartbeat
    /\ step' = [t \in Tasks |-> IF step[t] = "asking" THEN "answered" ELSE step[t]]
    /\ UNCHANGED <<run, opened, ctxDone, recvVars, msgCh, unread,
                   kind, invSem, luksRevokeSem, sender>>

-----------------------------------------------------------------------------
(* Welcome: applyWelcomeHeartbeat, then OnWelcome.                         *)

Clamp(w) ==
    IF w < MinHeartbeatInterval THEN MinHeartbeatInterval
    ELSE IF w > MaxHeartbeatInterval THEN MaxHeartbeatInterval
    ELSE w

(* Mutant of WelcomeDrains: a pending value is left in the channel.        *)
WelcomeKeepsPending(w) ==
    /\ NextFrame
    /\ w > 0
    /\ loop' = "pushing"
    /\ hb' = [hb EXCEPT !.wanted = w]
    /\ UNCHANGED <<linkVars, ctxDone, recvVars, taskVars, sender>>

(* applyWelcomeHeartbeat up to the drain of a stale pending value.         *)
WelcomeDrains(w) ==
    /\ NextFrame
    /\ w > 0
    /\ loop' = "pushing"
    /\ hb' = [hb EXCEPT !.wanted = w, !.ch = Empty]
    /\ UNCHANGED <<linkVars, ctxDone, recvVars, taskVars, sender>>

(* The push, skipped when the channel is full; then the handler runs.      *)
WelcomePushes ==
    /\ loop = "pushing"
    /\ loop' = "handling"
    /\ hb' = [hb EXCEPT !.ch = IF @ = Empty THEN Clamp(hb.wanted) ELSE @]
    /\ UNCHANGED <<linkVars, ctxDone, recvVars, msgCh, unread, taskVars, sender>>

(* The heartbeat goroutine resets its ticker.                              *)
TakeUpdate ==
    /\ hb.ticker # Stopped
    /\ hb.ch # Empty
    /\ hb' = [hb EXCEPT !.ticker = hb.ch, !.ch = Empty]
    /\ UNCHANGED <<linkVars, ctxDone, recvVars, msgCh, unread, loop, taskVars, sender>>

(* SendHeartbeat fails: the goroutine returns, the Run goes on.            *)
HeartbeatFails ==
    /\ hb.ticker # Stopped
    /\ hb' = [hb EXCEPT !.ticker = Stopped]
    /\ UNCHANGED <<linkVars, ctxDone, recvVars, msgCh, unread, loop, taskVars, sender>>

-----------------------------------------------------------------------------
(* RequestInventory and RevokeLuksDeviceKey.                               *)

StartTask(t, k) ==
    /\ kind[t] = "free"
    /\ kind' = [kind EXCEPT ![t] = k]
    /\ step' = [step EXCEPT ![t] = "handler"]

(* Take a token and start a goroutine.                                     *)
DispatchRequestInventory(t) ==
    /\ NextFrame
    /\ invSem < InvCap
    /\ invSem' = invSem + 1
    /\ StartTask(t, "inventory")
    /\ UNCHANGED <<linkVars, ctxDone, recvVars, loop, luksRevokeSem, sender, hb>>

(* Mutant of DispatchRevoke: the handler runs on the loop.                 *)
DispatchRevokeInline(t) ==
    /\ NextFrame
    /\ luksRevokeSem < LuksCap
    /\ luksRevokeSem' = luksRevokeSem + 1
    /\ StartTask(t, "revoke")
    /\ loop' = "revoking"
    /\ UNCHANGED <<linkVars, ctxDone, recvVars, invSem, sender, hb>>

DispatchRevoke(t) ==
    /\ NextFrame
    /\ luksRevokeSem < LuksCap
    /\ luksRevokeSem' = luksRevokeSem + 1
    /\ StartTask(t, "revoke")
    /\ UNCHANGED <<linkVars, ctxDone, recvVars, loop, invSem, sender, hb>>

(* The response a waiting revoke asked for.                                *)
DispatchResponse(t) ==
    /\ NextFrame
    /\ step[t] = "asking"
    /\ step' = [step EXCEPT ![t] = "answered"]
    /\ UNCHANGED <<linkVars, ctxDone, recvVars, loop, kind, invSem, luksRevokeSem, sender, hb>>

(* The goroutine ends: the deferred release of its token.                  *)
Finish(t) ==
    /\ kind' = [kind EXCEPT ![t] = "free"]
    /\ step' = [step EXCEPT ![t] = "none"]
    /\ invSem' = IF kind[t] = "inventory" THEN invSem - 1 ELSE invSem
    /\ luksRevokeSem' = IF kind[t] = "revoke" THEN luksRevokeSem - 1 ELSE luksRevokeSem

(* OnRevokeLuksDeviceKey calls GetLuksKey, which fails at once when there  *)
(* is no stream.                                                           *)
RevokeAsks(t) ==
    /\ kind[t] = "revoke" /\ step[t] = "handler"
    /\ step' = [step EXCEPT ![t] = IF stream = 0 THEN "answered" ELSE "asking"]
    /\ UNCHANGED <<linkVars, ctxDone, recvVars, msgCh, unread, loop, kind,
                   invSem, luksRevokeSem, sender, hb>>

(* Mutant of TaskEnds: the token is not given back after a panic.          *)
TaskEndsKeepsToken(t) ==
    /\ step[t] \in {"handler", "answered"}
    /\ kind' = [kind EXCEPT ![t] = "free"]
    /\ step' = [step EXCEPT ![t] = "none"]
    /\ UNCHANGED <<linkVars, ctxDone, recvVars, msgCh, unread, loop,
                   invSem, luksRevokeSem, sender, hb>>

(* It declines (a nil inventory) or panics (safeGo recovers).              *)
TaskEnds(t) ==
    /\ step[t] \in {"handler", "answered"}
    /\ Finish(t)
    /\ UNCHANGED <<linkVars, ctxDone, recvVars, msgCh, unread, loop, sender, hb>>

-----------------------------------------------------------------------------
(* A handler returns with something to send (a query result, an inventory,  *)
(* the outcome of a revocation) and gets the send slot.                    *)
SendStarts(x) ==
    /\ sender = Nobody
    /\ \/ /\ x = Loop /\ loop = "handling"
          /\ loop' = "replying"
          /\ UNCHANGED step
       \/ /\ x \in Tasks
          /\ \/ kind[x] = "inventory" /\ step[x] = "handler"
             \/ kind[x] = "revoke" /\ step[x] = "answered"
          /\ step' = [step EXCEPT ![x] = "sending"]
          /\ UNCHANGED loop
    /\ sender' = x
    /\ UNCHANGED <<linkVars, ctxDone, recvVars, msgCh, unread, kind, invSem, luksRevokeSem, hb>>

(* The loop's Send fails: that ends the Run; a goroutine's is only logged. *)
SendEnds(x) ==
    /\ sender = x
    /\ sender' = Nobody
    /\ \/ x = Loop /\ loop' \in {"idle", "leaving"} /\ UNCHANGED taskVars
       \/ x \in Tasks /\ Finish(x) /\ UNCHANGED loop
    /\ UNCHANGED <<linkVars, ctxDone, recvVars, msgCh, unread, hb>>

-----------------------------------------------------------------------------
Receiver(r) ==
    \/ ReadPointer(r) \/ FrameArrives(r) \/ ReceiveFails(r) \/ Push(r)
    \/ PushAbandoned(r)

Task(t) ==
    \/ DispatchRequestInventory(t) \/ DispatchRevoke(t) \/ DispatchResponse(t)
    \/ RevokeAsks(t) \/ TaskEnds(t)

Next ==
    \/ StartRun \/ Break
    \/ DispatchInline \/ DispatchDrops \/ InlineReturns
    \/ LoopSeesError \/ LoopSeesCtx \/ RunReturns
    \/ WelcomePushes \/ TakeUpdate \/ HeartbeatFails
    \/ \E w \in Requested : WelcomeDrains(w)
    \/ \E r \in Runs : CancelCtx(r) \/ Receiver(r)
    \/ \E t \in Tasks : Task(t)
    \/ \E x \in Tasks \cup {Loop} : SendStarts(x) \/ SendEnds(x)

(* Goroutines run, handlers return, and a closed stream's Receive returns;  *)
(* a live server answers what is asked, so a response that can be           *)
(* dispatched again and again is.  A goroutine whose handler has returned   *)
(* ends, with or without a turn in the send slot, because send gives up     *)
(* when the ctx is done.                                                   *)
Fairness ==
    /\ WF_vars(LoopSeesError) /\ WF_vars(LoopSeesCtx)
    /\ WF_vars(InlineReturns) /\ WF_vars(RunReturns) /\ WF_vars(WelcomePushes)
    /\ \A r \in Runs :
        /\ WF_vars(ReadPointer(r) \/ ReceiveFails(r) \/ Push(r) \/ PushAbandoned(r))
        /\ WF_vars(FrameArrives(r) /\ \E t \in Tasks : step[t] = "asking")
    /\ \A t \in Tasks :
        /\ SF_vars(DispatchResponse(t))
        /\ WF_vars(RevokeAsks(t) \/ TaskEnds(t) \/ SendStarts(t) \/ SendEnds(t))
    /\ WF_vars(SendEnds(Loop))

Spec == Init /\ [][Next]_vars
FairSpec == Spec /\ Fairness

-----------------------------------------------------------------------------
Accepted == MinHeartbeatInterval..MaxHeartbeatInterval

(* The variables keep their types, the semaphores their capacity; the       *)
(* ticker runs at the caller's interval or within [MinHeartbeatInterval,    *)
(* MaxHeartbeatInterval], whatever the server asks for.                    *)
TypeOK ==
    /\ run \in 0..MaxRuns /\ stream \in {0, run}
    /\ broken \subseteq Runs /\ opened \subseteq Runs /\ ctxDone \subseteq Runs
    /\ receiver \in [Runs -> {"off", "reading", "blocked", "pushing", "gone"}]
    /\ at \in [Runs -> 0..MaxRuns]
    /\ held \in [Runs -> {NoFrame, Frame, Err}]
    /\ msgCh \in [Runs -> {NoFrame, Frame, Err}]
    /\ unread \in [Runs -> 0..2]
    /\ loop \in {"off", "idle", "handling", "pushing", "replying", "leaving"}
    /\ (loop = "off") <=> (stream = 0)
    /\ kind \in [Tasks -> {"free", "inventory", "revoke"}]
    /\ step \in [Tasks -> {"none", "handler", "asking", "answered", "sending"}]
    /\ invSem \in 0..InvCap /\ luksRevokeSem \in 0..LuksCap
    /\ sender \in Tasks \cup {Loop, Nobody}
    /\ hb \in [ch : Accepted \cup {Empty}, ticker : Accepted \cup {InitialInterval, Stopped},
               wanted : Requested \cup {Empty}]

Frames(x) == IF x = Frame THEN 1 ELSE 0

(* Run: as long as the loop runs and its ctx is not done, every frame its   *)
(* receive goroutine has read and the loop has not taken waits in msgCh or  *)
(* in the goroutine's hand: none is lost and none is there twice.          *)
NoFrameLost ==
    \A r \in Runs :
        (run = r /\ stream = r /\ r \notin ctxDone) =>
            unread[r] = Frames(msgCh[r]) + Frames(held[r])

(* A Run that returned leaves no goroutine behind once its ctx is done:    *)
(* Close makes the blocked Receive return.  Only a Run that connects the    *)
(* same Client again can keep it alive, on the new stream.                 *)
ReceiverEnds ==
    \A r \in Runs : (receiver[r] # "off" /\ stream = 0 /\ r \in ctxDone)
                        ~> (receiver[r] = "gone" \/ stream # 0)

Running(k) == {t \in Tasks : kind[t] = k}

(* Every goroutine holds exactly one token of its semaphore, over panics,   *)
(* failed sends and the end of the Run: the goroutines a flood can start    *)
(* stay bounded, and no token is lost for good.                            *)
TokensMatchGoroutines ==
    /\ invSem = Cardinality(Running("inventory"))
    /\ luksRevokeSem = Cardinality(Running("revoke"))

(* A revocation that was accepted comes to its end although it needs the   *)
(* receive loop to bring it the key: the loop never waits for it, and the   *)
(* end of the Run releases it.                                             *)
RevokeEnds == \A t \in Tasks : (kind[t] = "revoke") ~> (kind[t] = "free")

(* "latest-wins": between two dispatches the goroutine either runs at the   *)
(* interval of the latest Welcome of this Run or will receive exactly that  *)
(* one next; a value of an earlier Welcome never comes back.               *)
LatestWins ==
    hb.ticker # Stopped /\ loop # "pushing" =>
        IF hb.wanted = Empty THEN hb.ch = Empty /\ hb.ticker = InitialInterval
        ELSE \/ hb.ch = Clamp(hb.wanted)
             \/ hb.ch = Empty /\ hb.ticker = Clamp(hb.wanted)

(* "each reconnect is a fresh Run() call that receives a fresh Welcome"     *)
(* (Run): the first frame of a stream, its Welcome, is read by the          *)
(* goroutine of its own Run.  It does not hold where Run is called again on *)
(* the same Client: the goroutine of the last Run may read it.             *)
WelcomeReachesItsRun ==
    [][\A r \in Runs : at[r] \in opened' \ opened => at[r] = r \/ held'[r] = held[r]]_vars
=============================================================================
