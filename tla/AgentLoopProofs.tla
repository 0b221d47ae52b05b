-------------------------- MODULE AgentLoopProofs --------------------------
(***************************************************************************)
(* Proofs about the goroutines of Run, for any number of Runs, goroutines    *)
(* and tokens and any accepted range of intervals.                         *)
(***************************************************************************)
EXTENDS MCAgentLoop, FiniteSetTheorems, TLAPS

LoopSteps == {"off", "idle", "handling", "pushing", "replying", "leaving"}
RecvSteps == {"off", "reading", "blocked", "pushing", "gone"}
Contents == {NoFrame, Frame, Err}

(* A Run has a stream from its beginning to its end.                        *)
LinkInv ==
    /\ run \in 0..MaxRuns /\ stream \in {0, run}
    /\ broken \subseteq Runs /\ opened \subseteq Runs /\ ctxDone \subseteq Runs
    /\ loop \in LoopSteps
    /\ (loop = "off") <=> (stream = 0)

(* The receive goroutine of a Run that has not begun is off, one that blocks  *)
(* is on a stream, and one has a frame or an error in hand while it pushes.   *)
RecvInv ==
    /\ receiver \in [Runs -> RecvSteps]
    /\ at \in [Runs -> 0..MaxRuns]
    /\ held \in [Runs -> Contents]
    /\ \A r \in Runs :
        /\ r > run => receiver[r] = "off"
        /\ receiver[r] = "blocked" => at[r] \in Runs
        /\ receiver[r] # "pushing" <=> held[r] = NoFrame

(* Frames that were read: only a goroutine that gave its push up has dropped  *)
(* one.                                                                    *)
FrameInv ==
    /\ msgCh \in [Runs -> Contents] /\ unread \in [Runs -> 0..2]
    /\ \A r \in Runs :
        \/ unread[r] = Frames(msgCh[r]) + Frames(held[r])
        \/ /\ receiver[r] = "gone" /\ r \in ctxDone
           /\ unread[r] = Frames(msgCh[r]) + 1

(* Who is inside stream.Send is at the step that says so, and a goroutine is  *)
(* a free one exactly when it is at no step.                                 *)
SendInv ==
    /\ kind \in [Tasks -> {"free", "inventory", "revoke"}]
    /\ step \in [Tasks -> {"none", "handler", "asking", "answered", "sending"}]
    /\ sender \in Tasks \cup {Loop, Nobody}
    /\ sender = Loop <=> loop = "replying"
    /\ \A t \in Tasks :
          /\ sender = t <=> step[t] = "sending"
          /\ kind[t] = "free" <=> step[t] = "none"

TokenInv ==
    /\ invSem \in 0..InvCap /\ luksRevokeSem \in 0..LuksCap
    /\ IsFiniteSet(Running("inventory")) /\ IsFiniteSet(Running("revoke"))
    /\ TokensMatchGoroutines

Heartbeats == [ch : Accepted \cup {Empty}, ticker : Accepted \cup {InitialInterval, Stopped},
               wanted : Requested \cup {Empty}]

(* Between the drain of the channel and the push, the channel is empty.      *)
BeatInv ==
    /\ hb \in Heartbeats
    /\ loop = "pushing" => hb.ch = Empty /\ hb.wanted # Empty
    /\ LatestWins

LoopInv == LinkInv /\ RecvInv /\ FrameInv /\ SendInv /\ TokenInv /\ BeatInv

-----------------------------------------------------------------------------
(* The interval that a Welcome leads to is an accepted one.                  *)
LEMMA ClampAccepted ==
    ASSUME NEW w \in Requested \cup {Empty}
    PROVE  Clamp(w) \in Accepted /\ Clamp(w) # Empty /\ Clamp(w) # Stopped
BY IntervalAssumption DEF Clamp, Accepted, Empty, Stopped

(* Run has not been called yet.                                             *)
LEMMA LoopInit == Init => LoopInv
<1> SUFFICES ASSUME Init PROVE LoopInv
  OBVIOUS
<1> USE BoundsAssumption, IntervalAssumption, TaskAssumption
<1>1. LinkInv
  BY DEF Init, LinkInv, LoopSteps
<1>2. RecvInv
  BY DEF Init, RecvInv, RecvSteps, Contents, Runs
<1>3. FrameInv
  BY DEF Init, FrameInv, Contents, Runs, Frames, Frame, NoFrame
<1>4. SendInv
  BY DEF Init, SendInv, Loop, Nobody
<1>5. TokenInv
  <2>1. Running("inventory") = {} /\ Running("revoke") = {}
    BY DEF Init, Running
  <2> QED
    BY <2>1, FS_EmptySet DEF Init, TokenInv, TokensMatchGoroutines
<1>6. BeatInv
  BY Zenon DEF Init, BeatInv, Heartbeats, LatestWins, NoHeartbeat, Empty, Stopped
<1> QED BY <1>1, <1>2, <1>3, <1>4, <1>5, <1>6 DEF LoopInv

(* The Run, its stream and the step of its loop.                            *)
LEMMA LinkStep == LoopInv /\ Next => LinkInv'
<1> SUFFICES ASSUME LoopInv, Next PROVE LinkInv'
  OBVIOUS
<1> USE BoundsAssumption, IntervalAssumption, TaskAssumption DEF LoopInv, linkVars,
        recvVars, taskVars, LinkInv, LoopSteps, RecvInv, SendInv, Runs
<1>1. CASE StartRun
  BY SMTT(30), <1>1 DEF StartRun
<1>2. CASE Break
  BY <1>2 DEF Break
<1>3. CASE DispatchInline
  BY <1>3 DEF DispatchInline, NextFrame
<1>4. CASE InlineReturns
  BY <1>4 DEF InlineReturns
<1>5. CASE LoopSeesError
  BY <1>5 DEF LoopSeesError
<1>6. CASE LoopSeesCtx
  BY <1>6 DEF LoopSeesCtx
<1>7. CASE RunReturns
  BY <1>7 DEF RunReturns
<1>8. CASE WelcomePushes
  BY <1>8 DEF WelcomePushes
<1>9. ASSUME NEW w \in Requested, WelcomeDrains(w) PROVE LinkInv'
  BY <1>9 DEF WelcomeDrains, NextFrame
<1>10. ASSUME NEW r \in Runs, CancelCtx(r) PROVE LinkInv'
  BY <1>10 DEF CancelCtx
<1>11. ASSUME NEW r \in Runs, FrameArrives(r) PROVE LinkInv'
  BY Zenon, <1>11 DEF FrameArrives
<1>12. ASSUME NEW x \in Tasks \cup {Loop}, SendStarts(x) PROVE LinkInv'
  BY <1>12 DEF SendStarts
<1>13. ASSUME NEW x \in Tasks \cup {Loop}, SendEnds(x) PROVE LinkInv'
  BY <1>13 DEF SendEnds, Finish
<1>14. CASE UNCHANGED <<run, stream, broken, opened, ctxDone, loop>>
  BY <1>14 DEF vars
<1>15. CASE DispatchDrops \/ TakeUpdate \/ HeartbeatFails
  BY <1>15, <1>14 DEF DispatchDrops, NextFrame, TakeUpdate, HeartbeatFails
<1>16. ASSUME NEW r \in Runs, ReadPointer(r) \/ ReceiveFails(r) \/ Push(r) \/
        PushAbandoned(r) PROVE LinkInv'
  BY Zenon, <1>16, <1>14 DEF ReadPointer, ReceiveFails, Push, PushAbandoned
<1>17. ASSUME NEW t \in Tasks, DispatchRequestInventory(t) \/ DispatchRevoke(t) \/
        DispatchResponse(t) \/ RevokeAsks(t) \/ TaskEnds(t) PROVE LinkInv'
  BY Zenon, <1>17, <1>14 DEF DispatchRequestInventory, StartTask, NextFrame, DispatchRevoke,
     DispatchResponse, RevokeAsks, TaskEnds, Finish
<1> QED
  BY Zenon, <1>1, <1>2, <1>3, <1>4, <1>5, <1>6, <1>7, <1>8, <1>9, <1>10, <1>11, <1>12, <1>13,
     <1>15, <1>16, <1>17 DEF Next, Receiver, Task

(* The receive goroutines.                                                  *)
LEMMA RecvStep == LoopInv /\ Next => RecvInv'
<1> SUFFICES ASSUME LoopInv, Next PROVE RecvInv'
  OBVIOUS
<1> USE BoundsAssumption, IntervalAssumption, TaskAssumption DEF LoopInv, linkVars,
        recvVars, taskVars, LinkInv, RecvInv, RecvSteps, Contents, Runs, Frame, NoFrame, Err
<1>1. CASE StartRun
  BY SMTT(30), <1>1 DEF StartRun
<1>2. ASSUME NEW r \in Runs, ReadPointer(r) PROVE RecvInv'
  <2>1. r <= run /\ UNCHANGED run
    BY <1>2 DEF ReadPointer
  <2>2. CASE /\ receiver' = [receiver EXCEPT ![r] = "pushing"]
             /\ held' = [held EXCEPT ![r] = Err] /\ UNCHANGED at
    BY <2>1, <2>2
  <2>3. CASE /\ stream # 0 /\ receiver' = [receiver EXCEPT ![r] = "blocked"]
             /\ at' = [at EXCEPT ![r] = stream] /\ UNCHANGED held
    BY <1>2, <2>1, <2>3 DEF ReadPointer
  <2> QED BY Zenon, <1>2, <2>2, <2>3 DEF ReadPointer
<1>3. ASSUME NEW r \in Runs, FrameArrives(r) PROVE RecvInv'
  BY <1>3 DEF FrameArrives
<1>4. ASSUME NEW r \in Runs, ReceiveFails(r) PROVE RecvInv'
  BY <1>4 DEF ReceiveFails
<1>5. ASSUME NEW r \in Runs, Push(r) PROVE RecvInv'
  BY <1>5 DEF Push
<1>6. ASSUME NEW r \in Runs, PushAbandoned(r) PROVE RecvInv'
  BY <1>6 DEF PushAbandoned
<1>7. CASE UNCHANGED <<run, recvVars>>
  BY Zenon, <1>7 DEF vars
<1>8. CASE Break \/ DispatchInline \/ DispatchDrops \/ InlineReturns \/ LoopSeesError \/
        LoopSeesCtx \/ RunReturns \/ WelcomePushes \/ TakeUpdate \/ HeartbeatFails
  BY <1>8, <1>7 DEF Break, DispatchInline, NextFrame, DispatchDrops, InlineReturns,
     LoopSeesError, LoopSeesCtx, RunReturns, WelcomePushes, TakeUpdate, HeartbeatFails
<1>9. ASSUME NEW w \in Requested, WelcomeDrains(w) PROVE RecvInv'
  BY <1>9, <1>7 DEF WelcomeDrains, NextFrame
<1>10. ASSUME NEW r \in Runs, CancelCtx(r) PROVE RecvInv'
  BY Zenon, <1>10, <1>7 DEF CancelCtx
<1>11. ASSUME NEW t \in Tasks, DispatchRequestInventory(t) \/ DispatchRevoke(t) \/
        DispatchResponse(t) \/ RevokeAsks(t) \/ TaskEnds(t) PROVE RecvInv'
  BY Zenon, <1>11, <1>7 DEF DispatchRequestInventory, StartTask, NextFrame, DispatchRevoke,
     DispatchResponse, RevokeAsks, TaskEnds, Finish
<1>12. ASSUME NEW x \in Tasks \cup {Loop}, SendStarts(x) \/ SendEnds(x) PROVE RecvInv'
  BY Zenon, <1>12, <1>7 DEF SendStarts, SendEnds, Finish
<1> QED
  BY Zenon, <1>1, <1>2, <1>3, <1>4, <1>5, <1>6, <1>8, <1>9, <1>10, <1>11, <1>12 DEF Next, Receiver,
     Task

(* Each frame: read, pushed, taken or given up.                             *)
LEMMA FrameStep == LoopInv /\ Next => FrameInv'
<1> SUFFICES ASSUME LoopInv, Next PROVE FrameInv'
  OBVIOUS
<1> USE BoundsAssumption, IntervalAssumption, TaskAssumption DEF LoopInv, linkVars,
        recvVars, taskVars, LinkInv, RecvInv, FrameInv, RecvSteps, Contents, Runs, Frames,
        Frame, NoFrame, Err
<1>1. CASE StartRun
  BY SMTT(30), <1>1 DEF StartRun
<1>2. CASE DispatchInline
  BY SMTT(30), <1>2 DEF DispatchInline, NextFrame
<1>3. CASE DispatchDrops
  BY SMTT(30), <1>3 DEF DispatchDrops, NextFrame
<1>4. CASE LoopSeesError
  BY SMTT(30), <1>4 DEF LoopSeesError
<1>5. ASSUME NEW w \in Requested, WelcomeDrains(w) PROVE FrameInv'
  <2>1. run \in Runs /\ Frames(msgCh[run]) = 1 /\ Frames(msgCh'[run]) = 0
    BY <1>5 DEF WelcomeDrains, NextFrame
  <2>2. unread' \in [Runs -> 0..2] /\ unread'[run] = unread[run] - 1
    BY SMTT(30), <1>5, <2>1 DEF WelcomeDrains, NextFrame
  <2>3. \A q \in Runs \ {run} : msgCh'[q] = msgCh[q] /\ unread'[q] = unread[q]
    BY <1>5 DEF WelcomeDrains, NextFrame
  <2>4. UNCHANGED <<held, receiver, ctxDone>> /\ msgCh' \in [Runs -> Contents]
    BY <1>5 DEF WelcomeDrains, NextFrame
  <2> QED
    BY SMTT(30), <2>1, <2>2, <2>3, <2>4
<1>6. ASSUME NEW r \in Runs, CancelCtx(r) PROVE FrameInv'
  BY <1>6 DEF CancelCtx
<1>7. ASSUME NEW r \in Runs, ReadPointer(r) PROVE FrameInv'
  <2>1. \A q \in Runs : held'[q] = held[q] \/ (held[q] = NoFrame /\ held'[q] = Err)
    BY <1>7 DEF ReadPointer
  <2>2. \A q \in Runs : receiver[q] = "gone" => receiver'[q] = "gone"
    BY <1>7 DEF ReadPointer
  <2>3. UNCHANGED <<msgCh, unread, ctxDone>>
    BY <1>7 DEF ReadPointer
  <2> QED
    BY Zenon, <2>1, <2>3, <2>2
<1>8. ASSUME NEW r \in Runs, FrameArrives(r) PROVE FrameInv'
  <2>1. unread[r] = Frames(msgCh[r]) /\ Frames(held'[r]) = 1
    BY SMTT(30), <1>8 DEF FrameArrives
  <2>2. unread' \in [Runs -> 0..2]
    BY <1>8, <2>1 DEF FrameArrives
  <2>3. \A q \in Runs \ {r} : held'[q] = held[q] /\ unread'[q] = unread[q] /\ receiver'[q] = receiver[q]
    BY <1>8 DEF FrameArrives
  <2> QED
    BY SMTT(30), <1>8, <2>1, <2>2, <2>3 DEF FrameArrives
<1>9. ASSUME NEW r \in Runs, ReceiveFails(r) PROVE FrameInv'
  BY SMTT(30), <1>9 DEF ReceiveFails
<1>10. ASSUME NEW r \in Runs, Push(r) PROVE FrameInv'
  BY <1>10 DEF Push
<1>11. ASSUME NEW r \in Runs, PushAbandoned(r) PROVE FrameInv'
  BY <1>11 DEF PushAbandoned
<1>12. ASSUME NEW t \in Tasks, DispatchRequestInventory(t) PROVE FrameInv'
  BY SMTT(30), <1>12 DEF DispatchRequestInventory, StartTask, NextFrame
<1>13. ASSUME NEW t \in Tasks, DispatchRevoke(t) PROVE FrameInv'
  BY SMTT(30), <1>13 DEF DispatchRevoke, StartTask, NextFrame
<1>14. ASSUME NEW t \in Tasks, DispatchResponse(t) PROVE FrameInv'
  BY SMTT(30), <1>14 DEF DispatchResponse, NextFrame
<1>15. CASE UNCHANGED <<recvVars, msgCh, unread, ctxDone>>
  BY <1>15 DEF vars
<1>16. CASE Break \/ InlineReturns \/ LoopSeesCtx \/ RunReturns \/ WelcomePushes \/
        TakeUpdate \/ HeartbeatFails
  BY Zenon, <1>16, <1>15 DEF Break, InlineReturns, LoopSeesCtx, RunReturns, WelcomePushes,
     TakeUpdate, HeartbeatFails
<1>17. ASSUME NEW t \in Tasks, RevokeAsks(t) \/ TaskEnds(t) PROVE FrameInv'
  BY Zenon, <1>17, <1>15 DEF RevokeAsks, TaskEnds, Finish
<1>18. ASSUME NEW x \in Tasks \cup {Loop}, SendStarts(x) \/ SendEnds(x) PROVE FrameInv'
  BY Zenon, <1>18, <1>15 DEF SendStarts, SendEnds, Finish
<1> QED
  BY Zenon, <1>1, <1>2, <1>3, <1>4, <1>5, <1>6, <1>7, <1>8, <1>9, <1>10, <1>11, <1>12, <1>13,
     <1>14, <1>16, <1>17, <1>18 DEF Next, Receiver, Task

(* The goroutines of the handlers and the send slot.                        *)
LEMMA SendStep == LoopInv /\ Next => SendInv'
<1> SUFFICES ASSUME LoopInv, Next PROVE SendInv'
  OBVIOUS
<1> USE BoundsAssumption, IntervalAssumption, TaskAssumption DEF LoopInv, linkVars,
        recvVars, taskVars, LinkInv, SendInv, Loop, Nobody
<1>1. CASE StartRun
  BY <1>1 DEF StartRun
<1>2. CASE DispatchInline
  BY <1>2 DEF DispatchInline, NextFrame
<1>3. CASE InlineReturns
  BY <1>3 DEF InlineReturns
<1>4. CASE LoopSeesError
  BY <1>4 DEF LoopSeesError
<1>5. CASE LoopSeesCtx
  BY <1>5 DEF LoopSeesCtx
<1>6. CASE RunReturns
  BY <1>6 DEF RunReturns
<1>7. CASE WelcomePushes
  BY <1>7 DEF WelcomePushes
<1>8. ASSUME NEW w \in Requested, WelcomeDrains(w) PROVE SendInv'
  BY <1>8 DEF WelcomeDrains, NextFrame
<1>9. ASSUME NEW t \in Tasks, DispatchRequestInventory(t) PROVE SendInv'
  BY <1>9 DEF DispatchRequestInventory, StartTask, NextFrame
<1>10. ASSUME NEW t \in Tasks, DispatchRevoke(t) PROVE SendInv'
  BY <1>10 DEF DispatchRevoke, StartTask, NextFrame
<1>11. ASSUME NEW t \in Tasks, DispatchResponse(t) PROVE SendInv'
  BY <1>11 DEF DispatchResponse, NextFrame
<1>12. ASSUME NEW t \in Tasks, RevokeAsks(t) PROVE SendInv'
  BY <1>12 DEF RevokeAsks
<1>13. ASSUME NEW t \in Tasks, TaskEnds(t) PROVE SendInv'
  BY <1>13 DEF TaskEnds, Finish
<1>14. ASSUME NEW x \in Tasks \cup {Loop}, SendStarts(x) PROVE SendInv'
  BY <1>14 DEF SendStarts
<1>15. ASSUME NEW x \in Tasks \cup {Loop}, SendEnds(x) PROVE SendInv'
  BY <1>15 DEF SendEnds, Finish
<1>16. CASE UNCHANGED <<kind, step, sender, loop>>
  BY <1>16 DEF vars
<1>17. CASE Break \/ DispatchDrops \/ TakeUpdate \/ HeartbeatFails
  BY Zenon, <1>17, <1>16 DEF Break, DispatchDrops, NextFrame, TakeUpdate, HeartbeatFails
<1>18. ASSUME NEW r \in Runs, CancelCtx(r) \/ ReadPointer(r) \/ FrameArrives(r) \/
        ReceiveFails(r) \/ Push(r) \/ PushAbandoned(r) PROVE SendInv'
  BY Zenon, <1>18, <1>16 DEF CancelCtx, ReadPointer, FrameArrives, ReceiveFails, Push,
     PushAbandoned
<1> QED
  BY Zenon, <1>1, <1>2, <1>3, <1>4, <1>5, <1>6, <1>7, <1>8, <1>9, <1>10, <1>11, <1>12, <1>13,
     <1>14, <1>15, <1>17, <1>18 DEF Next, Receiver, Task

(* The heartbeat and its channel.                                           *)
LEMMA BeatStep == LoopInv /\ Next => BeatInv'
<1> SUFFICES ASSUME LoopInv, Next PROVE BeatInv'
  OBVIOUS
<1> USE BoundsAssumption, IntervalAssumption, TaskAssumption DEF LoopInv, linkVars,
        recvVars, taskVars, LinkInv, BeatInv, LatestWins, Empty, Stopped
<1>1. CASE StartRun
  <2>1. hb'.ch = Empty /\ hb'.wanted = Empty /\ hb'.ticker = InitialInterval
    BY <1>1 DEF StartRun, NoHeartbeat, Heartbeats
  <2>2. hb' \in Heartbeats
    BY <1>1 DEF StartRun, NoHeartbeat, Heartbeats, Accepted
  <2> QED
    BY <1>1, <2>1, <2>2 DEF StartRun
<1>2. CASE DispatchInline
  BY <1>2 DEF DispatchInline, NextFrame
<1>3. CASE InlineReturns
  BY <1>3 DEF InlineReturns
<1>4. CASE LoopSeesError
  BY <1>4 DEF LoopSeesError
<1>5. CASE LoopSeesCtx
  BY <1>5 DEF LoopSeesCtx
<1>6. CASE RunReturns
  <2>1. hb'.ch = Empty /\ hb'.wanted = Empty /\ hb'.ticker = Stopped
    BY <1>6 DEF RunReturns, NoHeartbeat, Heartbeats
  <2>2. hb' \in Heartbeats
    BY <1>6 DEF RunReturns, NoHeartbeat, Heartbeats, Accepted
  <2> QED
    BY Zenon, <1>6, <2>1, <2>2 DEF RunReturns
<1>7. CASE WelcomePushes
  <2>1. hb'.ch = Clamp(hb.wanted) /\ hb'.wanted = hb.wanted /\ hb'.ticker = hb.ticker /\ hb.wanted \in Requested
    BY <1>7, ClampAccepted DEF WelcomePushes, NoHeartbeat, Heartbeats
  <2>2. hb' \in Heartbeats
    BY <1>7, ClampAccepted DEF WelcomePushes, NoHeartbeat, Heartbeats, Accepted
  <2> QED
    BY <1>7, <2>1, <2>2, ClampAccepted DEF WelcomePushes
<1>8. CASE TakeUpdate
  <2>1. hb'.ch = Empty /\ hb'.wanted = hb.wanted /\ hb'.ticker = hb.ch
    BY <1>8 DEF TakeUpdate, NoHeartbeat, Heartbeats
  <2>2. hb' \in Heartbeats
    BY Zenon, <1>8 DEF TakeUpdate, NoHeartbeat, Heartbeats, Accepted
  <2> QED
    BY <1>8, <2>1, <2>2 DEF TakeUpdate
<1>9. CASE HeartbeatFails
  <2>1. hb'.ch = hb.ch /\ hb'.wanted = hb.wanted /\ hb'.ticker = Stopped
    BY <1>9 DEF HeartbeatFails, NoHeartbeat, Heartbeats
  <2>2. hb' \in Heartbeats
    BY <1>9 DEF HeartbeatFails, NoHeartbeat, Heartbeats, Accepted
  <2> QED
    BY <1>9, <2>1, <2>2 DEF HeartbeatFails
<1>10. ASSUME NEW w \in Requested, WelcomeDrains(w) PROVE BeatInv'
  <2>1. hb'.ch = Empty /\ hb'.wanted = w /\ hb'.ticker = hb.ticker
    BY <1>10 DEF WelcomeDrains, NextFrame, NoHeartbeat, Heartbeats
  <2>2. hb' \in Heartbeats
    BY Zenon, <1>10 DEF WelcomeDrains, NextFrame, NoHeartbeat, Heartbeats, Accepted
  <2> QED
    BY <1>10, <2>1, <2>2 DEF WelcomeDrains, NextFrame
<1>11. ASSUME NEW x \in Tasks \cup {Loop}, SendStarts(x) PROVE BeatInv'
  BY <1>11 DEF SendStarts
<1>12. ASSUME NEW x \in Tasks \cup {Loop}, SendEnds(x) PROVE BeatInv'
  <2>1. CASE x = Loop
    BY Zenon, <1>12, <2>1 DEF SendEnds, SendInv, Loop, LatestWins
  <2>2. CASE x \in Tasks
    BY <1>12, <2>2 DEF SendEnds, SendInv, Loop, LatestWins
  <2> QED BY <2>1, <2>2
<1>13. CASE UNCHANGED <<hb, loop>>
  BY Zenon, <1>13 DEF vars
<1>14. CASE Break \/ DispatchDrops
  BY Zenon, <1>14, <1>13 DEF Break, DispatchDrops, NextFrame
<1>15. ASSUME NEW r \in Runs, CancelCtx(r) \/ ReadPointer(r) \/ FrameArrives(r) \/
        ReceiveFails(r) \/ Push(r) \/ PushAbandoned(r) PROVE BeatInv'
  BY Zenon, <1>15, <1>13 DEF CancelCtx, ReadPointer, FrameArrives, ReceiveFails, Push,
     PushAbandoned
<1>16. ASSUME NEW t \in Tasks, DispatchRequestInventory(t) \/ DispatchRevoke(t) \/
        DispatchResponse(t) \/ RevokeAsks(t) \/ TaskEnds(t) PROVE BeatInv'
  BY <1>16, <1>13 DEF DispatchRequestInventory, StartTask, NextFrame, DispatchRevoke,
     DispatchResponse, RevokeAsks, TaskEnds, Finish
<1> QED
  BY Zenon, <1>1, <1>2, <1>3, <1>4, <1>5, <1>6, <1>7, <1>8, <1>9, <1>10, <1>11, <1>12, <1>14,
     <1>15, <1>16 DEF Next, Receiver, Task

(* A goroutine that starts is one more of its kind.                          *)
LEMMA TaskStarts ==
    ASSUME SendInv, NEW k \in {"inventory", "revoke"}, IsFiniteSet(Running(k)),
           NEW t \in Tasks, kind[t] = "free", kind' = [kind EXCEPT ![t] = k]
    PROVE  /\ IsFiniteSet(Running(k)')
           /\ Cardinality(Running(k)') = Cardinality(Running(k)) + 1
           /\ \A o \in {"inventory", "revoke"} \ {k} : Running(o)' = Running(o)
<1>1. Running(k)' = Running(k) \cup {t} /\ t \notin Running(k)
  BY DEF SendInv, Running
<1>2. \A o \in {"inventory", "revoke"} \ {k} : Running(o)' = Running(o)
  BY DEF SendInv, Running
<1> QED
  BY <1>1, <1>2, FS_AddElement

(* One that ends is one fewer.                                              *)
LEMMA TaskStops ==
    ASSUME SendInv, NEW k \in {"inventory", "revoke"}, IsFiniteSet(Running(k)),
           NEW t \in Tasks, kind[t] = k, kind' = [kind EXCEPT ![t] = "free"]
    PROVE  /\ IsFiniteSet(Running(k)')
           /\ Cardinality(Running(k)') = Cardinality(Running(k)) - 1
           /\ Cardinality(Running(k)') \in Nat
           /\ \A o \in {"inventory", "revoke"} \ {k} : Running(o)' = Running(o)
<1>1. Running(k)' = Running(k) \ {t} /\ t \in Running(k)
  BY DEF SendInv, Running
<1>2. \A o \in {"inventory", "revoke"} \ {k} : Running(o)' = Running(o)
  BY DEF SendInv, Running
<1>3. IsFiniteSet(Running(k)') /\ Cardinality(Running(k)') = Cardinality(Running(k)) - 1
  BY <1>1, FS_RemoveElement
<1> QED
  BY <1>2, <1>3, FS_CardinalityType

(* A goroutine that ends gives its token back.                              *)
LEMMA FinishKeepsTokens ==
    ASSUME SendInv, TokenInv, NEW t \in Tasks, step[t] # "none", Finish(t)
    PROVE  TokenInv'
<1>0. kind' = [kind EXCEPT ![t] = "free"] /\ kind[t] \in {"inventory", "revoke"}
      /\ IsFiniteSet(Running(kind[t]))
  BY DEF Finish, SendInv, TokenInv
<1>1. CASE kind[t] = "inventory"
  <2>1. /\ IsFiniteSet(Running("inventory")')
        /\ Cardinality(Running("inventory")') = Cardinality(Running("inventory")) - 1
        /\ Cardinality(Running("inventory")') \in Nat
        /\ Running("revoke")' = Running("revoke")
    BY Zenon, <1>0, <1>1, TaskStops
  <2> QED
    BY <1>1, <2>1, BoundsAssumption DEF TokenInv, TokensMatchGoroutines, Finish
<1>2. CASE kind[t] = "revoke"
  <2>1. /\ IsFiniteSet(Running("revoke")')
        /\ Cardinality(Running("revoke")') = Cardinality(Running("revoke")) - 1
        /\ Cardinality(Running("revoke")') \in Nat
        /\ Running("inventory")' = Running("inventory")
    BY Zenon, <1>0, <1>2, TaskStops
  <2> QED
    BY <1>2, <2>1, BoundsAssumption DEF TokenInv, TokensMatchGoroutines, Finish
<1> QED
  BY <1>0, <1>1, <1>2

(* The tokens of the semaphores.                                            *)
LEMMA TokenStep == LoopInv /\ Next => TokenInv'
<1> SUFFICES ASSUME LoopInv, Next PROVE TokenInv'
  OBVIOUS
<1> USE BoundsAssumption DEF LoopInv, linkVars, recvVars, taskVars
<1>1. CASE UNCHANGED <<kind, invSem, luksRevokeSem>>
  BY <1>1 DEF TokenInv, TokensMatchGoroutines, Running
<1>2. ASSUME NEW t \in Tasks, DispatchRequestInventory(t) PROVE TokenInv'
  <2>1. kind[t] = "free" /\ kind' = [kind EXCEPT ![t] = "inventory"] /\ IsFiniteSet(Running("inventory"))
    BY <1>2 DEF DispatchRequestInventory, StartTask, TokenInv
  <2>2. /\ IsFiniteSet(Running("inventory")')
        /\ Cardinality(Running("inventory")') = Cardinality(Running("inventory")) + 1
        /\ Running("revoke")' = Running("revoke")
    BY Zenon, <2>1, TaskStarts
  <2> QED
    BY <1>2, <2>2 DEF DispatchRequestInventory, TokenInv, TokensMatchGoroutines
<1>3. ASSUME NEW t \in Tasks, DispatchRevoke(t) PROVE TokenInv'
  <2>1. kind[t] = "free" /\ kind' = [kind EXCEPT ![t] = "revoke"] /\ IsFiniteSet(Running("revoke"))
    BY <1>3 DEF DispatchRevoke, StartTask, TokenInv
  <2>2. /\ IsFiniteSet(Running("revoke")')
        /\ Cardinality(Running("revoke")') = Cardinality(Running("revoke")) + 1
        /\ Running("inventory")' = Running("inventory")
    BY Zenon, <2>1, TaskStarts
  <2> QED
    BY <1>3, <2>2 DEF DispatchRevoke, TokenInv, TokensMatchGoroutines
<1>4. ASSUME NEW t \in Tasks, TaskEnds(t) PROVE TokenInv'
  BY <1>4, FinishKeepsTokens DEF TaskEnds, SendInv
<1>5. ASSUME NEW x \in Tasks \cup {Loop}, SendEnds(x) PROVE TokenInv'
  BY <1>1, <1>5, FinishKeepsTokens, TaskAssumption DEF SendEnds, SendInv
<1>6. ASSUME \/ StartRun \/ Break \/ DispatchInline \/ DispatchDrops \/ InlineReturns
             \/ LoopSeesError \/ LoopSeesCtx \/ RunReturns
             \/ WelcomePushes \/ TakeUpdate \/ HeartbeatFails
      PROVE  TokenInv'
  BY <1>1, <1>6 DEF StartRun, Break, DispatchInline, DispatchDrops, InlineReturns,
     LoopSeesError, LoopSeesCtx, RunReturns, WelcomePushes, TakeUpdate, HeartbeatFails
<1>7. ASSUME NEW w \in Requested, WelcomeDrains(w) PROVE TokenInv'
  BY Zenon, <1>1, <1>7 DEF WelcomeDrains
<1>8. ASSUME NEW r \in Runs, CancelCtx(r) \/ Receiver(r) PROVE TokenInv'
  BY Zenon, <1>1, <1>8 DEF CancelCtx, Receiver, ReadPointer, FrameArrives, ReceiveFails, Push,
     PushAbandoned
<1>9. ASSUME NEW t \in Tasks, DispatchResponse(t) \/ RevokeAsks(t) PROVE TokenInv'
  BY Zenon, <1>1, <1>9 DEF DispatchResponse, RevokeAsks
<1>10. ASSUME NEW x \in Tasks \cup {Loop}, SendStarts(x) PROVE TokenInv'
  BY Zenon, <1>1, <1>10 DEF SendStarts
<1> QED
  BY <1>2, <1>3, <1>4, <1>5, <1>6, <1>7, <1>8, <1>9, <1>10 DEF Next, Task

-----------------------------------------------------------------------------
(* The inventory goroutines.                                                *)

TickRecords ==
    [at : {"off", "collect", "send", "refuse?", "sending", "backoff", "wait", "ended"},
     attempt : 0 .. MaxAttempts, on : 0 .. MaxConnects, tick : {"none", "empty", "full"},
     sent : {"yes", "no"}, failed : 0 .. MaxAttempts]

(* What the record of the goroutine of Run r says at each of its steps: how    *)
(* many sends have failed, and which streams it can have read.              *)
TickerFits(r, t) ==
    /\ r > current => t = Ticker!NotStarted
    /\ t.at \in {"send", "refuse?", "sending"} => t.attempt >= 1 /\ t.failed = t.attempt - 1
    /\ t.at = "backoff" => t.attempt < MaxAttempts /\ t.failed = t.attempt
    /\ t.at = "refuse?" => r <= t.on /\ t.on <= current
    /\ t.at = "sending" => t.on = r
    /\ t.at \in {"wait", "collect"} /\ t.sent = "no" /\ ~Ticker!CtxDone(r) => t.failed = MaxAttempts

TickInv ==
    /\ current \in 0 .. MaxConnects /\ phase \in {"up", "cancelled", "closed"}
    /\ strayed = "no"
    /\ tk \in [Ticker!Connects -> TickRecords]
    /\ \A r \in Ticker!Connects : TickerFits(r, tk[r])

(* No Run, no goroutine.                                                    *)
LEMMA TickInitial == Ticker!TickInit => TickInv
BY TickerAssumption DEF Ticker!TickInit, TickInv, TickRecords, TickerFits, Ticker!NotStarted,
   Ticker!Connects, Ticker!CtxDone

(* A step that changes nothing but the record of one goroutine.              *)
LEMMA OneTicker ==
    ASSUME TickInv, NEW r \in Ticker!Connects, NEW t \in TickRecords, TickerFits(r, t),
           tk' = [tk EXCEPT ![r] = t], UNCHANGED <<current, phase, strayed>>
    PROVE  TickInv'
<1>1. tk' \in [Ticker!Connects -> TickRecords]
  BY DEF TickInv
<1>2. \A q \in Ticker!Connects : TickerFits(q, tk'[q])
  BY Zenon DEF TickInv
<1>3. ASSUME NEW q \in Ticker!Connects PROVE TickerFits(q, tk[q])'
  BY Zenon, <1>2 DEF TickerFits, Ticker!CtxDone
<1> QED
  BY <1>1, <1>3 DEF TickInv

(* An inventory is done with: in its own right, or because the Run is over.   *)
LEMMA WaitsFits ==
    ASSUME TickInv, NEW r \in Ticker!Connects, NEW t \in TickRecords, r <= current,
           t.sent = "yes" \/ Ticker!CtxDone(r) \/ t.failed = MaxAttempts
    PROVE  Ticker!Waits(t) \in TickRecords /\ TickerFits(r, Ticker!Waits(t))
<1>1. Ticker!Waits(t) \in TickRecords
  BY Zenon DEF Ticker!Waits, TickRecords
<1>2. /\ Ticker!Waits(t).at = "wait" /\ Ticker!Waits(t).sent = t.sent
      /\ Ticker!Waits(t).failed = t.failed
  BY DEF Ticker!Waits, TickRecords
<1> QED
  BY <1>1, <1>2, TickerAssumption DEF TickerFits, TickInv, Ticker!Connects

(* sendWithRetry after a failed attempt: the next attempt or the end.       *)
LEMMA AfterFailureFits ==
    ASSUME TickInv, NEW r \in Ticker!Connects, tk[r].at \in {"send", "refuse?", "sending"}
    PROVE  Ticker!AfterFailure(r) \in TickRecords /\ TickerFits(r, Ticker!AfterFailure(r))
<1> DEFINE t == [tk[r] EXCEPT !.failed = @ + 1]
<1>1. /\ r <= current /\ tk[r] \in TickRecords /\ tk[r].attempt \in 1 .. MaxAttempts
      /\ tk[r].failed = tk[r].attempt - 1
  BY TickerAssumption DEF TickInv, TickerFits, Ticker!NotStarted, TickRecords, Ticker!Connects
<1>2. t \in TickRecords /\ t.failed = tk[r].attempt /\ t.attempt = tk[r].attempt
  BY <1>1, TickerAssumption DEF TickRecords
<1>3. CASE Ticker!GivesUp(r)
  BY Zenon, <1>1, <1>2, <1>3, WaitsFits DEF Ticker!AfterFailure, Ticker!GivesUp
<1>4. CASE ~Ticker!GivesUp(r)
  <2>1. Ticker!AfterFailure(r) = [t EXCEPT !.at = "backoff"]
    BY <1>4 DEF Ticker!AfterFailure
  <2>2. [t EXCEPT !.at = "backoff"] \in TickRecords
    BY Zenon, <1>2 DEF TickRecords
  <2>3. LET b == [t EXCEPT !.at = "backoff"]
        IN  b.at = "backoff" /\ b.failed = tk[r].attempt /\ b.attempt = tk[r].attempt
    BY <1>1, <1>2 DEF TickRecords
  <2> HIDE DEF t
  <2> QED
    BY <1>1, <1>4, <2>1, <2>2, <2>3, TickerAssumption
    DEF TickerFits, Ticker!GivesUp, TickInv, Ticker!Connects
<1> QED
  BY <1>3, <1>4

(* The step of a failed attempt.                                            *)
LEMMA FailedFits ==
    ASSUME TickInv, NEW r \in Ticker!Connects, tk[r].at \in {"send", "refuse?", "sending"},
           Ticker!Failed(r), UNCHANGED <<current, phase, strayed>>
    PROVE  TickInv'
BY Zenon, AfterFailureFits, OneTicker DEF Ticker!Failed

(* One step of the goroutine of Run r.                                      *)
LEMMA GoroutineStep ==
    ASSUME TickInv, NEW r \in Ticker!Connects, Ticker!Goroutine(r)
    PROVE  TickInv'
<1>0. /\ tk[r] \in TickRecords /\ TickerFits(r, tk[r]) /\ r \in Nat /\ current \in 0 .. MaxConnects
      /\ tk[r].at # "off" => r <= current
  BY TickerAssumption DEF TickInv, Ticker!Connects, TickerFits, Ticker!NotStarted
<1>1. CASE Ticker!Collect(r)
  <2>0. r <= current /\ UNCHANGED <<current, phase, strayed>> /\ tk[r].at = "collect"
    BY <1>0, <1>1 DEF Ticker!Collect
  <2>1. CASE tk' = [tk EXCEPT ![r] = [@ EXCEPT !.at = "send", !.attempt = 1, !.sent = "no",
                                               !.failed = 0]]
    <3> DEFINE t == [tk[r] EXCEPT !.at = "send", !.attempt = 1, !.sent = "no", !.failed = 0]
    <3>0. 0 \in 0 .. MaxAttempts /\ 1 \in 0 .. MaxAttempts
      BY TickerAssumption
    <3>1. t \in TickRecords /\ t.at = "send" /\ t.attempt = 1 /\ t.failed = 0
      BY Zenon, <1>0, <3>0 DEF TickRecords
    <3>2. tk' = [tk EXCEPT ![r] = t]
      BY <2>1
    <3> HIDE DEF t
    <3>3. TickerFits(r, t)
      BY <1>0, <2>0, <3>1 DEF TickerFits
    <3> QED BY Zenon, <2>0, <3>1, <3>2, <3>3, OneTicker
  <2>2. CASE tk' = [tk EXCEPT ![r] = Ticker!Waits(@)]
    <3>1. tk[r].sent = "yes" \/ Ticker!CtxDone(r) \/ tk[r].failed = MaxAttempts
      BY <1>0, <2>0 DEF TickerFits, TickRecords
    <3> QED BY Zenon, <1>0, <2>0, <2>2, <3>1, WaitsFits, OneTicker
  <2>3. CASE tk' = [tk EXCEPT ![r].at = "ended"]
    <3> DEFINE t == [tk[r] EXCEPT !.at = "ended"]
    <3>1. t \in TickRecords /\ t.at = "ended" /\ tk' = [tk EXCEPT ![r] = t]
      BY <1>0, <2>3 DEF TickRecords
    <3> HIDE DEF t
    <3>2. TickerFits(r, t)
      BY <1>0, <2>0, <3>1 DEF TickerFits
    <3> QED BY Zenon, <2>0, <3>1, <3>2, OneTicker
  <2> QED BY <1>1, <2>1, <2>2, <2>3 DEF Ticker!Collect
<1>2. CASE Ticker!ReadStream(r)
  <2>0. r <= current /\ UNCHANGED <<current, phase, strayed>> /\ tk[r].at = "send"
    BY <1>0, <1>2 DEF Ticker!ReadStream
  <2>1. CASE Ticker!cStream = 0
    BY <1>2, <2>0, <2>1, FailedFits DEF Ticker!ReadStream
  <2>2. CASE Ticker!cStream # 0
    <3> DEFINE t == [tk[r] EXCEPT !.at = "refuse?", !.on = current]
    <3>1. tk' = [tk EXCEPT ![r] = t]
      BY Zenon, <1>2, <2>2 DEF Ticker!ReadStream, Ticker!cStream
    <3>2. /\ t \in TickRecords /\ t.at = "refuse?" /\ t.on = current
          /\ t.attempt = tk[r].attempt /\ t.failed = tk[r].failed
      BY Zenon, <1>0 DEF TickRecords
    <3> HIDE DEF t
    <3>3. TickerFits(r, t)
      BY <1>0, <2>0, <3>2 DEF TickerFits
    <3> QED BY Zenon, <2>0, <3>1, <3>2, <3>3, OneTicker
  <2> QED BY <2>1, <2>2
<1>3. CASE Ticker!CheckCtx(r)
  <2>0. r <= current /\ UNCHANGED <<current, phase, strayed>> /\ tk[r].at = "refuse?"
    BY <1>0, <1>3 DEF Ticker!CheckCtx
  <2>1. CASE Ticker!Refuses(r)
    BY <1>3, <2>0, <2>1, FailedFits DEF Ticker!CheckCtx
  <2>2. CASE ~Ticker!Refuses(r)
    <3> DEFINE t == [tk[r] EXCEPT !.at = "sending"]
    <3>1. tk' = [tk EXCEPT ![r] = t]
      BY <1>3, <2>2 DEF Ticker!CheckCtx
    <3>2. /\ t \in TickRecords /\ t.at = "sending" /\ t.on = tk[r].on /\ tk[r].on \in Nat
          /\ t.attempt = tk[r].attempt /\ t.failed = tk[r].failed
      BY <1>0, TickerAssumption DEF TickRecords
    <3> HIDE DEF t
    <3>3. r = current
      BY <2>2 DEF Ticker!Refuses, Ticker!CtxDone
    <3>4. TickerFits(r, t)
      BY <1>0, <2>0, <3>2, <3>3 DEF TickerFits
    <3> QED BY Zenon, <2>0, <3>1, <3>2, <3>4, OneTicker
  <2> QED BY <2>1, <2>2
<1>4. CASE Ticker!SendReturns(r)
  <2>0. r <= current /\ UNCHANGED <<current, phase>> /\ tk[r].at = "sending" /\ tk[r].on = r
    BY <1>0, <1>4 DEF Ticker!SendReturns, TickerFits
  <2>1. UNCHANGED strayed
    BY <1>4, <2>0 DEF Ticker!SendReturns
  <2>2. CASE Ticker!Failed(r)
    BY <2>0, <2>1, <2>2, FailedFits
  <2>3. CASE tk' = [tk EXCEPT ![r] = [Ticker!Waits(@) EXCEPT !.sent = "yes"]]
    <3> DEFINE t == [tk[r] EXCEPT !.sent = "yes"]
    <3>1. [Ticker!Waits(tk[r]) EXCEPT !.sent = "yes"] = Ticker!Waits(t) /\ t \in TickRecords
          /\ t.sent = "yes"
      BY Zenon, <1>0 DEF TickRecords, Ticker!Waits
    <3>2. tk' = [tk EXCEPT ![r] = Ticker!Waits(t)]
      BY Zenon, <2>3, <3>1
    <3> HIDE DEF t
    <3> QED BY Zenon, <2>0, <2>1, <3>1, <3>2, WaitsFits, OneTicker
  <2> QED BY <1>4, <2>2, <2>3 DEF Ticker!SendReturns
<1>5. CASE Ticker!BackoffEnds(r)
  <2>0. r <= current /\ UNCHANGED <<current, phase, strayed>> /\ tk[r].at = "backoff"
    BY <1>0, <1>5 DEF Ticker!BackoffEnds
  <2>1. CASE Ticker!CtxDone(r) /\ tk' = [tk EXCEPT ![r] = Ticker!Waits(@)]
    BY Zenon, <1>0, <2>0, <2>1, WaitsFits, OneTicker
  <2>2. CASE tk' = [tk EXCEPT ![r] = [@ EXCEPT !.at = "send", !.attempt = tk[r].attempt + 1]]
    <3> DEFINE t == [tk[r] EXCEPT !.at = "send", !.attempt = tk[r].attempt + 1]
    <3>1. tk[r].attempt < MaxAttempts /\ tk[r].failed = tk[r].attempt /\ tk[r].attempt \in Nat
      BY <1>0, <2>0, TickerAssumption DEF TickerFits, TickRecords
    <3>a. tk[r].attempt + 1 \in 0 .. MaxAttempts
      BY <3>1, TickerAssumption
    <3>2. /\ t \in TickRecords /\ t.at = "send" /\ t.attempt = tk[r].attempt + 1
          /\ t.failed = tk[r].failed
      BY Zenon, <1>0, <3>a DEF TickRecords
    <3>3. tk' = [tk EXCEPT ![r] = t]
      BY <2>2
    <3> HIDE DEF t
    <3>4. TickerFits(r, t)
      BY <1>0, <2>0, <3>1, <3>2 DEF TickerFits
    <3> QED BY Zenon, <2>0, <3>2, <3>3, <3>4, OneTicker
  <2> QED BY <1>5, <2>1, <2>2 DEF Ticker!BackoffEnds
<1>6. CASE Ticker!SelectWakes(r)
  <2>0. r <= current /\ UNCHANGED <<current, phase, strayed>> /\ tk[r].at = "wait"
    BY <1>0, <1>6 DEF Ticker!SelectWakes
  <2>1. PICK a \in {"ended", "collect"}, k \in {"none", "empty", "full"} :
            tk' = [tk EXCEPT ![r] = [@ EXCEPT !.at = a, !.tick = k]]
    <3>1. CASE tk' = [tk EXCEPT ![r].at = "ended"]
      <4>1. [tk[r] EXCEPT !.at = "ended"] = [tk[r] EXCEPT !.at = "ended", !.tick = tk[r].tick]
            /\ tk[r].tick \in {"none", "empty", "full"}
        BY Zenon, <1>0 DEF TickRecords
      <4> QED BY Zenon, <3>1, <4>1
    <3> QED BY <1>6, <3>1 DEF Ticker!SelectWakes
  <2> DEFINE t == [tk[r] EXCEPT !.at = a, !.tick = k]
  <2>2. /\ tk' = [tk EXCEPT ![r] = t] /\ t \in TickRecords /\ t.at = a /\ t.sent = tk[r].sent
        /\ t.failed = tk[r].failed
    BY Zenon, <1>0, <2>1 DEF TickRecords
  <2> HIDE DEF t
  <2>3. TickerFits(r, t)
    BY <1>0, <2>0, <2>2 DEF TickerFits
  <2> QED BY Zenon, <2>0, <2>2, <2>3, OneTicker
<1> QED
  BY <1>1, <1>2, <1>3, <1>4, <1>5, <1>6 DEF Ticker!Goroutine

(* The Run begins and ends around its goroutine.                            *)
LEMMA TickStep == TickInv /\ Ticker!TickNext => TickInv'
<1> SUFFICES ASSUME TickInv, Ticker!TickNext PROVE TickInv'
  OBVIOUS
<1>1. CASE Ticker!RunStarts
  <2> DEFINE n == current + 1
             t == [tk[n] EXCEPT !.at = "collect"]
  <2>1. n \in Ticker!Connects /\ tk[n] = Ticker!NotStarted /\ current \in Nat
    BY <1>1, TickerAssumption DEF Ticker!RunStarts, TickInv, TickerFits, Ticker!Connects
  <2>2. tk' = [tk EXCEPT ![n] = t] /\ current' = n /\ phase' = "up" /\ UNCHANGED strayed
    BY <1>1 DEF Ticker!RunStarts
  <2>3. t \in TickRecords /\ t.at = "collect" /\ t.sent = "yes"
    BY <2>1, TickerAssumption DEF Ticker!NotStarted, TickRecords
  <2>4. tk' \in [Ticker!Connects -> TickRecords] /\ n \in 0 .. MaxConnects
    BY <2>1, <2>2, <2>3, TickerAssumption DEF TickInv, Ticker!Connects
  <2> HIDE DEF t
  <2>5. ASSUME NEW q \in Ticker!Connects PROVE TickerFits(q, tk[q])'
    <3>1. CASE q = n
      BY SMTT(30), <2>1, <2>2, <2>3, <2>4, <3>1 DEF TickerFits, TickInv, Ticker!CtxDone
    <3>2. CASE q # n
      <4>1. tk'[q] = tk[q] /\ TickerFits(q, tk[q]) /\ q \in Nat /\ tk[q].on \in Nat
        BY <2>2, <3>2, TickerAssumption DEF TickInv, Ticker!Connects, TickRecords
      <4> QED
        BY <2>1, <2>2, <3>2, <4>1 DEF TickerFits, Ticker!CtxDone
    <3> QED BY Zenon, <3>1, <3>2
  <2> QED
    BY <2>2, <2>4, <2>5 DEF TickInv
<1>2. CASE Ticker!RunCancels \/ Ticker!RunCloses
  <2>1. /\ UNCHANGED <<current, tk, strayed>> /\ phase' \in {"cancelled", "closed"}
        /\ \A q \in Ticker!Connects : Ticker!CtxDone(q)'
    BY <1>2 DEF Ticker!RunCancels, Ticker!RunCloses, Ticker!CtxDone
  <2>2. ASSUME NEW q \in Ticker!Connects PROVE TickerFits(q, tk[q])'
    BY Zenon, <2>1 DEF TickerFits, TickInv
  <2> QED
    BY <2>1, <2>2 DEF TickInv
<1>3. ASSUME NEW r \in Ticker!Connects, Ticker!Ticks(r) PROVE TickInv'
  <2> DEFINE t == [tk[r] EXCEPT !.tick = "full"]
  <2>1. /\ tk[r] \in TickRecords /\ TickerFits(r, tk[r]) /\ tk[r].tick # "none"
        /\ tk' = [tk EXCEPT ![r] = t] /\ UNCHANGED <<current, phase, strayed>>
    BY <1>3 DEF Ticker!Ticks, TickInv
  <2>2. /\ t \in TickRecords /\ t.at = tk[r].at /\ t.attempt = tk[r].attempt
        /\ t.on = tk[r].on /\ t.sent = tk[r].sent /\ t.failed = tk[r].failed
    BY <2>1 DEF TickRecords
  <2> HIDE DEF t
  <2>3. TickerFits(r, t)
    BY <2>1, <2>2 DEF TickerFits, Ticker!NotStarted
  <2> QED BY Zenon, <2>1, <2>2, <2>3, OneTicker
<1> QED
  BY <1>1, <1>2, <1>3, GoroutineStep DEF Ticker!TickNext

-----------------------------------------------------------------------------
(* The whole: a behaviour is one of the loop or one of the ticker.           *)
AgentInv == part \in {"loop", "ticker"} /\ LoopInv /\ TickInv

(* A step of the other part leaves each invariant alone.                    *)
LEMMA LoopInvStutters == LoopInv /\ UNCHANGED vars => LoopInv'
<1> SUFFICES ASSUME LoopInv, UNCHANGED vars PROVE LoopInv'
  OBVIOUS
<1> USE DEF LoopInv, vars, linkVars, recvVars, taskVars
<1>1. LinkInv' /\ RecvInv'
  BY DEF LinkInv, RecvInv
<1>2. FrameInv'
  BY DEF FrameInv
<1>3. SendInv'
  BY DEF SendInv
<1>4. TokenInv'
  BY DEF TokenInv, TokensMatchGoroutines, Running
<1>5. BeatInv'
  BY DEF BeatInv, LatestWins
<1> QED
  BY <1>1, <1>2, <1>3, <1>4, <1>5

(* The same for the inventory goroutines.                                   *)
LEMMA TickInvStutters == TickInv /\ UNCHANGED tickVars => TickInv'
BY DEF TickInv, tickVars, TickerFits, Ticker!CtxDone

(* The invariants say what LoopConsistent does.                             *)
LEMMA LoopInvImplies ==
    LoopInv => TypeOK /\ TokensMatchGoroutines /\ NoFrameLost /\ LatestWins
<1> SUFFICES ASSUME LoopInv PROVE TypeOK /\ TokensMatchGoroutines /\ NoFrameLost /\ LatestWins
  BY Zenon
<1>1. TypeOK
  BY DEF LoopInv, LinkInv, RecvInv, FrameInv, SendInv, TokenInv, BeatInv, TypeOK,
     LoopSteps, RecvSteps, Contents, Heartbeats
<1>2. NoFrameLost
  BY DEF LoopInv, FrameInv, NoFrameLost
<1> QED
  BY <1>1, <1>2 DEF LoopInv, TokenInv, BeatInv

(* The same for the inventory goroutines.                                   *)
LEMMA TickInvImplies ==
    TickInv => Ticker!TickTypeOK /\ Ticker!NoStalledInventory /\ Ticker!OnOwnStream
BY TickerAssumption DEF TickInv, TickRecords, TickerFits, Ticker!TickTypeOK,
   Ticker!NoStalledInventory, Ticker!OnOwnStream

(* A step of either part.                                                   *)
LEMMA AgentStep == AgentInv /\ [AgentNext]_agentVars => AgentInv'
<1> SUFFICES ASSUME AgentInv, [AgentNext]_agentVars PROVE AgentInv'
  OBVIOUS
<1>1. CASE InLoop(Next)
  BY <1>1, LinkStep, RecvStep, FrameStep, SendStep, TokenStep, BeatStep, TickInvStutters
  DEF AgentInv, InLoop, LoopInv
<1>2. CASE InTicker(Ticker!TickNext)
  BY <1>2, TickStep, LoopInvStutters DEF AgentInv, InTicker
<1>3. CASE UNCHANGED agentVars
  BY <1>3, LoopInvStutters, TickInvStutters DEF AgentInv, agentVars
<1> QED
  BY <1>1, <1>2, <1>3 DEF AgentNext

(* Run keeps its goroutines, frames and tokens together, for any number of    *)
(* Runs, goroutines and attempts: every handler goroutine holds one token of  *)
(* its semaphore, no frame that was read is lost while the Run lasts, the      *)
(* heartbeat follows the latest Welcome within the accepted range, and the     *)
(* inventory goroutine gives up only after its last attempt and never sends    *)
(* on the stream of another Run.                                            *)
THEOREM LoopStaysConsistent == AgentSpec => []LoopConsistent
<1>1. AgentInit => AgentInv
  BY LoopInit, TickInitial DEF AgentInit, AgentInv
<1>2. AgentInv => LoopConsistent
  BY LoopInvImplies, TickInvImplies DEF AgentInv, LoopConsistent
<1> QED
  BY <1>1, <1>2, AgentStep, PTL DEF AgentSpec
=============================================================================
