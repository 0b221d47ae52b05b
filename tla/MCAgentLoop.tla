---------------------------- MODULE MCAgentLoop ----------------------------
(***************************************************************************)
(* AgentLoop and InventoryTicker on small instances.  They share no more     *)
(* than the stream, which each has for itself: a behaviour is one of the     *)
(* two, and the other stays in its initial state.                          *)
(***************************************************************************)
EXTENDS AgentLoop

CONSTANTS MaxConnects, MaxAttempts, MaxTicks

ASSUME TickerAssumption == MaxConnects \in Nat /\ MaxAttempts \in Nat \ {0}

VARIABLES part, current, phase, tk, strayed, ticks

Ticker == INSTANCE InventoryTicker

tickVars == <<current, phase, tk, strayed, ticks>>
agentVars == <<part, vars, tickVars>>

InLoop(A) == part = "loop" /\ A /\ UNCHANGED <<part, tickVars>>
InTicker(A) == part = "ticker" /\ A /\ UNCHANGED <<part, vars>>

AgentInit == part \in {"loop", "ticker"} /\ Init /\ Ticker!TickInit
AgentNext == InLoop(Next) \/ InTicker(Ticker!TickNext)

(* The fairness of AgentLoop, and a goroutine of the ticker that can go on    *)
(* does: handlers return, and send gives up when its ctx is done.           *)
AgentFairness ==
    /\ WF_agentVars(InLoop(LoopSeesError)) /\ WF_agentVars(InLoop(LoopSeesCtx))
    /\ WF_agentVars(InLoop(InlineReturns)) /\ WF_agentVars(InLoop(RunReturns))
    /\ WF_agentVars(InLoop(WelcomePushes))
    /\ \A r \in Runs :
        /\ WF_agentVars(InLoop(ReadPointer(r) \/ ReceiveFails(r) \/ Push(r) \/ PushAbandoned(r)))
        /\ WF_agentVars(InLoop(FrameArrives(r) /\ \E t \in Tasks : step[t] = "asking"))
    /\ \A t \in Tasks :
        /\ SF_agentVars(InLoop(DispatchResponse(t)))
        /\ WF_agentVars(InLoop(RevokeAsks(t) \/ TaskEnds(t) \/ SendStarts(t) \/ SendEnds(t)))
    /\ WF_agentVars(InLoop(SendEnds(Loop)))
    /\ \A r \in 1 .. MaxConnects : WF_agentVars(InTicker(Ticker!Goroutine(r)))

AgentSpec == AgentInit /\ [][AgentNext]_agentVars /\ AgentFairness

-----------------------------------------------------------------------------
(* The loop keeps its types, the ticker within its interval among them;     *)
(* every goroutine of a handler holds exactly one token of its semaphore,   *)
(* over panics, failed sends and the end of the Run; every frame that the   *)
(* receive goroutine has read and the loop has not taken waits in msgCh or  *)
(* in the goroutine's hand; the heartbeat runs at the interval of the       *)
(* latest Welcome or will receive exactly that one next.  The inventory     *)
(* goroutine gives an inventory up only after its last attempt, and sends    *)
(* on no stream but that of its own Run.                                   *)
LoopConsistent ==
    /\ part = "loop" => TypeOK /\ TokensMatchGoroutines /\ NoFrameLost /\ LatestWins
    /\ part = "ticker" => Ticker!TickTypeOK /\ Ticker!NoStalledInventory /\ Ticker!OnOwnStream

(* Nothing of a Run stays behind: its receive goroutine ends, so does a     *)
(* revocation, which needs the loop to bring it the key, and so does the    *)
(* inventory goroutine.                                                    *)
GoroutinesEnd == ReceiverEnds /\ RevokeEnds /\ Ticker!TickerEnds
=============================================================================
