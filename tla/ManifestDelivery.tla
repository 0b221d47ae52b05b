------------------------- MODULE ManifestDelivery --------------------------
(***************************************************************************)
(* Manifest deliveries from control to the agent's store and the receipt   *)
(* back (client.go: Run, dispatchServerMessage, runManifestDelivery), over *)
(* reconnects and crashes of the agent.                                    *)
(*                                                                         *)
(* Every Run has a delivery queue and one worker of its own.  Control and  *)
(* the handler are outside the SDK: control re-sends a delivery until it   *)
(* sees the receipt, the handler returns nil only after it committed.      *)
(***************************************************************************)
EXTENDS Naturals, Sequences

CONSTANTS
    Deliveries,     \* delivery ids
    Malformed,      \* those whose frame fails validateInbound, or is nil
    QueueDepth,     \* deliveryQueueDepth
    MaxRuns,        \* bound: how many Runs; the last one stays connected
    MaxInFlight     \* bound: frames in flight towards the agent

ASSUME MalformedAssumption == Malformed \subseteq Deliveries
ASSUME BoundsAssumption ==
    QueueDepth \in Nat /\ MaxRuns \in Nat /\ MaxInFlight \in Nat

Runs == 1..MaxRuns

VARIABLES
    control,    \* control's row of each delivery: "pushed" or "receipted"
    inbound,    \* delivery frames on the stream and in msgCh
    receipts,   \* receipts on the wire
    phase,      \* of the current Run: "up", "draining", or "down" between Runs
    run,        \* the current or last Run
    queue,      \* deliveryCh of each Run
    workerCancelled, \* Runs whose workerCtx is cancelled and deliveryCh closed
    worker,     \* what the worker of each Run is doing
    job,        \* the delivery it is doing it with
    store       \* deliveries durably recorded by the handler

linkVars == <<inbound, receipts>>
runVars == <<phase, run, workerCancelled>>
workerVars == <<queue, worker, job>>
pipelineVars == <<control, linkVars, runVars, workerVars, store>>

NoJob == "none"
Working == {"starting", "handling", "asking", "committed", "receipting"}

PipelineInit ==
    /\ control = [d \in Deliveries |-> "pushed"]
    /\ inbound = <<>> /\ receipts = {}
    /\ phase = "down" /\ run = 0 /\ workerCancelled = {}
    /\ queue = [r \in Runs |-> <<>>]
    /\ worker = [r \in Runs |-> "off"]
    /\ job = [r \in Runs |-> NoJob]
    /\ store = {}

-----------------------------------------------------------------------------
(* Control (external): it sends, and re-sends, every delivery whose row is *)
(* still PUSHED, and advances the row when the receipt arrives.            *)

ControlPush(d) ==
    /\ phase = "up"
    /\ control[d] = "pushed"
    /\ Len(inbound) < MaxInFlight
    /\ inbound' = Append(inbound, d)
    /\ UNCHANGED <<control, receipts, runVars, workerVars, store>>

ControlReceipt(d) ==
    /\ d \in receipts
    /\ control' = [control EXCEPT ![d] = "receipted"]
    /\ receipts' = receipts \ {d}
    /\ UNCHANGED <<inbound, runVars, workerVars, store>>

-----------------------------------------------------------------------------
(* Run: connect, hello, start the worker.                                  *)
StartRun ==
    /\ phase = "down"
    /\ run < MaxRuns
    /\ run' = run + 1
    /\ phase' = "up"
    /\ worker' = [worker EXCEPT ![run + 1] = "idle"]
    /\ UNCHANGED <<control, linkVars, workerCancelled, queue, job, store>>

(* The main loop dispatches one frame: an invalid one is dropped, a valid  *)
(* one is queued, or dropped when the queue is full.                       *)
DispatchDelivery ==
    /\ phase = "up"
    /\ inbound # <<>>
    /\ inbound' = Tail(inbound)
    /\ queue' = IF Head(inbound) \notin Malformed /\ Len(queue[run]) < QueueDepth
                THEN [queue EXCEPT ![run] = Append(queue[run], Head(inbound))]
                ELSE queue
    /\ UNCHANGED <<control, receipts, runVars, worker, job, store>>

(* Mutant of ExitRun: the worker's ctx is not cancelled before the wait.   *)
ExitRunNoCancel ==
    /\ phase = "up"
    /\ run < MaxRuns
    /\ phase' = "draining"
    /\ UNCHANGED <<control, linkVars, run, workerCancelled, workerVars, store>>

(* The main loop returns (ctx done, receive error, handler error) and the  *)
(* deferred teardown unpublishes deliveryCh, cancels workerCtx and closes   *)
(* the channel.                                                            *)
ExitRun ==
    /\ phase = "up"
    /\ run < MaxRuns
    /\ phase' = "draining"
    /\ workerCancelled' = workerCancelled \cup {run}
    /\ UNCHANGED <<control, linkVars, run, workerVars, store>>

(* Mutant of FinishRun: Close runs without deliveryWG.Wait.                *)
FinishRunNoWait ==
    /\ phase = "draining"
    /\ phase' = "down"
    /\ inbound' = <<>>
    /\ receipts' = {}
    /\ UNCHANGED <<control, run, workerCancelled, workerVars, store>>

(* deliveryWG.Wait, then the deferred Close: what was in flight is lost.   *)
FinishRun ==
    /\ phase = "draining"
    /\ worker[run] = "exited"
    /\ phase' = "down"
    /\ inbound' = <<>>
    /\ receipts' = {}
    /\ UNCHANGED <<control, run, workerCancelled, workerVars, store>>

(* The agent process dies; only the store survives.                        *)
Crash ==
    /\ phase # "down"
    /\ run < MaxRuns
    /\ phase' = "down"
    /\ inbound' = <<>>
    /\ receipts' = {}
    /\ workerCancelled' = workerCancelled \cup {run}
    /\ queue' = [r \in Runs |-> <<>>]
    /\ worker' = [r \in Runs |-> IF r <= run THEN "exited" ELSE worker[r]]
    /\ job' = [r \in Runs |-> NoJob]
    /\ UNCHANGED <<control, run, store>>

-----------------------------------------------------------------------------
(* The worker of Run r.                                                    *)

(* It goes on to step w with delivery d.                                   *)
WorkerTo(r, w, d) ==
    /\ worker' = [worker EXCEPT ![r] = w]
    /\ job' = [job EXCEPT ![r] = d]

(* Mutant of TakeDelivery: the worker drains its queue without looking at  *)
(* workerCtx.                                                              *)
TakeDeliveryUnchecked(r) ==
    /\ worker[r] = "idle"
    /\ queue[r] # <<>>
    /\ queue' = [queue EXCEPT ![r] = Tail(queue[r])]
    /\ WorkerTo(r, "starting", Head(queue[r]))
    /\ UNCHANGED <<control, linkVars, runVars, store>>

(* One round of the range loop: a delivery taken while the Run goes down   *)
(* is skipped.                                                             *)
TakeDelivery(r) ==
    /\ worker[r] = "idle"
    /\ queue[r] # <<>>
    /\ queue' = [queue EXCEPT ![r] = Tail(queue[r])]
    /\ \/ /\ r \in workerCancelled
          /\ UNCHANGED <<worker, job>>
       \/ /\ r \notin workerCancelled
          /\ WorkerTo(r, "starting", Head(queue[r]))
    /\ UNCHANGED <<control, linkVars, runVars, store>>

WorkerExits(r) ==
    /\ worker[r] = "idle"
    /\ queue[r] = <<>>
    /\ r \in workerCancelled
    /\ WorkerTo(r, "exited", NoJob)
    /\ UNCHANGED <<control, linkVars, runVars, queue, store>>

(* runManifestDelivery calls the handler.                                  *)
HandlerStarts(r) ==
    /\ worker[r] = "starting"
    /\ WorkerTo(r, "handling", job[r])
    /\ UNCHANGED <<control, linkVars, runVars, queue, store>>

(* The handler (external) waits for the answer to a correlated request on  *)
(* workerCtx; once that is done, send refuses the request at once.         *)
HandlerAsks(r) ==
    /\ worker[r] = "handling"
    /\ r \notin workerCancelled
    /\ WorkerTo(r, "asking", job[r])
    /\ UNCHANGED <<control, linkVars, runVars, queue, store>>

HandlerAnswered(r) ==
    /\ worker[r] = "asking"
    /\ WorkerTo(r, "handling", job[r])
    /\ UNCHANGED <<control, linkVars, runVars, queue, store>>

(* It commits the delivery to the store, or finds it there.                *)
HandlerCommits(r) ==
    /\ worker[r] = "handling"
    /\ store' = store \cup {job[r]}
    /\ WorkerTo(r, "committed", job[r])
    /\ UNCHANGED <<control, linkVars, runVars, queue>>

(* Mutant of HandlerFails: the error is logged and the receipt still sent. *)
HandlerFailsReceipted(r) ==
    /\ worker[r] \in {"handling", "committed"}
    /\ WorkerTo(r, "receipting", job[r])
    /\ UNCHANGED <<control, linkVars, runVars, queue, store>>

(* Mutant of HandlerFails: the panic is not recovered and ends the worker. *)
HandlerFailsUnrecovered(r) ==
    /\ worker[r] \in {"handling", "committed"}
    /\ WorkerTo(r, "exited", NoJob)
    /\ UNCHANGED <<control, linkVars, runVars, queue, store>>

(* The handler returns an error or panics, before or after it committed:   *)
(* no receipt.                                                             *)
HandlerFails(r) ==
    /\ worker[r] \in {"handling", "committed"}
    /\ WorkerTo(r, "idle", NoJob)
    /\ UNCHANGED <<control, linkVars, runVars, queue, store>>

HandlerReturnsNil(r) ==
    /\ worker[r] = "committed"
    /\ WorkerTo(r, "receipting", job[r])
    /\ UNCHANGED <<control, linkVars, runVars, queue, store>>

(* SendDeliveryReceipt: refused when workerCtx is done; otherwise written   *)
(* to the stream or lost.  A failure is only logged.                       *)
SendReceipt(r) ==
    /\ worker[r] = "receipting"
    /\ \/ /\ r \notin workerCancelled
          /\ receipts' = receipts \cup {job[r]}
       \/ UNCHANGED receipts
    /\ WorkerTo(r, "idle", NoJob)
    /\ UNCHANGED <<control, inbound, runVars, queue, store>>

-----------------------------------------------------------------------------
WorkerStep(r) ==
    \/ TakeDelivery(r) \/ WorkerExits(r) \/ HandlerStarts(r) \/ HandlerAsks(r)
    \/ HandlerAnswered(r) \/ HandlerCommits(r) \/ HandlerFails(r)
    \/ HandlerReturnsNil(r) \/ SendReceipt(r)

PipelineNext ==
    \/ \E d \in Deliveries : ControlPush(d) \/ ControlReceipt(d)
    \/ StartRun \/ DispatchDelivery \/ ExitRun \/ FinishRun \/ Crash
    \/ \E r \in Runs : WorkerStep(r)

PipelineSpec == PipelineInit /\ [][PipelineNext]_pipelineVars

(* The worker goroutine runs; a handler whose ctx is cancelled returns, as *)
(* does the request it waits for (AgentStream: CancelledReturns).  Of a    *)
(* handler whose ctx is not cancelled nothing is assumed.                  *)
WorkerFairness ==
    /\ WF_pipelineVars(FinishRun)
    /\ WF_pipelineVars(\E r \in Runs : TakeDelivery(r) \/ WorkerExits(r)
                                  \/ HandlerStarts(r) \/ SendReceipt(r))
    /\ WF_pipelineVars(\E r \in workerCancelled :
                  HandlerAnswered(r) \/ HandlerCommits(r) \/ HandlerFails(r))

(* For delivery itself: the agent reconnects, control keeps re-sending what *)
(* it can (a frame that fails validation is nobody's concern), requests are *)
(* answered while the receive loop runs, and neither the handler nor the    *)
(* stream fails the same delivery for ever.                                *)
DeliveryFairness ==
    /\ WF_pipelineVars(StartRun)
    /\ WF_pipelineVars(DispatchDelivery)
    /\ WF_pipelineVars(phase = "up" /\ \E r \in Runs : HandlerAnswered(r))
    /\ WF_pipelineVars(\E d \in Deliveries : ControlReceipt(d))
    /\ \A d \in Deliveries \ Malformed :
        /\ SF_pipelineVars(ControlPush(d))
        /\ SF_pipelineVars(\E r \in Runs : job[r] = d /\ HandlerCommits(r))
        /\ SF_pipelineVars(\E r \in Runs : job[r] = d /\ HandlerReturnsNil(r))
        /\ SF_pipelineVars(\E r \in Runs : job[r] = d /\ SendReceipt(r) /\ receipts' # receipts)

PipelineFairSpec == PipelineSpec /\ WorkerFairness
DeliverySpec == PipelineFairSpec /\ DeliveryFairness

-----------------------------------------------------------------------------
(* The variables keep their types, the delivery queue its bound.           *)
PipelineTypeOK ==
    /\ control \in [Deliveries -> {"pushed", "receipted"}]
    /\ inbound \in Seq(Deliveries)
    /\ receipts \subseteq Deliveries
    /\ phase \in {"up", "draining", "down"}
    /\ run \in 0..MaxRuns
    /\ phase # "down" => run \in Runs
    /\ workerCancelled \subseteq Runs
    /\ queue \in [Runs -> Seq(Deliveries)]
    /\ \A r \in Runs : Len(queue[r]) <= QueueDepth
    /\ worker \in [Runs -> {"off", "idle", "exited"} \cup Working]
    /\ job \in [Runs -> Deliveries \cup {NoJob}]
    /\ \A r \in Runs : worker[r] \in Working => job[r] \in Deliveries
    /\ store \subseteq Deliveries

(* runManifestDelivery: a receipt is on the wire, or control has advanced  *)
(* its row, only for a delivery that is durably recorded, whatever was     *)
(* lost, repeated or cut short on the way.                                 *)
ReceiptOnlyIfRecorded ==
    \A d \in Deliveries : control[d] = "receipted" \/ d \in receipts => d \in store

(* Run joins its worker before it returns: manifests are handled one at a  *)
(* time, a reconnect included.                                             *)
OneHandlerAtATime ==
    \A r, q \in Runs : worker[r] \in Working /\ worker[q] \in Working => r = q

(* validateInbound: a malformed delivery reaches neither handler nor store. *)
MalformedNeverHandled ==
    /\ store \cap Malformed = {}
    /\ \A r \in Runs : worker[r] \in Working => job[r] \notin Malformed

(* The teardown of a Run: once workerCtx is cancelled the worker begins no *)
(* queued delivery; at most the one it has already checked out still runs. *)
NoWorkBegunInTeardown ==
    [][\A r \in Runs : r \in workerCancelled /\ worker[r] = "idle"
                            => worker'[r] \in {"idle", "exited"}]_pipelineVars

(* Run returns: deliveryWG.Wait ends although the deferred Close, which    *)
(* would release a handler that waits for an answer, comes after it.       *)
TeardownCompletes == (phase = "draining") ~> (phase = "down")

(* "Nothing is lost: no receipt was sent, so control redelivers": every     *)
(* well-formed delivery is recorded and receipted in the end.              *)
EventuallyReceipted ==
    \A d \in Deliveries \ Malformed : <>(control[d] = "receipted")

(* The pipeline implements the contract.                                   *)
Contract == INSTANCE DeliveryContract WITH
    recorded <- store,
    receipted <- {d \in Deliveries : control[d] = "receipted"}

(* Recording and receipting are all that shows of the pipeline, in that    *)
(* order and for good.                                                     *)
ImplementsContract == Contract!Spec
=============================================================================
