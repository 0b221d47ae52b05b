---------------------------- MODULE ClientProofs ---------------------------
(***************************************************************************)
(* Proofs about the agent's client (client.go): the stream with its send    *)
(* slot and correlated requests (AgentStream), for any operations and any    *)
(* number of streams, and the delivery of manifests (ManifestDelivery), for   *)
(* any deliveries, any queue depth and any number of reconnects and crashes. *)
(***************************************************************************)
EXTENDS AgentStream, ManifestDelivery, TLAPS

-----------------------------------------------------------------------------
(* AgentStream                                                             *)

(* The slot: a goroutine inside stream.Send holds the only token.          *)
SlotInv ==
    /\ OneSendInFlight
    /\ sendSem = 0 => sends = {}

(* A request that has registered is known to Close until it unregisters.   *)
RegisteredInv ==
    \A r \in Requests :
        pc[r] \in Active \cup {"registered"} => r \in pending \cup closedCh

(* NoStrandedWaiter, and that Close leaves no open channel behind it while *)
(* it still holds c.mu.                                                    *)
LiveInv ==
    /\ closing => stream # NoStream
    /\ \A r \in Requests :
        pc[r] \in Active /\ r \notin closedCh =>
            stream # NoStream /\ sees[r] = stream /\ ~closing

(* What is in a pending channel is the server's decision on that request.  *)
AnswerInv ==
    /\ receiver = "received" => verdict[frame] # None
    /\ receiver = "found" => verdict[frame] # None
    /\ \A r \in Requests : buffer[r] \in {None, verdict[r]}

(* A request that saw its channel closed had no answer in it.              *)
ClosedInv ==
    \A r \in Requests :
        outcome[r] = "closed" => r \in closedCh /\ buffer[r] = None

Inv ==
    /\ TypeOK
    /\ SlotInv
    /\ RegisteredInv
    /\ LiveInv
    /\ AnswerInv
    /\ ConfirmedOnlyIfAccepted
    /\ ClosedInv

(* The initial state of a client satisfies the invariant.                  *)
LEMMA InitInv == Init => Inv
<1> SUFFICES ASSUME Init PROVE Inv
  OBVIOUS
<1> USE DEF Init, NoStream
<1>1. TypeOK
  <2>1. 0 \in 0..MaxStreams
    BY MaxStreamsNat
  <2>2. closing \in BOOLEAN
    BY Zenon
  <2> QED
    BY <2>1, <2>2 DEF TypeOK
<1>2. SlotInv /\ RegisteredInv /\ LiveInv
  BY DEF SlotInv, OneSendInFlight, RegisteredInv, LiveInv, Active, Ops
<1>3. AnswerInv /\ ConfirmedOnlyIfAccepted /\ ClosedInv
  BY DEF AnswerInv, ConfirmedOnlyIfAccepted, ClosedInv, Ops, None
<1> QED BY <1>1, <1>2, <1>3 DEF Inv

(* Every step keeps the types; the slot counter stays in 0..1 because of   *)
(* SlotInv, the set of dead streams within Streams because of LiveInv.     *)
LEMMA TypeStep == Inv /\ [Next]_vars => TypeOK'
<1> SUFFICES ASSUME Inv, [Next]_vars PROVE TypeOK'
  OBVIOUS
<1> USE MaxStreamsNat DEF Inv, TypeOK
<1>1. CASE Connect
  BY <1>1 DEF Connect, sendVars, opVars, chanVars, serverVars, recvVars, NoStream, Streams
<1>2. CASE Break
  BY <1>2 DEF Break, sendVars, opVars, chanVars, serverVars, recvVars, NoStream, Streams
<1>3. CASE CloseCancelsPending
  BY <1>3 DEF CloseCancelsPending, sendVars, opVars, serverVars, recvVars
<1>4. CASE CloseStream
  <2>1. dead' \subseteq Streams
    BY <1>4 DEF CloseStream, LiveInv, NoStream, Streams
  <2>2. stream' \in 0..MaxStreams
    BY <1>4 DEF CloseStream, NoStream
  <2>3. closing' \in BOOLEAN
    BY Zenon, <1>4 DEF CloseStream
  <2> QED
    BY <1>4, <2>1, <2>2, <2>3 DEF CloseStream, sendVars, opVars, chanVars, serverVars, recvVars
<1>5. ASSUME NEW o \in Ops, Operation(o) PROVE TypeOK'
  <2>1. CASE ReadStream(o)
    BY <2>1 DEF ReadStream, Returns, Outcomes, Active, streamVars, sendVars,
       chanVars, serverVars, recvVars
  <2>2. CASE AcquireSlot(o)
    BY <2>2 DEF AcquireSlot, Active, streamVars, chanVars, serverVars, recvVars
  <2>3. CASE GiveUp(o)
    BY <2>3 DEF GiveUp, Returns, Outcomes, streamVars, sendVars, chanVars,
       serverVars, recvVars
  <2>4. CASE SendReturns(o)
    BY <2>4 DEF SendReturns, SlotInv, None, streamVars, opVars, chanVars, recvVars
  <2>5. CASE SendResult(o)
    BY <2>5 DEF SendResult, Returns, Outcomes, Active, None, streamVars, chanVars,
       serverVars, recvVars
  <2>6. CASE CancelCtx(o)
    BY Zenon, <2>6 DEF CancelCtx, streamVars, sendVars, opVars, chanVars, serverVars, recvVars
  <2> QED BY <1>5, <2>1, <2>2, <2>3, <2>4, <2>5, <2>6 DEF Operation
<1>6. ASSUME NEW r \in Requests, Request(r) PROVE TypeOK'
  <2>0. r \in Ops
    BY DEF Ops
  <2>1. CASE RegisterPending(r)
    BY <2>0, <2>1 DEF RegisterPending, streamVars, sendVars, serverVars, recvVars
  <2>2. CASE UnregisterPending(r)
    BY <2>0, <2>2 DEF UnregisterPending, streamVars, sendVars, serverVars, recvVars
  <2>3. CASE TakeResponse(r)
    BY <2>0, <2>3 DEF TakeResponse, ResponseOutcome, Returns, Outcomes, streamVars,
       sendVars, serverVars, recvVars
  <2>4. CASE ServerDecides(r)
    BY <2>4 DEF ServerDecides, streamVars, sendVars, opVars, chanVars, recvVars
  <2>5. CASE ReceiveFrame(r)
    BY <2>5 DEF ReceiveFrame, streamVars, sendVars, opVars, chanVars, serverVars
  <2> QED BY <1>6, <2>1, <2>2, <2>3, <2>4, <2>5 DEF Request
<1>7. CASE LookupPending
  BY <1>7 DEF LookupPending, streamVars, sendVars, opVars, chanVars, serverVars
<1>8. CASE DeliverPending
  BY <1>8 DEF DeliverPending, streamVars, sendVars, opVars, serverVars
<1>9. CASE UNCHANGED vars
  BY <1>9 DEF vars, streamVars, sendVars, opVars, chanVars, serverVars, recvVars
<1> QED
  BY Zenon, <1>1, <1>2, <1>3, <1>4, <1>5, <1>6, <1>7, <1>8, <1>9 DEF Next

(* A step keeps the slot exclusive: only AcquireSlot starts a Send, and it *)
(* needs the token that the last Send gave back.                           *)
LEMMA SlotStep == Inv /\ [Next]_vars => SlotInv'
<1> SUFFICES ASSUME Inv, [Next]_vars PROVE SlotInv'
  OBVIOUS
<1> USE DEF Inv, TypeOK, SlotInv, OneSendInFlight
<1>1. ASSUME NEW o \in Ops, AcquireSlot(o) PROVE SlotInv'
  BY <1>1 DEF AcquireSlot
<1>2. ASSUME NEW o \in Ops, SendReturns(o) PROVE SlotInv'
  BY <1>2 DEF SendReturns
<1>3. CASE UNCHANGED <<sends, sendSem>>
  BY <1>3
<1>4. ASSUME NEW o \in Ops, Operation(o) PROVE SlotInv'
  BY <1>1, <1>2, <1>3, <1>4 DEF Operation, ReadStream, GiveUp, SendResult,
     CancelCtx, sendVars
<1>5. ASSUME NEW r \in Requests, Request(r) PROVE SlotInv'
  BY <1>3, <1>5 DEF Request, RegisterPending, UnregisterPending, TakeResponse,
     ServerDecides, ReceiveFrame, sendVars
<1> QED
  BY <1>3, <1>4, <1>5 DEF Next, Connect, Break, CloseCancelsPending, CloseStream,
     LookupPending, DeliverPending, vars, sendVars

(* A step keeps every registered request known to Close, and every request *)
(* with an open channel on the current stream.  Registration comes before  *)
(* the stream is read, and Close holds c.mu from the moment it closes the  *)
(* channels until the stream pointer is gone: a request that could still   *)
(* be waiting has either been told or reads no stream at all.              *)
LEMMA LiveStep == Inv /\ [Next]_vars => RegisteredInv' /\ LiveInv'
<1> SUFFICES ASSUME Inv, [Next]_vars PROVE RegisteredInv' /\ LiveInv'
  OBVIOUS
<1> USE DEF Inv, TypeOK, RegisteredInv, LiveInv, Ops
<1>0. CASE UNCHANGED <<pc, sees, stream, closing, pending, closedCh>>
  BY <1>0
<1>1. CASE Connect
  BY <1>1 DEF Connect, opVars, chanVars, NoStream, Active
<1>2. CASE Break
  BY <1>0, <1>2 DEF Break, opVars, chanVars
<1>3. CASE CloseCancelsPending
  BY <1>3 DEF CloseCancelsPending, opVars
<1>4. CASE CloseStream
  BY <1>4 DEF CloseStream, opVars, chanVars
<1>5. ASSUME NEW o \in Ops, Operation(o) PROVE RegisteredInv' /\ LiveInv'
  <2>1. CASE ReadStream(o)
    BY <2>1 DEF ReadStream, Returns, Active, streamVars, chanVars
  <2>2. CASE AcquireSlot(o)
    BY <2>2 DEF AcquireSlot, Active, streamVars, chanVars
  <2>3. CASE GiveUp(o)
    BY <2>3 DEF GiveUp, Returns, Active, streamVars, chanVars
  <2>4. CASE SendReturns(o) \/ CancelCtx(o)
    BY <1>0, <2>4 DEF SendReturns, CancelCtx, streamVars, opVars, chanVars
  <2>5. CASE SendResult(o)
    BY <2>5 DEF SendResult, Returns, Active, streamVars, chanVars
  <2> QED BY <1>5, <2>1, <2>2, <2>3, <2>4, <2>5 DEF Operation
<1>6. ASSUME NEW r \in Requests, Request(r) PROVE RegisteredInv' /\ LiveInv'
  <2>1. CASE RegisterPending(r)
    BY <2>1 DEF RegisterPending, Active, streamVars
  <2>2. CASE UnregisterPending(r)
    BY <2>2 DEF UnregisterPending, Active, streamVars
  <2>3. CASE TakeResponse(r)
    BY <2>3 DEF TakeResponse, Returns, Active, streamVars
  <2>4. CASE ServerDecides(r) \/ ReceiveFrame(r)
    BY <1>0, <2>4 DEF ServerDecides, ReceiveFrame, streamVars, opVars, chanVars
  <2> QED BY <1>6, <2>1, <2>2, <2>3, <2>4 DEF Request
<1>7. CASE LookupPending \/ DeliverPending
  BY <1>0, <1>7 DEF LookupPending, DeliverPending, streamVars, opVars, chanVars
<1>8. CASE UNCHANGED vars
  BY <1>0, <1>8 DEF vars, streamVars, opVars, chanVars
<1> QED
  BY <1>1, <1>2, <1>3, <1>4, <1>5, <1>6, <1>7, <1>8 DEF Next

(* A step keeps the answers honest: a channel holds nothing but the        *)
(* server's decision, which never changes, and "ok" and "closed" are        *)
(* reported from what the channel held.                                    *)
LEMMA AnswerStep ==
    Inv /\ [Next]_vars => AnswerInv' /\ ConfirmedOnlyIfAccepted' /\ ClosedInv'
<1> DEFINE Good == AnswerInv /\ ConfirmedOnlyIfAccepted /\ ClosedInv
<1> SUFFICES ASSUME Inv, [Next]_vars PROVE Good'
  OBVIOUS
<1> USE DEF Inv, TypeOK, AnswerInv, ConfirmedOnlyIfAccepted, ClosedInv, Ops
<1>0. CASE UNCHANGED <<outcome, buffer, closedCh, verdict, receiver, frame>>
  BY <1>0
<1>1. CASE CloseCancelsPending
  BY <1>1 DEF CloseCancelsPending, opVars, serverVars, recvVars
<1>2. ASSUME NEW o \in Ops, Operation(o) PROVE Good'
  <2>1. CASE ReadStream(o)
    BY <2>1 DEF ReadStream, Returns, chanVars, serverVars, recvVars
  <2>2. CASE GiveUp(o)
    BY <2>2 DEF GiveUp, Returns, chanVars, serverVars, recvVars
  <2>3. CASE SendResult(o)
    BY <2>3, DisjointOps DEF SendResult, Returns, chanVars, serverVars, recvVars
  <2>4. CASE AcquireSlot(o) \/ SendReturns(o) \/ CancelCtx(o)
    BY <1>0, <2>4 DEF AcquireSlot, SendReturns, CancelCtx, opVars, chanVars,
       serverVars, recvVars
  <2> QED BY <1>2, <2>1, <2>2, <2>3, <2>4 DEF Operation
<1>3. ASSUME NEW r \in Requests, Request(r) PROVE Good'
  <2>1. CASE RegisterPending(r) \/ UnregisterPending(r)
    BY <1>0, <2>1 DEF RegisterPending, UnregisterPending, serverVars, recvVars
  <2>2. CASE TakeResponse(r)
    BY <2>2 DEF TakeResponse, Returns, ResponseOutcome, None, serverVars, recvVars
  <2>3. CASE ServerDecides(r)
    BY <2>3 DEF ServerDecides, None, Answers, opVars, chanVars, recvVars
  <2>4. CASE ReceiveFrame(r)
    BY <2>4 DEF ReceiveFrame, opVars, chanVars, serverVars
  <2> QED BY <1>3, <2>1, <2>2, <2>3, <2>4 DEF Request
<1>4. CASE LookupPending
  BY <1>4 DEF LookupPending, opVars, chanVars, serverVars
<1>5. CASE DeliverPending
  BY <1>5 DEF DeliverPending, opVars, serverVars
<1>6. CASE Connect \/ Break \/ CloseStream
  BY <1>0, <1>6 DEF Connect, Break, CloseStream, opVars, chanVars, serverVars, recvVars
<1>7. CASE UNCHANGED vars
  BY <1>0, <1>7 DEF vars, opVars, chanVars, serverVars, recvVars
<1> QED
  BY <1>1, <1>2, <1>3, <1>4, <1>5, <1>6, <1>7 DEF Next
-----------------------------------------------------------------------------
(* The invariant is inductive, for every set of operations and any number  *)
(* of reconnects.                                                          *)
THEOREM Invariance == Spec => []Inv
<1>1. Inv /\ [Next]_vars => Inv'
  BY TypeStep, SlotStep, LiveStep, AnswerStep DEF Inv
<1> QED BY <1>1, InitInv, PTL DEF Spec

(* The variables keep their types.                                         *)
THEOREM TypeCorrect == Spec => []TypeOK
<1>1. Inv => TypeOK
  BY DEF Inv
<1> QED BY <1>1, Invariance, PTL

(* send: at most one stream.Send is in flight, however many goroutines     *)
(* send and give up, over any number of streams.                           *)
THEOREM SendsSerialised == Spec => []OneSendInFlight
<1>1. Inv => OneSendInFlight
  BY DEF Inv, SlotInv
<1> QED BY <1>1, Invariance, PTL

(* Close: no request is left waiting on a stream that was torn down.       *)
THEOREM NobodyStranded == Spec => []NoStrandedWaiter
<1>1. Inv => NoStrandedWaiter
  BY DEF Inv, LiveInv, NoStrandedWaiter
<1> QED BY <1>1, Invariance, PTL

(* A correlated request returns nil only if the server accepted it.        *)
THEOREM NeverFalselyConfirmed == Spec => []ConfirmedOnlyIfAccepted
<1>1. Inv => ConfirmedOnlyIfAccepted
  BY DEF Inv
<1> QED BY <1>1, Invariance, PTL

(* "stream closed" is never reported over an answer that was delivered.    *)
THEOREM AnswersSurvive == Spec => []AnswerSurvivesClose
<1>1. Inv => AnswerSurvivesClose
  BY DEF Inv, ClosedInv, AnswerSurvivesClose
<1> QED BY <1>1, Invariance, PTL

-----------------------------------------------------------------------------
(* ManifestDelivery                                                        *)

(* What a worker is about to receipt is in the store.                      *)
CommittedInv ==
    \A r \in Runs : worker[r] \in {"committed", "receipting"} => job[r] \in store

(* A worker lives no longer than its Run.                                  *)
JoinedInv ==
    \A r \in Runs :
        worker[r] \notin {"off", "exited"} => r = run /\ phase # "down"

(* No queue holds a malformed delivery.                                    *)
QueueInv == \A r \in Runs : queue[r] \in Seq(Deliveries \ Malformed)

PipelineInv ==
    /\ PipelineTypeOK
    /\ CommittedInv
    /\ ReceiptOnlyIfRecorded
    /\ JoinedInv
    /\ QueueInv
    /\ MalformedNeverHandled

(* Before the first Run nothing is queued, recorded or receipted.          *)
LEMMA PipelineInitInv == PipelineInit => PipelineInv
<1> SUFFICES ASSUME PipelineInit PROVE PipelineInv
  OBVIOUS
<1> USE DEF PipelineInit
<1>1. PipelineTypeOK
  BY BoundsAssumption DEF PipelineTypeOK, Working
<1>2. CommittedInv /\ ReceiptOnlyIfRecorded /\ JoinedInv
  BY DEF CommittedInv, ReceiptOnlyIfRecorded, JoinedInv
<1>3. QueueInv /\ MalformedNeverHandled
  BY SMTT(30) DEF QueueInv, MalformedNeverHandled, Working
<1> QED BY <1>1, <1>2, <1>3 DEF PipelineInv

(* The steps of a worker keep the invariant.  HandlerFails drops the job   *)
(* without a receipt; SendReceipt only sends what CommittedInv covers.     *)
LEMMA WorkerKeepsInv ==
    ASSUME PipelineInv, NEW r \in Runs, WorkerStep(r) PROVE PipelineInv'
<1> USE BoundsAssumption, MalformedAssumption
    DEF PipelineInv, PipelineTypeOK, CommittedInv, ReceiptOnlyIfRecorded, JoinedInv, QueueInv,
        MalformedNeverHandled, WorkerTo, Working, linkVars, runVars
<1>1. CASE TakeDelivery(r)
  <2>1. Head(queue[r]) \in Deliveries \ Malformed
    BY <1>1 DEF TakeDelivery
  <2>2. /\ Tail(queue[r]) \in Seq(Deliveries \ Malformed)
        /\ Tail(queue[r]) \in Seq(Deliveries)
        /\ Len(Tail(queue[r])) <= QueueDepth
    BY <1>1 DEF TakeDelivery
  <2>3. PipelineTypeOK'
    <3>1. /\ queue' \in [Runs -> Seq(Deliveries)]
          /\ \A q \in Runs : Len(queue'[q]) <= QueueDepth
      BY <1>1, <2>2 DEF TakeDelivery
    <3>2. /\ worker' \in [Runs -> {"off", "idle", "exited"} \cup Working]
          /\ job' \in [Runs -> Deliveries \cup {NoJob}]
      <4>1. CASE UNCHANGED <<worker, job>>
        BY <4>1
      <4>2. CASE WorkerTo(r, "starting", Head(queue[r]))
        BY <2>1, <4>2
      <4> QED BY <1>1, <4>1, <4>2 DEF TakeDelivery
    <3>3. \A q \in Runs : worker'[q] \in Working => job'[q] \in Deliveries
      BY <1>1, <2>1 DEF TakeDelivery
    <3> QED BY <1>1, <3>1, <3>2, <3>3 DEF TakeDelivery
  <2>4. QueueInv' /\ MalformedNeverHandled'
    BY <1>1, <2>1, <2>2 DEF TakeDelivery
  <2>5. CommittedInv' /\ ReceiptOnlyIfRecorded' /\ JoinedInv'
    BY Zenon, <1>1 DEF TakeDelivery
  <2> QED BY <2>3, <2>4, <2>5
<1>2. CASE WorkerExits(r)
  BY <1>2 DEF WorkerExits
<1>3. CASE HandlerStarts(r)
  BY Zenon, <1>3 DEF HandlerStarts
<1>4. CASE HandlerAsks(r)
  BY Zenon, <1>4 DEF HandlerAsks
<1>5. CASE HandlerAnswered(r)
  BY Zenon, <1>5 DEF HandlerAnswered
<1>6. CASE HandlerCommits(r)
  BY <1>6 DEF HandlerCommits
<1>7. CASE HandlerFails(r)
  BY <1>7 DEF HandlerFails
<1>8. CASE HandlerReturnsNil(r)
  BY <1>8 DEF HandlerReturnsNil
<1>9. CASE SendReceipt(r)
  BY Zenon, <1>9 DEF SendReceipt
<1> QED
  BY Zenon, <1>1, <1>2, <1>3, <1>4, <1>5, <1>6, <1>7, <1>8, <1>9 DEF WorkerStep

(* Control's steps keep the invariant: it receipts what is on the wire.    *)
LEMMA ControlKeepsInv ==
    ASSUME PipelineInv, NEW d \in Deliveries, ControlPush(d) \/ ControlReceipt(d)
    PROVE PipelineInv'
<1> USE DEF PipelineInv, PipelineTypeOK, CommittedInv, ReceiptOnlyIfRecorded, JoinedInv, QueueInv,
        MalformedNeverHandled, runVars, workerVars
<1>1. CASE ControlPush(d)
  BY <1>1 DEF ControlPush
<1>2. CASE ControlReceipt(d)
  BY Zenon, <1>2 DEF ControlReceipt
<1> QED BY <1>1, <1>2

(* The steps of Run keep the invariant.  FinishRun waits for the worker,   *)
(* which is what makes room for the next Run's worker in StartRun.         *)
LEMMA RunKeepsInv ==
    ASSUME PipelineInv, StartRun \/ DispatchDelivery \/ ExitRun \/ FinishRun \/ Crash
    PROVE PipelineInv'
<1> USE BoundsAssumption, MalformedAssumption
    DEF PipelineInv, PipelineTypeOK, CommittedInv, ReceiptOnlyIfRecorded, JoinedInv, QueueInv,
        MalformedNeverHandled, Working, Runs, linkVars, runVars, workerVars
<1>1. CASE StartRun
  BY <1>1 DEF StartRun
<1>2. CASE DispatchDelivery
  <2> DEFINE d == Head(inbound)
  <2>1. d \in Deliveries /\ Tail(inbound) \in Seq(Deliveries) /\ run \in Runs
    BY <1>2 DEF DispatchDelivery
  <2>2. CASE d \notin Malformed /\ Len(queue[run]) < QueueDepth
    <3>1. /\ Append(queue[run], d) \in Seq(Deliveries)
          /\ Append(queue[run], d) \in Seq(Deliveries \ Malformed)
          /\ Len(Append(queue[run], d)) = Len(queue[run]) + 1
          /\ Len(queue[run]) \in Nat
      BY <2>1, <2>2
    <3>2. queue' = [queue EXCEPT ![run] = Append(queue[run], d)]
      BY <1>2, <2>2 DEF DispatchDelivery
    <3> QED
      BY <1>2, <2>1, <2>2, <3>1, <3>2 DEF DispatchDelivery
  <2>3. CASE ~(d \notin Malformed /\ Len(queue[run]) < QueueDepth)
    BY <1>2, <2>1, <2>3 DEF DispatchDelivery
  <2> QED BY Zenon, <2>2, <2>3
<1>3. CASE ExitRun
  BY <1>3 DEF ExitRun
<1>4. CASE FinishRun
  BY SMTT(30), <1>4 DEF FinishRun
<1>5. CASE Crash
  <2>1. \A r \in Runs : worker'[r] \in {"off", "exited"}
    BY <1>5 DEF Crash
  <2>2. /\ queue' \in [Runs -> Seq(Deliveries)]
        /\ \A r \in Runs : queue'[r] = <<>> /\ Len(queue'[r]) <= QueueDepth
    BY <1>5 DEF Crash
  <2>3. worker' \in [Runs -> {"off", "idle", "exited"} \cup Working]
    BY <1>5 DEF Crash
  <2>4. job' \in [Runs -> Deliveries \cup {NoJob}]
    BY <1>5 DEF Crash
  <2>5. workerCancelled' \subseteq Runs /\ inbound' \in Seq(Deliveries)
    BY <1>5 DEF Crash
  <2>6. PipelineTypeOK'
    BY Zenon, <1>5, <2>1, <2>2, <2>3, <2>4, <2>5 DEF Crash
  <2>7. QueueInv'
    BY <2>2
  <2>8. CommittedInv' /\ ReceiptOnlyIfRecorded' /\ JoinedInv' /\ MalformedNeverHandled'
    BY Zenon, <1>5, <2>1 DEF Crash
  <2> QED BY Zenon, <2>6, <2>7, <2>8
<1> QED BY Zenon, <1>1, <1>2, <1>3, <1>4, <1>5

(* The invariant is inductive.                                             *)
THEOREM PipelineInvariance == PipelineSpec => []PipelineInv
<1>1. PipelineInv /\ [PipelineNext]_pipelineVars => PipelineInv'
  <2> SUFFICES ASSUME PipelineInv, [PipelineNext]_pipelineVars PROVE PipelineInv'
    OBVIOUS
  <2>1. CASE UNCHANGED pipelineVars
    BY <2>1 DEF pipelineVars, linkVars, runVars, workerVars, PipelineInv, PipelineTypeOK, CommittedInv,
       ReceiptOnlyIfRecorded, JoinedInv, QueueInv, MalformedNeverHandled
  <2> QED
    BY <2>1, WorkerKeepsInv, ControlKeepsInv, RunKeepsInv DEF PipelineNext
<1> QED BY <1>1, PipelineInitInv, PTL DEF PipelineSpec

(* A receipt, sent or seen, is for a recorded delivery.                    *)
THEOREM ReceiptsAreHonest == PipelineSpec => []ReceiptOnlyIfRecorded
<1>1. PipelineInv => ReceiptOnlyIfRecorded
  BY DEF PipelineInv
<1> QED BY <1>1, PipelineInvariance, PTL

(* Manifests are handled one at a time, over any number of reconnects.     *)
THEOREM HandlersExclude == PipelineSpec => []OneHandlerAtATime
<1>1. PipelineInv => OneHandlerAtATime
  BY DEF PipelineInv, JoinedInv, OneHandlerAtATime, Working
<1> QED BY <1>1, PipelineInvariance, PTL

(* A malformed delivery reaches neither handler nor store.                 *)
THEOREM MalformedStayOut == PipelineSpec => []MalformedNeverHandled
<1>1. PipelineInv => MalformedNeverHandled
  BY DEF PipelineInv
<1> QED BY <1>1, PipelineInvariance, PTL

(* Once workerCtx is cancelled no queued delivery is begun.                *)
THEOREM TeardownBeginsNothing == PipelineSpec => NoWorkBegunInTeardown
<1> DEFINE Step == \A r \in Runs : r \in workerCancelled /\ worker[r] = "idle"
                                     => worker'[r] \in {"idle", "exited"}
<1>1. PipelineInv /\ [PipelineNext]_pipelineVars => [Step]_pipelineVars
  <2> SUFFICES ASSUME PipelineInv, PipelineNext, NEW r \in Runs, r \in workerCancelled, worker[r] = "idle"
               PROVE  worker'[r] \in {"idle", "exited"}
    OBVIOUS
  <2>1. CASE StartRun
    BY Zenon, <2>1 DEF StartRun, PipelineInv, PipelineTypeOK, JoinedInv
  <2>2. ASSUME NEW q \in Runs, WorkerStep(q) PROVE worker'[r] \in {"idle", "exited"}
    BY <2>2 DEF WorkerStep, WorkerTo, TakeDelivery, WorkerExits, HandlerStarts,
       HandlerAsks, HandlerAnswered, HandlerCommits, HandlerFails,
       HandlerReturnsNil, SendReceipt, PipelineInv, PipelineTypeOK
  <2> QED
    BY <2>1, <2>2 DEF PipelineNext, ControlPush, ControlReceipt, DispatchDelivery, ExitRun,
       FinishRun, Crash, workerVars
<1> QED BY <1>1, PipelineInvariance, PTL DEF PipelineSpec, NoWorkBegunInTeardown

(* The pipeline implements its contract: what is recorded stays recorded,  *)
(* what is receipted was recorded and stays receipted.                     *)
THEOREM Refinement == PipelineSpec => ImplementsContract
<1> DEFINE receipted == {d \in Deliveries : control[d] = "receipted"}
<1>1. PipelineInit => Contract!Init
  BY DEF PipelineInit, Contract!Init
<1>2. PipelineInv /\ [PipelineNext]_pipelineVars => [Contract!Next]_(Contract!contractVars)
  <2> SUFFICES ASSUME PipelineInv, [PipelineNext]_pipelineVars
               PROVE  Contract!Next \/ UNCHANGED <<store, receipted>>
    BY DEF Contract!contractVars
  <2>1. ASSUME NEW d \in Deliveries, ControlReceipt(d) PROVE Contract!Receipt(d)
    BY Zenon, <2>1 DEF ControlReceipt, PipelineInv, PipelineTypeOK, ReceiptOnlyIfRecorded, Contract!Receipt
  <2>2. ASSUME NEW r \in Runs, HandlerCommits(r)
        PROVE  Contract!Record(job[r]) \/ UNCHANGED <<store, receipted>>
    BY Zenon, <2>2 DEF HandlerCommits, Contract!Record
  <2>3. ASSUME NEW r \in Runs, HandlerCommits(r) PROVE job[r] \in Deliveries
    BY <2>3 DEF HandlerCommits, PipelineInv, PipelineTypeOK, Working
  <2>4. CASE UNCHANGED <<store, control>>
    BY Zenon, <2>4
  <2>5. ASSUME NEW r \in Runs, WorkerStep(r)
        PROVE  Contract!Next \/ UNCHANGED <<store, receipted>>
    BY Zenon, <2>2, <2>3, <2>4, <2>5 DEF WorkerStep, TakeDelivery, WorkerExits,
       HandlerStarts, HandlerAsks, HandlerAnswered, HandlerFails,
       HandlerReturnsNil, SendReceipt, Contract!Next
  <2>6. ASSUME NEW d \in Deliveries, ControlPush(d) \/ ControlReceipt(d)
        PROVE  Contract!Next \/ UNCHANGED <<store, receipted>>
    BY <2>1, <2>4, <2>6 DEF ControlPush, Contract!Next
  <2> QED
    BY <2>4, <2>5, <2>6 DEF PipelineNext, StartRun, DispatchDelivery, ExitRun, FinishRun,
       Crash, pipelineVars
<1> QED BY <1>1, <1>2, PipelineInvariance, PTL DEF PipelineSpec, ImplementsContract, Contract!Spec
=============================================================================
