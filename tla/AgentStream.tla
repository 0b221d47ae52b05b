---------------------------- MODULE AgentStream ----------------------------
(***************************************************************************)
(* The agent's side of the bidirectional stream (client.go): Connect and   *)
(* Close, the ctx-aware send slot that serialises stream.Send, and the     *)
(* requests that are correlated with their answer by message id.           *)
(*                                                                         *)
(* An operation is one goroutine calling one method of Client.  Requests   *)
(* are the methods that wait for an answer (GetLuksKey, StoreLuksKey,      *)
(* StoreLpsPasswords, ValidateLuksToken, Sync); Oneways are the methods    *)
(* that only send (SendHeartbeat, SendInventory, SendDeliveryReceipt...).  *)
(* NewULID makes every message id fresh, so a request stands for its id.   *)
(***************************************************************************)
EXTENDS Naturals

CONSTANTS
    Requests,       \* correlated requests, each issued once
    Oneways,        \* messages sent without waiting for an answer
    MaxStreams,     \* bound: how many times Connect opens a stream
    Guarded         \* deliverPending runs under dispatchServerMessage's recover
                    \* (Run); FALSE when it runs in StartReceiver's goroutine

ASSUME DisjointOps == Requests \cap Oneways = {}
ASSUME MaxStreamsNat == MaxStreams \in Nat
ASSUME GuardedBool == Guarded \in BOOLEAN

Ops == Requests \cup Oneways
Streams == 1..MaxStreams
NoStream == 0

(* What the server decides about a request: a valid response that reports  *)
(* success, a response that does not (Success false, another type, failing *)
(* validation), or an Error frame.                                         *)
Answers == {"success", "rejected", "error"}
Outcomes == {"ok", "notConnected", "ctx", "sendErr", "closed", "refused"}
None == "none"

VARIABLES
    stream,     \* c.stream: the current stream or NoStream
    opened,     \* how many streams were opened
    dead,       \* streams that are closed or whose transport broke
    closing,    \* Close holds c.mu, the pending channels already closed
    sendSem,    \* tokens in the channel c.sendSem (capacity 1)
    sends,      \* operations whose goroutine is inside stream.Send
    errCh,      \* what that goroutine published: None, "nil" or "err"
    pc,         \* where each operation is
    sees,       \* the stream pointer that send() read for each operation
    cancelled,  \* operations whose ctx is done
    outcome,    \* what the method returned
    pending,    \* the keys of c.pendingRequests
    buffer,     \* the content of each pending channel (capacity 1)
    closedCh,   \* requests whose pending channel was closed
    wire,       \* operations whose message was written to their stream
    verdict,    \* the server's decision on each request it received
    receiver,   \* the goroutine that calls deliverPending: its step ...
    frame       \* ... and the request whose answer it carries

streamVars == <<stream, opened, dead, closing>>
sendVars == <<sendSem, sends, errCh>>
opVars == <<pc, sees, outcome>>
chanVars == <<pending, buffer, closedCh>>
serverVars == <<wire, verdict>>
recvVars == <<receiver, frame>>
vars == <<streamVars, sendVars, opVars, cancelled, chanVars, serverVars, recvVars>>

Active == {"queued", "sending", "waiting"}

Init ==
    /\ stream = NoStream /\ opened = 0 /\ dead = {} /\ closing = FALSE
    /\ sendSem = 0 /\ sends = {} /\ errCh = [o \in Ops |-> None]
    /\ pc = [o \in Ops |-> "idle"]
    /\ sees = [o \in Ops |-> NoStream]
    /\ outcome = [o \in Ops |-> None]
    /\ cancelled = {}
    /\ pending = {} /\ buffer = [r \in Requests |-> None] /\ closedCh = {}
    /\ wire = {} /\ verdict = [r \in Requests |-> None]
    /\ receiver = "idle" /\ frame = None

-----------------------------------------------------------------------------
(* The stream.                                                             *)

Connect ==
    /\ ~closing
    /\ stream = NoStream
    /\ opened < MaxStreams
    /\ opened' = opened + 1
    /\ stream' = opened + 1
    /\ UNCHANGED <<dead, closing, sendVars, opVars, cancelled, chanVars,
                   serverVars, recvVars>>

(* The transport of the current stream fails.                              *)
Break ==
    /\ stream # NoStream
    /\ dead' = dead \cup {stream}
    /\ UNCHANGED <<stream, opened, closing, sendVars, opVars, cancelled,
                   chanVars, serverVars, recvVars>>

(* Mutant of CloseCancelsPending: the channels are forgotten, not closed.  *)
CloseForgetsPending ==
    /\ ~closing
    /\ stream # NoStream
    /\ closing' = TRUE
    /\ pending' = {}
    /\ UNCHANGED <<stream, opened, dead, sendVars, opVars, cancelled, buffer,
                   closedCh, serverVars, recvVars>>

(* Close takes c.mu and, under c.pendingMu, closes and forgets every       *)
(* pending channel.                                                        *)
CloseCancelsPending ==
    /\ ~closing
    /\ stream # NoStream
    /\ closing' = TRUE
    /\ closedCh' = closedCh \cup pending
    /\ pending' = {}
    /\ UNCHANGED <<stream, opened, dead, sendVars, opVars, cancelled, buffer,
                   serverVars, recvVars>>

(* Still under c.mu it closes both sides of the stream and clears c.stream; *)
(* a registerPending may have come in between, a read of c.stream may not.  *)
CloseStream ==
    /\ closing
    /\ closing' = FALSE
    /\ dead' = dead \cup {stream}
    /\ stream' = NoStream
    /\ UNCHANGED <<opened, sendVars, opVars, cancelled, chanVars, serverVars,
                   recvVars>>

-----------------------------------------------------------------------------
(* An operation.                                                           *)

(* The method returns res; a correlated request still has to run its       *)
(* deferred unregisterPending.                                             *)
Returns(o, res) ==
    /\ outcome' = [outcome EXCEPT ![o] = res]
    /\ pc' = [pc EXCEPT ![o] = IF o \in Requests THEN "returning" ELSE "done"]

RegisterPending(r) ==
    /\ pc[r] = "idle"
    /\ pc' = [pc EXCEPT ![r] = "registered"]
    /\ pending' = pending \cup {r}
    /\ UNCHANGED <<streamVars, sendVars, sees, outcome, cancelled, buffer,
                   closedCh, serverVars, recvVars>>

UnregisterPending(r) ==
    /\ pc[r] = "returning"
    /\ pc' = [pc EXCEPT ![r] = "done"]
    /\ pending' = pending \ {r}
    /\ UNCHANGED <<streamVars, sendVars, sees, outcome, cancelled, buffer,
                   closedCh, serverVars, recvVars>>

(* Mutant of ReadStream: c.stream is read without c.mu.                    *)
ReadStreamUnlocked(o) ==
    /\ pc[o] = (IF o \in Requests THEN "registered" ELSE "idle")
    /\ stream # NoStream
    /\ o \notin cancelled
    /\ pc' = [pc EXCEPT ![o] = "queued"]
    /\ sees' = [sees EXCEPT ![o] = stream]
    /\ UNCHANGED <<streamVars, sendVars, outcome, cancelled, chanVars,
                   serverVars, recvVars>>

(* send(): read c.stream under the read lock, refuse when it is nil or when *)
(* the ctx is already done.                                                *)
ReadStream(o) ==
    /\ pc[o] = (IF o \in Requests THEN "registered" ELSE "idle")
    /\ ~closing
    /\ \/ /\ stream = NoStream
          /\ Returns(o, "notConnected")
          /\ UNCHANGED sees
       \/ /\ stream # NoStream
          /\ o \in cancelled
          /\ Returns(o, "ctx")
          /\ UNCHANGED sees
       \/ /\ stream # NoStream
          /\ o \notin cancelled
          /\ pc' = [pc EXCEPT ![o] = "queued"]
          /\ sees' = [sees EXCEPT ![o] = stream]
          /\ UNCHANGED outcome
    /\ UNCHANGED <<streamVars, sendVars, cancelled, chanVars, serverVars,
                   recvVars>>

AcquireSlot(o) ==
    /\ pc[o] = "queued"
    /\ sendSem = 0
    /\ sendSem' = 1
    /\ sends' = sends \cup {o}
    /\ pc' = [pc EXCEPT ![o] = "sending"]
    /\ UNCHANGED <<streamVars, errCh, sees, outcome, cancelled, chanVars,
                   serverVars, recvVars>>

(* Mutant of GiveUp: the caller that gives up on its Send frees the slot.  *)
GiveUpFreesSlot(o) ==
    /\ pc[o] \in Active
    /\ o \in cancelled
    /\ Returns(o, "ctx")
    /\ sendSem' = IF pc[o] = "sending" THEN sendSem - 1 ELSE sendSem
    /\ UNCHANGED <<streamVars, sends, errCh, sees, cancelled, chanVars,
                   serverVars, recvVars>>

(* Mutant of GiveUp: the slot is a plain mutex, taken without the ctx.     *)
GiveUpNotQueued(o) ==
    /\ pc[o] \in {"sending", "waiting"}
    /\ o \in cancelled
    /\ Returns(o, "ctx")
    /\ UNCHANGED <<streamVars, sendVars, sees, cancelled, chanVars, serverVars,
                   recvVars>>

(* The caller gives up on its ctx: while it waits for the slot, for its    *)
(* Send (whose goroutine keeps the slot), or for the answer.               *)
GiveUp(o) ==
    /\ pc[o] \in Active
    /\ o \in cancelled
    /\ Returns(o, "ctx")
    /\ UNCHANGED <<streamVars, sendVars, sees, cancelled, chanVars, serverVars,
                   recvVars>>

(* The goroutine's stream.Send returns, the slot is released, the result   *)
(* is published.  A Send on a dead stream fails; on a live one it may fail  *)
(* too, and it may also stay blocked by flow control.                      *)
SendReturns(o) ==
    /\ o \in sends
    /\ sends' = sends \ {o}
    /\ sendSem' = sendSem - 1
    /\ \/ /\ sees[o] \notin dead
          /\ errCh' = [errCh EXCEPT ![o] = "nil"]
          /\ wire' = wire \cup {o}
       \/ /\ errCh' = [errCh EXCEPT ![o] = "err"]
          /\ UNCHANGED wire
    /\ UNCHANGED <<streamVars, opVars, cancelled, chanVars, verdict, recvVars>>

(* The caller takes the result of its Send from errCh.                     *)
SendResult(o) ==
    /\ pc[o] = "sending"
    /\ \/ /\ errCh[o] = "err"
          /\ Returns(o, "sendErr")
       \/ /\ errCh[o] = "nil"
          /\ o \in Oneways
          /\ Returns(o, "ok")
       \/ /\ errCh[o] = "nil"
          /\ o \in Requests
          /\ pc' = [pc EXCEPT ![o] = "waiting"]
          /\ UNCHANGED outcome
    /\ errCh' = [errCh EXCEPT ![o] = None]
    /\ UNCHANGED <<streamVars, sendSem, sends, sees, cancelled, chanVars,
                   serverVars, recvVars>>

(* Only a response of the expected type that reports success is success.   *)
ResponseOutcome(a) == IF a = "success" THEN "ok" ELSE "refused"

(* Mutant of TakeResponse: the closing is noticed before the answer.       *)
TakeResponseClosedFirst(r) ==
    /\ pc[r] = "waiting"
    /\ \/ /\ r \in closedCh
          /\ Returns(r, "closed")
          /\ UNCHANGED buffer
       \/ /\ r \notin closedCh
          /\ buffer[r] # None
          /\ Returns(r, ResponseOutcome(buffer[r]))
          /\ buffer' = [buffer EXCEPT ![r] = None]
    /\ UNCHANGED <<streamVars, sendVars, sees, cancelled, pending, closedCh,
                   serverVars, recvVars>>

(* The receive from the pending channel: a buffered answer first, then the *)
(* channel's closing.                                                      *)
TakeResponse(r) ==
    /\ pc[r] = "waiting"
    /\ \/ /\ buffer[r] # None
          /\ Returns(r, ResponseOutcome(buffer[r]))
          /\ buffer' = [buffer EXCEPT ![r] = None]
       \/ /\ buffer[r] = None
          /\ r \in closedCh
          /\ Returns(r, "closed")
          /\ UNCHANGED buffer
    /\ UNCHANGED <<streamVars, sendVars, sees, cancelled, pending, closedCh,
                   serverVars, recvVars>>

CancelCtx(o) ==
    /\ pc[o] # "done"
    /\ cancelled' = cancelled \cup {o}
    /\ UNCHANGED <<streamVars, sendVars, opVars, chanVars, serverVars, recvVars>>

-----------------------------------------------------------------------------
(* The server, as far as the client can tell: it may decide once about any *)
(* request that was written, and may send that decision any number of      *)
(* times on the stream the request came on.                                *)

ServerDecides(r) ==
    /\ r \in wire
    /\ verdict[r] = None
    /\ \E a \in Answers : verdict' = [verdict EXCEPT ![r] = a]
    /\ UNCHANGED <<streamVars, sendVars, opVars, cancelled, chanVars, wire,
                   recvVars>>

-----------------------------------------------------------------------------
(* The receiving goroutine.                                                *)

ReceiveFrame(r) ==
    /\ receiver = "idle"
    /\ verdict[r] # None
    /\ stream # NoStream /\ sees[r] = stream /\ stream \notin dead
    /\ receiver' = "received"
    /\ frame' = r
    /\ UNCHANGED <<streamVars, sendVars, opVars, cancelled, chanVars, serverVars>>

(* deliverPending looks the id up under pendingMu; a frame nobody waits for *)
(* is dropped, or handed to OnError.                                       *)
LookupPending ==
    /\ receiver = "received"
    /\ \/ /\ frame \in pending
          /\ receiver' = "found"
          /\ UNCHANGED frame
       \/ /\ frame \notin pending
          /\ receiver' = "idle"
          /\ frame' = None
    /\ UNCHANGED <<streamVars, sendVars, opVars, cancelled, chanVars, serverVars>>

(* After the unlock: the non-blocking send to the channel it found.  A     *)
(* duplicate finds the channel full and is dropped, a closed channel makes  *)
(* the send panic.                                                         *)
DeliverPending ==
    /\ receiver = "found"
    /\ frame' = None
    /\ \/ /\ frame \in closedCh
          /\ receiver' = IF Guarded THEN "idle" ELSE "panicked"
          /\ UNCHANGED buffer
       \/ /\ frame \notin closedCh
          /\ receiver' = "idle"
          /\ buffer' = IF buffer[frame] = None
                       THEN [buffer EXCEPT ![frame] = verdict[frame]]
                       ELSE buffer
    /\ UNCHANGED <<streamVars, sendVars, opVars, cancelled, pending, closedCh,
                   serverVars>>

-----------------------------------------------------------------------------
Operation(o) ==
    \/ ReadStream(o) \/ AcquireSlot(o) \/ GiveUp(o) \/ SendReturns(o)
    \/ SendResult(o) \/ CancelCtx(o)

Request(r) ==
    \/ RegisterPending(r) \/ UnregisterPending(r) \/ TakeResponse(r)
    \/ ServerDecides(r) \/ ReceiveFrame(r)

Next ==
    \/ Connect \/ Break \/ CloseCancelsPending \/ CloseStream
    \/ \E o \in Ops : Operation(o)
    \/ \E r \in Requests : Request(r)
    \/ LookupPending \/ DeliverPending

(* Goroutines run; Close finishes; a Send on a dead stream returns.  Nothing *)
(* is assumed of the server, of a Send on a live stream, of contexts, nor of *)
(* anyone calling Connect or Close.                                        *)
Fairness ==
    /\ WF_vars(CloseStream)
    /\ \A o \in Ops :
        /\ WF_vars(ReadStream(o))
        /\ WF_vars(AcquireSlot(o))
        /\ WF_vars(GiveUp(o))
        /\ WF_vars(sees[o] \in dead /\ SendReturns(o))
        /\ WF_vars(SendResult(o))
    /\ \A r \in Requests : WF_vars(UnregisterPending(r)) /\ WF_vars(TakeResponse(r))
    /\ WF_vars(LookupPending)
    /\ WF_vars(DeliverPending)

Spec == Init /\ [][Next]_vars
FairSpec == Spec /\ Fairness

-----------------------------------------------------------------------------
(* Every variable keeps the type its Go counterpart has.                   *)
TypeOK ==
    /\ stream \in 0..MaxStreams
    /\ opened \in 0..MaxStreams
    /\ dead \subseteq Streams
    /\ closing \in BOOLEAN
    /\ sendSem \in 0..1
    /\ sends \subseteq Ops
    /\ errCh \in [Ops -> {None, "nil", "err"}]
    /\ pc \in [Ops -> {"idle", "registered", "returning", "done"} \cup Active]
    /\ sees \in [Ops -> 0..MaxStreams]
    /\ outcome \in [Ops -> Outcomes \cup {None}]
    /\ cancelled \subseteq Ops
    /\ pending \subseteq Requests
    /\ buffer \in [Requests -> Answers \cup {None}]
    /\ closedCh \subseteq Requests
    /\ wire \subseteq Ops
    /\ verdict \in [Requests -> Answers \cup {None}]
    /\ receiver \in {"idle", "received", "found", "panicked"}
    /\ frame \in Requests \cup {None}
    /\ receiver \in {"received", "found"} => frame \in Requests

(* send: at most one stream.Send is ever in flight, the Sends whose caller  *)
(* gave up and the Sends of an earlier stream included.                    *)
OneSendInFlight == \A o, p \in sends : o = p

(* Close against send: a request that has read a stream pointer and whose  *)
(* pending channel is still open works on the stream that is current, so   *)
(* no request is left waiting on a stream that Close already tore down.    *)
NoStrandedWaiter ==
    \A r \in Requests :
        pc[r] \in Active /\ r \notin closedCh =>
            stream # NoStream /\ sees[r] = stream

(* StoreLuksKey, StoreLpsPasswords...: a correlated request returns nil    *)
(* only when the server accepted that very request.  The agent removes the *)
(* old key on this answer.                                                 *)
ConfirmedOnlyIfAccepted ==
    \A r \in Requests : outcome[r] = "ok" => verdict[r] = "success"

(* An answer that deliverPending put in the waiter's channel is what the   *)
(* waiter reports, even when Close closes the channel before it wakes up.  *)
AnswerSurvivesClose ==
    \A r \in Requests : outcome[r] = "closed" => buffer[r] = None

(* A sender never outlives its own ctx: whatever the peer does, and        *)
(* whichever Send holds the slot, a cancelled operation returns.           *)
CancelledReturns ==
    \A o \in Ops : (pc[o] \in Active /\ o \in cancelled) ~> pc[o] = "done"

(* Close wakes everybody: an operation whose stream was torn down returns, *)
(* though its ctx has no deadline and the server never answers.  The one    *)
(* thing that can hold it back is the shared slot: a Send on a newer, live  *)
(* stream that is itself held up by its peer.                              *)
ClosedReturns ==
    \A o \in Ops :
        (pc[o] \in Active /\ sees[o] # stream) ~>
            (pc[o] = "done" \/ \E p \in sends : sees[p] \notin dead)

(* The goroutine that delivers answers never panics: "each spawned         *)
(* goroutine must guard itself" (safeGo).                                  *)
ReceiverNeverPanics == receiver # "panicked"
=============================================================================
