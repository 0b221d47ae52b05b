--------------------------- MODULE MCAgentStream ---------------------------
(* AgentStream on a small instance.                                        *)
EXTENDS AgentStream

(* A cancelled operation returns, whatever the peer does and whichever Send *)
(* holds the slot; Close wakes everybody: an operation whose stream was     *)
(* torn down returns, though its ctx has no deadline and the server never   *)
(* answers, unless a Send on a newer stream holds the slot.                *)
CallsReturn == CancelledReturns /\ ClosedReturns
=============================================================================
