------------------------- MODULE DeliveryContract --------------------------
(***************************************************************************)
(* What the delivery of manifests promises to control: a delivery is       *)
(* durably recorded on the device, and only then does control's row leave  *)
(* PUSHED.  Neither is ever taken back.  How many connections, re-sends    *)
(* and crashes that takes does not show.                                   *)
(***************************************************************************)
CONSTANT Deliveries

VARIABLES
    recorded,   \* deliveries in the agent's store
    receipted   \* deliveries whose receipt control has seen

contractVars == <<recorded, receipted>>

Init == recorded = {} /\ receipted = {}

Record(d) ==
    /\ d \notin recorded
    /\ recorded' = recorded \cup {d}
    /\ UNCHANGED receipted

Receipt(d) ==
    /\ d \in recorded
    /\ receipted' = receipted \cup {d}
    /\ UNCHANGED recorded

Next == \E d \in Deliveries : Record(d) \/ Receipt(d)

Spec == Init /\ [][Next]_contractVars
=============================================================================
