------------------------- MODULE MCManifestDelivery ------------------------
(* ManifestDelivery on a small instance.                                   *)
EXTENDS ManifestDelivery

(* Run returns although its worker waits for an answer, and "nothing is     *)
(* lost: no receipt was sent, so control redelivers": every well-formed     *)
(* delivery is recorded and receipted in the end.                          *)
PipelineCompletes == TeardownCompletes /\ EventuallyReceipted
=============================================================================
