------------------------------- MODULE MCPulse -------------------------------
(* The poller and one build at a time, over one trip-stop with an arrival *)
(* time, carried by the only batch.                                       *)
EXTENDS Pulse, TLC

CONSTANTS t1

MCTripStops == {t1}
MCBatchOf == (t1 :> 1)
=============================================================================
