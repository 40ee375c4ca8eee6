------------------------------ MODULE MCPoller ------------------------------
(* The poller alone: two trip-stops, one in each of two batches. *)
EXTENDS Poller, TLC

CONSTANTS t1, t2

MCTripStops == {t1, t2}
MCBatchOf == (t1 :> 1) @@ (t2 :> 2)
=============================================================================
