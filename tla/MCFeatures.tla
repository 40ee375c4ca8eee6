----------------------------- MODULE MCFeatures -----------------------------
(* A trip of three stops, two of them in one minute of the next trip's stop. *)
EXTENDS Training, TLC

CONSTANTS a1, a2, a3, b1

MCKeys == {a1, a2, a3, b1}
MCScheduled == a1 :> 1 @@ a2 :> 2 @@ a3 :> 3 @@ b1 :> 2
MCRouteHour == [k \in MCKeys |-> 8]
MCRouteStop == a1 :> 1 @@ a2 :> 2 @@ a3 :> 3 @@ b1 :> 1
MCTripDay == a1 :> 1 @@ a2 :> 1 @@ a3 :> 1 @@ b1 :> 2
MCStopSequence == a1 :> 1 @@ a2 :> 2 @@ a3 :> 3 @@ b1 :> 1
MCDelays == {0, 181}
=============================================================================
