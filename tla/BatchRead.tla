----------------------------- MODULE BatchRead -----------------------------
(***************************************************************************)
(* What fetch_predictions promises to run_cycle about one batch: the       *)
(* answer comes once, whole or not at all.  A batch that lands with nothing*)
(* to report lacks at most one lasting prediction for each one that went   *)
(* away while it was read; with none gone it lacks none.  Poller's         *)
(* BatchLands and BatchFails take a batch as this one step.                *)
(***************************************************************************)
EXTENDS Integers, FiniteSets

CONSTANT Predictions  \* as in Fetch

VARIABLES
  lasting,   \* predictions there throughout, so far
  gone,      \* predictions that went away meanwhile
  fate,
  payload,   \* what run_cycle is given
  reported   \* is anything cut off reported with it?

readVars == <<lasting, gone, fate, payload, reported>>

ReadInit ==
  /\ lasting \subseteq Predictions
  /\ gone = 0
  /\ fate = "reading"
  /\ payload = {}
  /\ reported = FALSE

GoesAway(p) ==
  /\ lasting' = lasting \ {p}
  /\ gone' = gone + 1
  /\ UNCHANGED <<fate, payload, reported>>

Lands ==
  /\ fate = "reading"
  /\ fate' = "landed"
  /\ payload' \subseteq Predictions
  /\ reported' \in BOOLEAN
  /\ ~reported' => Cardinality(lasting \ payload') <= gone
  /\ UNCHANGED <<lasting, gone>>

Fails ==
  /\ fate = "reading"
  /\ fate' = "failed"
  /\ UNCHANGED <<lasting, gone, payload, reported>>

ReadNext == Lands \/ Fails \/ \E p \in Predictions : GoesAway(p)

ReadSpec == ReadInit /\ [][ReadNext]_readVars
=============================================================================
