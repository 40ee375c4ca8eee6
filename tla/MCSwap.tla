------------------------------- MODULE MCSwap -------------------------------
(* Two writers, whose transactions may commit in the other order than *)
(* their ids were drawn.                                              *)
EXTENDS PartitionSwap

CONSTANTS poller, by_hand

MCWriters == {poller, by_hand}
=============================================================================
