------------------------------ MODULE MCFetch ------------------------------
(* Few predictions on small pages; a server that asks for a minute. *)
EXTENDS Fetch

CONSTANTS p1, p2, p3, p4, p5

FivePredictions == {p1, p2, p3, p4, p5}
Minute == {60}
=============================================================================
