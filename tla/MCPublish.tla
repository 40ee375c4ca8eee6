----------------------------- MODULE MCPublish -----------------------------
(* The launchd job and one manual re-run beside it. *)
EXTENDS Publish

CONSTANTS job, by_hand

MCPublishers == {job, by_hand}
MCJobOnly == {job}
MCPauses == {1, 5}
=============================================================================
