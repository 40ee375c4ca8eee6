----------------------------- MODULE CycleLedger -----------------------------
(***************************************************************************)
(* What a poller promises to those who read its two tables through the     *)
(* ledger: a history of cycles, each of which happens at once.  A cycle    *)
(* adds its ledger row together with what was seen and what was read as    *)
(* absent since the row before, and touches nothing older.                 *)
(***************************************************************************)
EXTENDS Integers

CONSTANTS
  TripStops,   \* as in Poller
  SilentDrop   \* may an error-free cycle be incomplete?

VARIABLES
  poll_runs,    \* the ledger
  stop_events,  \* the snapshots up to the ledger's latest row
  absent        \* the complete reads without a trip-stop, up to the same row

LedgerInit == poll_runs = {} /\ stop_events = {} /\ absent = {}

Newest(tag) == \A r \in poll_runs : r.polled_at < tag

Complete(run) ==
  \A t \in TripStops : [trip_stop |-> t, polled_at |-> run.polled_at] \in stop_events \cup absent

Cycle ==
  \E run \in poll_runs' :
    /\ Newest(run.polled_at)
    /\ poll_runs' = poll_runs \cup {run}
    /\ stop_events \subseteq stop_events'
    /\ absent \subseteq absent'
    /\ \A s \in (stop_events' \ stop_events) \cup (absent' \ absent) :
         Newest(s.polled_at) /\ s.polled_at <= run.polled_at
    /\ ~run.error /\ ~SilentDrop => Complete(run)'

LedgerSpec == LedgerInit /\ [][Cycle]_<<poll_runs, stop_events, absent>>
=============================================================================
