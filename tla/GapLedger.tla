------------------------------ MODULE GapLedger ------------------------------
(***************************************************************************)
(* The closing rule of pulse/labels.py, as pure operators.                 *)
(*                                                                         *)
(* The ledger (table poll_runs) is a set of rows with a polled_at (its     *)
(* primary key) and an error flag; times are naturals in an arbitrary      *)
(* unit.  A label closes when its trip-stop has been quiet for             *)
(* SettleMargin, and closes as "normal" (SQL NULL, usable for training)    *)
(* only if no interval derived from the ledger overlaps the window in      *)
(* which its disappearance is judged.                                      *)
(***************************************************************************)
EXTENDS Integers, FiniteSets

CONSTANTS
  GapThreshold,   \* GAP_THRESHOLD_SECONDS: 100 s against a cycle of 66 s
  SettleMargin    \* SETTLE_MARGIN_SECONDS: three cycles, 198 s

ASSUME GapLedgerAssumption ==
  /\ GapThreshold \in Nat
  /\ SettleMargin \in Nat \ {0}
  /\ GapThreshold <= SettleMargin

(* Mutated form: any two rows, whether or not others lie between them. *)
AnyTwoRows(runs, prev, cur) == prev.polled_at < cur.polled_at

(* Two rows with no row of the ledger between them. *)
Consecutive(runs, prev, cur) ==
  /\ prev.polled_at < cur.polled_at
  /\ \A r \in runs : r.polled_at <= prev.polled_at \/ cur.polled_at <= r.polled_at

(* Mutated form: an errored cycle counts as coverage. *)
NoErrorPoints(runs) == {}

(* An errored cycle is a zero-width interval at its own polled_at. *)
ErrorPoints(runs) ==
  {<<r.polled_at, r.polled_at>> : r \in {q \in runs : q.error}}

(* Two consecutive rows further apart than the threshold. *)
SilentStretches(runs) ==
  {<<pc[1].polled_at, pc[2].polled_at>> : pc \in
      {q \in runs \X runs :
          /\ Consecutive(runs, q[1], q[2])
          /\ q[2].polled_at - q[1].polled_at > GapThreshold}}

compute_gap_intervals(runs) == ErrorPoints(runs) \cup SilentStretches(runs)

(* Mutated form: only an interval that starts inside the window counts. *)
GapStartsInWindow(span_end, gaps) ==
  \E g \in gaps : g[1] <= span_end + SettleMargin /\ span_end <= g[1]

(* Closed-interval overlap with [span_end, span_end + SettleMargin]. *)
gap_abuts(span_end, gaps) ==
  \E g \in gaps : g[1] <= span_end + SettleMargin /\ span_end <= g[2]

is_settled(span_end, as_of) == as_of - span_end >= SettleMargin

(* Precedence of derive_label_row: the structural fact first, the gap next. *)
closed_reason(arrival_signal, span_end, gaps) ==
  CASE ~arrival_signal -> "no_arrival_signal"
    [] arrival_signal /\ gap_abuts(span_end, gaps) -> "gap_abutted"
    [] arrival_signal /\ ~gap_abuts(span_end, gaps) -> "normal"

ClosedReasons == {"no_arrival_signal", "gap_abutted", "normal"}
=============================================================================
