-------------------------------- MODULE Pulse --------------------------------
(***************************************************************************)
(* The label build (pulse/labels.py run_build) running beside the poller.  *)
(*                                                                         *)
(* A build is an operator's command, not a service: it runs while cycles   *)
(* are in flight, reads as_of, stop_events and poll_runs in three separate *)
(* statements of an autocommit connection, and then writes its rows one    *)
(* after the other.  It may die between any two of them.                   *)
(*                                                                         *)
(* A label keeps two history fields the table does not have: the as_of of  *)
(* the build that wrote it, and anchored, which says that as_of was the    *)
(* ledger's latest row (the default) and not a given or wall-clock time.   *)
(***************************************************************************)
EXTENDS Poller

CONSTANTS
  OriginStops,   \* trip-stops the feed gives no arrival time (pulse/mbta.py map_rows)
  Sinces,        \* the --since values tried; 0 is _NO_LOWER_BOUND
  Untils,        \* the --until values tried, besides the default (now)
  AsOfs          \* the --as-of values tried, besides the default

ASSUME PulseAssumption ==
  /\ OriginStops \subseteq TripStops
  /\ Sinces \subseteq Nat
  /\ Untils \subseteq Nat
  /\ AsOfs \subseteq Nat

VARIABLES
  b_pc,         \* where the build stands
  b_since,      \* window_since
  b_until,      \* window_until
  b_as_of,      \* as_of
  b_anchored,   \* history: as_of is the ledger's latest row
  b_groups,     \* groups: what fetch_touched_groups returned
  b_rows,       \* rows derived and not yet upserted
  labels        \* table: trip_stop_labels

buildVars == <<b_pc, b_since, b_until, b_as_of, b_anchored, b_groups, b_rows>>
vars == <<pollerVars, buildVars, labels>>

Group == [trip_stop : TripStops, observed_span_end : Nat]
Label == [trip_stop : TripStops, observed_span_end : Nat,
          closed_reason : ClosedReasons, as_of : Nat, anchored : BOOLEAN]

BuildIdle ==
  /\ b_pc = "idle"
  /\ b_since = 0
  /\ b_until = 0
  /\ b_as_of = 0
  /\ b_anchored = FALSE
  /\ b_groups = {}
  /\ b_rows = {}

Init == PollerInit /\ BuildIdle /\ labels = {}

-----------------------------------------------------------------------------
Tags == {r.polled_at : r \in poll_runs}

IsLatest(tag) == tag \in Tags /\ \A r \in poll_runs : r.polled_at <= tag

(* Mutated form: max() of an empty ledger is not replaced by the clock. *)
StartBuildWithoutFallback ==
  /\ b_pc = "idle"
  /\ b_pc' = "groups"
  /\ b_since' \in Sinces
  /\ b_until' \in Untils \cup {now}
  /\ b_as_of' \in (IF poll_runs = {} THEN {-1} ELSE Tags)
  /\ poll_runs # {} => IsLatest(b_as_of')
  /\ b_anchored' = TRUE
  /\ UNCHANGED <<pollerVars, b_groups, b_rows, labels>>

(* run_build's first statement: as_of is given, or the ledger's latest row, *)
(* or the clock when the ledger is empty.                                   *)
StartBuild ==
  /\ b_pc = "idle"
  /\ b_pc' = "groups"
  /\ b_since' \in Sinces
  /\ b_until' \in Untils \cup {now}
  /\ \/ b_as_of' \in AsOfs /\ b_anchored' = FALSE
     \/ b_as_of' \in Tags /\ IsLatest(b_as_of') /\ b_anchored' = TRUE
     \/ poll_runs = {} /\ b_as_of' = now /\ b_anchored' = FALSE
  /\ UNCHANGED <<pollerVars, b_groups, b_rows, labels>>

(* Mutated form: the aggregates are cut at the window's end. *)
IsGroupWithinWindow(g) ==
  /\ [trip_stop |-> g.trip_stop, polled_at |-> g.observed_span_end] \in stop_events
  /\ g.observed_span_end < b_until
  /\ \A s \in stop_events :
       s.trip_stop = g.trip_stop =>
         s.polled_at <= g.observed_span_end \/ b_until <= s.polled_at

IsGroup(g) ==
  /\ [trip_stop |-> g.trip_stop, polled_at |-> g.observed_span_end] \in stop_events
  /\ \A s \in stop_events :
       s.trip_stop = g.trip_stop => s.polled_at <= g.observed_span_end

Touched(g) ==
  \E s \in stop_events :
    s.trip_stop = g.trip_stop /\ b_since <= s.polled_at /\ s.polled_at < b_until

(* _TOUCHED_GROUPS_SQL: the window only selects groups; the aggregates *)
(* cover a selected group's whole history.                             *)
touched_groups ==
  {g \in {[trip_stop |-> s.trip_stop, observed_span_end |-> s.polled_at] :
            s \in stop_events} : IsGroup(g) /\ Touched(g)}

FetchTouchedGroups ==
  /\ b_pc = "groups"
  /\ b_pc' = "runs"
  /\ b_groups' = touched_groups
  /\ b_since' = 0   \* the window has selected its groups
  /\ b_until' = 0
  /\ UNCHANGED <<pollerVars, b_as_of, b_anchored, b_rows, labels>>

derive_label_row(g, gaps) ==
  [trip_stop |-> g.trip_stop,
   observed_span_end |-> g.observed_span_end,
   closed_reason |->
     closed_reason(g.trip_stop \notin OriginStops, g.observed_span_end, gaps),
   as_of |-> b_as_of,
   anchored |-> b_anchored]

(* Mutated form: as_of is read last, from the ledger as it stands then. *)
AsOfReadLast ==
  /\ b_pc = "runs"
  /\ b_pc' = "upsert"
  /\ \E latest \in Tags \cup {b_as_of} :
       LET gaps == compute_gap_intervals(poll_runs)
       IN  /\ poll_runs # {} => IsLatest(latest)
           /\ b_rows' = {[derive_label_row(g, gaps) EXCEPT !.as_of = latest] :
                           g \in {h \in b_groups : is_settled(h.observed_span_end, latest)}}
  /\ b_groups' = {}
  /\ b_as_of' = 0
  /\ b_anchored' = FALSE
  /\ UNCHANGED <<pollerVars, b_since, b_until, labels>>

(* fetch_poll_runs, then the derivation, which reads nothing more. *)
FetchPollRuns ==
  /\ b_pc = "runs"
  /\ b_pc' = "upsert"
  /\ LET gaps == compute_gap_intervals(poll_runs)
         settled == {g \in b_groups : is_settled(g.observed_span_end, b_as_of)}
     IN  b_rows' = {derive_label_row(g, gaps) : g \in settled}
  /\ b_groups' = {}
  /\ b_as_of' = 0   \* nothing but the derived rows is read again
  /\ b_anchored' = FALSE
  /\ UNCHANGED <<pollerVars, b_since, b_until, labels>>

(* One row of upsert_label_rows' executemany, which no transaction wraps. *)
UpsertLabel ==
  /\ b_pc = "upsert"
  /\ \E row \in b_rows :
       /\ labels' = {l \in labels : l.trip_stop # row.trip_stop} \cup {row}
       /\ b_rows' = b_rows \ {row}
  /\ UNCHANGED <<pollerVars, b_pc, b_since, b_until, b_as_of, b_anchored, b_groups>>

(* Nothing left to write: the gates only report.  The build may also raise *)
(* or be killed at any point, leaving the rows it has already written.     *)
EndBuild ==
  /\ b_pc' = "idle"
  /\ b_since' = 0
  /\ b_until' = 0
  /\ b_as_of' = 0
  /\ b_anchored' = FALSE
  /\ b_groups' = {}
  /\ b_rows' = {}
  /\ UNCHANGED <<pollerVars, labels>>

FinishBuild == b_pc = "upsert" /\ b_rows = {} /\ EndBuild

BuildCrash == b_pc # "idle" /\ EndBuild

BuildStep ==
  \/ StartBuild
  \/ FetchTouchedGroups
  \/ FetchPollRuns
  \/ UpsertLabel
  \/ FinishBuild
  \/ BuildCrash

Next ==
  \/ PollerNext /\ UNCHANGED <<buildVars, labels>>
  \/ BuildStep

Spec == Init /\ [][Next]_vars

-----------------------------------------------------------------------------
(* The data regime scripts/train.py prints.  Mutated form: it ends with what *)
(* the tables hold when the script runs.                                     *)
UpToNow(table) == table

(* It ends with the last span of the labels: the table of a build bounds it, *)
(* not the tables the poller goes on writing.                                *)
UpToLastSpan(table) ==
  {row \in table : \E l \in labels : row.polled_at <= l.observed_span_end}

(* Its figures count, add up or compare the members of these sets.  An *)
(* errored cycle is no loss of uptime, so only stretches are gaps.      *)
_regime ==
  [stop_events_rows |-> UpToLastSpan(stop_events),
   poll_cycles |-> UpToLastSpan(poll_runs),
   gaps |-> SilentStretches(UpToLastSpan(poll_runs))]

-----------------------------------------------------------------------------
TypeOK ==
  /\ PollerTypeOK
  /\ b_pc \in {"idle", "groups", "runs", "upsert"}
  /\ b_since \in Nat
  /\ b_until \in Nat
  /\ b_as_of \in Nat
  /\ b_anchored \in BOOLEAN
  /\ b_groups \subseteq Group
  /\ b_rows \subseteq Label
  /\ labels \subseteq Label

(* The labels already in the table and those about to be. *)
Verdicts == labels \cup b_rows

(* A build with the default as_of never closes a trip-stop that had been  *)
(* seen again by the time it settled: no snapshot taken after the label's *)
(* span and up to the build's as_of exists, although as_of, the snapshots *)
(* and the ledger are read in three statements with cycles committing in  *)
(* between.                                                               *)
SettledMeansQuiet ==
  \A l \in Verdicts : l.anchored =>
    \A s \in stop_events :
      s.trip_stop = l.trip_stop =>
        s.polled_at <= l.observed_span_end \/ l.as_of < s.polled_at

(* The closing rule (labels.py's docstring): a label usable for training  *)
(* is a disappearance that was observed.  Some complete cycle no later    *)
(* than GapThreshold after the last sighting read the feed without the    *)
(* trip-stop, and so did every recorded cycle of the settle window.  Held *)
(* for trip-stops whose history reaches back to a ledger row.             *)
WitnessedDisappearance ==
  \A l \in Verdicts :
    (l.anchored /\ l.closed_reason = "normal"
       /\ \E h \in poll_runs : h.polled_at <= l.observed_span_end)
    => LET after == {r \in poll_runs :
                       /\ l.observed_span_end < r.polled_at
                       /\ r.polled_at <= l.observed_span_end + SettleMargin}
       IN  /\ \E r \in after : r.polled_at <= l.observed_span_end + GapThreshold
           /\ \A r \in after : ~r.error /\ ReadAsAbsent(l.trip_stop, r.polled_at)

(* Judged strictly beyond the window, with the ledger's latest row as as_of. *)
IsFinal(l) == l.anchored /\ l.observed_span_end + SettleMargin < l.as_of

(* Rerun stability of the verdict: whatever the poller records after the  *)
(* build's as_of, judging the same span against the longer ledger gives   *)
(* the same closed_reason, unless the window ended exactly on as_of.      *)
VerdictsAreFinal ==
  \A l \in Verdicts :
    IsFinal(l) =>
      l.closed_reason =
        closed_reason(l.trip_stop \notin OriginStops, l.observed_span_end,
                      compute_gap_intervals(poll_runs))

(* One label may take another's place: no earlier last sighting, and no other *)
(* reason for a final verdict on the same span.                               *)
Supersedes(m, l) ==
  /\ l.observed_span_end <= m.observed_span_end
  /\ IsFinal(l) /\ m.observed_span_end = l.observed_span_end
       => m.closed_reason = l.closed_reason

(* A rebuild, complete or killed half-way, with any window and any as_of,     *)
(* takes no label away and replaces none but by one that supersedes it,       *)
(* although its rows were derived from reads that cycles have since outdated. *)
LabelsOnlyAdvance ==
  [][ \A l \in labels : \E m \in labels' :
        m.trip_stop = l.trip_stop /\ Supersedes(m, l) ]_vars

(* scripts/train.py's reason for its window: what it reports of the poller's *)
(* tables is the same on every run until a build changes the labels, though  *)
(* the poller writes on and the script reads the tables one after the other. *)
(* Held when the builds took the ledger's latest row as their as_of.         *)
RegimeReproduces ==
  [][ tables' # tables /\ labels' = labels /\ (\A l \in labels : l.anchored)
        => _regime' = _regime ]_vars

(* labels.py:442-446, the ledger's latest row and the wall clock are both *)
(* safe choices of as_of, because the gap-abut check is what protects a   *)
(* premature close: whatever as_of was, up to the present, a label usable *)
(* for training was followed by a recorded cycle.                         *)
AnyAsOfIsSafe ==
  \A l \in labels :
    /\ l.closed_reason = "normal"
    /\ l.as_of <= now
    /\ \E h \in poll_runs : h.polled_at <= l.observed_span_end
    => \E r \in poll_runs : l.observed_span_end < r.polled_at
=============================================================================
