-------------------------------- MODULE Grain --------------------------------
(***************************************************************************)
(* What a label stands for: from the pages of the feed to the snapshots of *)
(* stop_events, and from those to one label per trip, stop and GTFS        *)
(* service date (pulse/labels.py _TOUCHED_GROUPS_SQL, derive_label_row).   *)
(*                                                                         *)
(* A trip id comes back every service day, snapshots of a trip-stop may or *)
(* may not carry a schedule, and builds run over any window.  A cycle is   *)
(* one page here and a build one step: what happens between the steps of   *)
(* either is Poller's, Fetch's and Pulse's matter, and so is closed_reason.*)
(*                                                                         *)
(* LocalHour is the Eastern wall clock, in hours since some midnight: any  *)
(* function, so clock changes, which make it stand still or jump, are in.  *)
(***************************************************************************)
EXTENDS Contract, FiniteSets

CONSTANTS
  Pages,         \* the pages the feed may send
  LocalHour,     \* Eastern local time of an instant, in whole hours
  SettleMargin,  \* SETTLE_MARGIN_SECONDS
  Sinces, Untils, AsOfs,  \* the --since, --until and --as-of values tried
  MaxTime        \* bound: the last instant of the behaviours explored

ASSUME GrainAssumption ==
  /\ LocalHour \in [Instants -> Int]
  /\ SettleMargin \in Nat
  /\ MaxTime \in Nat
  /\ 0 .. MaxTime \subseteq Instants
  /\ Null \notin Pages

VARIABLES
  now,          \* the wall clock
  page,         \* the page polled at this instant, Null if none was
  error,        \* what became of that page
  stop_events,  \* table: the snapshots
  labels        \* table: trip_stop_labels

vars == <<now, page, error, stop_events, labels>>

Init ==
  /\ now = 0
  /\ page = Null
  /\ error = "none"
  /\ stop_events = {}
  /\ labels = {}

Tick ==
  /\ now < MaxTime
  /\ now' = now + 1
  /\ page' = Null
  /\ error' = "none"
  /\ UNCHANGED <<stop_events, labels>>

(* What becomes of a page: the first step that fails decides. *)
Outcome(sent, polled_at) ==
  IF Unreadable(sent) THEN "unreadable"
  ELSE IF validate_page(sent) # {} THEN "contract"
  ELSE IF Raises(sent) \/ Refused(_prefilter(map_rows(sent, polled_at))) THEN "raised"
  ELSE "none"

(* ON CONFLICT (trip_id, stop_id, polled_at) DO NOTHING: of a trip-stop *)
(* predicted twice on the page, the first one sent is kept.             *)
OnePerTripStop(rows, kept) ==
  /\ kept \subseteq rows
  /\ \A r \in rows : \E k \in kept : k.trip_id = r.trip_id /\ k.stop_id = r.stop_id
  /\ \A j, k \in kept : j.trip_id = k.trip_id /\ j.stop_id = k.stop_id => j = k

(* A page that violates the contract is dropped and named in the ledger; one *)
(* that the validation, the mapping or the upsert raises on fails its batch. *)
Poll ==
  /\ page = Null
  /\ page' \in Pages
  /\ error' = Outcome(page', now)
  /\ IF error' = "none"
       THEN LET rows == _prefilter(map_rows(page', now))
            IN  \E kept \in SUBSET rows :
                  /\ OnePerTripStop(rows, kept)
                  /\ stop_events' = stop_events \cup kept
       ELSE UNCHANGED stop_events
  /\ UNCHANGED <<now, labels>>

-----------------------------------------------------------------------------
anchor(scheduled_arrival, seen_at) ==
  IF scheduled_arrival # Null THEN scheduled_arrival ELSE seen_at

(* GTFS 3 AM rule in Python: hours before three belong to the day before. *)
service_date_norm(instant) ==
  LET hour == LocalHour[instant]
  IN  IF hour % 24 < 3 THEN hour \div 24 - 1 ELSE hour \div 24

(* Mutated form: the day the snapshot was taken on. *)
DateOfPoll(r) == (LocalHour[r.polled_at] - 3) \div 24

(* The same rule in SQL, on each snapshot. *)
gtfs_service_date(r) ==
  (LocalHour[anchor(r.scheduled_arrival, r.polled_at)] - 3) \div 24

(* GROUP BY trip_id, stop_id, gtfs_service_date. *)
SameGroup(r, s) ==
  /\ r.trip_id = s.trip_id
  /\ r.stop_id = s.stop_id
  /\ gtfs_service_date(r) = gtfs_service_date(s)

Groups == {{s \in stop_events : SameGroup(r, s)} : r \in stop_events}

First(group) == CHOOSE r \in group : \A s \in group : r.polled_at <= s.polled_at
Last(group) == CHOOSE r \in group : \A s \in group : s.polled_at <= r.polled_at

(* (array_agg(column ORDER BY polled_at DESC) FILTER (... IS NOT NULL))[1] *)
LastNonNull(group, column) ==
  LET named == {r \in group : r[column] # Null}
  IN  IF named = {} THEN Null ELSE Last(named)[column]

derive_label_row(group) ==
  LET scheduled_arrival == LastNonNull(group, "scheduled_arrival")
      observed_span_start == First(group).polled_at
  IN  [service_date_norm |->
         service_date_norm(anchor(scheduled_arrival, observed_span_start)),
       route_id |-> Last(group).route_id,
       direction_id |-> Last(group).direction_id,
       stop_id |-> Last(group).stop_id,
       trip_id |-> Last(group).trip_id,
       scheduled_arrival |-> scheduled_arrival,
       final_predicted_arrival |-> LastNonNull(group, "predicted_arrival"),
       observed_span_start |-> observed_span_start,
       observed_span_end |-> Last(group).polled_at,
       n_snapshots |-> Cardinality(group)]

Touched(group, since, until) ==
  \E r \in group : since <= r.polled_at /\ r.polled_at < until

IsSettled(group, as_of) == as_of - Last(group).polled_at >= SettleMargin

SameKey(l, m) ==
  /\ l.service_date_norm = m.service_date_norm
  /\ l.route_id = m.route_id
  /\ l.direction_id = m.direction_id
  /\ l.stop_id = m.stop_id
  /\ l.trip_id = m.trip_id

RowsOf(since, until, as_of) ==
  {derive_label_row(g) : g \in
     {h \in Groups : Touched(h, since, until) /\ IsSettled(h, as_of)}}

(* run_build, whatever window and as_of an operator gives it. *)
Build ==
  /\ \E since \in Sinces, until \in Untils, as_of \in AsOfs :
       LET rows == RowsOf(since, until, as_of)
       IN  labels' = {l \in labels : \A m \in rows : ~SameKey(l, m)} \cup rows
  /\ UNCHANGED <<now, page, error, stop_events>>

Next == Tick \/ Poll \/ Build

Spec == Init /\ [][Next]_vars

-----------------------------------------------------------------------------
Snapshot ==
  [route_id : Ids, direction_id : {0, 1}, stop_id : Ids, trip_id : Ids,
   vehicle_id : Ids \cup {Null}, status : Ids \cup {Null},
   scheduled_arrival : Instants \cup {Null}, predicted_arrival : Instants \cup {Null},
   polled_at : Instants]

(* stop_events as the table declares it: no null in a NOT NULL column, times *)
(* that name an instant, one row per trip, stop and polled_at, and nothing   *)
(* from the future.                                                          *)
TypeOK ==
  /\ now \in 0 .. MaxTime
  /\ stop_events \subseteq Snapshot
  /\ \A r \in stop_events : r.polled_at <= now /\ (page = Null => r.polled_at < now)
  /\ \A r, s \in stop_events :
       r.trip_id = s.trip_id /\ r.stop_id = s.stop_id /\ r.polled_at = s.polled_at => r = s

(* What the contract lets through and the steps behind it raise on.  It asks *)
(* of a schedule's id and attributes only that they are there                *)
(* (contract.py:101-105), where map_rows indexes by the one and reads the    *)
(* other; of a text, only its shape.                                         *)
Unvouched(sent) ==
  \/ \E s \in sent.included : s.id = Nested
  \/ \E p \in {q \in sent.data : Timed(q)} :
       \/ Unreal \in {p.arrival_time, p.route, p.stop, p.trip, p.vehicle, p.status}
       \/ \E s \in Schedules(p, sent) :
            s.attributes = Nested \/ Unreal \in {s.arrival_time, s.service_date}

(* The contract, map_rows, _prefilter and the columns agree: a page that     *)
(* passes the contract fails its batch only for what Unvouched lists, and    *)
(* otherwise loses a timed prediction only when its route, stop or trip is   *)
(* null.  (This is what Poller's SilentDrop stands for.)                     *)
CleanPagesMap ==
  page # Null =>
    /\ error = "raised" => Unvouched(page)
    /\ error = "none" =>
         \A p \in page.data : Timed(p) =>
           \/ Null \in {p.route, p.stop, p.trip}
           \/ \E r \in stop_events :
                r.trip_id = p.trip /\ r.stop_id = p.stop /\ r.polled_at = now

(* The snapshots of a label's own run, by the Python rule, up to its span. *)
SnapshotsOf(l) ==
  {r \in stop_events :
     /\ r.trip_id = l.trip_id
     /\ r.stop_id = l.stop_id
     /\ service_date_norm(anchor(r.scheduled_arrival, r.polled_at)) = l.service_date_norm
     /\ r.polled_at <= l.observed_span_end}

(* Rerun stability at the grain of a label (labels.py's docstring): SQL     *)
(* groups snapshots by one date rule and Python keys the row by another,    *)
(* and still every label is what its own run's snapshots up to its last     *)
(* sighting give, no other day's among them, whichever windows the builds   *)
(* that wrote it covered and whatever was polled since.                     *)
LabelsAreReproducible ==
  \A l \in labels : SnapshotsOf(l) # {} /\ l = derive_label_row(SnapshotsOf(l))
=============================================================================
