------------------------------ MODULE Features ------------------------------
(***************************************************************************)
(* The feature build (pulse/features.py build_features) over a training    *)
(* view that label builds keep changing, and the three checks of           *)
(* scripts/verify-point-in-time.py.                                        *)
(*                                                                         *)
(* A build is one statement, so it sees one state of the labels; the       *)
(* queries around it only count and report, and nothing reads the          *)
(* transform_runs row it appends.  hour_of_day and day_of_week are         *)
(* functions of scheduled_arrival alone and are left out.                  *)
(***************************************************************************)
EXTENDS Integers, FiniteSets

CONSTANTS
  Keys,          \* service_date_norm, route, direction, stop and trip of a label
  Scheduled,     \* scheduled_arrival
  RouteHour,     \* route_id and local hour of scheduled_arrival
  RouteStop,     \* route_id, direction_id and stop_id
  TripDay,       \* trip_id and service_date_norm
  StopSequence,  \* the stop's place on its trip, which no table has
  Delays,        \* values of delay_seconds
  LateThreshold, \* LATE_THRESHOLD_SECONDS
  Sinces,        \* the --since values tried; 0 is _NO_LOWER_BOUND
  Untils,        \* the --until values tried
  NULL

(* A trip visits its stops in the order of their scheduled arrivals, which *)
(* are a minute's grain and may tie.                                       *)
ASSUME FeaturesAssumption ==
  /\ IsFiniteSet(Keys)
  /\ Scheduled \in [Keys -> Nat]
  /\ StopSequence \in [Keys -> Nat]
  /\ \A k, l \in Keys : TripDay[k] = TripDay[l] /\ StopSequence[k] <= StopSequence[l]
                          => Scheduled[k] <= Scheduled[l]
  /\ Delays \subseteq Int
  /\ LateThreshold \in Int
  /\ Sinces \subseteq Nat
  /\ Untils \subseteq Nat
  /\ NULL \notin Delays \cup Nat
  /\ NULL \notin [late : Nat, of : Nat]

VARIABLES
  labels,    \* trip_stop_labels_training: the delay of each usable label
  features,  \* features_trip_stop
  current    \* history: rows built since a label they read has changed

featureVars == <<labels, features, current>>

Labelled == DOMAIN labels

FeaturesInit ==
  /\ labels = [k \in {} |-> 0]
  /\ features = [k \in {} |-> 0]
  /\ current = {}

-----------------------------------------------------------------------------
Earlier(k) == {h \in Labelled : Scheduled[h] < Scheduled[k]}

Late(S) == {h \in S : labels[h] > LateThreshold}

(* Mutated form: a default rate where there is no history. *)
LateRateDefaulted(S) ==
  [late |-> Cardinality(Late(S)), of |-> IF S = {} THEN 1 ELSE Cardinality(S)]

(* Mutated form: the count is the denominator even of no row. *)
LateRateOfNothing(S) == [late |-> Cardinality(Late(S)), of |-> Cardinality(S)]

(* avg() of the late flags, exact; NULL over no row. *)
LateRate(S) ==
  IF S = {} THEN NULL ELSE [late |-> Cardinality(Late(S)), of |-> Cardinality(S)]

SameRouteHour(k) == {h \in Earlier(k) : RouteHour[h] = RouteHour[k]}
SameStop(k) == {h \in Earlier(k) : RouteStop[h] = RouteStop[k]}
SameTrip(k) == {h \in Earlier(k) : TripDay[h] = TripDay[k]}

Latest(S) == {h \in S : \A g \in S : Scheduled[g] <= Scheduled[h]}

headway_seconds(k) ==
  IF SameStop(k) = {}
    THEN NULL
    ELSE Scheduled[k] - Scheduled[CHOOSE h \in Latest(SameStop(k)) : TRUE]

(* ORDER BY scheduled_arrival DESC LIMIT 1: among ties any row. *)
current_delay_persistence_seconds(k) ==
  IF SameTrip(k) = {} THEN {NULL} ELSE {labels[h] : h \in Latest(SameTrip(k))}

FeatureRow(k, persistence) ==
  [rate |-> LateRate(SameRouteHour(k)),
   headway |-> headway_seconds(k),
   persistence |-> persistence]

-----------------------------------------------------------------------------
(* The labels a row's features read: earlier ones of its bucket, stop or trip. *)
Reads(k, h) ==
  /\ Scheduled[h] < Scheduled[k]
  /\ \/ RouteHour[h] = RouteHour[k]
     \/ RouteStop[h] = RouteStop[k]
     \/ TripDay[h] = TripDay[k]

LabelChanged(h) ==
  /\ current' = {k \in current : ~Reads(k, h)}
  /\ UNCHANGED features

(* A label build closes a trip-stop as normal, or closes it again with *)
(* another final prediction.                                           *)
LabelUsable(h) ==
  /\ \E d \in Delays :
       labels' = [k \in Labelled \cup {h} |-> IF k = h THEN d ELSE labels[k]]
  /\ LabelChanged(h)

(* A label build closes it again beside a gap: the view loses the row. *)
LabelExcluded(h) ==
  /\ h \in Labelled
  /\ labels' = [k \in Labelled \ {h} |-> labels[k]]
  /\ LabelChanged(h)

Window(since, until) ==
  {k \in Labelled : since <= Scheduled[k] /\ Scheduled[k] < until}

(* One value for each row of the window. *)
Carried(window) ==
  {c \in [window -> Delays \cup {NULL}] :
     \A k \in window : c[k] \in current_delay_persistence_seconds(k)}

Upserted(window, carried) ==
  [k \in DOMAIN features \cup window |->
     IF k \in window THEN FeatureRow(k, carried[k]) ELSE features[k]]

(* Mutated form: a row that exists already is kept (DO NOTHING). *)
BuildNewRows(since, until) ==
  LET window == Window(since, until)
  IN  /\ \E carried \in Carried(window \ DOMAIN features) :
           features' = Upserted(window \ DOMAIN features, carried)
      /\ current' = current \cup window
      /\ UNCHANGED labels

(* One INSERT ... ON CONFLICT DO UPDATE over the window.  It may also fail *)
(* and then writes nothing.                                                *)
BuildFeatures(since, until) ==
  LET window == Window(since, until)
  IN  /\ \E carried \in Carried(window) : features' = Upserted(window, carried)
      /\ current' = current \cup window
      /\ UNCHANGED labels

FeaturesNext ==
  \/ \E h \in Keys : LabelUsable(h) \/ LabelExcluded(h)
  \/ \E since \in Sinces, until \in Untils : BuildFeatures(since, until)

FeaturesSpec == FeaturesInit /\ [][FeaturesNext]_featureVars

-----------------------------------------------------------------------------
(* scripts/verify-point-in-time.py: its window functions run over the join. *)
Compared == Labelled \cap DOMAIN features

PeerGroup(k) ==
  Cardinality({Scheduled[m] : m \in {l \in Compared :
                 RouteHour[l] = RouteHour[k] /\ Scheduled[l] <= Scheduled[k]}})

(* GROUPS BETWEEN UNBOUNDED PRECEDING AND 1 PRECEDING. *)
Frame(k) ==
  {m \in Compared : RouteHour[m] = RouteHour[k] /\ PeerGroup(m) <= PeerGroup(k) - 1}

SameRate(stored, window_value) ==
  \/ stored = NULL /\ window_value = NULL
  \/ /\ stored # NULL /\ window_value # NULL
     /\ stored.late * window_value.of = window_value.late * stored.of

independent_recomputation ==
  \A k \in Compared : SameRate(features[k].rate, LateRate(Frame(k)))

first_in_bucket ==
  {k \in Labelled : \A l \in Labelled :
     RouteHour[l] = RouteHour[k] => Scheduled[k] <= Scheduled[l]}

null_arithmetic ==
  Cardinality({k \in DOMAIN features : features[k].rate = NULL})
    = Cardinality(first_in_bucket)

no_future_in_the_past ==
  \A k \in Compared : \A m \in Frame(k) : Scheduled[m] < Scheduled[k]

-----------------------------------------------------------------------------
Feature == [rate : {NULL} \cup [late : Nat, of : Nat \ {0}],
            headway : {NULL} \cup Nat,
            persistence : {NULL} \cup Delays]

FeaturesTypeOK ==
  /\ Labelled \subseteq Keys
  /\ labels \in [Labelled -> Delays]
  /\ DOMAIN features \subseteq Keys
  /\ features \in [DOMAIN features -> Feature]
  /\ current \subseteq DOMAIN features

(* tests/test_features.py's mutation test for every order of events: a row *)
(* keeps exactly the values a rebuild would give it until an earlier label *)
(* of its route-hour, its stop or its trip changes, whatever happens to    *)
(* labels of its own instant or after it, whatever windows are built in    *)
(* between and in whatever order.                                          *)
RowsStayCorrect ==
  \A k \in current : \E p \in current_delay_persistence_seconds(k) :
    features[k] = FeatureRow(k, p)

(* verify-point-in-time.py, a different computation of the same rates: on *)
(* a table built over every usable label, in however many windows, and    *)
(* without rows whose label has left the view, all three checks pass.     *)
VerificationPasses ==
  Labelled \subseteq current /\ DOMAIN features \subseteq Labelled =>
    /\ independent_recomputation
    /\ null_arithmetic
    /\ no_future_in_the_past

(* migrations/006, lines 31-33: current_delay_persistence_seconds is NULL *)
(* when the prior stop's own label is not usable for training.            *)
PriorStop(k, p) ==
  /\ TripDay[p] = TripDay[k] /\ StopSequence[p] < StopSequence[k]
  /\ \A q \in Keys : TripDay[q] = TripDay[k] /\ StopSequence[q] < StopSequence[k]
                       => StopSequence[q] <= StopSequence[p]

NullAfterUnusableStop ==
  \A k \in current, p \in Keys :
    PriorStop(k, p) /\ p \notin Labelled => features[k].persistence = NULL
=============================================================================
