----------------------------- MODULE GrainProofs -----------------------------
(***************************************************************************)
(* For any pages, any wall clock and any windows: the snapshots are what   *)
(* the table declares, the contract vouches for the mapping, and a label   *)
(* is a function of its own run's snapshots.                               *)
(***************************************************************************)
EXTENDS Grain, WellFoundedInduction, TLAPS

USE ContractAssumption, GrainAssumption

-----------------------------------------------------------------------------
(* A non-empty set of naturals has a least element. *)
LEMMA LeastExists ==
  ASSUME NEW T, T \subseteq Nat, T # {}
  PROVE  \E x \in T : \A y \in T : x <= y
<1> DEFINE less == OpToRel(<, Nat)
<1>1. IsWellFoundedOn(less, Nat)
  BY NatLessThanWellFounded
<1>2. \A x, y \in Nat : y < x => <<y, x>> \in less
  BY DEF OpToRel
<1> HIDE DEF less
<1>3. PICK x \in T : \A y \in T : ~ (<<y, x>> \in less)
  BY <1>1, WFMin
<1>4. \A y \in T : x <= y
  <2> SUFFICES ASSUME NEW y \in T PROVE x <= y
    OBVIOUS
  <2>1. x \in Nat /\ y \in Nat /\ ~ (y < x)
    BY <1>2, <1>3
  <2> QED BY <2>1
<1> QED BY <1>4

(* The 3 AM rule of SQL and the one of Python give every instant the same *)
(* date, whatever the clock shows then.                                   *)
LEMMA DateRulesAgree ==
  ASSUME NEW i \in Instants
  PROVE  service_date_norm(i) = (LocalHour[i] - 3) \div 24
<1> DEFINE hour == LocalHour[i]
<1>1. hour \in Int
  OBVIOUS
<1> HIDE DEF hour
<1>2. (IF hour % 24 < 3 THEN hour \div 24 - 1 ELSE hour \div 24) = (hour - 3) \div 24
  BY <1>1
<1> QED BY <1>2 DEF service_date_norm, hour

(* The first and the last snapshot of a group exist. *)
LEMMA Extremes ==
  ASSUME TypeOK, NEW G \in SUBSET stop_events, G # {}
  PROVE  /\ First(G) \in G /\ \A s \in G : First(G).polled_at <= s.polled_at
         /\ Last(G) \in G /\ \A s \in G : s.polled_at <= Last(G).polled_at
<1>1. \A r \in G : r.polled_at \in Nat /\ r.polled_at <= now /\ now \in Nat
  BY DEF TypeOK, Snapshot
<1>2. \E r \in G : \A s \in G : r.polled_at <= s.polled_at
  <2> DEFINE T == {r.polled_at : r \in G}
  <2>1. T \subseteq Nat /\ T # {}
    BY <1>1
  <2> HIDE DEF T
  <2>2. PICK x \in T : \A y \in T : x <= y
    BY <2>1, LeastExists
  <2> QED BY <2>2 DEF T
<1>3. \E r \in G : \A s \in G : s.polled_at <= r.polled_at
  <2> DEFINE T == {now - r.polled_at : r \in G}
  <2>1. T \subseteq Nat /\ T # {}
    BY <1>1
  <2> HIDE DEF T
  <2>2. PICK x \in T : \A y \in T : x <= y
    BY <2>1, LeastExists
  <2>3. PICK r \in G : x = now - r.polled_at
    BY DEF T
  <2>4. \A s \in G : now - r.polled_at <= now - s.polled_at
    BY <2>2, <2>3 DEF T
  <2> QED BY <1>1, <2>4
<1> QED BY <1>2, <1>3 DEF First, Last

(* The key a label gets from Python is the date its snapshots have in SQL, *)
(* and its snapshots, looked up by that key, are its group.                *)
LEMMA LabelHasItsGroup ==
  ASSUME TypeOK, NEW G \in Groups
  PROVE  G # {} /\ SnapshotsOf(derive_label_row(G)) = G
<1> DEFINE l == derive_label_row(G)
           scheduled == LastNonNull(G, "scheduled_arrival")
           start == First(G).polled_at
<1>1. PICK r \in stop_events : G = {s \in stop_events : SameGroup(r, s)}
  BY DEF Groups
<1>2. r \in G /\ G \in SUBSET stop_events
  BY <1>1 DEF SameGroup
<1>3. /\ First(G) \in G /\ Last(G) \in G
      /\ \A s \in G : s.polled_at <= Last(G).polled_at
  BY <1>2, Extremes
<1>4. \A s \in stop_events :
        /\ s.scheduled_arrival \in Instants \cup {Null} /\ s.polled_at \in Instants
        /\ anchor(s.scheduled_arrival, s.polled_at) \in Instants
  BY DEF TypeOK, Snapshot, anchor
<1>5. \A s \in stop_events :
        service_date_norm(anchor(s.scheduled_arrival, s.polled_at)) = gtfs_service_date(s)
  BY <1>4, DateRulesAgree DEF gtfs_service_date
<1>6. service_date_norm(anchor(scheduled, start)) = gtfs_service_date(r)
  <2> DEFINE named == {s \in G : s["scheduled_arrival"] # Null}
  <2>1. CASE named = {}
    <3>1. scheduled = Null /\ First(G).scheduled_arrival = Null
      BY <2>1, <1>3 DEF LastNonNull
    <3>2. anchor(scheduled, start) = anchor(First(G).scheduled_arrival, First(G).polled_at)
      BY <3>1 DEF anchor
    <3>3. gtfs_service_date(First(G)) = gtfs_service_date(r)
      BY <1>1, <1>3 DEF SameGroup
    <3> QED BY <3>2, <3>3, <1>2, <1>3, <1>5
  <2>2. CASE named # {}
    <3>1. Last(named) \in named
      BY <2>2, <1>2, Extremes
    <3>2. scheduled = Last(named).scheduled_arrival /\ scheduled # Null
      BY <3>1, <2>2 DEF LastNonNull
    <3>3. anchor(scheduled, start)
            = anchor(Last(named).scheduled_arrival, Last(named).polled_at)
      BY <3>2 DEF anchor
    <3>4. gtfs_service_date(Last(named)) = gtfs_service_date(r)
      BY <3>1, <1>1 DEF SameGroup
    <3> QED BY <3>1, <3>3, <3>4, <1>2, <1>5
  <2> QED BY <2>1, <2>2
<1>7. /\ l.service_date_norm = gtfs_service_date(r)
      /\ l.trip_id = r.trip_id /\ l.stop_id = r.stop_id
      /\ l.observed_span_end = Last(G).polled_at
  BY <1>1, <1>3, <1>6 DEF derive_label_row, SameGroup
<1>8. \A s \in stop_events : s \in SnapshotsOf(l) <=> s \in G
  BY <1>1, <1>3, <1>5, <1>7 DEF SnapshotsOf, SameGroup
<1> QED BY <1>2, <1>8 DEF SnapshotsOf

-----------------------------------------------------------------------------
(* What the contract says of the fields a clean page is read for. *)
LEMMA CleanFields ==
  ASSUME NEW sent, validate_page(sent) = {}
  PROVE  /\ \A p \in sent.data :
              /\ p.direction_id \in {0, 1}
              /\ {p.arrival_time, p.departure_time} \subseteq Instants \cup {Unreal} \cup Absent
              /\ {p.route, p.stop, p.trip} \subseteq Ids \cup {Unreal, Null}
              /\ {p.vehicle, p.status} \subseteq Ids \cup {Unreal} \cup Absent
         /\ \A s \in sent.included :
              /\ s.id # Missing
              /\ s.arrival_time \in Instants \cup {Unreal} \cup Absent
              /\ s.service_date \in Dates \cup {Unreal} \cup Absent
<1> DEFINE Vp == {Violations(p, PredictionSpec) : p \in sent.data}
           Vs == {Violations(s, ScheduleSpec) : s \in sent.included}
<1>0. (UNION Vp) \cup (UNION Vs) = {}
  BY DEF validate_page
<1> HIDE DEF Vp, Vs
<1>b. \A x : x \notin UNION Vp /\ x \notin UNION Vs
  BY <1>0
<1>a. ASSUME NEW v \in Vp \cup Vs
      PROVE  v = {}
  <2> SUFFICES ASSUME NEW x \in v PROVE FALSE
    OBVIOUS
  <2>1. x \in UNION Vp \/ x \in UNION Vs
    BY Zenon
  <2> QED BY <1>b, <2>1, Zenon
<1> USE DEF Vp, Vs
<1>1. ASSUME NEW p \in sent.data, NEW f \in DOMAIN PredictionSpec
      PROVE  ~Violates(p[f], PredictionSpec[f])
  <2>1. Violations(p, PredictionSpec) = {}
    BY <1>a
  <2> QED BY <2>1 DEF Violations
<1>2. ASSUME NEW s \in sent.included, NEW f \in DOMAIN ScheduleSpec
      PROVE  ~Violates(s[f], ScheduleSpec[f])
  <2>1. Violations(s, ScheduleSpec) = {}
    BY <1>a
  <2> QED BY <2>1 DEF Violations
<1>3. ASSUME NEW p \in sent.data
      PROVE  /\ p.direction_id \in {0, 1}
             /\ {p.arrival_time, p.departure_time} \subseteq Instants \cup {Unreal} \cup Absent
             /\ {p.route, p.stop, p.trip} \subseteq Ids \cup {Unreal, Null}
             /\ {p.vehicle, p.status} \subseteq Ids \cup {Unreal} \cup Absent
  <2>1. /\ ~Violates(p.direction_id, Clause(TRUE, FALSE, {0, 1}))
        /\ ~Violates(p.arrival_time, OptionalTime) /\ ~Violates(p.departure_time, OptionalTime)
        /\ ~Violates(p.route, RequiredId) /\ ~Violates(p.stop, RequiredId)
        /\ ~Violates(p.trip, RequiredId) /\ ~Violates(p.vehicle, OptionalId)
        /\ ~Violates(p.status, OptionalId)
    BY <1>1 DEF PredictionSpec
  <2> QED BY <2>1 DEF Violates, Clause, OptionalTime, RequiredId, OptionalId, Absent
<1>4. ASSUME NEW s \in sent.included
      PROVE  /\ s.id # Missing
             /\ s.arrival_time \in Instants \cup {Unreal} \cup Absent
             /\ s.service_date \in Dates \cup {Unreal} \cup Absent
  <2>1. /\ ~Violates(s.id, ScheduleSpec.id)
        /\ ~Violates(s.arrival_time, OptionalTime)
        /\ ~Violates(s.service_date, Clause(FALSE, TRUE, Dates \cup {Unreal}))
    BY <1>2 DEF ScheduleSpec
  <2> QED BY <2>1 DEF Violates, Clause, OptionalTime, Absent, ScheduleSpec, TopLevelId
<1> QED BY <1>3, <1>4

(* What a page that the upsert takes leaves in the table. *)
LEMMA MappedRows ==
  ASSUME NEW sent, validate_page(sent) = {}, ~Raises(sent),
         now \in 0 .. MaxTime, ~Refused(_prefilter(map_rows(sent, now)))
  PROVE  _prefilter(map_rows(sent, now)) \subseteq Snapshot
<1> SUFFICES ASSUME NEW p \in sent.data, Timed(p),
                    Row(p, sent, now) \in _prefilter(map_rows(sent, now))
             PROVE  Row(p, sent, now) \in Snapshot
  BY DEF _prefilter, map_rows
<1> DEFINE row == Row(p, sent, now)
<1>0. /\ {row.route_id, row.stop_id, row.trip_id, row.vehicle_id, row.status}
           \cap Unusable = {}
      /\ Null \notin Required(row)
  BY DEF Refused, _prefilter
<1>1. p.arrival_time \in Instants \cup Absent
  <2>1. p.arrival_time \in Instants \cup {Unreal} \cup Absent
    BY CleanFields
  <2>2. p.arrival_time # Unreal
    BY DEF Raises, Unusable
  <2> QED BY <2>1, <2>2
<1>2. row.predicted_arrival \in Instants \cup {Null}
  BY <1>1 DEF Row, OrNull
<1>3. row.scheduled_arrival \in Instants \cup {Null}
  <2>1. CASE Schedules(p, sent) = {}
    BY <2>1 DEF Row
  <2>2. CASE Schedules(p, sent) # {}
    <3> DEFINE s == CHOOSE x \in Schedules(p, sent) : TRUE
    <3>1. s \in Schedules(p, sent)
      BY <2>2
    <3>2. s \in sent.included /\ s.arrival_time # Unreal
      BY <3>1 DEF Raises, Schedules, Unusable
    <3>3. s.arrival_time \in Instants \cup Absent
      BY <3>2, CleanFields
    <3> QED BY <2>2, <3>3 DEF Row, OrNull
  <2> QED BY <2>1, <2>2
<1>4. /\ row.route_id = OrNull(p.route) /\ row.stop_id = OrNull(p.stop)
      /\ row.trip_id = OrNull(p.trip) /\ row.vehicle_id = OrNull(p.vehicle)
      /\ row.status = OrNull(p.status) /\ row.direction_id = OrNull(p.direction_id)
      /\ row.polled_at = now
  BY DEF Row
<1>5. row.direction_id \in {0, 1}
  <2>1. p.direction_id \in {0, 1}
    BY CleanFields
  <2> QED BY <1>4, <2>1 DEF OrNull, Absent
<1>6. row.route_id \in Ids /\ row.stop_id \in Ids /\ row.trip_id \in Ids
  <2>1. {p.route, p.stop, p.trip} \subseteq Ids \cup {Unreal, Null}
    BY CleanFields
  <2>2. \A v \in {p.route, p.stop, p.trip} :
          OrNull(v) \notin Unusable /\ OrNull(v) # Null => v \in Ids /\ OrNull(v) = v
    BY <2>1 DEF OrNull, Absent, Unusable
  <2>3. /\ {row.route_id, row.stop_id, row.trip_id} \cap Unusable = {}
        /\ Null \notin {row.route_id, row.stop_id, row.trip_id}
    BY <1>0 DEF Required
  <2> HIDE DEF row
  <2> QED BY <1>4, <2>2, <2>3
<1>7. row.vehicle_id \in Ids \cup {Null} /\ row.status \in Ids \cup {Null}
  <2>1. {p.vehicle, p.status} \subseteq Ids \cup {Unreal} \cup Absent
    BY CleanFields
  <2>2. \A v \in {p.vehicle, p.status} :
          OrNull(v) \notin Unusable => OrNull(v) \in Ids \cup {Null}
    BY <2>1 DEF OrNull, Absent, Unusable
  <2>3. {row.vehicle_id, row.status} \cap Unusable = {}
    BY <1>0
  <2> HIDE DEF row
  <2> QED BY <1>4, <2>2, <2>3
<1>8. row.polled_at \in Instants
  BY <1>4
<1> QED BY <1>2, <1>3, <1>5, <1>6, <1>7, <1>8 DEF Row, Snapshot

LEMMA PollStores ==
  ASSUME Poll, page' \in Pages
  PROVE  stop_events' = stop_events
           \/ /\ validate_page(page') = {} /\ ~Raises(page') /\ error' = "none"
              /\ ~Refused(_prefilter(map_rows(page', now)))
              /\ \E kept \in SUBSET _prefilter(map_rows(page', now)) :
                   /\ OnePerTripStop(_prefilter(map_rows(page', now)), kept)
                   /\ stop_events' = stop_events \cup kept
<1>1. CASE error' = "none"
  <2>1. /\ validate_page(page') = {} /\ ~Raises(page')
        /\ ~Refused(_prefilter(map_rows(page', now)))
    BY <1>1 DEF Poll, Outcome
  <2> QED BY <1>1, <2>1 DEF Poll
<1>2. CASE error' # "none"
  BY <1>2 DEF Poll
<1> QED BY <1>1, <1>2

(* The type invariant. *)
THEOREM GrainTypeCorrect == Spec => []TypeOK
<1>1. Init => TypeOK
  BY DEF Init, TypeOK
<1>2. TypeOK /\ [Next]_vars => TypeOK'
  <2> SUFFICES ASSUME TypeOK, [Next]_vars
               PROVE  TypeOK'
    OBVIOUS
  <2>1. CASE Tick
    <3>1. \A r \in stop_events : r.polled_at \in Nat /\ r.polled_at <= now
      BY DEF TypeOK, Snapshot
    <3>2. now \in Nat /\ now' = now + 1 /\ now' \in 0 .. MaxTime /\ stop_events' = stop_events
      BY <2>1 DEF Tick, TypeOK
    <3> QED BY <3>1, <3>2 DEF TypeOK
  <2>2. CASE Build
    BY <2>2 DEF Build, TypeOK
  <2>3. CASE UNCHANGED vars
    BY <2>3 DEF vars, TypeOK
  <2>4. CASE Poll
    <3>1. CASE stop_events' = stop_events
      BY <2>4, <3>1 DEF Poll, TypeOK
    <3>2. CASE stop_events' # stop_events
      <4>1. PICK kept \in SUBSET _prefilter(map_rows(page', now)) :
              /\ OnePerTripStop(_prefilter(map_rows(page', now)), kept)
              /\ stop_events' = stop_events \cup kept
        BY <2>4, <3>2, PollStores DEF Poll
      <4>2. kept \subseteq Snapshot
        BY <2>4, <3>2, PollStores, MappedRows DEF Poll, TypeOK
      <4>3. \A r \in kept : r.polled_at = now
        BY <4>1 DEF _prefilter, map_rows, Row
      <4>4. \A r \in stop_events : r.polled_at \in Nat /\ r.polled_at < now
        BY <2>4 DEF Poll, TypeOK, Snapshot
      <4>5. \A r, s \in stop_events' :
              r.trip_id = s.trip_id /\ r.stop_id = s.stop_id /\ r.polled_at = s.polled_at
                => r = s
        BY <4>1, <4>3, <4>4 DEF OnePerTripStop, TypeOK
      <4>6. now' = now /\ now \in Nat /\ now \in 0 .. MaxTime /\ page' # Null
        BY <2>4 DEF Poll, TypeOK
      <4> QED BY <4>1, <4>2, <4>3, <4>4, <4>5, <4>6 DEF TypeOK
    <3> QED BY <3>1, <3>2
  <2> QED BY <2>1, <2>2, <2>3, <2>4 DEF Next
<1> QED BY <1>1, <1>2, PTL DEF Spec

(* What the contract does not vouch for is all that map_rows raises on. *)
LEMMA OnlyUnvouchedRaises ==
  ASSUME NEW sent, validate_page(sent) = {}, Raises(sent)
  PROVE  Unvouched(sent)
<1>1. CASE \E s \in sent.included : s.id \in {Missing, Nested}
  <2>1. \A s \in sent.included : s.id # Missing
    BY CleanFields
  <2> QED BY <1>1, <2>1 DEF Unvouched
<1>2. CASE \E p \in sent.data : Timed(p) /\ p.arrival_time \in Unusable
  <2>1. PICK p \in sent.data : Timed(p) /\ p.arrival_time \in Unusable
    BY <1>2
  <2>2. p.arrival_time \in Instants \cup {Unreal} \cup Absent
    BY CleanFields
  <2>3. p.arrival_time = Unreal
    BY <2>1, <2>2 DEF Unusable, Absent
  <2> QED BY <2>1, <2>3 DEF Unvouched
<1>3. CASE \E p \in sent.data : \E s \in Schedules(p, sent) :
             /\ Timed(p)
             /\ s.attributes = Nested \/ s.arrival_time \in Unusable \/ s.service_date \in Unusable
  <2>1. PICK p \in sent.data : \E s \in Schedules(p, sent) :
          /\ Timed(p)
          /\ s.attributes = Nested \/ s.arrival_time \in Unusable \/ s.service_date \in Unusable
    BY <1>3
  <2>2. PICK s \in Schedules(p, sent) :
          /\ Timed(p)
          /\ s.attributes = Nested \/ s.arrival_time \in Unusable \/ s.service_date \in Unusable
    BY <2>1
  <2>3. s \in sent.included
    BY <2>2 DEF Schedules
  <2>4. /\ s.arrival_time \in Instants \cup {Unreal} \cup Absent
        /\ s.service_date \in Dates \cup {Unreal} \cup Absent
    BY <2>3, CleanFields
  <2>5. s.attributes = Nested \/ s.arrival_time = Unreal \/ s.service_date = Unreal
    BY <2>2, <2>4 DEF Unusable, Absent
  <2> QED BY <2>2, <2>5 DEF Unvouched
<1>4. \/ \E s \in sent.included : s.id \in {Missing, Nested}
      \/ \E p \in {q \in sent.data : Timed(q)} :
           \/ p.arrival_time \in Unusable
           \/ \E s \in Schedules(p, sent) :
                \/ s.attributes = Nested
                \/ s.arrival_time \in Unusable
                \/ s.service_date \in Unusable
  BY DEF Raises
<1> HIDE DEF Timed, Schedules
<1> QED BY <1>1, <1>2, <1>3, <1>4

(* ... and all that the upsert raises on. *)
LEMMA OnlyUnvouchedRefused ==
  ASSUME NEW sent, NEW polled_at, validate_page(sent) = {},
         Refused(_prefilter(map_rows(sent, polled_at)))
  PROVE  Unvouched(sent)
<1>1. PICK p \in sent.data :
        /\ Timed(p)
        /\ {OrNull(p.route), OrNull(p.stop), OrNull(p.trip), OrNull(p.vehicle),
             OrNull(p.status)} \cap Unusable # {}
  BY DEF Refused, _prefilter, map_rows, Row
<1>2. /\ {p.route, p.stop, p.trip} \subseteq Ids \cup {Unreal, Null}
      /\ {p.vehicle, p.status} \subseteq Ids \cup {Unreal} \cup Absent
  BY CleanFields
<1>3. \A v \in {p.route, p.stop, p.trip, p.vehicle, p.status} :
        v \in Ids \cup {Unreal} \cup Absent
  BY <1>2 DEF Absent
<1>4. \A v : v \in Ids \cup {Unreal} \cup Absent /\ OrNull(v) \in Unusable => v = Unreal
  BY DEF OrNull, Absent, Unusable
<1>5. Unreal \in {p.route, p.stop, p.trip, p.vehicle, p.status}
  BY <1>1, <1>3, <1>4
<1> QED BY <1>1, <1>5 DEF Unvouched

(* A page passing the contract fails its batch only for what the contract *)
(* does not look into, and loses a timed prediction only for a null id.   *)
THEOREM CleanPagesAreMapped == Spec => []CleanPagesMap
<1>1. Init => CleanPagesMap
  BY DEF Init, CleanPagesMap
<1>2. CleanPagesMap /\ [Next]_vars => CleanPagesMap'
  <2> SUFFICES ASSUME CleanPagesMap, [Next]_vars
               PROVE  CleanPagesMap'
    OBVIOUS
  <2>1. CASE Tick
    BY <2>1 DEF Tick, CleanPagesMap
  <2>2. CASE Build
    BY <2>2 DEF Build, CleanPagesMap
  <2>3. CASE UNCHANGED vars
    BY <2>3 DEF vars, CleanPagesMap
  <2>4. CASE Poll
    <3>1. error' = "raised" => Unvouched(page')
      <4> SUFFICES ASSUME error' = "raised" PROVE Unvouched(page')
        OBVIOUS
      <4>1. /\ validate_page(page') = {}
            /\ Raises(page') \/ Refused(_prefilter(map_rows(page', now)))
        BY <2>4 DEF Poll, Outcome
      <4> QED BY <4>1, OnlyUnvouchedRaises, OnlyUnvouchedRefused
    <3>2. ASSUME error' = "none", NEW p \in page'.data, Timed(p),
                 Null \notin {p.route, p.stop, p.trip}
          PROVE  \E r \in stop_events' :
                   r.trip_id = p.trip /\ r.stop_id = p.stop /\ r.polled_at = now
      <4>1. validate_page(page') = {}
        BY <2>4, <3>2 DEF Poll, Outcome
      <4>2. PICK kept :
              /\ OnePerTripStop(_prefilter(map_rows(page', now)), kept)
              /\ stop_events' = stop_events \cup kept
        BY <2>4, <3>2 DEF Poll
      <4> DEFINE row == Row(p, page', now)
      <4>3. /\ row.trip_id = p.trip /\ row.stop_id = p.stop
            /\ row.route_id = p.route /\ row.direction_id \in {0, 1}
        <5>1. /\ {p.route, p.stop, p.trip} \subseteq Ids \cup {Unreal, Null}
              /\ p.direction_id \in {0, 1}
          BY <4>1, CleanFields
        <5>2. /\ p.route \notin Absent /\ p.stop \notin Absent /\ p.trip \notin Absent
              /\ p.direction_id \notin Absent
          <6>1. /\ Missing \notin Ids /\ Missing # Unreal /\ Missing # Null
                /\ Missing \notin Nat /\ Null \notin Nat
            OBVIOUS
          <6>2. p.route # Null /\ p.stop # Null /\ p.trip # Null
            BY <3>2
          <6> QED BY <5>1, <6>1, <6>2 DEF Absent
        <5> QED BY <5>1, <5>2 DEF Row, OrNull
      <4>4. row \in _prefilter(map_rows(page', now))
        BY <3>2, <4>3 DEF _prefilter, map_rows, Required
      <4>5. PICK k \in kept : k.trip_id = row.trip_id /\ k.stop_id = row.stop_id
        BY <4>2, <4>4 DEF OnePerTripStop
      <4>6. k.polled_at = now
        <5>1. \A r \in _prefilter(map_rows(page', now)) : r.polled_at = now
          BY DEF _prefilter, map_rows, Row
        <5> QED BY <4>2, <4>5, <5>1 DEF OnePerTripStop
      <4> QED BY <4>2, <4>3, <4>5, <4>6
    <3>3. now' = now
      BY <2>4 DEF Poll
    <3> QED BY <3>1, <3>2, <3>3 DEF CleanPagesMap
  <2> QED BY <2>1, <2>2, <2>3, <2>4 DEF Next
<1> QED BY <1>1, <1>2, PTL DEF Spec

(* A label is a function of its own run's snapshots up to its last one. *)
THEOREM LabelsReproducible == Spec => []LabelsAreReproducible
<1>1. Init => LabelsAreReproducible
  BY DEF Init, LabelsAreReproducible
<1>2. TypeOK /\ LabelsAreReproducible /\ [Next]_vars => LabelsAreReproducible'
  <2> SUFFICES ASSUME TypeOK, LabelsAreReproducible, [Next]_vars
               PROVE  LabelsAreReproducible'
    OBVIOUS
  <2>1. CASE Tick
    BY <2>1 DEF Tick, LabelsAreReproducible, SnapshotsOf
  <2>2. CASE UNCHANGED vars
    BY <2>2 DEF vars, LabelsAreReproducible, SnapshotsOf
  <2>3. CASE Build
    <3>1. \A l \in labels' : l \in labels \/ \E g \in Groups : l = derive_label_row(g)
      BY <2>3 DEF Build, RowsOf
    <3>2. \A l : SnapshotsOf(l)' = SnapshotsOf(l)
      BY <2>3 DEF Build, SnapshotsOf
    <3>3. ASSUME NEW g \in Groups
          PROVE  /\ SnapshotsOf(derive_label_row(g)) # {}
                 /\ derive_label_row(g) = derive_label_row(SnapshotsOf(derive_label_row(g)))
      <4>1. g # {} /\ SnapshotsOf(derive_label_row(g)) = g
        BY LabelHasItsGroup
      <4> QED BY <4>1, Zenon
    <3> QED BY <3>1, <3>2, <3>3 DEF LabelsAreReproducible
  <2>4. CASE Poll
    <3>1. \A r \in stop_events' \ stop_events : r.polled_at = now
      <4>1. \A r \in _prefilter(map_rows(page', now)) : r.polled_at = now
        BY DEF _prefilter, map_rows, Row
      <4> QED BY <2>4, <4>1, PollStores DEF Poll
    <3>2. stop_events \subseteq stop_events' /\ labels' = labels
      BY <2>4, PollStores DEF Poll
    <3>3. \A r \in stop_events : r.polled_at \in Nat /\ r.polled_at < now /\ now \in Nat
      BY <2>4 DEF Poll, TypeOK, Snapshot
    <3>4. ASSUME NEW l \in labels
          PROVE  SnapshotsOf(l)' = SnapshotsOf(l)
      <4>1. SnapshotsOf(l) # {} /\ l = derive_label_row(SnapshotsOf(l))
        BY DEF LabelsAreReproducible
      <4>2. SnapshotsOf(l) \in SUBSET stop_events
        BY DEF SnapshotsOf
      <4>3. Last(SnapshotsOf(l)) \in stop_events
        BY <4>1, <4>2, Extremes
      <4>4. l.observed_span_end = Last(SnapshotsOf(l)).polled_at
        BY <4>1 DEF derive_label_row
      <4>5. \A r \in stop_events' : r.polled_at <= l.observed_span_end => r \in stop_events
        BY <3>1, <3>3, <4>3, <4>4
      <4> QED BY <3>2, <4>5 DEF SnapshotsOf
    <3> QED BY <3>2, <3>4 DEF LabelsAreReproducible
  <2> QED BY <2>1, <2>2, <2>3, <2>4 DEF Next
<1>3. Spec => []TypeOK
  BY GrainTypeCorrect
<1> QED BY <1>1, <1>2, <1>3, PTL DEF Spec
=============================================================================
