------------------------------ MODULE Contract ------------------------------
(***************************************************************************)
(* One page of /predictions on its way to stop_events, as pure operators:  *)
(* the payload contract (pulse/contract.py, contracts/*.json), map_rows    *)
(* (pulse/mbta.py) and _prefilter (pulse/poll.py).                         *)
(*                                                                         *)
(* A field of a resource holds Missing (no such key), Null, a value the    *)
(* contract names, or one of:                                              *)
(*   Mistyped  a number, flag or text where another is due                 *)
(*   Nested    a list or an object where a single value is due             *)
(*   Unreal    text of the right type that nothing can be made of: a time  *)
(*             or date that is none, as the contract looks at its shape    *)
(*             only, or an id or status Postgres does not store            *)
(* attributes and relationships are "object", Missing, Null (empty, too),  *)
(* Mistyped (a number or a flag) or Nested (a list or text, none of it a   *)
(* field's name); unless it is "object", the fields in it are Missing.     *)
(*                                                                         *)
(* A page is the set of its predictions and the set of the schedules it    *)
(* includes, each an object, no two with the same id.                      *)
(***************************************************************************)
EXTENDS Integers

CONSTANTS
  Missing, Null, Mistyped, Nested, Unreal,
  Instants,   \* the times the feed names, and those of the polls
  Dates,      \* the service dates the feed may name
  Ids         \* ids of routes, stops, trips, vehicles and schedules, status texts

ASSUME ContractAssumption ==
  /\ Instants \subseteq Nat
  /\ \A v \in {Missing, Null, Mistyped, Nested, Unreal} :
       v \notin Nat \cup Ids \cup Dates \cup {"object"}
  /\ Missing # Null
  /\ {Mistyped, Nested, Unreal} \cap {Missing, Null} = {}
  /\ Mistyped # Nested /\ Unreal \notin {Mistyped, Nested}

Clause(required, nullable, values) ==
  [required |-> required, nullable |-> nullable, values |-> values]

(* The clauses of contracts/mbta-predictions.v1.json.  Of a top-level field *)
(* other than type only the presence is checked.                            *)
TopLevelId == Clause(TRUE, TRUE, Ids \cup {Mistyped, Nested, Unreal})
TopLevelObject == Clause(TRUE, TRUE, {"object", Mistyped, Nested})
RequiredId == Clause(TRUE, TRUE, Ids \cup {Unreal})
OptionalId == Clause(FALSE, TRUE, Ids \cup {Unreal})
OptionalTime == Clause(FALSE, TRUE, Instants \cup {Unreal})

PredictionSpec ==
  [id |-> TopLevelId, attributes |-> TopLevelObject, relationships |-> TopLevelObject,
   type |-> Clause(TRUE, FALSE, {"prediction"}),
   direction_id |-> Clause(TRUE, FALSE, {0, 1}),
   arrival_time |-> OptionalTime, departure_time |-> OptionalTime,
   status |-> OptionalId, route |-> RequiredId, stop |-> RequiredId,
   trip |-> RequiredId, vehicle |-> OptionalId, schedule |-> OptionalId]

ScheduleSpec ==
  [id |-> TopLevelId, attributes |-> TopLevelObject,
   arrival_time |-> OptionalTime,
   service_date |-> Clause(FALSE, TRUE, Dates \cup {Unreal})]

(* _validate_attributes and _validate_relationships alike. *)
Violates(value, clause) ==
  \/ value = Missing /\ clause.required
  \/ value = Null /\ ~clause.nullable
  \/ value \notin clause.values \cup {Missing, Null}

Violations(resource, spec) == {f \in DOMAIN spec : Violates(resource[f], spec[f])}

(* Mutated form: the included schedules are not looked at. *)
ValidateData(page) == UNION {Violations(p, PredictionSpec) : p \in page.data}

validate_page(page) ==
  (UNION {Violations(p, PredictionSpec) : p \in page.data})
    \cup (UNION {Violations(s, ScheduleSpec) : s \in page.included})

(* What validate_page itself raises on: it looks names up in these. *)
Unreadable(page) ==
  \/ \E p \in page.data :
       /\ p.type = "prediction"
       /\ p.attributes = Mistyped \/ p.relationships \in {Mistyped, Nested}
  \/ \E s \in page.included : s.attributes = Mistyped

-----------------------------------------------------------------------------
Absent == {Missing, Null}

OrNull(value) == IF value \in Absent THEN Null ELSE value

(* A prediction with neither time is skipped by map_rows. *)
Timed(p) == p.arrival_time \notin Absent \/ p.departure_time \notin Absent

Schedules(p, page) == {s \in page.included : p.schedule \notin Absent /\ s.id = p.schedule}

Unusable == {Mistyped, Nested, Unreal}

(* What map_rows raises on: an included schedule whose id is no dictionary *)
(* key, and, for a timed prediction, a time or date it parses that is none *)
(* and a schedule whose attributes are no object.  departure_time is not   *)
(* parsed.                                                                 *)
Raises(page) ==
  \/ \E s \in page.included : s.id \in {Missing, Nested}
  \/ \E p \in {q \in page.data : Timed(q)} :
       \/ p.arrival_time \in Unusable
       \/ \E s \in Schedules(p, page) :
            \/ s.attributes = Nested
            \/ s.arrival_time \in Unusable
            \/ s.service_date \in Unusable

Row(p, page, polled_at) ==
  LET schedules == Schedules(p, page)
  IN  [route_id |-> OrNull(p.route),
       direction_id |-> OrNull(p.direction_id),
       stop_id |-> OrNull(p.stop),
       trip_id |-> OrNull(p.trip),
       vehicle_id |-> OrNull(p.vehicle),
       status |-> OrNull(p.status),
       scheduled_arrival |->
         IF schedules = {} THEN Null
                           ELSE OrNull((CHOOSE s \in schedules : TRUE).arrival_time),
       predicted_arrival |-> OrNull(p.arrival_time),
       polled_at |-> polled_at]

map_rows(page, polled_at) ==
  {Row(p, page, polled_at) : p \in {q \in page.data : Timed(q)}}

(* REQUIRED_FIELDS; service_date, the fifth, always has its fallback. *)
Required(row) == {row.route_id, row.direction_id, row.stop_id, row.trip_id}

(* Mutated form: the one field the contract already vouches for. *)
PrefilterDirection(rows) == {r \in rows : r.direction_id # Null}

_prefilter(rows) == {r \in rows : Null \notin Required(r)}

(* What the upsert raises on: a column of text given no text, or text that *)
(* Postgres does not store.                                                *)
Refused(rows) ==
  \E r \in rows :
    {r.route_id, r.stop_id, r.trip_id, r.vehicle_id, r.status} \cap Unusable # {}
=============================================================================
