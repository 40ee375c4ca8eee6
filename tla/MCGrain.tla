------------------------------- MODULE MCGrain -------------------------------
(* One trip at one stop, in nights that cross three in the morning; pages   *)
(* that are clean, and each of their fields spoiled in turn.                *)
EXTENDS Grain, TLC

CONSTANTS r1, s1, t1, v1, x1

MCInstants == 0 .. 4
MCIds == {r1, s1, t1, v1, x1}
MCLocalHour == 0 :> 25 @@ 1 :> 26 @@ 2 :> 27 @@ 3 :> 50 @@ 4 :> 51

Clean == [id |-> x1, attributes |-> "object", relationships |-> "object",
          type |-> "prediction", direction_id |-> 0, arrival_time |-> 2,
          departure_time |-> 2, status |-> Null, route |-> r1, stop |-> s1,
          trip |-> t1, vehicle |-> v1, schedule |-> x1]
Timetable(arrival) == [id |-> x1, attributes |-> "object", arrival_time |-> arrival,
                       service_date |-> Null]

(* The fields that are gone when attributes or relationships is no object. *)
Within(f) ==
  CASE f = "attributes" -> {"direction_id", "arrival_time", "departure_time", "status",
                            "service_date"}
    [] f = "relationships" -> {"route", "stop", "trip", "vehicle", "schedule"}
    [] OTHER -> {}

Spoiled(resource) ==
  {[g \in DOMAIN resource |->
      IF g = f THEN v ELSE IF g \in Within(f) THEN Missing ELSE resource[g]] :
     f \in DOMAIN resource, v \in {Missing, Null, Mistyped, Nested}}
    \cup {[resource EXCEPT ![f] = Unreal] :
            f \in DOMAIN resource \ {"type", "direction_id", "attributes", "relationships"}}

PageOf(data, included) == [data |-> data, included |-> included]

MCPages ==
  {PageOf({Clean}, {Timetable(a)}) : a \in {1, 2, 4}}
    \cup {PageOf({p}, {Timetable(1)}) : p \in Spoiled(Clean)}
    \cup {PageOf({Clean}, {s}) : s \in Spoiled(Timetable(1))}
    \cup {PageOf({[Clean EXCEPT !.arrival_time = Null, !.departure_time = Null]}, {}),
          PageOf({Clean, [Clean EXCEPT !.arrival_time = 3]}, {Timetable(1)})}
=============================================================================
