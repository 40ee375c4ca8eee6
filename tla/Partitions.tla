----------------------------- MODULE Partitions -----------------------------
(***************************************************************************)
(* pulse/partitions.py ensure_partitions, called by every poll cycle       *)
(* before its batches and by an operator at any time, against the          *)
(* partitions of stop_events.  A month is a natural.                       *)
(*                                                                         *)
(* A row goes to its month's partition, or to stop_events_default while    *)
(* there is none; Postgres refuses to create a month's partition while     *)
(* stop_events_default holds rows of that month.                           *)
(***************************************************************************)
EXTENDS Integers

CONSTANTS
  MonthsAhead,  \* DEFAULT_MONTHS_AHEAD
  Provisioned,  \* the months migration 004 creates, from month 0
  LastMonth     \* bound: the last month of the behaviours explored

ASSUME PartitionsAssumption ==
  /\ MonthsAhead \in Nat
  /\ Provisioned \in Nat \ {0}
  /\ LastMonth \in Nat

VARIABLES
  month,         \* the wall clock's month
  partitions,    \* months with a partition of their own
  default_rows,  \* stop_events_default, each row with its cycle's fate
  pc,            \* where each caller of ensure_partitions stands
  today,         \* per caller: the month ensure_partitions took as today's
  target,        \* per caller: the month the loop is at
  polled_month,  \* the month of the cycle's polled_at
  outcome        \* how the cycle's ensure_partitions ended

partVars ==
  <<month, partitions, default_rows, pc, today, target, polled_month, outcome>>

Callers == {"cycle", "operator"}
Outcomes == {"none", "done", "failed", "refused"}

PartInit ==
  /\ month = 0
  /\ partitions = 0 .. (Provisioned - 1)
  /\ default_rows = {}
  /\ pc = [c \in Callers |-> "idle"]
  /\ today = [c \in Callers |-> 0]
  /\ target = [c \in Callers |-> 0]
  /\ polled_month = 0
  /\ outcome = "none"

-----------------------------------------------------------------------------
(* Months pass, also while the laptop is off. *)
MonthPasses ==
  /\ month < LastMonth
  /\ month' = month + 1
  /\ UNCHANGED <<partitions, default_rows, pc, today, target, polled_month, outcome>>

(* run_cycle takes polled_at first. *)
StartCycle ==
  /\ pc["cycle"] = "idle"
  /\ pc' = [pc EXCEPT !["cycle"] = "call"]
  /\ polled_month' = month
  /\ outcome' = "none"
  /\ UNCHANGED <<month, partitions, default_rows, today, target>>

RunScript ==
  /\ pc["operator"] = "idle"
  /\ pc' = [pc EXCEPT !["operator"] = "call"]
  /\ UNCHANGED <<month, partitions, default_rows, today, target, polled_month, outcome>>

TakeToday(c) ==
  /\ pc[c] = "call"
  /\ pc' = [pc EXCEPT ![c] = "check"]
  /\ today' = [today EXCEPT ![c] = month]
  /\ target' = [target EXCEPT ![c] = month]
  /\ UNCHANGED <<month, partitions, default_rows, polled_month, outcome>>

(* The SELECT on pg_class: only a missing month goes on to the DDL. *)
CheckExists(c) ==
  /\ pc[c] = "check"
  /\ target[c] <= today[c] + MonthsAhead
  /\ IF target[c] \in partitions
       THEN target' = [target EXCEPT ![c] = @ + 1] /\ UNCHANGED pc
       ELSE pc' = [pc EXCEPT ![c] = "create"] /\ UNCHANGED target
  /\ UNCHANGED <<month, partitions, default_rows, today, polled_month, outcome>>

HeldByDefault(m) == \E r \in default_rows : r.month = m

(* CREATE TABLE IF NOT EXISTS: the other caller may have been faster. *)
CreatePartition(c) ==
  /\ pc[c] = "create"
  /\ target[c] \in partitions \/ ~HeldByDefault(target[c])
  /\ partitions' = partitions \cup {target[c]}
  /\ target' = [target EXCEPT ![c] = @ + 1]
  /\ pc' = [pc EXCEPT ![c] = "check"]
  /\ UNCHANGED <<month, default_rows, today, polled_month, outcome>>

(* ensure_partitions is over: run_cycle catches whatever it raised, folds it *)
(* into errors and goes on to its batches; the script ends.                  *)
Leave(c, how) ==
  /\ pc' = [pc EXCEPT ![c] = IF c = "cycle" THEN "store" ELSE "idle"]
  /\ outcome' = IF c = "cycle" THEN how ELSE outcome
  /\ UNCHANGED <<month, partitions, default_rows, today, target, polled_month>>

CreateRefused(c) ==
  /\ pc[c] = "create"
  /\ target[c] \notin partitions /\ HeldByDefault(target[c])
  /\ Leave(c, "refused")

(* Mutated form: the failure is swallowed. *)
FailureSwallowed(c) ==
  /\ pc[c] \in {"check", "create"}
  /\ Leave(c, "done")

(* Lock contention, a lost connection, a statement that errs. *)
StatementFails(c) ==
  /\ pc[c] \in {"check", "create"}
  /\ Leave(c, "failed")

(* Mutated form: the last month of the lookahead is skipped. *)
EnsuredTooEarly(c) ==
  /\ pc[c] = "check"
  /\ target[c] = today[c] + MonthsAhead
  /\ Leave(c, "done")

Ensured(c) ==
  /\ pc[c] = "check"
  /\ target[c] > today[c] + MonthsAhead
  /\ Leave(c, "done")

(* The cycle's rows, tagged with polled_at, are routed. *)
StoreRows ==
  /\ pc["cycle"] = "store"
  /\ pc' = [pc EXCEPT !["cycle"] = "idle"]
  /\ default_rows' =
       IF polled_month \in partitions
         THEN default_rows
         ELSE default_rows \cup {[month |-> polled_month, ensure |-> outcome,
                                  ensured_from |-> today["cycle"]]}
  /\ UNCHANGED <<month, partitions, today, target, polled_month, outcome>>

PartNext ==
  \/ MonthPasses
  \/ StartCycle
  \/ RunScript
  \/ \E c \in Callers :
       \/ TakeToday(c)
       \/ CheckExists(c)
       \/ CreatePartition(c)
       \/ CreateRefused(c)
       \/ StatementFails(c)
       \/ Ensured(c)
  \/ StoreRows

PartSpec == PartInit /\ [][PartNext]_partVars

-----------------------------------------------------------------------------
Row == [month : Nat, ensure : Outcomes, ensured_from : Nat]

PartTypeOK ==
  /\ month \in Nat
  /\ partitions \subseteq Nat
  /\ default_rows \subseteq Row
  /\ pc \in [Callers -> {"idle", "call", "check", "create", "store"}]
  /\ today \in [Callers -> Nat]
  /\ target \in [Callers -> Nat]
  /\ polled_month \in Nat
  /\ outcome \in Outcomes

(* A row that missed its month's partition is never silent (run_cycle folds *)
(* the failure into the ledger row's error): its cycle's ensure_partitions  *)
(* raised, or the month turned between polled_at and the lookahead.         *)
DefaultRowsAreReported ==
  \A r \in default_rows : r.ensure = "done" => r.month < r.ensured_from

(* The lookahead: when a cycle's ensure_partitions returned, its month and  *)
(* MonthsAhead more have partitions, whichever caller created them and      *)
(* however the two interleaved.                                             *)
LookaheadHolds ==
  outcome = "done" =>
    \A m \in today["cycle"] .. (today["cycle"] + MonthsAhead) : m \in partitions

(* partitions.py:6-11, the default partition is only ever hit by a rare     *)
(* straggler, not by steady traffic: no cycle stores rows there because the *)
(* rows already there keep their month's partition from being created.      *)
DefaultIsForStragglers ==
  \A r \in default_rows : r.ensure # "refused"
=============================================================================
