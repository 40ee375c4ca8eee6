-------------------------- MODULE PartitionsProofs --------------------------
(***************************************************************************)
(* A cycle whose ensure_partitions returned has its lookahead, and a row   *)
(* in stop_events_default is never silent, for every lookahead, every      *)
(* number of months and however the two callers interleave.                *)
(***************************************************************************)
EXTENDS Partitions, TLAPS

InLoop == {"check", "create"}

(* The months the loop has passed have their partitions. *)
PassedMonthsExist ==
  \A c \in Callers : pc[c] \in InLoop =>
    /\ today[c] <= target[c]
    /\ \A m \in Nat : today[c] <= m /\ m < target[c] => m \in partitions

(* A cycle has no outcome before its ensure_partitions is over. *)
OutcomeIsLast == pc["cycle"] \in {"call"} \cup InLoop => outcome = "none"

(* run_cycle takes polled_at before ensure_partitions takes its date. *)
PolledFirst ==
  /\ polled_month <= month
  /\ pc["cycle"] \in {"store"} \cup InLoop => polled_month <= today["cycle"]

PartIInv ==
  /\ PartTypeOK
  /\ PassedMonthsExist
  /\ OutcomeIsLast
  /\ PolledFirst
  /\ LookaheadHolds
  /\ DefaultRowsAreReported

USE PartitionsAssumption
USE DEF Callers, Outcomes, InLoop, Row

(* The invariant holds initially. *)
LEMMA PartInitIInv == PartInit => PartIInv
BY DEF PartInit, PartIInv, PartTypeOK, PassedMonthsExist, OutcomeIsLast, PolledFirst,
       LookaheadHolds, DefaultRowsAreReported

(* Taking the date starts an empty lookahead. *)
LEMMA TakeTodayStep ==
  ASSUME PartIInv, NEW c \in Callers, TakeToday(c) PROVE PartIInv'
<1> USE DEF PartIInv, PartTypeOK, TakeToday
<1>1. PartTypeOK'
  OBVIOUS
<1>2. PassedMonthsExist'
  BY DEF PassedMonthsExist
<1>3. OutcomeIsLast' /\ PolledFirst'
  BY DEF OutcomeIsLast, PolledFirst
<1>4. LookaheadHolds'
  BY DEF LookaheadHolds, OutcomeIsLast
<1>5. DefaultRowsAreReported'
  BY DEF DefaultRowsAreReported
<1> QED
  BY <1>1, <1>2, <1>3, <1>4, <1>5

(* A month found or created extends the lookahead by one. *)
LEMMA NextMonthStep ==
  ASSUME PartIInv, NEW c \in Callers, CheckExists(c) \/ CreatePartition(c)
  PROVE  PartIInv'
<1> USE DEF PartIInv, PartTypeOK, CheckExists, CreatePartition
<1>1. PartTypeOK'
  <2>1. target[c] \in Nat
    OBVIOUS
  <2>2. partitions' = partitions \/ partitions' = partitions \cup {target[c]}
    OBVIOUS
  <2>3. partitions' \subseteq Nat
    BY ONLY <2>1, <2>2, PartIInv DEF PartIInv, PartTypeOK
  <2>4. target' \in [Callers -> Nat]
    BY <2>1
  <2>5. pc' \in [Callers -> {"idle", "call", "check", "create", "store"}]
    OBVIOUS
  <2> QED
    BY <2>3, <2>4, <2>5
<1>2. PassedMonthsExist'
  BY DEF PassedMonthsExist
<1>3. OutcomeIsLast' /\ PolledFirst'
  BY DEF OutcomeIsLast, PolledFirst
<1>4. LookaheadHolds'
  BY DEF LookaheadHolds
<1>5. DefaultRowsAreReported'
  BY DEF DefaultRowsAreReported
<1> QED
  BY <1>1, <1>2, <1>3, <1>4, <1>5

(* The call ends: if it returned, the loop had passed the whole lookahead. *)
LEMMA LeaveStep ==
  ASSUME PartIInv, NEW c \in Callers, CreateRefused(c) \/ StatementFails(c) \/ Ensured(c)
  PROVE  PartIInv'
<1> USE DEF PartIInv, PartTypeOK, CreateRefused, StatementFails, Ensured, Leave
<1>1. PartTypeOK'
  OBVIOUS
<1>2. PassedMonthsExist'
  BY DEF PassedMonthsExist
<1>3. OutcomeIsLast' /\ PolledFirst'
  BY DEF OutcomeIsLast, PolledFirst
<1>4. LookaheadHolds'
  BY DEF LookaheadHolds, PassedMonthsExist
<1>5. DefaultRowsAreReported'
  BY DEF DefaultRowsAreReported
<1> QED
  BY <1>1, <1>2, <1>3, <1>4, <1>5

(* Rows that miss their partition after a returned call are of a month *)
(* before the lookahead.                                               *)
LEMMA StoreStep == ASSUME PartIInv, StoreRows PROVE PartIInv'
<1> USE DEF PartIInv, PartTypeOK, StoreRows
<1>1. PartTypeOK'
  OBVIOUS
<1>2. PassedMonthsExist' /\ OutcomeIsLast' /\ PolledFirst' /\ LookaheadHolds'
  BY DEF PassedMonthsExist, OutcomeIsLast, PolledFirst, LookaheadHolds
<1>3. ASSUME polled_month \notin partitions, outcome = "done"
      PROVE  polled_month < today["cycle"]
  BY <1>3 DEF PolledFirst, LookaheadHolds
<1>4. DefaultRowsAreReported'
  BY <1>3 DEF DefaultRowsAreReported
<1> QED
  BY <1>1, <1>2, <1>4

(* Every step preserves the invariant. *)
LEMMA PartStepIInv == PartIInv /\ [PartNext]_partVars => PartIInv'
<1> SUFFICES ASSUME PartIInv, [PartNext]_partVars PROVE PartIInv'
  OBVIOUS
<1> USE DEF PartIInv, PartTypeOK, PassedMonthsExist, OutcomeIsLast, PolledFirst,
            LookaheadHolds, DefaultRowsAreReported
<1>1. CASE MonthPasses
  BY <1>1 DEF MonthPasses
<1>2. CASE StartCycle
  BY <1>2 DEF StartCycle
<1>3. CASE RunScript
  BY <1>3 DEF RunScript
<1>4. CASE UNCHANGED partVars
  BY <1>4 DEF partVars
<1> QED
  BY <1>1, <1>2, <1>3, <1>4, TakeTodayStep, NextMonthStep, LeaveStep, StoreStep DEF PartNext

LEMMA PartIInvHolds == PartSpec => []PartIInv
BY PartInitIInv, PartStepIInv, PTL DEF PartSpec

(* The lookahead of a cycle whose ensure_partitions returned exists, whoever *)
(* created its months.                                                       *)
THEOREM LookaheadAlwaysHolds == PartSpec => []LookaheadHolds
BY PartIInvHolds, PTL DEF PartIInv

(* A row in stop_events_default comes from a cycle with an error, or from *)
(* one that began before its lookahead's first month.                     *)
THEOREM DefaultRowsAlwaysReported == PartSpec => []DefaultRowsAreReported
BY PartIInvHolds, PTL DEF PartIInv
=============================================================================
