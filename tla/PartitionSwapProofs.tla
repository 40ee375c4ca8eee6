------------------------- MODULE PartitionSwapProofs -------------------------
(***************************************************************************)
(* The partition swap implements the table it replaces: no reader or       *)
(* writer of stop_events can tell that it happened, for any number of      *)
(* writers and rows.                                                       *)
(***************************************************************************)
EXTENDS PartitionSwap, FiniteSetTheorems, TLAPS

(* Until the renames the copy, and what an abort keeps of it, are part of *)
(* the table; after them the migration does not run again.                *)
CopyIsPart ==
  /\ stop_events = "old" => heap["new"] \subseteq heap["old"] /\ kept \subseteq heap["old"]
  /\ stop_events = "new" => step = "idle"

SwapIInv == SwapTypeOK /\ RecordedIffSwapped /\ CopyIsPart

USE DEF SwapIInv, Relations, Steps, Ids

(* A part of a finite set with as many elements is the whole set. *)
LEMMA SameCount ==
  ASSUME NEW S, NEW T, IsFiniteSet(T), S \subseteq T, Cardinality(S) = Cardinality(T)
  PROVE  S = T
BY FS_Subset

LEMMA IdsFinite == ASSUME NEW S \in SUBSET Ids PROVE IsFiniteSet(S) /\ Cardinality(S) \in Nat
<1>1. IsFiniteSet(Ids)
  BY PartitionSwapAssumption, FS_Interval
<1> QED
  BY <1>1, FS_Subset, FS_CardinalityType

(* The invariant holds initially. *)
LEMMA SwapInitIInv == SwapInit => SwapIInv
<1> SUFFICES ASSUME SwapInit PROVE SwapIInv
  OBVIOUS
<1> USE DEF SwapInit
<1>1. last_id \in 0 .. MaxId /\ old_count \in Nat
  BY PartitionSwapAssumption
<1>2. recorded \in BOOLEAN /\ RecordedIffSwapped
  BY DEF RecordedIffSwapped
<1>3. open \in [Writers -> SUBSET Ids] /\ heap \in [Relations -> SUBSET Ids]
  OBVIOUS
<1>4. CopyIsPart
  BY DEF CopyIsPart
<1> QED
  BY <1>1, <1>2, <1>3, <1>4 DEF SwapTypeOK

(* Every step preserves the invariant. *)
LEMMA SwapStepIInv == SwapIInv /\ [SwapNext]_swapVars => SwapIInv'
<1> SUFFICES ASSUME SwapIInv, [SwapNext]_swapVars PROVE SwapIInv'
  OBVIOUS
<1> USE PartitionSwapAssumption DEF SwapTypeOK, RecordedIffSwapped, CopyIsPart
<1>1. ASSUME NEW w \in Writers, InsertRow(w) PROVE SwapIInv'
  BY <1>1 DEF InsertRow
<1>2. ASSUME NEW w \in Writers, CommitRows(w) PROVE SwapIInv'
  BY <1>2 DEF CommitRows
<1>3. ASSUME NEW w \in Writers, RollbackRows(w) PROVE SwapIInv'
  BY <1>3 DEF RollbackRows
<1>4. CASE ApplyMigration
  BY <1>4 DEF ApplyMigration
<1>5. CASE BulkCopy
  BY <1>5 DEF BulkCopy
<1>6. CASE CountOld
  <2>1. Cardinality(heap["old"]) \in Nat
    BY IdsFinite
  <2> QED
    BY <1>6, <2>1 DEF CountOld
<1>7. CASE CheckCopy
  BY <1>7 DEF CheckCopy
<1>8. CASE LockTable
  BY <1>8 DEF LockTable
<1>9. CASE CatchUp
  BY <1>9 DEF CatchUp
<1>10. CASE Swap
  BY <1>10 DEF Swap
<1>11. CASE CheckFails \/ Crash
  <2>1. step # "idle" /\ Abandon
    BY <1>11 DEF CheckFails, CheckFailed, Crash
  <2>2. recorded' \in BOOLEAN /\ RecordedIffSwapped'
    BY <2>1 DEF Abandon
  <2>3. SwapTypeOK' /\ CopyIsPart'
    BY <2>1, <2>2 DEF Abandon
  <2> QED
    BY <2>2, <2>3
<1>12. CASE UNCHANGED swapVars
  BY <1>12 DEF swapVars
<1> QED
  BY <1>1, <1>2, <1>3, <1>4, <1>5, <1>6, <1>7, <1>8, <1>9, <1>10, <1>11, <1>12
  DEF SwapNext, Migrate

(* Type correctness of the migration and its bookkeeping. *)
THEOREM SwapTypeCorrect == SwapSpec => []SwapIInv
BY SwapInitIInv, SwapStepIInv, PTL DEF SwapSpec

-----------------------------------------------------------------------------
(* A writer's step is the same step of the table. *)
LEMMA WriterStep ==
  ASSUME SwapIInv, NEW w \in Writers, InsertRow(w) \/ CommitRows(w) \/ RollbackRows(w)
  PROVE  [Table!TableNext]_(Table!tableVars)
<1>1. CASE InsertRow(w)
  BY <1>1 DEF InsertRow, Table!TableNext, Table!Insert
<1>2. CASE CommitRows(w)
  BY <1>2 DEF CommitRows, SwapTypeOK, Table!TableNext, Table!Commit
<1>3. CASE RollbackRows(w)
  BY <1>3 DEF RollbackRows, Table!TableNext, Table!Rollback
<1> QED
  BY <1>1, <1>2, <1>3

(* Every step of the migration is invisible: those before the renames touch *)
(* only the new relation, and the renames exchange two equal ones.          *)
LEMMA MigrationStep ==
  ASSUME SwapIInv, Migrate \/ Crash
  PROVE  UNCHANGED Table!tableVars
<1> USE DEF SwapTypeOK, CopyIsPart, RecordedIffSwapped, Table!tableVars
<1>1. CASE ApplyMigration \/ CountOld \/ CheckCopy \/ LockTable
  BY <1>1 DEF ApplyMigration, CountOld, CheckCopy, LockTable
<1>2. CASE BulkCopy \/ CatchUp
  BY <1>2 DEF BulkCopy, CatchUp
<1>3. CASE Swap
  <2>1. stop_events = "old" /\ heap["new"] \subseteq heap["old"]
    BY <1>3 DEF Swap
  <2>2. heap["new"] = heap["old"]
    BY <1>3, <2>1, SameCount, IdsFinite DEF Swap
  <2> QED
    BY <1>3, <2>1, <2>2 DEF Swap
<1>4. CASE CheckFails \/ Crash
  <2>1. stop_events = "old"
    BY <1>4 DEF CheckFails, CheckFailed, Crash
  <2> QED
    BY <1>4, <2>1 DEF CheckFails, Crash, Abandon
<1> QED
  BY <1>1, <1>2, <1>3, <1>4 DEF Migrate

(* The migration's zero-row-loss promise: at every moment, whatever commits *)
(* between its statements and wherever it stops, stop_events shows exactly  *)
(* the committed rows.                                                      *)
THEOREM SwapLosesNothing == SwapSpec => TableSpec
<1>1. SwapInit => Table!TableInit
  BY DEF SwapInit, Table!TableInit
<1>2. SwapIInv /\ [SwapNext]_swapVars => [Table!TableNext]_(Table!tableVars)
  <2> SUFFICES ASSUME SwapIInv, [SwapNext]_swapVars
               PROVE  [Table!TableNext]_(Table!tableVars)
    OBVIOUS
  <2>1. CASE UNCHANGED swapVars
    BY <2>1 DEF swapVars, Table!tableVars
  <2> QED
    BY <2>1, WriterStep, MigrationStep DEF SwapNext
<1> QED
  BY <1>1, <1>2, SwapTypeCorrect, PTL DEF SwapSpec, TableSpec, Table!TableSpec
-----------------------------------------------------------------------------
(* An exact copy passes both counts. *)
LEMMA ExactCopyPasses ==
  ASSUME SwapIInv, CopyIsExact
  PROVE  ~CheckFailed
<1>1. heap["old"] \in SUBSET Ids
  BY DEF SwapTypeOK
<1>2. Cardinality(heap["old"]) \in Nat
  BY <1>1, IdsFinite
<1>3. CASE step = "compare"
  BY <1>2, <1>3 DEF CopyIsExact, CheckFailed
<1>4. CASE step = "swap"
  BY <1>2, <1>4 DEF CopyIsExact, CheckFailed
<1> QED
  BY <1>3, <1>4 DEF CheckFailed

(* As long as no row commits the copy stays exact, the one that starts from *)
(* what an earlier attempt left behind included.                            *)
LEMMA CopyStaysExact ==
  ASSUME SwapIInv, CopyIsExact, stop_events = "old", heap'["old"] = heap["old"],
         [SwapNext]_swapVars
  PROVE  CopyIsExact'
<1> USE DEF SwapTypeOK, CopyIsExact
<1>1. ASSUME NEW w \in Writers, InsertRow(w) \/ CommitRows(w) \/ RollbackRows(w)
      PROVE  CopyIsExact'
  <2>1. CASE InsertRow(w) \/ RollbackRows(w)
    BY <2>1 DEF InsertRow, RollbackRows
  <2>2. CASE CommitRows(w)
    <3>1. heap'["new"] = heap["new"] /\ UNCHANGED <<step, old_count>>
      BY <2>2 DEF CommitRows
    <3> QED
      BY <3>1
  <2> QED
    BY <1>1, <2>1, <2>2
<1>2. CASE ApplyMigration
  BY <1>2 DEF ApplyMigration
<1>3. CASE BulkCopy
  <2>1. heap["new"] \subseteq heap["old"]
    BY DEF CopyIsPart
  <2>2. step' = "count" /\ heap'["new"] = heap["new"] \cup heap["old"]
    BY <1>3 DEF BulkCopy
  <2> QED
    BY <2>1, <2>2
<1>4. CASE CountOld
  BY <1>4 DEF CountOld
<1>5. CASE CheckCopy \/ LockTable
  BY <1>5 DEF CheckCopy, LockTable
<1>6. CASE CatchUp
  <2>1. step = "catch_up" /\ step' = "swap"
    BY <1>6 DEF CatchUp
  <2>2. heap["new"] = heap["old"]
    BY <2>1
  <2>3. heap'["new"] = heap["new"] \cup {i \in heap["old"] : \A n \in heap["new"] : n < i}
    BY <1>6 DEF CatchUp
  <2> QED
    BY <2>1, <2>2, <2>3
<1>7. CASE Swap \/ CheckFails \/ Crash
  <2>1. step' = "idle"
    BY <1>7 DEF Swap, CheckFails, Crash, Abandon
  <2> QED
    BY <2>1
<1>8. CASE UNCHANGED swapVars
  BY <1>8 DEF swapVars
<1> QED
  BY <1>1, <1>2, <1>3, <1>4, <1>5, <1>6, <1>7, <1>8 DEF SwapNext, Migrate

(* Only a row that commits during an attempt makes its counts fail: the      *)
(* leftovers of attempts that were killed do not, so that a rerun in a quiet *)
(* moment goes through to the renames.                                       *)
THEOREM OnlyCommitsEverFailTheCounts == SwapSpec => OnlyCommitsFailTheCounts
<1>1. SwapIInv /\ [SwapNext]_swapVars =>
        [ CopyIsExact /\ stop_events = "old" /\ heap'["old"] = heap["old"]
            => CopyIsExact' /\ ~CheckFailed ]_swapVars
  BY CopyStaysExact, ExactCopyPasses
<1> QED
  BY <1>1, SwapTypeCorrect, PTL DEF SwapSpec, OnlyCommitsFailTheCounts
-----------------------------------------------------------------------------
(* What readers of stop_events have from the refinement: no step of anybody,  *)
(* the renames included, takes a row out of the relation that has the name.   *)
CommittedRowsStay ==
  [][heap[stop_events] \subseteq heap'[stop_events']]_swapVars

THEOREM CommittedRowsAlwaysStay == SwapSpec => CommittedRowsStay
<1>1. [Table!TableNext]_(Table!tableVars) => heap[stop_events] \subseteq heap'[stop_events']
  BY DEF Table!TableNext, Table!Insert, Table!Commit, Table!Rollback, Table!tableVars
<1>2. TableSpec => CommittedRowsStay
  BY <1>1, PTL DEF TableSpec, Table!TableSpec, CommittedRowsStay
<1> QED
  BY <1>2, SwapLosesNothing, PTL
=============================================================================
