--------------------------- MODULE PartitionSwap ---------------------------
(***************************************************************************)
(* migrations/004_partition_stop_events.sql, applied by scripts/migrate.py *)
(* beside live writers: bulk copy into the partitioned table, a count,     *)
(* the exclusive lock, the catch-up copy, the exact count, the renames.    *)
(*                                                                         *)
(* The statements run at READ COMMITTED: each sees what was committed when *)
(* it started.  Sent as one string the file is one transaction; sent       *)
(* statement by statement (psql) phase A commits on its own.  kept is what *)
(* an abort leaves in stop_events_new, for either way.                     *)
(***************************************************************************)
EXTENDS Integers, FiniteSets

CONSTANTS
  Writers,  \* sessions that insert into stop_events
  MaxId     \* bound: the last id the sequence hands out

ASSUME PartitionSwapAssumption == MaxId \in Nat

VARIABLES
  last_id,      \* stop_events_id_seq, shared by both tables
  open,         \* per writer, the rows of its open transaction
  heap,         \* the committed rows of the old and the new relation
  stop_events,  \* which relation carries the name
  kept,         \* the part of the new relation an abort does not undo
  step,         \* the migration's next statement
  old_count,    \* phase A's local variable
  recorded      \* schema_migrations holds the migration's name

swapVars == <<last_id, open, heap, stop_events, kept, step, old_count, recorded>>

Relations == {"old", "new"}
Steps == {"idle", "copy", "count", "compare", "lock", "catch_up", "swap"}

SwapInit ==
  /\ last_id = 0
  /\ open = [w \in Writers |-> {}]
  /\ heap = [r \in Relations |-> {}]
  /\ stop_events = "old"
  /\ kept = {}
  /\ step = "idle"
  /\ old_count = 0
  /\ recorded = FALSE

-----------------------------------------------------------------------------
(* The migration holds ACCESS EXCLUSIVE from its LOCK to its end. *)
Locked == step \in {"catch_up", "swap"}

InsertRow(w) ==
  /\ ~Locked
  /\ last_id < MaxId
  /\ last_id' = last_id + 1
  /\ open' = [open EXCEPT ![w] = @ \cup {last_id'}]
  /\ UNCHANGED <<heap, stop_events, kept, step, old_count, recorded>>

CommitRows(w) ==
  /\ open[w] # {}
  /\ heap' = [heap EXCEPT ![stop_events] = @ \cup open[w]]
  /\ open' = [open EXCEPT ![w] = {}]
  /\ UNCHANGED <<last_id, stop_events, kept, step, old_count, recorded>>

RollbackRows(w) ==
  /\ open[w] # {}
  /\ open' = [open EXCEPT ![w] = {}]
  /\ UNCHANGED <<last_id, heap, stop_events, kept, step, old_count, recorded>>

-----------------------------------------------------------------------------
(* apply_migrations skips a file it finds recorded. *)
ApplyMigration ==
  /\ step = "idle"
  /\ ~recorded
  /\ step' = "copy"
  /\ UNCHANGED <<last_id, open, heap, stop_events, kept, old_count, recorded>>

(* Mutated form: the copy starts above the watermark, as the catch-up does. *)
CopyAboveWatermark ==
  /\ step = "copy"
  /\ step' = "count"
  /\ heap' = [heap EXCEPT !["new"] =
                @ \cup {i \in heap["old"] : \A n \in heap["new"] : n < i}]
  /\ kept' \in {kept, heap'["new"]}
  /\ UNCHANGED <<last_id, open, stop_events, old_count, recorded>>

BulkCopy ==
  /\ step = "copy"
  /\ step' = "count"
  /\ heap' = [heap EXCEPT !["new"] = @ \cup heap["old"]]
  /\ kept' \in {kept, heap'["new"]}
  /\ UNCHANGED <<last_id, open, stop_events, old_count, recorded>>

CountOld ==
  /\ step = "count"
  /\ step' = "compare"
  /\ old_count' = Cardinality(heap["old"])
  /\ UNCHANGED <<last_id, open, heap, stop_events, kept, recorded>>

(* Phase A raises when the copy has fewer rows than the table. *)
CheckCopy ==
  /\ step = "compare"
  /\ old_count <= Cardinality(heap["new"])
  /\ step' = "lock"
  /\ old_count' = 0
  /\ UNCHANGED <<last_id, open, heap, stop_events, kept, recorded>>

(* LOCK waits for every open transaction on the table. *)
LockTable ==
  /\ step = "lock"
  /\ \A w \in Writers : open[w] = {}
  /\ step' = "catch_up"
  /\ UNCHANGED <<last_id, open, heap, stop_events, kept, old_count, recorded>>

(* Rows above the new table's greatest id. *)
CatchUp ==
  /\ step = "catch_up"
  /\ step' = "swap"
  /\ heap' = [heap EXCEPT !["new"] =
                @ \cup {i \in heap["old"] : \A n \in heap["new"] : n < i}]
  /\ UNCHANGED <<last_id, open, stop_events, kept, old_count, recorded>>

(* Mutated form: no exact count before the renames. *)
SwapUnverified ==
  /\ step = "swap"
  /\ stop_events' = "new"
  /\ recorded' = TRUE
  /\ step' = "idle"
  /\ UNCHANGED <<last_id, open, heap, kept, old_count>>

(* The exact count, both renames and the bookkeeping row, in one commit. *)
Swap ==
  /\ step = "swap"
  /\ Cardinality(heap["new"]) = Cardinality(heap["old"])
  /\ stop_events' = "new"
  /\ recorded' = TRUE
  /\ step' = "idle"
  /\ UNCHANGED <<last_id, open, heap, kept, old_count>>

(* The transaction is rolled back. *)
Abandon ==
  /\ step' = "idle"
  /\ heap' = [heap EXCEPT !["new"] = kept]
  /\ old_count' = 0
  /\ UNCHANGED <<last_id, open, stop_events, kept, recorded>>

CheckFailed ==
  \/ step = "compare" /\ Cardinality(heap["new"]) < old_count
  \/ step = "swap" /\ Cardinality(heap["new"]) # Cardinality(heap["old"])

CheckFails == CheckFailed /\ Abandon

(* The lock timeout, a lost connection or a kill. *)
Crash == step # "idle" /\ Abandon

Migrate ==
  \/ ApplyMigration
  \/ BulkCopy
  \/ CountOld
  \/ CheckCopy
  \/ LockTable
  \/ CatchUp
  \/ Swap
  \/ CheckFails

SwapNext ==
  \/ Migrate
  \/ Crash
  \/ \E w \in Writers : InsertRow(w) \/ CommitRows(w) \/ RollbackRows(w)

SwapSpec == SwapInit /\ [][SwapNext]_swapVars

(* The operator runs migrate.py again after a failure, the database works *)
(* off its statements, and a writer ends the transactions it opens.       *)
FairSwapSpec ==
  /\ SwapSpec
  /\ WF_swapVars(Migrate)
  /\ \A w \in Writers : WF_swapVars(CommitRows(w) \/ RollbackRows(w))

-----------------------------------------------------------------------------
Ids == 1 .. MaxId

SwapTypeOK ==
  /\ last_id \in 0 .. MaxId
  /\ open \in [Writers -> SUBSET Ids]
  /\ heap \in [Relations -> SUBSET Ids]
  /\ stop_events \in Relations
  /\ kept \subseteq Ids
  /\ step \in Steps
  /\ old_count \in Nat
  /\ recorded \in BOOLEAN

(* Readers and writers of the name stop_events cannot tell that a migration *)
(* is going on (the file's zero-row-loss promise): whatever commits between *)
(* its statements, in whatever order ids are committed, and wherever it     *)
(* stops, the name shows exactly the committed rows.                        *)
Table == INSTANCE EventTable WITH rows <- heap[stop_events]
TableSpec == Table!TableSpec

(* The bookkeeping row and the rename commit together. *)
RecordedIffSwapped == recorded <=> stop_events = "new"

(* The attempt has copied the old relation row for row, and counted it so. *)
CopyIsExact ==
  step \in {"count", "compare", "lock", "catch_up", "swap"} =>
    /\ heap["new"] = heap["old"]
    /\ step = "compare" => old_count = Cardinality(heap["old"])

(* An attempt fails its counts only for a row that commits while it runs: as  *)
(* long as none does, the copy is exact from the bulk copy to the renames,    *)
(* whatever part of their copies earlier attempts left behind and in whatever *)
(* order ids were committed before it.                                        *)
OnlyCommitsFailTheCounts ==
  [][ CopyIsExact /\ stop_events = "old" /\ heap'["old"] = heap["old"]
        => CopyIsExact' /\ ~CheckFailed ]_swapVars

(* A failed attempt never dooms the next one, whatever part of the copy it *)
(* leaves behind: once crashes and inserts have ceased, rerunning          *)
(* completes the swap, although the catch-up alone cannot see a row        *)
(* committed late below the watermark.                                     *)
RerunCompletes ==
  (<>[][Crash => CheckFailed]_swapVars) => <>(stop_events = "new")
=============================================================================
