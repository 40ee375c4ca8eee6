--------------------------- MODULE PublishProofs ---------------------------
(***************************************************************************)
(* What a push derived is on D1 after it, for any number of publishers,    *)
(* any ledger of any length and any median: the upsert replaces only       *)
(* earlier rows of the same key, and the order of the ledger's times says  *)
(* when two gaps of one derivation can have the same key.                  *)
(***************************************************************************)
EXTENDS Publish, FiniteSetTheorems, WellFoundedInduction, TLAPS

(* One cycle after the other, each with its times in order. *)
InOrder(runs) ==
  /\ \A i \in 1 .. Len(runs) :
       /\ runs[i].started_at <= runs[i].polled_at
       /\ runs[i].polled_at <= runs[i].finished_at
  /\ \A i, j \in 1 .. Len(runs) : i < j => runs[i].finished_at < runs[j].started_at

Ledger == {runs \in Seq(RunsRow) : InOrder(runs)}

PublishIInv ==
  /\ now \in Nat
  /\ poll_runs \in Ledger
  /\ \A i \in 1 .. Len(poll_runs) : poll_runs[i].finished_at <= now
  /\ rows \in [Publishers -> Ledger]
  /\ DerivedGapsArePublished

USE PublishAssumption

-----------------------------------------------------------------------------
Key(runs, median2, i) == compute_gaps(runs, median2, i).started_at

(* A gap keeps its key's row unless a later row's gap has the same key. *)
LEMMA LastOfKeyStays ==
  ASSUME NEW d1, NEW runs, NEW median2, NEW i \in GapRows(runs, median2),
         \A k \in GapRows(runs, median2) :
           Key(runs, median2, k) = Key(runs, median2, i) => k <= i
  PROVE  compute_gaps(runs, median2, i) \in UpsertGaps(d1, runs, median2)
BY DEF UpsertGaps, Key

(* A row's fields are times. *)
LEMMA RowTimes ==
  ASSUME NEW runs \in Ledger, NEW i \in 1 .. Len(runs)
  PROVE  /\ runs[i] \in RunsRow
         /\ runs[i].started_at \in Nat
         /\ runs[i].polled_at \in Nat
         /\ runs[i].finished_at \in Nat
<1>1. runs[i] \in RunsRow
  BY DEF Ledger
<1> QED
  BY <1>1 DEF RunsRow

(* A later row's times come after those of an earlier one. *)
LEMMA LaterTimes ==
  ASSUME NEW runs \in Ledger, NEW i \in 1 .. Len(runs), NEW j \in 1 .. Len(runs), i < j
  PROVE  /\ runs[i].started_at < runs[j].started_at
         /\ runs[i].started_at < runs[j].polled_at
         /\ runs[i].polled_at < runs[j].started_at
         /\ runs[i].polled_at < runs[j].polled_at
<1>1. /\ runs[i].started_at <= runs[i].polled_at
      /\ runs[i].polled_at <= runs[i].finished_at
      /\ runs[i].finished_at < runs[j].started_at
      /\ runs[j].started_at <= runs[j].polled_at
  BY DEF Ledger, InOrder
<1>2. /\ runs[i].started_at \in Nat /\ runs[i].polled_at \in Nat
      /\ runs[i].finished_at \in Nat
      /\ runs[j].started_at \in Nat /\ runs[j].polled_at \in Nat
  <2>1. runs[i].started_at \in Nat /\ runs[i].polled_at \in Nat /\ runs[i].finished_at \in Nat
    BY RowTimes
  <2>2. runs[j].started_at \in Nat /\ runs[j].polled_at \in Nat
    BY RowTimes
  <2> QED BY <2>1, <2>2
<1>3. runs[i].polled_at < runs[j].started_at
  BY <1>1, <1>2
<1> QED
  BY <1>1, <1>2, <1>3

(* The key of a later row's gap: the polled_at of the row before it, or its *)
(* own started_at.                                                          *)
LEMMA LaterKeys ==
  ASSUME NEW runs \in Ledger, NEW median2, NEW k \in GapRows(runs, median2)
  PROVE  /\ k \in 1 .. Len(runs)
         /\ \/ /\ k > 1
               /\ ClosesTimingGap(runs, median2, k)
               /\ Key(runs, median2, k) = runs[k - 1].polled_at
            \/ /\ ~ClosesTimingGap(runs, median2, k)
               /\ Key(runs, median2, k) = runs[k].started_at
BY DEF GapRows, Key, compute_gaps, ClosesTimingGap

(* No later gap has the key of a timing gap. *)
LEMMA TimingGapStays ==
  ASSUME NEW d1, NEW runs \in Ledger, NEW median2, median2 # 0,
         NEW i \in 1 .. Len(runs), ClosesTimingGap(runs, median2, i)
  PROVE  compute_gaps(runs, median2, i) \in UpsertGaps(d1, runs, median2)
<1>1. i \in GapRows(runs, median2) /\ i > 1
  BY DEF GapRows, ClosesTimingGap
<1>2. Key(runs, median2, i) = runs[i - 1].polled_at
  BY DEF Key, compute_gaps
<1>3. ASSUME NEW k \in GapRows(runs, median2), k > i
      PROVE  Key(runs, median2, k) # Key(runs, median2, i)
  <2>1. k \in 1 .. Len(runs) /\ k - 1 \in 1 .. Len(runs) /\ i - 1 \in 1 .. Len(runs)
    <3>1. k \in 1 .. Len(runs) /\ Len(runs) \in Nat
      BY LaterKeys DEF Ledger
    <3> QED
      BY <1>1, <1>3, <3>1
  <2>2. runs[i - 1].polled_at < runs[k - 1].polled_at
    BY <1>3, <2>1, LaterTimes
  <2>3. runs[i - 1].polled_at < runs[k].started_at
    BY <1>3, <2>1, LaterTimes
  <2>4. /\ runs[i - 1].polled_at \in Nat
        /\ runs[k - 1].polled_at \in Nat
        /\ runs[k].started_at \in Nat
    <3>1. runs[i - 1].polled_at \in Nat
      BY <2>1, RowTimes
    <3>2. runs[k - 1].polled_at \in Nat
      BY <2>1, RowTimes
    <3>3. runs[k].started_at \in Nat
      BY <2>1, RowTimes
    <3> QED BY <3>1, <3>2, <3>3
  <2> QED
    <3>1. \/ Key(runs, median2, k) = runs[k - 1].polled_at
          \/ Key(runs, median2, k) = runs[k].started_at
      BY LaterKeys
    <3> HIDE DEF Key
    <3> QED BY <1>2, <2>2, <2>3, <2>4, <3>1
<1>4. ASSUME NEW k \in GapRows(runs, median2) PROVE k \in Nat /\ i \in Nat
  BY <1>4, LaterKeys
<1> QED
  BY <1>1, <1>3, <1>4, LastOfKeyStays

(* No later gap has the key of an errored row's own gap, except the timing *)
(* gap after a failed cycle.                                               *)
LEMMA ErrorGapStays ==
  ASSUME NEW d1, NEW runs \in Ledger, NEW median2, median2 # 0,
         NEW i \in 1 .. Len(runs), runs[i].error,
         ~ClosesTimingGap(runs, median2, i), ~Shadowed(runs, median2, i)
  PROVE  compute_gaps(runs, median2, i) \in UpsertGaps(d1, runs, median2)
<1>1. i \in GapRows(runs, median2)
  BY DEF GapRows
<1>2. Key(runs, median2, i) = runs[i].started_at
  BY DEF Key, compute_gaps
<1>3. ASSUME NEW k \in GapRows(runs, median2), k > i
      PROVE  Key(runs, median2, k) # Key(runs, median2, i)
  <2>1. k \in 1 .. Len(runs) /\ k - 1 \in 1 .. Len(runs)
    BY <1>3, LaterKeys
  <2>2. runs[i].started_at < runs[k].started_at
    BY <1>3, <2>1, LaterTimes
  <2>3. ASSUME ClosesTimingGap(runs, median2, k)
        PROVE  runs[k - 1].polled_at # runs[i].started_at
    <3>1. CASE k - 1 = i
      <4>1. i < Len(runs) /\ ClosesTimingGap(runs, median2, i + 1)
        BY <2>1, <2>3, <3>1
      <4> QED
        BY <3>1, <4>1 DEF Shadowed
    <3>2. CASE k - 1 # i
      <4>1. i < k - 1
        BY <1>3, <2>1, <3>2
      <4>2. runs[i].started_at < runs[k - 1].polled_at
        BY <2>1, <4>1, LaterTimes
      <4> QED
        BY <2>1, <4>2, RowTimes
    <3> QED
      BY <3>1, <3>2
  <2>4. runs[i].started_at \in Nat /\ runs[k].started_at \in Nat
    BY <2>1, RowTimes
  <2> QED
    BY <1>2, <2>2, <2>3, <2>4, LaterKeys
<1>4. ASSUME NEW k \in GapRows(runs, median2) PROVE k \in Nat /\ i \in Nat
  BY <1>4, LaterKeys
<1> QED
  BY <1>1, <1>3, <1>4, LastOfKeyStays

(* After the upsert everything derived is published. *)
LEMMA UpsertPublishes ==
  ASSUME NEW runs \in Ledger, NEW median2, NEW d1
  PROVE  Published(UpsertGaps(d1, runs, median2), runs, median2)
<1> SUFFICES ASSUME median2 # 0, NEW i \in 1 .. Len(runs)
             PROVE  /\ ClosesTimingGap(runs, median2, i) =>
                         \E g \in UpsertGaps(d1, runs, median2) :
                           /\ g.started_at <= runs[i - 1].polled_at
                           /\ g.ended_at >= runs[i].polled_at
                    /\ runs[i].error /\ ~Shadowed(runs, median2, i) =>
                         \E g \in UpsertGaps(d1, runs, median2) :
                           g.detail = {runs[i].polled_at}
  BY DEF Published
<1> DEFINE gap == compute_gaps(runs, median2, i)
<1>1. CASE ClosesTimingGap(runs, median2, i)
  <2>1. gap \in UpsertGaps(d1, runs, median2)
    BY <1>1, TimingGapStays
  <2>2. /\ gap.started_at = runs[i - 1].polled_at
        /\ gap.ended_at = runs[i].polled_at
        /\ gap.detail = ErrorOf(runs[i])
    BY <1>1 DEF compute_gaps
  <2>3. i - 1 \in 1 .. Len(runs)
    BY <1>1 DEF ClosesTimingGap
  <2>4. runs[i - 1].polled_at \in Nat /\ runs[i].polled_at \in Nat
    BY <2>3, RowTimes
  <2>5. gap.started_at <= runs[i - 1].polled_at /\ gap.ended_at >= runs[i].polled_at
    BY <2>2, <2>4
  <2>6. runs[i].error => gap.detail = {runs[i].polled_at}
    BY <2>2 DEF ErrorOf
  <2> QED
    BY <2>1, <2>5, <2>6
<1>2. CASE ~ClosesTimingGap(runs, median2, i)
  <2> SUFFICES ASSUME runs[i].error, ~Shadowed(runs, median2, i)
               PROVE  \E g \in UpsertGaps(d1, runs, median2) : g.detail = {runs[i].polled_at}
    BY <1>2
  <2>1. gap \in UpsertGaps(d1, runs, median2)
    BY <1>2, ErrorGapStays
  <2>2. gap.detail = {runs[i].polled_at}
    BY <1>2 DEF compute_gaps, ErrorOf
  <2> QED
    BY <2>1, <2>2
<1> QED
  BY <1>1, <1>2

-----------------------------------------------------------------------------
LEMMA EmptyLedger == <<>> \in Ledger
BY DEF Ledger, InOrder

(* The invariant holds initially: nothing has been derived yet. *)
LEMMA PublishInitIInv == PublishInit => PublishIInv
BY EmptyLedger DEF PublishInit, PublishIInv, DerivedGapsArePublished, Published

(* A new row comes after all others. *)
LEMMA RecordRunStep ==
  ASSUME PublishIInv, RecordRun PROVE PublishIInv'
<1> USE DEF PublishIInv
<1>1. PICK pause \in Pauses, failed \in BOOLEAN, error \in BOOLEAN :
        /\ poll_runs' = Append(poll_runs,
             [started_at |-> now + pause,
              polled_at |-> IF failed THEN now + pause ELSE now + pause + 1,
              finished_at |-> now + pause + 1,
              error |-> error])
        /\ now' = now + pause + 1
  BY DEF RecordRun
<1> DEFINE run == [started_at |-> now + pause,
                   polled_at |-> IF failed THEN now + pause ELSE now + pause + 1,
                   finished_at |-> now + pause + 1,
                   error |-> error]
           n == Len(poll_runs)
<1>2. pause \in Nat /\ pause > 0 /\ now \in Nat
  OBVIOUS
<1>3. /\ run \in RunsRow
      /\ run.started_at <= run.polled_at /\ run.polled_at <= run.finished_at
      /\ now < run.started_at
      /\ run.finished_at = now'
  BY <1>1, <1>2 DEF RunsRow
<1>4. poll_runs \in Seq(RunsRow) /\ n \in Nat /\ poll_runs' = Append(poll_runs, run)
  BY <1>1 DEF Ledger
<1> HIDE DEF run, n
<1>5. /\ poll_runs' \in Seq(RunsRow)
      /\ Len(poll_runs') = n + 1
      /\ \A i \in 1 .. n : poll_runs'[i] = poll_runs[i]
      /\ poll_runs'[n + 1] = run
  BY <1>3, <1>4 DEF n
<1>6. InOrder(poll_runs)
  BY DEF Ledger
<1>7. \A i \in 1 .. n : poll_runs[i].finished_at <= now /\ poll_runs[i].finished_at \in Nat
  BY RowTimes DEF n
<1>8. \A i \in 1 .. n + 1 : i \in 1 .. n \/ i = n + 1
  BY <1>4
<1>9. \A i \in 1 .. n + 1 :
        /\ poll_runs'[i].started_at <= poll_runs'[i].polled_at
        /\ poll_runs'[i].polled_at <= poll_runs'[i].finished_at
  BY <1>3, <1>5, <1>6, <1>8 DEF InOrder, n
<1>10. ASSUME NEW i \in 1 .. n + 1, NEW j \in 1 .. n + 1, i < j
       PROVE  poll_runs'[i].finished_at < poll_runs'[j].started_at
  <2>1. i \in 1 .. n
    BY <1>4, <1>10
  <2>2. CASE j \in 1 .. n
    BY <1>5, <1>6, <1>10, <2>1, <2>2 DEF InOrder, n
  <2>3. CASE j = n + 1
    <3>1. run.started_at \in Nat
      BY <1>3 DEF RunsRow
    <3> QED
      BY <1>2, <1>3, <1>5, <1>7, <2>1, <2>3, <3>1
  <2> QED
    BY <1>8, <2>2, <2>3
<1>11. poll_runs' \in Ledger
  BY <1>5, <1>9, <1>10 DEF Ledger, InOrder
<1>12. now' \in Nat /\ now <= now'
  BY <1>1, <1>2
<1>13. \A i \in 1 .. Len(poll_runs') : poll_runs'[i].finished_at <= now'
  BY <1>2, <1>3, <1>5, <1>7, <1>8, <1>12
<1>14. rows' \in [Publishers -> Ledger] /\ DerivedGapsArePublished'
  BY DEF RecordRun, localVars, d1Vars, DerivedGapsArePublished
<1> QED
  BY <1>11, <1>12, <1>13, <1>14

(* A publisher's step. *)
LEMMA PublisherStep ==
  ASSUME PublishIInv, NEW p \in Publishers, StartPublish(p) \/ Working(p)
  PROVE  PublishIInv'
<1> USE DEF PublishIInv, ledgerVars
<1>1. CASE StartPublish(p) \/ ComputeSnapshot(p)
  BY <1>1 DEF StartPublish, ComputeSnapshot, d1Vars, DerivedGapsArePublished
<1>2. CASE ReadLedger(p)
  BY <1>2 DEF ReadLedger, d1Vars, DerivedGapsArePublished
<1>3. CASE PublishFails(p) \/ PushStops(p)
  BY <1>3, EmptyLedger DEF PublishFails, PushStops, Exit, d1Vars, DerivedGapsArePublished
<1>4. CASE PushApplied(p)
  <2>1. Published(UpsertGaps(gaps, rows[p], cadence[p]), rows[p], cadence[p])
    BY UpsertPublishes
  <2>2. DerivedGapsArePublished'
    BY <1>4, <2>1 DEF PushApplied, DerivedGapsArePublished
  <2>3. UNCHANGED <<now, poll_runs>> /\ rows' \in [Publishers -> Ledger]
    BY <1>4, EmptyLedger DEF PushApplied, Exit
  <2> QED
    BY <2>2, <2>3
<1> QED
  BY <1>1, <1>2, <1>3, <1>4 DEF Working

(* The invariant is inductive. *)
LEMMA PublishStepIInv == PublishIInv /\ [PublishNext]_publishVars => PublishIInv'
<1> SUFFICES ASSUME PublishIInv, [PublishNext]_publishVars PROVE PublishIInv'
  OBVIOUS
<1>1. CASE UNCHANGED publishVars
  BY <1>1 DEF publishVars, ledgerVars, localVars, d1Vars, PublishIInv, DerivedGapsArePublished
<1> QED
  BY <1>1, RecordRunStep, PublisherStep DEF PublishNext

(* A push leaves every outage and every degraded cycle it derived on D1,    *)
(* except a failed cycle whose key the timing gap behind it takes over.     *)
THEOREM DerivedGapsAlwaysPublished == PublishSpec => []DerivedGapsArePublished
<1>1. PublishIInv => DerivedGapsArePublished
  BY DEF PublishIInv
<1> QED
  BY <1>1, PublishInitIInv, PublishStepIInv, PTL DEF PublishSpec

-----------------------------------------------------------------------------
(* Healing.  A publisher has a place, and a cadence, whatever its value. *)
Stages == {"idle", "snapshot", "gaps", "push"}

LocalsOK ==
  /\ pc \in [Publishers -> Stages]
  /\ cadence \in [Publishers -> {cadence[q] : q \in Publishers}]

(* One publisher's local changes, the others' do not. *)
LEMMA OneChanges ==
  ASSUME NEW V, NEW f \in [Publishers -> V], NEW p \in Publishers, NEW x
  PROVE  LET g == [f EXCEPT ![p] = x]
         IN  /\ g[p] = x
             /\ \A q \in Publishers : q # p => g[q] = f[q]
             /\ g \in [Publishers -> {g[q] : q \in Publishers}]
OBVIOUS

LEMMA LocalsInit == PublishInit => LocalsOK
BY DEF PublishInit, LocalsOK, Stages

(* What a publisher's step makes of its own place, cadence and rows. *)
LEMMA OwnLocals ==
  ASSUME LocalsOK, rows \in [Publishers -> Ledger],
         NEW p \in Publishers, StartPublish(p) \/ Working(p)
  PROVE  /\ LocalsOK'
         /\ \A q \in Publishers \ {p} :
              pc'[q] = pc[q] /\ cadence'[q] = cadence[q] /\ rows'[q] = rows[q]
         /\ \/ pc'[p] \in {"idle", "snapshot"}
            \/ pc'[p] = "gaps" /\ cadence'[p] = median_cadence2
            \/ /\ pc[p] = "gaps" /\ pc'[p] = "push"
               /\ cadence'[p] = cadence[p] /\ rows'[p] = poll_runs
<1> USE DEF LocalsOK
<1>1. CASE StartPublish(p)
  <2>1. pc' = [pc EXCEPT ![p] = "snapshot"] /\ UNCHANGED <<cadence, rows>>
    BY <1>1 DEF StartPublish
  <2> QED
    BY <2>1 DEF Stages
<1>2. CASE ComputeSnapshot(p)
  <2>1. /\ pc' = [pc EXCEPT ![p] = "gaps"] /\ rows' = rows
        /\ cadence' = [cadence EXCEPT ![p] = median_cadence2]
    BY <1>2 DEF ComputeSnapshot
  <2>2. pc' \in [Publishers -> Stages] /\ pc'[p] = "gaps"
        /\ \A q \in Publishers \ {p} : pc'[q] = pc[q]
    BY <2>1 DEF Stages
  <2> QED
    BY <2>1, <2>2, OneChanges
<1>3. CASE ReadLedger(p)
  <2>1. /\ pc[p] = "gaps" /\ pc' = [pc EXCEPT ![p] = "push"]
        /\ rows' = [rows EXCEPT ![p] = poll_runs] /\ UNCHANGED cadence
    BY <1>3 DEF ReadLedger
  <2>2. pc' \in [Publishers -> Stages] /\ pc'[p] = "push"
        /\ \A q \in Publishers \ {p} : pc'[q] = pc[q]
    BY <2>1 DEF Stages
  <2>3. rows'[p] = poll_runs /\ \A q \in Publishers \ {p} : rows'[q] = rows[q]
    BY <2>1
  <2> QED
    BY <2>1, <2>2, <2>3
<1>4. CASE PublishFails(p) \/ PushStops(p) \/ PushApplied(p)
  <2>1. /\ pc' = [pc EXCEPT ![p] = "idle"]
        /\ cadence' = [cadence EXCEPT ![p] = 0]
        /\ rows' = [rows EXCEPT ![p] = <<>>]
    BY <1>4 DEF PublishFails, PushStops, PushApplied, Exit
  <2>2. pc' \in [Publishers -> Stages] /\ pc'[p] = "idle"
        /\ \A q \in Publishers \ {p} : pc'[q] = pc[q]
    BY <2>1 DEF Stages
  <2>3. \A q \in Publishers \ {p} : rows'[q] = rows[q]
    BY <2>1
  <2> QED
    BY <2>1, <2>2, <2>3, OneChanges
<1> QED
  BY <1>1, <1>2, <1>3, <1>4 DEF Working

(* While the ledger stands still its median does. *)
LEMMA MedianStands ==
  ASSUME poll_runs' = poll_runs PROVE median_cadence2' = median_cadence2
BY DEF median_cadence2

(* No new reading of an unchanged ledger is old. *)
LEMMA UpToDateStep ==
  ASSUME PublishIInv, LocalsOK, UpToDate, poll_runs' = poll_runs,
         NEW p \in Publishers, StartPublish(p) \/ Working(p)
  PROVE  UpToDate'
<1>1. rows \in [Publishers -> Ledger] /\ median_cadence2' = median_cadence2
  BY MedianStands DEF PublishIInv
<1>2. /\ \A q \in Publishers \ {p} :
           pc'[q] = pc[q] /\ cadence'[q] = cadence[q] /\ rows'[q] = rows[q]
      /\ \/ pc'[p] \in {"idle", "snapshot"}
         \/ pc'[p] = "gaps" /\ cadence'[p] = median_cadence2
         \/ /\ pc[p] = "gaps" /\ pc'[p] = "push"
            /\ cadence'[p] = cadence[p] /\ rows'[p] = poll_runs
  BY <1>1, OwnLocals
<1> SUFFICES ASSUME NEW q \in Publishers
             PROVE  /\ pc'[q] \in {"gaps", "push"} => cadence'[q] = median_cadence2'
                    /\ pc'[q] = "push" => rows'[q] = poll_runs'
  BY DEF UpToDate
<1> HIDE DEF median_cadence2
<1>3. CASE q # p
  BY <1>1, <1>2, <1>3 DEF UpToDate
<1>4. CASE q = p
  BY <1>1, <1>2, <1>4 DEF UpToDate
<1> QED
  BY <1>3, <1>4

(* A push of the ledger as it stands shows all of it on D1, and no other step *)
(* touches the gaps there.                                                    *)
LEMMA HealedStep ==
  ASSUME PublishIInv, UpToDate, NEW p \in Publishers, StartPublish(p) \/ Working(p)
  PROVE  \/ Published(gaps', poll_runs, median_cadence2)
         \/ ~PushApplied(p) /\ gaps' = gaps
<1>1. CASE PushApplied(p)
  <2>1. gaps' = UpsertGaps(gaps, rows[p], cadence[p]) /\ pc[p] = "push"
    BY <1>1 DEF PushApplied
  <2>2. rows[p] = poll_runs /\ cadence[p] = median_cadence2
    BY <2>1 DEF UpToDate
  <2>3. poll_runs \in Ledger
    BY DEF PublishIInv
  <2> QED
    BY <2>1, <2>2, <2>3, UpsertPublishes
<1>2. CASE ~PushApplied(p)
  BY <1>2 DEF Working, StartPublish, ComputeSnapshot, ReadLedger, PublishFails, PushStops, d1Vars
<1> QED
  BY <1>1, <1>2

(* The status page heals without being told what is wrong with it: when the   *)
(* ledger stands still and every reading of it is fresh, one push by anyone   *)
(* shows all of its gaps, whatever was on D1, and no step of any publisher    *)
(* takes one back.                                                            *)
THEOREM PushesAlwaysHealForGood == PublishSpec => PushesHealForGood
<1> DEFINE heals ==
      UNCHANGED poll_runs /\ UpToDate =>
        /\ UpToDate'
        /\ ((\E p \in Publishers : PushApplied(p))
              \/ Published(gaps, poll_runs, median_cadence2))
             => Published(gaps', poll_runs, median_cadence2)
<1>1. LocalsOK /\ PublishIInv /\ [PublishNext]_publishVars => LocalsOK'
  <2> SUFFICES ASSUME LocalsOK, PublishIInv, [PublishNext]_publishVars PROVE LocalsOK'
    OBVIOUS
  <2>1. CASE RecordRun \/ UNCHANGED publishVars
    BY <2>1 DEF RecordRun, publishVars, localVars, LocalsOK
  <2>2. ASSUME NEW p \in Publishers, StartPublish(p) \/ Working(p) PROVE LocalsOK'
    BY <2>2, OwnLocals DEF PublishIInv
  <2> QED
    BY <2>1, <2>2 DEF PublishNext
<1>2. LocalsOK /\ PublishIInv /\ [PublishNext]_publishVars => [heals]_publishVars
  <2> SUFFICES ASSUME LocalsOK, PublishIInv, PublishNext, poll_runs' = poll_runs, UpToDate
               PROVE  /\ UpToDate'
                      /\ ((\E p \in Publishers : PushApplied(p))
                            \/ Published(gaps, poll_runs, median_cadence2))
                           => Published(gaps', poll_runs, median_cadence2)
    OBVIOUS
  <2>1. ~RecordRun
    <3>1. Len(poll_runs) \in Nat /\ poll_runs \in Seq(RunsRow)
      BY DEF PublishIInv, Ledger
    <3>2. \A run : Append(poll_runs, run) # poll_runs
      BY <3>1
    <3> QED
      BY <3>2 DEF RecordRun
  <2>2. PICK p \in Publishers : StartPublish(p) \/ Working(p)
    BY <2>1 DEF PublishNext
  <2>3. UpToDate'
    BY <2>2, UpToDateStep
  <2>4. ASSUME NEW q \in Publishers, PushApplied(q)
        PROVE  Published(gaps', poll_runs, median_cadence2)
    <3>1. Working(q)
      BY <2>4 DEF Working
    <3> QED
      BY <2>4, <3>1, HealedStep
  <2>5. Published(gaps, poll_runs, median_cadence2)
          => Published(gaps', poll_runs, median_cadence2)
    <3> HIDE DEF median_cadence2
    <3> QED
      BY <2>2, HealedStep
  <2> QED
    BY <2>3, <2>4, <2>5
<1> QED
  BY <1>1, <1>2, LocalsInit, PublishInitIInv, PublishStepIInv, PTL
  DEF PublishSpec, PushesHealForGood

-----------------------------------------------------------------------------
(* Truth.  What a publisher has read is the beginning of the ledger. *)
ReadFrom(read, runs) ==
  /\ Len(read) <= Len(runs)
  /\ \A i \in 1 .. Len(read) : read[i] = runs[i]

TruthIInv ==
  /\ PublishIInv
  /\ \A p \in Publishers : ReadFrom(rows[p], poll_runs)
  /\ \A gap \in gaps :
       gap.ended_at \in Nat /\ gap.ended_at <= now /\ IsTrue(gap, poll_runs)

(* A gap derived from the beginning of a ledger is true of all of it. *)
LEMMA DerivedIsTrue ==
  ASSUME NEW runs \in Ledger, NEW read \in Ledger, ReadFrom(read, runs),
         NEW median2, NEW i \in GapRows(read, median2)
  PROVE  /\ IsTrue(compute_gaps(read, median2, i), runs)
         /\ i \in 1 .. Len(runs)
         /\ compute_gaps(read, median2, i).ended_at \in {runs[i].polled_at, runs[i].finished_at}
<1> DEFINE gap == compute_gaps(read, median2, i)
<1>1. i \in 1 .. Len(read) /\ Len(read) \in Nat /\ Len(runs) \in Nat
  BY LaterKeys DEF Ledger
<1>2. i \in 1 .. Len(runs) /\ read[i] = runs[i]
  BY <1>1 DEF ReadFrom
<1>3. ASSUME NEW j \in 1 .. Len(runs), NEW k \in 1 .. Len(runs), j < k
      PROVE  runs[j].polled_at < runs[k].polled_at /\ runs[j].polled_at < runs[k].started_at
  BY <1>3, LaterTimes
<1>4. \A j \in 1 .. Len(runs) :
        runs[j].polled_at \in Nat /\ runs[j].started_at \in Nat /\ runs[j].finished_at \in Nat
  BY RowTimes
<1>5. \A t \in ErrorOf(runs[i]) : runs[i].error /\ t = runs[i].polled_at
  BY DEF ErrorOf
<1>6. CASE ClosesTimingGap(read, median2, i)
  <2>1. i - 1 \in 1 .. Len(runs) /\ read[i - 1] = runs[i - 1] /\ i - 1 < i
    BY <1>1, <1>2, <1>6 DEF ClosesTimingGap, ReadFrom
  <2>2. gap = [started_at |-> runs[i - 1].polled_at, ended_at |-> runs[i].polled_at,
               detail |-> ErrorOf(runs[i])]
    BY <1>2, <1>6, <2>1 DEF compute_gaps
  <2> HIDE DEF gap
  <2>3. ASSUME NEW j \in 1 .. Len(runs)
        PROVE  ~ (gap.started_at < runs[j].polled_at /\ runs[j].polled_at < gap.ended_at)
    <3>1. CASE j < i
      <4>1. j = i - 1 \/ j < i - 1
        BY <1>1, <3>1
      <4>2. runs[j].polled_at <= runs[i - 1].polled_at
        BY <1>3, <1>4, <2>1, <4>1
      <4> QED BY <1>4, <2>1, <2>2, <4>2
    <3>2. CASE j = i
      BY <1>4, <2>2, <3>2
    <3>3. CASE i < j
      <4>1. runs[i].polled_at < runs[j].polled_at
        BY <1>2, <1>3, <3>3
      <4> QED BY <1>2, <1>4, <2>2, <4>1
    <3> QED BY <1>1, <3>1, <3>2, <3>3
  <2>4. ASSUME NEW t \in gap.detail
        PROVE  /\ runs[i].error /\ runs[i].polled_at = t
               /\ gap.started_at <= t /\ t <= gap.ended_at
    <3>1. runs[i - 1].polled_at < runs[i].polled_at
      BY <1>2, <1>3, <2>1
    <3> QED BY <1>2, <1>4, <1>5, <2>1, <2>2, <3>1
  <2>5. IsTrue(gap, runs)
    BY <1>2, <2>3, <2>4 DEF IsTrue
  <2> QED BY <1>2, <2>2, <2>5 DEF gap
<1>7. CASE ~ClosesTimingGap(read, median2, i)
  <2>1. runs[i].error
    BY <1>2, <1>7 DEF GapRows
  <2>2. gap = [started_at |-> runs[i].started_at, ended_at |-> runs[i].finished_at,
               detail |-> {runs[i].polled_at}]
    BY <1>2, <1>7, <2>1 DEF compute_gaps, ErrorOf
  <2> HIDE DEF gap
  <2>3. ASSUME NEW j \in 1 .. Len(runs), j # i
        PROVE  ~ (gap.started_at < runs[j].polled_at /\ runs[j].polled_at < gap.ended_at)
    <3>1. CASE j < i
      <4>1. runs[j].polled_at < runs[i].started_at
        BY <1>2, <1>3, <3>1
      <4> QED BY <1>2, <1>4, <2>2, <4>1
    <3>2. CASE i < j
      <4>1. runs[i].finished_at < runs[j].started_at /\ runs[j].started_at <= runs[j].polled_at
        BY <1>2, <3>2 DEF Ledger, InOrder
      <4> QED BY <1>2, <1>4, <2>2, <4>1
    <3> QED BY <1>1, <2>3, <3>1, <3>2
  <2>4. runs[i].started_at <= runs[i].polled_at /\ runs[i].polled_at <= runs[i].finished_at
    BY <1>2 DEF Ledger, InOrder
  <2>5. IsTrue(gap, runs)
    BY <1>2, <2>1, <2>2, <2>3, <2>4 DEF IsTrue
  <2> QED BY <1>2, <2>2, <2>5 DEF gap
<1> QED BY <1>6, <1>7

(* What is true of a ledger stays true when rows come after the gap's end. *)
LEMMA TrueStays ==
  ASSUME NEW runs, NEW later \in Ledger, ReadFrom(runs, later),
         NEW gap, gap.ended_at \in Nat, IsTrue(gap, runs), Len(runs) \in Nat,
         \A j \in 1 .. Len(later) : j > Len(runs) => gap.ended_at < later[j].polled_at
  PROVE  IsTrue(gap, later)
<1>1. Len(later) \in Nat
  BY DEF Ledger
<1>2. ASSUME NEW j \in 1 .. Len(later),
             gap.started_at < later[j].polled_at, later[j].polled_at < gap.ended_at
      PROVE  later[j].error /\ gap.detail = {later[j].polled_at}
  <2>1. later[j].polled_at \in Nat
    BY RowTimes
  <2>2. j \in 1 .. Len(runs) /\ later[j] = runs[j]
    BY <1>1, <1>2, <2>1 DEF ReadFrom
  <2> QED BY <1>2, <2>2 DEF IsTrue
<1>3. ASSUME NEW t \in gap.detail
      PROVE  \E j \in 1 .. Len(later) :
               /\ later[j].error /\ later[j].polled_at = t
               /\ gap.started_at <= t /\ t <= gap.ended_at
  <2>1. PICK j \in 1 .. Len(runs) :
          /\ runs[j].error /\ runs[j].polled_at = t
          /\ gap.started_at <= t /\ t <= gap.ended_at
    BY DEF IsTrue
  <2>2. j \in 1 .. Len(later) /\ later[j] = runs[j]
    BY <1>1 DEF ReadFrom
  <2> QED BY <2>1, <2>2
<1> QED BY <1>2, <1>3 DEF IsTrue

(* A row recorded makes no gap false, and readings stay beginnings. *)
LEMMA RecordRunKeepsTruth ==
  ASSUME TruthIInv, RecordRun PROVE TruthIInv'
<1>1. PublishIInv'
  BY RecordRunStep DEF TruthIInv
<1>2. PICK run \in RunsRow :
        /\ poll_runs' = Append(poll_runs, run) /\ now < run.polled_at
        /\ now \in Nat /\ now' \in Nat /\ now <= now'
  <2>1. PICK pause \in Pauses, failed \in BOOLEAN, error \in BOOLEAN :
          /\ poll_runs' = Append(poll_runs,
               [started_at |-> now + pause,
                polled_at |-> IF failed THEN now + pause ELSE now + pause + 1,
                finished_at |-> now + pause + 1,
                error |-> error])
          /\ now' = now + pause + 1
    BY DEF RecordRun
  <2>2. now \in Nat /\ pause \in Nat /\ pause > 0
    BY DEF TruthIInv, PublishIInv
  <2> QED BY <2>1, <2>2 DEF RunsRow
<1>3. poll_runs \in Seq(RunsRow) /\ poll_runs' \in Ledger /\ Len(poll_runs) \in Nat
  BY <1>1 DEF TruthIInv, PublishIInv, Ledger
<1>4. ReadFrom(poll_runs, poll_runs')
  BY <1>2, <1>3 DEF ReadFrom
<1>5. \A j \in 1 .. Len(poll_runs') : j > Len(poll_runs) => poll_runs'[j] = run
  BY <1>2, <1>3
<1>6. UNCHANGED <<rows, gaps>>
  BY DEF RecordRun, localVars, d1Vars
<1>7. ASSUME NEW gap \in gaps
      PROVE  gap.ended_at <= now' /\ IsTrue(gap, poll_runs')
  <2>1. gap.ended_at \in Nat /\ gap.ended_at <= now /\ IsTrue(gap, poll_runs)
    BY DEF TruthIInv
  <2>2. run.polled_at \in Nat
    BY DEF RunsRow
  <2>3. \A j \in 1 .. Len(poll_runs') :
          j > Len(poll_runs) => gap.ended_at < poll_runs'[j].polled_at
    BY <1>2, <1>5, <2>1, <2>2
  <2>4. IsTrue(gap, poll_runs')
    BY <1>3, <1>4, <2>1, <2>3, TrueStays
  <2> QED BY <1>2, <2>1, <2>4
<1>8. ASSUME NEW p \in Publishers
      PROVE  ReadFrom(rows[p], poll_runs')
  <2>1. Len(rows[p]) \in Nat
    BY DEF TruthIInv, PublishIInv, Ledger
  <2> QED BY <1>2, <1>3, <2>1 DEF TruthIInv, ReadFrom
<1> QED BY <1>1, <1>6, <1>7, <1>8 DEF TruthIInv

(* A publisher's step puts only true gaps on D1. *)
LEMMA PublisherKeepsTruth ==
  ASSUME TruthIInv, NEW p \in Publishers, StartPublish(p) \/ Working(p)
  PROVE  TruthIInv'
<1>1. PublishIInv' /\ PublishIInv
  BY PublisherStep DEF TruthIInv
<1>2. UNCHANGED <<now, poll_runs>> /\ now \in Nat /\ poll_runs \in Ledger
  BY <1>1 DEF PublishIInv, Working, StartPublish, ComputeSnapshot, ReadLedger,
              PublishFails, PushStops, PushApplied, Exit, ledgerVars
<1>3. ReadFrom(<<>>, poll_runs) /\ ReadFrom(poll_runs, poll_runs)
  BY <1>2 DEF ReadFrom, Ledger
<1>4. \A q \in Publishers : ReadFrom(rows'[q], poll_runs)
  <2>1. \/ rows' = rows
        \/ rows' = [rows EXCEPT ![p] = <<>>]
        \/ rows' = [rows EXCEPT ![p] = poll_runs]
    BY DEF Working, StartPublish, ComputeSnapshot, ReadLedger,
           PublishFails, PushStops, PushApplied, Exit
  <2>2. rows \in [Publishers -> Ledger] /\ \A q \in Publishers : ReadFrom(rows[q], poll_runs)
    BY DEF TruthIInv, PublishIInv
  <2> QED BY <1>3, <2>1, <2>2
<1>5. ASSUME NEW gap \in gaps'
      PROVE  gap.ended_at \in Nat /\ gap.ended_at <= now /\ IsTrue(gap, poll_runs)
  <2>1. CASE gap \in gaps
    BY <2>1 DEF TruthIInv
  <2>2. CASE gap \notin gaps
    <3>1. gaps' = UpsertGaps(gaps, rows[p], cadence[p])
      BY <2>2 DEF Working, StartPublish, ComputeSnapshot, ReadLedger,
                  PublishFails, PushStops, PushApplied, d1Vars
    <3>2. PICK i \in GapRows(rows[p], cadence[p]) :
            gap = compute_gaps(rows[p], cadence[p], i)
      BY <2>2, <3>1 DEF UpsertGaps
    <3>3. rows[p] \in Ledger /\ ReadFrom(rows[p], poll_runs)
      BY <1>1 DEF TruthIInv, PublishIInv
    <3>4. /\ IsTrue(gap, poll_runs) /\ i \in 1 .. Len(poll_runs)
          /\ gap.ended_at \in {poll_runs[i].polled_at, poll_runs[i].finished_at}
      BY <1>2, <3>2, <3>3, DerivedIsTrue
    <3>5. /\ poll_runs[i].polled_at \in Nat /\ poll_runs[i].finished_at \in Nat
          /\ poll_runs[i].polled_at <= poll_runs[i].finished_at
          /\ poll_runs[i].finished_at <= now
      <4>1. poll_runs[i].polled_at \in Nat /\ poll_runs[i].finished_at \in Nat
        BY <1>2, <3>4, RowTimes
      <4> QED BY <1>1, <1>2, <3>4, <4>1 DEF PublishIInv, Ledger, InOrder
    <3> QED BY <1>2, <3>4, <3>5
  <2> QED BY <2>1, <2>2
<1> QED BY <1>1, <1>2, <1>4, <1>5 DEF TruthIInv

(* However old the reading and the median a gap was derived from, it is true *)
(* of the ledger as it stands, whoever pushed it and whatever came since.    *)
THEOREM GapsAreAlwaysTrue == PublishSpec => []GapsAreTrue
<1>1. PublishInit => TruthIInv
  <2> SUFFICES ASSUME PublishInit PROVE TruthIInv
    OBVIOUS
  <2>1. gaps = {} /\ poll_runs = <<>> /\ \A p \in Publishers : rows[p] = <<>>
    BY DEF PublishInit
  <2> QED BY <2>1, PublishInitIInv DEF TruthIInv, ReadFrom
<1>2. TruthIInv /\ [PublishNext]_publishVars => TruthIInv'
  <2> SUFFICES ASSUME TruthIInv, [PublishNext]_publishVars PROVE TruthIInv'
    OBVIOUS
  <2>1. CASE UNCHANGED publishVars
    <3>1. PublishIInv'
      BY <2>1, PublishStepIInv DEF TruthIInv
    <3> QED BY <2>1, <3>1 DEF publishVars, ledgerVars, localVars, d1Vars, TruthIInv
  <2> QED BY <2>1, RecordRunKeepsTruth, PublisherKeepsTruth DEF PublishNext
<1>3. TruthIInv => GapsAreTrue
  BY DEF TruthIInv, GapsAreTrue
<1> QED BY <1>1, <1>2, <1>3, PTL DEF PublishSpec

-----------------------------------------------------------------------------
(* Pruning.  A bounded non-empty set of naturals has a greatest element. *)
LEMMA GreatestExists ==
  ASSUME NEW n \in Nat, NEW T, T \subseteq 0 .. n, T # {}
  PROVE  \E x \in T : \A y \in T : y <= x
<1> DEFINE less == OpToRel(<, Nat)
           D == {n - x : x \in T}
<1>1. IsWellFoundedOn(less, Nat)
  BY NatLessThanWellFounded
<1>2. \A x, y \in Nat : y < x => <<y, x>> \in less
  BY DEF OpToRel
<1> HIDE DEF less
<1>3. D \subseteq Nat /\ D # {}
  <2>1. \A x \in T : x \in 0 .. n /\ n - x \in Nat
    OBVIOUS
  <2> QED BY <2>1
<1> HIDE DEF D
<1>4. PICK d \in D : \A e \in D : ~ (<<e, d>> \in less)
  BY <1>1, <1>3, WFMin
<1>5. PICK x \in T : d = n - x
  BY DEF D
<1>6. \A y \in T : y <= x
  <2> SUFFICES ASSUME NEW y \in T PROVE y <= x
    OBVIOUS
  <2>1. n - y \in D
    BY DEF D
  <2>2. d \in Nat /\ n - y \in Nat /\ ~ (n - y < d)
    BY <1>2, <1>3, <1>4, <2>1
  <2> QED BY <1>5, <2>2
<1> QED BY <1>6

LEMMA BoundedIsFinite ==
  ASSUME NEW n \in Nat, NEW T, T \subseteq 0 .. n
  PROVE  IsFiniteSet(T)
<1>1. IsFiniteSet(0 .. n)
  BY FS_Interval
<1> QED BY <1>1, FS_Subset

(* As many snapshots newer than s as the table may hold stay that many. *)
LEMMA PruneKeepsNewest ==
  ASSUME NEW n \in Nat, NEW table, table \subseteq 0 .. n, NEW s \in Nat,
         Cardinality({t \in table : t > s}) >= MaxSnapshots
  PROVE  Cardinality({t \in Pruned(table) : t > s}) >= MaxSnapshots
<1> DEFINE Above(m) == {t \in table : t > m}
           T == {t \in table : t > s /\ t \notin Pruned(table)}
           kept == {t \in Pruned(table) : t > s}
<1>1. IsFiniteSet(table) /\ IsFiniteSet(kept)
  <2>1. kept \subseteq 0 .. n
    BY DEF Pruned
  <2> QED BY <2>1, BoundedIsFinite
<1>2. \A m : IsFiniteSet(Above(m)) /\ Cardinality(Above(m)) \in Nat
  BY <1>1, FS_Subset, FS_CardinalityType
<1>3. \A m : Above(m) \subseteq kept => Cardinality(Above(m)) <= Cardinality(kept)
  BY <1>1, FS_Subset
<1>4. Cardinality(kept) \in Nat
  BY <1>1, FS_CardinalityType
<1>5. CASE T = {}
  <2>1. Above(s) \subseteq kept
    BY <1>5
  <2> QED BY <1>2, <1>3, <1>4, <2>1
<1>6. CASE T # {}
  <2>1. PICK m \in T : \A y \in T : y <= m
    BY <1>6, GreatestExists
  <2>2. ~ (Cardinality(Above(m)) < MaxSnapshots)
    BY <2>1 DEF Pruned
  <2>3. Above(m) \subseteq kept
    <3> SUFFICES ASSUME NEW t \in table, t > m PROVE t \in kept
      OBVIOUS
    <3>1. t \in Nat /\ m \in Nat /\ m > s
      OBVIOUS
    <3>2. t > s /\ ~ (t <= m)
      BY <3>1
    <3>3. t \notin T
      BY <2>1, <3>2
    <3> QED BY <3>2, <3>3
  <2> QED BY <1>2, <1>3, <1>4, <2>2, <2>3
<1> QED BY <1>5, <1>6

(* Snapshots are stamped with minutes that have begun. *)
SnapshotsIInv ==
  /\ now \in Nat
  /\ stamp \in [Publishers -> 0 .. now]
  /\ pushed \subseteq 0 .. now
  /\ snapshots \subseteq pushed
  /\ NewestSnapshotsAreKept

LEMMA PushKeepsNewest ==
  ASSUME SnapshotsIInv, NEW p \in Publishers,
         pushed' = pushed \cup {stamp[p]},
         snapshots' = snapshots \cup {stamp[p]} \/ snapshots' = Pruned(snapshots \cup {stamp[p]})
  PROVE  snapshots' \subseteq pushed' /\ NewestSnapshotsAreKept'
<1> DEFINE table == snapshots \cup {stamp[p]}
<1>1. table \subseteq 0 .. now /\ now \in Nat /\ pushed' \subseteq 0 .. now
  BY DEF SnapshotsIInv
<1>2. ASSUME NEW s \in pushed' \ table
      PROVE  Cardinality({t \in table : t > s}) >= MaxSnapshots
  <2>1. Cardinality({t \in snapshots : t > s}) >= MaxSnapshots
    BY <1>2 DEF SnapshotsIInv, NewestSnapshotsAreKept
  <2>2. IsFiniteSet(table)
    BY <1>1, BoundedIsFinite
  <2>3. IsFiniteSet({t \in table : t > s})
    BY <2>2, FS_Subset
  <2>4. {t \in snapshots : t > s} \subseteq {t \in table : t > s}
    OBVIOUS
  <2>5. Cardinality({t \in snapshots : t > s}) <= Cardinality({t \in table : t > s})
    BY <2>3, <2>4, FS_Subset
  <2>6. /\ Cardinality({t \in snapshots : t > s}) \in Nat
        /\ Cardinality({t \in table : t > s}) \in Nat
    BY <2>3, <2>4, FS_Subset, FS_CardinalityType
  <2> QED BY <2>1, <2>5, <2>6
<1>3. CASE snapshots' = table
  BY <1>2, <1>3 DEF SnapshotsIInv, NewestSnapshotsAreKept
<1>4. CASE snapshots' = Pruned(table)
  <2> SUFFICES ASSUME NEW s \in pushed' \ Pruned(table)
               PROVE  Cardinality({t \in Pruned(table) : t > s}) >= MaxSnapshots
    BY <1>4 DEF NewestSnapshotsAreKept, Pruned, SnapshotsIInv
  <2>1. Cardinality({t \in table : t > s}) \in Nat
    <3>1. IsFiniteSet({t \in table : t > s})
      <4>1. IsFiniteSet(table)
        BY <1>1, BoundedIsFinite
      <4> QED BY <4>1, FS_Subset
    <3> QED BY <3>1, FS_CardinalityType
  <2>2. Cardinality({t \in table : t > s}) >= MaxSnapshots
    <3>1. CASE s \in table
      BY <2>1, <3>1 DEF Pruned
    <3> QED BY <1>2, <3>1
  <2> QED BY <1>1, <2>2, PruneKeepsNewest
<1> QED BY <1>3, <1>4

(* Whatever pushes stop half-way or come late, D1 keeps the newest snapshots. *)
THEOREM NewestSnapshotsAlwaysKept == PublishSpec => []NewestSnapshotsAreKept
<1>1. PublishInit => SnapshotsIInv
  BY DEF PublishInit, SnapshotsIInv, NewestSnapshotsAreKept
<1>2. SnapshotsIInv /\ [PublishNext]_publishVars => SnapshotsIInv'
  <2> SUFFICES ASSUME SnapshotsIInv, [PublishNext]_publishVars
               PROVE  SnapshotsIInv'
    OBVIOUS
  <2>1. CASE RecordRun
    <3>1. now' \in Nat /\ now <= now'
      BY <2>1 DEF RecordRun, SnapshotsIInv
    <3>2. 0 .. now \subseteq 0 .. now'
      BY <3>1 DEF SnapshotsIInv
    <3> QED BY <2>1, <3>1, <3>2 DEF RecordRun, localVars, d1Vars, SnapshotsIInv, NewestSnapshotsAreKept
  <2>2. CASE UNCHANGED publishVars
    BY <2>2 DEF publishVars, ledgerVars, localVars, d1Vars, SnapshotsIInv, NewestSnapshotsAreKept
  <2>3. ASSUME NEW p \in Publishers, StartPublish(p)
        PROVE  SnapshotsIInv'
    <3>1. now - (now % Minute) \in 0 .. now
      BY DEF SnapshotsIInv
    <3> QED BY <2>3, <3>1 DEF StartPublish, ledgerVars, d1Vars, SnapshotsIInv, NewestSnapshotsAreKept
  <2>4. ASSUME NEW p \in Publishers, ComputeSnapshot(p) \/ ReadLedger(p)
        PROVE  SnapshotsIInv'
    BY <2>4 DEF ComputeSnapshot, ReadLedger, ledgerVars, d1Vars, SnapshotsIInv, NewestSnapshotsAreKept
  <2>5. ASSUME NEW p \in Publishers, PublishFails(p)
        PROVE  SnapshotsIInv'
    BY <2>5 DEF PublishFails, Exit, ledgerVars, d1Vars, SnapshotsIInv, NewestSnapshotsAreKept
  <2>6. ASSUME NEW p \in Publishers, PushStops(p) \/ PushApplied(p)
        PROVE  SnapshotsIInv'
    <3>1. /\ now' = now /\ stamp' \in [Publishers -> 0 .. now]
          /\ pushed' = pushed \cup {stamp[p]}
      BY <2>6 DEF PushStops, PushApplied, Exit, ledgerVars, SnapshotsIInv
    <3>2. snapshots' \subseteq pushed' /\ NewestSnapshotsAreKept'
      BY <2>6, <3>1, PushKeepsNewest DEF PushStops, PushApplied
    <3> QED BY <3>1, <3>2 DEF SnapshotsIInv
  <2> QED BY <2>1, <2>2, <2>3, <2>4, <2>5, <2>6 DEF PublishNext, Working
<1> QED BY <1>1, <1>2, PTL DEF PublishSpec, SnapshotsIInv
=============================================================================
