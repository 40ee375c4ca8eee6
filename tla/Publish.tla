------------------------------ MODULE Publish ------------------------------
(***************************************************************************)
(* scripts/publish-status.py: main, compute_snapshot (its cadence and its  *)
(* time), compute_gaps, build_sql and push_to_d1, beside the poller that   *)
(* appends to poll_runs.  D1 is external: it executes the statements it is *)
(* sent in order and may stop after any of them.  The figures of a         *)
(* snapshot and the wording of a reason are left out; a gap's detail is    *)
(* the error of a ledger row, named by the row's polled_at.                *)
(***************************************************************************)
EXTENDS Integers, FiniteSets, Sequences

CONSTANTS
  Publishers,    \* the launchd job and manual re-runs
  Job,           \* org.coconutlabs.pulse-publish
  Minute,        \* time units in a minute, the grain of published_at
  MaxSnapshots,  \* MAX_SNAPSHOTS
  Multiplier,    \* GAP_THRESHOLD_MULTIPLIER
  Pauses,        \* bound: how long after a cycle the next one may start
  MaxRuns        \* bound: ledger rows

ASSUME PublishAssumption ==
  /\ Job \in Publishers
  /\ Minute \in Nat \ {0}
  /\ MaxSnapshots \in Nat \ {0}
  /\ Pauses \subseteq Nat \ {0}
  /\ Multiplier \in Nat \ {0}
  /\ MaxRuns \in Nat

VARIABLES
  now,        \* the wall clock
  poll_runs,  \* the ledger, in the order of polled_at
  pc,         \* where each publisher stands
  stamp,      \* per publisher: the snapshot's published_at
  cadence,    \* per publisher: twice the median cadence, 0 for None
  rows,       \* per publisher: the ledger rows compute_gaps read
  snapshots,  \* D1's snapshots, by published_at
  pushed,     \* history: the snapshots D1 was ever given
  gaps,       \* D1's gaps
  applied     \* history: what the last applied gaps statement derived from

ledgerVars == <<now, poll_runs>>
localVars == <<pc, stamp, cadence, rows>>
d1Vars == <<snapshots, pushed, gaps, applied>>
publishVars == <<ledgerVars, localVars, d1Vars>>

PublishInit ==
  /\ now = 0
  /\ poll_runs = <<>>
  /\ pc = [p \in Publishers |-> "idle"]
  /\ stamp = [p \in Publishers |-> 0]
  /\ cadence = [p \in Publishers |-> 0]
  /\ rows = [p \in Publishers |-> <<>>]
  /\ snapshots = {}
  /\ pushed = {}
  /\ gaps = {}
  /\ applied = [rows |-> <<>>, cadence |-> 0]

-----------------------------------------------------------------------------
(* One poller at a time: a cycle starts after the one before has finished,   *)
(* and polled_at lies after started_at unless the row is one that main's     *)
(* handlers key by started_at.                                               *)
RecordRun ==
  /\ Len(poll_runs) < MaxRuns
  /\ \E pause \in Pauses, failed, error \in BOOLEAN :
       /\ failed => error
       /\ poll_runs' = Append(poll_runs,
            [started_at |-> now + pause,
             polled_at |-> IF failed THEN now + pause ELSE now + pause + 1,
             finished_at |-> now + pause + 1,
             error |-> error])
       /\ now' = now + pause + 1
  /\ UNCHANGED <<localVars, d1Vars>>

-----------------------------------------------------------------------------
(* percentile_cont(0.5) over the distances between consecutive rows, doubled. *)
median_cadence2 ==
  LET steps == 2 .. Len(poll_runs)
      gap(i) == poll_runs[i].polled_at - poll_runs[i - 1].polled_at
      lower == CHOOSE g \in {gap(i) : i \in steps} :
                 /\ 2 * Cardinality({i \in steps : gap(i) <= g}) >= Cardinality(steps)
                 /\ 2 * Cardinality({i \in steps : gap(i) < g}) < Cardinality(steps)
      upper == CHOOSE g \in {gap(i) : i \in steps} :
                 /\ 2 * Cardinality({i \in steps : gap(i) >= g}) >= Cardinality(steps)
                 /\ 2 * Cardinality({i \in steps : gap(i) > g}) < Cardinality(steps)
  IN IF steps = {} THEN 0 ELSE lower + upper

(* A row further than Multiplier medians from the one before. *)
ClosesTimingGap(runs, median2, i) ==
  /\ i > 1
  /\ 2 * (runs[i].polled_at - runs[i - 1].polled_at) > Multiplier * median2

ErrorOf(run) == IF run.error THEN {run.polled_at} ELSE {}

(* At most one gap per row; a row that closes a timing gap gives it its error. *)
GapRows(runs, median2) ==
  IF median2 = 0
    THEN {}
    ELSE {i \in 1 .. Len(runs) : ClosesTimingGap(runs, median2, i) \/ runs[i].error}

(* Mutated form: prev_polled_at is not moved past a row with an error. *)
GapsPastErrors(runs, median2, i) ==
  LET errorFree == {j \in 1 .. i - 1 : ~runs[j].error}
      prev == IF errorFree = {} THEN 1 ELSE CHOOSE j \in errorFree : \A k \in errorFree : k <= j
  IN IF ClosesTimingGap(runs, median2, i)
       THEN [started_at |-> runs[prev].polled_at,
             ended_at |-> runs[i].polled_at,
             detail |-> ErrorOf(runs[i])]
       ELSE [started_at |-> runs[i].started_at,
             ended_at |-> runs[i].finished_at,
             detail |-> ErrorOf(runs[i])]

compute_gaps(runs, median2, i) ==
  IF ClosesTimingGap(runs, median2, i)
    THEN [started_at |-> runs[i - 1].polled_at,
          ended_at |-> runs[i].polled_at,
          detail |-> ErrorOf(runs[i])]
    ELSE [started_at |-> runs[i].started_at,
          ended_at |-> runs[i].finished_at,
          detail |-> ErrorOf(runs[i])]

(* Mutated form: a gap already on D1 is kept (INSERT OR IGNORE). *)
UpsertIgnoring(d1, runs, median2) ==
  LET new == GapRows(runs, median2)
      key(i) == compute_gaps(runs, median2, i).started_at
  IN d1 \cup {compute_gaps(runs, median2, i) :
                i \in {j \in new : /\ \A g \in d1 : g.started_at # key(j)
                                    /\ \A k \in new : key(k) = key(j) => j <= k}}

(* INSERT OR REPLACE of one gap after the other: the last of a key stays. *)
UpsertGaps(d1, runs, median2) ==
  LET new == GapRows(runs, median2)
      key(i) == compute_gaps(runs, median2, i).started_at
  IN {g \in d1 : \A i \in new : key(i) # g.started_at}
       \cup {compute_gaps(runs, median2, i) :
               i \in {j \in new : \A k \in new : key(k) = key(j) => k <= j}}

(* Mutated form: the sort order is forgotten, the oldest rows stay. *)
PrunedAscending(table) ==
  {s \in table : Cardinality({t \in table : t < s}) < MaxSnapshots}

(* The newest MAX_SNAPSHOTS rows. *)
Pruned(table) ==
  {s \in table : Cardinality({t \in table : t > s}) < MaxSnapshots}

-----------------------------------------------------------------------------
StartPublish(p) ==
  /\ pc[p] = "idle"
  /\ pc' = [pc EXCEPT ![p] = "snapshot"]
  /\ stamp' = [stamp EXCEPT ![p] = now - (now % Minute)]
  /\ UNCHANGED <<ledgerVars, cadence, rows, d1Vars>>

ComputeSnapshot(p) ==
  /\ pc[p] = "snapshot"
  /\ pc' = [pc EXCEPT ![p] = "gaps"]
  /\ cadence' = [cadence EXCEPT ![p] = median_cadence2]
  /\ UNCHANGED <<ledgerVars, stamp, rows, d1Vars>>

(* Mutated form: the newest row is left for the next run. *)
ReadLedgerButNewest(p) ==
  /\ pc[p] = "gaps"
  /\ pc' = [pc EXCEPT ![p] = "push"]
  /\ rows' = [rows EXCEPT ![p] = SubSeq(poll_runs, 1, Len(poll_runs) - 1)]
  /\ UNCHANGED <<ledgerVars, stamp, cadence, d1Vars>>

ReadLedger(p) ==
  /\ pc[p] = "gaps"
  /\ pc' = [pc EXCEPT ![p] = "push"]
  /\ rows' = [rows EXCEPT ![p] = poll_runs]
  /\ UNCHANGED <<ledgerVars, stamp, cadence, d1Vars>>

(* The process ends; its locals are gone. *)
Exit(p) ==
  /\ pc' = [pc EXCEPT ![p] = "idle"]
  /\ stamp' = [stamp EXCEPT ![p] = 0]
  /\ cadence' = [cadence EXCEPT ![p] = 0]
  /\ rows' = [rows EXCEPT ![p] = <<>>]
  /\ UNCHANGED ledgerVars

(* Postgres unreachable, a query that errs, a push that never reached D1: *)
(* exit 1 and D1 is not touched.                                          *)
PublishFails(p) ==
  /\ pc[p] # "idle"
  /\ Exit(p)
  /\ UNCHANGED d1Vars

(* D1 stops after the snapshot or after the pruning. *)
PushStops(p) ==
  /\ pc[p] = "push"
  /\ LET table == snapshots \cup {stamp[p]}
     IN snapshots' \in {table, Pruned(table)}
  /\ pushed' = pushed \cup {stamp[p]}
  /\ Exit(p)
  /\ UNCHANGED <<gaps, applied>>

(* All statements are applied, whether or not wrangler's answer arrives. *)
PushApplied(p) ==
  /\ pc[p] = "push"
  /\ snapshots' = Pruned(snapshots \cup {stamp[p]})
  /\ pushed' = pushed \cup {stamp[p]}
  /\ gaps' = UpsertGaps(gaps, rows[p], cadence[p])
  /\ applied' = [rows |-> rows[p], cadence |-> cadence[p]]
  /\ Exit(p)

Working(p) ==
  \/ ComputeSnapshot(p)
  \/ ReadLedger(p)
  \/ PublishFails(p)
  \/ PushStops(p)
  \/ PushApplied(p)

PublishNext ==
  \/ RecordRun
  \/ \E p \in Publishers : StartPublish(p) \/ Working(p)

PublishSpec == PublishInit /\ [][PublishNext]_publishVars

(* launchd starts the job every 300 s; for it Postgres, wrangler and D1 work *)
(* again and again, though not always.  Every query and push ends: wrangler  *)
(* is killed after 60 s.                                                     *)
FairPublishSpec ==
  /\ PublishSpec
  /\ \A p \in Publishers : WF_publishVars(Working(p))
  /\ WF_publishVars(StartPublish(Job))
  /\ SF_publishVars(ComputeSnapshot(Job))
  /\ SF_publishVars(ReadLedger(Job))
  /\ SF_publishVars(PushApplied(Job))

-----------------------------------------------------------------------------
RunsRow == [started_at : Nat, polled_at : Nat, finished_at : Nat, error : BOOLEAN]
Gap == [started_at : Nat, ended_at : Nat, detail : SUBSET Nat]

PublishTypeOK ==
  /\ now \in Nat
  /\ poll_runs \in Seq(RunsRow)
  /\ pc \in [Publishers -> {"idle", "snapshot", "gaps", "push"}]
  /\ stamp \in [Publishers -> Nat]
  /\ rows \in [Publishers -> Seq(RunsRow)]
  /\ snapshots \subseteq pushed
  /\ pushed \subseteq Nat
  /\ gaps \subseteq Gap
  /\ applied.rows \in Seq(RunsRow)

(* D1 has one key per gap, but a failed cycle's own gap starts at its         *)
(* polled_at, and so does the timing gap up to the row after it: the later of *)
(* the two stays.  A cycle whose row closes a timing gap has no gap of its    *)
(* own.                                                                       *)
Shadowed(runs, median2, i) ==
  /\ i < Len(runs)
  /\ ~ClosesTimingGap(runs, median2, i)
  /\ runs[i].started_at = runs[i].polled_at
  /\ ClosesTimingGap(runs, median2, i + 1)

Published(d1, runs, median2) ==
  median2 # 0 => \A i \in 1 .. Len(runs) :
    /\ ClosesTimingGap(runs, median2, i) =>
         \E g \in d1 : /\ g.started_at <= runs[i - 1].polled_at
                       /\ g.ended_at >= runs[i].polled_at
    /\ runs[i].error /\ ~Shadowed(runs, median2, i) =>
         \E g \in d1 : g.detail = {runs[i].polled_at}

(* d1/schema.sql, "a page that names its own outages": after a push every     *)
(* stretch without a poll that it derived is covered on D1, and the error of  *)
(* every degraded cycle is there, whatever older pushes left behind and       *)
(* whichever publisher pushed, but for a failed cycle whose key a timing gap  *)
(* takes over.                                                                *)
DerivedGapsArePublished == Published(gaps, applied.rows, applied.cadence)

(* A gap says of the ledger that no cycle was recorded between its ends but   *)
(* at most the degraded one it is about, and that this one lies within them.  *)
IsTrue(gap, runs) ==
  /\ \A i \in 1 .. Len(runs) :
       gap.started_at < runs[i].polled_at /\ runs[i].polled_at < gap.ended_at =>
         runs[i].error /\ gap.detail = {runs[i].polled_at}
  /\ \A t \in gap.detail : \E i \in 1 .. Len(runs) :
       /\ runs[i].error /\ runs[i].polled_at = t
       /\ gap.started_at <= t /\ t <= gap.ended_at

(* A gap is derived under the median of one moment and never deleted: a later *)
(* median may not derive it again, and keys and pushes overlap.  Still no gap *)
(* on D1, however old, is false of the ledger as it stands, nor becomes so.   *)
GapsAreTrue == \A gap \in gaps : IsTrue(gap, poll_runs)

(* The status page's history: whatever pushes stopped half-way, came late or *)
(* repeated a minute, a snapshot that D1 was given and no longer has is older *)
(* than MaxSnapshots others that it has; pruning in the very push that adds a *)
(* row never costs one of the newest.                                        *)
NewestSnapshotsAreKept ==
  \A s \in pushed \ snapshots : Cardinality({t \in snapshots : t > s}) >= MaxSnapshots

(* Lines 28-33, "self-healing": a push that failed, stopped half-way or       *)
(* carried an old derivation is made good by later runs, without any record   *)
(* of what was published before.                                              *)
PublishHeals == <>[]Published(gaps, poll_runs, median_cadence2)

(* No publisher holds a reading of the ledger older than the ledger. *)
UpToDate ==
  \A p \in Publishers :
    /\ pc[p] \in {"gaps", "push"} => cadence[p] = median_cadence2
    /\ pc[p] = "push" => rows[p] = poll_runs

(* The same promise without any fairness: while the ledger stands still and no *)
(* publisher holds an older reading of it, no new publisher gets one either,   *)
(* one push that is applied shows every gap of the ledger on D1 whatever is    *)
(* there, and after it nothing any publisher does (another push, one that      *)
(* stops after the snapshot, a failure) takes a gap of the ledger away.        *)
PushesHealForGood ==
  [][ UNCHANGED poll_runs /\ UpToDate =>
        /\ UpToDate'
        /\ ((\E p \in Publishers : PushApplied(p))
              \/ Published(gaps, poll_runs, median_cadence2))
             => Published(gaps', poll_runs, median_cadence2) ]_publishVars

(* Lines 24-26: timestamps keep full precision so that distinct events do not *)
(* collide on their primary key.                                              *)
DistinctEventsKeepTheirRows ==
  applied.cadence # 0 => \A i \in 1 .. Len(applied.rows) :
    applied.rows[i].error => \E g \in gaps : g.detail = {applied.rows[i].polled_at}
=============================================================================
