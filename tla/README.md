# Verification of pulse-mbta

TLA+ models, TLC runs and TLAPS proofs for the MBTA ingestion and label
pipeline in this repository. Everything here was read off the source; where a
comment or a document says something else, the models follow the code and the
difference is listed under *Where the documents disagree with the code*.

## The system

| part | code | state | operations | what makes it correct |
|---|---|---|---|---|
| Poll cycle | `pulse/poll.py`, `pulse/db.py`, the ingest plist | one process at a time; writes `stop_events`, `poll_runs` | connect with retries, `run_cycle` over three batches, deadline, ledger write, two failure handlers | the ledger tells the truth about coverage; a recorded cycle is finished; every cycle ends |
| Predictions client | `pulse/mbta.py` | none between calls | paginate, retry, back off, map rows | a short read is reported or costs one removal each, and a batch's sleep is bounded |
| Contract validator | `pulse/contract.py`, `contracts/` | none | validate a page | what passes it can be mapped and stored |
| Label build | `pulse/labels.py`, `scripts/build-labels.py`, migration 005 | `trip_stop_labels`, `transform_runs` | read as_of, snapshots, ledger; derive; upsert row by row; gates | a training label is a disappearance that was observed; a label is what its own day's snapshots give; reruns agree |
| Partition maintenance | `pulse/partitions.py`, `scripts/ensure-partitions.py` | partitions of `stop_events` | create missing months | every row has a home, the default partition stays empty |
| Partition swap | migration 004, `scripts/migrate.py` | `stop_events`, `stop_events_new`, `schema_migrations` | bulk copy, catch-up, counted swap | no row lost beside live writers |
| Feature build | `pulse/features.py`, `scripts/build-features.py`, `scripts/verify-point-in-time.py`, migration 006 | `features_trip_stop` | one upsert over a window | point-in-time, in step with the labels |
| Status publisher | `scripts/publish-status.py`, `d1/schema.sql` | D1 tables `snapshots`, `gaps` | compute, replace, prune, push | the public gap ledger equals the private one; pruning keeps the newest |
| Training split, metrics | `pulse/train.py`, `pulse/metrics.py`, `scripts/train.py` | none | split, score, choose a threshold, report the data regime | no timestamp on both sides; the numbers do not move between runs; the two searches over a curve agree |
| Health check, backup, install | `scripts/check.py`, `backup-stop-events.py`, `install-launchd.sh` | none | read and print, pg_dump, launchctl | I/O only |

The parts never call one another across processes: they meet in Postgres. The
poller is a short-lived process that launchd starts; the builds are commands an
operator starts while the poller runs; the publisher is a second launchd job.
All connections are autocommit, so each statement sees its own snapshot of the
tables: the hard behaviours are cycles that commit between two statements of a
build, processes killed between two writes, ledger writes that get lost, and
times (ledger keys, as_of, windows) compared at their boundaries.

## Modules

Each part has a module of its own; where parts interact one module extends the
other (`Pulse` extends `Poller` extends `GapLedger`, `Grain` extends `Contract`,
`Training` extends `Features`) or states that it implements it (`PartitionSwap`
against `EventTable`, `Poller` against `CycleLedger`, `Fetch` against `BatchRead`).

**GapLedger.tla** is the closing rule of `pulse/labels.py` as pure operators:
`compute_gap_intervals` (an errored cycle is a point, two consecutive rows
further apart than `GapThreshold` are a stretch), `gap_abuts` (closed overlap
with the settle window), `is_settled`, and the precedence of `closed_reason`.
Times are naturals; the defaults of 100 s and 198 s become the constants
`GapThreshold <= SettleMargin`. SQL NULL in `closed_reason` is "normal".

**Poller.tla** is `main` and `run_cycle`. `pc` walks idle, connect, batch, fetch,
record. `started_at`, `polled_at` and the two tables are the code's; `errors`
keeps only whether the list is non-empty, which is all that anything reads.
Every `except` of the code is an action: `ConnectFails`, `ConnectExhausted`
(row keyed by `started_at`), `BatchFails`, `CycleRaises`; `_record_run` may fail
and then leaves only stderr; `CycleRaises` stands for whatever raises before the
row is written (the handler would also catch a failure to print the summary after
it, and then write a second row; a buffered print of one line does not fail there,
and it is left out); `Crash` kills the process at any point. A fetch
finds any subset of the batch's trip-stops; `truncated` stands for the page cap
and the contract, `SilentDrop` for the two ways a prediction is lost with no
error. `absent` is a history variable: it remembers which complete reads did
not contain a trip-stop, and no action reads it.

**CycleLedger.tla** is what a poller promises those who read its tables through
the ledger: a history of atomic cycles. One step adds a ledger row together with
everything stored or read as absent since the row before, all of it later than
that row, and an error-free row is a complete cycle. `CyclesAreAtomic` in
`Poller` is the refinement; its mapping, `UpToLatestRun`, cuts both tables off at
the ledger's latest row. Rows of a cycle that never got its ledger row (a kill, a
failed ledger write) belong to the abstract cycle that is recorded next.

**Pulse.tla** composes the poller with the label build. The three statements of
`run_build` (`StartBuild`, `FetchTouchedGroups`, `FetchPollRuns`) are separate
actions between which the poller moves freely; `UpsertLabel` writes one row, in
any order, and `BuildCrash` stops anywhere. The upsert's driver may send the
rows as one implicit transaction; writing them one by one allows everything
that allows. Builds follow one another. Labels carry two history fields (`as_of`, `anchored`) for the
properties; no action reads them. A (trip, stop) pair of one service date is one
model value. `_regime` is the paragraph `scripts/train.py` prints about the data
its labels came from, read from the poller's tables while the poller goes on.

**Contract.tla** is one page of `/predictions` on its way to the table, as pure
operators: every clause of `contracts/mbta-predictions.v1.json` and the
validator (with what it raises on itself, `Unreadable`), then `map_rows` (with
what it raises on, `Raises`), `_prefilter`, and what the upsert raises on
(`Refused`). A field holds Missing, Null, a value the contract names, Mistyped
(another scalar), Nested (a list or object in its place) or Unreal: text of the
right type that nothing can be made of, be it a time that begins like one and
names no instant, or an id with a character Postgres does not store. Of the
top-level fields only the presence is checked, so `id` and `attributes` may be
anything that is there. A relationship is an object or null, a page's resources
are objects.

**Grain.tla** composes that with `stop_events` and the label build, at the grain
of a label: one per trip, stop and GTFS service date. A cycle is one page and a
build one step here; what happens between their steps is the business of
`Poller`, `Fetch` and `Pulse`. `LocalHour` is the Eastern wall clock as any
function from instants to hours, so both clock changes are covered.
`gtfs_service_date` is the SQL rule each snapshot is grouped by and
`service_date_norm` the Python rule the label is keyed by. The aggregates of
`_TOUCHED_GROUPS_SQL` are taken over the whole group, whatever the window.

**EventTable.tla** is the abstract table: ids from a sequence, rows that appear
when their transaction commits and never go away. **PartitionSwap.tla** is
migration 004 and `scripts/migrate.py` beside live writers, one action per
statement: `BulkCopy`, `CountOld`, `CheckCopy` (phase A), `LockTable`, `CatchUp`,
`Swap` (phase B). `heap` holds the committed rows of the old and the new
relation and `stop_events` says which of them has the name. How much of an
aborted attempt survives depends on how the file is sent (one string is one
transaction, `psql` commits phase A on its own): `kept` is whatever an abort
leaves, and `BulkCopy` chooses. A commit after `LOCK` is impossible because the
lock waits for open transactions. The refinement `Table == INSTANCE EventTable
WITH rows <- heap[stop_events]` is the file's zero-row-loss promise.

**Partitions.tla** is `ensure_partitions`, called by every cycle and by an
operator's script. Months are naturals. `CheckExists` and `CreatePartition` are
two statements; `CreateRefused` is Postgres' own rule that a partition cannot be
attached while the default one holds its rows; `StoreRows` routes a cycle's
rows. A row in `default_rows` remembers how its cycle's call ended.

**Publish.tla** is `scripts/publish-status.py`. `compute_gaps` and `UpsertGaps`
are its gap derivation and its INSERT OR REPLACE; `median_cadence2` is twice the
median (`percentile_cont` may fall between two values). A run reads the cadence
(`ComputeSnapshot`) and the ledger (`ReadLedger`) in two statements and then
pushes. D1 is external: `PushStops` applies a prefix of the statements,
`PushApplied` all of them, whether or not an answer arrives. `applied` is a
history variable. A ledger row whose cycle could not run is keyed by
`started_at`, as `poll.py` does. The figures of a snapshot and the wording of a
reason are left out. `published_at` has the grain of a minute, so two pushes of
one minute share a row of `snapshots`; `pushed` is a history variable.

**Fetch.tla** is `fetch_predictions` with `_get_with_retry` for one batch. The
API's collection (external) changes between two pages: a prediction appears at
any place or goes away, and those that stay keep their order. `slept` adds up
the back-offs. `stable` and `removed` are history variables: the predictions
that were there throughout, and how many went away. **BatchRead.tla** is what
`run_cycle` takes a fetch for, and the step `Poller` models: one answer, whole or
not at all. `FetchIsOneRead` is the refinement; its mapping shows nothing of the
pages until the fetch returns or raises. What a batch that reports nothing lacks is
paid for by predictions that went away while it was read, so `SilentDrop = FALSE`
in `Poller` says of the client that nothing goes away between two pages
(`UnmovedFeedIsReadWhole`).

**Features.tla** is `build_features` over the training view. `labels` is
`trip_stop_labels_training` as the delay of each usable label; two actions change
it, as the label build does: `LabelUsable` (a trip-stop closes as normal, or
closes again with another final prediction) and `LabelExcluded` (it closes again
beside a gap and leaves the view). `BuildFeatures(since, until)` is the one
INSERT ... ON CONFLICT DO UPDATE; being one statement it sees one state of the
labels. A rate is the exact fraction of late labels, NULL over none; the delay
carried along a trip is that of any of the latest earlier stops when several
share a minute, since the query orders by nothing else. The natural key is one
model value whose schedule is a constant: `labels.py` groups a trip-stop by
service date because one group then has one scheduled arrival. `current` is a
history variable: the rows none of whose labels changed since they were built.
The script `verify-point-in-time.py` is modelled the way it computes, by numbered
peer groups over the join and by counts of NULLs, so that its agreement with the
subqueries is a statement about two different computations. `hour_of_day` and
`day_of_week` follow from the schedule alone and are left out; the quality gates
and the `transform_runs` row only report.

**Training.tla** extends it with the training set of `scripts/train.py`, the
split and the baselines of `pulse/train.py` and the metrics of
`pulse/metrics.py`. A score is an exact fraction, and what is compared are counts:
two recalls of one set of rows share their denominator, and a precision is
compared by multiplying out. Real thresholds are the scores themselves, as in
sklearn's curve without its trailing point. Rows of one instant may come in any order here, a
superset of the order the query's natural-key tiebreak gives. `fraction` is the
exact floor; the code takes `int` of a floating product, which for some lengths
is one less (90 rows give 62). The proofs use only that it is an
integer.

`MC*.tla` modules only give the constants their values. A definition marked
*Mutated form* is a plausible bug of the definition below it; no specification
uses it, and each property of a passing run fails when the one named for it in
`PROJECT.json` takes its definition's place.

## Runs

| run | question | bounds |
|---|---|---|
| `poller` | is the ledger honest, final, a history of atomic cycles, does every step use up the cycle's allowance, and does every cycle end? | 2 batches, one trip-stop in each, 2 connect attempts, clock to 4 |
| `build_beside_poller` | do builds, default or with a given `--until` and `--as-of`, close only what was quiet, witnessed and final, and do rebuilds only advance? | 1 trip-stop, 1 batch, threshold 1, margin 2, clock to 5, until and as_of of 2 besides the defaults |
| `grain` | does a clean page reach the table, and is a label what its own day's snapshots give? | 1 trip-stop over two nights, 4 instants of 5 whose hours cross 3 AM, every field of a prediction and of a schedule spoiled in turn, 2 lower, 2 upper bounds and 2 as_of |
| `swap` | does the swap look like one table, what can fail its counts, and does a rerun complete it? | 2 writers, 4 ids |
| `partitions` | does the lookahead hold, is a default row ever silent? | 2 callers, lookahead 2, 3 months provisioned (the code's values), 6 months |
| `publish` | is everything derived on D1, is every gap there true however old, are the newest snapshots kept, does one push heal D1 for good, does D1 catch up? | 2 publishers, 3 ledger rows, pauses of 1 or 5, multiplier 1, a minute of 15, 1 snapshot kept |
| `features` | do rows stay correct beside label builds, do the script's checks agree, does the split cut between instants and reproduce, do the searches over a curve agree? | a trip of 3 stops and a stop of the next one in the same minute, one route-hour, 2 delays, 2 lower and 2 upper window bounds, 40 % for training |
| `fetch` | what can a clean fetch miss and sleep, is it one read for the cycle, does every step use up a GET, and does every fetch end? | 5 predictions, pages of 2, cap of 2 pages, 1 retry, 3 changes |
| `given_as_of`, `default_partition`, `key_collision`, `prior_stop` | a statement of the repository the code does not keep | see below |

Why the bounds are enough. *Builds*: what can go wrong needs a sighting, a quiet
stretch of `SettleMargin`, a row after it and a build across them; with threshold
1 and margin 2 that fits in four cycles, and the clock bound of 5 leaves an
instant for a cycle that lands during the build. The bounds are `MaxTime` (the
clock) and the sets of window values. *Swap*: a lost row needs one copied row,
one committed late below the watermark and one above it; `MaxId` = 4 leaves one
more. *Partitions*: `LastMonth` = 5 is three months past the provisioned ones.
*Publish*: two publishers with three rows (`MaxRuns`) can hold two derivations
that disagree; a multiplier of 1 lets three rows form a timing gap, which the
code's 3 (used in `key_collision`, with 4 rows) needs more rows for; a `Minute`
of 15 lets pushes share a snapshot row or not, and with `MaxSnapshots` = 1 the
second row already prunes. *Grain*: the hours 1, 2 and 3 AM of one night and 2 AM
and 3 AM of the next are what the rule can get wrong; with schedules at either
side, and snapshots without one, a group of two snapshots mixes all the anchors
there are. *Fetch*: a page
boundary has to be crossed by removals and arrivals in one fetch; `MaxChanges`
bounds them, `MaxSlept` the seconds counted, far above what the property allows.
*Features*: two labels of one minute, one before and one after them are what a
strict `<`, a peer group and a cut between instants can get wrong; windows that
end or start at the minute they share let rows be built apart. With
`TrainPercent` = 40 the first row of four is for training, so the test part has
three, enough for thresholds that differ in recall. The theorems below lift
these bounds where they are stated.

Deadlock checking is off in `poller` (the clock stops at `MaxTime`), in `swap`
(ids run out after the swap is done) and in `fetch` (a fetch that ended is over). Everywhere else it is on.

Fairness:

* `PollerSpec`, `WF(PollerStep)`: a started process keeps running. Each connect
  has a 10 s timeout and an attempt count, each GET a 20 s timeout and a retry
  count, and each loop is bounded. Nothing is assumed of launchd, the clock or an
  operator. A statement that Postgres never answers is outside this (the code
  sets no statement timeout).
* `FairSwapSpec`: the operator runs `migrate.py` again after a failure, Postgres
  works its statements off, and a writer ends the transactions it opens.
  `RerunCompletes` further supposes that crashes cease; ids are bounded, so
  inserts do. With writers that never pause, phase A's check can fail for ever.
* `FairPublishSpec`: launchd starts the job every 300 s, a started run ends
  (wrangler is killed after 60 s), and for the job, though not for the manual
  run, each of its steps succeeds again and again (strong fairness), because a
  failed run leaves nothing behind that would make the next one fail. Ledger rows
  stop at `MaxRuns`: D1 is compared with the ledger once cycles pause.
* `FetchSpec`, `WF(Fetching)`: a request answers or times out, a sleep ends.

## What is proved

The theorems hold for every value of the constants.

* `PollerProofs`: `PollerTypeCorrect`; `LedgerSealsCycles` by the invariant
  `TagOrder` (every tag in either table is at most the cycle's own, and while a
  cycle runs its tag is above every ledger row); `ErrorFreeRowsAreComplete` by
  `BatchesCovered` (while `errors` is FALSE every batch before `batch` is
  accounted for under `polled_at`), assuming `SilentDrop = FALSE`;
  `PollerImplementsLedger`, the refinement of `CycleLedger`: by `TagOrder` a step
  that adds no ledger row changes nothing up to the latest one (a stutter), and
  one that adds a row adds everything since at once. `CyclesAlwaysRunDown`:
  `StepsLeft`, what the attempts and batches leave to a cycle, drops with every
  step the process takes and with no other. `AtomicCyclesAreHonest` uses nothing
  of the poller: the abstract ledger alone gives a reader complete error-free rows.
* `PulseProofs`: `TypeCorrect`, `SettledLabelsAreQuiet`, `VerdictsNeverChange`
  and `CleanLabelsAreWitnessed`. The inductive invariant adds `BuildOrder` to
  the poller's: a default as_of is a ledger tag, so by `LedgerSealsCycles` no
  snapshot at or before it can arrive after the build read it. That single fact
  is why three unsynchronised reads are sound with the default as_of, and why
  they are not with a given one. `RegimeAlwaysReproduces`: the last span of
  labels built with a default as_of lies `SettleMargin` before a ledger row, so
  what the poller writes is later than all that `_regime` reads.
  `LabelsAlwaysAdvance`, for any window and as_of, by `RebuildsAdvance`: a build holds
  one group and then one row for each trip-stop, none of them behind the label it is
  going to replace. The groups carry their latest sighting at the time of the read,
  which no label can be ahead of; a reason that was final stays because the rows
  the ledger has gained since are beyond the settle window. This leans on builds
  that do not overlap, as they are modelled.
  `CyclesStayAtomicBesideBuilds` composes: no step of a build touches the tables,
  so the poller beside it still implements `CycleLedger`. The module begins with
  facts about the closing rule alone. `AppendKeepsVerdict`: a row later than the
  ledger's last, itself beyond the settle window, cannot add an interval that
  overlaps the window. `CleanWindow`: if no interval abuts and the ledger has rows
  on both sides, the window's rows are error-free and the first comes within the
  threshold.
* `GrainProofs`: `GrainTypeCorrect`, `CleanPagesAreMapped` and
  `LabelsReproducible`. `CleanFields` lists what a passed contract says of each
  field; every `NOT NULL` column, every parse of `map_rows` and every text of the
  upsert is then accounted for, and what is left is `Unvouched`
  (`OnlyUnvouchedRaises`, `OnlyUnvouchedRefused`). `DateRulesAgree`: the SQL rule
  (subtract three hours, take the date) and the Python rule (hours before three
  belong to the day before) are one function of the wall clock.
  `LabelHasItsGroup` builds on it: a label's date is the date of its
  group whether or not its schedule came with its first snapshot, because the
  group's schedule is itself the anchor of a snapshot in the group. The proof
  needs nothing of the feed: not one schedule per trip-stop and day, nor
  schedules that never change.
* `PartitionSwapProofs`: `SwapLosesNothing`, the refinement of `EventTable`. The
  invariant `CopyIsPart` says that before the swap the new relation only holds
  rows of the old one. With it the exact count under the lock is enough: a part
  of a finite set with as many members is the set (`SameCount`), so the rename
  is a stutter of the abstract table. The catch-up's watermark plays no part in
  the proof: it may miss rows, the count then refuses the swap.
  `OnlyCommitsEverFailTheCounts` is why running it again helps: the bulk copy makes
  the two relations equal whatever part of an earlier copy it finds, and they stay
  equal (`CopyIsExact`) up to the renames unless somebody commits.
  `CommittedRowsAlwaysStay` follows from the refinement alone.
* `PartitionsProofs`: `LookaheadAlwaysHolds` and `DefaultRowsAlwaysReported` by
  `PassedMonthsExist`: every month from a caller's `today` up to its `target` has
  a partition, whichever caller created it, and none is ever dropped.
* `PublishProofs`: `DerivedGapsAlwaysPublished`. The ledger's rows do not overlap
  (`InOrder`), so keys grow with the row but for a failed cycle and the timing gap
  behind it; the last row of a key therefore stays on D1 (`LastOfKeyStays`), and
  every derived row is the last of its key or a failed cycle that is `Shadowed`.
  `NewestSnapshotsAlwaysKept`: what the pruning deletes is older than
  `MaxSnapshots` rows it leaves (`PruneKeepsNewest`), and a row added later only
  adds to those. `GapsAreAlwaysTrue`: what a publisher has read is the beginning of
  the ledger (`ReadFrom`), a gap derived from a beginning is true of the whole
  (`DerivedIsTrue`), and rows recorded later lie after its end (`TrueStays`), so
  nothing is lost by never deleting a gap. `PushesAlwaysHealForGood`: fresh readings of a ledger that stands
  still all derive the same gaps, so a push replaces rows of the ledger only with
  themselves, and what else is on D1 has other keys (`UpToDateStep`, `HealedStep`).
* `FeaturesProofs`: `RowsAlwaysStayCorrect` by `UnreadLabels`: a label that is
  not earlier than a row, or shares neither its route-hour, stop nor trip, leaves
  every subquery of the row as it was, so an upsert never has to be undone by a
  later label. `VerificationAlwaysPasses`: peer groups number the instants of a
  bucket in order (`PeersAreInOrder`, by the cardinalities of nested sets), so the
  frame up to the previous group is the set of strictly earlier labels; on a
  table built over the whole view that set is what the subquery read.
  `TrainAlwaysBeforeTest` and `SplitAlwaysReproducible`, for any tie order and any
  fraction: two orderings of the training set have rows of the same instant at
  every place (`SamePlaceSameInstant`, a counting argument), and the train part is
  everything up to the instant at the cut. `ThresholdAlwaysGivesTheRecall`: a
  lower threshold predicts a superset (`AtLeastOrders` is transitivity of the
  cross-multiplied order), so the lowest eligible one finds the most late rows.
  `OracleAlwaysAnUpperBound`: a threshold from elsewhere predicts what some score
  of the test rows predicts (`ThresholdIsAScore`, the least score above it), so the
  oracle has searched it. `FeaturesTypeCorrect` is the type invariant.
* `FetchProofs`: `FetchTypeCorrect`, `MissedAlwaysAtMostRemoved`,
  `BackoffAlwaysBounded` and `UnmovedFeedIsReadWhole`. `MissedAtMostRemoved` speaks
  of the end alone; the inductive invariant counts `Passed`, the lasting predictions that now stand
  before the offset unread. An arrival moves none there (`AppearStep`), a removal
  at most the one at the page boundary (`DisappearStep`, which is also a removal
  counted), a merged page leaves none unread behind it (`UnreadAfterMerge`), and
  with no next page whatever is unread has passed. The back-off so far is at most
  one longest back-off for each attempt the pages up to this one allow.
  `RequestsAlwaysRunDown`: `RequestsLeft` drops with every step of the fetch and with
  no change of the collection. `FetchImplementsRead`, the refinement of `BatchRead`:
  another page or attempt is a stutter (`GoingOnIsSilent`), the end is the landing by
  the invariant above (`EndIsLanding`), and `Raise`, which drops what was merged, is
  the failing one.

Only model-checked: the liveness properties (`CycleEnds`, `RerunCompletes`,
`PublishHeals`, `FetchEnds`), since fairness rests on ENABLED, which the prover does
not reason about, and the runs that find a violation. Of each liveness argument
the part that is about steps is a theorem: the measures that `CyclesRunDown` and
`RequestsRunDown` state leave a fair process nothing to do but end,
`OnlyCommitsFailTheCounts` leaves an undisturbed rerun nothing to fail on, and
`PushesHealForGood` makes one fresh push enough. What stays with TLC is that a fair
process is never stuck before that.

## Where the documents disagree with the code

Four of these are runs that must find the violation.

* `given_as_of`: `labels.py:443-445` calls the choice of as_of safe because the
  gap check protects; with the clock as as_of and a poller that stopped, there
  is no later row and so no interval.
* `default_partition`: `partitions.py:8-10` keeps the default partition for rare
  stragglers; once one cycle of a month has stored rows there the month's
  partition can no longer be created, and every later cycle of it follows.
* `key_collision`: `publish-status.py:24-26` relies on full timestamps for
  distinct keys; a failed cycle is keyed by `started_at`, where the timing gap
  behind it starts as well, and the failed cycle's error is replaced.
* `prior_stop`: migration 006 (lines 31-33) says the persistence feature is NULL
  when the prior stop's own label is not training-usable; the subquery reads the
  training view, where that stop is not a row, and carries the delay of the stop
  before it.

Others met while modelling, without a run of their own:

* The header of migration 004 (lines 27-29) allows for rows that land after the
  copy, but its comparison (lines 165-173) goes the other way: the *old* count is
  taken after the copy, so exactly those rows make `new_count < old_count` and
  abort the migration (`CheckCopy` in `PartitionSwap`). It aborts safely and
  succeeds on a rerun that meets no commit in between.
* `contract.py:14` lists violations "rather than raising". An `attributes` that is
  a number or a flag, or `relationships` that is no object, raises inside the
  validator and fails the whole batch (`Unreadable`), which `poll.py` records like
  any other failed batch. So do a resource or a single relationship that is no
  object, and an `attributes` list or text that holds a field's name; these are
  outside the pages of `Contract`.
* The contract describes "the exact fields `map_rows` reads"
  (`mbta-predictions.v1.json:4`), and a page that passes it can still fail its
  whole batch, in the four ways `Unvouched` lists and, by `CleanPagesAreMapped`, in
  no other. (1) A schedule's `id` that is a list or an object: the contract asks
  only that it is there (`contract.py:101-103`), `map_rows` indexes a dictionary by
  it (`mbta.py:257-259`). (2) A joined schedule whose `attributes` is a list or
  text: no attribute of a schedule is required, so nothing is missing. (3) A time or
  date that is none, such as month 13: the patterns look at the shape. (4) An id or
  a status with a character Postgres does not store (NUL, half a surrogate pair):
  any string passes.
* Two predictions of one trip and stop on one page (a loop line) are two rows of
  one key; `ON CONFLICT DO NOTHING` keeps the first sent (`OnePerTripStop`).
* `labels.py:167-169` says a later build picks up a group that was not settled;
  only one whose window touches one of its snapshots does.
* `labels.py:258-261` rests the agreement of the two date rules on two properties
  of the data; `DateRulesAgree` and `LabelsReproducible` need neither.
* The key of a label holds its last snapshot's route and direction. A trip whose
  route or direction changed between two builds leaves a second label of the same
  trip, stop and date; both still are what their own snapshots up to their last
  sighting give.

* `labels.py:12-14` counts any stretch without a ledger row as a gap; the code
  only looks between two rows, so nothing covers the time before the first
  (`WitnessedDisappearance` therefore asks for an earlier row).
* `docs/report.md:395` and `:445` say `--until` bounds the snapshots; it bounds
  only which groups are picked (`touched_groups` in `Pulse`).
* `labels.py:71-73` says one missing cycle is reliably caught; rows are stamped
  after the connect retries, so the two neighbours of a missing cycle can be
  closer than the threshold (a label next to it still had a complete cycle
  within the threshold, which is what `WitnessedDisappearance` says).
* `poll.py:122-123` says the error is set whenever coverage is short; rows
  without a route, and predictions shifted across a page, are lost with no error.
  With `SilentDrop = FALSE` the statement is a theorem.
* `publish-status.py:43-46` says the two kinds of gap never double up for a row.
  That holds within one run; when the median drifts between two runs a timing gap
  becomes an error gap under another key and the older one is never deleted. Both
  are true of the ledger (`GapsAreTrue`).
* `is_settled` (`labels.py:174`) accepts an as_of exactly `SettleMargin` after the
  last sighting, and the window compared with the intervals is closed: the row
  after as_of may still open an interval that touches the window's end, and a
  rebuild then closes the label as gap-abutted. `VerdictsAreFinal` is stated for
  windows that end before as_of; `WitnessedDisappearance` has no such exception.
* `mbta.py:41-45` puts the worst case of one batch's back-offs at 60 s, within the
  cycle's deadline of 240 s; each page of a batch has its own allowance, as lines
  36-37 say, so five pages may sleep 300 s, and the deadline is looked at between
  batches only. `BackoffIsBounded` states the bound that does hold.
* `features.py:40-43` takes "most recent earlier scheduled arrival" for the previous
  stop; schedules are minutes, so two stops of a trip may share one and the first
  of them is then skipped (an earlier stop's delay is carried), or either of two
  earlier ones may be taken.
* `docs/lineage.md:118` and migration 006 line 1 give features one row per
  training-usable label. No statement deletes a row, so a label that a later build
  excludes leaves its row behind; the script's `null_arithmetic` then counts it,
  which is why `VerificationPasses` asks that there is none.
* The third check of `verify-point-in-time.py` (lines 87-102) takes its contributors
  from the frame and not from what was stored: it holds for any feature table.

## Plan

Done: the poller, its ledger, and the abstract ledger of cycles it implements; the
label build beside it, and the grain of a label from the feed's page to its key;
the contract; the partition swap and its abstract table; partition maintenance;
the publisher with its pruning; the predictions client and the one read it is
to the cycle; the feature build with its
verification script; the split, the baselines and the metrics. Every invariant,
action property and refinement a passing run checks is a theorem as well.

Next, by what a wrong behaviour would cost:

1. Two overlapping label builds: one operator starts them today and nothing in the
   code keeps a second one out. The upsert is unconditional, so the build that read
   first may write last; `LabelsOnlyAdvance` says what that would have to be checked
   against.
2. Origin stops in the build's run (`OriginStops` is empty there to keep it small;
   the theorems hold for any).

## Not modelled

* The quality gates of the two builds and their `transform_runs` rows: they count
  what was just written, and nothing reads their verdict back.
* The health check (`scripts/check.py`): four queries, printed.
* Model fitting, PR-AUC and ROC-AUC (numeric library code), MLflow, the registry
  file and the rendered report: no state another part reads.
* `backup-stop-events.py` and `install-launchd.sh`: one `pg_dump` and a few
  `launchctl` calls, I/O without state of their own. The restart behaviour the
  plists ask of launchd is in `Poller` and `Publish`.
* Statements that Postgres never answers, and clocks that run backwards.
