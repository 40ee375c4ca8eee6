------------------------------- MODULE Poller -------------------------------
(***************************************************************************)
(* One poll cycle after another (pulse/poll.py main, run_cycle), started   *)
(* by launchd, against the two tables it writes: stop_events (snapshots)   *)
(* and poll_runs (the ledger).                                             *)
(*                                                                         *)
(* Every statement sent to Postgres and every fetch may fail, the process  *)
(* may be killed between any two steps, and time passes wherever the code  *)
(* waits (connect retries, HTTP, back-off, sleeps, the laptop's lid).      *)
(*                                                                         *)
(* The feed is the environment: each fetch finds any set of the batch's    *)
(* trip-stops predicted.  A page-cap hit and a page dropped for a contract *)
(* violation lose rows and are recorded in errors.  SilentDrop says        *)
(* whether the feed may also send a prediction that is lost with no error  *)
(* recorded: one whose route relationship is null (the contract allows it, *)
(* _prefilter drops it), or one that shifts across a page boundary         *)
(* between two GETs.                                                       *)
(*                                                                         *)
(* absent is a history variable, not a table: a row says that the cycle    *)
(* tagged polled_at read the whole batch and the trip-stop was not in it.  *)
(***************************************************************************)
EXTENDS GapLedger

CONSTANTS
  TripStops,        \* the (trip_id, stop_id) pairs of one service date
  NumBatches,       \* len(BATCH_SIZES)
  BatchOf,          \* the batch whose routes carry the trip-stop
  StartInterval,    \* launchd's StartInterval
  CycleDeadline,    \* CYCLE_DEADLINE_SECONDS
  ConnectAttempts,  \* DB_CONNECT_ATTEMPTS
  SilentDrop,       \* may the feed lose a prediction without an error?
  MaxTime           \* bound: the last instant of the behaviours explored

ASSUME PollerAssumption ==
  /\ NumBatches \in Nat \ {0}
  /\ BatchOf \in [TripStops -> 1 .. NumBatches]
  /\ StartInterval \in Nat \ {0}
  /\ CycleDeadline \in Nat
  /\ ConnectAttempts \in Nat \ {0}
  /\ SilentDrop \in BOOLEAN
  /\ MaxTime \in Nat

VARIABLES
  now,          \* the wall clock
  pc,           \* where the poller process stands
  started_at,   \* main's started_at; kept after the cycle for launchd's spacing
  polled_at,    \* run_cycle's polled_at, the tag of the cycle's snapshots
  attempt,      \* attempt number of _connect_with_retry
  batch,        \* index of the batch run_cycle is at
  errors,       \* is the list errors non-empty?
  stop_events,  \* table: which trip-stop was predicted in which cycle
  poll_runs,    \* table: the ledger
  absent        \* history: batches read in full without the trip-stop

cycleVars == <<started_at, polled_at, attempt, batch, errors>>
tables == <<stop_events, poll_runs>>
pollerVars == <<now, pc, cycleVars, tables, absent>>

Sighting == [trip_stop : TripStops, polled_at : Nat]
Run == [polled_at : Nat, error : BOOLEAN]

PollerInit ==
  /\ now = StartInterval
  /\ pc = "idle"
  /\ started_at = 0
  /\ polled_at = 0
  /\ attempt = 0
  /\ batch = 0
  /\ errors = FALSE
  /\ stop_events = {}
  /\ poll_runs = {}
  /\ absent = {}

-----------------------------------------------------------------------------
(* Time passes up to the bound. *)
Tick ==
  /\ now < MaxTime
  /\ now' = now + 1
  /\ UNCHANGED <<pc, cycleVars, tables, absent>>

(* launchd never runs two instances of a job; timestamps have microseconds, *)
(* so a new cycle never shares its tag with the last one.                   *)
LaunchdStart ==
  /\ pc = "idle"
  /\ now >= started_at + StartInterval
  /\ now > polled_at
  /\ pc' = "connect"
  /\ started_at' = now
  /\ attempt' = 1
  /\ UNCHANGED <<now, polled_at, batch, errors, tables, absent>>

EndOfCycle ==
  /\ pc' = "idle"
  /\ attempt' = 0
  /\ batch' = 0
  /\ errors' = FALSE
  /\ UNCHANGED <<now, started_at, polled_at>>

(* insert_poll_run: ON CONFLICT (polled_at) DO NOTHING. *)
InsertPollRun(tag, error) ==
  poll_runs' = IF \E r \in poll_runs : r.polled_at = tag
                 THEN poll_runs
                 ELSE poll_runs \cup {[polled_at |-> tag, error |-> error]}

(* Best effort: the write may fail, and then only stderr has the cycle. *)
_record_run(tag, error) ==
  InsertPollRun(tag, error) \/ UNCHANGED poll_runs

(* Mutated forms: one attempt too many; a loop that does not count. *)
ConnectFailsOnceMore ==
  /\ pc = "connect"
  /\ attempt <= ConnectAttempts
  /\ attempt' = attempt + 1
  /\ UNCHANGED <<now, pc, started_at, polled_at, batch, errors, tables, absent>>

ConnectRetriesForEver ==
  /\ pc = "connect"
  /\ attempt' = (attempt % ConnectAttempts) + 1
  /\ UNCHANGED <<now, pc, started_at, polled_at, batch, errors, tables, absent>>

(* One attempt of _connect_with_retry fails and another is left. *)
ConnectFails ==
  /\ pc = "connect"
  /\ attempt < ConnectAttempts
  /\ attempt' = attempt + 1
  /\ UNCHANGED <<now, pc, started_at, polled_at, batch, errors, tables, absent>>

(* The last attempt fails: one more connection, only to write the row, *)
(* keyed by started_at because no polled_at was ever taken.            *)
ConnectExhausted ==
  /\ pc = "connect"
  /\ attempt = ConnectAttempts
  /\ _record_run(started_at, TRUE)
  /\ EndOfCycle
  /\ UNCHANGED <<stop_events, absent>>

(* Connected; run_cycle takes polled_at and calls ensure_partitions, whose *)
(* failure is folded into errors.                                          *)
BeginCycle ==
  /\ pc = "connect"
  /\ pc' = "batch"
  /\ polled_at' = now
  /\ attempt' = 0
  /\ batch' = 1
  /\ errors' \in BOOLEAN
  /\ UNCHANGED <<now, started_at, tables, absent>>

-----------------------------------------------------------------------------
(* Mutated form: the abort is logged but not folded into errors. *)
DeadlineOnlyLogged ==
  /\ pc = "batch"
  /\ now - polled_at > CycleDeadline
  /\ pc' = "record"
  /\ UNCHANGED <<now, cycleVars, tables, absent>>

(* The top of run_cycle's loop: the deadline is checked between batches *)
(* only, on the time elapsed since the cycle began.                     *)
DeadlineExceeded ==
  /\ pc = "batch"
  /\ now - polled_at > CycleDeadline
  /\ pc' = "record"
  /\ errors' = TRUE
  /\ UNCHANGED <<now, started_at, polled_at, attempt, batch, tables, absent>>

(* Mutated form: the ledger row is written before the batches run. *)
RecordedBeforeBatch ==
  /\ pc = "batch"
  /\ now - polled_at <= CycleDeadline
  /\ pc' = "fetch"
  /\ _record_run(polled_at, errors)
  /\ UNCHANGED <<now, cycleVars, stop_events, absent>>

StartBatch ==
  /\ pc = "batch"
  /\ now - polled_at <= CycleDeadline
  /\ pc' = "fetch"
  /\ UNCHANGED <<now, cycleVars, tables, absent>>

TripStopsOf(b) == {t \in TripStops : BatchOf[t] = b}

Sightings(trip_stops) ==
  {[trip_stop |-> t, polled_at |-> polled_at] : t \in trip_stops}

NextBatch ==
  /\ pc' = IF batch = NumBatches THEN "record" ELSE "batch"
  /\ batch' = IF batch = NumBatches THEN batch ELSE batch + 1
  /\ UNCHANGED <<now, started_at, polled_at, attempt>>

(* fetch_predictions returns and the upsert's transaction commits: present *)
(* is what the feed predicted, usable what reached the upsert, truncated   *)
(* whether the page cap or a contract violation was recorded on the way.   *)
BatchLands ==
  /\ pc = "fetch"
  /\ \E present \in SUBSET TripStopsOf(batch), truncated \in BOOLEAN :
       \E usable \in SUBSET present :
         /\ usable # present => truncated \/ SilentDrop
         /\ stop_events' = stop_events \cup Sightings(usable)
         /\ errors' = (errors \/ truncated)
         /\ absent' = IF truncated
                        THEN absent
                        ELSE absent \cup Sightings(TripStopsOf(batch) \ present)
  /\ NextBatch
  /\ UNCHANGED poll_runs

(* The fetch or the upsert raises.  A transaction whose commit was applied *)
(* but whose answer was lost raises too, so rows may be there.             *)
BatchFails ==
  /\ pc = "fetch"
  /\ \E committed \in SUBSET TripStopsOf(batch) :
       stop_events' = stop_events \cup Sightings(committed)
  /\ errors' = TRUE
  /\ NextBatch
  /\ UNCHANGED <<poll_runs, absent>>

-----------------------------------------------------------------------------
(* main, after run_cycle returned. *)
RecordRun ==
  /\ pc = "record"
  /\ _record_run(polled_at, errors)
  /\ EndOfCycle
  /\ UNCHANGED <<stop_events, absent>>

(* main's last handler: an exception no batch caught; the row is keyed by *)
(* started_at again, whatever the cycle already stored under polled_at.   *)
CycleRaises ==
  /\ pc = "batch"
  /\ _record_run(started_at, TRUE)
  /\ EndOfCycle
  /\ UNCHANGED <<stop_events, absent>>

(* The process is killed: no handler runs and no row is written. *)
Crash ==
  /\ pc # "idle"
  /\ EndOfCycle
  /\ UNCHANGED <<tables, absent>>

PollerStep ==
  \/ ConnectFails
  \/ ConnectExhausted
  \/ BeginCycle
  \/ DeadlineExceeded
  \/ StartBatch
  \/ BatchLands
  \/ BatchFails
  \/ RecordRun
  \/ CycleRaises

PollerNext ==
  \/ Tick
  \/ LaunchdStart
  \/ Crash
  \/ PollerStep

(* Connecting, every GET and every retry is bounded by a timeout or a count, *)
(* so a started cycle keeps making progress; nothing is assumed of launchd.  *)
PollerSpec == PollerInit /\ [][PollerNext]_pollerVars /\ WF_pollerVars(PollerStep)

-----------------------------------------------------------------------------
PollerTypeOK ==
  /\ now \in Nat
  /\ pc \in {"idle", "connect", "batch", "fetch", "record"}
  /\ started_at \in Nat
  /\ polled_at \in Nat
  /\ attempt \in 0 .. ConnectAttempts
  /\ batch \in 0 .. NumBatches
  /\ errors \in BOOLEAN
  /\ stop_events \subseteq Sighting
  /\ poll_runs \subseteq Run
  /\ absent \subseteq Sighting

Seen(t, tag) == [trip_stop |-> t, polled_at |-> tag] \in stop_events
ReadAsAbsent(t, tag) == [trip_stop |-> t, polled_at |-> tag] \in absent

(* run_cycle's promise (its docstring): a ledger row without an error means *)
(* that the whole cycle was covered.  Every trip-stop was either stored     *)
(* under the row's tag, or read as absent from a batch fetched in full,     *)
(* whatever failed, was truncated or was skipped on the way.                *)
ErrorFreeMeansComplete ==
  \A r \in poll_runs : ~r.error =>
    \A t \in TripStops : Seen(t, r.polled_at) \/ ReadAsAbsent(t, r.polled_at)

(* A cycle in the ledger is final: once its row is written, no later step *)
(* of any cycle stores a snapshot at or before that row's tag, and the    *)
(* row is not rewritten.  Label builds read the two tables in separate    *)
(* statements and rely on it.                                             *)
RecordedCyclesAreFinal ==
  [][ /\ poll_runs \subseteq poll_runs'
      /\ \A s \in stop_events' \ stop_events :
           \A r \in poll_runs : r.polled_at < s.polled_at ]_pollerVars

(* What a reader who goes by the ledger sees of a table. *)
UpToLatestRun(table) == {s \in table : \E r \in poll_runs : s.polled_at <= r.polled_at}

Ledger ==
  INSTANCE CycleLedger WITH stop_events <- UpToLatestRun(stop_events),
                            absent <- UpToLatestRun(absent)

(* A cycle is a connection, an upsert per batch, and a ledger row that may  *)
(* be lost, keyed by either of two times, or written by a handler; it may   *)
(* fail, run out of time or be killed in between.  Read through the ledger  *)
(* it is nevertheless one step: its row and all it stored appear together,  *)
(* after everything older, and an error-free row is a complete cycle.       *)
CyclesAreAtomic == Ledger!LedgerSpec

(* Steps left to a started cycle at most: attempts to connect, two steps per *)
(* batch, the deadline's abort and the ledger row.                           *)
StepsLeft ==
  CASE pc = "idle"    -> 0
    [] pc = "record"  -> 1
    [] pc = "fetch"   -> 2 * (NumBatches - batch) + 2
    [] pc = "batch"   -> 2 * (NumBatches - batch) + 3
    [] pc = "connect" -> 2 * NumBatches + 2 + (ConnectAttempts - attempt)

(* Why a cycle ends: no step of a started cycle goes back to an attempt or a *)
(* batch it has left, however connecting, the batches and the ledger row     *)
(* fail, and the time that passes meanwhile takes nothing back.              *)
CyclesRunDown ==
  [][ pc # "idle" => IF now' > now
                       THEN StepsLeft' = StepsLeft
                       ELSE StepsLeft' < StepsLeft ]_pollerVars

(* A started cycle ends, by recording itself or by failing to: it cannot *)
(* hold launchd's slot for ever, so the next fire is not lost.           *)
CycleEnds == pc # "idle" ~> pc = "idle"
=============================================================================
