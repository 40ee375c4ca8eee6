---------------------------- MODULE PollerProofs ----------------------------
(***************************************************************************)
(* Proofs about the poller, for any number of batches and trip-stops, any  *)
(* deadline, spacing and number of connection attempts.                    *)
(***************************************************************************)
EXTENDS Poller, TLAPS

(* Tags only move forward: what is stored never carries a later tag than  *)
(* the current cycle's, and while a cycle runs the whole ledger is older  *)
(* than its start.                                                        *)
TagOrder ==
  /\ started_at <= now
  /\ polled_at <= now
  /\ pc = "connect" => polled_at < started_at
  /\ pc \in {"batch", "fetch", "record"} => started_at <= polled_at
  /\ \A s \in stop_events : s.polled_at <= polled_at
  /\ pc = "idle" =>
       \A r \in poll_runs : r.polled_at <= started_at \/ r.polled_at <= polled_at
  /\ pc # "idle" => \A r \in poll_runs : r.polled_at < started_at

Covered(t) == Seen(t, polled_at) \/ ReadAsAbsent(t, polled_at)

(* While no error has been noted, every batch passed is covered. *)
BatchesCovered ==
  /\ pc \in {"batch", "fetch"} => batch \in 1 .. NumBatches
  /\ pc \in {"batch", "fetch"} /\ ~errors =>
       \A t \in TripStops : BatchOf[t] < batch => Covered(t)
  /\ pc = "record" /\ ~errors => \A t \in TripStops : Covered(t)

-----------------------------------------------------------------------------
(* _record_run writes at most one row, with the given tag and error. *)
LEMMA RecordRunWrites ==
  ASSUME NEW tag, NEW error, _record_run(tag, error)
  PROVE  poll_runs' = poll_runs
         \/ poll_runs' = poll_runs \cup {[polled_at |-> tag, error |-> error]}
BY DEF _record_run, InsertPollRun

(* The poller's initial state is well typed. *)
LEMMA PollerTypeInit == PollerInit => PollerTypeOK
<1> SUFFICES ASSUME PollerInit PROVE PollerTypeOK
  OBVIOUS
<1>1. errors \in BOOLEAN
  BY DEF PollerInit
<1>2. now \in Nat /\ 0 \in 0 .. ConnectAttempts /\ 0 \in 0 .. NumBatches
  BY PollerAssumption DEF PollerInit
<1> QED
  BY <1>1, <1>2 DEF PollerInit, PollerTypeOK

(* Everything of the type invariant but the Boolean. *)
NumbersAndTables ==
  /\ now \in Nat
  /\ pc \in {"idle", "connect", "batch", "fetch", "record"}
  /\ started_at \in Nat
  /\ polled_at \in Nat
  /\ attempt \in 0 .. ConnectAttempts
  /\ batch \in 0 .. NumBatches
  /\ stop_events \subseteq Sighting
  /\ poll_runs \subseteq Run
  /\ absent \subseteq Sighting

(* Each poller step keeps the types. *)
LEMMA PollerTypeStep == PollerTypeOK /\ PollerNext => PollerTypeOK'
<1> SUFFICES ASSUME PollerTypeOK, PollerNext PROVE PollerTypeOK'
  OBVIOUS
<1> USE PollerAssumption
<1>a. errors' \in BOOLEAN
  BY Zenon DEF PollerTypeOK, PollerNext, PollerStep, Tick, LaunchdStart, Crash,
       ConnectFails, ConnectExhausted, BeginCycle, DeadlineExceeded, StartBatch,
       BatchLands, BatchFails, RecordRun, CycleRaises, EndOfCycle, NextBatch, cycleVars
<1>b. NumbersAndTables /\ errors \in BOOLEAN
  BY DEF PollerTypeOK, NumbersAndTables
<1>c. ASSUME NumbersAndTables' PROVE PollerTypeOK'
  BY <1>a, <1>c DEF PollerTypeOK, NumbersAndTables
<1>d. SUFFICES NumbersAndTables'
  BY <1>c
<1>e. ASSUME NEW tag \in Nat, NEW error \in BOOLEAN, _record_run(tag, error)
      PROVE  poll_runs' \subseteq Run
  <2>1. [polled_at |-> tag, error |-> error] \in Run
    BY Zenon DEF Run
  <2>2. poll_runs \subseteq Run
    BY <1>b DEF NumbersAndTables
  <2>3. \/ poll_runs' = poll_runs
        \/ poll_runs' = poll_runs \cup {[polled_at |-> tag, error |-> error]}
    BY <1>e, RecordRunWrites
  <2> QED
    BY <2>1, <2>2, <2>3
<1> USE <1>b DEF NumbersAndTables, cycleVars, tables
<1>1. CASE Tick
  BY <1>1 DEF Tick
<1>2. CASE LaunchdStart
  BY <1>2 DEF LaunchdStart
<1>3. CASE Crash
  BY <1>3 DEF Crash, EndOfCycle
<1>4. CASE ConnectFails
  BY <1>4 DEF ConnectFails
<1>5. CASE ConnectExhausted
  <2>1. poll_runs' \subseteq Run
    BY <1>5, <1>e DEF ConnectExhausted
  <2> QED
    BY <1>5, <2>1 DEF ConnectExhausted, EndOfCycle
<1>6. CASE BeginCycle
  BY <1>6 DEF BeginCycle
<1>7. CASE DeadlineExceeded
  BY <1>7 DEF DeadlineExceeded
<1>8. CASE StartBatch
  BY <1>8 DEF StartBatch
<1>9. CASE BatchLands
  BY <1>9 DEF BatchLands, NextBatch, TripStopsOf, Sightings, Sighting
<1>10. CASE BatchFails
  BY <1>10 DEF BatchFails, NextBatch, TripStopsOf, Sightings, Sighting
<1>11. CASE RecordRun
  <2>1. poll_runs' \subseteq Run
    BY <1>11, <1>e DEF RecordRun
  <2> QED
    BY <1>11, <2>1 DEF RecordRun, EndOfCycle
<1>12. CASE CycleRaises
  <2>1. poll_runs' \subseteq Run
    BY <1>12, <1>e DEF CycleRaises
  <2> QED
    BY <1>12, <2>1 DEF CycleRaises, EndOfCycle
<1> QED
  BY <1>1, <1>2, <1>3, <1>4, <1>5, <1>6, <1>7, <1>8, <1>9, <1>10, <1>11, <1>12
     DEF PollerNext, PollerStep

-----------------------------------------------------------------------------
(* A ledger write is on a row no later than the tags already in use. *)
LEMMA RecordRunTags ==
  ASSUME NEW tag, NEW error, _record_run(tag, error), NEW r \in poll_runs'
  PROVE  r \in poll_runs \/ r.polled_at = tag
BY RecordRunWrites

(* The order of the tags is kept by every step. *)
LEMMA TagOrderStep == PollerTypeOK /\ TagOrder /\ PollerNext => TagOrder'
<1> SUFFICES ASSUME PollerTypeOK, TagOrder, PollerNext PROVE TagOrder'
  OBVIOUS
<1>a. /\ now \in Nat /\ started_at \in Nat /\ polled_at \in Nat
      /\ StartInterval \in Nat \ {0}
      /\ \A s \in stop_events : s.polled_at \in Nat
      /\ \A r \in poll_runs : r.polled_at \in Nat
  BY PollerAssumption DEF PollerTypeOK, Sighting, Run
<1> USE <1>a DEF TagOrder, cycleVars, tables
<1>1. CASE Tick
  BY <1>1 DEF Tick
<1>2. CASE LaunchdStart
  BY <1>2 DEF LaunchdStart
<1>3. CASE Crash
  BY <1>3 DEF Crash, EndOfCycle, PollerTypeOK
<1>4. CASE ConnectFails
  BY <1>4 DEF ConnectFails
<1>5. CASE ConnectExhausted
  <2>1. \A r \in poll_runs' : r \in poll_runs \/ r.polled_at = started_at
    BY <1>5, RecordRunTags DEF ConnectExhausted
  <2> QED
    BY <1>5, <2>1 DEF ConnectExhausted, EndOfCycle
<1>6. CASE BeginCycle
  BY <1>6 DEF BeginCycle
<1>7. CASE DeadlineExceeded
  BY <1>7 DEF DeadlineExceeded
<1>8. CASE StartBatch
  BY <1>8 DEF StartBatch
<1>9. CASE BatchLands
  <2>1. \A s \in stop_events' : s \in stop_events \/ s.polled_at = polled_at
    BY <1>9 DEF BatchLands, Sightings
  <2> QED
    BY <1>9, <2>1 DEF BatchLands, NextBatch
<1>10. CASE BatchFails
  <2>1. \A s \in stop_events' : s \in stop_events \/ s.polled_at = polled_at
    BY <1>10 DEF BatchFails, Sightings
  <2> QED
    BY <1>10, <2>1 DEF BatchFails, NextBatch
<1>11. CASE RecordRun
  <2>1. \A r \in poll_runs' : r \in poll_runs \/ r.polled_at = polled_at
    BY <1>11, RecordRunTags DEF RecordRun
  <2> QED
    BY <1>11, <2>1 DEF RecordRun, EndOfCycle
<1>12. CASE CycleRaises
  <2>1. \A r \in poll_runs' : r \in poll_runs \/ r.polled_at = started_at
    BY <1>12, RecordRunTags DEF CycleRaises
  <2> QED
    BY <1>12, <2>1 DEF CycleRaises, EndOfCycle
<1> QED
  BY <1>1, <1>2, <1>3, <1>4, <1>5, <1>6, <1>7, <1>8, <1>9, <1>10, <1>11, <1>12
     DEF PollerNext, PollerStep

(* What a step may add to the two tables: rows later than every row of the *)
(* ledger, snapshots later than every row of the ledger.                   *)
StoresOnlyLater ==
  /\ poll_runs \subseteq poll_runs'
  /\ stop_events \subseteq stop_events'
  /\ absent \subseteq absent'
  /\ \A s \in stop_events' \ stop_events :
       \A r \in poll_runs : r.polled_at < s.polled_at
  /\ \A s \in absent' \ absent :
       \A r \in poll_runs : r.polled_at < s.polled_at
  /\ \/ poll_runs' = poll_runs
     \/ \E new \in Run :
          /\ poll_runs' = poll_runs \cup {new}
          /\ \A r \in poll_runs : r.polled_at < new.polled_at

(* Every poller step stores only what is later than the ledger. *)
LEMMA PollerStoresOnlyLater ==
  PollerTypeOK /\ TagOrder /\ PollerNext => StoresOnlyLater
<1> SUFFICES ASSUME PollerTypeOK, TagOrder, PollerNext PROVE StoresOnlyLater
  OBVIOUS
<1>a. /\ started_at \in Nat /\ polled_at \in Nat
      /\ \A r \in poll_runs : r.polled_at \in Nat
  BY DEF PollerTypeOK, Run
<1>b. ASSUME NEW tag \in Nat, NEW error \in BOOLEAN, _record_run(tag, error),
             \A r \in poll_runs : r.polled_at < tag,
             UNCHANGED <<stop_events, absent>>
      PROVE  StoresOnlyLater
  <2>1. [polled_at |-> tag, error |-> error] \in Run
    BY Zenon DEF Run
  <2>2. \/ poll_runs' = poll_runs
        \/ poll_runs' = poll_runs \cup {[polled_at |-> tag, error |-> error]}
    BY <1>b, RecordRunWrites
  <2>3. [polled_at |-> tag, error |-> error].polled_at = tag
    OBVIOUS
  <2> QED
    BY <1>b, <2>1, <2>2, <2>3 DEF StoresOnlyLater
<1>c. ASSUME UNCHANGED <<tables, absent>> PROVE StoresOnlyLater
  BY <1>c DEF StoresOnlyLater, tables
<1>d. ASSUME pc = "fetch", UNCHANGED poll_runs, stop_events \subseteq stop_events',
             absent \subseteq absent',
             \A s \in stop_events' : s \in stop_events \/ s.polled_at = polled_at,
             \A s \in absent' : s \in absent \/ s.polled_at = polled_at
      PROVE  StoresOnlyLater
  <2>1. \A r \in poll_runs : r.polled_at < polled_at
    BY <1>a, <1>d DEF TagOrder
  <2> QED
    BY <1>d, <2>1 DEF StoresOnlyLater
<1>1. CASE Tick \/ LaunchdStart \/ Crash \/ ConnectFails \/ BeginCycle
        \/ DeadlineExceeded \/ StartBatch
  BY <1>1, <1>c DEF Tick, LaunchdStart, Crash, ConnectFails, BeginCycle,
       DeadlineExceeded, StartBatch
<1>2. CASE ConnectExhausted
  BY <1>2, <1>a, <1>b DEF ConnectExhausted, TagOrder
<1>3. CASE CycleRaises
  BY <1>3, <1>a, <1>b DEF CycleRaises, TagOrder
<1>4. CASE RecordRun
  <2>1. \A r \in poll_runs : r.polled_at < polled_at
    BY <1>4, <1>a DEF RecordRun, TagOrder
  <2>2. errors \in BOOLEAN
    BY DEF PollerTypeOK
  <2> QED
    BY <1>4, <1>a, <1>b, <2>1, <2>2 DEF RecordRun
<1>5. CASE BatchLands
  BY <1>5, <1>d DEF BatchLands, Sightings
<1>6. CASE BatchFails
  BY <1>6, <1>d DEF BatchFails, Sightings
<1> QED
  BY <1>1, <1>2, <1>3, <1>4, <1>5, <1>6 DEF PollerNext, PollerStep

-----------------------------------------------------------------------------
(* Without a silent loss, a batch that adds no error covers its trip-stops. *)
LEMMA BatchLandsCovers ==
  ASSUME SilentDrop = FALSE, BatchLands, errors' = FALSE,
         NEW t \in TripStops, BatchOf[t] = batch
  PROVE  \/ [trip_stop |-> t, polled_at |-> polled_at] \in stop_events'
         \/ [trip_stop |-> t, polled_at |-> polled_at] \in absent'
<1>1. PICK present \in SUBSET TripStopsOf(batch), truncated \in BOOLEAN :
        \E usable \in SUBSET present :
         /\ usable # present => truncated \/ SilentDrop
         /\ stop_events' = stop_events \cup Sightings(usable)
         /\ errors' = (errors \/ truncated)
         /\ absent' = IF truncated
                        THEN absent
                        ELSE absent \cup Sightings(TripStopsOf(batch) \ present)
  BY DEF BatchLands
<1>2. PICK usable \in SUBSET present :
         /\ usable # present => truncated \/ SilentDrop
         /\ stop_events' = stop_events \cup Sightings(usable)
         /\ errors' = (errors \/ truncated)
         /\ absent' = IF truncated
                        THEN absent
                        ELSE absent \cup Sightings(TripStopsOf(batch) \ present)
  BY <1>1
<1>3. ~truncated
  BY <1>2, Zenon
<1>4. usable = present
  BY <1>2, <1>3
<1>5. absent' = absent \cup Sightings(TripStopsOf(batch) \ present)
  BY <1>2, <1>3
<1>6. stop_events' = stop_events \cup Sightings(present)
  BY <1>2, <1>4
<1>7. t \in TripStopsOf(batch)
  BY DEF TripStopsOf
<1>8. CASE t \in present
  BY <1>6, <1>8 DEF Sightings
<1>9. CASE t \notin present
  BY <1>5, <1>7, <1>9 DEF Sightings
<1> QED
  BY <1>8, <1>9

(* A batch that adds no error started from none. *)
LEMMA BatchLandsErrors ==
  ASSUME PollerTypeOK, BatchLands, errors' = FALSE PROVE errors = FALSE
<1>1. errors \in BOOLEAN
  BY DEF PollerTypeOK
<1>2. PICK truncated \in BOOLEAN : errors' = (errors \/ truncated)
  BY Zenon DEF BatchLands
<1> QED
  BY <1>1, <1>2, Zenon

(* Coverage of the batches passed is kept by every step. *)
LEMMA BatchesCoveredStep ==
  ASSUME SilentDrop = FALSE, PollerTypeOK, TagOrder, BatchesCovered, PollerNext
  PROVE  BatchesCovered'
<1> USE PollerAssumption
<1>a. errors \in BOOLEAN /\ errors' \in BOOLEAN
  BY PollerTypeStep DEF PollerTypeOK
<1>b. StoresOnlyLater
  BY PollerStoresOnlyLater
<1>c. ASSUME polled_at' = polled_at, NEW t \in TripStops, Covered(t)
      PROVE  Covered(t)'
  BY <1>b, <1>c DEF StoresOnlyLater, Covered, Seen, ReadAsAbsent
<1>d. batch \in Int /\ NumBatches \in Nat \ {0}
      /\ \A t \in TripStops : BatchOf[t] \in 1 .. NumBatches
  BY DEF PollerTypeOK
<1>e. ASSUME EndOfCycle PROVE BatchesCovered'
  BY <1>e DEF EndOfCycle, BatchesCovered
<1>f. ASSUME UNCHANGED <<polled_at, batch, errors, pc>> PROVE BatchesCovered'
  BY <1>c, <1>f DEF BatchesCovered
<1>1. CASE Tick
  BY <1>1, <1>f DEF Tick, cycleVars
<1>2. CASE LaunchdStart
  BY <1>2 DEF LaunchdStart, BatchesCovered
<1>3. CASE Crash \/ ConnectExhausted \/ RecordRun \/ CycleRaises
  BY <1>3, <1>e DEF Crash, ConnectExhausted, RecordRun, CycleRaises
<1>4. CASE ConnectFails
  BY <1>4, <1>f DEF ConnectFails
<1>5. CASE BeginCycle
  <2>1. pc' = "batch" /\ batch' = 1
    BY <1>5 DEF BeginCycle
  <2> QED
    BY <2>1, <1>d DEF BatchesCovered
<1>6. CASE DeadlineExceeded
  <2>1. pc' = "record" /\ errors' = TRUE
    BY <1>6 DEF DeadlineExceeded
  <2> QED
    BY <2>1 DEF BatchesCovered
<1>7. CASE StartBatch
  <2>1. pc = "batch" /\ pc' = "fetch" /\ UNCHANGED <<polled_at, batch, errors>>
    BY <1>7 DEF StartBatch, cycleVars
  <2> QED
    BY <2>1, <1>c DEF BatchesCovered
<1>8. CASE BatchFails
  <2>1. errors' = TRUE /\ pc = "fetch" /\ NextBatch
    BY <1>8 DEF BatchFails
  <2>2. batch \in 1 .. NumBatches
    BY <2>1 DEF BatchesCovered
  <2> QED
    BY <2>1, <2>2 DEF NextBatch, BatchesCovered
<1>9. CASE BatchLands
  <2>1. pc = "fetch" /\ NextBatch
    BY <1>9 DEF BatchLands
  <2>2. batch \in 1 .. NumBatches /\ polled_at' = polled_at
    BY <2>1 DEF BatchesCovered, NextBatch
  <2>3. ASSUME errors' = FALSE, NEW t \in TripStops, BatchOf[t] <= batch
        PROVE  Covered(t)'
    <3>1. CASE BatchOf[t] = batch
      BY <1>9, <2>2, <2>3, <3>1, BatchLandsCovers DEF Covered, Seen, ReadAsAbsent
    <3>2. CASE BatchOf[t] < batch
      <4>1. errors = FALSE
        BY <1>9, <2>3, BatchLandsErrors
      <4>2. Covered(t)
        BY <2>1, <3>2, <4>1 DEF BatchesCovered
      <4> QED
        BY <1>c, <2>2, <4>2
    <3> QED
      BY <2>3, <3>1, <3>2, <1>d
  <2>4. CASE batch = NumBatches
    <3>1. pc' = "record"
      BY <2>1, <2>4 DEF NextBatch
    <3>2. \A t \in TripStops : BatchOf[t] <= batch
      BY <2>4, <1>d
    <3> QED
      BY <3>1, <3>2, <2>3, <1>a DEF BatchesCovered
  <2>5. CASE batch # NumBatches
    <3>1. pc' = "batch" /\ batch' = batch + 1
      BY <2>1, <2>5 DEF NextBatch
    <3>2. batch' \in 1 .. NumBatches
      BY <3>1, <2>2, <2>5, <1>d
    <3>3. \A t \in TripStops : BatchOf[t] < batch' => BatchOf[t] <= batch
      BY <3>1, <1>d
    <3> QED
      BY <3>1, <3>2, <3>3, <2>3, <1>a DEF BatchesCovered
  <2> QED
    BY <2>4, <2>5
<1> QED
  BY <1>1, <1>2, <1>3, <1>4, <1>5, <1>6, <1>7, <1>8, <1>9 DEF PollerNext, PollerStep

(* A row written without an error is the row of a covered cycle. *)
LEMMA ErrorFreeStep ==
  ASSUME SilentDrop = FALSE, PollerTypeOK, TagOrder, BatchesCovered,
         ErrorFreeMeansComplete, PollerNext
  PROVE  ErrorFreeMeansComplete'
<1>a. StoresOnlyLater
  BY PollerStoresOnlyLater
<1>b. ASSUME NEW t \in TripStops, NEW tag, Seen(t, tag) \/ ReadAsAbsent(t, tag)
      PROVE  (Seen(t, tag) \/ ReadAsAbsent(t, tag))'
  BY <1>a, <1>b DEF StoresOnlyLater, Seen, ReadAsAbsent
<1>c. ASSUME \A r \in poll_runs' : r \in poll_runs \/ r.error
      PROVE  ErrorFreeMeansComplete'
  BY <1>b, <1>c DEF ErrorFreeMeansComplete
<1>1. CASE Tick \/ LaunchdStart \/ Crash \/ ConnectFails \/ BeginCycle
        \/ DeadlineExceeded \/ StartBatch \/ BatchLands \/ BatchFails
  BY <1>1, <1>c DEF Tick, LaunchdStart, Crash, ConnectFails, BeginCycle,
       DeadlineExceeded, StartBatch, BatchLands, BatchFails, tables
<1>2. CASE ConnectExhausted \/ CycleRaises
  <2>1. _record_run(started_at, TRUE)
    BY <1>2 DEF ConnectExhausted, CycleRaises
  <2>2. \/ poll_runs' = poll_runs
        \/ poll_runs' = poll_runs \cup {[polled_at |-> started_at, error |-> TRUE]}
    BY <2>1, RecordRunWrites
  <2>3. [polled_at |-> started_at, error |-> TRUE].error
    OBVIOUS
  <2>4. \A r \in poll_runs' : r \in poll_runs \/ r.error
    BY <2>2, <2>3, Zenon
  <2> QED
    BY <2>4, <1>c
<1>3. CASE RecordRun
  <2>1. pc = "record" /\ _record_run(polled_at, errors)
    BY <1>3 DEF RecordRun
  <2>2. \/ poll_runs' = poll_runs
        \/ poll_runs' = poll_runs \cup {[polled_at |-> polled_at, error |-> errors]}
    BY <2>1, RecordRunWrites
  <2>3. CASE errors
    BY <2>2, <2>3, <1>c
  <2>4. CASE ~errors
    <3>1. \A t \in TripStops : Covered(t)
      BY <2>1, <2>4 DEF BatchesCovered
    <3>2. ASSUME NEW r \in poll_runs', ~r.error, NEW t \in TripStops
          PROVE  Seen(t, r.polled_at) \/ ReadAsAbsent(t, r.polled_at)
      <4>1. CASE r \in poll_runs
        BY <3>2, <4>1 DEF ErrorFreeMeansComplete
      <4>2. CASE r.polled_at = polled_at
        BY <3>1, <4>2 DEF Covered
      <4> QED
        BY <2>2, <4>1, <4>2
    <3> QED
      BY <3>2, <1>b DEF ErrorFreeMeansComplete
  <2> QED
    BY <2>3, <2>4
<1> QED
  BY <1>1, <1>2, <1>3 DEF PollerNext, PollerStep

-----------------------------------------------------------------------------
PollerInv == PollerTypeOK /\ TagOrder

CoverageInv == BatchesCovered /\ ErrorFreeMeansComplete

(* Both invariants hold initially. *)
LEMMA PollerInvInit == PollerInit => PollerInv /\ CoverageInv
<1> SUFFICES ASSUME PollerInit PROVE PollerInv /\ CoverageInv
  OBVIOUS
<1>1. PollerTypeOK
  BY PollerTypeInit
<1>2. TagOrder
  BY PollerAssumption DEF PollerInit, TagOrder
<1>3. CoverageInv
  BY DEF PollerInit, CoverageInv, BatchesCovered, ErrorFreeMeansComplete
<1> QED
  BY <1>1, <1>2, <1>3 DEF PollerInv

(* A step that leaves the poller alone changes none of its invariants. *)
LEMMA PollerStutter ==
  UNCHANGED pollerVars =>
    /\ PollerInv => PollerInv'
    /\ CoverageInv => CoverageInv'
BY DEF pollerVars, cycleVars, tables, PollerInv, PollerTypeOK, TagOrder, CoverageInv,
       BatchesCovered, Covered, ErrorFreeMeansComplete, Seen, ReadAsAbsent

(* The poller's state always has its type. *)
THEOREM PollerTypeCorrect == PollerSpec => []PollerTypeOK
<1>1. PollerInv /\ [PollerNext]_pollerVars => PollerInv'
  BY PollerTypeStep, TagOrderStep, PollerStutter DEF PollerInv
<1>2. PollerInv => PollerTypeOK
  BY DEF PollerInv
<1> QED
  BY PollerInvInit, <1>1, <1>2, PTL DEF PollerSpec

(* run_cycle's promise about error (pulse/poll.py), provided the feed never *)
(* loses a prediction silently: an error-free ledger row is a cycle whose   *)
(* every trip-stop was stored or read as absent.                            *)
THEOREM ErrorFreeRowsAreComplete ==
  ASSUME SilentDrop = FALSE
  PROVE  PollerSpec => []ErrorFreeMeansComplete
<1>1. PollerInv /\ CoverageInv /\ [PollerNext]_pollerVars => PollerInv' /\ CoverageInv'
  BY PollerTypeStep, TagOrderStep, BatchesCoveredStep, ErrorFreeStep, PollerStutter
     DEF PollerInv, CoverageInv
<1>2. CoverageInv => ErrorFreeMeansComplete
  BY DEF CoverageInv
<1> QED
  BY PollerInvInit, <1>1, <1>2, PTL DEF PollerSpec

(* Ledger rows are never rewritten, and once a row is there no snapshot at *)
(* or before its tag is ever stored.                                       *)
THEOREM LedgerSealsCycles == PollerSpec => RecordedCyclesAreFinal
<1>1. PollerInv /\ [PollerNext]_pollerVars => PollerInv'
  BY PollerTypeStep, TagOrderStep, PollerStutter DEF PollerInv
<1>2. PollerInv /\ [PollerNext]_pollerVars =>
        [ /\ poll_runs \subseteq poll_runs'
          /\ \A s \in stop_events' \ stop_events :
               \A r \in poll_runs : r.polled_at < s.polled_at ]_pollerVars
  BY PollerStoresOnlyLater DEF PollerInv, StoresOnlyLater
<1> QED
  BY PollerInvInit, <1>1, <1>2, PTL DEF PollerSpec, RecordedCyclesAreFinal

-----------------------------------------------------------------------------
(* The steps left are a number, and none are left to the idle process only. *)
LEMMA StepsLeftType ==
  ASSUME PollerTypeOK
  PROVE  StepsLeft \in Nat /\ (pc # "idle" => StepsLeft > 0)
<1>1. NumBatches - batch \in Nat /\ ConnectAttempts - attempt \in Nat /\ NumBatches \in Nat
  BY PollerAssumption DEF PollerTypeOK
<1> QED
  BY <1>1 DEF PollerTypeOK, StepsLeft

(* What each step of a started cycle leaves. *)
LEMMA StepRunsDown ==
  ASSUME PollerTypeOK, PollerTypeOK', PollerStep \/ Crash
  PROVE  StepsLeft' < StepsLeft /\ now' = now
<1>1. /\ NumBatches - batch \in Nat /\ ConnectAttempts - attempt \in Nat
      /\ NumBatches \in Nat \ {0} /\ batch \in Nat /\ attempt \in Nat
  BY PollerAssumption DEF PollerTypeOK
<1>2. CASE ConnectExhausted \/ RecordRun \/ CycleRaises \/ Crash
  <2>1. pc' = "idle" /\ pc # "idle" /\ now' = now
    BY <1>2 DEF ConnectExhausted, RecordRun, CycleRaises, Crash, EndOfCycle
  <2>2. StepsLeft' = 0
    BY <2>1 DEF StepsLeft
  <2> QED
    BY <2>1, <2>2, StepsLeftType
<1>3. CASE ConnectFails
  <2>1. pc = "connect" /\ pc' = "connect" /\ attempt' = attempt + 1 /\ now' = now
    BY <1>3 DEF ConnectFails
  <2>2. StepsLeft = 2 * NumBatches + 2 + (ConnectAttempts - attempt)
    BY <2>1 DEF StepsLeft
  <2>3. StepsLeft' = 2 * NumBatches + 2 + (ConnectAttempts - (attempt + 1))
    BY <2>1 DEF StepsLeft
  <2> QED
    BY <1>1, <2>1, <2>2, <2>3, PollerAssumption
<1>4. CASE BeginCycle
  <2>1. pc = "connect" /\ pc' = "batch" /\ batch' = 1 /\ now' = now
    BY <1>4 DEF BeginCycle
  <2>2. StepsLeft = 2 * NumBatches + 2 + (ConnectAttempts - attempt)
    BY <2>1 DEF StepsLeft
  <2>3. StepsLeft' = 2 * (NumBatches - 1) + 3
    BY <2>1 DEF StepsLeft
  <2> QED
    BY <1>1, <2>1, <2>2, <2>3
<1>5. CASE DeadlineExceeded
  <2>1. pc = "batch" /\ pc' = "record" /\ now' = now
    BY <1>5 DEF DeadlineExceeded
  <2> QED
    BY <1>1, <2>1 DEF StepsLeft
<1>6. CASE StartBatch
  <2>1. pc = "batch" /\ pc' = "fetch" /\ batch' = batch /\ now' = now
    BY <1>6 DEF StartBatch, cycleVars
  <2> QED
    BY <1>1, <2>1 DEF StepsLeft
<1>7. CASE BatchLands \/ BatchFails
  <2>1. pc = "fetch" /\ NextBatch
    BY <1>7 DEF BatchLands, BatchFails
  <2>2. CASE batch = NumBatches
    <3>1. pc' = "record" /\ now' = now
      BY <2>1, <2>2 DEF NextBatch
    <3> QED
      BY <1>1, <2>1, <3>1 DEF StepsLeft
  <2>3. CASE batch # NumBatches
    <3>1. pc' = "batch" /\ batch' = batch + 1 /\ now' = now
      BY <2>1, <2>3 DEF NextBatch
    <3> QED
      BY <1>1, <2>1, <3>1 DEF StepsLeft
  <2> QED
    BY <2>2, <2>3
<1> QED
  BY <1>2, <1>3, <1>4, <1>5, <1>6, <1>7 DEF PollerStep

(* A started cycle has only so many steps left, and each of its steps, the *)
(* failing ones too, leaves fewer: whatever fails, it cannot hold          *)
(* launchd's slot by retrying.                                             *)
THEOREM CyclesAlwaysRunDown == PollerSpec => CyclesRunDown
<1> DEFINE runsDown == pc # "idle" => IF now' > now
                                        THEN StepsLeft' = StepsLeft
                                        ELSE StepsLeft' < StepsLeft
<1>1. PollerInv /\ [PollerNext]_pollerVars => PollerInv'
  BY PollerTypeStep, TagOrderStep, PollerStutter DEF PollerInv
<1>2. PollerInv /\ PollerInv' /\ [PollerNext]_pollerVars => [runsDown]_pollerVars
  <2> SUFFICES ASSUME PollerTypeOK, PollerTypeOK', PollerNext PROVE runsDown
    BY DEF PollerInv
  <2>1. CASE Tick
    <3>1. now' > now /\ UNCHANGED <<pc, batch, attempt>>
      BY <2>1 DEF Tick, cycleVars, PollerTypeOK
    <3> QED
      BY <3>1 DEF StepsLeft
  <2>2. CASE LaunchdStart
    BY <2>2 DEF LaunchdStart
  <2>3. CASE PollerStep \/ Crash
    <3>1. StepsLeft' < StepsLeft /\ now' = now /\ now \in Nat
      BY <2>3, StepRunsDown DEF PollerTypeOK
    <3> HIDE DEF StepsLeft
    <3> QED
      BY <3>1
  <2> QED
    BY <2>1, <2>2, <2>3 DEF PollerNext
<1> QED
  BY PollerInvInit, <1>1, <1>2, PTL DEF PollerSpec, CyclesRunDown

-----------------------------------------------------------------------------
(* A table only grows beyond the ledger: a row becomes visible through the *)
(* ledger with a run later than all others, or stays hidden.               *)
LEMMA VisibleWithLatest ==
  ASSUME NEW T, NEW U, T \subseteq U,
         \A s \in U : s.polled_at \in Nat, \A r \in poll_runs' : r.polled_at \in Nat,
         poll_runs \subseteq poll_runs',
         \A s \in U \ T : \A r \in poll_runs : r.polled_at < s.polled_at
  PROVE  LET before == {s \in T : \E r \in poll_runs : s.polled_at <= r.polled_at}
             after == {s \in U : \E r \in poll_runs' : s.polled_at <= r.polled_at}
         IN  /\ before \subseteq after
             /\ \A s \in after \ before :
                  /\ \A r \in poll_runs : r.polled_at < s.polled_at
                  /\ \E r \in poll_runs' \ poll_runs : s.polled_at <= r.polled_at
<1> DEFINE before == {s \in T : \E r \in poll_runs : s.polled_at <= r.polled_at}
           after == {s \in U : \E r \in poll_runs' : s.polled_at <= r.polled_at}
<1>1. before \subseteq after
  OBVIOUS
<1>2. ASSUME NEW s \in after \ before, NEW r \in poll_runs
      PROVE  r.polled_at < s.polled_at
  <2>1. CASE s \in T
    <3>1. ~(s.polled_at <= r.polled_at)
      BY <1>2, <2>1
    <3>2. s.polled_at \in Nat /\ r.polled_at \in Nat
      BY <1>2
    <3> QED
      BY <3>1, <3>2
  <2>2. CASE s \notin T
    BY <1>2, <2>2
  <2> QED
    BY <2>1, <2>2
<1>3. ASSUME NEW s \in after \ before
      PROVE  \E r \in poll_runs' \ poll_runs : s.polled_at <= r.polled_at
  <2>1. PICK r \in poll_runs' : s.polled_at <= r.polled_at
    BY <1>3
  <2>2. r \notin poll_runs
    <3>1. s.polled_at \in Nat /\ r.polled_at \in Nat
      BY <1>3
    <3> QED
      BY <1>2, <1>3, <2>1, <3>1
  <2> QED
    BY <2>1, <2>2
<1> QED
  BY <1>1, <1>2, <1>3

(* Read through the ledger, a step of the poller is a cycle or nothing. *)
LEMMA PollerStepIsCycle ==
  ASSUME PollerTypeOK, TagOrder, PollerNext,
         SilentDrop = FALSE => ErrorFreeMeansComplete'
  PROVE  [Ledger!Cycle]_<<poll_runs, UpToLatestRun(stop_events), UpToLatestRun(absent)>>
<1>1. StoresOnlyLater
  BY PollerStoresOnlyLater
<1>2. PollerTypeOK'
  BY PollerTypeStep
<1>3. /\ \A s \in stop_events' \cup absent' : s.polled_at \in Nat
      /\ \A r \in poll_runs' : r.polled_at \in Nat /\ r.error \in BOOLEAN
  BY <1>2 DEF PollerTypeOK, Sighting, Run
<1>4. /\ UpToLatestRun(stop_events) \subseteq UpToLatestRun(stop_events)'
      /\ UpToLatestRun(absent) \subseteq UpToLatestRun(absent)'
      /\ \A s \in (UpToLatestRun(stop_events)' \ UpToLatestRun(stop_events))
                     \cup (UpToLatestRun(absent)' \ UpToLatestRun(absent)) :
           /\ \A r \in poll_runs : r.polled_at < s.polled_at
           /\ \E r \in poll_runs' \ poll_runs : s.polled_at <= r.polled_at
  <2>1. /\ UpToLatestRun(stop_events) \subseteq UpToLatestRun(stop_events)'
        /\ \A s \in UpToLatestRun(stop_events)' \ UpToLatestRun(stop_events) :
             /\ \A r \in poll_runs : r.polled_at < s.polled_at
             /\ \E r \in poll_runs' \ poll_runs : s.polled_at <= r.polled_at
    BY <1>1, <1>3, VisibleWithLatest DEF StoresOnlyLater, UpToLatestRun
  <2>2. /\ UpToLatestRun(absent) \subseteq UpToLatestRun(absent)'
        /\ \A s \in UpToLatestRun(absent)' \ UpToLatestRun(absent) :
             /\ \A r \in poll_runs : r.polled_at < s.polled_at
             /\ \E r \in poll_runs' \ poll_runs : s.polled_at <= r.polled_at
    BY <1>1, <1>3, VisibleWithLatest DEF StoresOnlyLater, UpToLatestRun
  <2> QED
    BY <2>1, <2>2
<1>5. CASE poll_runs' = poll_runs
  <2>1. UpToLatestRun(stop_events)' = UpToLatestRun(stop_events)
        /\ UpToLatestRun(absent)' = UpToLatestRun(absent)
    BY <1>4, <1>5
  <2> QED
    BY <1>5, <2>1
<1>6. CASE poll_runs' # poll_runs
  <2>1. PICK new \in Run : /\ poll_runs' = poll_runs \cup {new}
                           /\ \A r \in poll_runs : r.polled_at < new.polled_at
    BY <1>1, <1>6 DEF StoresOnlyLater
  <2>2. new \in poll_runs'
    BY <2>1
  <2>3. \A r \in poll_runs' \ poll_runs : r = new
    BY <2>1
  <2>4. ASSUME ~new.error, ~SilentDrop, NEW t \in TripStops
        PROVE  [trip_stop |-> t, polled_at |-> new.polled_at]
                 \in UpToLatestRun(stop_events)' \cup UpToLatestRun(absent)'
    <3> DEFINE row == [trip_stop |-> t, polled_at |-> new.polled_at]
    <3>1. SilentDrop = FALSE
      BY <2>4, PollerAssumption, Zenon
    <3>2. row \in stop_events' \/ row \in absent'
      BY <2>2, <2>4, <3>1 DEF ErrorFreeMeansComplete, Seen, ReadAsAbsent
    <3>3. row.polled_at = new.polled_at /\ new.polled_at \in Nat
      BY <1>3, <2>2
    <3>4. row.polled_at <= new.polled_at
      BY <3>3
    <3> HIDE DEF row
    <3>5. row \in UpToLatestRun(stop_events)' \/ row \in UpToLatestRun(absent)'
      BY <2>2, <3>2, <3>4 DEF UpToLatestRun
    <3> QED
      BY <3>5 DEF row
  <2>5. Ledger!Cycle
    BY <1>4, <2>1, <2>2, <2>3, <2>4 DEF Ledger!Cycle, Ledger!Newest, Ledger!Complete
  <2> QED
    BY <2>5
<1> QED
  BY <1>5, <1>6

(* The refinement needs no fairness, so it also holds of the poller inside a *)
(* larger system.                                                            *)
LEMMA CyclesImplementLedger ==
  PollerInit /\ [][PollerNext]_pollerVars => CyclesAreAtomic
<1> DEFINE Inv == PollerInv /\ (SilentDrop = FALSE => CoverageInv)
<1>1. PollerInit => Inv /\ Ledger!LedgerInit
  <2>1. PollerInit => Ledger!LedgerInit
    BY DEF PollerInit, Ledger!LedgerInit, UpToLatestRun
  <2> QED
    BY <2>1, PollerInvInit
<1>2. Inv /\ [PollerNext]_pollerVars => Inv'
  BY PollerTypeStep, TagOrderStep, BatchesCoveredStep, ErrorFreeStep, PollerStutter
     DEF PollerInv, CoverageInv
<1>3. Inv /\ Inv' /\ [PollerNext]_pollerVars =>
        [Ledger!Cycle]_<<poll_runs, UpToLatestRun(stop_events), UpToLatestRun(absent)>>
  <2>1. SUFFICES ASSUME Inv, Inv', [PollerNext]_pollerVars
                 PROVE  [Ledger!Cycle]_<<poll_runs, UpToLatestRun(stop_events),
                                         UpToLatestRun(absent)>>
    OBVIOUS
  <2>2. CASE PollerNext
    BY <2>1, <2>2, PollerStepIsCycle DEF PollerInv, CoverageInv
  <2>3. CASE UNCHANGED pollerVars
    BY <2>3 DEF pollerVars, tables, UpToLatestRun
  <2> QED
    BY <2>1, <2>2, <2>3
<1> QED
  BY <1>1, <1>2, <1>3, PTL DEF CyclesAreAtomic, Ledger!LedgerSpec

(* run_cycle and main, for any numbers of batches and trip-stops and with   *)
(* every failure, implement a history of cycles that happen at once: that   *)
(* is what label builds may rely on when they read up to a recorded cycle.  *)
THEOREM PollerImplementsLedger == PollerSpec => CyclesAreAtomic
BY CyclesImplementLedger, PTL DEF PollerSpec
-----------------------------------------------------------------------------
(* The history of atomic cycles is enough to go by: whatever implements it, *)
(* with all that a cycle does left out, has a ledger whose error-free rows   *)
(* are complete cycles of the tables cut off at its latest row.              *)
LedgerIsHonest == \A r \in poll_runs : ~r.error => Ledger!Complete(r)

THEOREM AtomicCyclesAreHonest ==
  ASSUME SilentDrop = FALSE
  PROVE  CyclesAreAtomic => []LedgerIsHonest
<1> DEFINE seen == UpToLatestRun(stop_events)
           missing == UpToLatestRun(absent)
<1>1. Ledger!LedgerInit => LedgerIsHonest
  BY DEF Ledger!LedgerInit, LedgerIsHonest
<1>2. LedgerIsHonest /\ [Ledger!Cycle]_<<poll_runs, seen, missing>> => LedgerIsHonest'
  <2> SUFFICES ASSUME LedgerIsHonest, [Ledger!Cycle]_<<poll_runs, seen, missing>>,
                      NEW r \in poll_runs', ~r.error
               PROVE  Ledger!Complete(r)'
    BY DEF LedgerIsHonest
  <2>1. ASSUME r \in poll_runs, seen \subseteq seen', missing \subseteq missing'
        PROVE  Ledger!Complete(r)'
    <3>1. Ledger!Complete(r)
      BY <2>1 DEF LedgerIsHonest
    <3> HIDE DEF seen, missing
    <3>2. \A t \in TripStops :
            [trip_stop |-> t, polled_at |-> r.polled_at] \in seen \cup missing
      BY <3>1 DEF Ledger!Complete, seen, missing
    <3>3. \A t \in TripStops :
            [trip_stop |-> t, polled_at |-> r.polled_at] \in seen' \cup missing'
      BY <2>1, <3>2
    <3> QED
      BY <3>3 DEF Ledger!Complete, seen, missing
  <2>2. CASE Ledger!Cycle
    <3>1. PICK run \in poll_runs' :
            /\ poll_runs' = poll_runs \cup {run}
            /\ seen \subseteq seen' /\ missing \subseteq missing'
            /\ ~run.error /\ ~SilentDrop => Ledger!Complete(run)'
      BY <2>2 DEF Ledger!Cycle
    <3>2. CASE r = run
      BY <3>1, <3>2
    <3>3. CASE r # run
      BY <2>1, <3>1, <3>3
    <3> QED
      BY <3>2, <3>3
  <2>3. CASE UNCHANGED <<poll_runs, seen, missing>>
    BY <2>1, <2>3
  <2> QED
    BY <2>2, <2>3
<1> QED
  BY <1>1, <1>2, PTL DEF CyclesAreAtomic, Ledger!LedgerSpec
=============================================================================
