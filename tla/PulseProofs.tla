----------------------------- MODULE PulseProofs -----------------------------
(***************************************************************************)
(* Proofs about label builds running beside the poller, for any ledger     *)
(* length, any windows and any interleaving of the two processes.          *)
(***************************************************************************)
EXTENDS Pulse, PollerProofs, WellFoundedInduction

-----------------------------------------------------------------------------
(* The closing rule, for every ledger. *)
LedgerRow == [polled_at : Nat, error : BOOLEAN]

Before == OpToRel(<, Nat)

(* The order of the naturals, as a relation the library speaks of. *)
LEMMA BeforeWellFounded == IsWellFoundedOn(Before, Nat)
BY NatLessThanWellFounded, Zenon DEF Before

LEMMA BeforeHolds == ASSUME NEW x \in Nat, NEW y \in Nat, y < x PROVE <<y, x>> \in Before
<1>1. Before = {ss \in Nat \X Nat : ss[1] < ss[2]}
  BY Zenon DEF Before, OpToRel
<1> QED
  BY <1>1

(* A non-empty set of naturals has a least element ... *)
LEMMA LeastNatural ==
  ASSUME NEW T, T \subseteq Nat, T # {}
  PROVE  \E x \in T : \A y \in T : x <= y
<1>1. PICK x \in T : \A y \in T : ~(<<y, x>> \in Before)
  BY WFMin, BeforeWellFounded
<1>2. \A y \in T : ~(y < x)
  BY <1>1, BeforeHolds
<1> QED
  BY <1>2

(* ... and, if bounded, a greatest one. *)
LEMMA GreatestNatural ==
  ASSUME NEW T, T \subseteq Nat, T # {}, NEW b \in Nat, \A t \in T : t <= b
  PROVE  \E x \in T : \A y \in T : y <= x
<1> DEFINE D == {b - t : t \in T}
<1>1. D \subseteq Nat
  OBVIOUS
<1>2. D # {}
  OBVIOUS
<1>3. PICK n \in D : \A m \in D : n <= m
  <2> HIDE DEF D
  <2> QED BY <1>1, <1>2, LeastNatural
<1>4. PICK x \in T : n = b - x
  OBVIOUS
<1>5. \A y \in T : b - x <= b - y
  BY <1>3, <1>4
<1>6. \A y \in T : y <= x
  BY <1>5
<1> QED
  BY <1>6

-----------------------------------------------------------------------------
(* What it means for an interval to be derived from the ledger. *)
LEMMA GapIntervals ==
  ASSUME NEW runs, NEW g
  PROVE  g \in compute_gap_intervals(runs) <=>
           \/ \E r \in runs : r.error /\ g = <<r.polled_at, r.polled_at>>
           \/ \E p, c \in runs :
                /\ Consecutive(runs, p, c)
                /\ c.polled_at - p.polled_at > GapThreshold
                /\ g = <<p.polled_at, c.polled_at>>
<1>1. g \in ErrorPoints(runs) <=>
        \E r \in runs : r.error /\ g = <<r.polled_at, r.polled_at>>
  BY DEF ErrorPoints
<1>2. g \in SilentStretches(runs) <=>
        \E p, c \in runs :
          /\ Consecutive(runs, p, c)
          /\ c.polled_at - p.polled_at > GapThreshold
          /\ g = <<p.polled_at, c.polled_at>>
  <2>1. ASSUME NEW p \in runs, NEW c \in runs, Consecutive(runs, p, c),
               c.polled_at - p.polled_at > GapThreshold,
               g = <<p.polled_at, c.polled_at>>
        PROVE  g \in SilentStretches(runs)
    <3>1. <<p, c>> \in {q \in runs \X runs :
                          /\ Consecutive(runs, q[1], q[2])
                          /\ q[2].polled_at - q[1].polled_at > GapThreshold}
      BY <2>1
    <3>2. <<<<p, c>>[1].polled_at, <<p, c>>[2].polled_at>> \in SilentStretches(runs)
      BY <3>1 DEF SilentStretches
    <3> QED
      BY <2>1, <3>2
  <2>2. ASSUME g \in SilentStretches(runs)
        PROVE  \E p, c \in runs :
                 /\ Consecutive(runs, p, c)
                 /\ c.polled_at - p.polled_at > GapThreshold
                 /\ g = <<p.polled_at, c.polled_at>>
    <3>1. PICK q \in runs \X runs :
            /\ Consecutive(runs, q[1], q[2])
            /\ q[2].polled_at - q[1].polled_at > GapThreshold
            /\ g = <<q[1].polled_at, q[2].polled_at>>
      BY <2>2 DEF SilentStretches
    <3> QED
      BY <3>1
  <2> QED
    BY <2>1, <2>2
<1> QED
  BY <1>1, <1>2 DEF compute_gap_intervals

(* The two ways a ledger can abut a disappearance. *)
LEMMA AbutsCases ==
  ASSUME NEW runs, NEW span_end
  PROVE  gap_abuts(span_end, compute_gap_intervals(runs)) <=>
           \/ \E r \in runs :
                /\ r.error
                /\ r.polled_at <= span_end + SettleMargin
                /\ span_end <= r.polled_at
           \/ \E p, c \in runs :
                /\ Consecutive(runs, p, c)
                /\ c.polled_at - p.polled_at > GapThreshold
                /\ p.polled_at <= span_end + SettleMargin
                /\ span_end <= c.polled_at
<1>1. ASSUME NEW r \in runs, r.error, r.polled_at <= span_end + SettleMargin,
             span_end <= r.polled_at
      PROVE  gap_abuts(span_end, compute_gap_intervals(runs))
  <2>1. <<r.polled_at, r.polled_at>> \in compute_gap_intervals(runs)
    BY <1>1, GapIntervals
  <2> QED
    BY <1>1, <2>1 DEF gap_abuts
<1>2. ASSUME NEW p \in runs, NEW c \in runs, Consecutive(runs, p, c),
             c.polled_at - p.polled_at > GapThreshold,
             p.polled_at <= span_end + SettleMargin, span_end <= c.polled_at
      PROVE  gap_abuts(span_end, compute_gap_intervals(runs))
  <2>1. <<p.polled_at, c.polled_at>> \in compute_gap_intervals(runs)
    BY <1>2, GapIntervals
  <2> QED
    BY <1>2, <2>1 DEF gap_abuts
<1>3. ASSUME gap_abuts(span_end, compute_gap_intervals(runs))
      PROVE  \/ \E r \in runs :
                  /\ r.error
                  /\ r.polled_at <= span_end + SettleMargin
                  /\ span_end <= r.polled_at
             \/ \E p, c \in runs :
                  /\ Consecutive(runs, p, c)
                  /\ c.polled_at - p.polled_at > GapThreshold
                  /\ p.polled_at <= span_end + SettleMargin
                  /\ span_end <= c.polled_at
  <2>1. PICK g \in compute_gap_intervals(runs) :
          g[1] <= span_end + SettleMargin /\ span_end <= g[2]
    BY <1>3 DEF gap_abuts
  <2>2. CASE \E r \in runs : r.error /\ g = <<r.polled_at, r.polled_at>>
    BY <2>1, <2>2
  <2>3. CASE \E p, c \in runs :
               /\ Consecutive(runs, p, c)
               /\ c.polled_at - p.polled_at > GapThreshold
               /\ g = <<p.polled_at, c.polled_at>>
    BY <2>1, <2>3
  <2> QED
    BY <2>1, <2>2, <2>3, GapIntervals
<1> QED
  BY <1>1, <1>2, <1>3

-----------------------------------------------------------------------------
(* Rerun stability: once a row lies beyond the settle window, appending a *)
(* later row to the ledger does not change whether the window abuts a gap.*)
LEMMA AppendKeepsVerdict ==
  ASSUME NEW runs, runs \subseteq LedgerRow, NEW new \in LedgerRow,
         \A r \in runs : r.polled_at < new.polled_at,
         NEW span_end \in Nat, NEW w \in runs, span_end + SettleMargin < w.polled_at
  PROVE  gap_abuts(span_end, compute_gap_intervals(runs \cup {new}))
           <=> gap_abuts(span_end, compute_gap_intervals(runs))
<1> DEFINE longer == runs \cup {new}
<1>a. SettleMargin \in Nat /\ GapThreshold \in Nat
  BY GapLedgerAssumption
<1>b. \A r \in longer : r.polled_at \in Nat
  BY DEF LedgerRow
<1>1. ASSUME NEW p \in runs, NEW c \in runs
      PROVE  Consecutive(longer, p, c) <=> Consecutive(runs, p, c)
  BY <1>b DEF Consecutive
<1>2. ASSUME gap_abuts(span_end, compute_gap_intervals(runs))
      PROVE  gap_abuts(span_end, compute_gap_intervals(longer))
  <2>1. CASE \E r \in runs :
               /\ r.error
               /\ r.polled_at <= span_end + SettleMargin
               /\ span_end <= r.polled_at
    BY <2>1, AbutsCases
  <2>2. CASE \E p, c \in runs :
               /\ Consecutive(runs, p, c)
               /\ c.polled_at - p.polled_at > GapThreshold
               /\ p.polled_at <= span_end + SettleMargin
               /\ span_end <= c.polled_at
    <3>1. PICK p \in runs, c \in runs :
               /\ Consecutive(runs, p, c)
               /\ c.polled_at - p.polled_at > GapThreshold
               /\ p.polled_at <= span_end + SettleMargin
               /\ span_end <= c.polled_at
      BY <2>2
    <3>2. Consecutive(longer, p, c) /\ p \in longer /\ c \in longer
      BY <3>1, <1>1
    <3> HIDE DEF longer
    <3> QED
      BY <3>1, <3>2, AbutsCases
  <2> QED
    BY <1>2, <2>1, <2>2, AbutsCases
<1>3. ASSUME gap_abuts(span_end, compute_gap_intervals(longer))
      PROVE  gap_abuts(span_end, compute_gap_intervals(runs))
  <2>1. CASE \E r \in longer :
               /\ r.error
               /\ r.polled_at <= span_end + SettleMargin
               /\ span_end <= r.polled_at
    <3>1. PICK r \in longer :
               /\ r.error
               /\ r.polled_at <= span_end + SettleMargin
               /\ span_end <= r.polled_at
      BY <2>1
    <3>2. r # new
      BY <3>1, <1>a, <1>b
    <3>3. r \in runs
      BY <3>2
    <3> QED
      BY <3>1, <3>3, AbutsCases
  <2>2. CASE \E p, c \in longer :
               /\ Consecutive(longer, p, c)
               /\ c.polled_at - p.polled_at > GapThreshold
               /\ p.polled_at <= span_end + SettleMargin
               /\ span_end <= c.polled_at
    <3>1. PICK p \in longer, c \in longer :
               /\ Consecutive(longer, p, c)
               /\ c.polled_at - p.polled_at > GapThreshold
               /\ p.polled_at <= span_end + SettleMargin
               /\ span_end <= c.polled_at
      BY <2>2
    <3>2. p # new
      BY <3>1, <1>a, <1>b
    <3>3. c # new
      <4>1. w.polled_at <= p.polled_at \/ c.polled_at <= w.polled_at
        BY <3>1 DEF Consecutive
      <4>2. p.polled_at < w.polled_at
        BY <3>1, <1>a, <1>b
      <4> QED
        BY <4>1, <4>2, <1>b
    <3>4. p \in runs /\ c \in runs
      BY <3>2, <3>3
    <3>5. Consecutive(runs, p, c)
      BY <3>1, <3>4, <1>1
    <3> QED
      BY <3>1, <3>4, <3>5, AbutsCases
  <2>3. \/ \E r \in longer :
               /\ r.error
               /\ r.polled_at <= span_end + SettleMargin
               /\ span_end <= r.polled_at
        \/ \E p, c \in longer :
               /\ Consecutive(longer, p, c)
               /\ c.polled_at - p.polled_at > GapThreshold
               /\ p.polled_at <= span_end + SettleMargin
               /\ span_end <= c.polled_at
    <3> HIDE DEF longer
    <3> QED
      BY <1>3, AbutsCases
  <2> QED
    BY <2>1, <2>2, <2>3
<1> QED
  BY <1>2, <1>3

(* The closing rule, as a fact about ledgers: if no derived interval abuts *)
(* the window, and the ledger has a row at or before the last sighting and *)
(* one beyond it, then a row follows the sighting within GapThreshold, and *)
(* every row of the window is free of error.                               *)
LEMMA CleanWindow ==
  ASSUME NEW runs, runs \subseteq LedgerRow, NEW span_end \in Nat,
         ~gap_abuts(span_end, compute_gap_intervals(runs)),
         NEW h \in runs, h.polled_at <= span_end,
         NEW w \in runs, span_end < w.polled_at
  PROVE  /\ \E r \in runs :
              /\ span_end < r.polled_at
              /\ r.polled_at <= span_end + GapThreshold
         /\ \A r \in runs :
              span_end <= r.polled_at /\ r.polled_at <= span_end + SettleMargin
                => ~r.error
<1>a. SettleMargin \in Nat /\ GapThreshold \in Nat /\ GapThreshold <= SettleMargin
  BY GapLedgerAssumption
<1>b. \A r \in runs : r.polled_at \in Nat
  BY DEF LedgerRow
<1>1. \A r \in runs :
        span_end <= r.polled_at /\ r.polled_at <= span_end + SettleMargin => ~r.error
  BY AbutsCases
<1>2. PICK p \in runs : /\ p.polled_at <= span_end
                        /\ \A r \in runs : r.polled_at <= span_end => r.polled_at <= p.polled_at
  <2> DEFINE T == {r.polled_at : r \in {q \in runs : q.polled_at <= span_end}}
  <2>1. T \subseteq Nat /\ (\A t \in T : t <= span_end)
    BY <1>b
  <2>2. h.polled_at \in T
    OBVIOUS
  <2>3. PICK m \in T : \A t \in T : t <= m
    <3> HIDE DEF T
    <3> QED BY <2>1, <2>2, GreatestNatural
  <2>4. PICK p \in runs : p.polled_at = m /\ p.polled_at <= span_end
    OBVIOUS
  <2>5. \A r \in runs : r.polled_at <= span_end => r.polled_at <= p.polled_at
    BY <2>3, <2>4
  <2> QED
    BY <2>4, <2>5
<1>3. PICK c \in runs : /\ span_end < c.polled_at
                        /\ \A r \in runs : span_end < r.polled_at => c.polled_at <= r.polled_at
  <2> DEFINE T == {r.polled_at : r \in {q \in runs : span_end < q.polled_at}}
  <2>1. T \subseteq Nat
    BY <1>b
  <2>2. w.polled_at \in T
    OBVIOUS
  <2>3. PICK m \in T : \A t \in T : m <= t
    <3> HIDE DEF T
    <3> QED BY <2>1, <2>2, LeastNatural
  <2>4. PICK c \in runs : c.polled_at = m /\ span_end < c.polled_at
    OBVIOUS
  <2>5. \A r \in runs : span_end < r.polled_at => c.polled_at <= r.polled_at
    BY <2>3, <2>4
  <2> QED
    BY <2>4, <2>5
<1>4. Consecutive(runs, p, c)
  BY <1>2, <1>3, <1>b DEF Consecutive
<1>5. p.polled_at <= span_end + SettleMargin /\ span_end <= c.polled_at
  BY <1>2, <1>3, <1>a, <1>b
<1>6. ~(c.polled_at - p.polled_at > GapThreshold)
  BY <1>4, <1>5, AbutsCases
<1>7. c.polled_at <= span_end + GapThreshold
  BY <1>2, <1>6, <1>a, <1>b
<1> QED
  BY <1>1, <1>3, <1>7

-----------------------------------------------------------------------------
(* A step of the whole system is a poller step or a build step. *)
LEMMA NextCases ==
  Next => \/ PollerNext /\ UNCHANGED <<buildVars, labels>>
          \/ BuildStep /\ UNCHANGED pollerVars
BY DEF Next, BuildStep, StartBuild, FetchTouchedGroups, FetchPollRuns, UpsertLabel,
       FinishBuild, BuildCrash, EndBuild

BuildTypeOK ==
  /\ b_pc \in {"idle", "groups", "runs", "upsert"}
  /\ b_since \in Nat
  /\ b_until \in Nat
  /\ b_as_of \in Nat
  /\ b_groups \subseteq Group
  /\ b_rows \subseteq Label
  /\ labels \subseteq Label

(* The type invariant, with the two processes' parts apart. *)
LEMMA TypeParts == TypeOK <=> PollerTypeOK /\ BuildTypeOK /\ b_anchored \in BOOLEAN
BY DEF TypeOK, BuildTypeOK

(* The same, in the state a step leads to. *)
LEMMA TypePartsNext ==
  PollerTypeOK' /\ BuildTypeOK' /\ b_anchored' \in BOOLEAN => TypeOK'
BY DEF TypeOK, BuildTypeOK

(* The reason of a derived row is one of the table's three. *)
LEMMA ClosedReasonType ==
  ASSUME NEW signal \in BOOLEAN, NEW span_end, NEW gaps
  PROVE  closed_reason(signal, span_end, gaps) \in ClosedReasons
<1>1. CASE ~signal
  BY <1>1 DEF closed_reason, ClosedReasons
<1>2. CASE signal /\ gap_abuts(span_end, gaps)
  BY <1>2 DEF closed_reason, ClosedReasons
<1>3. CASE signal /\ ~gap_abuts(span_end, gaps)
  BY <1>3 DEF closed_reason, ClosedReasons
<1> QED
  BY <1>1, <1>2, <1>3, Zenon

(* A row derived from a group of the right type is a label. *)
LEMMA DerivedType ==
  ASSUME TypeOK, NEW g \in Group, NEW gaps
  PROVE  derive_label_row(g, gaps) \in Label
<1>1. closed_reason(g.trip_stop \notin OriginStops, g.observed_span_end, gaps)
        \in ClosedReasons
  BY ClosedReasonType, Zenon
<1>2. g.trip_stop \in TripStops /\ g.observed_span_end \in Nat
  BY DEF Group
<1>3. b_as_of \in Nat /\ b_anchored \in BOOLEAN
  BY DEF TypeOK
<1> QED
  BY <1>1, <1>2, <1>3, Zenon DEF derive_label_row, Label

(* Every step of the system keeps the types. *)
LEMMA TypeStep == TypeOK /\ [Next]_vars => TypeOK'
<1> SUFFICES ASSUME TypeOK, [Next]_vars PROVE TypeOK'
  OBVIOUS
<1> USE PulseAssumption
<1>a. PollerTypeOK /\ BuildTypeOK /\ b_anchored \in BOOLEAN
  BY TypeParts
<1>1. CASE UNCHANGED vars
  <2>1. PollerTypeOK'
    BY <1>a, <1>1 DEF vars, pollerVars, cycleVars, tables, PollerTypeOK
  <2>2. BuildTypeOK'
    BY <1>a, <1>1 DEF vars, buildVars, BuildTypeOK
  <2>3. b_anchored' \in BOOLEAN
    BY <1>a, <1>1 DEF vars, buildVars
  <2> QED
    BY <2>1, <2>2, <2>3, TypePartsNext
<1>2. CASE PollerNext /\ UNCHANGED <<buildVars, labels>>
  <2>1. PollerTypeOK'
    BY <1>a, <1>2, PollerTypeStep
  <2>2. BuildTypeOK'
    BY <1>a, <1>2 DEF buildVars, BuildTypeOK
  <2>3. b_anchored' \in BOOLEAN
    BY <1>a, <1>2 DEF buildVars
  <2> QED
    BY <2>1, <2>2, <2>3, TypePartsNext
<1>3. CASE BuildStep /\ UNCHANGED pollerVars
  <2>1. PollerTypeOK'
    BY <1>a, <1>3 DEF pollerVars, cycleVars, tables, PollerTypeOK
  <2>2. b_anchored' \in BOOLEAN
    BY <1>a, <1>3, Zenon DEF BuildStep, StartBuild, FetchTouchedGroups,
         FetchPollRuns, UpsertLabel, FinishBuild, BuildCrash, EndBuild
  <2>3. BuildTypeOK'
    <3> USE <1>a DEF BuildTypeOK
    <3>1. CASE StartBuild
      <4>1. Tags \subseteq Nat /\ now \in Nat
        BY DEF PollerTypeOK, Tags, Run
      <4>2. b_as_of' \in Nat
        BY <3>1, <4>1 DEF StartBuild
      <4> QED
        BY <3>1, <4>1, <4>2 DEF StartBuild
    <3>2. CASE FetchTouchedGroups
      <4>1. touched_groups \subseteq Group
        BY DEF touched_groups, Group, PollerTypeOK, Sighting
      <4> QED
        BY <3>2, <4>1 DEF FetchTouchedGroups
    <3>3. CASE FetchPollRuns
      <4>1. b_rows' \subseteq Label
        BY <3>3, DerivedType DEF FetchPollRuns
      <4> QED
        BY <3>3, <4>1 DEF FetchPollRuns
    <3>4. CASE UpsertLabel
      BY <3>4 DEF UpsertLabel
    <3>5. CASE FinishBuild \/ BuildCrash
      BY <3>5 DEF FinishBuild, BuildCrash, EndBuild
    <3> QED
      BY <1>3, <3>1, <3>2, <3>3, <3>4, <3>5 DEF BuildStep
  <2> QED
    BY <2>1, <2>2, <2>3, TypePartsNext
<1> QED
  BY <1>1, <1>2, <1>3, NextCases

-----------------------------------------------------------------------------
(* No snapshot of the trip-stop lies after span_end and up to as_of. *)
QuietUntil(t, span_end, as_of) ==
  \A s \in stop_events :
    s.trip_stop = t => s.polled_at <= span_end \/ as_of < s.polled_at

(* as_of is the tag of a recorded cycle from the moment it is read, and *)
(* what was read after it can no longer be outdated by an older cycle.  *)
BuildOrder ==
  /\ b_pc \in {"groups", "runs"} /\ b_anchored => b_as_of \in Tags
  /\ b_groups # {} => b_pc = "runs"
  /\ b_anchored =>
       \A g \in b_groups : QuietUntil(g.trip_stop, g.observed_span_end, b_as_of)
  /\ \A l \in Verdicts : l.anchored =>
       /\ l.as_of \in Tags
       /\ l.observed_span_end + SettleMargin <= l.as_of
       /\ QuietUntil(l.trip_stop, l.observed_span_end, l.as_of)

(* A poller step cannot disturb what was read up to a recorded cycle. *)
LEMMA RecordedStaysQuiet ==
  ASSUME PollerTypeOK, StoresOnlyLater, NEW t, NEW span_end, NEW as_of \in Tags,
         QuietUntil(t, span_end, as_of)
  PROVE  as_of \in Tags' /\ QuietUntil(t, span_end, as_of)'
<1>1. as_of \in Tags'
  BY DEF StoresOnlyLater, Tags
<1>2. \A s \in stop_events' \ stop_events : as_of < s.polled_at
  BY DEF StoresOnlyLater, Tags
<1> QED
  BY <1>1, <1>2 DEF QuietUntil

(* The order of a build's reads is kept by every step. *)
LEMMA BuildOrderStep ==
  ASSUME TypeOK, TagOrder, BuildOrder, [Next]_vars
  PROVE  BuildOrder'
<1>a. PollerTypeOK
  BY TypeParts
<1>1. CASE UNCHANGED vars
  BY <1>1 DEF vars, pollerVars, cycleVars, tables, buildVars, BuildOrder, Tags,
       QuietUntil, Verdicts
<1>2. CASE PollerNext /\ UNCHANGED <<buildVars, labels>>
  <2>1. StoresOnlyLater
    BY <1>a, <1>2, PollerStoresOnlyLater
  <2>2. UNCHANGED <<b_pc, b_as_of, b_anchored, b_groups, Verdicts>>
    BY <1>2 DEF buildVars, Verdicts
  <2>3. Tags \subseteq Tags'
    BY <2>1 DEF StoresOnlyLater, Tags
  <2>4. ASSUME NEW g \in b_groups, b_anchored
        PROVE  QuietUntil(g.trip_stop, g.observed_span_end, b_as_of)'
    <3>1. b_as_of \in Tags /\ QuietUntil(g.trip_stop, g.observed_span_end, b_as_of)
      BY <2>4 DEF BuildOrder
    <3> QED
      BY <1>a, <2>1, <2>2, <3>1, RecordedStaysQuiet DEF QuietUntil
  <2>5. ASSUME NEW l \in Verdicts, l.anchored
        PROVE  /\ l.as_of \in Tags'
               /\ l.observed_span_end + SettleMargin <= l.as_of
               /\ QuietUntil(l.trip_stop, l.observed_span_end, l.as_of)'
    BY <1>a, <2>1, <2>5, RecordedStaysQuiet DEF BuildOrder
  <2> QED
    BY <2>2, <2>3, <2>4, <2>5 DEF BuildOrder
<1>3. CASE BuildStep /\ UNCHANGED pollerVars
  <2>a. UNCHANGED <<stop_events, poll_runs, Tags>>
    BY <1>3 DEF pollerVars, tables, Tags
  <2>b. ASSUME NEW t, NEW e, NEW a, QuietUntil(t, e, a)
        PROVE  QuietUntil(t, e, a)'
    BY <2>a, <2>b DEF QuietUntil
  <2>c. ASSUME Verdicts' \subseteq Verdicts, NEW l \in Verdicts', l.anchored
        PROVE  /\ l.as_of \in Tags'
               /\ l.observed_span_end + SettleMargin <= l.as_of
               /\ QuietUntil(l.trip_stop, l.observed_span_end, l.as_of)'
    BY <2>a, <2>b, <2>c DEF BuildOrder
  <2>1. CASE StartBuild
    <3>1. Verdicts' \subseteq Verdicts /\ b_groups' = b_groups /\ b_pc = "idle"
          /\ b_pc' = "groups"
      BY <2>1 DEF StartBuild, Verdicts
    <3>2. b_groups' = {}
      BY <3>1 DEF BuildOrder
    <3>3. b_anchored' => b_as_of' \in Tags
      BY <2>1 DEF StartBuild
    <3> QED
      BY <2>a, <2>c, <3>1, <3>2, <3>3 DEF BuildOrder
  <2>2. CASE FetchTouchedGroups
    <3>1. Verdicts' \subseteq Verdicts /\ b_groups' = touched_groups /\ b_pc = "groups"
          /\ b_pc' = "runs" /\ UNCHANGED <<b_as_of, b_anchored>>
      BY <2>2 DEF FetchTouchedGroups, Verdicts
    <3>2. ASSUME NEW g \in touched_groups
          PROVE  QuietUntil(g.trip_stop, g.observed_span_end, b_as_of)'
      <4>1. IsGroup(g)
        BY DEF touched_groups
      <4> QED
        BY <4>1, <2>a, <3>1 DEF IsGroup, QuietUntil
    <3>3. b_anchored => b_as_of \in Tags
      BY <3>1 DEF BuildOrder
    <3> QED
      BY <2>a, <2>c, <3>1, <3>2, <3>3 DEF BuildOrder
  <2>3. CASE FetchPollRuns
    <3>1. b_groups' = {} /\ b_pc' = "upsert" /\ b_pc = "runs" /\ labels' = labels
      BY <2>3 DEF FetchPollRuns
    <3>2. ASSUME NEW l \in Verdicts', l.anchored
          PROVE  /\ l.as_of \in Tags'
                 /\ l.observed_span_end + SettleMargin <= l.as_of
                 /\ QuietUntil(l.trip_stop, l.observed_span_end, l.as_of)'
      <4>1. CASE l \in labels
        BY <2>a, <2>b, <3>2, <4>1 DEF BuildOrder, Verdicts
      <4>2. CASE l \in b_rows'
        <5>1. PICK g \in b_groups :
                /\ is_settled(g.observed_span_end, b_as_of)
                /\ l = derive_label_row(g, compute_gap_intervals(poll_runs))
          BY <2>3, <4>2 DEF FetchPollRuns
        <5>2. /\ l.trip_stop = g.trip_stop
              /\ l.observed_span_end = g.observed_span_end
              /\ l.as_of = b_as_of
              /\ l.anchored = b_anchored
          BY <5>1 DEF derive_label_row
        <5>3. b_as_of \in Tags /\ QuietUntil(g.trip_stop, g.observed_span_end, b_as_of)
          BY <3>1, <3>2, <5>2 DEF BuildOrder
        <5>4. g.observed_span_end \in Nat /\ b_as_of \in Nat /\ SettleMargin \in Nat
          BY GapLedgerAssumption DEF TypeOK, Group
        <5>5. l.observed_span_end + SettleMargin <= l.as_of
          BY <5>1, <5>2, <5>4 DEF is_settled
        <5> QED
          BY <2>a, <2>b, <5>2, <5>3, <5>5
      <4> QED
        BY <3>1, <3>2, <4>1, <4>2 DEF Verdicts
    <3> QED
      BY <3>1, <3>2 DEF BuildOrder
  <2>4. CASE UpsertLabel
    <3>1. Verdicts' \subseteq Verdicts /\ UNCHANGED <<b_pc, b_as_of, b_anchored, b_groups>>
      BY <2>4 DEF UpsertLabel, Verdicts
    <3>2. ASSUME NEW g \in b_groups', b_anchored'
          PROVE  QuietUntil(g.trip_stop, g.observed_span_end, b_as_of)'
      BY <2>a, <3>1, <3>2 DEF BuildOrder, QuietUntil
    <3> QED
      BY <2>a, <2>c, <3>1, <3>2 DEF BuildOrder
  <2>5. CASE FinishBuild \/ BuildCrash
    <3>1. Verdicts' \subseteq Verdicts /\ b_pc' = "idle" /\ b_groups' = {}
      BY <2>5 DEF FinishBuild, BuildCrash, EndBuild, Verdicts
    <3> QED
      BY <2>c, <3>1 DEF BuildOrder
  <2> QED
    BY <1>3, <2>1, <2>2, <2>3, <2>4, <2>5 DEF BuildStep
<1> QED
  BY <1>1, <1>2, <1>3, NextCases

-----------------------------------------------------------------------------
(* The reason depends on the ledger only through whether a gap abuts. *)
LEMMA ReasonFollowsAbut ==
  ASSUME NEW signal, NEW span_end, NEW g1, NEW g2,
         gap_abuts(span_end, g1) <=> gap_abuts(span_end, g2)
  PROVE  closed_reason(signal, span_end, g1) = closed_reason(signal, span_end, g2)
<1>1. CASE gap_abuts(span_end, g1)
  BY <1>1, Zenon DEF closed_reason
<1>2. CASE ~gap_abuts(span_end, g1)
  BY <1>2, Zenon DEF closed_reason
<1> QED
  BY <1>1, <1>2

(* A verdict stays what judging the current ledger gives. *)
LEMMA VerdictsStep ==
  ASSUME TypeOK, TagOrder, BuildOrder, VerdictsAreFinal, [Next]_vars
  PROVE  VerdictsAreFinal'
<1>a. PollerTypeOK
  BY TypeParts
<1>b. ASSUME poll_runs' = poll_runs, Verdicts' \subseteq Verdicts
      PROVE  VerdictsAreFinal'
  BY <1>b DEF VerdictsAreFinal
<1>1. CASE UNCHANGED vars
  BY <1>1, <1>b DEF vars, pollerVars, tables, buildVars, Verdicts
<1>2. CASE PollerNext /\ UNCHANGED <<buildVars, labels>>
  <2>1. StoresOnlyLater /\ Verdicts' = Verdicts
    BY <1>a, <1>2, PollerStoresOnlyLater DEF buildVars, Verdicts
  <2>2. CASE poll_runs' = poll_runs
    BY <1>b, <2>1, <2>2
  <2>3. CASE \E new \in Run : /\ poll_runs' = poll_runs \cup {new}
                              /\ \A r \in poll_runs : r.polled_at < new.polled_at
    <3>1. PICK new \in Run : /\ poll_runs' = poll_runs \cup {new}
                             /\ \A r \in poll_runs : r.polled_at < new.polled_at
      BY <2>3
    <3>2. ASSUME NEW l \in Verdicts, IsFinal(l)
          PROVE  gap_abuts(l.observed_span_end, compute_gap_intervals(poll_runs'))
                   <=> gap_abuts(l.observed_span_end, compute_gap_intervals(poll_runs))
      <4>0. l.anchored /\ l.observed_span_end + SettleMargin < l.as_of
        BY <3>2 DEF IsFinal
      <4>1. PICK w \in poll_runs : w.polled_at = l.as_of
        BY <4>0 DEF BuildOrder, Tags
      <4>2. l.observed_span_end \in Nat
        BY DEF TypeOK, Verdicts, Label
      <4>3. poll_runs \subseteq LedgerRow /\ new \in LedgerRow
        BY <1>a DEF PollerTypeOK, LedgerRow, Run
      <4> QED
        BY <3>1, <4>0, <4>1, <4>2, <4>3, AppendKeepsVerdict
    <3>3. ASSUME NEW l \in Verdicts, IsFinal(l)
          PROVE  l.closed_reason =
                   closed_reason(l.trip_stop \notin OriginStops, l.observed_span_end,
                                 compute_gap_intervals(poll_runs'))
      <4>1. l.closed_reason =
              closed_reason(l.trip_stop \notin OriginStops, l.observed_span_end,
                            compute_gap_intervals(poll_runs))
        BY <3>3 DEF VerdictsAreFinal
      <4> QED
        BY <3>2, <3>3, <4>1, ReasonFollowsAbut
    <3> QED
      BY <2>1, <3>3 DEF VerdictsAreFinal
  <2> QED
    BY <2>1, <2>2, <2>3 DEF StoresOnlyLater
<1>3. CASE BuildStep /\ UNCHANGED pollerVars
  <2>a. poll_runs' = poll_runs
    BY <1>3 DEF pollerVars, tables
  <2>1. CASE StartBuild \/ FetchTouchedGroups \/ UpsertLabel \/ FinishBuild \/ BuildCrash
    <3>1. Verdicts' \subseteq Verdicts
      BY <2>1 DEF StartBuild, FetchTouchedGroups, UpsertLabel, FinishBuild,
           BuildCrash, EndBuild, Verdicts
    <3> QED
      BY <1>b, <2>a, <3>1
  <2>2. CASE FetchPollRuns
    <3>1. ASSUME NEW l \in b_rows'
          PROVE  l.closed_reason =
                   closed_reason(l.trip_stop \notin OriginStops, l.observed_span_end,
                                 compute_gap_intervals(poll_runs))
      <4>1. PICK g \in b_groups : l = derive_label_row(g, compute_gap_intervals(poll_runs))
        BY <2>2, <3>1 DEF FetchPollRuns
      <4> QED
        BY <4>1 DEF derive_label_row
    <3>2. labels' = labels
      BY <2>2 DEF FetchPollRuns
    <3> QED
      BY <2>a, <3>1, <3>2 DEF VerdictsAreFinal, Verdicts
  <2> QED
    BY <1>3, <2>1, <2>2 DEF BuildStep
<1> QED
  BY <1>1, <1>2, <1>3, NextCases

-----------------------------------------------------------------------------
(* The recorded cycles in the window a disappearance is judged against. *)
Window(span_end) ==
  {r \in poll_runs :
     span_end < r.polled_at /\ r.polled_at <= span_end + SettleMargin}

Witnessed(l) ==
  /\ \E r \in Window(l.observed_span_end) :
       r.polled_at <= l.observed_span_end + GapThreshold
  /\ \A r \in Window(l.observed_span_end) :
       ~r.error /\ ReadAsAbsent(l.trip_stop, r.polled_at)

HasHead(l) == \E h \in poll_runs : h.polled_at <= l.observed_span_end

(* The property the runs check, label by label. *)
LEMMA WitnessParts ==
  WitnessedDisappearance <=>
    \A l \in Verdicts :
      l.anchored /\ l.closed_reason = "normal" /\ HasHead(l) => Witnessed(l)
BY DEF WitnessedDisappearance, Witnessed, Window, HasHead

LEMMA WitnessPartsNext ==
  WitnessedDisappearance' <=>
    \A l \in Verdicts' :
      l.anchored /\ l.closed_reason = "normal" /\ HasHead(l)' => Witnessed(l)'
BY DEF WitnessedDisappearance, Witnessed, Window, HasHead

(* A label derived from quiet, complete and unabutted data is witnessed. *)
LEMMA DerivedIsWitnessed ==
  ASSUME TypeOK, ErrorFreeMeansComplete, NEW l,
         l.trip_stop \in TripStops, l.observed_span_end \in Nat, l.as_of \in Tags,
         l.observed_span_end + SettleMargin <= l.as_of,
         QuietUntil(l.trip_stop, l.observed_span_end, l.as_of),
         ~gap_abuts(l.observed_span_end, compute_gap_intervals(poll_runs)),
         HasHead(l)
  PROVE  Witnessed(l)
<1> DEFINE e == l.observed_span_end
<1>a. /\ SettleMargin \in Nat \ {0} /\ GapThreshold \in Nat
      /\ GapThreshold <= SettleMargin
  BY GapLedgerAssumption
<1>b. poll_runs \subseteq LedgerRow /\ \A r \in poll_runs : r.polled_at \in Nat
  BY DEF TypeOK, PollerTypeOK, LedgerRow, Run
<1>1. PICK h \in poll_runs : h.polled_at <= e
  BY DEF HasHead
<1>2. PICK w \in poll_runs : w.polled_at = l.as_of
  BY DEF Tags
<1>3. e < w.polled_at
  BY <1>a, <1>b, <1>2
<1>4. /\ \E r \in poll_runs : e < r.polled_at /\ r.polled_at <= e + GapThreshold
      /\ \A r \in poll_runs :
           e <= r.polled_at /\ r.polled_at <= e + SettleMargin => ~r.error
  BY <1>b, <1>1, <1>3, CleanWindow
<1>5. ASSUME NEW r \in Window(e)
      PROVE  ~r.error /\ ReadAsAbsent(l.trip_stop, r.polled_at)
  <2>1. r \in poll_runs /\ e < r.polled_at /\ r.polled_at <= e + SettleMargin
    BY DEF Window
  <2>2. ~r.error
    BY <1>4, <1>b, <2>1
  <2>3. Seen(l.trip_stop, r.polled_at) \/ ReadAsAbsent(l.trip_stop, r.polled_at)
    BY <2>1, <2>2 DEF ErrorFreeMeansComplete
  <2>4. ~Seen(l.trip_stop, r.polled_at)
    <3>1. SUFFICES ASSUME Seen(l.trip_stop, r.polled_at) PROVE FALSE
      OBVIOUS
    <3>2. r.polled_at <= e \/ l.as_of < r.polled_at
      BY <3>1 DEF Seen, QuietUntil
    <3>3. l.as_of \in Nat
      BY <1>b, <1>2
    <3> QED
      BY <1>a, <1>b, <2>1, <3>2, <3>3
  <2> QED
    BY <2>2, <2>3, <2>4
<1>6. \E r \in Window(e) : r.polled_at <= e + GapThreshold
  <2>1. PICK r \in poll_runs : e < r.polled_at /\ r.polled_at <= e + GapThreshold
    BY <1>4
  <2>2. r.polled_at <= e + SettleMargin
    BY <1>a, <1>b, <2>1
  <2> QED
    BY <2>1, <2>2 DEF Window
<1> QED
  BY <1>5, <1>6 DEF Witnessed

(* What a closed label rests on is not undone by any later step. *)
LEMMA WitnessStep ==
  ASSUME TypeOK, TagOrder, BuildOrder, ErrorFreeMeansComplete, WitnessedDisappearance,
         [Next]_vars
  PROVE  WitnessedDisappearance'
<1>a. PollerTypeOK
  BY TypeParts
<1>b. ASSUME UNCHANGED <<poll_runs, absent>>, NEW l
      PROVE  (HasHead(l)' <=> HasHead(l)) /\ (Witnessed(l) => Witnessed(l)')
  BY <1>b DEF HasHead, Witnessed, Window, ReadAsAbsent
<1>c. ASSUME UNCHANGED <<poll_runs, absent>>, Verdicts' \subseteq Verdicts
      PROVE  WitnessedDisappearance'
  BY <1>b, <1>c, WitnessParts, WitnessPartsNext
<1>1. CASE UNCHANGED vars
  BY <1>1, <1>c DEF vars, pollerVars, tables, buildVars, Verdicts
<1>2. CASE PollerNext /\ UNCHANGED <<buildVars, labels>>
  <2>1. StoresOnlyLater /\ Verdicts' = Verdicts
    BY <1>a, <1>2, PollerStoresOnlyLater DEF buildVars, Verdicts
  <2>2. ASSUME NEW l \in Verdicts, l.anchored, l.closed_reason = "normal", HasHead(l)'
        PROVE  Witnessed(l)'
    <3>a. /\ l.observed_span_end \in Nat /\ SettleMargin \in Nat
          /\ \A r \in poll_runs : r.polled_at \in Nat
      BY <1>a, GapLedgerAssumption DEF TypeOK, Verdicts, Label, PollerTypeOK, Run
    <3>1. PICK w \in poll_runs : /\ w.polled_at = l.as_of
                                 /\ l.observed_span_end + SettleMargin <= l.as_of
      BY <2>2 DEF BuildOrder, Tags
    <3>2. \A r \in poll_runs' : r \in poll_runs \/ (w.polled_at < r.polled_at /\ r.polled_at \in Nat)
      BY <2>1 DEF StoresOnlyLater, Run
    <3>3. \A r \in poll_runs' \ poll_runs : l.observed_span_end + SettleMargin < r.polled_at
      BY <3>a, <3>1, <3>2
    <3>4. HasHead(l)
      <4>1. PICK h \in poll_runs' : h.polled_at <= l.observed_span_end
        BY <2>2 DEF HasHead
      <4>2. h \in poll_runs
        BY <4>1, <3>a, <3>2, <3>3
      <4> QED
        BY <4>1, <4>2 DEF HasHead
    <3>5. Witnessed(l)
      BY <2>2, <3>4, WitnessParts
    <3>6. Window(l.observed_span_end)' = Window(l.observed_span_end)
      <4>1. Window(l.observed_span_end)' \subseteq Window(l.observed_span_end)
        <5>1. ASSUME NEW r \in poll_runs' \ poll_runs
              PROVE  ~(r.polled_at <= l.observed_span_end + SettleMargin)
          BY <3>3, <3>2, <3>a
        <5> QED
          BY <5>1 DEF Window
      <4>2. Window(l.observed_span_end) \subseteq Window(l.observed_span_end)'
        BY <2>1 DEF Window, StoresOnlyLater
      <4> QED
        BY <4>1, <4>2
    <3> QED
      BY <2>1, <3>5, <3>6 DEF Witnessed, ReadAsAbsent, StoresOnlyLater
  <2> QED
    BY <2>1, <2>2, WitnessPartsNext
<1>3. CASE BuildStep /\ UNCHANGED pollerVars
  <2>a. UNCHANGED <<poll_runs, absent>>
    BY <1>3 DEF pollerVars, tables
  <2>1. CASE StartBuild \/ FetchTouchedGroups \/ UpsertLabel \/ FinishBuild \/ BuildCrash
    <3>1. Verdicts' \subseteq Verdicts
      BY <2>1 DEF StartBuild, FetchTouchedGroups, UpsertLabel, FinishBuild,
           BuildCrash, EndBuild, Verdicts
    <3> QED
      BY <1>c, <2>a, <3>1
  <2>2. CASE FetchPollRuns
    <3>1. ASSUME NEW l \in b_rows', l.anchored, l.closed_reason = "normal", HasHead(l)
          PROVE  Witnessed(l)
      <4>1. PICK g \in b_groups : l = derive_label_row(g, compute_gap_intervals(poll_runs))
        BY <2>2, <3>1 DEF FetchPollRuns
      <4>2. l \in Verdicts'
        BY <3>1 DEF Verdicts
      <4>3. TypeOK' /\ BuildOrder'
        BY TypeStep, BuildOrderStep
      <4>4. /\ l.as_of \in Tags
            /\ l.observed_span_end + SettleMargin <= l.as_of
            /\ QuietUntil(l.trip_stop, l.observed_span_end, l.as_of)
        BY <1>3, <3>1, <4>2, <4>3 DEF BuildOrder, Tags, QuietUntil, pollerVars, tables
      <4>5. l.trip_stop \in TripStops /\ l.observed_span_end \in Nat
        BY <3>1, <4>3 DEF TypeOK, Label
      <4>6. ~gap_abuts(l.observed_span_end, compute_gap_intervals(poll_runs))
        <5>1. l.closed_reason = closed_reason(l.trip_stop \notin OriginStops,
                l.observed_span_end, compute_gap_intervals(poll_runs))
          BY <4>1 DEF derive_label_row
        <5> QED
          BY <3>1, <5>1 DEF closed_reason
      <4> QED
        BY <3>1, <4>4, <4>5, <4>6, DerivedIsWitnessed
    <3>2. labels' = labels
      BY <2>2 DEF FetchPollRuns
    <3>3. ASSUME NEW l \in Verdicts', l.anchored, l.closed_reason = "normal", HasHead(l)'
          PROVE  Witnessed(l)'
      <4>1. HasHead(l)
        BY <1>b, <2>a, <3>3
      <4>2. Witnessed(l)
        BY <3>1, <3>2, <3>3, <4>1, WitnessParts DEF Verdicts
      <4> QED
        BY <1>b, <2>a, <4>2
    <3> QED
      BY <3>3, WitnessPartsNext
  <2> QED
    BY <1>3, <2>1, <2>2 DEF BuildStep
<1> QED
  BY <1>1, <1>2, <1>3, NextCases

-----------------------------------------------------------------------------
(* The last sighting a label or a group speaks of is in the table. *)
Sighted(x) ==
  [trip_stop |-> x.trip_stop, polled_at |-> x.observed_span_end] \in stop_events

(* A build holds one group, then one row, per trip-stop, and neither is  *)
(* behind the label it will replace.                                     *)
RebuildsAdvance ==
  /\ \A x \in Verdicts \cup b_groups : Sighted(x)
  /\ \A g, h \in b_groups : g.trip_stop = h.trip_stop => g = h
  /\ \A r, s \in b_rows : r.trip_stop = s.trip_stop => r = s
  /\ \A l \in labels, g \in b_groups :
       l.trip_stop = g.trip_stop => l.observed_span_end <= g.observed_span_end
  /\ \A l \in labels, r \in b_rows : l.trip_stop = r.trip_stop => Supersedes(r, l)

(* A label stands in for itself. *)
LEMMA SupersedesItself ==
  ASSUME NEW l, l.observed_span_end \in Nat PROVE Supersedes(l, l)
BY DEF Supersedes

(* What was read of the groups is the latest there is of each. *)
LEMMA TouchedAreLatest ==
  ASSUME TypeOK, RebuildsAdvance
  PROVE  /\ \A g \in touched_groups : Sighted(g)
         /\ \A g, h \in touched_groups : g.trip_stop = h.trip_stop => g = h
         /\ \A l \in labels, g \in touched_groups :
              l.trip_stop = g.trip_stop => l.observed_span_end <= g.observed_span_end
<1>1. ASSUME NEW g \in touched_groups
      PROVE  /\ Sighted(g)
             /\ g = [trip_stop |-> g.trip_stop, observed_span_end |-> g.observed_span_end]
             /\ \A s \in stop_events :
                  s.trip_stop = g.trip_stop => s.polled_at <= g.observed_span_end
  BY <1>1 DEF touched_groups, IsGroup, Sighted
<1>2. ASSUME NEW x, Sighted(x)
      PROVE  \E s \in stop_events :
               s.trip_stop = x.trip_stop /\ s.polled_at = x.observed_span_end
                 /\ x.observed_span_end \in Nat
  BY <1>2 DEF Sighted, TypeOK, PollerTypeOK, Sighting
<1>3. ASSUME NEW x, Sighted(x), NEW g \in touched_groups, x.trip_stop = g.trip_stop
      PROVE  x.observed_span_end <= g.observed_span_end
             /\ x.observed_span_end \in Nat /\ g.observed_span_end \in Nat
  BY <1>1, <1>2, <1>3
<1>4. ASSUME NEW g \in touched_groups, NEW h \in touched_groups, g.trip_stop = h.trip_stop
      PROVE  g = h
  <2>1. g.observed_span_end = h.observed_span_end
    BY <1>1, <1>3, <1>4
  <2> QED
    BY <1>1, <1>4, <2>1
<1>5. \A l \in labels : Sighted(l)
  BY DEF RebuildsAdvance, Verdicts
<1> QED
  BY <1>1, <1>3, <1>4, <1>5

(* A row derived from the latest group replaces no final verdict on the same *)
(* span by another.                                                          *)
LEMMA DerivedSupersedes ==
  ASSUME VerdictsAreFinal, NEW l \in labels, NEW g, l.trip_stop = g.trip_stop,
         l.observed_span_end <= g.observed_span_end
  PROVE  Supersedes(derive_label_row(g, compute_gap_intervals(poll_runs)), l)
<1> DEFINE row == derive_label_row(g, compute_gap_intervals(poll_runs))
<1>1. /\ row.observed_span_end = g.observed_span_end
      /\ row.closed_reason =
           closed_reason(g.trip_stop \notin OriginStops, g.observed_span_end,
                         compute_gap_intervals(poll_runs))
  BY DEF derive_label_row
<1>2. IsFinal(l) => l.closed_reason =
        closed_reason(l.trip_stop \notin OriginStops, l.observed_span_end,
                      compute_gap_intervals(poll_runs))
  BY DEF VerdictsAreFinal, Verdicts
<1> QED
  BY <1>1, <1>2 DEF Supersedes

LEMMA RebuildsAdvanceStep ==
  ASSUME TypeOK, BuildOrder, VerdictsAreFinal, RebuildsAdvance, [Next]_vars
  PROVE  RebuildsAdvance'
<1>a. /\ \A x \in Verdicts \cup b_groups : Sighted(x)
      /\ \A g, h \in b_groups : g.trip_stop = h.trip_stop => g = h
      /\ \A r, s \in b_rows : r.trip_stop = s.trip_stop => r = s
      /\ \A l \in labels, g \in b_groups :
           l.trip_stop = g.trip_stop => l.observed_span_end <= g.observed_span_end
      /\ \A l \in labels, r \in b_rows : l.trip_stop = r.trip_stop => Supersedes(r, l)
  BY DEF RebuildsAdvance
<1>b. ASSUME stop_events \subseteq stop_events', NEW x, Sighted(x) PROVE Sighted(x)'
  BY <1>b DEF Sighted
<1>c. ASSUME stop_events \subseteq stop_events', labels' = labels,
             b_groups' \subseteq b_groups, b_rows' \subseteq b_rows
      PROVE  RebuildsAdvance'
  <2>1. Verdicts' \cup b_groups' \subseteq Verdicts \cup b_groups
    BY <1>c DEF Verdicts
  <2>2. \A x \in Verdicts' \cup b_groups' : Sighted(x)'
    BY <1>a, <1>b, <1>c, <2>1
  <2> QED
    BY <1>a, <1>c, <2>2 DEF RebuildsAdvance
<1>1. CASE UNCHANGED vars
  BY <1>1, <1>c DEF vars, pollerVars, tables, buildVars
<1>2. CASE PollerNext /\ UNCHANGED <<buildVars, labels>>
  <2>1. stop_events \subseteq stop_events'
    BY <1>2 DEF PollerNext, PollerStep, Tick, LaunchdStart, Crash, ConnectFails,
       ConnectExhausted, BeginCycle, DeadlineExceeded, StartBatch, BatchLands, BatchFails,
       RecordRun, CycleRaises, tables
  <2> QED
    BY <1>2, <1>c, <2>1 DEF buildVars
<1>3. CASE BuildStep /\ UNCHANGED pollerVars
  <2>a. stop_events' = stop_events /\ poll_runs' = poll_runs
    BY <1>3 DEF pollerVars, tables
  <2>1. CASE StartBuild \/ FinishBuild \/ BuildCrash
    BY <1>c, <2>a, <2>1 DEF StartBuild, FinishBuild, BuildCrash, EndBuild
  <2>2. CASE FetchTouchedGroups
    <3>1. b_groups' = touched_groups /\ b_rows' = b_rows /\ labels' = labels
      BY <2>2 DEF FetchTouchedGroups
    <3>2. \A x \in Verdicts' \cup b_groups' : Sighted(x)'
      BY <1>a, <1>b, <2>a, <3>1, TouchedAreLatest DEF Verdicts
    <3> QED
      BY <1>a, <3>1, <3>2, TouchedAreLatest DEF RebuildsAdvance
  <2>3. CASE FetchPollRuns
    <3>1. /\ labels' = labels /\ b_groups' = {}
          /\ \A r \in b_rows' : \E g \in b_groups :
               r = derive_label_row(g, compute_gap_intervals(poll_runs))
      BY <2>3 DEF FetchPollRuns
    <3>2. ASSUME NEW g
          PROVE  LET r == derive_label_row(g, compute_gap_intervals(poll_runs))
                 IN  r.trip_stop = g.trip_stop /\ r.observed_span_end = g.observed_span_end
      BY DEF derive_label_row
    <3>3. \A x \in Verdicts' \cup b_groups' : Sighted(x)'
      <4>1. ASSUME NEW r \in b_rows' PROVE Sighted(r)
        BY <1>a, <3>1, <3>2 DEF Sighted
      <4> QED
        BY <1>a, <1>b, <2>a, <3>1, <4>1 DEF Verdicts
    <3>4. \A r, s \in b_rows' : r.trip_stop = s.trip_stop => r = s
      BY <1>a, <3>1, <3>2
    <3>5. ASSUME NEW l \in labels, NEW r \in b_rows', l.trip_stop = r.trip_stop
          PROVE  Supersedes(r, l)
      <4>1. PICK g \in b_groups : r = derive_label_row(g, compute_gap_intervals(poll_runs))
        BY <3>1
      <4>2. l.trip_stop = g.trip_stop /\ l.observed_span_end <= g.observed_span_end
        BY <1>a, <3>2, <3>5, <4>1
      <4> QED
        BY <4>1, <4>2, DerivedSupersedes
    <3> QED
      BY <3>1, <3>3, <3>4, <3>5 DEF RebuildsAdvance
  <2>4. CASE UpsertLabel
    <3>1. PICK row \in b_rows :
            /\ labels' = {l \in labels : l.trip_stop # row.trip_stop} \cup {row}
            /\ b_rows' = b_rows \ {row}
      BY <2>4 DEF UpsertLabel
    <3>2. b_groups' = b_groups
      BY <2>4 DEF UpsertLabel
    <3>3. b_groups = {}
      BY <2>4 DEF UpsertLabel, BuildOrder
    <3> QED
      BY <1>a, <1>b, <2>a, <3>1, <3>2, <3>3 DEF RebuildsAdvance, Verdicts
  <2> QED
    BY <1>3, <2>1, <2>2, <2>3, <2>4 DEF BuildStep
<1> QED
  BY <1>1, <1>2, <1>3, NextCases

(* No step of the system loses a label or sets one back. *)
LEMMA LabelsAdvanceStep ==
  ASSUME TypeOK, RebuildsAdvance, [Next]_vars
  PROVE  \A l \in labels : \E m \in labels' : m.trip_stop = l.trip_stop /\ Supersedes(m, l)
<1> SUFFICES ASSUME NEW l \in labels
             PROVE  \E m \in labels' : m.trip_stop = l.trip_stop /\ Supersedes(m, l)
  OBVIOUS
<1>1. Supersedes(l, l)
  BY SupersedesItself DEF TypeOK, Label
<1>2. CASE l \in labels'
  BY <1>1, <1>2
<1>3. CASE UpsertLabel
  <2>1. PICK row \in b_rows :
          labels' = {k \in labels : k.trip_stop # row.trip_stop} \cup {row}
    BY <1>3 DEF UpsertLabel
  <2>2. CASE l.trip_stop = row.trip_stop
    BY <2>1, <2>2 DEF RebuildsAdvance
  <2> QED
    BY <1>2, <2>1, <2>2
<1>4. labels' = labels \/ UpsertLabel
  BY NextCases DEF BuildStep, StartBuild, FetchTouchedGroups, FetchPollRuns, FinishBuild,
     BuildCrash, EndBuild, vars
<1> QED
  BY <1>2, <1>3, <1>4

-----------------------------------------------------------------------------
IInv == TypeOK /\ TagOrder /\ BuildOrder /\ VerdictsAreFinal /\ RebuildsAdvance

(* The inductive invariant holds initially ... *)
LEMMA IInvInit == Init => IInv /\ CoverageInv /\ WitnessedDisappearance
<1> SUFFICES ASSUME Init PROVE IInv /\ CoverageInv /\ WitnessedDisappearance
  OBVIOUS
<1>1. PollerInv /\ CoverageInv
  BY PollerInvInit DEF Init
<1>2. BuildIdle /\ labels = {} /\ Verdicts = {}
  BY DEF Init, BuildIdle, Verdicts
<1>3. BuildTypeOK /\ b_anchored \in BOOLEAN
  BY <1>2 DEF BuildIdle, BuildTypeOK
<1>4. TypeOK
  BY <1>1, <1>3, TypeParts DEF PollerInv
<1>5. BuildOrder
  BY <1>2 DEF BuildIdle, BuildOrder
<1>6. VerdictsAreFinal /\ WitnessedDisappearance
  BY <1>2 DEF VerdictsAreFinal, WitnessedDisappearance
<1>7. RebuildsAdvance
  BY <1>2 DEF BuildIdle, RebuildsAdvance
<1> QED
  BY <1>1, <1>4, <1>5, <1>6, <1>7 DEF IInv, PollerInv

(* ... and every step keeps it; without silent losses the coverage of the *)
(* recorded cycles and the witnesses of the labels are kept as well.      *)
LEMMA IInvStep == IInv /\ [Next]_vars => IInv'
<1> SUFFICES ASSUME IInv, [Next]_vars PROVE IInv'
  OBVIOUS
<1>1. TypeOK /\ TagOrder /\ BuildOrder /\ VerdictsAreFinal /\ RebuildsAdvance /\ PollerTypeOK
  BY TypeParts DEF IInv
<1>2. [PollerNext]_pollerVars
  BY NextCases DEF vars
<1>3. TagOrder'
  BY <1>1, <1>2, TagOrderStep, PollerStutter DEF PollerInv
<1> QED
  BY <1>1, <1>3, TypeStep, BuildOrderStep, VerdictsStep, RebuildsAdvanceStep DEF IInv

LEMMA CoverageStep ==
  ASSUME SilentDrop = FALSE, IInv, CoverageInv, WitnessedDisappearance, [Next]_vars
  PROVE  CoverageInv' /\ WitnessedDisappearance'
<1>1. TypeOK /\ TagOrder /\ BuildOrder /\ PollerTypeOK
  BY TypeParts DEF IInv
<1>2. [PollerNext]_pollerVars
  BY NextCases DEF vars
<1>3. CoverageInv'
  BY <1>1, <1>2, BatchesCoveredStep, ErrorFreeStep, PollerStutter DEF CoverageInv
<1>4. WitnessedDisappearance'
  BY <1>1, WitnessStep DEF CoverageInv
<1> QED
  BY <1>3, <1>4

(* The state of the poller and of the build always has its type. *)
THEOREM TypeCorrect == Spec => []TypeOK
<1>1. IInv => TypeOK
  BY DEF IInv
<1> QED
  BY IInvInit, IInvStep, <1>1, PTL DEF Spec

(* With the default as_of, run_build never closes a trip-stop that a      *)
(* recorded cycle had seen again: its three separate reads, in the order  *)
(* as_of, stop_events, poll_runs, are as good as one snapshot.            *)
THEOREM SettledLabelsAreQuiet == Spec => []SettledMeansQuiet
<1>1. IInv => SettledMeansQuiet
  BY DEF IInv, BuildOrder, SettledMeansQuiet, QuietUntil
<1> QED
  BY IInvInit, IInvStep, <1>1, PTL DEF Spec

(* A verdict given with the default as_of, strictly beyond the window, is *)
(* what any later build would give for the same span, however the ledger  *)
(* grows.                                                                 *)
THEOREM VerdictsNeverChange == Spec => []VerdictsAreFinal
<1>1. IInv => VerdictsAreFinal
  BY DEF IInv
<1> QED
  BY IInvInit, IInvStep, <1>1, PTL DEF Spec

(* Beside label builds, which may run at any time and be killed anywhere, the  *)
(* poller still keeps its promise to those who read its tables up to a         *)
(* recorded cycle: a cycle appears at once and whole.                          *)
THEOREM CyclesStayAtomicBesideBuilds == Spec => CyclesAreAtomic
<1>1. Init => PollerInit
  BY DEF Init
<1>2. [Next]_vars => [PollerNext]_pollerVars
  BY NextCases DEF vars
<1> QED
  BY <1>1, <1>2, CyclesImplementLedger, PTL DEF Spec

(* Reruns of the label build only advance: a label is replaced by one of the  *)
(* same or a later last sighting, with the same reason if its verdict was     *)
(* final, for any windows and as_of, wherever a build is killed and whatever  *)
(* the poller commits between its reads and its writes.                       *)
THEOREM LabelsAlwaysAdvance == Spec => LabelsOnlyAdvance
<1>1. IInv /\ [Next]_vars =>
        [ \A l \in labels : \E m \in labels' :
            m.trip_stop = l.trip_stop /\ Supersedes(m, l) ]_vars
  BY LabelsAdvanceStep DEF IInv
<1> QED
  BY IInvInit, IInvStep, <1>1, PTL DEF Spec, LabelsOnlyAdvance

(* The closing rule of pulse/labels.py: if the feed loses nothing silently, *)
(* a label usable for training (default as_of, a ledger row at or before    *)
(* its last sighting) is a disappearance some complete cycle observed       *)
(* within GapThreshold, and every recorded cycle of the window confirms.    *)
THEOREM CleanLabelsAreWitnessed ==
  ASSUME SilentDrop = FALSE
  PROVE  Spec => []WitnessedDisappearance
<1>1. IInv /\ CoverageInv /\ WitnessedDisappearance /\ [Next]_vars
        => IInv' /\ CoverageInv' /\ WitnessedDisappearance'
  BY IInvStep, CoverageStep
<1> QED
  BY IInvInit, <1>1, PTL DEF Spec
(* A run of scripts/train.py reports the same regime however long the poller *)
(* has gone on since the labels were built: what lies up to the last span of *)
(* labels with the default as_of is behind the ledger's latest row, and that *)
(* part of both tables is final.                                             *)
THEOREM RegimeAlwaysReproduces == Spec => RegimeReproduces
<1>1. ASSUME IInv, Next, labels' = labels, \A l \in labels : l.anchored
      PROVE  _regime' = _regime
  <2>a. TypeOK /\ TagOrder /\ BuildOrder /\ PollerTypeOK /\ PollerTypeOK'
    <3>1. TypeOK /\ TypeOK'
      BY <1>1, TypeStep DEF IInv
    <3> QED
      BY <1>1, <3>1 DEF IInv, TypeOK
  <2>1. CASE BuildStep /\ UNCHANGED pollerVars
    BY <1>1, <2>1 DEF pollerVars, tables, _regime, UpToLastSpan
  <2>2. CASE PollerNext
    <3>1. StoresOnlyLater
      BY <2>2, <2>a, PollerStoresOnlyLater
    <3>2. ASSUME NEW l \in labels,
                 NEW row \in (stop_events' \ stop_events) \cup (poll_runs' \ poll_runs)
          PROVE  ~(row.polled_at <= l.observed_span_end)
      <4>1. /\ row.polled_at \in Nat /\ l.observed_span_end \in Nat
            /\ SettleMargin \in Nat /\ l.as_of \in Nat
        BY <2>a, GapLedgerAssumption DEF PollerTypeOK, Sighting, Run, TypeOK, Label
      <4>2. \A r \in poll_runs : r.polled_at < row.polled_at
        BY <3>1 DEF StoresOnlyLater
      <4>3. l.as_of \in Tags /\ l.observed_span_end + SettleMargin <= l.as_of
        BY <1>1, <2>a DEF BuildOrder, Verdicts
      <4>4. l.as_of < row.polled_at
        BY <4>2, <4>3 DEF Tags
      <4> QED
        BY <4>1, <4>3, <4>4
    <3>3. UpToLastSpan(stop_events)' = UpToLastSpan(stop_events)
      BY <1>1, <3>1, <3>2 DEF UpToLastSpan, StoresOnlyLater
    <3>4. UpToLastSpan(poll_runs)' = UpToLastSpan(poll_runs)
      BY <1>1, <3>1, <3>2 DEF UpToLastSpan, StoresOnlyLater
    <3> QED
      BY <3>3, <3>4 DEF _regime
  <2> QED
    BY <1>1, <2>1, <2>2, NextCases
<1>2. ASSUME IInv, [Next]_vars
      PROVE  [ tables' # tables /\ labels' = labels /\ (\A l \in labels : l.anchored)
                 => _regime' = _regime ]_vars
  BY <1>1, <1>2
<1> QED
  BY IInvInit, IInvStep, <1>2, PTL DEF Spec, RegimeReproduces
=============================================================================
