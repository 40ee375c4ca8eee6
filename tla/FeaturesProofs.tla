--------------------------- MODULE FeaturesProofs ---------------------------
(***************************************************************************)
(* A feature row reads earlier labels only, so labels of its own instant   *)
(* and later ones never move it; no instant lies on both sides of the      *)
(* temporal split, which ties do not move; and the metrics agree with one  *)
(* another.  For any labels, schedules, windows, fractions, precisions.    *)
(***************************************************************************)
EXTENDS Training, FiniteSetTheorems, WellFoundedInduction, TLAPS

(* Rows that are current exist. *)
FeaturesIInv ==
  /\ Labelled \subseteq Keys
  /\ current \subseteq DOMAIN features
  /\ RowsStayCorrect

USE FeaturesAssumption

-----------------------------------------------------------------------------
(* What a row reads is untouched by a label it does not read: the lemma of *)
(* the mutation test.                                                      *)
LEMMA UnreadLabels ==
  ASSUME NEW k, NEW h, ~Reads(k, h),
         Labelled' \ {h} = Labelled \ {h},
         \A x \in Labelled \ {h} : labels'[x] = labels[x]
  PROVE  /\ current_delay_persistence_seconds(k)' = current_delay_persistence_seconds(k)
         /\ \A p : FeatureRow(k, p)' = FeatureRow(k, p)
<1>1. /\ SameRouteHour(k)' = SameRouteHour(k)
      /\ SameStop(k)' = SameStop(k)
      /\ SameTrip(k)' = SameTrip(k)
  BY DEF Reads, SameRouteHour, SameStop, SameTrip, Earlier
<1>2. \A x \in SameRouteHour(k) \cup SameTrip(k) : labels'[x] = labels[x]
  BY DEF Reads, SameRouteHour, SameTrip, Earlier
<1>3. Late(SameRouteHour(k))' = Late(SameRouteHour(k))
  BY <1>1, <1>2 DEF Late
<1>4. LateRate(SameRouteHour(k))' = LateRate(SameRouteHour(k))
  BY <1>1, <1>3 DEF LateRate
<1>5. headway_seconds(k)' = headway_seconds(k)
  BY <1>1 DEF headway_seconds, Latest
<1>6. current_delay_persistence_seconds(k)' = current_delay_persistence_seconds(k)
  <2>1. Latest(SameTrip(k))' = Latest(SameTrip(k)) /\ Latest(SameTrip(k)) \subseteq SameTrip(k)
    BY <1>1 DEF Latest
  <2>2. {labels[x] : x \in Latest(SameTrip(k))}' = {labels[x] : x \in Latest(SameTrip(k))}
    BY <1>2, <2>1
  <2> QED BY <1>1, <2>2 DEF current_delay_persistence_seconds
<1> QED BY <1>4, <1>5, <1>6 DEF FeatureRow

(* Labels that do not change at all. *)
LEMMA SameLabels ==
  ASSUME labels' = labels, NEW k
  PROVE  /\ current_delay_persistence_seconds(k)' = current_delay_persistence_seconds(k)
         /\ \A p : FeatureRow(k, p)' = FeatureRow(k, p)
BY DEF current_delay_persistence_seconds, FeatureRow, LateRate, Late, headway_seconds,
       SameRouteHour, SameStop, SameTrip, Latest, Earlier, Labelled

LEMMA LabelStep ==
  ASSUME FeaturesIInv, NEW h \in Keys, LabelChanged(h),
         Labelled' \subseteq Keys,
         Labelled' \ {h} = Labelled \ {h},
         \A x \in Labelled \ {h} : labels'[x] = labels[x]
  PROVE  FeaturesIInv'
<1>1. ASSUME NEW k \in current'
      PROVE  \E p \in current_delay_persistence_seconds(k)' :
               features'[k] = FeatureRow(k, p)'
  <2>1. k \in current /\ ~Reads(k, h) /\ features' = features
    BY DEF LabelChanged
  <2>2. PICK p \in current_delay_persistence_seconds(k) : features[k] = FeatureRow(k, p)
    BY <2>1 DEF FeaturesIInv, RowsStayCorrect
  <2> QED BY <2>1, <2>2, UnreadLabels
<1>2. RowsStayCorrect' BY <1>1 DEF RowsStayCorrect
<1> QED BY <1>2 DEF FeaturesIInv, LabelChanged

LEMMA BuildStep ==
  ASSUME FeaturesIInv, NEW since \in Sinces, NEW until \in Untils,
         BuildFeatures(since, until)
  PROVE  FeaturesIInv'
<1> DEFINE window == Window(since, until)
<1>1. PICK carried \in Carried(window) : features' = Upserted(window, carried)
  BY DEF BuildFeatures
<1>2. labels' = labels /\ current' = current \cup window
  BY DEF BuildFeatures
<1>3. DOMAIN features' = DOMAIN features \cup window
  BY <1>1 DEF Upserted
<1>4. ASSUME NEW k \in current'
      PROVE  \E p \in current_delay_persistence_seconds(k) : features'[k] = FeatureRow(k, p)
  <2>1. CASE k \in window
    <3>1. carried[k] \in current_delay_persistence_seconds(k)
      BY <2>1 DEF Carried
    <3>2. features'[k] = FeatureRow(k, carried[k])
      BY <1>1, <2>1 DEF Upserted
    <3> QED BY <3>1, <3>2
  <2>2. CASE k \notin window
    <3>1. k \in current /\ k \in DOMAIN features
      BY <1>2, <2>2 DEF FeaturesIInv
    <3>2. features'[k] = features[k]
      BY <1>1, <2>2, <3>1 DEF Upserted
    <3> QED BY <3>1, <3>2 DEF FeaturesIInv, RowsStayCorrect
  <2> QED BY <2>1, <2>2
<1>5. ASSUME NEW k
      PROVE  /\ current_delay_persistence_seconds(k)' = current_delay_persistence_seconds(k)
             /\ \A p : FeatureRow(k, p)' = FeatureRow(k, p)
  BY <1>2, SameLabels
<1>6. RowsStayCorrect'
  BY <1>4, <1>5 DEF RowsStayCorrect
<1> QED BY <1>2, <1>3, <1>6 DEF FeaturesIInv, Labelled

LEMMA FeaturesStepIInv == FeaturesIInv /\ [FeaturesNext]_featureVars => FeaturesIInv'
<1> SUFFICES ASSUME FeaturesIInv, [FeaturesNext]_featureVars PROVE FeaturesIInv'
  OBVIOUS
<1>1. ASSUME NEW h \in Keys, LabelUsable(h) PROVE FeaturesIInv'
  <2>1. PICK d \in Delays :
          labels' = [k \in Labelled \cup {h} |-> IF k = h THEN d ELSE labels[k]]
    BY <1>1 DEF LabelUsable
  <2>2. Labelled' = Labelled \cup {h}
    BY <2>1 DEF Labelled
  <2>3. \A x \in Labelled \ {h} : labels'[x] = labels[x]
    BY <2>1
  <2> QED BY <1>1, <2>2, <2>3, LabelStep DEF LabelUsable, FeaturesIInv
<1>2. ASSUME NEW h \in Keys, LabelExcluded(h) PROVE FeaturesIInv'
  <2>1. Labelled' = Labelled \ {h}
    BY <1>2 DEF LabelExcluded, Labelled
  <2>2. \A x \in Labelled \ {h} : labels'[x] = labels[x]
    BY <1>2 DEF LabelExcluded
  <2> QED BY <1>2, <2>1, <2>2, LabelStep DEF LabelExcluded, FeaturesIInv
<1>3. CASE UNCHANGED featureVars
  <2>1. labels' = labels /\ features' = features /\ current' = current
    BY <1>3 DEF featureVars
  <2>2. RowsStayCorrect'
    BY <2>1, SameLabels DEF FeaturesIInv, RowsStayCorrect
  <2> QED BY <2>1, <2>2 DEF FeaturesIInv, Labelled
<1>4. ASSUME NEW since \in Sinces, NEW until \in Untils, BuildFeatures(since, until)
      PROVE  FeaturesIInv'
  BY <1>4, BuildStep
<1> QED BY <1>1, <1>2, <1>3, <1>4 DEF FeaturesNext

LEMMA FeaturesAlways == FeaturesSpec => []FeaturesIInv
<1>1. FeaturesInit => FeaturesIInv
  BY DEF FeaturesInit, FeaturesIInv, RowsStayCorrect, Labelled
<1> QED BY <1>1, FeaturesStepIInv, PTL DEF FeaturesSpec

(* However labels close, change and leave the view, and whatever windows   *)
(* are built in whatever order, a row holds what a rebuild would give it   *)
(* until an earlier label of its route-hour, its stop or its trip changes. *)
THEOREM RowsAlwaysStayCorrect == FeaturesSpec => []RowsStayCorrect
<1>1. FeaturesIInv => RowsStayCorrect
  BY DEF FeaturesIInv
<1> QED BY <1>1, FeaturesAlways, PTL

-----------------------------------------------------------------------------
(* A set of naturals that is not empty has a least element. *)
LEMMA LeastExists ==
  ASSUME NEW T, T \subseteq Nat, T # {}
  PROVE  \E x \in T : \A y \in T : x <= y
<1> DEFINE less == OpToRel(<, Nat)
<1>1. IsWellFoundedOn(less, Nat)
  BY NatLessThanWellFounded
<1>2. \A x, y \in Nat : y < x => <<y, x>> \in less
  BY DEF OpToRel
<1> HIDE DEF less
<1>3. PICK x \in T : \A y \in T : ~ (<<y, x>> \in less)
  BY <1>1, WFMin
<1>4. ASSUME NEW y \in T PROVE x <= y
  <2>1. x \in Nat /\ y \in Nat /\ ~ (y < x)
    BY <1>2, <1>3
  <2> QED BY <2>1
<1> QED BY <1>4

(* One that is bounded has a greatest. *)
LEMMA GreatestExists ==
  ASSUME NEW n \in Nat, NEW T, T \subseteq 0 .. n, T # {}
  PROVE  \E x \in T : \A y \in T : y <= x
<1> DEFINE D == {n - x : x \in T}
<1>1. D \subseteq Nat /\ D # {}
  <2>1. \A x \in T : x \in 0 .. n /\ n - x \in Nat
    OBVIOUS
  <2> QED BY <2>1
<1>2. PICK d \in D : \A e \in D : d <= e
  <2> HIDE DEF D
  <2> QED BY <1>1, LeastExists
<1>3. PICK x \in T : d = n - x
  OBVIOUS
<1>4. ASSUME NEW y \in T PROVE y <= x
  <2>1. n - y \in D
    OBVIOUS
  <2>2. n - x <= n - y
    BY <1>2, <1>3, <2>1
  <2> QED BY <2>2
<1> QED BY <1>4

(* Among finitely many labels some are latest. *)
LEMMA LatestExists ==
  ASSUME Labelled \subseteq Keys, NEW k \in Keys, NEW S, S \subseteq Earlier(k), S # {}
  PROVE  Latest(S) # {}
<1> DEFINE T == {Scheduled[h] : h \in S}
<1>1. \A h \in S : Scheduled[h] \in 0 .. Scheduled[k]
  <2>1. \A h \in S : h \in Keys /\ Scheduled[h] < Scheduled[k]
    BY DEF Earlier
  <2>2. \A h \in Keys : Scheduled[h] \in Nat
    OBVIOUS
  <2> QED BY <2>1, <2>2
<1>2. T \subseteq 0 .. Scheduled[k] /\ T # {}
  BY <1>1
<1>3. Scheduled[k] \in Nat
  OBVIOUS
<1>4. PICK x \in T : \A y \in T : y <= x
  <2> HIDE DEF T
  <2> QED BY <1>2, <1>3, GreatestExists
<1> QED BY <1>4 DEF Latest

(* The fields of a row have their types. *)
LEMMA RateType ==
  ASSUME NEW S, S \subseteq Labelled, Labelled \subseteq Keys
  PROVE  LateRate(S) \in {NULL} \cup [late : Nat, of : Nat \ {0}]
<1>1. IsFiniteSet(S) /\ IsFiniteSet(Late(S))
  BY FS_Subset DEF Late
<1>2. Cardinality(Late(S)) \in Nat /\ Cardinality(S) \in Nat
      /\ (Cardinality(S) = 0 <=> S = {})
  BY <1>1, FS_CardinalityType, FS_EmptySet
<1> QED BY <1>2 DEF LateRate

LEMMA FeatureRowType ==
  ASSUME Labelled \subseteq Keys, NEW k \in Keys, NEW p \in Delays \cup {NULL}
  PROVE  FeatureRow(k, p) \in Feature
<1>1. LateRate(SameRouteHour(k)) \in {NULL} \cup [late : Nat, of : Nat \ {0}]
  BY RateType DEF SameRouteHour, Earlier
<1>2. headway_seconds(k) \in {NULL} \cup Nat
  <2>1. CASE SameStop(k) = {}
    BY <2>1 DEF headway_seconds
  <2>2. CASE SameStop(k) # {}
    <3>1. Latest(SameStop(k)) # {}
      BY <2>2, LatestExists DEF SameStop
    <3>2. PICK h \in Latest(SameStop(k)) : headway_seconds(k) = Scheduled[k] - Scheduled[h]
      BY <2>2, <3>1 DEF headway_seconds
    <3>3. h \in Keys /\ Scheduled[h] < Scheduled[k]
      BY <3>2 DEF Latest, SameStop, Earlier
    <3>4. Scheduled[h] \in Nat /\ Scheduled[k] \in Nat
      BY <3>3
    <3> QED BY <3>2, <3>3, <3>4
  <2> QED BY <2>1, <2>2
<1> HIDE DEF headway_seconds
<1> QED BY <1>1, <1>2 DEF FeatureRow, Feature

LEMMA FeaturesTypeStep == FeaturesTypeOK /\ [FeaturesNext]_featureVars => FeaturesTypeOK'
<1> SUFFICES ASSUME FeaturesTypeOK, [FeaturesNext]_featureVars PROVE FeaturesTypeOK'
  OBVIOUS
<1>1. ASSUME NEW h \in Keys, LabelUsable(h) PROVE FeaturesTypeOK'
  BY <1>1 DEF LabelUsable, LabelChanged, FeaturesTypeOK, Labelled
<1>2. ASSUME NEW h \in Keys, LabelExcluded(h) PROVE FeaturesTypeOK'
  BY <1>2 DEF LabelExcluded, LabelChanged, FeaturesTypeOK, Labelled
<1>3. CASE UNCHANGED featureVars
  BY <1>3 DEF featureVars, FeaturesTypeOK, Labelled
<1>4. ASSUME NEW since \in Sinces, NEW until \in Untils, BuildFeatures(since, until)
      PROVE  FeaturesTypeOK'
  <2> DEFINE window == Window(since, until)
  <2>1. PICK carried \in Carried(window) : features' = Upserted(window, carried)
    BY <1>4 DEF BuildFeatures
  <2>2. labels' = labels /\ current' = current \cup window /\ window \subseteq Labelled
    BY <1>4 DEF BuildFeatures, Window
  <2>3. \A k \in window : FeatureRow(k, carried[k]) \in Feature
    BY <2>2, FeatureRowType DEF Carried, FeaturesTypeOK
  <2> HIDE DEF window
  <2>4. /\ DOMAIN features' = DOMAIN features \cup window
        /\ features' \in [DOMAIN features' -> Feature]
    BY <2>1, <2>3 DEF Upserted, FeaturesTypeOK
  <2> QED BY <2>2, <2>4 DEF FeaturesTypeOK, Labelled
<1> QED BY <1>1, <1>2, <1>3, <1>4 DEF FeaturesNext

(* Every feature the build writes has its type: a rate over no row is NULL *)
(* and never a fraction of nothing, and no headway is negative.            *)
THEOREM FeaturesTypeCorrect == FeaturesSpec => []FeaturesTypeOK
<1>1. FeaturesInit => FeaturesTypeOK
  BY DEF FeaturesInit, FeaturesTypeOK, Labelled
<1> QED BY <1>1, FeaturesTypeStep, PTL DEF FeaturesSpec

-----------------------------------------------------------------------------
(* Peer groups are numbered in the order of their instants. *)
LEMMA PeersAreInOrder ==
  ASSUME Labelled \subseteq Keys, NEW k \in Compared, NEW m \in Compared,
         RouteHour[m] = RouteHour[k]
  PROVE  PeerGroup(m) <= PeerGroup(k) - 1 <=> Scheduled[m] < Scheduled[k]
<1> DEFINE upto(x) == {Scheduled[l] : l \in {y \in Compared :
                         RouteHour[y] = RouteHour[x] /\ Scheduled[y] <= Scheduled[x]}}
<1>1. \A x \in Compared : x \in Keys /\ Scheduled[x] \in Nat
  BY DEF Compared
<1>2. PeerGroup(k) = Cardinality(upto(k)) /\ PeerGroup(m) = Cardinality(upto(m))
  BY DEF PeerGroup
<1>3. ASSUME NEW x \in Compared PROVE IsFiniteSet(upto(x)) /\ Cardinality(upto(x)) \in Nat
  <2>1. upto(x) \subseteq 0 .. Scheduled[x]
    BY <1>1
  <2>2. IsFiniteSet(0 .. Scheduled[x])
    BY <1>1, FS_Interval
  <2>3. IsFiniteSet(upto(x))
    BY <2>1, <2>2, FS_Subset
  <2> HIDE DEF upto
  <2> QED BY <2>3, FS_CardinalityType
<1>4. CASE Scheduled[m] < Scheduled[k]
  <2>1. upto(m) \subseteq upto(k)
    BY <1>1, <1>4
  <2>2. Scheduled[k] \in upto(k) /\ Scheduled[k] \notin upto(m)
    BY <1>1, <1>4
  <2> HIDE DEF upto
  <2>3. Cardinality(upto(m)) < Cardinality(upto(k))
    BY <1>3, <2>1, <2>2, FS_Subset
  <2> QED BY <1>2, <1>3, <1>4, <2>3
<1>5. CASE ~(Scheduled[m] < Scheduled[k])
  <2>1. upto(k) \subseteq upto(m)
    BY <1>1, <1>5
  <2> HIDE DEF upto
  <2>2. Cardinality(upto(k)) <= Cardinality(upto(m))
    BY <1>3, <2>1, FS_Subset
  <2> QED BY <1>2, <1>3, <1>5, <2>2
<1> QED BY <1>4, <1>5

(* A rate is NULL over no row and only there. *)
LEMMA NullRate ==
  ASSUME NEW S \in SUBSET Labelled, Labelled \subseteq Keys
  PROVE  LateRate(S) = NULL <=> S = {}
<1>1. IsFiniteSet(S) /\ IsFiniteSet(Late(S))
  BY FS_Subset DEF Late
<1>2. Cardinality(S) \in Nat /\ Cardinality(Late(S)) \in Nat
  BY <1>1, FS_CardinalityType
<1> QED BY <1>2 DEF LateRate

(* The window function and the correlated subquery compute the same rates  *)
(* on a table that is built over every usable label, and a NULL there means *)
(* that the row is the first of its route-hour.                             *)
THEOREM VerificationAlwaysPasses == FeaturesSpec => []VerificationPasses
<1>1. FeaturesIInv => VerificationPasses
  <2> SUFFICES ASSUME FeaturesIInv, Labelled \subseteq current,
                      DOMAIN features \subseteq Labelled
               PROVE  independent_recomputation /\ null_arithmetic /\ no_future_in_the_past
    BY DEF VerificationPasses
  <2>1. /\ Labelled \subseteq Keys
        /\ Compared = Labelled
        /\ DOMAIN features = Labelled
    BY DEF FeaturesIInv, Compared
  <2>2. \A k \in Labelled : features[k].rate = LateRate(SameRouteHour(k))
    <3> SUFFICES ASSUME NEW k \in Labelled
                 PROVE  features[k].rate = LateRate(SameRouteHour(k))
      OBVIOUS
    <3>1. PICK p : features[k] = FeatureRow(k, p)
      BY DEF FeaturesIInv, RowsStayCorrect
    <3> QED BY <3>1 DEF FeatureRow
  <2>3. ASSUME NEW k \in Labelled PROVE Frame(k) = SameRouteHour(k)
    <3>1. \A m \in Labelled : RouteHour[m] = RouteHour[k] =>
            (PeerGroup(m) <= PeerGroup(k) - 1 <=> Scheduled[m] < Scheduled[k])
      BY <2>1, PeersAreInOrder
    <3> QED BY <2>1, <3>1 DEF Frame, SameRouteHour, Earlier
  <2>4. independent_recomputation
    BY <2>1, <2>2, <2>3 DEF independent_recomputation, SameRate
  <2>5. null_arithmetic
    <3>1. \A k \in Labelled : features[k].rate = NULL <=> SameRouteHour(k) = {}
      <4>1. \A k \in Labelled : SameRouteHour(k) \in SUBSET Labelled
        BY DEF SameRouteHour, Earlier
      <4> QED BY <2>1, <2>2, <4>1, NullRate
    <3>2. \A k \in Labelled : k \in first_in_bucket <=> SameRouteHour(k) = {}
      <4>1. \A k \in Labelled : Scheduled[k] \in Nat
        BY <2>1
      <4> QED BY <4>1 DEF first_in_bucket, SameRouteHour, Earlier
    <3>3. first_in_bucket \subseteq Labelled
      BY DEF first_in_bucket
    <3>4. {k \in DOMAIN features : features[k].rate = NULL} = first_in_bucket
      BY <2>1, <3>1, <3>2, <3>3
    <3> QED BY <3>4 DEF null_arithmetic
  <2>6. no_future_in_the_past
    BY <2>1, <2>3 DEF no_future_in_the_past, SameRouteHour, Earlier
  <2> QED BY <2>4, <2>5, <2>6
<1> QED BY <1>1, FeaturesAlways, PTL

-----------------------------------------------------------------------------
(* The rows of the join, in any order of ties. *)
LEMMA TrainedOnLabels ==
  ASSUME Labelled \subseteq Keys, NEW rows \in TrainingSets, NEW r \in train(rows)
  PROVE  r \in Labelled
<1>1. Cardinality(Compared) \in Nat
  BY FS_Subset, FS_CardinalityType DEF Compared
<1>2. rows \in Seq(Compared)
  BY <1>1 DEF TrainingSets
<1> QED BY <1>2 DEF train, Compared

(* Every row trained on is scheduled before every row tested on. *)
LEMMA SplitIsTemporal ==
  ASSUME Labelled \subseteq Keys, NEW rows \in TrainingSets,
         NEW r \in train(rows), NEW t \in test(rows)
  PROVE  Scheduled[r] < Scheduled[t]
<1> USE TrainingAssumption
<1> DEFINE last == fraction(rows)
           instant(i) == Scheduled[rows[i]]
<1>1. Compared \subseteq Keys /\ Cardinality(Compared) \in Nat
  BY FS_Subset, FS_CardinalityType DEF Compared
<1>2. /\ rows \in Seq(Compared)
      /\ Len(rows) \in Nat
      /\ \A i, j \in 1 .. Len(rows) : i < j => instant(i) <= instant(j)
  <2>1. /\ rows \in [1 .. Cardinality(Compared) -> Compared]
        /\ \A i, j \in DOMAIN rows : i < j => instant(i) <= instant(j)
    BY DEF TrainingSets
  <2>2. rows \in Seq(Compared) /\ DOMAIN rows = 1 .. Len(rows) /\ Len(rows) \in Nat
    BY <1>1, <2>1
  <2> QED BY <2>1, <2>2
<1>3. \A i \in 1 .. Len(rows) : instant(i) \in Nat
  <2>1. \A i \in 1 .. Len(rows) : rows[i] \in Keys
    BY <1>1, <1>2
  <2>2. Scheduled \in [Keys -> Nat]
    OBVIOUS
  <2> QED BY <2>1, <2>2
<1>4. last \in Int
  <2>1. TrainPercent \in Nat
    OBVIOUS
  <2>2. Len(rows) * TrainPercent \in Int
    BY <1>2, <2>1
  <2> QED BY <2>2 DEF fraction
<1>5. PICK i \in 1 .. Len(rows) : r = rows[i] /\ before_cut(rows, i)
  BY DEF train
<1>6. PICK j \in 1 .. Len(rows) : t = rows[j] /\ ~before_cut(rows, j)
  BY DEF test
<1>7. \A x : before_cut(rows, x) <=>
        \/ x <= last
        \/ 0 < last /\ \A y \in last .. x : instant(y) = instant(last)
  BY DEF before_cut
<1> HIDE DEF last, instant
<1>8. /\ last < j /\ 0 < last
      /\ i <= last \/ instant(i) = instant(last)
      /\ \E m \in last .. j : instant(m) # instant(last)
  BY <1>4, <1>5, <1>6, <1>7
<1>9. PICK m \in last .. j : instant(m) # instant(last)
  BY <1>8
<1>10. instant(last) < instant(j)
  <2>1. last \in 1 .. Len(rows) /\ m \in 1 .. Len(rows) /\ last < m
    BY <1>2, <1>4, <1>6, <1>8, <1>9
  <2>2. instant(last) <= instant(m) /\ (m < j => instant(m) <= instant(j))
    BY <1>2, <1>6, <2>1, <1>9
  <2> QED BY <1>3, <1>6, <1>9, <2>1, <2>2
<1>11. instant(i) <= instant(last)
  <2>1. last \in 1 .. Len(rows)
    BY <1>2, <1>4, <1>6, <1>8
  <2>2. i < last => instant(i) <= instant(last)
    BY <1>2, <2>1
  <2> QED BY <1>3, <1>4, <1>5, <1>8, <2>1, <2>2
<1>12. instant(i) < instant(j)
  BY <1>3, <1>8, <1>10, <1>11, <1>4, <1>6, <1>2
<1> QED BY <1>5, <1>6, <1>12 DEF instant

(* Whatever the fraction and however ties are ordered, no instant lies on  *)
(* both sides of the split.                                                *)
THEOREM TrainAlwaysBeforeTest == FeaturesSpec => []TrainBeforeTest
<1>1. FeaturesIInv => TrainBeforeTest
  <2> SUFFICES ASSUME Labelled \subseteq Keys, NEW rows \in TrainingSets,
                      NEW r \in train(rows), NEW t \in test(rows)
               PROVE  /\ Scheduled[r] < Scheduled[t]
                      /\ RouteHour[r] = RouteHour[t] => r \in SameRouteHour(t)
    BY DEF FeaturesIInv, TrainBeforeTest
  <2>1. Scheduled[r] < Scheduled[t]
    BY SplitIsTemporal
  <2>2. r \in Labelled
    BY TrainedOnLabels
  <2> QED BY <2>1, <2>2 DEF SameRouteHour, Earlier
<1> QED BY <1>1, FeaturesAlways, PTL

-----------------------------------------------------------------------------
(* Scores are fractions, and AtLeast orders them. *)
Fraction == [late : Nat, of : Nat \ {0}]

LEMMA ProductGrows ==
  ASSUME NEW x \in Nat, NEW y \in Nat, x >= y, NEW n \in Nat
  PROVE  x * n >= y * n
<1>1. PICK d \in Nat : x = y + d
  <2>1. x - y \in Nat /\ x = y + (x - y)
    OBVIOUS
  <2> QED BY <2>1
<1>2. x * n = y * n + d * n /\ d * n \in Nat
  BY <1>1
<1>3. y * n \in Nat
  OBVIOUS
<1> QED BY <1>2, <1>3

LEMMA AtLeastOrders ==
  /\ \A a, b \in Fraction : AtLeast(a, b) \/ AtLeast(b, a)
  /\ \A a, b, c \in Fraction : AtLeast(a, b) /\ AtLeast(b, c) => AtLeast(a, c)
<1>1. ASSUME NEW a \in Fraction, NEW b \in Fraction
      PROVE  AtLeast(a, b) \/ AtLeast(b, a)
  <2>1. a.late * b.of \in Nat /\ b.late * a.of \in Nat
    BY DEF Fraction
  <2> QED BY <2>1 DEF AtLeast
<1>2. ASSUME NEW a \in Fraction, NEW b \in Fraction, NEW c \in Fraction,
             AtLeast(a, b), AtLeast(b, c)
      PROVE  AtLeast(a, c)
  <2>1. /\ a.late \in Nat /\ b.late \in Nat /\ c.late \in Nat
        /\ a.of \in Nat \ {0} /\ b.of \in Nat \ {0} /\ c.of \in Nat \ {0}
    BY DEF Fraction
  <2> DEFINE p == a.late * c.of
             q == c.late * a.of
             n == b.of
  <2>2. (a.late * b.of) * c.of >= (b.late * a.of) * c.of
    <3>1. a.late * b.of \in Nat /\ b.late * a.of \in Nat
      BY <2>1
    <3> QED BY <1>2, <2>1, <3>1, ProductGrows DEF AtLeast
  <2>3. (b.late * c.of) * a.of >= (c.late * b.of) * a.of
    <3>1. b.late * c.of \in Nat /\ c.late * b.of \in Nat
      BY <2>1
    <3> QED BY <1>2, <2>1, <3>1, ProductGrows DEF AtLeast
  <2>4. p * n >= q * n
    <3>1. (a.late * b.of) * c.of = p * n
      BY <2>1
    <3>2. (c.late * b.of) * a.of = q * n
      BY <2>1
    <3>3. (b.late * a.of) * c.of = (b.late * c.of) * a.of
      BY <2>1
    <3>4. /\ p * n \in Nat /\ q * n \in Nat /\ (b.late * c.of) * a.of \in Nat
      BY <2>1
    <3> QED BY <2>2, <2>3, <3>1, <3>2, <3>3, <3>4
  <2>5. p \in Nat /\ q \in Nat /\ n \in Nat \ {0}
    BY <2>1
  <2>6. p >= q
    <3> HIDE DEF p, q, n
    <3> SUFFICES ASSUME q >= p + 1 PROVE FALSE
      BY <2>5
    <3>1. q * n >= (p + 1) * n
      BY <2>5, ProductGrows
    <3>2. (p + 1) * n = p * n + n /\ p * n \in Nat /\ q * n \in Nat
      BY <2>5
    <3> QED BY <2>4, <2>5, <3>1, <3>2
  <2> QED BY <2>6 DEF AtLeast
<1> QED BY <1>1, <1>2

(* Among finitely many scores one is the lowest. *)
LEMMA LowestScore ==
  ASSUME NEW S, IsFiniteSet(S), NEW f \in [S -> Fraction], NEW M \in SUBSET S, M # {}
  PROVE  \E m \in M : \A k \in M : AtLeast(f[k], f[m])
<1> DEFINE up(m) == {k \in M : AtLeast(f[k], f[m])}
           T == {Cardinality(up(m)) : m \in M}
<1>1. IsFiniteSet(M)
  BY FS_Subset
<1>2. \A m \in M : IsFiniteSet(up(m)) /\ Cardinality(up(m)) \in 0 .. Cardinality(M)
  <2> SUFFICES ASSUME NEW m \in M
               PROVE  IsFiniteSet(up(m)) /\ Cardinality(up(m)) \in 0 .. Cardinality(M)
    OBVIOUS
  <2>1. up(m) \in SUBSET M
    OBVIOUS
  <2> HIDE DEF up
  <2>2. IsFiniteSet(up(m)) /\ Cardinality(up(m)) <= Cardinality(M)
    BY <1>1, <2>1, FS_Subset
  <2>3. Cardinality(up(m)) \in Nat /\ Cardinality(M) \in Nat
    BY <1>1, <2>2, FS_CardinalityType
  <2> QED BY <2>2, <2>3
<1>3. PICK m \in M : \A k \in M : Cardinality(up(k)) <= Cardinality(up(m))
  <2> HIDE DEF up
  <2>1. T \subseteq 0 .. Cardinality(M) /\ T # {} /\ Cardinality(M) \in Nat
    BY <1>1, <1>2, FS_CardinalityType
  <2> HIDE DEF T
  <2>2. PICK x \in T : \A y \in T : y <= x
    BY <2>1, GreatestExists
  <2> QED BY <2>2 DEF T
<1>4. ASSUME NEW k \in M PROVE AtLeast(f[k], f[m])
  <2> SUFFICES ASSUME ~AtLeast(f[k], f[m]) PROVE FALSE
    OBVIOUS
  <2>1. \A x \in M : f[x] \in Fraction
    OBVIOUS
  <2>2. AtLeast(f[m], f[k])
    BY <2>1, AtLeastOrders
  <2>3. up(m) \subseteq up(k)
    BY <2>1, <2>2, AtLeastOrders
  <2>4. k \in up(k) /\ k \notin up(m)
    BY <2>1, AtLeastOrders
  <2> HIDE DEF up
  <2>5. Cardinality(up(m)) = Cardinality(up(k))
    <3>1. Cardinality(up(m)) <= Cardinality(up(k))
      BY <1>2, <2>3, FS_Subset
    <3> QED BY <1>2, <1>3, <3>1
  <2> QED BY <1>2, <2>3, <2>4, <2>5, FS_Subset
<1> QED BY <1>4

-----------------------------------------------------------------------------
(* What a threshold predicts. *)
LEMMA PredictedType ==
  ASSUME NEW S \in SUBSET Labelled, Labelled \subseteq Keys,
         NEW f \in [S -> Fraction], NEW t \in Fraction
  PROVE  /\ PredictedLate(f, t) = {k \in S : AtLeast(f[k], t)}
         /\ IsFiniteSet(PredictedLate(f, t) \cap Late(S))
         /\ confusion_at_threshold(f, t).tp = Cardinality(PredictedLate(f, t) \cap Late(S))
         /\ confusion_at_threshold(f, t).tp \in 0 .. Cardinality(S)
         /\ Cardinality(S) \in Nat
<1>1. DOMAIN f = S
  OBVIOUS
<1>2. IsFiniteSet(S) /\ Cardinality(S) \in Nat
  BY FS_Subset, FS_CardinalityType
<1>3. PredictedLate(f, t) \cap Late(S) \in SUBSET S
  BY <1>1 DEF PredictedLate, Late
<1>4. /\ IsFiniteSet(PredictedLate(f, t) \cap Late(S))
      /\ Cardinality(PredictedLate(f, t) \cap Late(S)) \in 0 .. Cardinality(S)
  BY <1>2, <1>3, FS_Subset, FS_CardinalityType
<1>5. confusion_at_threshold(f, t).tp = Cardinality(PredictedLate(f, t) \cap Late(S))
  BY <1>1 DEF confusion_at_threshold
<1> QED BY <1>1, <1>2, <1>4, <1>5 DEF PredictedLate

(* A threshold that predicts anything predicts what one of the scores does. *)
LEMMA ThresholdIsAScore ==
  ASSUME NEW S \in SUBSET Labelled, Labelled \subseteq Keys,
         NEW f \in [S -> Fraction], NEW t \in Fraction, PredictedLate(f, t) # {}
  PROVE  \E m \in S : confusion_at_threshold(f, f[m]) = confusion_at_threshold(f, t)
<1>1. IsFiniteSet(S) /\ DOMAIN f = S /\ \A k \in S : f[k] \in Fraction
  BY FS_Subset
<1>2. \A u : PredictedLate(f, u) = {k \in S : AtLeast(f[k], u)}
  BY <1>1 DEF PredictedLate
<1>3. PICK m \in PredictedLate(f, t) : \A k \in PredictedLate(f, t) : AtLeast(f[k], f[m])
  BY <1>1, <1>2, LowestScore
<1>4. m \in S /\ AtLeast(f[m], t)
  BY <1>2
<1>5. PredictedLate(f, f[m]) = PredictedLate(f, t)
  <2>1. \A k \in S : f[k] \in Fraction
    BY <1>1
  <2>2. ASSUME NEW k \in S PROVE AtLeast(f[k], f[m]) <=> AtLeast(f[k], t)
    <3>1. AtLeast(f[k], t) => AtLeast(f[k], f[m])
      BY <1>2, <1>3
    <3>2. AtLeast(f[k], f[m]) => AtLeast(f[k], t)
      BY <1>4, <2>1, AtLeastOrders
    <3> QED BY <3>1, <3>2
  <2> QED BY <1>2, <2>2
<1> QED BY <1>4, <1>5 DEF confusion_at_threshold

(* The searched recall is the greatest one of an eligible score. *)
LEMMA RecallIsGreatest ==
  ASSUME NEW S \in SUBSET Labelled, Labelled \subseteq Keys,
         NEW f \in [S -> Fraction], eligible(f) # {}
  PROVE  /\ recall_at_precision(f) # NULL
         /\ \E t \in eligible(f) : recall_at_precision(f) = confusion_at_threshold(f, t).tp
         /\ \A t \in eligible(f) : confusion_at_threshold(f, t).tp <= recall_at_precision(f)
<1> DEFINE found == {confusion_at_threshold(f, t).tp : t \in eligible(f)}
<1>1. eligible(f) \subseteq Fraction
  BY DEF eligible
<1>2. \A t \in eligible(f) : confusion_at_threshold(f, t).tp \in 0 .. Cardinality(S)
  BY <1>1, PredictedType
<1>3. Cardinality(S) \in Nat
  BY FS_Subset, FS_CardinalityType
<1>4. found \subseteq 0 .. Cardinality(S) /\ found # {}
  BY <1>2
<1>5. recall_at_precision(f) = CHOOSE n \in found : \A m \in found : m <= n
  BY <1>4 DEF recall_at_precision
<1>6. \E n \in found : \A m \in found : m <= n
  <2> HIDE DEF found
  <2> QED BY <1>3, <1>4, GreatestExists
<1>7. recall_at_precision(f) \in found /\ \A m \in found : m <= recall_at_precision(f)
  <2> HIDE DEF found
  <2> QED BY <1>5, <1>6
<1>8. recall_at_precision(f) \in Nat
  BY <1>4, <1>7
<1> QED BY <1>7, <1>8

(* The scores of the baselines are fractions. *)
LEMMA BaselineType ==
  ASSUME FeaturesTypeOK, NEW rows \in TrainingSets, NEW target \in SUBSET Compared
  PROVE  /\ DOMAIN baseline_scores(rows, target)
              = {"always_on_time", "route_hour_rate", "persistence"}
         /\ \A name \in DOMAIN baseline_scores(rows, target) :
              baseline_scores(rows, target)[name] \in [target -> Fraction]
<1> DEFINE train_late_rate == IF train(rows) = {} THEN Zero ELSE LateRate(train(rows))
           IsLate(p) == p # NULL /\ p > PersistenceThreshold
           always == [k \in target |-> Zero]
           rate == [k \in target |-> IF features[k].rate = NULL THEN train_late_rate
                                                                ELSE features[k].rate]
           persisting == [k \in target |->
                            IF IsLate(features[k].persistence) THEN One ELSE Zero]
<1>1. Zero \in Fraction /\ One \in Fraction
  BY DEF Zero, One, Fraction
<1>2. Labelled \subseteq Keys
  BY DEF FeaturesTypeOK
<1>3. train_late_rate \in Fraction
  <2>1. CASE train(rows) = {}
    BY <1>1, <2>1
  <2>2. CASE train(rows) # {}
    <3>1. train(rows) \subseteq Labelled
      BY <1>2, TrainedOnLabels
    <3>2. IsFiniteSet(train(rows)) /\ LateRate(train(rows)) # NULL
      BY <1>2, <2>2, <3>1, FS_Subset, NullRate
    <3>3. LateRate(train(rows)) \in Fraction
      BY <1>2, <3>1, <3>2, RateType DEF Fraction
    <3> QED BY <2>2, <3>3
  <2> QED BY <2>1, <2>2
<1>4. \A k \in target : features[k].rate \in {NULL} \cup Fraction
  <2>1. \A k \in target : features[k] \in Feature
    BY DEF FeaturesTypeOK, Compared
  <2> QED BY <2>1 DEF Feature, Fraction
<1>5. /\ always \in [target -> Fraction]
      /\ rate \in [target -> Fraction]
      /\ persisting \in [target -> Fraction]
  <2> HIDE DEF train_late_rate, IsLate
  <2> QED BY <1>1, <1>3, <1>4
<1>6. baseline_scores(rows, target)
        = [always_on_time |-> always, route_hour_rate |-> rate, persistence |-> persisting]
  BY DEF baseline_scores
<1> HIDE DEF always, rate, persisting
<1> QED BY <1>5, <1>6

(* train.py's two rows of recall: hindsight is an upper bound. *)
LEMMA OracleBounds ==
  ASSUME NEW S \in SUBSET Labelled, Labelled \subseteq Keys,
         NEW f \in [S -> Fraction], NEW t \in Fraction,
         ReachesPrecision(confusion_at_threshold(f, t))
  PROVE  /\ recall_at_precision(f) # NULL
         /\ confusion_at_threshold(f, t).tp <= recall_at_precision(f)
<1>1. PredictedLate(f, t) # {}
  <2> SUFFICES ASSUME PredictedLate(f, t) = {} PROVE FALSE
    OBVIOUS
  <2>1. Cardinality({}) = 0
    BY FS_EmptySet
  <2>2. confusion_at_threshold(f, t).tp = 0 /\ confusion_at_threshold(f, t).fp = 0
    BY <2>1 DEF confusion_at_threshold
  <2> QED BY <2>2 DEF ReachesPrecision
<1>2. PICK m \in S : confusion_at_threshold(f, f[m]) = confusion_at_threshold(f, t)
  BY <1>1, ThresholdIsAScore
<1>3. f[m] \in eligible(f)
  BY <1>2 DEF eligible
<1> QED BY <1>2, <1>3, RecallIsGreatest

(* The lowest eligible score keeps the most recall. *)
LEMMA LowestKeepsTheRecall ==
  ASSUME NEW S \in SUBSET Labelled, Labelled \subseteq Keys,
         NEW f \in [S -> Fraction], eligible(f) # {}
  PROVE  /\ threshold_for_precision(f) \in eligible(f)
         /\ threshold_for_precision(f) # NULL
         /\ confusion_at_threshold(f, threshold_for_precision(f)).tp = recall_at_precision(f)
<1> DEFINE M == {k \in S : ReachesPrecision(confusion_at_threshold(f, f[k]))}
           t == threshold_for_precision(f)
<1>1. IsFiniteSet(S) /\ DOMAIN f = S /\ \A k \in S : f[k] \in Fraction
  BY FS_Subset
<1>2. eligible(f) = {f[k] : k \in M}
  BY <1>1 DEF eligible
<1>3. PICK m \in M : \A k \in M : AtLeast(f[k], f[m])
  <2>1. M \in SUBSET S /\ M # {}
    BY <1>2
  <2> HIDE DEF M
  <2> QED BY <1>1, <2>1, LowestScore
<1>4. t = CHOOSE u \in eligible(f) : \A v \in eligible(f) : AtLeast(v, u)
  BY DEF threshold_for_precision
<1>5. t \in eligible(f) /\ \A v \in eligible(f) : AtLeast(v, t)
  <2>1. f[m] \in eligible(f) /\ \A v \in eligible(f) : AtLeast(v, f[m])
    BY <1>2, <1>3
  <2> HIDE DEF t
  <2> QED BY <1>4, <2>1
<1> HIDE DEF t
<1>6. eligible(f) \subseteq Fraction
  BY <1>1 DEF eligible
<1>7. ASSUME NEW v \in eligible(f)
      PROVE  confusion_at_threshold(f, v).tp <= confusion_at_threshold(f, t).tp
  <2>1. v \in Fraction /\ t \in Fraction /\ AtLeast(v, t)
    BY <1>5, <1>6
  <2>2. PredictedLate(f, v) \subseteq PredictedLate(f, t)
    <3>1. \A u : PredictedLate(f, u) = {k \in S : AtLeast(f[k], u)}
      BY <1>1 DEF PredictedLate
    <3> QED BY <1>1, <2>1, <3>1, AtLeastOrders
  <2>3. Cardinality(PredictedLate(f, v) \cap Late(S))
          <= Cardinality(PredictedLate(f, t) \cap Late(S))
    <3>1. IsFiniteSet(PredictedLate(f, t) \cap Late(S))
      BY <2>1, PredictedType
    <3> QED BY <2>2, <3>1, FS_Subset
  <2> QED BY <2>1, <2>3, PredictedType
<1>8. confusion_at_threshold(f, t).tp = recall_at_precision(f)
  <2>1. confusion_at_threshold(f, t).tp <= recall_at_precision(f)
    BY <1>5, RecallIsGreatest
  <2>2. recall_at_precision(f) <= confusion_at_threshold(f, t).tp
    BY <1>7, RecallIsGreatest
  <2>3. \A u \in Fraction : confusion_at_threshold(f, u).tp \in 0 .. Cardinality(S)
                             /\ Cardinality(S) \in Nat
    BY PredictedType
  <2>4. \A u \in eligible(f) : confusion_at_threshold(f, u).tp \in Nat
    BY <1>6, <2>3
  <2>5. recall_at_precision(f) \in Nat
    BY <2>4, RecallIsGreatest
  <2> QED BY <1>5, <2>1, <2>2, <2>4, <2>5
<1>9. t # NULL
  BY <1>5, <1>6 DEF Fraction
<1> QED BY <1>5, <1>8, <1>9 DEF t

LEMMA PartsOfTheSplit ==
  ASSUME Labelled \subseteq Keys, NEW rows \in TrainingSets
  PROVE  train(rows) \in SUBSET Compared /\ test(rows) \in SUBSET Compared
<1>1. Cardinality(Compared) \in Nat
  BY FS_Subset, FS_CardinalityType DEF Compared
<1>2. rows \in Seq(Compared)
  BY <1>1 DEF TrainingSets
<1> QED BY <1>2 DEF train, test

(* For any labels, any features the builds left and any precision: the two *)
(* searches of metrics.py agree.                                           *)
THEOREM ThresholdAlwaysGivesTheRecall == FeaturesSpec => []ThresholdGivesTheRecall
<1>1. FeaturesTypeOK => ThresholdGivesTheRecall
  <2> SUFFICES ASSUME FeaturesTypeOK, NEW rows \in TrainingSets,
                      NEW name \in DOMAIN baseline_scores(rows, train(rows))
               PROVE  LET scores == baseline_scores(rows, train(rows))
                          threshold == threshold_for_precision(scores[name])
                          recall == recall_at_precision(scores[name])
                          confusion == confusion_at_threshold(scores[name], threshold)
                      IN  IF threshold = NULL THEN recall = NULL
                                              ELSE ReachesPrecision(confusion) /\ confusion.tp = recall
    BY DEF ThresholdGivesTheRecall
  <2> DEFINE f == baseline_scores(rows, train(rows))[name]
  <2>1. Labelled \subseteq Keys /\ train(rows) \in SUBSET Compared
    BY PartsOfTheSplit DEF FeaturesTypeOK
  <2>2. f \in [train(rows) -> Fraction] /\ train(rows) \in SUBSET Labelled
    BY <2>1, BaselineType DEF Compared
  <2> HIDE DEF f
  <2>3. CASE eligible(f) = {}
    <3>1. threshold_for_precision(f) = NULL /\ recall_at_precision(f) = NULL
      BY <2>3 DEF threshold_for_precision, recall_at_precision
    <3> QED BY <3>1 DEF f
  <2>4. CASE eligible(f) # {}
    <3>1. /\ threshold_for_precision(f) \in eligible(f)
          /\ threshold_for_precision(f) # NULL
          /\ confusion_at_threshold(f, threshold_for_precision(f)).tp = recall_at_precision(f)
      BY <2>1, <2>2, <2>4, LowestKeepsTheRecall
    <3>2. ReachesPrecision(confusion_at_threshold(f, threshold_for_precision(f)))
      BY <3>1 DEF eligible
    <3> QED BY <3>1, <3>2 DEF f
  <2> QED BY <2>3, <2>4
<1> QED BY <1>1, FeaturesTypeCorrect, PTL

(* The recall of a threshold fixed on train is bounded by the oracle's. *)
THEOREM OracleAlwaysAnUpperBound == FeaturesSpec => []OracleIsAnUpperBound
<1>1. FeaturesTypeOK => OracleIsAnUpperBound
  <2> SUFFICES ASSUME FeaturesTypeOK, NEW rows \in TrainingSets,
                      NEW name \in DOMAIN baseline_scores(rows, test(rows)),
                      _evaluate(baseline_scores(rows, train(rows))[name],
                                baseline_scores(rows, test(rows))[name]).confusion # NULL,
                      ReachesPrecision(
                        _evaluate(baseline_scores(rows, train(rows))[name],
                                  baseline_scores(rows, test(rows))[name]).confusion)
               PROVE  LET result == _evaluate(baseline_scores(rows, train(rows))[name],
                                              baseline_scores(rows, test(rows))[name])
                      IN  /\ result.recall_at_precision_oracle # NULL
                          /\ result.confusion.tp <= result.recall_at_precision_oracle
    BY DEF OracleIsAnUpperBound
  <2> DEFINE g == baseline_scores(rows, train(rows))[name]
             f == baseline_scores(rows, test(rows))[name]
             t == threshold_for_precision(g)
  <2>1. /\ Labelled \subseteq Keys
        /\ train(rows) \in SUBSET Compared /\ test(rows) \in SUBSET Compared
    BY PartsOfTheSplit DEF FeaturesTypeOK
  <2>2. /\ g \in [train(rows) -> Fraction] /\ train(rows) \in SUBSET Labelled
        /\ f \in [test(rows) -> Fraction] /\ test(rows) \in SUBSET Labelled
    <3>1. DOMAIN baseline_scores(rows, train(rows)) = DOMAIN baseline_scores(rows, test(rows))
      BY <2>1, BaselineType
    <3> QED BY <2>1, <3>1, BaselineType DEF Compared
  <2> HIDE DEF f, g
  <2>3. t # NULL /\ ReachesPrecision(confusion_at_threshold(f, t))
    <3>1. _evaluate(g, f).confusion
            = IF t = NULL THEN NULL ELSE confusion_at_threshold(f, t)
      BY DEF _evaluate
    <3>2. _evaluate(g, f).confusion # NULL /\ ReachesPrecision(_evaluate(g, f).confusion)
      BY DEF f, g
    <3> QED BY <3>1, <3>2
  <2>4. t \in Fraction
    <3>1. eligible(g) # {}
      BY <2>3 DEF threshold_for_precision
    <3>2. t \in eligible(g)
      BY <2>1, <2>2, <3>1, LowestKeepsTheRecall
    <3>3. eligible(g) \subseteq Fraction
      BY <2>2 DEF eligible
    <3> QED BY <3>2, <3>3
  <2>5. /\ recall_at_precision(f) # NULL
        /\ confusion_at_threshold(f, t).tp <= recall_at_precision(f)
    BY <2>1, <2>2, <2>3, <2>4, OracleBounds
  <2>6. /\ _evaluate(g, f).confusion = confusion_at_threshold(f, t)
        /\ _evaluate(g, f).recall_at_precision_oracle = recall_at_precision(f)
    BY <2>3 DEF _evaluate
  <2> QED BY <2>5, <2>6 DEF f, g
<1> QED BY <1>1, FeaturesTypeCorrect, PTL

-----------------------------------------------------------------------------
(* A training set lists every row once. *)
LEMMA EveryRowIsListed ==
  ASSUME Labelled \subseteq Keys, NEW rows \in TrainingSets
  PROVE  LET n == Cardinality(Compared)
         IN  /\ n \in Nat /\ Len(rows) = n /\ rows \in [1 .. n -> Compared]
             /\ \A i, j \in 1 .. n :
                  i < j => rows[i] # rows[j] /\ Scheduled[rows[i]] <= Scheduled[rows[j]]
             /\ \A k \in Compared : \E i \in 1 .. n : rows[i] = k
<1> DEFINE n == Cardinality(Compared)
<1>1. IsFiniteSet(Compared) /\ n \in Nat
  BY FS_Subset, FS_CardinalityType DEF Compared
<1>2. /\ rows \in [1 .. n -> Compared]
      /\ \A i, j \in 1 .. n :
           i < j => rows[i] # rows[j] /\ Scheduled[rows[i]] <= Scheduled[rows[j]]
  BY DEF TrainingSets
<1>3. Len(rows) = n
  <2> HIDE DEF n
  <2> QED BY <1>1, <1>2
<1>4. rows \in Injection(1 .. n, Compared)
  <2> HIDE DEF n
  <2>1. ASSUME NEW i \in 1 .. n, NEW j \in 1 .. n, rows[i] = rows[j] PROVE i = j
    <3>1. i < j \/ j < i \/ i = j
      BY <1>1
    <3> QED BY <1>2, <2>1, <3>1
  <2> QED BY <1>2, <2>1 DEF Injection, IsInjective
<1>5. Cardinality(1 .. n) = Cardinality(Compared)
  BY <1>1, FS_Interval
<1>6. rows \in Surjection(1 .. n, Compared)
  BY <1>1, <1>4, <1>5, FS_Injection
<1> QED BY <1>1, <1>2, <1>3, <1>6 DEF Surjection

(* Two of them have the same instant at the same place. *)
LEMMA SamePlaceSameInstant ==
  ASSUME Labelled \subseteq Keys, NEW rows \in TrainingSets, NEW others \in TrainingSets,
         NEW p \in 1 .. Cardinality(Compared)
  PROVE  Scheduled[others[p]] <= Scheduled[rows[p]]
<1> DEFINE n == Cardinality(Compared)
<1>1. /\ n \in Nat /\ rows \in [1 .. n -> Compared] /\ others \in [1 .. n -> Compared]
      /\ \A i, j \in 1 .. n : i < j => rows[i] # rows[j] /\ Scheduled[rows[i]] <= Scheduled[rows[j]]
      /\ \A i, j \in 1 .. n : i < j => Scheduled[others[i]] <= Scheduled[others[j]]
      /\ \A k \in Compared : \E i \in 1 .. n : others[i] = k
  BY EveryRowIsListed
<1>2. \A k \in Compared : Scheduled[k] \in Nat
  BY DEF Compared
<1>a. rows[p] \in Compared /\ others[p] \in Compared
  BY <1>1
<1>b. Scheduled[rows[p]] \in Nat /\ Scheduled[others[p]] \in Nat
  BY <1>2, <1>a
<1> HIDE DEF n
<1> SUFFICES ASSUME Scheduled[rows[p]] < Scheduled[others[p]] PROVE FALSE
  BY <1>b
<1>3. p \in 1 .. n /\ \A i \in 1 .. p : i \in 1 .. n /\ (i = p \/ i < p)
  <2>1. p \in 1 .. n
    BY DEF n
  <2> QED BY <1>1, <2>1
<1> DEFINE place == [i \in 1 .. p |-> CHOOSE j \in 1 .. n : others[j] = rows[i]]
<1>4. \A i \in 1 .. p : place[i] \in 1 .. n /\ others[place[i]] = rows[i]
  <2> SUFFICES ASSUME NEW i \in 1 .. p
               PROVE  place[i] \in 1 .. n /\ others[place[i]] = rows[i]
    OBVIOUS
  <2>1. \E j \in 1 .. n : others[j] = rows[i]
    BY <1>1, <1>3
  <2> QED BY <2>1
<1>5. \A i \in 1 .. p : place[i] < p
  <2> SUFFICES ASSUME NEW i \in 1 .. p, ~(place[i] < p) PROVE FALSE
    OBVIOUS
  <2> HIDE DEF place
  <2>1. i \in 1 .. n /\ (i = p \/ i < p)
    BY <1>3
  <2>2. PICK j \in 1 .. n : j = place[i] /\ others[j] = rows[i]
    BY <1>4
  <2>3. j = p \/ p < j
    BY <1>1, <1>3, <2>2
  <2>4. /\ rows[i] \in Compared /\ rows[p] \in Compared
        /\ others[p] \in Compared /\ others[j] \in Compared
    BY <1>1, <1>3, <2>1
  <2>5. /\ Scheduled[rows[i]] \in Nat /\ Scheduled[rows[p]] \in Nat
        /\ Scheduled[others[p]] \in Nat /\ Scheduled[others[j]] \in Nat
    BY <1>2, <2>4
  <2>6. Scheduled[rows[i]] <= Scheduled[rows[p]]
    <3>1. i < p => Scheduled[rows[i]] <= Scheduled[rows[p]]
      BY <1>1, <1>3, <2>1
    <3> QED BY <2>1, <2>5, <3>1
  <2>7. Scheduled[others[p]] <= Scheduled[others[j]]
    BY <1>1, <1>3, <2>3, <2>5
  <2> QED BY <2>2, <2>5, <2>6, <2>7
<1>6. place \in [1 .. p -> 1 .. p - 1]
  <2>1. \A i \in 1 .. p : place[i] \in 1 .. p - 1
    <3> HIDE DEF place
    <3> SUFFICES ASSUME NEW i \in 1 .. p PROVE place[i] \in 1 .. p - 1
      OBVIOUS
    <3>1. place[i] \in 1 .. n /\ place[i] < p
      BY <1>4, <1>5
    <3>2. n \in Nat /\ p \in 1 .. n
      BY <1>1, <1>3
    <3> QED BY <3>1, <3>2
  <2> QED BY <2>1
<1> HIDE DEF place
<1>7. PICK x, y \in 1 .. p : x # y /\ place[x] = place[y]
  <2>1. /\ IsFiniteSet(1 .. p) /\ IsFiniteSet(1 .. p - 1)
        /\ Cardinality(1 .. p - 1) < Cardinality(1 .. p)
    <3>1. p \in Int /\ p - 1 \in Int /\ 1 \in Int /\ 1 <= p
      BY <1>1, <1>3
    <3>2. /\ IsFiniteSet(1 .. p) /\ Cardinality(1 .. p) = IF 1 > p THEN 0 ELSE p - 1 + 1
          /\ IsFiniteSet(1 .. p - 1)
          /\ Cardinality(1 .. p - 1) = IF 1 > p - 1 THEN 0 ELSE p - 1 - 1 + 1
      BY <3>1, FS_Interval
    <3> QED BY <3>1, <3>2
  <2> QED BY <1>6, <2>1, FS_PigeonHole
<1>8. rows[x] = rows[y] /\ x \in 1 .. n /\ y \in 1 .. n
  BY <1>1, <1>3, <1>4, <1>7
<1> QED BY <1>1, <1>7, <1>8

(* The rows trained on are those up to the instant of the cut. *)
LEMMA TrainIsUpToAnInstant ==
  ASSUME Labelled \subseteq Keys, NEW rows \in TrainingSets
  PROVE  LET last == (Cardinality(Compared) * TrainPercent) \div 100
         IN  /\ last \in 0 .. Cardinality(Compared)
             /\ train(rows) = {k \in Compared :
                  0 < last /\ Scheduled[k] <= Scheduled[rows[last]]}
<1> DEFINE n == Cardinality(Compared)
           last == (n * TrainPercent) \div 100
<1>1. /\ n \in Nat /\ Len(rows) = n /\ rows \in [1 .. n -> Compared]
      /\ \A i, j \in 1 .. n : i < j => Scheduled[rows[i]] <= Scheduled[rows[j]]
      /\ \A k \in Compared : \E i \in 1 .. n : rows[i] = k
  BY EveryRowIsListed
<1>2. \A k \in Compared : Scheduled[k] \in Nat
  BY DEF Compared
<1>3. last \in 0 .. n
  <2> HIDE DEF n
  <2>1. TrainPercent \in Nat /\ 100 >= TrainPercent
    BY TrainingAssumption
  <2>2. TrainPercent * n <= 100 * n
    BY <1>1, <2>1, ProductGrows
  <2>3. n * TrainPercent = TrainPercent * n /\ n * TrainPercent \in Nat
    BY <1>1, <2>1
  <2> DEFINE product == n * TrainPercent
  <2>4. product \in Nat /\ product <= 100 * n
    BY <2>2, <2>3
  <2> HIDE DEF product
  <2>5. product \div 100 \in 0 .. n
    BY <1>1, <2>4
  <2> QED BY <2>5 DEF product
<1>4. \A i : before_cut(rows, i) <=>
        \/ i <= last
        \/ 0 < last /\ \A j \in last .. i : Scheduled[rows[j]] = Scheduled[rows[last]]
  BY <1>1 DEF before_cut, fraction
<1> HIDE DEF last
<1>5. ASSUME NEW i \in 1 .. n
      PROVE  before_cut(rows, i) <=> 0 < last /\ Scheduled[rows[i]] <= Scheduled[rows[last]]
  <2> HIDE DEF n
  <2>1. CASE i <= last
    <3>1. 0 < last /\ last \in 1 .. n /\ (i < last => Scheduled[rows[i]] <= Scheduled[rows[last]])
      BY <1>1, <1>3, <2>1
    <3>2. Scheduled[rows[i]] <= Scheduled[rows[last]]
      BY <1>1, <1>2, <1>3, <2>1, <3>1
    <3> QED BY <1>4, <2>1, <3>1, <3>2
  <2>2. CASE ~(i <= last)
    <3>1. CASE last = 0
      BY <1>4, <2>2, <3>1
    <3>2. CASE last # 0
      <4>1. last \in 1 .. n /\ last < i
        BY <1>1, <1>3, <2>2, <3>2
      <4>2. \A j \in last .. i : j \in 1 .. n
        BY <1>1, <4>1
      <4>3. \A j \in last .. i : /\ Scheduled[rows[last]] <= Scheduled[rows[j]]
                                 /\ Scheduled[rows[j]] <= Scheduled[rows[i]]
        <5> SUFFICES ASSUME NEW j \in last .. i
                     PROVE  /\ Scheduled[rows[last]] <= Scheduled[rows[j]]
                            /\ Scheduled[rows[j]] <= Scheduled[rows[i]]
          OBVIOUS
        <5>1. /\ rows[j] \in Compared /\ rows[i] \in Compared /\ rows[last] \in Compared
              /\ j = last \/ last < j
              /\ j = i \/ j < i
          BY <1>1, <4>1, <4>2
        <5> QED BY <1>1, <1>2, <4>1, <4>2, <5>1
      <4>4. \A j \in last .. i : Scheduled[rows[j]] \in Nat
        BY <1>1, <1>2, <4>2
      <4>5. i \in last .. i /\ last \in last .. i
        BY <1>1, <4>1
      <4> QED BY <1>4, <2>2, <4>1, <4>3, <4>4, <4>5
    <3> QED BY <3>1, <3>2
  <2> QED BY <2>1, <2>2
<1>6. train(rows) = {k \in Compared : 0 < last /\ Scheduled[k] <= Scheduled[rows[last]]}
  BY <1>1, <1>5 DEF train
<1> QED BY <1>3, <1>6 DEF last

(* However a database orders the rows of one instant, the split is the same. *)
THEOREM SplitAlwaysReproducible == FeaturesSpec => []SplitIsReproducible
<1>1. FeaturesIInv => SplitIsReproducible
  <2> SUFFICES ASSUME Labelled \subseteq Keys,
                      NEW rows \in TrainingSets, NEW others \in TrainingSets
               PROVE  train(rows) = train(others)
    BY DEF FeaturesIInv, SplitIsReproducible
  <2> DEFINE last == (Cardinality(Compared) * TrainPercent) \div 100
  <2>1. last \in 0 .. Cardinality(Compared) /\ Cardinality(Compared) \in Nat
    BY TrainIsUpToAnInstant, EveryRowIsListed
  <2>2. /\ train(rows) = {k \in Compared : 0 < last /\ Scheduled[k] <= Scheduled[rows[last]]}
        /\ train(others) = {k \in Compared : 0 < last /\ Scheduled[k] <= Scheduled[others[last]]}
    BY TrainIsUpToAnInstant
  <2> HIDE DEF last
  <2>3. CASE last = 0
    BY <2>2, <2>3
  <2>4. CASE last # 0
    <3>1. last \in 1 .. Cardinality(Compared)
      BY <2>1, <2>4
    <3>2. /\ Scheduled[others[last]] <= Scheduled[rows[last]]
          /\ Scheduled[rows[last]] <= Scheduled[others[last]]
      BY <3>1, SamePlaceSameInstant
    <3>3. Scheduled[others[last]] \in Nat /\ Scheduled[rows[last]] \in Nat
      <4>1. others[last] \in Compared /\ rows[last] \in Compared
        BY <3>1, EveryRowIsListed
      <4> QED BY <4>1 DEF Compared
    <3> QED BY <2>2, <3>2, <3>3
  <2> QED BY <2>3, <2>4
<1> QED BY <1>1, FeaturesAlways, PTL
=============================================================================
