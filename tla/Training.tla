------------------------------ MODULE Training ------------------------------
(***************************************************************************)
(* The training set and the evaluation of a candidate (scripts/train.py),  *)
(* the temporal split and the baselines (pulse/train.py) and the metrics   *)
(* (pulse/metrics.py): pure functions of the two tables.                   *)
(*                                                                         *)
(* A score is an exact fraction, as a late rate is.  Only counts are       *)
(* compared: the recalls of one set of rows share their denominator.       *)
(***************************************************************************)
EXTENDS Features, Sequences

CONSTANTS
  TrainPercent,         \* TRAIN_FRACTION
  PersistenceThreshold, \* LATE_PERSISTENCE_THRESHOLD_SECONDS
  MinPercent            \* MIN_PRECISION

ASSUME TrainingAssumption ==
  /\ TrainPercent \in 0 .. 100
  /\ PersistenceThreshold \in Nat
  /\ MinPercent \in 1 .. 100

(* The join in the order of scheduled_arrival.  The query breaks ties by the *)
(* natural key; here they may fall in any order.                             *)
TrainingSets ==
  {rows \in [1 .. Cardinality(Compared) -> Compared] :
     \A i, j \in DOMAIN rows :
       i < j => rows[i] # rows[j] /\ Scheduled[rows[i]] <= Scheduled[rows[j]]}

(* int(len(df) * train_fraction), with an exact product. *)
fraction(rows) == (Len(rows) * TrainPercent) \div 100

(* Mutated form: the cut is not pushed forward. *)
BeforeFraction(rows, i) == i <= fraction(rows)

(* The cut, when there are rows before it, moves forward while the instant *)
(* of the last of them goes on.                                            *)
before_cut(rows, i) ==
  LET last == fraction(rows)
  IN  \/ i <= last
      \/ 0 < last /\ \A j \in last .. i : Scheduled[rows[j]] = Scheduled[rows[last]]

train(rows) == {rows[i] : i \in {j \in 1 .. Len(rows) : before_cut(rows, j)}}
test(rows) == {rows[i] : i \in {j \in 1 .. Len(rows) : ~before_cut(rows, j)}}

(* One late rate per bucket, from the train rows only. *)
frozen_route_hour_late_rate(rows, k) ==
  LateRate({h \in train(rows) : RouteHour[h] = RouteHour[k]})

-----------------------------------------------------------------------------
AtLeast(a, b) == a.late * b.of >= b.late * a.of

(* A sample is late when its score is at or above the threshold. *)
PredictedLate(y_score, threshold) == {k \in DOMAIN y_score : AtLeast(y_score[k], threshold)}

confusion_at_threshold(y_score, threshold) ==
  LET predicted == PredictedLate(y_score, threshold)
      late == Late(DOMAIN y_score)
  IN  [tp |-> Cardinality(predicted \cap late), fp |-> Cardinality(predicted \ late),
       fn |-> Cardinality(late \ predicted)]

(* Precision is undefined when nothing is predicted late. *)
ReachesPrecision(confusion) ==
  LET predicted_late == confusion.tp + confusion.fp
  IN  predicted_late > 0 /\ 100 * confusion.tp >= MinPercent * predicted_late

(* The real thresholds of sklearn's precision_recall_curve are the scores; *)
(* its trailing point, which has none, is sliced off.                      *)
eligible(y_score) ==
  {t \in {y_score[k] : k \in DOMAIN y_score} :
     ReachesPrecision(confusion_at_threshold(y_score, t))}

(* Mutated forms: the first recall found is the lowest one; the trailing *)
(* point is searched too, so that predicting nothing reaches it.         *)
LowestRecall(y_score) ==
  LET found == {confusion_at_threshold(y_score, t).tp : t \in eligible(y_score)}
  IN  IF found = {} THEN NULL ELSE CHOOSE n \in found : \A m \in found : n <= m

TrailingPointCounts(y_score) ==
  LET found == {0} \cup {confusion_at_threshold(y_score, t).tp : t \in eligible(y_score)}
  IN  CHOOSE n \in found : \A m \in found : m <= n

(* The greatest recall, as the number of late rows found; NULL when no real *)
(* threshold reaches the precision.                                         *)
recall_at_precision(y_score) ==
  LET found == {confusion_at_threshold(y_score, t).tp : t \in eligible(y_score)}
  IN  IF found = {} THEN NULL ELSE CHOOSE n \in found : \A m \in found : m <= n

(* The lowest threshold that reaches it. *)
threshold_for_precision(y_score) ==
  IF eligible(y_score) = {} THEN NULL
    ELSE CHOOSE t \in eligible(y_score) : \A u \in eligible(y_score) : AtLeast(u, t)

Zero == [late |-> 0, of |-> 1]
One == [late |-> 1, of |-> 1]

(* Where a row has no rate the late rate of the train rows stands in. *)
baseline_scores(rows, target) ==
  LET train_late_rate == IF train(rows) = {} THEN Zero ELSE LateRate(train(rows))
      IsLate(p) == p # NULL /\ p > PersistenceThreshold
  IN  [always_on_time |-> [k \in target |-> Zero],
       route_hour_rate |->
         [k \in target |-> IF features[k].rate = NULL THEN train_late_rate
                                                      ELSE features[k].rate],
       persistence |->
         [k \in target |-> IF IsLate(features[k].persistence) THEN One ELSE Zero]]

(* The threshold is chosen on train and then held to on test. *)
_evaluate(train_score, test_score) ==
  LET threshold == threshold_for_precision(train_score)
  IN  [recall_at_precision_oracle |-> recall_at_precision(test_score),
       confusion |-> IF threshold = NULL THEN NULL
                                         ELSE confusion_at_threshold(test_score, threshold)]

-----------------------------------------------------------------------------
(* No instant lies on both sides of the split, however ties fall: every row *)
(* trained on is scheduled before every row tested on.  The frozen rate of  *)
(* a test row is then taken from rows that its as-of rate has read as well. *)
TrainBeforeTest ==
  \A rows \in TrainingSets : \A r \in train(rows), t \in test(rows) :
    /\ Scheduled[r] < Scheduled[t]
    /\ RouteHour[r] = RouteHour[t] => r \in SameRouteHour(t)

(* "A report whose numbers move between runs cannot claim its numbers are  *)
(* reproducible" (temporal_split's docstring): the split is the same       *)
(* however the database orders the rows of one instant.                    *)
SplitIsReproducible ==
  \A rows, others \in TrainingSets : train(rows) = train(others)

(* metrics.py on its two searches over the same curve: the lowest eligible *)
(* threshold is the one recall_at_precision's answer corresponds to, and   *)
(* on the rows it was chosen on it gives that recall at the precision.     *)
ThresholdGivesTheRecall ==
  \A rows \in TrainingSets :
    LET scores == baseline_scores(rows, train(rows))
    IN  \A name \in DOMAIN scores :
          LET threshold == threshold_for_precision(scores[name])
              recall == recall_at_precision(scores[name])
              confusion == confusion_at_threshold(scores[name], threshold)
          IN  IF threshold = NULL THEN recall = NULL
                                  ELSE ReachesPrecision(confusion) /\ confusion.tp = recall

(* The two recalls scripts/train.py prints side by side: a threshold fixed *)
(* on train that keeps the precision on test finds no more late rows there *)
(* than the oracle, which searches the scores of the test rows alone.      *)
OracleIsAnUpperBound ==
  \A rows \in TrainingSets :
    LET train_scores == baseline_scores(rows, train(rows))
        test_scores == baseline_scores(rows, test(rows))
    IN  \A name \in DOMAIN test_scores :
          LET result == _evaluate(train_scores[name], test_scores[name])
          IN  result.confusion # NULL => (ReachesPrecision(result.confusion) =>
                /\ result.recall_at_precision_oracle # NULL
                /\ result.confusion.tp <= result.recall_at_precision_oracle)
=============================================================================
