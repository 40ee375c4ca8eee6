----------------------------- MODULE FetchProofs -----------------------------
(***************************************************************************)
(* What a fetch may miss and how long it may sleep, for any collection,    *)
(* page size, cap and allowance, and however the collection changes        *)
(* between two pages.                                                      *)
(***************************************************************************)
EXTENDS Fetch, FiniteSetTheorems, SequenceTheorems, TLAPS

-----------------------------------------------------------------------------
(* Of two integers. *)
LEMMA MinOfTwo ==
  ASSUME NEW a \in Int, NEW b \in Int
  PROVE  Min({a, b}) = IF a <= b THEN a ELSE b
<1> DEFINE least == IF a <= b THEN a ELSE b
<1>1. least \in {a, b} /\ \A y \in {a, b} : least <= y
  OBVIOUS
<1>2. Min({a, b}) \in {a, b} /\ \A y \in {a, b} : Min({a, b}) <= y
  BY <1>1 DEF Min
<1> QED BY <1>1, <1>2

LEMMA MaxOfTwo ==
  ASSUME NEW a \in Int, NEW b \in Int
  PROVE  Max({a, b}) = IF a >= b THEN a ELSE b
<1> DEFINE greatest == IF a >= b THEN a ELSE b
<1>1. greatest \in {a, b} /\ \A y \in {a, b} : greatest >= y
  OBVIOUS
<1>2. Max({a, b}) \in {a, b} /\ \A y \in {a, b} : Max({a, b}) >= y
  BY <1>1 DEF Max
<1> QED BY <1>1, <1>2

(* What changes of the collection do to the places in it. *)
LEMMA PartOf ==
  ASSUME NEW S, NEW s \in Seq(S), NEW m \in Nat \ {0}, NEW n \in 0 .. Len(s), m <= n + 1
  PROVE  /\ SubSeq(s, m, n) \in Seq(S)
         /\ Len(SubSeq(s, m, n)) = n - m + 1
         /\ \A i \in 1 .. n - m + 1 : SubSeq(s, m, n)[i] = s[m + i - 1]
<1>1. Len(s) \in Nat /\ \A i \in 1 .. Len(s) : s[i] \in S
  BY ElementOfSeq, LenProperties
<1>2. m \in Int /\ n \in Int /\ \A i \in m .. n : s[i] \in S
  BY <1>1
<1>3. (IF m <= n THEN n - m + 1 ELSE 0) = n - m + 1
  BY <1>1
<1> QED BY <1>2, <1>3, SubSeqProperties

LEMMA Inserted ==
  ASSUME NEW S, NEW s \in Seq(S), NEW p \in S, NEW i \in 1 .. Len(s) + 1
  PROVE  LET t == InsertAt(s, i, p)
         IN  /\ t \in Seq(S)
             /\ Len(t) = Len(s) + 1
             /\ \A j \in 1 .. Len(t) :
                  t[j] = IF j < i THEN s[j] ELSE IF j = i THEN p ELSE s[j - 1]
<1> DEFINE a == SubSeq(s, 1, i - 1)
           b == SubSeq(s, i, Len(s))
           c == a \o <<p>>
<1>1. Len(s) \in Nat
  BY LenProperties
<1>2. /\ a \in Seq(S) /\ Len(a) = i - 1
      /\ \A j \in 1 .. i - 1 : a[j] = s[j]
  <2>1. i - 1 \in 0 .. Len(s) /\ 1 <= i - 1 + 1
    BY <1>1
  <2>2. /\ a \in Seq(S) /\ Len(a) = i - 1 - 1 + 1
        /\ \A j \in 1 .. i - 1 - 1 + 1 : a[j] = s[1 + j - 1]
    BY <2>1, PartOf
  <2> HIDE DEF a
  <2> QED BY <1>1, <2>2
<1>3. /\ b \in Seq(S) /\ Len(b) = Len(s) - i + 1
      /\ \A j \in 1 .. Len(s) - i + 1 : b[j] = s[i + j - 1]
  <2>1. i \in Nat \ {0} /\ Len(s) \in 0 .. Len(s) /\ i <= Len(s) + 1
    BY <1>1
  <2> QED BY <2>1, PartOf
<1> HIDE DEF a, b
<1>4. <<p>> \in Seq(S) /\ Len(<<p>>) = 1 /\ <<p>>[1] = p
  OBVIOUS
<1>5. /\ c \in Seq(S) /\ Len(c) = i
      /\ \A j \in 1 .. i : c[j] = IF j <= i - 1 THEN a[j] ELSE <<p>>[j - (i - 1)]
  <2>1. /\ c \in Seq(S) /\ Len(c) = Len(a) + Len(<<p>>)
        /\ \A j \in 1 .. Len(a) + Len(<<p>>) :
             c[j] = IF j <= Len(a) THEN a[j] ELSE <<p>>[j - Len(a)]
    BY <1>2, <1>4, ConcatProperties
  <2>2. Len(a) = i - 1 /\ Len(a) + Len(<<p>>) = i
    BY <1>1, <1>2, <1>4
  <2> QED BY <2>1, <2>2
<1>6. \A j \in 1 .. i : c[j] = IF j < i THEN s[j] ELSE p
  <2> HIDE DEF c
  <2> SUFFICES ASSUME NEW j \in 1 .. i PROVE c[j] = IF j < i THEN s[j] ELSE p
    OBVIOUS
  <2>1. CASE j < i
    BY <1>1, <1>2, <1>5, <2>1
  <2>2. CASE j = i
    BY <1>1, <1>4, <1>5, <2>2
  <2> QED BY <1>1, <2>1, <2>2
<1> HIDE DEF c
<1>7. /\ c \o b \in Seq(S) /\ Len(c \o b) = Len(s) + 1
      /\ \A j \in 1 .. Len(s) + 1 : (c \o b)[j] = IF j <= i THEN c[j] ELSE b[j - i]
  <2>1. /\ c \o b \in Seq(S) /\ Len(c \o b) = Len(c) + Len(b)
        /\ \A j \in 1 .. Len(c) + Len(b) :
             (c \o b)[j] = IF j <= Len(c) THEN c[j] ELSE b[j - Len(c)]
    <3>1. c \in Seq(S) /\ b \in Seq(S)
      BY <1>3, <1>5
    <3> QED BY <3>1, ConcatProperties
  <2>2. Len(c) = i /\ Len(c) + Len(b) = Len(s) + 1
    BY <1>1, <1>3, <1>5
  <2> QED BY <2>1, <2>2
<1>8. \A j \in 1 .. Len(s) + 1 :
        (c \o b)[j] = IF j < i THEN s[j] ELSE IF j = i THEN p ELSE s[j - 1]
  <2> SUFFICES ASSUME NEW j \in 1 .. Len(s) + 1
               PROVE  (c \o b)[j] = IF j < i THEN s[j] ELSE IF j = i THEN p ELSE s[j - 1]
    OBVIOUS
  <2>1. CASE j <= i
    BY <1>1, <1>6, <1>7, <2>1
  <2>2. CASE j > i
    <3>1. j - i \in 1 .. Len(s) - i + 1 /\ i + (j - i) - 1 = j - 1
      BY <1>1, <2>2
    <3>2. b[j - i] = s[j - 1]
      BY <1>3, <3>1
    <3>3. ~(j <= i) /\ ~(j < i) /\ j # i
      BY <1>1, <2>2
    <3>4. (c \o b)[j] = b[j - i]
      BY <1>7, <3>3
    <3> QED BY <3>2, <3>3, <3>4
  <2>3. j <= i \/ j > i
    BY <1>1
  <2> QED BY <2>1, <2>2, <2>3
<1>9. InsertAt(s, i, p) = c \o b
  BY DEF InsertAt, a, b, c
<1> QED BY <1>7, <1>8, <1>9

LEMMA Removed ==
  ASSUME NEW S, NEW s \in Seq(S), NEW i \in 1 .. Len(s)
  PROVE  LET t == RemoveAt(s, i)
         IN  /\ t \in Seq(S)
             /\ Len(t) = Len(s) - 1
             /\ \A j \in 1 .. Len(t) : t[j] = IF j < i THEN s[j] ELSE s[j + 1]
<1> DEFINE a == SubSeq(s, 1, i - 1)
           b == SubSeq(s, i + 1, Len(s))
<1>1. Len(s) \in Nat
  BY LenProperties
<1>2. /\ a \in Seq(S) /\ Len(a) = i - 1
      /\ \A j \in 1 .. i - 1 : a[j] = s[j]
  <2>1. i - 1 \in 0 .. Len(s) /\ 1 <= i - 1 + 1
    BY <1>1
  <2>2. /\ a \in Seq(S) /\ Len(a) = i - 1 - 1 + 1
        /\ \A j \in 1 .. i - 1 - 1 + 1 : a[j] = s[1 + j - 1]
    BY <2>1, PartOf
  <2> HIDE DEF a
  <2> QED BY <1>1, <2>2
<1>3. /\ b \in Seq(S) /\ Len(b) = Len(s) - i
      /\ \A j \in 1 .. Len(s) - i : b[j] = s[i + j]
  <2>1. i + 1 \in Nat \ {0} /\ Len(s) \in 0 .. Len(s) /\ i + 1 <= Len(s) + 1
    BY <1>1
  <2>2. /\ b \in Seq(S) /\ Len(b) = Len(s) - (i + 1) + 1
        /\ \A j \in 1 .. Len(s) - (i + 1) + 1 : b[j] = s[(i + 1) + j - 1]
    BY <2>1, PartOf
  <2> HIDE DEF b
  <2> QED BY <1>1, <2>2
<1> HIDE DEF a, b
<1>4. /\ a \o b \in Seq(S) /\ Len(a \o b) = Len(s) - 1
      /\ \A j \in 1 .. Len(s) - 1 : (a \o b)[j] = IF j <= i - 1 THEN a[j] ELSE b[j - (i - 1)]
  <2>1. /\ a \o b \in Seq(S) /\ Len(a \o b) = Len(a) + Len(b)
        /\ \A j \in 1 .. Len(a) + Len(b) :
             (a \o b)[j] = IF j <= Len(a) THEN a[j] ELSE b[j - Len(a)]
    BY <1>2, <1>3, ConcatProperties
  <2>2. Len(a) = i - 1 /\ Len(a) + Len(b) = Len(s) - 1
    BY <1>1, <1>2, <1>3
  <2> QED BY <2>1, <2>2
<1>5. \A j \in 1 .. Len(s) - 1 : (a \o b)[j] = IF j < i THEN s[j] ELSE s[j + 1]
  <2> SUFFICES ASSUME NEW j \in 1 .. Len(s) - 1
               PROVE  (a \o b)[j] = IF j < i THEN s[j] ELSE s[j + 1]
    OBVIOUS
  <2>1. CASE j < i
    BY <1>1, <1>2, <1>4, <2>1
  <2>2. CASE j >= i
    <3>1. j - (i - 1) \in 1 .. Len(s) - i /\ i + (j - (i - 1)) = j + 1
      BY <1>1, <2>2
    <3>2. b[j - (i - 1)] = s[j + 1]
      BY <1>3, <3>1
    <3>3. ~(j <= i - 1) /\ ~(j < i)
      BY <1>1, <2>2
    <3>4. (a \o b)[j] = b[j - (i - 1)]
      BY <1>4, <3>3
    <3> QED BY <3>2, <3>3, <3>4
  <2>3. j < i \/ j >= i
    BY <1>1
  <2> QED BY <2>1, <2>2, <2>3
<1>6. RemoveAt(s, i) = a \o b
  BY DEF RemoveAt, a, b
<1> QED BY <1>4, <1>5, <1>6

LEMMA Arrived ==
  ASSUME NEW p \in Predictions, NEW i \in 1 .. Len(live) + 1,
         live \in Seq(Predictions), live' = InsertAt(live, i, p)
  PROVE  /\ live' \in Seq(Predictions)
         /\ Len(live') = Len(live) + 1
         /\ \A j \in 1 .. Len(live') :
              live'[j] = IF j < i THEN live[j] ELSE IF j = i THEN p ELSE live[j - 1]
BY Inserted

-----------------------------------------------------------------------------
USE FetchAssumption

(* Types. *)
LEMMA BackoffType ==
  ASSUME NEW b \in Backoffs
  PROVE  b \in 0 .. Max({DefaultBackoff, MaxHonoredRetryAfter})
<1>1. CASE b = DefaultBackoff
  BY <1>1, MaxOfTwo
<1>2. CASE \E r \in RetryAfters : b = Max({0, Min({r, MaxHonoredRetryAfter})})
  <2>1. PICK r \in RetryAfters : b = Max({0, Min({r, MaxHonoredRetryAfter})})
    BY <1>2
  <2>2. Min({r, MaxHonoredRetryAfter}) \in Int
        /\ Min({r, MaxHonoredRetryAfter}) <= MaxHonoredRetryAfter
    <3>1. r \in Int
      OBVIOUS
    <3> QED BY <3>1, MinOfTwo
  <2> DEFINE clamped == Min({r, MaxHonoredRetryAfter})
  <2>3. b = IF 0 >= clamped THEN 0 ELSE clamped
    <3>1. clamped \in Int /\ b = Max({0, clamped})
      BY <2>1, <2>2
    <3> HIDE DEF clamped
    <3> QED BY <3>1, MaxOfTwo
  <2> HIDE DEF clamped
  <2>4. Max({DefaultBackoff, MaxHonoredRetryAfter})
          = IF DefaultBackoff >= MaxHonoredRetryAfter THEN DefaultBackoff ELSE MaxHonoredRetryAfter
    BY MaxOfTwo
  <2> QED BY <2>2, <2>3, <2>4 DEF clamped
<1> QED BY <1>1, <1>2 DEF Backoffs

LEMMA PageType ==
  ASSUME FetchTypeOK
  PROVE  Page = {live[j] : j \in {k \in 1 .. Len(live) : offset < k /\ k <= offset + PageLimit}}
<1> DEFINE n == IF offset + PageLimit <= Len(live) THEN offset + PageLimit ELSE Len(live)
           part == SubSeq(live, offset + 1, n)
<1>1. live \in Seq(Predictions) /\ Len(live) \in Nat /\ offset \in Nat /\ PageLimit \in Nat
  BY LenProperties DEF FetchTypeOK
<1>2. Page = Range(part)
  <2>1. Min({offset + PageLimit, Len(live)}) = n
    BY <1>1, MinOfTwo
  <2> QED BY <2>1 DEF Page
<1>3. CASE offset < Len(live)
  <2>1. offset + 1 \in Nat \ {0} /\ n \in 0 .. Len(live) /\ offset + 1 <= n + 1
    BY <1>1, <1>3
  <2> HIDE DEF n
  <2>2. /\ part \in Seq(Predictions) /\ Len(part) = n - (offset + 1) + 1
        /\ \A i \in 1 .. n - (offset + 1) + 1 : part[i] = live[(offset + 1) + i - 1]
    BY <1>1, <2>1, PartOf
  <2>3. DOMAIN part = 1 .. n - offset /\ \A i \in 1 .. n - offset : part[i] = live[offset + i]
    <3>1. n - (offset + 1) + 1 = n - offset
      BY <1>1, <2>1
    <3>2. \A i \in 1 .. n - offset : (offset + 1) + i - 1 = offset + i
      BY <1>1, <2>1
    <3>3. DOMAIN part = 1 .. Len(part)
      BY <2>2, LenProperties
    <3> HIDE DEF part
    <3> QED BY <2>2, <3>1, <3>2, <3>3
  <2> HIDE DEF part
  <2>4. Range(part) = {live[offset + i] : i \in 1 .. n - offset}
    BY <2>3 DEF Range
  <2>5. \A k : k \in 1 .. Len(live) /\ offset < k /\ k <= offset + PageLimit
                 <=> k \in offset + 1 .. n
    BY <1>1, <1>3 DEF n
  <2>6. \A k \in offset + 1 .. n : k - offset \in 1 .. n - offset /\ offset + (k - offset) = k
    BY <1>1, <2>1
  <2>7. \A i \in 1 .. n - offset : offset + i \in offset + 1 .. n
    BY <1>1, <2>1
  <2> QED BY <1>2, <2>4, <2>5, <2>6, <2>7
<1>4. CASE ~(offset < Len(live))
  <2>1. part = <<>>
    <3>1. offset + 1 \in Int /\ n \in Int /\ n < offset + 1
      BY <1>1, <1>4
    <3> QED BY <3>1, SubSeqEmpty
  <2>2. Page = {}
    <3>1. DOMAIN << >> = {}
      OBVIOUS
    <3> QED BY <1>2, <2>1, <3>1 DEF Range
  <2> QED BY <1>1, <1>4, <2>2
<1> QED BY <1>3, <1>4

(* Predictions still in the collection that went by unread. *)
Passed == {p \in stable \ all_data : \E j \in 1 .. Len(live) : j <= offset /\ live[j] = p}

Longest == Max({DefaultBackoff, MaxHonoredRetryAfter})

FetchIInv ==
  /\ FetchTypeOK
  /\ stable \subseteq Range(live)
  /\ pc = "get" /\ ~violations => Cardinality(Passed) <= removed
  /\ MissedAtMostRemoved
  /\ pc = "get" => slept <= ((page - 1) * MaxRetries + attempt) * Longest
  /\ BackoffIsBounded

LEMMA LongestType == Longest \in Nat
<1>1. DefaultBackoff \in Int /\ MaxHonoredRetryAfter \in Int
  OBVIOUS
<1> QED BY <1>1, MaxOfTwo DEF Longest

LEMMA PlacesOf ==
  ASSUME NEW S, NEW s \in Seq(S)
  PROVE  Range(s) = {s[j] : j \in 1 .. Len(s)} /\ Range(s) \subseteq S /\ Len(s) \in Nat
<1>1. DOMAIN s = 1 .. Len(s) /\ Len(s) \in Nat /\ \A j \in 1 .. Len(s) : s[j] \in S
  BY LenProperties, ElementOfSeq
<1> QED BY <1>1 DEF Range

LEMMA MissedIsFinite ==
  ASSUME FetchTypeOK, NEW S, S \subseteq stable
  PROVE  IsFiniteSet(S) /\ Cardinality(S) \in Nat
<1>1. S \in SUBSET Predictions
  BY DEF FetchTypeOK
<1> QED BY <1>1, FS_Subset, FS_CardinalityType

LEMMA FetchInitIInv == FetchInit => FetchIInv
<1> SUFFICES ASSUME FetchInit PROVE FetchIInv
  OBVIOUS
<1>1. PICK m \in 0 .. Cardinality(Predictions) : live \in [1 .. m -> Predictions]
  BY DEF FetchInit, SeqOf
<1>2. Cardinality(Predictions) \in Nat
  BY FS_CardinalityType
<1>3. live \in Seq(Predictions)
  BY <1>1, <1>2
<1>4. Range(live) \subseteq Predictions /\ Len(live) \in Nat
  BY <1>3, PlacesOf
<1>5. FetchTypeOK
  <2>1. /\ 1 \in 1 .. MaxPages /\ 0 \in Nat
        /\ 0 \in 0 .. MaxRetries /\ 0 \in 0 .. MaxSlept /\ 0 \in 0 .. MaxChanges
    OBVIOUS
  <2>2. /\ changes \in 0 .. MaxChanges /\ page \in 1 .. MaxPages /\ offset \in Nat
        /\ attempt \in 0 .. MaxRetries /\ slept \in 0 .. MaxSlept /\ removed \in Nat
    BY <2>1 DEF FetchInit
  <2>3. /\ pc \in {"get", "done", "failed"} /\ all_data \subseteq Predictions
        /\ hit_page_cap \in BOOLEAN /\ violations \in BOOLEAN
    BY DEF FetchInit
  <2>4. stable \subseteq Predictions
    BY <1>4 DEF FetchInit
  <2> QED BY <1>3, <2>2, <2>3, <2>4 DEF FetchTypeOK
<1>6. Passed = {}
  BY <1>4 DEF FetchInit, Passed
<1>7. Cardinality({}) = 0
  BY FS_EmptySet
<1>8. ((page - 1) * MaxRetries + attempt) * Longest = 0 /\ slept = 0
  <2>1. page = 1 /\ attempt = 0 /\ slept = 0
    BY DEF FetchInit
  <2>2. (page - 1) * MaxRetries + attempt = 0
    BY <2>1
  <2> QED BY <2>1, <2>2, LongestType
<1>9. BackoffIsBounded
  <2>1. MaxPages * MaxRetries \in Nat
    OBVIOUS
  <2>2. 0 <= MaxPages * MaxRetries * Longest
    <3> DEFINE allowance == MaxPages * MaxRetries
    <3> HIDE DEF allowance
    <3>1. allowance \in Nat => 0 <= allowance * Longest
      BY LongestType
    <3> QED BY <2>1, <3>1 DEF allowance
  <2> QED BY <1>8, <2>2 DEF BackoffIsBounded, Longest
<1> QED BY <1>5, <1>6, <1>7, <1>8, <1>9 DEF FetchInit, FetchIInv, MissedAtMostRemoved

(* A prediction that appears moves none into the part that went by. *)
LEMMA AppearStep ==
  ASSUME FetchIInv, NEW p \in Predictions, Appear(p)
  PROVE  FetchIInv'
<1>1. PICK i \in 1 .. Len(live) + 1 : live' = InsertAt(live, i, p)
  BY DEF Appear
<1>2. /\ live \in Seq(Predictions) /\ Len(live) \in Nat
      /\ Range(live) = {live[j] : j \in 1 .. Len(live)}
  BY PlacesOf DEF FetchIInv, FetchTypeOK
<1>3. /\ live' \in Seq(Predictions)
      /\ Len(live') = Len(live) + 1
      /\ \A j \in 1 .. Len(live') :
           live'[j] = IF j < i THEN live[j] ELSE IF j = i THEN p ELSE live[j - 1]
  BY <1>1, <1>2, Arrived
<1>4. /\ UNCHANGED <<pc, page, offset, attempt, slept, all_data, hit_page_cap, violations>>
      /\ UNCHANGED <<stable, removed>>
      /\ p \notin Range(live) /\ changes' = changes + 1 /\ changes < MaxChanges
  BY DEF Appear, fetchVars
<1>5. FetchTypeOK'
  BY <1>3, <1>4 DEF FetchIInv, FetchTypeOK
<1>6. stable' \subseteq Range(live')
  <2> SUFFICES ASSUME NEW q \in stable PROVE q \in Range(live')
    BY <1>4
  <2>1. PICK j \in 1 .. Len(live) : live[j] = q
    BY <1>2 DEF FetchIInv
  <2>2. j \in Int /\ i \in Int /\ Len(live') \in Nat
    BY <1>2, <1>3
  <2>3. j \in 1 .. Len(live') /\ j + 1 \in 1 .. Len(live') /\ j + 1 - 1 = j
    BY <1>2, <1>3, <2>2
  <2>4. live'[j] = q \/ live'[j + 1] = q
    <3>1. CASE j < i
      BY <1>3, <2>1, <2>3, <3>1
    <3>2. CASE ~(j < i)
      <4>1. ~(j + 1 < i) /\ j + 1 # i
        BY <2>2, <3>2
      <4> QED BY <1>3, <2>1, <2>3, <4>1
    <3> QED BY <3>1, <3>2
  <2>5. Range(live') = {live'[k] : k \in 1 .. Len(live')}
    BY <1>3, PlacesOf
  <2> QED BY <2>3, <2>4, <2>5
<1>7. Passed' \subseteq Passed
  <2> SUFFICES ASSUME NEW q \in Passed' PROVE q \in Passed
    OBVIOUS
  <2>1. q \in stable \ all_data
    BY <1>4 DEF Passed
  <2>2. PICK j \in 1 .. Len(live') : j <= offset /\ live'[j] = q
    BY <1>4 DEF Passed
  <2>3. q # p
    BY <1>4, <2>1 DEF FetchIInv
  <2>4. offset \in Nat
    BY DEF FetchIInv, FetchTypeOK
  <2>5. CASE j < i
    <3>1. live[j] = q /\ j \in 1 .. Len(live)
      BY <1>2, <1>3, <2>2, <2>5
    <3> QED BY <2>1, <2>2, <3>1 DEF Passed
  <2>6. CASE ~(j < i)
    <3>1. j # i /\ live[j - 1] = q
      BY <1>3, <2>2, <2>3, <2>6
    <3>2. j - 1 \in 1 .. Len(live) /\ j - 1 <= offset
      BY <1>2, <1>3, <2>2, <2>4, <2>6, <3>1
    <3> QED BY <2>1, <3>1, <3>2 DEF Passed
  <2> QED BY <2>5, <2>6
<1>8. Cardinality(Passed') <= Cardinality(Passed)
      /\ Cardinality(Passed') \in Nat /\ Cardinality(Passed) \in Nat
  <2>1. Passed \subseteq stable /\ FetchTypeOK
    BY DEF Passed, FetchIInv
  <2>2. IsFiniteSet(Passed) /\ Cardinality(Passed) \in Nat
    BY <2>1, MissedIsFinite
  <2> QED BY <1>7, <2>2, FS_Subset, FS_CardinalityType
<1>9. pc' = "get" /\ ~violations' => Cardinality(Passed') <= removed'
  BY <1>4, <1>8 DEF FetchIInv, FetchTypeOK
<1>10. MissedAtMostRemoved'
  BY <1>4 DEF FetchIInv, MissedAtMostRemoved
<1>11. /\ pc' = "get" => slept' <= ((page' - 1) * MaxRetries + attempt') * Longest
       /\ BackoffIsBounded'
  BY <1>4 DEF FetchIInv, BackoffIsBounded
<1> QED BY <1>5, <1>6, <1>9, <1>10, <1>11 DEF FetchIInv, Longest

(* One that goes away moves at most one of the others there. *)
LEMMA DisappearStep ==
  ASSUME FetchIInv, NEW i \in 1 .. Len(live), Disappear(i)
  PROVE  FetchIInv'
<1>2. /\ live \in Seq(Predictions) /\ Len(live) \in Nat
      /\ Range(live) = {live[j] : j \in 1 .. Len(live)}
  BY PlacesOf DEF FetchIInv, FetchTypeOK
<1>3. /\ live' \in Seq(Predictions)
      /\ Len(live') = Len(live) - 1
      /\ \A j \in 1 .. Len(live') : live'[j] = IF j < i THEN live[j] ELSE live[j + 1]
  BY <1>2, Removed DEF Disappear
<1>4. /\ UNCHANGED <<pc, page, offset, attempt, slept, all_data, hit_page_cap, violations>>
      /\ stable' = stable \ {live[i]} /\ removed' = removed + 1
      /\ changes' = changes + 1 /\ changes < MaxChanges
  BY DEF Disappear, fetchVars
<1>5. FetchTypeOK'
  BY <1>3, <1>4 DEF FetchIInv, FetchTypeOK
<1>6. stable' \subseteq Range(live')
  <2> SUFFICES ASSUME NEW q \in stable, q # live[i] PROVE q \in Range(live')
    BY <1>4
  <2>1. PICK j \in 1 .. Len(live) : live[j] = q
    BY <1>2 DEF FetchIInv
  <2>2. CASE j < i
    <3>1. j \in 1 .. Len(live') /\ live'[j] = q
      BY <1>2, <1>3, <2>1, <2>2
    <3> QED BY <1>3, <3>1, PlacesOf
  <2>3. CASE i < j
    <3>1. j - 1 \in 1 .. Len(live') /\ ~(j - 1 < i) /\ (j - 1) + 1 = j
      BY <1>2, <1>3, <2>1, <2>3
    <3>2. live'[j - 1] = q
      BY <1>3, <2>1, <3>1
    <3> QED BY <1>3, <3>1, <3>2, PlacesOf
  <2>4. j < i \/ i < j
    BY <1>2, <2>1
  <2> QED BY <2>2, <2>3, <2>4
<1>7. Passed' \subseteq Passed \cup {live[offset + 1]}
  <2> SUFFICES ASSUME NEW q \in Passed', q # live[offset + 1] PROVE q \in Passed
    OBVIOUS
  <2>1. q \in stable \ all_data
    BY <1>4 DEF Passed
  <2>2. PICK j \in 1 .. Len(live') : j <= offset /\ live'[j] = q
    BY <1>4 DEF Passed
  <2>3. offset \in Nat
    BY DEF FetchIInv, FetchTypeOK
  <2>4. j \in 1 .. Len(live) /\ j + 1 \in 1 .. Len(live)
    BY <1>2, <1>3, <2>2
  <2>5. live[j] = q \/ (live[j + 1] = q /\ j + 1 # offset + 1)
    <3>1. live'[j] = live[j] \/ live'[j] = live[j + 1]
      BY <1>3, <2>2
    <3>2. live[j + 1] = q => j + 1 # offset + 1
      OBVIOUS
    <3>3. live'[j] = q
      BY <2>2
    <3> QED BY <3>1, <3>2, <3>3, Zenon
  <2>6. j + 1 # offset + 1 => j + 1 <= offset
    BY <2>2, <2>3, <2>4
  <2> QED BY <2>1, <2>2, <2>4, <2>5, <2>6 DEF Passed
<1>8. /\ Cardinality(Passed') <= Cardinality(Passed) + 1
      /\ Cardinality(Passed') \in Nat /\ Cardinality(Passed) \in Nat
  <2>1. Passed \subseteq stable /\ FetchTypeOK
    BY DEF Passed, FetchIInv
  <2>2. IsFiniteSet(Passed) /\ Cardinality(Passed) \in Nat
    BY <2>1, MissedIsFinite
  <2> DEFINE more == Passed \cup {live[offset + 1]}
  <2>3. IsFiniteSet(more) /\ Cardinality(more) \in Nat /\ Cardinality(more) <= Cardinality(Passed) + 1
    <3> DEFINE next == live[offset + 1]
               grown == Passed \cup {next}
    <3>0. more = grown
      OBVIOUS
    <3> HIDE DEF next, more
    <3>1. IsFiniteSet(grown)
          /\ Cardinality(grown) = IF next \in Passed THEN Cardinality(Passed) ELSE Cardinality(Passed) + 1
      BY <2>2, FS_AddElement
    <3> HIDE DEF grown
    <3> QED BY <2>2, <3>0, <3>1
  <2> HIDE DEF more
  <2>4. Passed' \in SUBSET more
    BY <1>7 DEF more
  <2> QED BY <2>2, <2>3, <2>4, FS_Subset, FS_CardinalityType
<1>9. pc' = "get" /\ ~violations' => Cardinality(Passed') <= removed'
  BY <1>4, <1>8 DEF FetchIInv, FetchTypeOK
<1>10. MissedAtMostRemoved'
  <2>1. stable' \ all_data' \subseteq stable \ all_data
    BY <1>4
  <2>2. IsFiniteSet(stable \ all_data) /\ Cardinality(stable \ all_data) \in Nat
    BY MissedIsFinite DEF FetchIInv
  <2>3. Cardinality(stable' \ all_data') <= Cardinality(stable \ all_data)
        /\ Cardinality(stable' \ all_data') \in Nat
    BY <2>1, <2>2, FS_Subset, FS_CardinalityType
  <2> QED BY <1>4, <2>2, <2>3 DEF FetchIInv, FetchTypeOK, MissedAtMostRemoved
<1>11. /\ pc' = "get" => slept' <= ((page' - 1) * MaxRetries + attempt') * Longest
       /\ BackoffIsBounded'
  BY <1>4 DEF FetchIInv, BackoffIsBounded
<1> QED BY <1>5, <1>6, <1>9, <1>10, <1>11 DEF FetchIInv, Longest

-----------------------------------------------------------------------------
LEMMA ProductGrows ==
  ASSUME NEW a \in Nat, NEW b \in Nat, a <= b, NEW c \in Nat
  PROVE  a * c \in Nat /\ b * c \in Nat /\ a * c <= b * c
<1>1. PICK d \in Nat : b = a + d
  <2>1. b - a \in Nat /\ b = a + (b - a)
    OBVIOUS
  <2> QED BY <2>1
<1>2. d * c \in Nat /\ a * c \in Nat
  OBVIOUS
<1>3. b * c = a * c + d * c
  BY <1>1
<1> QED BY <1>2, <1>3

(* The steps of the fetch leave the collection alone; what they must show is *)
(* what they do to the payload and to the back-off.                          *)
LEMMA PassedBounded ==
  ASSUME FetchIInv, stable' = stable, removed' = removed, FetchTypeOK',
         NEW S, S \subseteq Passed, pc = "get", ~violations
  PROVE  Cardinality(S) <= removed'
<1>1. Passed \subseteq stable /\ FetchTypeOK
  BY DEF Passed, FetchIInv
<1>2. IsFiniteSet(Passed) /\ Cardinality(Passed) \in Nat
  BY <1>1, MissedIsFinite
<1>3. Cardinality(S) <= Cardinality(Passed) /\ Cardinality(S) \in Nat
  BY <1>2, FS_Subset, FS_CardinalityType
<1> QED BY <1>1, <1>2, <1>3 DEF FetchIInv, FetchTypeOK

(* A merged page. *)
LEMMA PageSubset ==
  ASSUME FetchTypeOK
  PROVE  Page \subseteq Predictions
<1>1. \A j \in 1 .. Len(live) : live[j] \in Predictions
  BY ElementOfSeq DEF FetchTypeOK
<1> QED BY <1>1, PageType

(* What is still unread after a merge that broke no contract. *)
LEMMA UnreadAfterMerge ==
  ASSUME FetchIInv, all_data' = all_data \cup Page, UNCHANGED <<live, stable>>
  PROVE  \A p \in stable' \ all_data', j \in 1 .. Len(live) :
           live[j] = p => j <= offset \/ j > offset + PageLimit
<1> SUFFICES ASSUME NEW p \in stable' \ all_data', NEW j \in 1 .. Len(live), live[j] = p,
                    ~(j <= offset), ~(j > offset + PageLimit)
             PROVE  FALSE
  OBVIOUS
<1>1. Len(live) \in Nat /\ offset \in Nat /\ FetchTypeOK
  BY PlacesOf DEF FetchIInv, FetchTypeOK
<1>2. offset < j /\ j <= offset + PageLimit
  BY <1>1
<1>3. p \in Page
  BY <1>1, <1>2, PageType
<1> QED BY <1>3

(* The attempts that may have failed so far. *)
LEMMA Allowance ==
  ASSUME NEW k \in 1 .. MaxPages, NEW a \in 0 .. MaxRetries
  PROVE  /\ (k - 1) * MaxRetries + a \in Nat
         /\ k * MaxRetries \in Nat
         /\ MaxPages * MaxRetries \in Nat
         /\ (k - 1) * MaxRetries + a <= k * MaxRetries
         /\ k * MaxRetries <= MaxPages * MaxRetries
<1>1. /\ k \in Nat /\ k - 1 \in Nat /\ k <= MaxPages /\ MaxPages \in Nat
      /\ a \in Nat /\ a <= MaxRetries /\ MaxRetries \in Nat
  OBVIOUS
<1>2. k * MaxRetries \in Nat /\ MaxPages * MaxRetries \in Nat
      /\ k * MaxRetries <= MaxPages * MaxRetries
  BY <1>1, ProductGrows
<1>3. (k - 1) * MaxRetries = k * MaxRetries - MaxRetries
  BY <1>1
<1>4. (k - 1) * MaxRetries \in Nat
  BY <1>1
<1> QED BY <1>1, <1>2, <1>3, <1>4

(* What every merged page keeps, whatever comes after it. *)
LEMMA MergeKeeps ==
  ASSUME FetchIInv, MergePage
  PROVE  /\ live' \in Seq(Predictions) /\ changes' \in 0 .. MaxChanges
         /\ attempt' \in 0 .. MaxRetries /\ slept' \in 0 .. MaxSlept
         /\ all_data' \subseteq Predictions /\ violations' \in BOOLEAN
         /\ stable' \subseteq Predictions /\ removed' \in Nat
         /\ stable' \subseteq Range(live')
         /\ BackoffIsBounded'
         /\ ~violations' => ~violations /\ all_data' = all_data \cup Page
<1>1. FetchTypeOK /\ stable \subseteq Range(live) /\ BackoffIsBounded /\ Page \subseteq Predictions
  BY PageSubset DEF FetchIInv
<1>2. UNCHANGED <<live, changes, slept, stable, removed>> /\ attempt' = 0 /\ 0 \in 0 .. MaxRetries
  BY DEF MergePage, apiVars
<1>3. \/ all_data' = all_data \cup Page /\ violations' = violations
      \/ violations' = TRUE /\ all_data' = all_data
  BY DEF MergePage
<1> QED BY <1>1, <1>2, <1>3 DEF FetchTypeOK, BackoffIsBounded

LEMMA LastPageStep ==
  ASSUME FetchIInv, LastPage
  PROVE  FetchIInv'
<1>1. MergePage /\ ~NextLink /\ pc' = "done" /\ pc = "get"
      /\ UNCHANGED <<page, offset, hit_page_cap>> /\ UNCHANGED <<live, stable, removed>>
  BY DEF LastPage, MergePage, apiVars
<1>2. FetchTypeOK'
  BY <1>1, MergeKeeps DEF FetchIInv, FetchTypeOK
<1>3. MissedAtMostRemoved'
  <2> SUFFICES ASSUME ~violations' PROVE Cardinality(stable' \ all_data') <= removed'
    BY DEF MissedAtMostRemoved
  <2>1. ~violations /\ all_data' = all_data \cup Page
    BY <1>1, MergeKeeps
  <2>2. stable' \ all_data' \subseteq Passed
    <3> SUFFICES ASSUME NEW p \in stable' \ all_data' PROVE p \in Passed
      OBVIOUS
    <3>1. p \in stable \ all_data /\ p \in Range(live)
      BY <1>1, <2>1 DEF FetchIInv
    <3>2. PICK j \in 1 .. Len(live) : live[j] = p
      BY <3>1, PlacesOf DEF FetchIInv, FetchTypeOK
    <3>3. j <= offset \/ j > offset + PageLimit
      BY <1>1, <2>1, <3>2, UnreadAfterMerge
    <3>4. Len(live) \in Nat /\ offset \in Nat /\ Len(live) <= offset + PageLimit
      BY <1>1, PlacesOf DEF FetchIInv, FetchTypeOK, NextLink
    <3> QED BY <3>1, <3>2, <3>3, <3>4 DEF Passed
  <2> QED BY <1>1, <1>2, <2>1, <2>2, PassedBounded
<1> QED BY <1>1, <1>2, <1>3, MergeKeeps DEF FetchIInv

LEMMA CapReachedStep ==
  ASSUME FetchIInv, CapReached
  PROVE  FetchIInv'
<1>1. MergePage /\ pc' = "done" /\ hit_page_cap' = TRUE /\ UNCHANGED <<page, offset>>
  BY DEF CapReached
<1>2. FetchTypeOK'
  BY <1>1, MergeKeeps DEF FetchIInv, FetchTypeOK
<1> QED BY <1>1, <1>2, MergeKeeps DEF FetchIInv, MissedAtMostRemoved

LEMMA FollowNextStep ==
  ASSUME FetchIInv, FollowNext
  PROVE  FetchIInv'
<1>1. /\ MergePage /\ pc = "get" /\ page < MaxPages /\ page' = page + 1
      /\ offset' = offset + PageLimit /\ UNCHANGED <<pc, hit_page_cap>>
      /\ UNCHANGED <<live, stable, removed, slept>> /\ attempt' = 0
  BY DEF FollowNext, MergePage, apiVars
<1>2. FetchTypeOK /\ offset \in Nat /\ page \in 1 .. MaxPages
  BY DEF FetchIInv, FetchTypeOK
<1>3. FetchTypeOK'
  <2>1. page' \in 1 .. MaxPages /\ offset' \in Nat
    BY <1>1, <1>2
  <2>2. pc' \in {"get", "done", "failed"} /\ hit_page_cap' \in BOOLEAN
    BY <1>1, <1>2 DEF FetchTypeOK
  <2> QED BY <1>1, <2>1, <2>2, MergeKeeps DEF FetchTypeOK
<1>4. ~violations' => Cardinality(Passed') <= removed'
  <2> SUFFICES ASSUME ~violations' PROVE Cardinality(Passed') <= removed'
    OBVIOUS
  <2>1. ~violations /\ all_data' = all_data \cup Page
    BY <1>1, MergeKeeps
  <2>2. Passed' \subseteq Passed
    <3> SUFFICES ASSUME NEW p \in Passed' PROVE p \in Passed
      OBVIOUS
    <3>1. p \in stable' \ all_data'
      BY DEF Passed
    <3>2. PICK j \in 1 .. Len(live) : j <= offset + PageLimit /\ live[j] = p
      BY <1>1 DEF Passed
    <3>3. j <= offset \/ j > offset + PageLimit
      BY <1>1, <2>1, <3>1, <3>2, UnreadAfterMerge
    <3>4. j <= offset
      BY <1>2, <3>2, <3>3
    <3> QED BY <1>1, <2>1, <3>1, <3>2, <3>4 DEF Passed
  <2> QED BY <1>1, <1>3, <2>1, <2>2, PassedBounded
<1>5. slept' <= ((page' - 1) * MaxRetries + attempt') * Longest
  <2> DEFINE failed == (page - 1) * MaxRetries + attempt
             allowed == page * MaxRetries
  <2>1. slept <= failed * Longest /\ slept \in Nat
    BY <1>1, <1>2 DEF FetchIInv, FetchTypeOK
  <2>2. failed \in Nat /\ allowed \in Nat /\ failed <= allowed
    BY <1>2, Allowance DEF FetchTypeOK
  <2>3. (page' - 1) * MaxRetries + attempt' = allowed
    <3>1. page' - 1 = page
      BY <1>1, <1>2
    <3> QED BY <1>1, <2>2, <3>1
  <2> HIDE DEF failed, allowed
  <2>4. failed * Longest <= allowed * Longest /\ failed * Longest \in Nat /\ allowed * Longest \in Nat
    BY <2>2, LongestType, ProductGrows
  <2>5. slept' <= allowed * Longest
    BY <1>1, <2>1, <2>4
  <2> QED BY <2>3, <2>5
<1>6. stable' \subseteq Range(live') /\ BackoffIsBounded'
  BY <1>1, MergeKeeps
<1>7. MissedAtMostRemoved'
  BY <1>1 DEF MissedAtMostRemoved
<1> QED BY <1>3, <1>4, <1>5, <1>6, <1>7 DEF FetchIInv, Longest

LEMMA RetryStep ==
  ASSUME FetchIInv, Retry
  PROVE  FetchIInv'
<1>1. PICK b \in Backoffs : slept' = Min({slept + b, MaxSlept})
  BY DEF Retry
<1>2. /\ pc = "get" /\ attempt < MaxRetries /\ attempt' = attempt + 1
      /\ UNCHANGED <<live, changes, pc, page, offset, all_data, hit_page_cap, violations,
                     stable, removed>>
  BY DEF Retry, apiVars
<1>3. FetchTypeOK /\ slept \in Nat /\ attempt \in Nat
  BY DEF FetchIInv, FetchTypeOK
<1>4. b \in Nat /\ b <= Longest
  BY LongestType, BackoffType DEF Longest
<1>5. slept' \in 0 .. MaxSlept /\ slept' <= slept + b
  <2>1. slept + b \in Nat /\ MaxSlept \in Nat
    BY <1>3, <1>4
  <2>2. Min({slept + b, MaxSlept}) = IF slept + b <= MaxSlept THEN slept + b ELSE MaxSlept
    BY <2>1, MinOfTwo
  <2> QED BY <1>1, <2>1, <2>2
<1>6. FetchTypeOK'
  <2>1. attempt' \in 0 .. MaxRetries
    BY <1>2, <1>3
  <2> QED BY <1>2, <1>3, <1>5, <2>1 DEF FetchTypeOK
<1> DEFINE failed == (page - 1) * MaxRetries + attempt
           allowed == MaxPages * MaxRetries
<1>7. slept' <= (failed + 1) * Longest /\ failed + 1 \in Nat
  <2>1. slept <= failed * Longest /\ failed \in Nat
    BY <1>2, <1>3, Allowance DEF FetchIInv, FetchTypeOK
  <2> HIDE DEF failed
  <2>2. (failed + 1) * Longest = failed * Longest + Longest /\ failed * Longest \in Nat
    BY <2>1, LongestType
  <2> QED BY <1>3, <1>4, <1>5, <2>1, <2>2, LongestType
<1>8. (page' - 1) * MaxRetries + attempt' = failed + 1
  <2>1. (page - 1) * MaxRetries \in Int
    BY <1>3 DEF FetchTypeOK
  <2> QED BY <1>2, <1>3, <2>1
<1>9. BackoffIsBounded'
  <2>1. failed + 1 <= allowed /\ allowed \in Nat
    <3>1. /\ (page' - 1) * MaxRetries + attempt' <= page' * MaxRetries
          /\ page' * MaxRetries <= MaxPages * MaxRetries
          /\ page' * MaxRetries \in Nat /\ MaxPages * MaxRetries \in Nat
      BY <1>6, Allowance DEF FetchTypeOK
    <3> QED BY <1>7, <1>8, <3>1
  <2> HIDE DEF failed, allowed
  <2>2. (failed + 1) * Longest <= allowed * Longest
        /\ (failed + 1) * Longest \in Nat /\ allowed * Longest \in Nat
    BY <1>7, <2>1, LongestType, ProductGrows
  <2>3. slept' \in Int
    BY <1>5
  <2>4. slept' <= allowed * Longest
    BY <1>7, <2>2, <2>3
  <2> QED BY <2>4 DEF BackoffIsBounded, Longest, allowed
<1>10. stable' \subseteq Range(live')
  BY <1>2 DEF FetchIInv
<1>11. pc' = "get" /\ ~violations' => Cardinality(Passed') <= removed'
  <2>1. Passed' = Passed
    BY <1>2 DEF Passed
  <2> QED BY <1>2, <2>1 DEF FetchIInv
<1>12. MissedAtMostRemoved'
  BY <1>2 DEF MissedAtMostRemoved
<1> QED BY <1>6, <1>7, <1>8, <1>9, <1>10, <1>11, <1>12 DEF FetchIInv, Longest

LEMMA RaiseStep ==
  ASSUME FetchIInv, Raise
  PROVE  FetchIInv'
<1>1. /\ pc' = "failed" /\ all_data' = {}
      /\ UNCHANGED <<live, changes, page, offset, attempt, slept, hit_page_cap, violations,
                     stable, removed>>
  BY DEF Raise, apiVars
<1>2. FetchTypeOK'
  BY <1>1 DEF FetchIInv, FetchTypeOK
<1> QED BY <1>1, <1>2 DEF FetchIInv, MissedAtMostRemoved, BackoffIsBounded

-----------------------------------------------------------------------------
(* The inductive invariant: the predictions that went by unread are no more *)
(* than the removals, and the sleep no longer than the attempts so far allow. *)
THEOREM FetchInvariant == FetchSpec => []FetchIInv
<1>1. FetchInit => FetchIInv
  BY FetchInitIInv
<1>2. FetchIInv /\ [FetchNext]_vars => FetchIInv'
  <2> SUFFICES ASSUME FetchIInv, [FetchNext]_vars PROVE FetchIInv'
    OBVIOUS
  <2>1. CASE LastPage
    BY <2>1, LastPageStep
  <2>2. CASE CapReached
    BY <2>2, CapReachedStep
  <2>3. CASE FollowNext
    BY <2>3, FollowNextStep
  <2>4. CASE Retry
    BY <2>4, RetryStep
  <2>5. CASE Raise
    BY <2>5, RaiseStep
  <2>6. CASE \E p \in Predictions : Appear(p)
    BY <2>6, AppearStep
  <2>7. CASE \E i \in 1 .. Len(live) : Disappear(i)
    BY <2>7, DisappearStep
  <2>8. CASE UNCHANGED vars
    BY <2>8 DEF vars, apiVars, fetchVars, FetchIInv, FetchTypeOK, Passed,
                MissedAtMostRemoved, BackoffIsBounded
  <2> QED BY <2>1, <2>2, <2>3, <2>4, <2>5, <2>6, <2>7, <2>8 DEF FetchNext, Fetching
<1> QED BY <1>1, <1>2, PTL DEF FetchSpec

(* Every reachable state has its type, whatever the collection does between *)
(* two pages. *)
THEOREM FetchTypeCorrect == FetchSpec => []FetchTypeOK
<1>1. FetchIInv => FetchTypeOK
  BY DEF FetchIInv
<1> QED BY <1>1, FetchInvariant, PTL

(* A fetch that ends with no cap and no violation reported misses at most as *)
(* many of the predictions that were there all along as went away meanwhile. *)
THEOREM MissedAlwaysAtMostRemoved == FetchSpec => []MissedAtMostRemoved
<1>1. FetchIInv => MissedAtMostRemoved
  BY DEF FetchIInv
<1> QED BY <1>1, FetchInvariant, PTL

(* What one batch sleeps is bounded by the page cap, the attempts of one    *)
(* request and the longest back-off, whatever the API sends as Retry-After. *)
THEOREM BackoffAlwaysBounded == FetchSpec => []BackoffIsBounded
<1>1. FetchIInv => BackoffIsBounded
  BY DEF FetchIInv
<1> QED BY <1>1, FetchInvariant, PTL
-----------------------------------------------------------------------------
(* GETs left from a page and a number of failed attempts on. *)
LEMMA LeftFrom ==
  ASSUME NEW k \in 1 .. MaxPages, NEW a \in 0 .. MaxRetries
  PROVE  /\ (MaxPages - k) * (MaxRetries + 1) \in Nat
         /\ (MaxPages - (k + 1)) * (MaxRetries + 1)
              = (MaxPages - k) * (MaxRetries + 1) - (MaxRetries + 1)
         /\ MaxRetries - a \in Nat /\ MaxRetries - 0 \in Nat
<1>1. MaxPages - k \in Nat /\ MaxRetries + 1 \in Nat
  BY FetchAssumption
<1>2. (MaxPages - (k + 1)) * (MaxRetries + 1)
        = (MaxPages - k) * (MaxRetries + 1) - (MaxRetries + 1)
  BY <1>1
<1>3. MaxRetries - a \in Nat /\ MaxRetries - 0 \in Nat
  BY FetchAssumption
<1>4. (MaxPages - k) * (MaxRetries + 1) \in Nat
  BY <1>1
<1> QED BY <1>2, <1>3, <1>4

(* Every step of the fetch uses up a GET. *)
LEMMA FetchingRunsDown ==
  ASSUME FetchTypeOK, Fetching
  PROVE  RequestsLeft' < RequestsLeft /\ ~UNCHANGED fetchVars
<1> DEFINE pages == (MaxPages - page) * (MaxRetries + 1)
<1>1. pc = "get"
  BY DEF Fetching, LastPage, CapReached, FollowNext, MergePage, Retry, Raise
<1>2. /\ pages \in Nat /\ MaxRetries - attempt \in Nat /\ MaxRetries \in Nat
      /\ (MaxPages - (page + 1)) * (MaxRetries + 1) = pages - (MaxRetries + 1)
  BY LeftFrom, FetchAssumption DEF FetchTypeOK
<1>3. RequestsLeft = pages + (MaxRetries - attempt) + 1
  BY <1>1 DEF RequestsLeft
<1> HIDE DEF pages
<1>4. CASE pc' # "get"
  <2>1. RequestsLeft' = 0
    BY <1>4 DEF RequestsLeft
  <2> QED BY <1>1, <1>2, <1>3, <1>4, <2>1 DEF fetchVars
<1>5. CASE FollowNext
  <2>1. page' = page + 1 /\ attempt' = 0 /\ pc' = "get" /\ page \in Nat
    BY <1>1, <1>5 DEF FollowNext, MergePage, FetchTypeOK
  <2>2. RequestsLeft' = pages - (MaxRetries + 1) + (MaxRetries - 0) + 1
    BY <1>2, <2>1 DEF RequestsLeft
  <2>3. RequestsLeft' < RequestsLeft
    BY <1>2, <1>3, <2>2
  <2> QED BY <2>1, <2>3 DEF fetchVars
<1>6. CASE Retry
  <2>1. page' = page /\ attempt' = attempt + 1 /\ pc' = "get" /\ attempt \in Nat
    BY <1>1, <1>6 DEF Retry, FetchTypeOK
  <2>2. RequestsLeft' = pages + (MaxRetries - (attempt + 1)) + 1
    BY <2>1 DEF RequestsLeft, pages
  <2>3. RequestsLeft' < RequestsLeft
    BY <1>2, <1>3, <2>1, <2>2
  <2> QED BY <2>1, <2>3 DEF fetchVars
<1>7. LastPage \/ CapReached \/ Raise => pc' # "get"
  BY DEF LastPage, CapReached, Raise
<1> QED BY <1>4, <1>5, <1>6, <1>7 DEF Fetching

(* No fetch goes on for ever: each of its steps costs one of the GETs that   *)
(* the page cap and the allowances leave, and what the collection does       *)
(* between two pages gives none back.                                        *)
THEOREM RequestsAlwaysRunDown == FetchSpec => RequestsRunDown
<1> DEFINE runsDown == IF UNCHANGED fetchVars
                         THEN RequestsLeft' = RequestsLeft
                         ELSE RequestsLeft' < RequestsLeft
<1>1. FetchIInv /\ [FetchNext]_vars => [runsDown]_vars
  <2> SUFFICES ASSUME FetchIInv, FetchNext PROVE runsDown
    OBVIOUS
  <2>1. CASE Fetching
    BY <2>1, FetchingRunsDown DEF FetchIInv
  <2>2. CASE \/ \E p \in Predictions : Appear(p)
             \/ \E i \in 1 .. Len(live) : Disappear(i)
    <3>1. UNCHANGED fetchVars
      BY <2>2 DEF Appear, Disappear
    <3> QED BY <3>1 DEF RequestsLeft, fetchVars
  <2> QED BY <2>1, <2>2 DEF FetchNext
<1> QED BY <1>1, FetchInvariant, PTL DEF FetchSpec, RequestsRunDown
-----------------------------------------------------------------------------
(* The last page, and the cap, hand over everything merged; what it lacks is  *)
(* bounded by MissedAtMostRemoved after the step.                             *)
LEMMA EndIsLanding ==
  ASSUME FetchIInv, FetchIInv', LastPage \/ CapReached
  PROVE  Read!Lands
<1>1. pc = "get" /\ pc' = "done" /\ UNCHANGED <<stable, removed>>
  BY DEF LastPage, CapReached, MergePage
<1>2. all_data' \subseteq Predictions /\ hit_page_cap' \in BOOLEAN /\ violations' \in BOOLEAN
  BY DEF FetchIInv, FetchTypeOK
<1>3. ~(hit_page_cap' \/ violations') => Cardinality(stable \ all_data') <= removed
  BY <1>1 DEF FetchIInv, MissedAtMostRemoved
<1>4. \A S : Read!Cardinality(S) = Cardinality(S)
  BY DEF Cardinality, Read!Cardinality
<1> QED BY <1>1, <1>2, <1>3, <1>4 DEF Read!Lands

(* Another page and another attempt change nothing that run_cycle sees. *)
LEMMA GoingOnIsSilent ==
  ASSUME FollowNext \/ Retry
  PROVE  UNCHANGED Read!readVars
<1>1. pc = "get" /\ pc' = "get" /\ UNCHANGED <<stable, removed>>
  BY DEF FollowNext, MergePage, Retry
<1> QED BY <1>1 DEF Read!readVars

LEMMA RaiseIsFailing ==
  ASSUME Raise
  PROVE  Read!Fails
<1>1. pc = "get" /\ pc' = "failed" /\ all_data' = {} /\ UNCHANGED <<stable, removed>>
  BY DEF Raise
<1> QED BY <1>1 DEF Read!Fails

(* What the collection does shows only as a prediction that went away. *)
LEMMA AppearIsSilent ==
  ASSUME NEW p \in Predictions, Appear(p)
  PROVE  UNCHANGED Read!readVars
BY DEF Appear, fetchVars, Read!readVars

LEMMA DisappearIsGoing ==
  ASSUME FetchTypeOK, NEW i \in 1 .. Len(live), Disappear(i)
  PROVE  \E p \in Predictions : Read!GoesAway(p)
<1>1. live[i] \in Predictions
  BY ElementOfSeq DEF FetchTypeOK
<1>2. Read!GoesAway(live[i])
  BY DEF Disappear, fetchVars, Read!GoesAway
<1> QED BY <1>1, <1>2

(* The loop over pages and attempts, with the collection moving under it,   *)
(* implements the one step poll.py takes it for: run_cycle gets the whole   *)
(* merged answer or an exception, and what an unreported answer lacks is    *)
(* paid for by predictions that went away.                                  *)
THEOREM FetchImplementsRead == FetchSpec => FetchIsOneRead
<1>1. FetchInit => Read!ReadInit
  <2> SUFFICES ASSUME FetchInit PROVE Read!ReadInit
    OBVIOUS
  <2>1. stable \subseteq Predictions
    BY FetchInitIInv DEF FetchIInv, FetchTypeOK
  <2> QED BY <2>1 DEF FetchInit, Read!ReadInit
<1>2. FetchIInv /\ FetchIInv' /\ [FetchNext]_vars => [Read!ReadNext]_(Read!readVars)
  <2> SUFFICES ASSUME FetchIInv, FetchIInv', [FetchNext]_vars
               PROVE  Read!ReadNext \/ UNCHANGED Read!readVars
    OBVIOUS
  <2>1. CASE LastPage \/ CapReached
    BY <2>1, EndIsLanding DEF Read!ReadNext
  <2>2. CASE FollowNext \/ Retry
    BY <2>2, GoingOnIsSilent
  <2>3. CASE Raise
    BY <2>3, RaiseIsFailing DEF Read!ReadNext
  <2>4. CASE \E p \in Predictions : Appear(p)
    BY <2>4, AppearIsSilent
  <2>5. CASE \E i \in 1 .. Len(live) : Disappear(i)
    BY <2>5, DisappearIsGoing DEF Read!ReadNext, FetchIInv
  <2>6. CASE UNCHANGED vars
    BY <2>6 DEF vars, fetchVars, Read!readVars
  <2> QED BY <2>1, <2>2, <2>3, <2>4, <2>5, <2>6 DEF FetchNext, Fetching
<1> QED BY <1>1, <1>2, FetchInvariant, PTL DEF FetchSpec, FetchIsOneRead, Read!ReadSpec
-----------------------------------------------------------------------------
(* Poller's fetch without SilentDrop, read off this one: if nothing went away *)
(* between two pages, an answer with neither cap nor violation holds every    *)
(* prediction that was there throughout, however many pages and attempts it   *)
(* took and whatever arrived meanwhile.                                       *)
UnmovedIsReadWhole ==
  pc = "done" /\ ~hit_page_cap /\ ~violations /\ removed = 0 => stable \subseteq all_data

THEOREM UnmovedFeedIsReadWhole == FetchSpec => []UnmovedIsReadWhole
<1>1. FetchIInv => UnmovedIsReadWhole
  <2> SUFFICES ASSUME FetchIInv, pc = "done", ~hit_page_cap, ~violations, removed = 0
               PROVE  stable \subseteq all_data
    BY DEF UnmovedIsReadWhole
  <2>1. FetchTypeOK /\ Cardinality(stable \ all_data) <= 0
    BY DEF FetchIInv, MissedAtMostRemoved
  <2>2. IsFiniteSet(stable \ all_data) /\ Cardinality(stable \ all_data) \in Nat
    BY <2>1, MissedIsFinite
  <2>3. stable \ all_data = {}
    BY <2>1, <2>2, FS_EmptySet
  <2> QED BY <2>3
<1> QED BY <1>1, FetchInvariant, PTL
=============================================================================
