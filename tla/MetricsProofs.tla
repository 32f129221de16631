---------------------------- MODULE MetricsProofs ----------------------------
(***************************************************************************)
(* Lemmas about the operators of Metrics: what sorting, a quantile and the *)
(* record of a check are, for samples of any number and any thresholds.    *)
(***************************************************************************)
EXTENDS Metrics, SequenceTheorems, FiniteSetTheorems, TLAPS

Rank(data, i) == Cardinality(Preceding(data, i)) + 1

LEMMA SampleFacts ==
  ASSUME NEW data \in Seq(Nat)
  PROVE  /\ Len(data) \in Nat /\ DOMAIN data = 1..Len(data)
         /\ \A i \in DOMAIN data : data[i] \in Nat
         /\ IsFiniteSet(DOMAIN data) /\ Cardinality(DOMAIN data) = Len(data)
<1>1. Len(data) \in Nat /\ DOMAIN data = 1..Len(data)
      BY LenProperties
<1>2. /\ IsFiniteSet(1..Len(data))
      /\ Cardinality(1..Len(data)) = IF 1 > Len(data) THEN 0 ELSE Len(data) - 1 + 1
  <2>1. 1 \in Int /\ Len(data) \in Int
        BY <1>1
  <2> QED BY <2>1, FS_Interval
<1>3. Cardinality(1..Len(data)) = Len(data)
      BY <1>1, <1>2
<1> QED BY <1>3, <1>1, <1>2, LenProperties

LEMMA PrecedingFacts ==
  ASSUME NEW data \in Seq(Nat), NEW i \in DOMAIN data
  PROVE  /\ IsFiniteSet(Preceding(data, i)) /\ i \notin Preceding(data, i)
         /\ Preceding(data, i) \subseteq DOMAIN data
         /\ Cardinality(Preceding(data, i)) \in Nat
         /\ Cardinality(Preceding(data, i)) < Len(data)
<1>1. /\ IsFiniteSet(DOMAIN data) /\ Cardinality(DOMAIN data) = Len(data)
      /\ Len(data) \in Nat /\ DOMAIN data = 1..Len(data)
      /\ \A k \in DOMAIN data : data[k] \in Nat
      BY SampleFacts
<1>2. /\ Preceding(data, i) \subseteq DOMAIN data /\ i \notin Preceding(data, i)
      BY <1>1 DEF Preceding
<1>3. /\ IsFiniteSet(Preceding(data, i)) /\ Cardinality(Preceding(data, i)) \in Nat
      /\ Cardinality(Preceding(data, i)) <= Len(data)
      /\ Cardinality(DOMAIN data) = Cardinality(Preceding(data, i))
           => DOMAIN data = Preceding(data, i)
      BY <1>1, <1>2, FS_Subset, FS_CardinalityType
<1> QED BY <1>1, <1>2, <1>3

(* What comes before one that comes before i comes before i, as does it.   *)
LEMMA RankGrows ==
  ASSUME NEW data \in Seq(Nat), NEW i \in DOMAIN data, NEW j \in Preceding(data, i)
  PROVE  Cardinality(Preceding(data, j)) + 1 <= Cardinality(Preceding(data, i))
<1>1. /\ DOMAIN data = 1..Len(data) /\ j \in DOMAIN data /\ Len(data) \in Nat
      /\ \A k \in DOMAIN data : data[k] \in Nat
      BY SampleFacts DEF Preceding
<1>2. Preceding(data, j) \cup {j} \subseteq Preceding(data, i)
      BY <1>1 DEF Preceding
<1>3. /\ IsFiniteSet(Preceding(data, j)) /\ j \notin Preceding(data, j)
      /\ IsFiniteSet(Preceding(data, i))
      BY <1>1, PrecedingFacts
<1>4. Cardinality(Preceding(data, j) \cup {j}) = Cardinality(Preceding(data, j)) + 1
      BY <1>3, FS_AddElement
<1>5. Cardinality(Preceding(data, j) \cup {j}) <= Cardinality(Preceding(data, i))
      BY <1>2, <1>3, FS_Subset
<1> QED BY <1>4, <1>5

LEMMA RankExists ==
  ASSUME NEW data \in Seq(Nat), NEW k \in DOMAIN data
  PROVE  \E i \in DOMAIN data : Cardinality(Preceding(data, i)) = k - 1
<1> DEFINE D == DOMAIN data
           rank == [i \in D |-> Rank(data, i)]
<1>1. /\ Len(data) \in Nat /\ D = 1..Len(data) /\ IsFiniteSet(D)
      /\ \A i \in D : data[i] \in Nat
      BY SampleFacts
<1>2. \A i \in D : Cardinality(Preceding(data, i)) \in Nat /\ rank[i] \in D
      BY <1>1, PrecedingFacts DEF Rank
<1>3. rank \in [D -> D]
      BY <1>2
<1>4. ASSUME NEW i \in D, NEW j \in D, i # j PROVE rank[i] # rank[j]
  <2>1. i \in Preceding(data, j) \/ j \in Preceding(data, i)
        BY <1>1, <1>4 DEF Preceding
  <2>2. \/ Cardinality(Preceding(data, i)) + 1 <= Cardinality(Preceding(data, j))
        \/ Cardinality(Preceding(data, j)) + 1 <= Cardinality(Preceding(data, i))
        BY <2>1, RankGrows
  <2> QED BY <1>2, <2>2 DEF Rank
<1>5. rank \in Injection(D, D)
      BY <1>3, <1>4 DEF Injection, IsInjective
<1>6. rank \in Surjection(D, D)
      BY <1>1, <1>5, FS_Injection
<1>7. PICK i \in D : rank[i] = k
      BY <1>6 DEF Surjection
<1> QED BY <1>1, <1>2, <1>7 DEF Rank

(* A sorted sample is one of the samples, that so many come before.        *)
LEMMA SortedSample ==
  ASSUME NEW data \in Seq(Nat), NEW k \in DOMAIN data
  PROVE  \E i \in DOMAIN data :
           Sort(data)[k] = data[i] /\ Cardinality(Preceding(data, i)) = k - 1
BY RankExists DEF Sort

LEMMA SortIsSorted ==
  ASSUME NEW data \in Seq(Nat), NEW k \in DOMAIN data, NEW l \in DOMAIN data, k <= l
  PROVE  Sort(data)[k] <= Sort(data)[l]
<1>1. PICK i \in DOMAIN data :
        Sort(data)[k] = data[i] /\ Cardinality(Preceding(data, i)) = k - 1
      BY SortedSample
<1>2. PICK j \in DOMAIN data :
        Sort(data)[l] = data[j] /\ Cardinality(Preceding(data, j)) = l - 1
      BY SortedSample
<1>3. DOMAIN data = 1..Len(data) /\ data[i] \in Nat /\ data[j] \in Nat /\ Len(data) \in Nat
      BY SampleFacts
<1>4. CASE data[j] < data[i]
  <2>1. j \in Preceding(data, i)
        BY <1>4 DEF Preceding
  <2> QED BY <1>1, <1>2, <1>3, <2>1, RankGrows
<1> QED BY <1>1, <1>2, <1>3, <1>4
-----------------------------------------------------------------------------
LEMMA IndexFacts ==
  ASSUME NEW n \in Nat \ {0}, NEW percent \in 0..99
  PROVE  /\ Index(n, percent) \in 0..(n - 1)
         /\ 100 * Index(n, percent) <= percent * n
         /\ percent * n < 100 * (Index(n, percent) + 1)
<1>1. percent * n \in Nat /\ percent * n <= 99 * n
      OBVIOUS
<1> DEFINE m == percent * n
           i == m \div 100
<1>2. i \in Nat /\ 100 * i <= m /\ m < 100 * (i + 1)
      BY <1>1
<1>3. i < n
      BY <1>1, <1>2
<1> QED BY <1>2, <1>3 DEF Index

LEMMA IndexGrows ==
  ASSUME NEW n \in Nat \ {0}, NEW p \in 0..99, NEW q \in 0..99, p <= q
  PROVE  Index(n, p) <= Index(n, q)
<1>1. p * n <= q * n /\ p * n \in Nat /\ q * n \in Nat
      OBVIOUS
<1>2. Index(n, p) \in 0..(n - 1) /\ 100 * Index(n, p) <= p * n
      BY IndexFacts
<1>3. Index(n, q) \in 0..(n - 1) /\ q * n < 100 * (Index(n, q) + 1)
      BY IndexFacts
<1>4. 100 * Index(n, p) < 100 * (Index(n, q) + 1)
      BY <1>1, <1>2, <1>3
<1> QED BY <1>2, <1>3, <1>4

LEMMA QuantileIsSorted ==
  ASSUME NEW data \in Seq(Nat), data # <<>>, NEW percent \in 0..99
  PROVE  /\ Len(data) \in Nat \ {0}
         /\ Index(Len(data), percent) + 1 \in DOMAIN data
         /\ computePercentile(data, percent) = Sort(data)[Index(Len(data), percent) + 1]
<1>1. Len(data) \in Nat \ {0} /\ DOMAIN data = 1..Len(data)
      BY SampleFacts, EmptySeq
<1>2. Index(Len(data), percent) \in 0..(Len(data) - 1)
      BY <1>1, IndexFacts
<1> QED BY <1>1, <1>2 DEF computePercentile

LEMMA QuantileType ==
  ASSUME NEW data \in Seq(Nat), NEW percent \in 0..99
  PROVE  computePercentile(data, percent) \in Nat
<1>1. CASE data = <<>>
      BY <1>1 DEF computePercentile
<1>2. CASE data # <<>>
  <2>1. PICK k \in DOMAIN data : computePercentile(data, percent) = Sort(data)[k]
        BY <1>2, QuantileIsSorted
  <2>2. \E i \in DOMAIN data : Sort(data)[k] = data[i]
        BY SortedSample
  <2> QED BY <2>1, <2>2, SampleFacts
<1> QED BY <1>1, <1>2

(* More than that part of the samples is at most the quantile, and no more *)
(* than that part is below it.                                             *)
LEMMA QuantileCounts ==
  ASSUME NEW data \in Seq(Nat), data # <<>>, NEW percent \in 0..99
  PROVE  LET q == computePercentile(data, percent) IN
         /\ 100 * Cardinality({i \in DOMAIN data : data[i] <= q}) > percent * Len(data)
         /\ 100 * Cardinality({i \in DOMAIN data : data[i] < q}) <= percent * Len(data)
<1> DEFINE q == computePercentile(data, percent)
           x == Index(Len(data), percent)
           Most == {i \in DOMAIN data : data[i] <= q}
           Below == {i \in DOMAIN data : data[i] < q}
<1>1. /\ Len(data) \in Nat \ {0} /\ DOMAIN data = 1..Len(data)
      /\ \A i \in DOMAIN data : data[i] \in Nat
      /\ IsFiniteSet(DOMAIN data)
      BY SampleFacts, QuantileIsSorted
<1>2. /\ x \in Nat /\ 100 * x <= percent * Len(data)
      /\ percent * Len(data) < 100 * (x + 1)
  <2>1. ASSUME NEW n \in Nat \ {0}
        PROVE  /\ Index(n, percent) \in Nat /\ 100 * Index(n, percent) <= percent * n
               /\ percent * n < 100 * (Index(n, percent) + 1)
    <3>1. Index(n, percent) \in 0..(n - 1)
          BY IndexFacts
    <3>2. /\ 100 * Index(n, percent) <= percent * n
          /\ percent * n < 100 * (Index(n, percent) + 1)
          BY IndexFacts
    <3> QED BY <3>1, <3>2
  <2> QED BY <1>1, <2>1
<1>3. PICK k \in DOMAIN data : q = data[k] /\ Cardinality(Preceding(data, k)) = (x + 1) - 1
      BY QuantileIsSorted, SortedSample
<1>4. /\ IsFiniteSet(Preceding(data, k)) /\ k \notin Preceding(data, k)
      BY PrecedingFacts
<1> HIDE DEF q, x
<1>5. Below \subseteq Preceding(data, k)
      BY <1>3 DEF Preceding
<1>6. Preceding(data, k) \cup {k} \subseteq Most /\ Most \subseteq DOMAIN data
      BY <1>1, <1>3 DEF Preceding
<1>7. Cardinality(Below) \in Nat /\ Cardinality(Below) <= x
      BY <1>2, <1>3, <1>4, <1>5, FS_Subset, FS_CardinalityType
<1>8. Cardinality(Preceding(data, k) \cup {k}) = x + 1
  <2>1. Cardinality(Preceding(data, k) \cup {k}) = Cardinality(Preceding(data, k)) + 1
        BY <1>4, FS_AddElement
  <2> QED BY <1>2, <1>3, <2>1
<1>9. IsFiniteSet(Most) /\ Cardinality(Most) \in Nat
      BY <1>1, <1>6, FS_Subset, FS_CardinalityType
<1>10. x + 1 <= Cardinality(Most)
      BY <1>6, <1>8, <1>9, FS_Subset
<1>11. percent * Len(data) \in Nat
      BY <1>1
<1> HIDE DEF Most, Below
<1>12. 100 * Cardinality(Most) > percent * Len(data)
      BY <1>2, <1>9, <1>10, <1>11
<1>13. 100 * Cardinality(Below) <= percent * Len(data)
      BY <1>2, <1>7, <1>11
<1> QED BY <1>12, <1>13 DEF Most, Below, q
-----------------------------------------------------------------------------
(* The record of a url.                                                    *)

Stats ==
  [total_latency : Nat, success_count : Nat, failure_count : Nat,
   consecutive_failures : Nat, last_health : {-1, DOWN, HEALTHY, SLOW, DEGRADED},
   min_latency : Nat, max_latency : Nat,
   http : [HttpClasses -> Nat], failures : [FailureClasses -> Nat],
   latencies : Seq(Nat)]

(* The extremes and the sum are over all checks, the samples are the last  *)
(* of them.                                                                *)
Sampled(s) ==
  /\ \A i \in DOMAIN s.latencies :
       s.min_latency <= s.latencies[i] /\ s.latencies[i] <= s.max_latency
  /\ s.success_count > 0 => s.latencies # <<>> /\ s.min_latency < LongMax
  /\ s.min_latency * s.success_count <= s.total_latency
  /\ s.total_latency <= s.max_latency * s.success_count

LEMMA HealthType ==
  ASSUME NEW s \in Stats
  PROVE  computeHealth(s) \in {DOWN, HEALTHY, SLOW, DEGRADED}
BY DEF computeHealth, Stats

(* The answers Monitor allows getHealth are those Metrics gives: DOWN from *)
(* three failures in a row on, and one of the other three before.          *)
LEMMA DownIsThreeFailures ==
  ASSUME NEW s \in Stats
  PROVE  /\ getHealth(s) \in {DOWN, HEALTHY, SLOW, DEGRADED}
         /\ getHealth(s) = DOWN <=> s.consecutive_failures >= 3
<1>1. s.consecutive_failures \in Nat
      BY DEF Stats
<1>2. CASE s.consecutive_failures >= 3
      BY <1>1, <1>2 DEF getHealth, computeHealth
<1>3. CASE s.consecutive_failures < 3
      BY <1>1, <1>3 DEF getHealth, computeHealth, DOWN, HEALTHY, SLOW, DEGRADED
<1> QED BY <1>1, <1>2, <1>3

LEMMA AlertedType ==
  ASSUME NEW s \in Stats
  PROVE  evaluateAndAlert(s) \in Stats
BY HealthType DEF evaluateAndAlert, Stats

LEMMA NewIsSampled == SiteStats \in Stats /\ Sampled(SiteStats)
<1>1. <<>> \in Seq(Nat) /\ DOMAIN <<>> = {}
      BY EmptySeq
<1>2. /\ SiteStats.latencies = <<>> /\ SiteStats.success_count = 0
      /\ SiteStats.total_latency = 0 /\ SiteStats.min_latency = LongMax
      /\ SiteStats.max_latency = 0
      BY DEF SiteStats
<1>3. LongMax * 0 <= 0 /\ 0 <= 0 * 0
      BY MetricsAssumption
<1>4. SiteStats \in Stats
      BY <1>1, MetricsAssumption DEF SiteStats, Stats, DOWN, HEALTHY, SLOW, DEGRADED
<1> QED BY <1>1, <1>2, <1>3, <1>4 DEF Sampled

(* What is computed from a record that was just alerted.                   *)
LEMMA AlertAgrees ==
  ASSUME NEW t \in Stats
  PROVE  LET s == evaluateAndAlert(t) IN
         \/ getHealth(s) = s.last_health
         \/ s.last_health = HEALTHY /\ getHealth(s) = DEGRADED
<1> DEFINE s == evaluateAndAlert(t)
           p90 == computePercentile(t.latencies, HealthPercent)
<1>1. p90 \in Nat
      BY QuantileType, MetricsAssumption DEF Stats
<1>2. /\ s.consecutive_failures = t.consecutive_failures
      /\ s.latencies = t.latencies /\ s.last_health = computeHealth(t)
      /\ s.failure_count = t.failure_count /\ s.success_count = t.success_count
      BY DEF evaluateAndAlert, Stats
<1>3. /\ t.consecutive_failures \in Nat
      /\ FailureRateHigh(s) <=> FailureRateHigh(t)
      /\ p90 = computePercentile(s.latencies, HealthPercent)
      BY <1>2 DEF FailureRateHigh, Stats
<1> HIDE DEF s, p90
<1>4. SLOW # HEALTHY /\ SLOW # DEGRADED
      BY DEF SLOW, HEALTHY, DEGRADED
<1>5. p90 > SlowAbove => ~Recovered(p90)
      BY <1>1, MetricsAssumption DEF Recovered
<1>6. CASE t.consecutive_failures >= 3
  <2>1. computeHealth(t) = DOWN
        BY <1>3, <1>6 DEF computeHealth
  <2>2. computeHealth(s) = DOWN
        BY <1>2, <1>3, <1>6 DEF computeHealth
  <2> QED BY <1>2, <2>1, <2>2 DEF getHealth, s
<1>7. CASE t.consecutive_failures < 3 /\ t.last_health = SLOW
  <2>1. computeHealth(t) = IF Recovered(p90) THEN HEALTHY ELSE SLOW
        BY <1>3, <1>7 DEF computeHealth, p90
  <2>2. CASE Recovered(p90)
    <3>1. s.last_health = HEALTHY
          BY <1>2, <2>1, <2>2
    <3>2. computeHealth(s) \in {HEALTHY, DEGRADED}
          BY <1>2, <1>3, <1>4, <1>5, <1>7, <2>2, <3>1 DEF computeHealth
    <3> QED BY <3>1, <3>2 DEF getHealth, s
  <2>3. CASE ~Recovered(p90)
    <3>1. s.last_health = SLOW
          BY <1>2, <2>1, <2>3
    <3>2. computeHealth(s) = SLOW
          BY <1>2, <1>3, <1>7, <2>3, <3>1 DEF computeHealth
    <3> QED BY <3>1, <3>2 DEF getHealth, s
  <2> QED BY <2>2, <2>3
<1>8. CASE t.consecutive_failures < 3 /\ t.last_health # SLOW
  <2>1. computeHealth(t) = IF p90 > SlowAbove THEN SLOW
                           ELSE IF FailureRateHigh(t) THEN DEGRADED ELSE HEALTHY
        BY <1>3, <1>8 DEF computeHealth, p90
  <2>2. CASE p90 > SlowAbove
    <3>1. s.last_health = SLOW
          BY <1>2, <2>1, <2>2
    <3>2. computeHealth(s) = SLOW
          BY <1>2, <1>3, <1>5, <1>8, <2>2, <3>1 DEF computeHealth
    <3> QED BY <3>1, <3>2 DEF getHealth, s
  <2>3. CASE ~(p90 > SlowAbove)
    <3>1. s.last_health = (IF FailureRateHigh(t) THEN DEGRADED ELSE HEALTHY)
          BY <1>2, <2>1, <2>3
    <3>2. computeHealth(s) = IF FailureRateHigh(t) THEN DEGRADED ELSE HEALTHY
          BY <1>2, <1>3, <1>4, <1>8, <2>3, <3>1 DEF computeHealth
    <3> QED BY <3>1, <3>2 DEF getHealth, s
  <2> QED BY <2>2, <2>3
<1> QED BY <1>3, <1>6, <1>7, <1>8

(* Between the thresholds a record does not change between the two.        *)
LEMMA AlertHasGap ==
  ASSUME NEW t \in Stats, {t.last_health, computeHealth(t)} = {SLOW, HEALTHY}
  PROVE  computePercentile(t.latencies, HealthPercent) \notin FastBelow..SlowAbove
<1> DEFINE p90 == computePercentile(t.latencies, HealthPercent)
<1>1. p90 \in Nat
      BY QuantileType, MetricsAssumption DEF Stats
<1>2. SLOW # HEALTHY /\ SLOW # DEGRADED /\ SLOW # DOWN /\ HEALTHY # DOWN
      BY DEF SLOW, HEALTHY, DEGRADED, DOWN
<1>3. t.consecutive_failures \in Nat
      BY DEF Stats
<1>4. \/ t.last_health = SLOW /\ computeHealth(t) = HEALTHY
      \/ t.last_health = HEALTHY /\ computeHealth(t) = SLOW
      BY <1>2
<1>5. t.consecutive_failures < 3
      BY <1>2, <1>3, <1>4 DEF computeHealth
<1>6. CASE t.last_health = SLOW /\ computeHealth(t) = HEALTHY
  <2>1. Recovered(p90)
        BY <1>2, <1>3, <1>5, <1>6 DEF computeHealth
  <2> QED BY <1>1, <2>1, MetricsAssumption DEF Recovered
<1>7. CASE t.last_health = HEALTHY /\ computeHealth(t) = SLOW
  <2>1. p90 > SlowAbove
        BY <1>2, <1>3, <1>5, <1>7 DEF computeHealth
  <2> QED BY <1>1, <2>1, MetricsAssumption
<1> QED BY <1>4, <1>6, <1>7
-----------------------------------------------------------------------------
(* A new sample enters the window, and the oldest leaves it.               *)
LEMMA WindowFacts ==
  ASSUME NEW data \in Seq(Nat), NEW x \in Nat
  PROVE  LET new == Window(Append(data, x)) IN
         /\ new \in Seq(Nat) /\ new # <<>>
         /\ \A i \in DOMAIN new : new[i] = x \/ \E j \in DOMAIN data : new[i] = data[j]
<1> DEFINE a == Append(data, x)
<1>1. /\ a \in Seq(Nat) /\ Len(a) = Len(data) + 1
      /\ \A i \in 1..Len(data) : a[i] = data[i]
      /\ a[Len(data) + 1] = x
      BY AppendProperties
<1>2. Len(data) \in Nat /\ DOMAIN data = 1..Len(data) /\ DOMAIN a = 1..Len(a)
      BY <1>1, LenProperties
<1>3. \A i \in DOMAIN a : a[i] = x \/ \E j \in DOMAIN data : a[i] = data[j]
      BY <1>1, <1>2
<1>4. a # <<>>
      BY <1>1, <1>2, EmptySeq
<1> HIDE DEF a
<1>5. CASE ~(Len(a) > MaxSamples)
      BY <1>1, <1>3, <1>4, <1>5 DEF Window, a
<1>6. CASE Len(a) > MaxSamples
  <2> DEFINE t == Tail(a)
  <2>1. /\ t \in Seq(Nat) /\ Len(t) = Len(a) - 1
        /\ \A i \in 1..Len(t) : t[i] = a[i + 1]
        BY <1>1, <1>4, HeadTailProperties
  <2>2. Len(t) \in Nat \ {0} /\ DOMAIN t = 1..Len(t)
    <3>1. Len(t) \in Nat /\ DOMAIN t = 1..Len(t)
          BY <2>1, LenProperties
    <3>2. Len(a) - 1 # 0
          BY <1>1, <1>2, <1>6, MetricsAssumption
    <3> QED BY <2>1, <3>1, <3>2
  <2> HIDE DEF t
  <2>3. \A i \in DOMAIN t : i + 1 \in DOMAIN a /\ t[i] = a[i + 1]
        BY <1>1, <1>2, <2>1, <2>2
  <2>4. t # <<>>
        BY <2>2, EmptySeq
  <2> QED BY <1>3, <1>6, <2>1, <2>3, <2>4 DEF Window, a, t
<1> QED BY <1>5, <1>6

(* Sums of what lies between two bounds, when the bounds widen.            *)
LEMMA SumBounds ==
  ASSUME NEW low \in Nat, NEW high \in Nat, NEW n \in Nat, NEW sum \in Nat,
         low * n <= sum, sum <= high * n, NEW x \in Nat
  PROVE  /\ LesserOf(low, x) * (n + 1) <= sum + x
         /\ sum + x <= GreaterOf(high, x) * (n + 1)
<1>1. ASSUME NEW a \in Nat, NEW b \in Nat, a <= b PROVE a * n <= b * n
      BY <1>1
<1> DEFINE l == LesserOf(low, x)
           h == GreaterOf(high, x)
<1>2. l \in Nat /\ h \in Nat /\ l <= low /\ l <= x /\ high <= h /\ x <= h
      BY DEF LesserOf, GreaterOf
<1> HIDE DEF l, h
<1>3. l * n <= low * n /\ high * n <= h * n
      BY <1>1, <1>2
<1>4. /\ l * (n + 1) = l * n + l /\ h * (n + 1) = h * n + h
      /\ l * n \in Nat /\ h * n \in Nat /\ low * n \in Nat /\ high * n \in Nat
      BY <1>2
<1>5. l * (n + 1) <= sum + x /\ sum + x <= h * (n + 1)
      BY <1>2, <1>3, <1>4
<1> QED BY <1>5 DEF l, h

LEMMA AverageBounds ==
  ASSUME NEW low \in Nat, NEW high \in Nat, NEW n \in Nat \ {0}, NEW sum \in Nat,
         low * n <= sum, sum <= high * n
  PROVE  low <= sum \div n /\ sum \div n <= high
<1> DEFINE q == sum \div n
<1>1. q \in Nat /\ n * q <= sum /\ sum < n * q + n
      OBVIOUS
<1> HIDE DEF q
<1>2. ASSUME NEW a \in Nat, NEW b \in Nat, a < b PROVE a * n + n <= b * n
  <2>1. (a + 1) * n <= b * n
        BY <1>2
  <2> QED BY <2>1
<1>3. low <= q
      BY <1>1, <1>2
<1>4. q <= high
      BY <1>1, <1>2
<1> QED BY <1>3, <1>4 DEF q
-----------------------------------------------------------------------------
LEMMA SuccessRecorded ==
  ASSUME NEW s \in Stats, Sampled(s), NEW latency \in Nat, latency < LongMax,
         NEW status_code \in Nat
  PROVE  LET new == recordSuccess(s, latency, status_code) IN
         /\ new \in Stats /\ Sampled(new)
         /\ \E t \in Stats : /\ new = evaluateAndAlert(t)
                             /\ t.last_health = s.last_health
                             /\ t.latencies = new.latencies
<1> DEFINE t == [s EXCEPT !.total_latency = @ + latency,
                          !.success_count = @ + 1,
                          !.consecutive_failures = 0,
                          !.min_latency = LesserOf(@, latency),
                          !.max_latency = NewMax(s, latency),
                          !.latencies = Window(Append(@, latency)),
                          !.http[HttpClass(status_code)] = @ + 1]
           new == evaluateAndAlert(t)
           w == Window(Append(s.latencies, latency))
<1>1. /\ s.total_latency \in Nat /\ s.success_count \in Nat
      /\ s.min_latency \in Nat /\ s.max_latency \in Nat /\ s.latencies \in Seq(Nat)
      BY DEF Stats
<1>2. /\ LesserOf(s.min_latency, latency) \in Nat
      /\ LesserOf(s.min_latency, latency) <= s.min_latency
      /\ LesserOf(s.min_latency, latency) <= latency
      /\ GreaterOf(s.max_latency, latency) \in Nat
      /\ s.max_latency <= GreaterOf(s.max_latency, latency)
      /\ latency <= GreaterOf(s.max_latency, latency)
      BY <1>1 DEF LesserOf, GreaterOf
<1>3. /\ w \in Seq(Nat) /\ w # <<>>
      /\ \A i \in DOMAIN w : w[i] = latency \/ \E j \in DOMAIN s.latencies : w[i] = s.latencies[j]
      BY <1>1, WindowFacts
<1>4. /\ LesserOf(s.min_latency, latency) * (s.success_count + 1) <= s.total_latency + latency
      /\ s.total_latency + latency <= GreaterOf(s.max_latency, latency) * (s.success_count + 1)
      BY <1>1, SumBounds DEF Sampled
<1> HIDE DEF w
<1>5. t \in Stats
  <2>1. s.http \in [HttpClasses -> Nat] /\ HttpClass(status_code) \in HttpClasses
        BY DEF Stats, HttpClass, HttpClasses
  <2>2. [s.http EXCEPT ![HttpClass(status_code)] = @ + 1] \in [HttpClasses -> Nat]
        BY <2>1
  <2> DEFINE total == s.total_latency + latency
             count == s.success_count + 1
             low == LesserOf(s.min_latency, latency)
             high == NewMax(s, latency)
             last == Window(Append(s.latencies, latency))
             http == [s.http EXCEPT ![HttpClass(status_code)] = @ + 1]
  <2>3. /\ total \in Nat /\ count \in Nat /\ low \in Nat /\ high \in Nat
        /\ last \in Seq(Nat) /\ http \in [HttpClasses -> Nat]
    <3>1. total \in Nat /\ count \in Nat
          BY <1>1
    <3>2. low \in Nat /\ high \in Nat /\ last \in Seq(Nat)
          BY <1>2, <1>3 DEF NewMax, w
    <3> QED BY <2>2, <3>1, <3>2
  <2>4. t = [s EXCEPT !.total_latency = total, !.success_count = count,
                      !.consecutive_failures = 0, !.min_latency = low,
                      !.max_latency = high, !.latencies = last, !.http = http]
        BY DEF Stats
  <2> HIDE DEF total, count, low, high, last, http, t
  <2> QED BY <2>3, <2>4 DEF Stats
<1>6. /\ t.total_latency = s.total_latency + latency
      /\ t.success_count = s.success_count + 1
      /\ t.min_latency = LesserOf(s.min_latency, latency)
      /\ t.max_latency = GreaterOf(s.max_latency, latency)
      /\ t.latencies = w /\ t.last_health = s.last_health
      BY DEF Stats, NewMax, w
<1>7. new = recordSuccess(s, latency, status_code)
      BY DEF recordSuccess
<1> HIDE DEF t
<1>8. /\ new \in Stats /\ new.latencies = t.latencies
      /\ new.total_latency = t.total_latency /\ new.success_count = t.success_count
      /\ new.min_latency = t.min_latency /\ new.max_latency = t.max_latency
      BY <1>5, AlertedType DEF evaluateAndAlert, Stats
<1> HIDE DEF new
<1>9. ASSUME NEW i \in DOMAIN w
      PROVE  /\ LesserOf(s.min_latency, latency) <= w[i]
             /\ w[i] <= GreaterOf(s.max_latency, latency)
  <2>1. CASE w[i] = latency
        BY <1>2, <2>1
  <2>2. ASSUME NEW j \in DOMAIN s.latencies, w[i] = s.latencies[j]
        PROVE  /\ LesserOf(s.min_latency, latency) <= w[i]
               /\ w[i] <= GreaterOf(s.max_latency, latency)
    <3>1. /\ s.min_latency <= w[i] /\ w[i] <= s.max_latency /\ w[i] \in Nat
          BY <1>1, <2>2, LenProperties DEF Sampled
    <3> QED BY <1>1, <1>2, <3>1
  <2> QED BY <1>3, <2>1, <2>2
<1>10. LesserOf(s.min_latency, latency) < LongMax
       BY <1>1, <1>2, MetricsAssumption
<1>11. Sampled(new)
       BY <1>3, <1>4, <1>6, <1>8, <1>9, <1>10 DEF Sampled
<1>12. /\ new = evaluateAndAlert(t) /\ t.last_health = s.last_health
       /\ t.latencies = new.latencies
       BY <1>6, <1>8 DEF new
<1> QED BY <1>5, <1>7, <1>8, <1>11, <1>12

LEMMA FailureRecorded ==
  ASSUME NEW s \in Stats, Sampled(s), NEW result
  PROVE  LET new == recordFailureType(s, result) IN
         /\ new \in Stats /\ Sampled(new)
         /\ \E t \in Stats : /\ new = evaluateAndAlert(t)
                             /\ t.last_health = s.last_health
                             /\ t.latencies = new.latencies
<1> DEFINE t == [s EXCEPT !.failure_count = @ + 1,
                          !.consecutive_failures = @ + 1,
                          !.failures = [c \in FailureClasses |->
                                          IF c = result THEN @[c] + 1 ELSE @[c]]]
           new == evaluateAndAlert(t)
<1>1. t \in Stats
  <2>1. /\ s.failure_count + 1 \in Nat /\ s.consecutive_failures + 1 \in Nat
        /\ [c \in FailureClasses |-> IF c = result THEN s.failures[c] + 1 ELSE s.failures[c]]
             \in [FailureClasses -> Nat]
        BY DEF Stats
  <2> QED BY <2>1 DEF Stats
<1>2. /\ t.latencies = s.latencies /\ t.last_health = s.last_health
      /\ t.total_latency = s.total_latency /\ t.success_count = s.success_count
      /\ t.min_latency = s.min_latency /\ t.max_latency = s.max_latency
      BY DEF Stats
<1>3. new = recordFailureType(s, result)
      BY DEF recordFailureType
<1> HIDE DEF t
<1>4. /\ new \in Stats /\ new.latencies = t.latencies
      /\ new.total_latency = t.total_latency /\ new.success_count = t.success_count
      /\ new.min_latency = t.min_latency /\ new.max_latency = t.max_latency
      BY <1>1, AlertedType DEF evaluateAndAlert, Stats
<1> HIDE DEF new
<1>5. Sampled(new)
      BY <1>2, <1>4 DEF Sampled
<1>6. new = evaluateAndAlert(t) /\ t.last_health = s.last_health /\ t.latencies = new.latencies
      BY <1>2, <1>4 DEF new
<1> QED BY <1>1, <1>3, <1>4, <1>5, <1>6

(* What /metrics prints of a record is in order.                           *)
LEMMA ExportOrder ==
  ASSUME NEW s \in Stats, Sampled(s), s.success_count > 0
  PROVE  LET e == exportMetrics(s) IN
         /\ e.min <= e.avg /\ e.avg <= e.max
         /\ \A p, q \in Percents : p <= q =>
              /\ e.min <= e.quantile[p] /\ e.quantile[q] <= e.max
              /\ e.quantile[p] <= e.quantile[q]
<1> DEFINE e == exportMetrics(s)
           data == s.latencies
<1>1. /\ s.total_latency \in Nat /\ s.success_count \in Nat \ {0}
      /\ s.min_latency \in Nat /\ s.max_latency \in Nat /\ data \in Seq(Nat)
      /\ data # <<>> /\ s.min_latency < LongMax
      BY DEF Stats, Sampled
<1>2. /\ e.min = s.min_latency /\ e.max = s.max_latency
      /\ e.avg = s.total_latency \div s.success_count
      /\ \A p \in Percents : e.quantile[p] = computePercentile(data, p)
      BY <1>1, MetricsAssumption DEF exportMetrics
<1> HIDE DEF e
<1>3. e.min <= e.avg /\ e.avg <= e.max
      BY <1>1, <1>2, AverageBounds DEF Sampled
<1>4. ASSUME NEW p \in Percents
      PROVE  e.min <= e.quantile[p] /\ e.quantile[p] <= e.max
  <2>0. p \in 0..99
        BY MetricsAssumption
  <2>1. PICK k \in DOMAIN data : computePercentile(data, p) = Sort(data)[k]
        BY <1>1, <2>0, QuantileIsSorted
  <2>2. PICK i \in DOMAIN data : Sort(data)[k] = data[i]
        BY <1>1, SortedSample
  <2> QED BY <1>2, <2>1, <2>2 DEF Sampled
<1>5. ASSUME NEW p \in Percents, NEW q \in Percents, p <= q
      PROVE  e.quantile[p] <= e.quantile[q]
  <2>0. p \in 0..99 /\ q \in 0..99
        BY MetricsAssumption
  <2>1. /\ Len(data) \in Nat \ {0}
        /\ Index(Len(data), p) + 1 \in DOMAIN data
        /\ Index(Len(data), q) + 1 \in DOMAIN data
        /\ computePercentile(data, p) = Sort(data)[Index(Len(data), p) + 1]
        /\ computePercentile(data, q) = Sort(data)[Index(Len(data), q) + 1]
        BY <1>1, <2>0, QuantileIsSorted
  <2>2. Index(Len(data), p) + 1 <= Index(Len(data), q) + 1
    <3>1. Index(Len(data), p) <= Index(Len(data), q)
          BY <1>5, <2>0, <2>1, IndexGrows
    <3>2. Index(Len(data), p) \in 0..(Len(data) - 1) /\ Index(Len(data), q) \in 0..(Len(data) - 1)
          BY <2>0, <2>1, IndexFacts
    <3> QED BY <2>1, <3>1, <3>2
  <2>3. Sort(data)[Index(Len(data), p) + 1] <= Sort(data)[Index(Len(data), q) + 1]
        BY <1>1, <2>1, <2>2, SortIsSorted
  <2> QED BY <1>2, <2>1, <2>3
<1> QED BY <1>3, <1>4, <1>5 DEF e
=============================================================================
