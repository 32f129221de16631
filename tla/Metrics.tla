------------------------------- MODULE Metrics -------------------------------
(***************************************************************************)
(* src/src/metrics/Metrics.cpp: what is kept of the checks of one url, how *)
(* a check is recorded, and what is computed from it.  Every function of   *)
(* the class runs under one mutex, so each is an operator on the SiteStats *)
(* of a url; module Probing holds the map of them.                         *)
(*                                                                         *)
(* Percentiles are given in percent, the thresholds and the length of the  *)
(* window as constants, so that an instance can be small.  total_bytes, a  *)
(* plain sum, is left out.                                                 *)
(*                                                                         *)
(* The Bug operators are plausible mistakes in the definition after them.  *)
(* Nothing uses one; the mutants of PROJECT.json put them in its place.    *)
(***************************************************************************)
EXTENDS Integers, Sequences, FiniteSets

CONSTANTS
  MaxSamples,     \* 1000: the length of the rolling window
  SlowAbove,      \* 1200 ms: p90 above it makes a site SLOW ...
  FastBelow,      \*  900 ms: ... which it stays until p90 is below this
  Percents,       \* {50, 90, 99}: the quantiles exported
  HealthPercent,  \* 90: the one the health is computed from
  LongMax         \* std::numeric_limits<long>::max()

ASSUME MetricsAssumption ==
  /\ MaxSamples \in Nat \ {0}
  /\ FastBelow \in Nat /\ SlowAbove \in Nat /\ FastBelow <= SlowAbove
  /\ Percents \subseteq 0..99 /\ HealthPercent \in 0..99
  /\ LongMax \in Nat

DOWN     == 0
HEALTHY  == 1
SLOW     == 2
DEGRADED == 3

HttpClasses    == {"2xx", "3xx", "4xx", "5xx", "other"}
FailureClasses == {"DNS_ERROR", "CONNECTION_ERROR", "TIMEOUT", "RECEIVE_ERROR"}

SiteStats ==
  [total_latency |-> 0, success_count |-> 0, failure_count |-> 0,
   consecutive_failures |-> 0, last_health |-> -1,
   min_latency |-> LongMax, max_latency |-> 0,
   http |-> [c \in HttpClasses |-> 0], failures |-> [c \in FailureClasses |-> 0],
   latencies |-> <<>>]

(* The sorted sample at floor(percent of the size).  For the percentages   *)
(* of the code and up to 1000 samples the product of doubles gives that.   *)
BugIndexFromLast(n, percent) == (percent * (n - 1)) \div 100
Index(n, percent) ==
  LET i == (percent * n) \div 100 IN IF i >= n THEN n - 1 ELSE i

(* std::sort: position k holds the sample that k - 1 others come before.   *)
Preceding(data, i) ==
  {j \in DOMAIN data : data[j] < data[i] \/ (data[j] = data[i] /\ j < i)}
Sort(data) ==
  [k \in DOMAIN data |->
     data[CHOOSE i \in DOMAIN data : Cardinality(Preceding(data, i)) = k - 1]]

computePercentile(data, percent) ==
  IF data = <<>> THEN 0 ELSE Sort(data)[Index(Len(data), percent) + 1]

FailureRateHigh(s) ==
  10 * s.failure_count > 3 * (s.success_count + s.failure_count)

BugNoGap(p90)  == p90 <= SlowAbove
Recovered(p90) == p90 < FastBelow

computeHealth(s) ==
  LET p90 == computePercentile(s.latencies, HealthPercent) IN
  CASE s.consecutive_failures >= 3 -> DOWN
    [] s.consecutive_failures < 3 /\ s.last_health = SLOW ->
         IF Recovered(p90) THEN HEALTHY ELSE SLOW
    [] OTHER ->
         IF p90 > SlowAbove THEN SLOW
         ELSE IF FailureRateHigh(s) THEN DEGRADED ELSE HEALTHY

BugStoresFirst(s) ==
  IF s.last_health = -1 THEN [s EXCEPT !.last_health = computeHealth(s)] ELSE s
evaluateAndAlert(s) == [s EXCEPT !.last_health = computeHealth(s)]

HttpClass(status_code) ==
  CASE status_code \in 200..299 -> "2xx"
    [] status_code \in 300..399 -> "3xx"
    [] status_code \in 400..499 -> "4xx"
    [] status_code >= 500       -> "5xx"
    [] OTHER                    -> "other"

LesserOf(a, b)  == IF a <= b THEN a ELSE b
GreaterOf(a, b) == IF a >= b THEN a ELSE b

BugMaxOfWindow(s, latency) == latency
NewMax(s, latency) == GreaterOf(s.max_latency, latency)

Window(data) == IF Len(data) > MaxSamples THEN Tail(data) ELSE data

recordSuccess(s, latency, status_code) ==
  evaluateAndAlert(
    [s EXCEPT !.total_latency = @ + latency,
              !.success_count = @ + 1,
              !.consecutive_failures = 0,
              !.min_latency = LesserOf(@, latency),
              !.max_latency = NewMax(s, latency),
              !.latencies = Window(Append(@, latency)),
              !.http[HttpClass(status_code)] = @ + 1])

(* A result that is none of the four is counted, but not classified.       *)
recordFailureType(s, result) ==
  evaluateAndAlert(
    [s EXCEPT !.failure_count = @ + 1,
              !.consecutive_failures = @ + 1,
              !.failures = [c \in FailureClasses |->
                              IF c = result THEN @[c] + 1 ELSE @[c]]])

(* What exportMetrics prints for a url, next to the counters.              *)
exportMetrics(s) ==
  [avg |-> IF s.success_count > 0 THEN s.total_latency \div s.success_count ELSE 0,
   quantile |-> [p \in Percents |-> computePercentile(s.latencies, p)],
   min |-> IF s.min_latency = LongMax THEN 0 ELSE s.min_latency,
   max |-> s.max_latency,
   health |-> computeHealth(s)]

getHealth(s) == computeHealth(s)
=============================================================================
