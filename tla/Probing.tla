------------------------------- MODULE Probing -------------------------------
(***************************************************************************)
(* A check from end to end: the scheduler thread calls checkWebsite        *)
(* (HttpClient) and records what it returned (Metrics), while a signal may *)
(* close server_fd under it.  When a site is checked is decided in Monitor *)
(* and left open here.                                                     *)
(*                                                                         *)
(* The main thread reads the metrics between any two steps, under their    *)
(* mutex (exportMetrics, getHealth): the properties say what it can see.   *)
(***************************************************************************)
EXTENDS HttpClient, Metrics

CONSTANTS
  Urls,
  server_fd,      \* the listening descriptor
  Latencies,      \* what a successful check may measure
  MaxChecks,      \* bound: checks recorded for one url
  MaxSignals      \* bound: signals

ASSUME ProbingAssumption ==
  /\ server_fd \in Fds
  /\ Latencies \subseteq Nat /\ \A l \in Latencies : l < LongMax
  /\ MaxChecks \in Nat /\ MaxSignals \in Nat

VARIABLES
  url,            \* of the call that goes on
  stats_map,      \* per url; a url without an entry has a new one
  signals         \* signals so far

vars == <<clientvars, url, stats_map, signals>>

Checks(s) == s.success_count + s.failure_count

Init ==
  /\ ClientInit
  /\ open_fds = {server_fd}
  /\ url \in Urls
  /\ stats_map = [u \in Urls |-> SiteStats]
  /\ signals = 0

Begin ==
  /\ \E u \in Urls : Checks(stats_map[u]) < MaxChecks /\ url' = u
  /\ Call
  /\ UNCHANGED <<stats_map, signals>>

(* if (success) recordSuccess else recordFailureType.                      *)
Record ==
  /\ at = "returned"
  /\ IF result = "SUCCESS"
     THEN \E latency \in Latencies :
            stats_map' = [stats_map EXCEPT ![url] = recordSuccess(@, latency, status_code)]
     ELSE stats_map' = [stats_map EXCEPT ![url] = recordFailureType(@, result)]
  /\ at' = "idle" /\ result' = "none"
  /\ status_code' = 0 /\ status_parsed' = FALSE /\ first' = NoPiece
  /\ UNCHANGED <<sock, open_fds, url, signals>>

(* signal_handler closes server_fd, every time: the variable stays set.    *)
Signal ==
  /\ at \notin {"terminated", "killed"} /\ signals < MaxSignals
  /\ open_fds' = open_fds \ {server_fd}
  /\ signals' = signals + 1
  /\ UNCHANGED <<at, sock, parsed, result, url, stats_map>>

Next ==
  \/ Begin \/ Record \/ Signal
  \/ checkWebsite /\ UNCHANGED <<url, stats_map, signals>>

Spec == Init /\ [][Next]_vars

(* Calls into the system return, or end with their timeout, and the        *)
(* scheduler records the result.  Nobody has to answer.                    *)
FairSpec == Spec /\ WF_vars(Progress /\ UNCHANGED <<url, stats_map, signals>>)
                 /\ WF_vars(Record)
-----------------------------------------------------------------------------
(* A check leaves no descriptor behind, however it ends, and uses none but *)
(* its own, as long as there is one signal: a second one closes whatever   *)
(* has the number of server_fd by then (main.cpp:45).                      *)
DescriptorsAccounted ==
  signals <= 1 =>
    open_fds = (IF signals = 0 THEN {server_fd} ELSE {}) \cup ({sock} \ {NoFd})

(* "Parse status line only once" (HttpClient.cpp:95): if the status line   *)
(* arrives in one piece, that is the status recorded, whatever looks like  *)
(* one in the rest of the response, which cannot end the process either.   *)
StatusIsThePeers ==
  first \in Codes => (status_code = first /\ at # "terminated")

(* "PERCENTILE" (Metrics.cpp:44): more than that part of the samples is at *)
(* most the quantile, and no more than that part is below it.              *)
QuantilesMeanIt ==
  \A u \in Urls, p \in Percents :
    LET data == stats_map[u].latencies
        q    == computePercentile(data, p)
    IN  data # <<>> =>
          /\ 100 * Cardinality({i \in DOMAIN data : data[i] <= q}) > p * Len(data)
          /\ 100 * Cardinality({i \in DOMAIN data : data[i] < q}) <= p * Len(data)

(* What /metrics prints of a url is consistent although it comes from sums *)
(* and extremes over all checks and from a window of the last ones.        *)
ExportIsOrdered ==
  \A u \in Urls : stats_map[u].success_count > 0 =>
    LET e == exportMetrics(stats_map[u]) IN
      /\ e.min <= e.avg /\ e.avg <= e.max
      /\ \A p, q \in Percents : p <= q =>
           /\ e.min <= e.quantile[p] /\ e.quantile[q] <= e.max
           /\ e.quantile[p] <= e.quantile[q]

(* getHealth and /metrics compute the health anew, from a last_health that *)
(* the computation itself has set.  They agree with what was alerted, but  *)
(* for a site that has just left SLOW: called HEALTHY, it may be DEGRADED. *)
HealthAgrees ==
  \A u \in Urls : LET s == stats_map[u] IN
    s.last_health # -1 =>
      \/ getHealth(s) = s.last_health
      \/ s.last_health = HEALTHY /\ getHealth(s) = DEGRADED

(* "HEALTH ENGINE (WITH HYSTERESIS)" (Metrics.cpp:78): while p90 stays     *)
(* between the thresholds, a site does not change between SLOW and HEALTHY.*)
NoFlapping ==
  [][\A u \in Urls :
       LET before == stats_map[u].last_health
           after  == stats_map'[u].last_health
           p90    == computePercentile(stats_map'[u].latencies, HealthPercent)
       IN  ({before, after} = {SLOW, HEALTHY}) => p90 \notin FastBelow..SlowAbove]_vars

(* SO_RCVTIMEO bounds every recv and not the check (HttpClient.cpp:36): a  *)
(* check ends unless its peer sends a piece now and then for ever.         *)
CheckEnds ==
  (<>[][~Data]_vars) => []<>(at \in {"idle", "terminated", "killed"})
=============================================================================
