------------------------------- MODULE Monitor -------------------------------
(***************************************************************************)
(* src/src/Monitoring/MonitorManager: the scheduler thread that probes the *)
(* configured sites, one circuit breaker per site, and the main thread     *)
(* that loads the configuration, starts the scheduler and stops it.        *)
(*                                                                         *)
(* Outside the component: the probe (HttpClient::checkWebsite) is its      *)
(* result, or an exception; of the metrics (Metrics.cpp) only the counter  *)
(* the scheduler depends on, SiteStats::consecutive_failures, is kept, and *)
(* getHealth is any answer that counter allows (Metrics.tla models it).    *)
(*                                                                         *)
(* A time_point t is kept as its age, now - t, which is the only way the   *)
(* code uses it.  Ages saturate at MaxAge, above every threshold they are  *)
(* compared with.                                                          *)
(*                                                                         *)
(* The Bug operators are plausible mistakes in the definition after them.  *)
(* No action uses one; the mutants of PROJECT.json put them in its place,  *)
(* to see that a property notices.                                         *)
(***************************************************************************)
EXTENDS Integers

CONSTANTS
  N,              \* number of entries of "sites" in config.json
  Hosts,          \* the urls, the keys of the metrics
  Host,           \* Host[s]: the url of entry s
  Interval,       \* Interval[s]: its check interval in seconds
  BaseCooldown,   \* the cooldown factor in seconds, 10 in the code
  MaxCooldown,    \* the longest cooldown in seconds, 300 in the code
  IntBits,        \* the width of int, 32 in the build
  MaxOpens,       \* bound: openings in one outage
  MaxAge,         \* bound: where the age of a time_point saturates
  TimeSteps       \* by how many seconds a step of time may advance

Sites == 1..N

ASSUME SitesAssumption ==
  /\ N \in Nat
  /\ Host \in [Sites -> Hosts]
  /\ Interval \in [Sites -> Int]

ASSUME CooldownAssumption ==
  /\ BaseCooldown \in 1..15
  /\ MaxCooldown \in Nat
  /\ BaseCooldown <= MaxCooldown

ASSUME BoundAssumption ==
  /\ MaxOpens \in Nat
  /\ MaxAge \in Nat
  /\ MaxCooldown <= MaxAge
  /\ \A s \in Sites : Interval[s] <= MaxAge
  /\ TimeSteps \subseteq Nat \ {0}

(* The powers of two up to the width of int.  This is arithmetic, spelt    *)
(* out because the provers know no law of ^.                               *)
ASSUME WidthAssumption ==
  /\ IntBits \in Nat /\ IntBits > 6
  /\ \A n \in 0..IntBits : 2^n \in Nat /\ 2^n >= 1
  /\ \A m, n \in 0..IntBits : m <= n => 2^m <= 2^n
  /\ 2^IntBits = 2 * 2^(IntBits - 1)
  /\ 2^(IntBits - 1) = 16 * 2^(IntBits - 5)

VARIABLES
  mgr,            \* what the main thread is at: "config", "running",
                  \* "stopping", "joined", or "aborted" by an exception;
                  \* the flag `running' is (mgr = "running")
  loaded,         \* number of sites in the vector `sites'
  sched,          \* where the scheduler thread is
  cur,            \* the site its loop is at
  timer,          \* age of its local `now', or time slept
  \* per site
  breaker, local_consecutive_failures, open_attempts, cooldown_seconds,
  open_age,       \* age of breaker_open_time
  checked_age,    \* age of last_checked
  \* history, per site: no guard reads it
  opened_for,     \* time since the breaker opened, while it is open
  opening_check,  \* how long the check took that opened it, while it is
  \* in Metrics, per url
  consecutive_failures

mainvars  == <<mgr, loaded>>
schedvars == <<sched, cur, timer>>
sitevars  == <<breaker, local_consecutive_failures, open_attempts,
               cooldown_seconds>>
historyvars == <<opened_for, opening_check>>
agevars   == <<open_age, checked_age, historyvars>>
vars == <<mainvars, schedvars, sitevars, agevars, consecutive_failures>>

BreakerState == {"CLOSED", "OPEN", "HALF_OPEN"}

LesserOf(a, b)  == IF a <= b THEN a ELSE b
GreaterOf(a, b) == IF a >= b THEN a ELSE b

-----------------------------------------------------------------------------
(* The cooldown is computed in int: the unoptimised build of the Dockerfile *)
(* wraps around modulo 2^IntBits and takes the shift count modulo IntBits. *)

Wrapped(x) ==
  LET half == 2^(IntBits - 1) IN ((x + half) % 2^IntBits) - half

ShiftedOne(n) == Wrapped(2^(n % IntBits))

BugNoCap(n) == Wrapped(BaseCooldown * ShiftedOne(n))
BugRestart(n) ==
  LET c == Wrapped(BaseCooldown * ShiftedOne(n))
  IN  IF c > MaxCooldown THEN BaseCooldown ELSE c
NextCooldown(n) == LesserOf(MaxCooldown, Wrapped(BaseCooldown * ShiftedOne(n)))

(* The failures in a row after which the scheduler opens the breaker, and  *)
(* after which Metrics calls the site DOWN: two literals in two files.     *)
TripThreshold == 3
DownThreshold == 3

(* Metrics::getHealth: 0 is DOWN, 1 HEALTHY, 2 SLOW, 3 DEGRADED. *)
GetHealth(url) ==
  IF consecutive_failures[url] >= DownThreshold THEN {0} ELSE {1, 2, 3}

EffectiveInterval(s, health) ==
  IF health \in {2, 3} THEN GreaterOf(1, Interval[s] \div 2) ELSE Interval[s]

BugForever(s) == breaker[s] = "OPEN"
BugNotAtAll(s) == FALSE
CoolingDown(s) == breaker[s] = "OPEN" /\ open_age[s] < cooldown_seconds[s]

NotDue(s) ==
  \E health \in GetHealth(Host[s]) : checked_age[s] < EffectiveInterval(s, health)
Due(s) ==
  \E health \in GetHealth(Host[s]) : checked_age[s] >= EffectiveInterval(s, health)
-----------------------------------------------------------------------------
Init ==
  /\ mgr = "config" /\ loaded = 0
  /\ sched = "none" /\ cur = 1 /\ timer = 0
  /\ breaker = [s \in Sites |-> "CLOSED"]
  /\ local_consecutive_failures = [s \in Sites |-> 0]
  /\ open_attempts = [s \in Sites |-> 0]
  /\ cooldown_seconds = [s \in Sites |-> BaseCooldown]
  /\ open_age = [s \in Sites |-> 0]
  /\ checked_age = [s \in Sites |-> 0]
  /\ opened_for = [s \in Sites |-> 0]
  /\ opening_check = [s \in Sites |-> 0]
  /\ consecutive_failures = [h \in Hosts |-> 0]

(* The main thread: loadConfig calls addSite for each entry in turn. *)
AddSite ==
  /\ mgr = "config" /\ loaded < N
  /\ loaded' = loaded + 1
  /\ checked_age' = [checked_age EXCEPT ![loaded + 1] = 0]
  /\ UNCHANGED <<mgr, schedvars, sitevars, open_age, historyvars,
                 consecutive_failures>>

(* start(), after loadConfig read every entry or could not open the file. *)
Start ==
  /\ mgr = "config" /\ loaded \in {0, N}
  /\ mgr' = "running"
  /\ sched' = "sweep"
  /\ UNCHANGED <<loaded, cur, timer, sitevars, agevars, consecutive_failures>>

(* loadConfig threw on a config.json it cannot read: nothing catches it.   *)
LoadThrows ==
  /\ mgr = "config"
  /\ mgr' = "aborted"
  /\ UNCHANGED <<loaded, schedvars, sitevars, agevars, consecutive_failures>>

(* stop(): the flag first, then the join. *)
Stop ==
  /\ mgr = "running" /\ sched # "terminated"
  /\ mgr' = "stopping"
  /\ UNCHANGED <<loaded, schedvars, sitevars, agevars, consecutive_failures>>

Join ==
  /\ mgr = "stopping" /\ sched = "done"
  /\ mgr' = "joined"
  /\ UNCHANGED <<loaded, schedvars, sitevars, agevars, consecutive_failures>>
-----------------------------------------------------------------------------
(* The scheduler thread: `while (running)', read once per sweep. *)
BugNoFlag == TRUE
Running == mgr = "running"

BeginSweep ==
  /\ sched = "sweep"
  /\ IF Running
     THEN sched' = "visit" /\ cur' = 1
     ELSE sched' = "done" /\ UNCHANGED cur
  /\ UNCHANGED <<mainvars, timer, sitevars, agevars, consecutive_failures>>

(* The end of the vector: release sites_mutex and sleep for a second. *)
EndSweep ==
  /\ sched = "visit" /\ cur > loaded
  /\ sched' = "sleep" /\ timer' = 0
  /\ UNCHANGED <<mainvars, cur, sitevars, agevars, consecutive_failures>>

Wake ==
  /\ sched = "sleep" /\ timer >= 1
  /\ sched' = "sweep"
  /\ UNCHANGED <<mainvars, cur, timer, sitevars, agevars, consecutive_failures>>

(* The first `continue': the breaker is open and has not cooled down. *)
SkipOpen ==
  /\ sched = "visit" /\ cur <= loaded
  /\ CoolingDown(cur)
  /\ cur' = cur + 1
  /\ UNCHANGED <<mainvars, sched, timer, sitevars, agevars, consecutive_failures>>

(* An open breaker that has cooled down is half open for the rest of the visit. *)
HalfOpened(s) ==
  [breaker EXCEPT ![s] = IF @ = "OPEN" THEN "HALF_OPEN" ELSE @]

(* The history of an opening ends with it.                                 *)
EndOpening(s) ==
  /\ opened_for' = [opened_for EXCEPT ![s] = 0]
  /\ opening_check' = [opening_check EXCEPT ![s] = 0]

(* The second `continue': the site was checked too recently. *)
SkipEarly ==
  /\ sched = "visit" /\ cur <= loaded
  /\ ~CoolingDown(cur)
  /\ NotDue(cur)
  /\ breaker' = HalfOpened(cur) /\ EndOpening(cur)
  /\ cur' = cur + 1
  /\ UNCHANGED <<mainvars, sched, timer, local_consecutive_failures, open_attempts,
                 cooldown_seconds, open_age, checked_age, consecutive_failures>>

(* Call checkWebsite; `now' was read at the start of the visit. *)
BeginProbe ==
  /\ sched = "visit" /\ cur <= loaded
  /\ ~CoolingDown(cur)
  /\ Due(cur)
  /\ breaker' = HalfOpened(cur) /\ EndOpening(cur)
  /\ sched' = "probe" /\ timer' = 0
  /\ UNCHANGED <<mainvars, cur, local_consecutive_failures, open_attempts,
                 cooldown_seconds, open_age, checked_age, consecutive_failures>>

(* checkWebsite returned SUCCESS: recordSuccess, then the recovery. *)
BugNoRecovery(s) == FALSE
LeavesHalfOpen(s) == breaker[s] = "HALF_OPEN"

BugAttemptsKept(s) == open_attempts
AttemptsReset(s) == [open_attempts EXCEPT ![s] = 0]

BugLocalKept(s) == local_consecutive_failures
LocalReset(s) == [local_consecutive_failures EXCEPT ![s] = 0]

ProbeSucceeds ==
  /\ sched = "probe"
  /\ consecutive_failures' = [consecutive_failures EXCEPT ![Host[cur]] = 0]
  /\ local_consecutive_failures' = LocalReset(cur)
  /\ IF LeavesHalfOpen(cur)
     THEN /\ breaker' = [breaker EXCEPT ![cur] = "CLOSED"]
          /\ open_attempts' = AttemptsReset(cur)
          /\ cooldown_seconds' = [cooldown_seconds EXCEPT ![cur] = BaseCooldown]
     ELSE UNCHANGED <<breaker, open_attempts, cooldown_seconds>>
  /\ checked_age' = [checked_age EXCEPT ![cur] = timer]
  /\ sched' = "visit" /\ cur' = cur + 1
  /\ UNCHANGED <<mainvars, timer, open_age, historyvars>>

(* checkWebsite returned a failure: recordFailureType, then the breaker. *)
BugTripsLate(s) == local_consecutive_failures[s] + 1 > TripThreshold
Trips(s) == local_consecutive_failures[s] + 1 >= TripThreshold

(* breaker_open_time is `now', which was read before the check.            *)
BugStampedOnce(s) ==
  [open_age EXCEPT ![s] = IF breaker[s] = "CLOSED" THEN timer ELSE @]
OpenStamped(s) == [open_age EXCEPT ![s] = timer]

ProbeFails ==
  /\ sched = "probe"
  /\ Trips(cur) => open_attempts[cur] < MaxOpens
  /\ consecutive_failures' = [consecutive_failures EXCEPT ![Host[cur]] = @ + 1]
  /\ IF Trips(cur)
     THEN /\ breaker' = [breaker EXCEPT ![cur] = "OPEN"]
          /\ open_age' = OpenStamped(cur)
          /\ opened_for' = [opened_for EXCEPT ![cur] = 0]
          /\ opening_check' = [opening_check EXCEPT ![cur] = timer]
          /\ open_attempts' = [open_attempts EXCEPT ![cur] = @ + 1]
          /\ cooldown_seconds' =
               [cooldown_seconds EXCEPT ![cur] = NextCooldown(open_attempts[cur] + 1)]
          /\ local_consecutive_failures' = LocalReset(cur)
     ELSE /\ local_consecutive_failures' =
               [local_consecutive_failures EXCEPT ![cur] = @ + 1]
          /\ UNCHANGED <<breaker, open_age, historyvars, open_attempts,
                         cooldown_seconds>>
  /\ checked_age' = [checked_age EXCEPT ![cur] = timer]
  /\ sched' = "visit" /\ cur' = cur + 1
  /\ UNCHANGED <<mainvars, timer>>

(* checkWebsite threw (std::stoi on the status code): nothing catches it,  *)
(* std::terminate ends the process.                                        *)
ProbeThrows ==
  /\ sched = "probe"
  /\ sched' = "terminated"
  /\ UNCHANGED <<mainvars, cur, timer, sitevars, agevars, consecutive_failures>>

(* Time passes for every time_point; external, std::chrono::steady_clock. *)
Aged(age, d) == LesserOf(age + d, MaxAge)

Tick ==
  /\ mgr \notin {"joined", "aborted"} /\ sched # "terminated"
  /\ \E d \in TimeSteps :
       /\ timer' = Aged(timer, d)
       /\ open_age' = [s \in Sites |-> Aged(open_age[s], d)]
       /\ checked_age' = [s \in Sites |-> Aged(checked_age[s], d)]
       /\ opened_for' = [s \in Sites |-> IF breaker[s] = "OPEN"
                                         THEN Aged(opened_for[s], d) ELSE 0]
  /\ UNCHANGED <<mainvars, sched, cur, sitevars, opening_check,
                 consecutive_failures>>

Scheduler ==
  \/ BeginSweep \/ EndSweep \/ Wake
  \/ SkipOpen \/ SkipEarly \/ BeginProbe
  \/ ProbeSucceeds \/ ProbeFails \/ ProbeThrows

Main == AddSite \/ Start \/ LoadThrows \/ Stop \/ Join

Next == Main \/ Scheduler \/ Tick

Spec == Init /\ [][Next]_vars

(* The scheduler thread runs, every probe ends, the main thread finishes   *)
(* loadConfig, start and the join it began, and time passes.  Nothing      *)
(* obliges anybody to call stop().                                         *)
Fairness ==
  /\ WF_vars(Scheduler)
  /\ WF_vars(AddSite \/ Start \/ LoadThrows) /\ WF_vars(Join)
  /\ WF_vars(Tick)

FairSpec == Spec /\ Fairness
-----------------------------------------------------------------------------
(* Types.  cooldown_seconds is an int: it may go negative.                 *)
TypeOK ==
  /\ mgr \in {"config", "running", "stopping", "joined", "aborted"}
  /\ loaded \in 0..N
  /\ sched \in {"none", "sweep", "visit", "probe", "sleep", "done", "terminated"}
  /\ cur \in 1..(N + 1)
  /\ timer \in 0..MaxAge
  /\ breaker \in [Sites -> BreakerState]
  /\ local_consecutive_failures \in [Sites -> 0..(TripThreshold - 1)]
  /\ open_attempts \in [Sites -> 0..MaxOpens]
  /\ cooldown_seconds \in [Sites -> Int]
  /\ open_age \in [Sites -> 0..MaxAge]
  /\ checked_age \in [Sites -> 0..MaxAge]
  /\ opened_for \in [Sites -> 0..MaxAge]
  /\ opening_check \in [Sites -> 0..MaxAge]
  /\ consecutive_failures \in [Hosts -> Nat]

(* No url is configured twice. *)
DistinctHosts == \A s, t \in Sites : Host[s] = Host[t] => s = t

(* "DOWN handled by breaker logic already" (MonitorManager.cpp:101): the   *)
(* scheduler needs no case for health DOWN because the breaker of a site   *)
(* is not CLOSED exactly while Metrics reports the site DOWN, although     *)
(* the two are decided by separate counters in separate files.             *)
DownIsHandledByBreaker ==
  \A s \in Sites :
    breaker[s] # "CLOSED" <=> consecutive_failures[Host[s]] >= DownThreshold

(* The two counters agree: Metrics counts every failure of the outage, the *)
(* manager counts them as openings of three failures and a remainder.      *)
FailuresAccountedFor ==
  \A s \in Sites :
    consecutive_failures[Host[s]] =
      TripThreshold * open_attempts[s] + local_consecutive_failures[s]

(* A closed breaker carries nothing over from the last outage: the backoff *)
(* is back at its start; and only a breaker that opened counts openings.   *)
ClosedMeansFresh ==
  \A s \in Sites :
    IF breaker[s] = "CLOSED"
    THEN open_attempts[s] = 0 /\ cooldown_seconds[s] = BaseCooldown
    ELSE open_attempts[s] > 0

(* How long a site that fails is left alone.  The cooldown counts          *)
(* from before the check that opened the breaker (MonitorManager.cpp:67,   *)
(* 154), so README.md:108, "After cooldown period", is true only less the   *)
(* length of that check: after a check as long as the cooldown the breaker *)
(* is half open at the next sweep, a second later.  What remains of the    *)
(* cooldown is served at every opening, measured from the failure itself   *)
(* and not from the time stamp the code compares.                          *)
CooldownLessCheck ==
  [][\A s \in Sites :
       (breaker[s] = "OPEN" /\ breaker'[s] # "OPEN")
         => opened_for[s] >= cooldown_seconds[s] - opening_check[s]]_vars

(* "Exponential backoff control" (MonitorManager.hpp:36): the cooldown is  *)
(* never below the base, nor above the cap ...                             *)
CooldownInRange ==
  \A s \in Sites : cooldown_seconds[s] \in BaseCooldown..MaxCooldown

(* ... which holds as long as 10 * (1 << open_attempts) fits an int: for   *)
(* 32 bits, the first 27 openings of an outage.                            *)
CooldownInRangeUntilOverflow ==
  \A s \in Sites : open_attempts[s] <= IntBits - 5 =>
    cooldown_seconds[s] \in BaseCooldown..MaxCooldown

(* Within one outage the backoff never shrinks, until the overflow.        *)
BackoffGrows ==
  [][\A s \in Sites :
       (open_attempts'[s] > open_attempts[s] /\ open_attempts'[s] <= IntBits - 5)
         => cooldown_seconds'[s] >= cooldown_seconds[s]]_vars

(* README.md:110, "If request fails again -> State = OPEN": the failure of *)
(* the check a half-open breaker let through opens it again.               *)
HalfOpenFailureReopens ==
  [][\A s \in Sites :
       (breaker[s] = "HALF_OPEN" /\ consecutive_failures'[Host[s]]
                                      > consecutive_failures[Host[s]])
         => breaker'[s] = "OPEN"]_vars

(* The manager implements the abstract breaker, the run of failures being  *)
(* the counter Metrics keeps.                                              *)
Abstract == INSTANCE CircuitBreaker WITH
  TripEvery <- TripThreshold,
  state     <- breaker,
  streak    <- [s \in Sites |-> consecutive_failures[Host[s]]]

ImplementsBreaker == Abstract!Spec

(* While the manager runs, every site is probed again and again, whatever  *)
(* its breaker and however the checks of the other sites end.              *)
NoSiteForgotten ==
  \A s \in Sites :
    (mgr = "running" /\ loaded = N) ~>
      \/ sched = "probe" /\ cur = s
      \/ mgr # "running" \/ sched = "terminated"

(* If from some time on no check fails, every breaker ends up closed.      *)
RecoveredSitesClose ==
  <>[][~ProbeFails]_vars =>
    <>[](\/ \A s \in Sites : breaker[s] = "CLOSED"
         \/ mgr # "running" \/ sched = "terminated")

(* stop() returns: the scheduler notices the flag and can be joined.       *)
StopReturns == (mgr = "stopping") ~> (mgr = "joined" \/ sched = "terminated")
=============================================================================
