---------------------------- MODULE MonitorProofs ----------------------------
(***************************************************************************)
(* What module Monitor promises, proved for any number of sites, any       *)
(* intervals, any cooldown constants and any width of int.                 *)
(***************************************************************************)
EXTENDS Monitor, TLAPS

(* The int arithmetic of the cooldown: an int again, and never above the   *)
(* cap.                                                                    *)
LEMMA CooldownIsInt ==
  ASSUME NEW n \in Nat
  PROVE  NextCooldown(n) \in Int /\ NextCooldown(n) <= MaxCooldown
<1> DEFINE half == 2^(IntBits - 1)
           full == 2^IntBits
           k    == n % IntBits
<1>1. half \in Nat /\ full \in Nat /\ full >= 1
  BY WidthAssumption
<1>2. \A x \in Int : Wrapped(x) \in Int
  <2> HIDE DEF half, full
  <2>1. \A x \in Int : ((x + half) % full) \in Int
    BY <1>1
  <2>2. \A x \in Int : ((x + half) % full) - half \in Int
    BY <1>1, <2>1
  <2> QED BY <2>2 DEF Wrapped, half, full
<1>3. k \in 0..IntBits
  BY WidthAssumption
<1>4. 2^k \in Int
  <2> HIDE DEF k
  <2> QED BY <1>3, WidthAssumption
<1>5. ShiftedOne(n) \in Int
  BY <1>2, <1>4 DEF ShiftedOne
<1>6. BaseCooldown * ShiftedOne(n) \in Int
  BY <1>5, CooldownAssumption
<1> QED
  BY <1>2, <1>6, CooldownAssumption DEF NextCooldown, LesserOf

(* As long as ten times the shifted one fits an int, the cooldown is the   *)
(* exponential the comment promises, cut off at the cap.                   *)
LEMMA CooldownFits ==
  ASSUME NEW n \in 0..(IntBits - 5)
  PROVE  /\ NextCooldown(n) = LesserOf(MaxCooldown, BaseCooldown * 2^n)
         /\ 2^n \in Nat /\ 2^n >= 1
         /\ BaseCooldown * 2^n \in Nat
<1> DEFINE p    == 2^n
           q    == 2^(IntBits - 5)
           half == 2^(IntBits - 1)
           full == 2^IntBits
<1>1. /\ p \in Nat /\ p >= 1
      /\ p <= q /\ q \in Nat
  BY WidthAssumption
<1>2. half = 16 * q /\ full = 2 * half
  BY WidthAssumption
<1>3. ASSUME NEW x \in Nat, x <= 15 * q
      PROVE  Wrapped(x) = x
  <2>1. x + half \in 0..(full - 1)
    <3> HIDE DEF q, half, full
    <3> QED BY <1>1, <1>2, <1>3
  <2>2. (x + half) % full = x + half
    <3> HIDE DEF half, full
    <3>1. half \in Nat /\ full \in Nat /\ full >= 1
      BY <1>1, <1>2
    <3> QED BY <2>1, <3>1
  <2>3. half \in Nat
    BY <1>1, <1>2
  <2>4. ((x + half) % full) - half = x
    <3> HIDE DEF half, full
    <3> QED BY <2>2, <2>3
  <2> QED BY <2>4 DEF Wrapped
<1>4. n % IntBits = n
  BY WidthAssumption
<1>5. ShiftedOne(n) = p
  <2>1. p <= 15 * q
    <3> HIDE DEF p, q
    <3> QED BY <1>1
  <2> HIDE DEF q
  <2> QED BY <1>1, <1>3, <1>4, <2>1 DEF ShiftedOne
<1>6. BaseCooldown * p \in Nat /\ BaseCooldown * p <= 15 * q
  <2> HIDE DEF p, q
  <2>1. BaseCooldown * p \in Nat
    BY <1>1, CooldownAssumption
  <2>2. BaseCooldown * p <= 15 * p
    BY <1>1, CooldownAssumption
  <2> QED BY <1>1, <2>1, <2>2
<1>7. Wrapped(BaseCooldown * ShiftedOne(n)) = BaseCooldown * p
  <2> HIDE DEF p, q
  <2> QED BY <1>3, <1>5, <1>6
<1> QED
  BY <1>1, <1>5, <1>6, <1>7 DEF NextCooldown
-----------------------------------------------------------------------------
(* The scheduler probes one of the loaded sites, and never one whose       *)
(* breaker is open.                                                        *)
ProbeIsAllowed ==
  sched = "probe" => cur \in Sites /\ breaker[cur] # "OPEN"

TypeInv == TypeOK /\ ProbeIsAllowed

LEMMA AgeIsBounded ==
  ASSUME NEW age \in 0..MaxAge, NEW d \in Nat
  PROVE  Aged(age, d) \in age..MaxAge
BY BoundAssumption DEF Aged, LesserOf

LEMMA HalfOpenedIsWellTyped ==
  ASSUME NEW s \in Sites, breaker \in [Sites -> BreakerState]
  PROVE  /\ HalfOpened(s) \in [Sites -> BreakerState]
         /\ HalfOpened(s)[s] # "OPEN"
         /\ \A t \in Sites : t # s => HalfOpened(s)[t] = breaker[t]
BY DEF HalfOpened, BreakerState

LEMMA EndOpeningIsWellTyped ==
  ASSUME TypeOK, NEW s \in Sites, EndOpening(s)
  PROVE  /\ opened_for' \in [Sites -> 0..MaxAge]
         /\ opening_check' \in [Sites -> 0..MaxAge]
BY BoundAssumption DEF TypeOK, EndOpening

LEMMA TypeInvInit == Init => TypeInv
BY SitesAssumption, CooldownAssumption, BoundAssumption
   DEF Init, TypeInv, TypeOK, ProbeIsAllowed, Sites, BreakerState, TripThreshold

LEMMA TypeInvStep == TypeInv /\ [Next]_vars => TypeInv'
<1> SUFFICES ASSUME TypeInv, [Next]_vars
             PROVE  TypeInv'
  OBVIOUS
<1> USE SitesAssumption DEF TypeInv, TypeOK, ProbeIsAllowed, historyvars
<1>1. CASE AddSite
  <2>1. loaded' \in 0..N
    BY <1>1 DEF AddSite
  <2>2. checked_age' \in [Sites -> 0..MaxAge]
    <3>1. 0 \in 0..MaxAge
      BY BoundAssumption
    <3>2. checked_age' = [checked_age EXCEPT ![loaded + 1] = 0]
      BY <1>1 DEF AddSite
    <3>3. checked_age \in [Sites -> 0..MaxAge]
      OBVIOUS
    <3> HIDE DEF TypeInv
    <3> QED BY <3>1, <3>2, <3>3, Zenon
  <2> QED
    BY <1>1, <2>1, <2>2 DEF AddSite, schedvars, sitevars
<1>2. CASE Start
  BY <1>2 DEF Start, schedvars, sitevars, agevars
<1>3. CASE LoadThrows
  BY <1>3 DEF LoadThrows, schedvars, sitevars, agevars
<1>4. CASE Stop
  BY <1>4 DEF Stop, schedvars, sitevars, agevars
<1>5. CASE Join
  BY <1>5 DEF Join, schedvars, sitevars, agevars
<1>6. CASE BeginSweep
  BY <1>6 DEF BeginSweep, mainvars, sitevars, agevars
<1>7. CASE EndSweep
  BY <1>7, BoundAssumption DEF EndSweep, mainvars, sitevars, agevars
<1>8. CASE Wake
  BY <1>8 DEF Wake, mainvars, sitevars, agevars
<1>9. CASE SkipOpen
  BY <1>9 DEF SkipOpen, mainvars, sitevars, agevars
<1>10. CASE SkipEarly
  <2>1. cur \in Sites
    BY <1>10 DEF SkipEarly, Sites
  <2>2. HalfOpened(cur) \in [Sites -> BreakerState]
    BY <2>1, HalfOpenedIsWellTyped
  <2>3. /\ opened_for' \in [Sites -> 0..MaxAge]
        /\ opening_check' \in [Sites -> 0..MaxAge]
    BY <1>10, <2>1, EndOpeningIsWellTyped DEF SkipEarly
  <2> QED
    BY <1>10, <2>1, <2>2, <2>3 DEF SkipEarly, mainvars
<1>11. CASE BeginProbe
  <2>1. cur \in Sites
    BY <1>11 DEF BeginProbe, Sites
  <2>2. HalfOpened(cur) \in [Sites -> BreakerState] /\ HalfOpened(cur)[cur] # "OPEN"
    BY <2>1, HalfOpenedIsWellTyped
  <2>3. /\ opened_for' \in [Sites -> 0..MaxAge]
        /\ opening_check' \in [Sites -> 0..MaxAge]
    BY <1>11, <2>1, EndOpeningIsWellTyped DEF BeginProbe
  <2> QED
    BY <1>11, <2>1, <2>2, <2>3, BoundAssumption DEF BeginProbe, mainvars
<1>12. CASE ProbeSucceeds
  <2>1. cur \in Sites /\ sched' = "visit" /\ cur' \in 1..(N + 1)
    BY <1>12 DEF ProbeSucceeds, Sites
  <2>2. /\ breaker' \in [Sites -> BreakerState]
        /\ open_attempts' \in [Sites -> 0..MaxOpens]
        /\ cooldown_seconds' \in [Sites -> Int]
    BY <1>12, CooldownAssumption, BoundAssumption
       DEF ProbeSucceeds, AttemptsReset, BreakerState
  <2>3. local_consecutive_failures' \in [Sites -> 0..(TripThreshold - 1)]
    BY <1>12 DEF ProbeSucceeds, LocalReset, TripThreshold
  <2>4. /\ checked_age' \in [Sites -> 0..MaxAge]
        /\ consecutive_failures' \in [Hosts -> Nat]
    BY <1>12 DEF ProbeSucceeds
  <2> QED
    BY <1>12, <2>1, <2>2, <2>3, <2>4 DEF ProbeSucceeds, mainvars
<1>13. CASE ProbeFails
  <2>1. cur \in Sites /\ sched' = "visit" /\ cur' \in 1..(N + 1)
    BY <1>13 DEF ProbeFails, Sites
  <2>2. /\ checked_age' \in [Sites -> 0..MaxAge]
        /\ consecutive_failures' \in [Hosts -> Nat]
    BY <1>13 DEF ProbeFails
  <2>3. CASE Trips(cur)
    <3>1. NextCooldown(open_attempts[cur] + 1) \in Int
      BY <2>1, CooldownIsInt, BoundAssumption
    <3>2. open_attempts' \in [Sites -> 0..MaxOpens]
      BY <1>13, <2>1, <2>3, BoundAssumption DEF ProbeFails
    <3>3. local_consecutive_failures' \in [Sites -> 0..(TripThreshold - 1)]
      BY <1>13, <2>3 DEF ProbeFails, LocalReset, TripThreshold
    <3>4. /\ breaker' \in [Sites -> BreakerState]
          /\ cooldown_seconds' \in [Sites -> Int]
      BY <1>13, <2>3, <3>1 DEF ProbeFails, BreakerState
    <3>5. /\ open_age' \in [Sites -> 0..MaxAge]
          /\ opened_for' \in [Sites -> 0..MaxAge]
          /\ opening_check' \in [Sites -> 0..MaxAge]
      BY <1>13, <2>3, BoundAssumption DEF ProbeFails, OpenStamped
    <3> QED
      BY <1>13, <2>1, <2>2, <3>2, <3>3, <3>4, <3>5 DEF ProbeFails, mainvars
  <2>4. CASE ~Trips(cur)
    <3>1. local_consecutive_failures' \in [Sites -> 0..(TripThreshold - 1)]
      BY <1>13, <2>1, <2>4 DEF ProbeFails, Trips, TripThreshold
    <3> QED
      BY <1>13, <2>1, <2>2, <2>4, <3>1 DEF ProbeFails, mainvars
  <2> QED BY <2>3, <2>4
<1>14. CASE ProbeThrows
  BY <1>14 DEF ProbeThrows, mainvars, sitevars, agevars
<1>15. CASE Tick
  <2>1. PICK d \in TimeSteps :
          /\ timer' = Aged(timer, d)
          /\ open_age' = [s \in Sites |-> Aged(open_age[s], d)]
          /\ checked_age' = [s \in Sites |-> Aged(checked_age[s], d)]
          /\ opened_for' = [s \in Sites |-> IF breaker[s] = "OPEN"
                                            THEN Aged(opened_for[s], d) ELSE 0]
    BY <1>15 DEF Tick
  <2>2. \A age \in 0..MaxAge : Aged(age, d) \in 0..MaxAge
    BY AgeIsBounded, BoundAssumption
  <2>3. opened_for' \in [Sites -> 0..MaxAge]
    BY <2>1, <2>2, BoundAssumption
  <2> QED
    BY <1>15, <2>1, <2>2, <2>3 DEF Tick, mainvars, sitevars
<1>16. CASE UNCHANGED vars
  BY <1>16 DEF vars, mainvars, schedvars, sitevars, agevars
<1> QED
  BY <1>1, <1>2, <1>3, <1>4, <1>5, <1>6, <1>7, <1>8, <1>9, <1>10, <1>11,
     <1>12, <1>13, <1>14, <1>15, <1>16 DEF Next, Main, Scheduler

(* Every variable keeps its type: in particular the run of failures a      *)
(* manager counts stays below the threshold.                               *)
THEOREM TypeCorrect == Spec => []TypeOK
<1>1. TypeInv => TypeOK
  BY DEF TypeInv
<1> QED
  BY <1>1, TypeInvInit, TypeInvStep, PTL DEF Spec
-----------------------------------------------------------------------------
(* The inductive invariant of the breakers: what a closed one has          *)
(* forgotten, and that the time stamp of an open one is older than its     *)
(* opening by no more than the check that opened it.  It holds whatever    *)
(* hosts the sites share.                                                  *)
StampPrecedesCheck ==
  \A s \in Sites : breaker[s] = "OPEN" =>
    open_age[s] <= opened_for[s] + opening_check[s]

BreakerInv ==
  /\ TypeInv
  /\ ClosedMeansFresh
  /\ StampPrecedesCheck

(* The invariant behind the agreement of the two failure counters.         *)
(* DownIsHandledByBreaker speaks of one counter of each file; what carries *)
(* it from step to step is how the counters add up, what a closed breaker  *)
(* has forgotten, and that an open one is never probed.                    *)
IInv == BreakerInv /\ FailuresAccountedFor

LEMMA IInvInit == Init => IInv
<1> SUFFICES ASSUME Init PROVE IInv
  OBVIOUS
<1>1. TypeInv
  BY TypeInvInit
<1>2. \A s \in Sites : Host[s] \in Hosts
  BY SitesAssumption
<1> QED
  BY <1>1, <1>2, CooldownAssumption
     DEF Init, IInv, BreakerInv, FailuresAccountedFor, ClosedMeansFresh,
         StampPrecedesCheck, TripThreshold

(* What a step that leaves the breakers alone preserves.                   *)
LEMMA QuietStep ==
  ASSUME BreakerInv, TypeInv',
         UNCHANGED <<breaker, local_consecutive_failures, open_attempts,
                     cooldown_seconds, open_age, historyvars, consecutive_failures>>
  PROVE  BreakerInv' /\ (FailuresAccountedFor => FailuresAccountedFor')
BY DEF BreakerInv, FailuresAccountedFor, ClosedMeansFresh, StampPrecedesCheck,
       historyvars

(* What the visit of a site whose breaker is not cooling down preserves.   *)
LEMMA HalfOpenStep ==
  ASSUME BreakerInv, TypeInv',
         cur \in Sites,
         breaker' = HalfOpened(cur), EndOpening(cur),
         UNCHANGED <<local_consecutive_failures, open_attempts,
                     cooldown_seconds, open_age, consecutive_failures>>
  PROVE  BreakerInv' /\ (FailuresAccountedFor => FailuresAccountedFor')
<1> USE DEF BreakerInv, TypeInv, TypeOK
<1>1. \A s \in Sites :
        \/ breaker'[s] = breaker[s]
        \/ /\ s = cur
           /\ breaker[s] = "OPEN" /\ breaker'[s] = "HALF_OPEN"
  BY DEF HalfOpened
<1>2. FailuresAccountedFor => FailuresAccountedFor'
  BY DEF FailuresAccountedFor
<1>3. ClosedMeansFresh'
  BY <1>1 DEF ClosedMeansFresh
<1>4. StampPrecedesCheck'
  <2>1. /\ HalfOpened(cur)[cur] # "OPEN"
        /\ \A s \in Sites : s # cur =>
             /\ opened_for'[s] = opened_for[s]
             /\ opening_check'[s] = opening_check[s]
    BY HalfOpenedIsWellTyped DEF EndOpening
  <2> QED BY <1>1, <2>1 DEF StampPrecedesCheck
<1> QED BY <1>2, <1>3, <1>4

LEMMA SuccessStep ==
  ASSUME BreakerInv, TypeInv', ProbeSucceeds
  PROVE  /\ BreakerInv'
         /\ (DistinctHosts /\ FailuresAccountedFor) => FailuresAccountedFor'
<1> USE DEF BreakerInv, TypeInv, TypeOK
<1>1. cur \in Sites /\ breaker[cur] # "OPEN" /\ Host[cur] \in Hosts
  BY SitesAssumption DEF ProbeSucceeds, ProbeIsAllowed
<1>2. /\ consecutive_failures'[Host[cur]] = 0
      /\ local_consecutive_failures'[cur] = 0
      /\ open_attempts'[cur] = 0
      /\ cooldown_seconds'[cur] = BaseCooldown
      /\ breaker'[cur] = "CLOSED"
  BY <1>1 DEF ProbeSucceeds, LocalReset, AttemptsReset, LeavesHalfOpen,
              ClosedMeansFresh, BreakerState
<1>3. \A s \in Sites : s # cur =>
        /\ DistinctHosts =>
             consecutive_failures'[Host[s]] = consecutive_failures[Host[s]]
        /\ local_consecutive_failures'[s] = local_consecutive_failures[s]
        /\ open_attempts'[s] = open_attempts[s]
        /\ cooldown_seconds'[s] = cooldown_seconds[s]
        /\ breaker'[s] = breaker[s]
  BY <1>1, SitesAssumption
     DEF ProbeSucceeds, LocalReset, AttemptsReset, DistinctHosts
<1>4. UNCHANGED <<open_age, opened_for, opening_check>>
  BY DEF ProbeSucceeds, historyvars
<1>5. (DistinctHosts /\ FailuresAccountedFor) => FailuresAccountedFor'
  <2> SUFFICES ASSUME DistinctHosts, FailuresAccountedFor, NEW s \in Sites
               PROVE  consecutive_failures'[Host[s]] =
                        3 * open_attempts'[s] + local_consecutive_failures'[s]
    BY DEF FailuresAccountedFor, TripThreshold
  <2>1. CASE s = cur
    BY <1>2, <2>1
  <2>2. CASE s # cur
    BY <1>3, <2>2 DEF FailuresAccountedFor, TripThreshold
  <2> QED BY <2>1, <2>2
<1>6. ClosedMeansFresh'
  BY <1>2, <1>3 DEF ClosedMeansFresh
<1>7. StampPrecedesCheck'
  BY <1>2, <1>3, <1>4 DEF StampPrecedesCheck
<1> QED BY <1>5, <1>6, <1>7

LEMMA FailureStep ==
  ASSUME BreakerInv, TypeInv', ProbeFails
  PROVE  /\ BreakerInv'
         /\ (DistinctHosts /\ FailuresAccountedFor) => FailuresAccountedFor'
<1> USE DEF BreakerInv, TypeInv, TypeOK
<1>1. cur \in Sites /\ breaker[cur] # "OPEN" /\ Host[cur] \in Hosts
  BY SitesAssumption DEF ProbeFails, ProbeIsAllowed
<1>2. consecutive_failures'[Host[cur]] = consecutive_failures[Host[cur]] + 1
  BY <1>1 DEF ProbeFails
<1>3. \A s \in Sites : s # cur =>
        /\ DistinctHosts =>
             consecutive_failures'[Host[s]] = consecutive_failures[Host[s]]
        /\ local_consecutive_failures'[s] = local_consecutive_failures[s]
        /\ open_attempts'[s] = open_attempts[s]
        /\ cooldown_seconds'[s] = cooldown_seconds[s]
        /\ breaker'[s] = breaker[s]
        /\ open_age'[s] = open_age[s]
        /\ opened_for'[s] = opened_for[s]
        /\ opening_check'[s] = opening_check[s]
  BY <1>1, SitesAssumption
     DEF ProbeFails, LocalReset, OpenStamped, DistinctHosts, historyvars
<1>4. CASE Trips(cur)
  <2>1. local_consecutive_failures[cur] = 2
    BY <1>1, <1>4 DEF Trips, TripThreshold
  <2>2. /\ breaker'[cur] = "OPEN"
        /\ open_attempts'[cur] = open_attempts[cur] + 1
        /\ local_consecutive_failures'[cur] = 0
    BY <1>1, <1>4 DEF ProbeFails, LocalReset
  <2>3. /\ open_age'[cur] = timer
        /\ opened_for'[cur] = 0
        /\ opening_check'[cur] = timer
    BY <1>1, <1>4 DEF ProbeFails, OpenStamped
  <2>4. (DistinctHosts /\ FailuresAccountedFor) => FailuresAccountedFor'
    BY <1>1, <1>2, <1>3, <2>1, <2>2 DEF FailuresAccountedFor, TripThreshold
  <2>5. ClosedMeansFresh'
    BY <1>1, <1>3, <2>2, BoundAssumption DEF ClosedMeansFresh
  <2>6. StampPrecedesCheck'
    BY <1>3, <2>3 DEF StampPrecedesCheck
  <2> QED BY <2>4, <2>5, <2>6
<1>5. CASE ~Trips(cur)
  <2>1. /\ local_consecutive_failures'[cur] = local_consecutive_failures[cur] + 1
        /\ UNCHANGED <<breaker, open_age, historyvars, open_attempts,
                       cooldown_seconds>>
    BY <1>1, <1>5 DEF ProbeFails
  <2>2. (DistinctHosts /\ FailuresAccountedFor) => FailuresAccountedFor'
    BY <1>1, <1>2, <1>3, <2>1 DEF FailuresAccountedFor, TripThreshold
  <2>3. ClosedMeansFresh'
    BY <2>1 DEF ClosedMeansFresh
  <2>4. StampPrecedesCheck'
    BY <2>1 DEF StampPrecedesCheck, historyvars
  <2> QED BY <2>2, <2>3, <2>4
<1> QED BY <1>4, <1>5

LEMMA TickStep ==
  ASSUME BreakerInv, TypeInv', Tick
  PROVE  BreakerInv' /\ (FailuresAccountedFor => FailuresAccountedFor')
<1> USE DEF BreakerInv, TypeInv, TypeOK
<1>1. PICK d \in TimeSteps :
        /\ open_age' = [s \in Sites |-> Aged(open_age[s], d)]
        /\ opened_for' = [s \in Sites |-> IF breaker[s] = "OPEN"
                                          THEN Aged(opened_for[s], d) ELSE 0]
        /\ opening_check' = opening_check
  BY DEF Tick
<1>2. StampPrecedesCheck'
  <2> SUFFICES ASSUME NEW s \in Sites, breaker[s] = "OPEN"
               PROVE  Aged(open_age[s], d) <= Aged(opened_for[s], d) + opening_check[s]
    BY <1>1 DEF Tick, sitevars, StampPrecedesCheck
  <2>1. open_age[s] <= opened_for[s] + opening_check[s]
    BY DEF StampPrecedesCheck
  <2>2. /\ open_age[s] \in Nat /\ opened_for[s] \in Nat /\ opening_check[s] \in Nat
        /\ d \in Nat /\ MaxAge \in Nat
    BY BoundAssumption
  <2> QED BY <2>1, <2>2 DEF Aged, LesserOf
<1>3. UNCHANGED <<breaker, local_consecutive_failures, open_attempts,
                  cooldown_seconds, consecutive_failures>>
  BY DEF Tick, sitevars
<1> QED
  BY <1>2, <1>3 DEF FailuresAccountedFor, ClosedMeansFresh

LEMMA BreakerStep ==
  ASSUME BreakerInv, [Next]_vars
  PROVE  /\ BreakerInv'
         /\ (DistinctHosts /\ FailuresAccountedFor) => FailuresAccountedFor'
<1>1. TypeInv'
  BY TypeInvStep DEF BreakerInv
<1>2. CASE Main
  BY <1>1, <1>2, QuietStep
     DEF Main, AddSite, Start, LoadThrows, Stop, Join, sitevars, agevars
<1>3. CASE BeginSweep \/ EndSweep \/ Wake \/ SkipOpen \/ ProbeThrows
  BY <1>1, <1>3, QuietStep
     DEF BeginSweep, EndSweep, Wake, SkipOpen, ProbeThrows, sitevars, agevars
<1>4. CASE SkipEarly \/ BeginProbe
  <2>1. cur \in Sites
    BY <1>4, SitesAssumption DEF BreakerInv, TypeInv, TypeOK, SkipEarly, BeginProbe, Sites
  <2> QED
    BY <1>1, <1>4, <2>1, HalfOpenStep DEF SkipEarly, BeginProbe, agevars
<1>5. CASE ProbeSucceeds
  BY <1>1, <1>5, SuccessStep
<1>6. CASE ProbeFails
  BY <1>1, <1>6, FailureStep
<1>7. CASE Tick
  BY <1>1, <1>7, TickStep
<1>8. CASE UNCHANGED vars
  BY <1>1, <1>8, QuietStep DEF vars, sitevars, agevars
<1> QED
  BY <1>2, <1>3, <1>4, <1>5, <1>6, <1>7, <1>8 DEF Next, Scheduler

LEMMA IInvStep ==
  ASSUME DistinctHosts
  PROVE  IInv /\ [Next]_vars => IInv'
BY BreakerStep DEF IInv

(* A closed breaker carries nothing over from an outage into the next one: *)
(* its backoff starts again, and only a breaker that opened counts its     *)
(* openings, for any sites and hosts.                                      *)
THEOREM ClosedIsFresh == Spec => []ClosedMeansFresh
<1>1. BreakerInv => ClosedMeansFresh
  BY DEF BreakerInv
<1>2. BreakerInv /\ [Next]_vars => BreakerInv'
  BY BreakerStep
<1>3. Init => BreakerInv
  BY IInvInit DEF IInv
<1> QED
  BY <1>1, <1>2, <1>3, PTL DEF Spec

(* The failures Metrics counts are the manager's openings, three failures  *)
(* each, and its remainder.                                                *)
THEOREM CountersAgree ==
  ASSUME DistinctHosts
  PROVE  Spec => []FailuresAccountedFor
<1>1. IInv => FailuresAccountedFor
  BY DEF IInv
<1> QED
  BY <1>1, IInvInit, IInvStep, PTL DEF Spec

(* From the failure that opened a breaker to the visit that lets the next  *)
(* check through passes the cooldown, less the length of the check that    *)
(* failed.                                                                 *)
THEOREM CooldownServed == Spec => CooldownLessCheck
<1> DEFINE Served ==
      \A s \in Sites :
        (breaker[s] = "OPEN" /\ breaker'[s] # "OPEN")
          => opened_for[s] >= cooldown_seconds[s] - opening_check[s]
<1>1. BreakerInv /\ [Next]_vars => [Served]_vars
  <2> SUFFICES ASSUME BreakerInv, [Next]_vars, NEW s \in Sites,
                      breaker[s] = "OPEN", breaker'[s] # "OPEN"
               PROVE  opened_for[s] >= cooldown_seconds[s] - opening_check[s]
    OBVIOUS
  <2> USE DEF BreakerInv, TypeInv, TypeOK
  <2>1. CASE SkipEarly \/ BeginProbe
    <3>1. cur = s /\ ~CoolingDown(s)
      BY <2>1 DEF SkipEarly, BeginProbe, HalfOpened
    <3>2. open_age[s] >= cooldown_seconds[s]
      BY <3>1 DEF CoolingDown
    <3>3. open_age[s] <= opened_for[s] + opening_check[s]
      BY DEF StampPrecedesCheck
    <3> QED BY <3>2, <3>3
  <2>2. CASE ProbeSucceeds \/ ProbeFails
    <3>1. cur \in Sites /\ breaker[cur] # "OPEN"
      BY <2>2 DEF ProbeSucceeds, ProbeFails, ProbeIsAllowed
    <3> QED BY <2>2, <3>1 DEF ProbeSucceeds, ProbeFails
  <2>3. CASE UNCHANGED breaker
    BY <2>3
  <2>4. CASE Main \/ Tick
    BY <2>3, <2>4
       DEF Main, AddSite, Start, LoadThrows, Stop, Join, Tick, sitevars
  <2>5. CASE BeginSweep \/ EndSweep \/ Wake \/ SkipOpen \/ ProbeThrows
    BY <2>3, <2>5
       DEF BeginSweep, EndSweep, Wake, SkipOpen, ProbeThrows, sitevars
  <2>6. CASE UNCHANGED vars
    BY <2>3, <2>6 DEF vars, sitevars
  <2> QED
    BY <2>1, <2>2, <2>4, <2>5, <2>6 DEF Next, Scheduler
<1>2. BreakerInv /\ [Next]_vars => BreakerInv'
  BY BreakerStep
<1>3. Init => BreakerInv
  BY IInvInit DEF IInv
<1> QED
  BY <1>1, <1>2, <1>3, PTL DEF Spec, CooldownLessCheck

(* A site is reported DOWN exactly while its breaker is not closed.        *)
THEOREM DownMeansNotClosed ==
  ASSUME DistinctHosts
  PROVE  Spec => []DownIsHandledByBreaker
<1>1. IInv => DownIsHandledByBreaker
  <2> SUFFICES ASSUME IInv, NEW s \in Sites
               PROVE  breaker[s] # "CLOSED" <=>
                        consecutive_failures[Host[s]] >= DownThreshold
    BY DEF DownIsHandledByBreaker
  <2>1. /\ open_attempts[s] \in Nat
        /\ local_consecutive_failures[s] \in 0..2
    BY BoundAssumption DEF IInv, BreakerInv, TypeInv, TypeOK, TripThreshold
  <2>2. consecutive_failures[Host[s]] =
          3 * open_attempts[s] + local_consecutive_failures[s]
    BY DEF IInv, FailuresAccountedFor, TripThreshold
  <2>3. breaker[s] # "CLOSED" <=> open_attempts[s] > 0
    BY <2>1 DEF IInv, BreakerInv, ClosedMeansFresh
  <2> QED BY <2>1, <2>2, <2>3 DEF DownThreshold
<1> QED
  BY <1>1, IInvInit, IInvStep, PTL DEF Spec
-----------------------------------------------------------------------------
(* The manager implements the abstract breaker.  A visit of a site is one  *)
(* abstract step of that site or none; every third failure is the one that *)
(* opens because the run of failures and the manager's remainder agree     *)
(* modulo three.                                                           *)
LEMMA AbstractInit == Init => Abstract!Init
BY SitesAssumption DEF Init, Abstract!Init

LEMMA AbstractSuccess ==
  ASSUME DistinctHosts, IInv, ProbeSucceeds
  PROVE  Abstract!Succeed(cur)
<1> USE DEF IInv, BreakerInv, TypeInv, TypeOK
<1>1. cur \in Sites /\ breaker[cur] # "OPEN" /\ Host[cur] \in Hosts
  BY SitesAssumption DEF ProbeSucceeds, ProbeIsAllowed
<1>2. breaker' = [breaker EXCEPT ![cur] = "CLOSED"]
  BY <1>1 DEF ProbeSucceeds, LeavesHalfOpen, BreakerState
<1>3. \A s \in Sites : consecutive_failures'[Host[s]] =
                         IF s = cur THEN 0 ELSE consecutive_failures[Host[s]]
  BY <1>1, SitesAssumption DEF ProbeSucceeds, DistinctHosts
<1> QED
  BY <1>1, <1>2, <1>3 DEF Abstract!Succeed

LEMMA AbstractFailure ==
  ASSUME DistinctHosts, IInv, ProbeFails
  PROVE  Abstract!Fail(cur)
<1> USE DEF IInv, BreakerInv, TypeInv, TypeOK
<1>1. cur \in Sites /\ breaker[cur] # "OPEN" /\ Host[cur] \in Hosts
  BY SitesAssumption DEF ProbeFails, ProbeIsAllowed
<1>2. \A s \in Sites : consecutive_failures'[Host[s]] =
                         IF s = cur THEN consecutive_failures[Host[s]] + 1
                                    ELSE consecutive_failures[Host[s]]
  BY <1>1, SitesAssumption DEF ProbeFails, DistinctHosts
<1>3. Trips(cur) <=> (consecutive_failures[Host[cur]] + 1) % TripThreshold = 0
  <2>1. /\ open_attempts[cur] \in Nat
        /\ local_consecutive_failures[cur] \in 0..2
    BY <1>1, BoundAssumption DEF TripThreshold
  <2>2. consecutive_failures[Host[cur]] =
          3 * open_attempts[cur] + local_consecutive_failures[cur]
    BY <1>1 DEF FailuresAccountedFor, TripThreshold
  <2> QED BY <2>1, <2>2 DEF Trips, TripThreshold
<1>4. breaker' = [breaker EXCEPT ![cur] = IF Trips(cur) THEN "OPEN" ELSE @]
  BY <1>1 DEF ProbeFails
<1>5. breaker' = [breaker EXCEPT ![cur] =
                    IF (consecutive_failures[Host[cur]] + 1) % TripThreshold = 0
                    THEN "OPEN" ELSE @]
  BY <1>3, <1>4
<1> QED
  BY <1>1, <1>2, <1>5 DEF Abstract!Fail

LEMMA AbstractStep ==
  ASSUME DistinctHosts
  PROVE  IInv /\ [Next]_vars => [Abstract!Next]_(Abstract!cbvars)
<1> SUFFICES ASSUME IInv, [Next]_vars
             PROVE  [Abstract!Next]_(Abstract!cbvars)
  OBVIOUS
<1>1. CASE UNCHANGED <<breaker, consecutive_failures>>
  BY <1>1 DEF Abstract!cbvars
<1>2. CASE SkipEarly \/ BeginProbe
  <2>1. /\ cur \in Sites
        /\ breaker' = HalfOpened(cur)
        /\ consecutive_failures' = consecutive_failures
    BY <1>2, SitesAssumption
       DEF IInv, BreakerInv, TypeInv, TypeOK, SkipEarly, BeginProbe, Sites
  <2>2. breaker \in [Sites -> BreakerState]
    BY DEF IInv, BreakerInv, TypeInv, TypeOK
  <2>3. CASE breaker[cur] = "OPEN"
    <3>1. Abstract!TryAgain(cur)
      BY <2>1, <2>2, <2>3 DEF Abstract!TryAgain, HalfOpened
    <3> QED BY <2>1, <3>1 DEF Abstract!Next
  <2>4. CASE breaker[cur] # "OPEN"
    <3>1. breaker' = breaker
      BY <2>1, <2>2, <2>4 DEF HalfOpened
    <3> QED BY <2>1, <3>1, <1>1
  <2> QED BY <2>3, <2>4
<1>3. CASE ProbeSucceeds
  <2>1. cur \in Sites
    BY <1>3 DEF IInv, BreakerInv, TypeInv, ProbeIsAllowed, ProbeSucceeds
  <2>2. Abstract!Succeed(cur)
    BY <1>3, AbstractSuccess
  <2> QED BY <2>1, <2>2 DEF Abstract!Next, Abstract!Succeed
<1>4. CASE ProbeFails
  <2>1. cur \in Sites
    BY <1>4 DEF IInv, BreakerInv, TypeInv, ProbeIsAllowed, ProbeFails
  <2>2. Abstract!Fail(cur)
    BY <1>4, AbstractFailure
  <2> QED BY <2>1, <2>2 DEF Abstract!Next, Abstract!Fail
<1>5. CASE Main \/ Tick
  BY <1>1, <1>5
     DEF Main, AddSite, Start, LoadThrows, Stop, Join, Tick, sitevars, agevars
<1>6. CASE BeginSweep \/ EndSweep \/ Wake \/ SkipOpen \/ ProbeThrows
  BY <1>1, <1>6
     DEF BeginSweep, EndSweep, Wake, SkipOpen, ProbeThrows, sitevars, agevars
<1>7. CASE UNCHANGED vars
  BY <1>1, <1>7 DEF vars, sitevars
<1> QED
  BY <1>2, <1>3, <1>4, <1>5, <1>6, <1>7 DEF Next, Scheduler

(* The scheduler, its threads and its two counters implement the breaker   *)
(* that is decided by the length of the run of failures alone.             *)
THEOREM BreakerRefinement ==
  ASSUME DistinctHosts
  PROVE  Spec => ImplementsBreaker
<1> QED
  BY AbstractInit, IInvInit, IInvStep, AbstractStep, PTL
     DEF Spec, ImplementsBreaker, Abstract!Spec
-----------------------------------------------------------------------------
(* The cooldown is a function of the number of openings, until it no       *)
(* longer fits an int.                                                     *)
CooldownByAttempts ==
  \A s \in Sites : open_attempts[s] <= IntBits - 5 =>
    cooldown_seconds[s] =
      IF open_attempts[s] = 0
      THEN BaseCooldown
      ELSE LesserOf(MaxCooldown, BaseCooldown * 2^open_attempts[s])

LEMMA CooldownByAttemptsStep ==
  TypeInv /\ CooldownByAttempts /\ [Next]_vars => CooldownByAttempts'
<1> SUFFICES ASSUME TypeInv, CooldownByAttempts, [Next]_vars
             PROVE  CooldownByAttempts'
  OBVIOUS
<1> USE DEF TypeInv, TypeOK
<1>1. CASE UNCHANGED <<open_attempts, cooldown_seconds>>
  BY <1>1 DEF CooldownByAttempts
<1>2. CASE ProbeSucceeds
  <2>1. CASE LeavesHalfOpen(cur)
    <3>1. /\ open_attempts' = [open_attempts EXCEPT ![cur] = 0]
          /\ cooldown_seconds' = [cooldown_seconds EXCEPT ![cur] = BaseCooldown]
      BY <1>2, <2>1 DEF ProbeSucceeds, AttemptsReset
    <3> QED BY <3>1 DEF CooldownByAttempts
  <2>2. CASE ~LeavesHalfOpen(cur)
    BY <1>1, <1>2, <2>2 DEF ProbeSucceeds
  <2> QED BY <2>1, <2>2
<1>3. CASE ProbeFails
  <2>1. CASE Trips(cur)
    <3> DEFINE n == open_attempts[cur] + 1
    <3>1. /\ open_attempts' = [open_attempts EXCEPT ![cur] = n]
          /\ cooldown_seconds' = [cooldown_seconds EXCEPT ![cur] = NextCooldown(n)]
      BY <1>3, <2>1 DEF ProbeFails
    <3>2. cur \in Sites
      BY <1>3 DEF ProbeFails, ProbeIsAllowed
    <3>3. n \in Nat /\ n > 0
      BY <3>2, BoundAssumption
    <3>4. n <= IntBits - 5 =>
            NextCooldown(n) = LesserOf(MaxCooldown, BaseCooldown * 2^n)
      BY <3>3, CooldownFits, WidthAssumption
    <3> HIDE DEF n
    <3> QED BY <3>1, <3>2, <3>3, <3>4 DEF CooldownByAttempts
  <2>2. CASE ~Trips(cur)
    BY <1>1, <1>3, <2>2 DEF ProbeFails
  <2> QED BY <2>1, <2>2
<1>4. CASE Main \/ Tick
  BY <1>1, <1>4
     DEF Main, AddSite, Start, LoadThrows, Stop, Join, Tick, sitevars
<1>5. CASE \/ BeginSweep \/ EndSweep \/ Wake
           \/ SkipOpen \/ SkipEarly \/ BeginProbe \/ ProbeThrows
  BY <1>1, <1>5
     DEF BeginSweep, EndSweep, Wake, SkipOpen, SkipEarly, BeginProbe,
         ProbeThrows, sitevars
<1>6. CASE UNCHANGED vars
  BY <1>1, <1>6 DEF vars, sitevars
<1> QED
  BY <1>2, <1>3, <1>4, <1>5, <1>6 DEF Next, Scheduler

LEMMA CooldownByAttemptsInit == Init => CooldownByAttempts
BY DEF Init, CooldownByAttempts

(* Until the overflow, the cooldown stays between the base and the cap.    *)
THEOREM CooldownRange == Spec => []CooldownInRangeUntilOverflow
<1>1. TypeInv /\ CooldownByAttempts => CooldownInRangeUntilOverflow
  <2> SUFFICES ASSUME TypeInv, CooldownByAttempts,
                      NEW s \in Sites, open_attempts[s] <= IntBits - 5
               PROVE  cooldown_seconds[s] \in BaseCooldown..MaxCooldown
    BY DEF CooldownInRangeUntilOverflow
  <2> DEFINE n == open_attempts[s]
             p == 2^n
  <2>1. n \in 0..(IntBits - 5)
    BY BoundAssumption, WidthAssumption DEF TypeInv, TypeOK
  <2>2. p \in Nat /\ p >= 1
    BY <2>1, CooldownFits
  <2>3. cooldown_seconds[s] =
          IF n = 0 THEN BaseCooldown ELSE LesserOf(MaxCooldown, BaseCooldown * p)
    BY DEF CooldownByAttempts
  <2> HIDE DEF n, p
  <2>4. BaseCooldown * p \in Nat /\ BaseCooldown * p >= BaseCooldown
    BY <2>2, CooldownAssumption
  <2> QED BY <2>3, <2>4, CooldownAssumption DEF LesserOf
<1> QED
  BY <1>1, TypeInvInit, TypeInvStep, CooldownByAttemptsInit,
     CooldownByAttemptsStep, PTL DEF Spec

(* Until the overflow, the backoff never shrinks within an outage.         *)
THEOREM BackoffMonotone == Spec => BackoffGrows
<1> DEFINE Grows ==
      \A s \in Sites :
        (open_attempts'[s] > open_attempts[s] /\ open_attempts'[s] <= IntBits - 5)
          => cooldown_seconds'[s] >= cooldown_seconds[s]
<1>1. TypeInv /\ CooldownByAttempts /\ CooldownByAttempts' /\ [Next]_vars
        => [Grows]_vars
  <2> SUFFICES ASSUME TypeInv, TypeInv', CooldownByAttempts, CooldownByAttempts',
                      NEW s \in Sites,
                      open_attempts'[s] > open_attempts[s],
                      open_attempts'[s] <= IntBits - 5
               PROVE  cooldown_seconds'[s] >= cooldown_seconds[s]
    BY TypeInvStep
  <2> DEFINE m == open_attempts[s]
             n == open_attempts'[s]
             p == 2^m
             q == 2^n
  <2>1. /\ m \in 0..(IntBits - 5) /\ n \in 0..(IntBits - 5)
        /\ m < n
    BY BoundAssumption, WidthAssumption DEF TypeInv, TypeOK
  <2>2. /\ p \in Nat /\ q \in Nat
        /\ p <= q /\ q >= 1
    <3>1. /\ m \in 0..IntBits /\ n \in 0..IntBits
          /\ m <= n
      BY <2>1, WidthAssumption
    <3> HIDE DEF m, n
    <3> QED BY <3>1, WidthAssumption
  <2>3. /\ cooldown_seconds[s] =
             IF m = 0 THEN BaseCooldown ELSE LesserOf(MaxCooldown, BaseCooldown * p)
        /\ cooldown_seconds'[s] = LesserOf(MaxCooldown, BaseCooldown * q)
    BY <2>1 DEF CooldownByAttempts
  <2> HIDE DEF m, n, p, q
  <2>4. \A b \in 1..15, x, y \in Nat : x <= y => b * x <= b * y
    OBVIOUS
  <2>5. \A b \in 1..15, y \in Nat : y >= 1 => b <= b * y
    OBVIOUS
  <2>6. /\ BaseCooldown * p \in Nat /\ BaseCooldown * q \in Nat
        /\ BaseCooldown * p <= BaseCooldown * q
        /\ BaseCooldown <= BaseCooldown * q
    BY <2>2, <2>4, <2>5, CooldownAssumption
  <2> QED BY <2>3, <2>6, CooldownAssumption DEF LesserOf
<1> QED
  BY <1>1, TypeInvInit, TypeInvStep, CooldownByAttemptsInit,
     CooldownByAttemptsStep, PTL DEF Spec, BackoffGrows
=============================================================================
