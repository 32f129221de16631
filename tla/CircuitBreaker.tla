--------------------------- MODULE CircuitBreaker ---------------------------
(***************************************************************************)
(* What the per-site circuit breaker of the monitor promises, without      *)
(* threads, time or the scheduler: a site's breaker is decided by one      *)
(* number, the length of its current run of failed checks.  Every third    *)
(* failure of a run opens the breaker, an open breaker lets nothing        *)
(* through until it is half open, and a single success ends the run and    *)
(* closes the breaker whatever it was.                                     *)
(*                                                                         *)
(* Module Monitor implements this specification with `streak' being the    *)
(* counter that module Metrics reports the health of a site from.          *)
(***************************************************************************)
EXTENDS Integers

CONSTANTS Sites,    \* the monitored sites
          TripEvery \* consecutive failures that open the breaker

BreakerState == {"CLOSED", "OPEN", "HALF_OPEN"}

VARIABLES state,    \* state[s]: the breaker of site s
          streak    \* streak[s]: failed checks since the last success of s

cbvars == <<state, streak>>

Init ==
  /\ state  = [s \in Sites |-> "CLOSED"]
  /\ streak = [s \in Sites |-> 0]

(* A check of s succeeds: the run of failures is over. *)
Succeed(s) ==
  /\ state[s] # "OPEN"
  /\ state'  = [state EXCEPT ![s] = "CLOSED"]
  /\ streak' = [streak EXCEPT ![s] = 0]

(* A check of s fails: the run grows, every TripEvery-th failure opens. *)
Fail(s) ==
  /\ state[s] # "OPEN"
  /\ streak' = [streak EXCEPT ![s] = @ + 1]
  /\ state'  = [state EXCEPT ![s] =
                  IF (streak[s] + 1) % TripEvery = 0 THEN "OPEN" ELSE @]

(* An open breaker starts to let checks through again. *)
TryAgain(s) ==
  /\ state[s] = "OPEN"
  /\ state' = [state EXCEPT ![s] = "HALF_OPEN"]
  /\ UNCHANGED streak

Next == \E s \in Sites : Succeed(s) \/ Fail(s) \/ TryAgain(s)

Spec == Init /\ [][Next]_cbvars
=============================================================================
