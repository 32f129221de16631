------------------------ MODULE SlidingWindowLimiter ------------------------
(***************************************************************************)
(* src/src/security/sliding_window_limiter: the log of the requests that   *)
(* were allowed, per address, and the decision about the next one.         *)
(*                                                                         *)
(* A key is an address at one limiter object, so that maxRequests, which   *)
(* the constructor takes, is a function of the key.  A logged time is kept *)
(* as its age, which saturates once it is older than the window.           *)
(*                                                                         *)
(* The Bug operators are plausible mistakes in the definition after them.  *)
(* No action uses one; the mutants of PROJECT.json put them in its place.  *)
(***************************************************************************)
EXTENDS Integers, Ages

CONSTANTS Keys,
          maxRequests,  \* per key, an int
          windowMs,
          SizeValues    \* the values of a size_t, 2^64 in the build

ASSUME LimiterAssumption ==
  /\ maxRequests \in [Keys -> Int]
  /\ windowMs \in Nat
  /\ SizeValues \in Nat \ {0}

VARIABLES requestLog,   \* per key: the ages of its entries, front first
          verdict       \* per key: "pending" while a caller asks

vars == <<requestLog, verdict>>

BugExpiredAtWindow(age) == age >= windowMs
Expired(age) == age > windowMs

(* dq.size() >= maxRequests compares in size_t: a negative int wraps.      *)
AsSize(n) == n % SizeValues
BugOneMore(k, dq) == Len(dq) > AsSize(maxRequests[k])
Full(k, dq) == Len(dq) >= AsSize(maxRequests[k])

(* The loop that pops the front while it has expired.                      *)
Pruned(dq) ==
  LET first == CHOOSE i \in 1..(Len(dq) + 1) :
                 /\ \A j \in 1..(i - 1) : Expired(dq[j])
                 /\ i <= Len(dq) => ~Expired(dq[i])
  IN  SubSeq(dq, first, Len(dq))

Init ==
  /\ requestLog = [k \in Keys |-> <<>>]
  /\ verdict = [k \in Keys |-> "none"]

(* Somebody is about to call allowRequest.                                 *)
Ask(k) ==
  /\ verdict[k] # "pending"
  /\ verdict' = [verdict EXCEPT ![k] = "pending"]
  /\ UNCHANGED requestLog

(* allowRequest: prune, then decide by what is left.                       *)
BugLogsRefused(dq) == Append(dq, 0)
LogOfRefused(dq) == dq

allowRequest(k) ==
  /\ verdict[k] = "pending"
  /\ LET dq == Pruned(requestLog[k]) IN
       IF Full(k, dq)
       THEN /\ requestLog' = [requestLog EXCEPT ![k] = LogOfRefused(dq)]
            /\ verdict' = [verdict EXCEPT ![k] = "refused"]
       ELSE /\ requestLog' = [requestLog EXCEPT ![k] = Append(dq, 0)]
            /\ verdict' = [verdict EXCEPT ![k] = "granted"]

(* A millisecond passes; external, std::chrono::steady_clock.              *)
Aged(age) == IF age > windowMs THEN age ELSE age + 1

Tick ==
  /\ requestLog' = [k \in Keys |->
       [i \in DOMAIN requestLog[k] |-> Aged(requestLog[k][i])]]
  /\ UNCHANGED verdict

Next == Tick \/ \E k \in Keys : Ask(k) \/ allowRequest(k)

Spec == Init /\ [][Next]_vars

(* Time passes, calls return, and these callers never stop asking.         *)
Fairness ==
  /\ WF_vars(Tick)
  /\ \A k \in Keys : WF_vars(Ask(k)) /\ WF_vars(allowRequest(k))

FairSpec == Spec /\ Fairness
-----------------------------------------------------------------------------
(* Types; the log is never longer than the limit, so an address costs      *)
(* bounded memory however often it is refused.                             *)
TypeOK ==
  /\ verdict \in [Keys -> {"none", "pending", "granted", "refused"}]
  /\ \A k \in Keys :
       /\ requestLog[k] \in Seq(0..(windowMs + 1))
       /\ Len(requestLog[k]) <= AsSize(maxRequests[k])

(* The limiter keeps exactly its quota: in any windowMs, the requests it   *)
(* grants are at most maxRequests, and it refuses none before (:19-29).    *)
(* That only the front is tested for expiry is enough for it.              *)
Quota == INSTANCE Quota WITH
  Callers <- Keys,
  Least   <- [k \in Keys |-> AsSize(maxRequests[k])],
  Most    <- [k \in Keys |-> AsSize(maxRequests[k])],
  Window  <- windowMs + 1,
  recent  <- [k \in Keys |-> Within(requestLog[k], windowMs + 1)]

ImplementsQuota == Quota!Spec

(* Being refused does not count: a caller that never stops asking is       *)
(* granted again and again, unless its limit is zero.                      *)
NoStarvation ==
  \A k \in Keys : maxRequests[k] # 0 => []<>(verdict[k] = "granted")
=============================================================================
