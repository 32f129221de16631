----------------------------- MODULE RateControl -----------------------------
(***************************************************************************)
(* What the handler of src/src/main.cpp does to slow an address down:      *)
(* IPTracker counts its requests in windows of a second, ThreatDetector    *)
(* and the handler compare the count with two thresholds, and IPBlacklist  *)
(* keeps it from connecting for ten seconds.                               *)
(*                                                                         *)
(* One thread runs the handler, so calls do not interleave with each       *)
(* other, but each reads the clock for itself: time may pass, and a window *)
(* end, between any two of them.  A time_point is kept as its age in       *)
(* ticks, saturated above what it is compared with.  A connection is only  *)
(* its address, while its request is to come; it carries one               *)
(* (conn.keep_alive is false).                                             *)
(*                                                                         *)
(* The Bug operators are plausible mistakes in the definition after them.  *)
(* No action uses one; the mutants of PROJECT.json put them in its place.  *)
(***************************************************************************)
EXTENDS Naturals, Sequences, FiniteSets, Ages

CONSTANTS
  Ips,
  Fds,                   \* the descriptors accept returns
  Nobody,                \* the peer of a descriptor that is not in use
  MAX_REQUESTS_PER_SEC,  \* 50, main.cpp
  RATE_THRESHOLD,        \* 100, ThreatDetector.hpp
  MAX_CONNECTIONS,
  WindowTicks,           \* the ticks of the clock in a second
  BlockTicks             \* and in ten seconds

ASSUME RateAssumption ==
  /\ MAX_REQUESTS_PER_SEC \in Nat
  /\ RATE_THRESHOLD \in Nat /\ MAX_REQUESTS_PER_SEC <= RATE_THRESHOLD
  /\ MAX_CONNECTIONS \in Nat
  /\ WindowTicks \in Nat \ {0} /\ BlockTicks \in Nat /\ WindowTicks <= BlockTicks
  /\ Nobody \notin Ips /\ IsFiniteSet(Fds)

VARIABLES
  pc,                    \* "idle", or the call the handler makes next
  cur,                   \* for the request of this address
  window_age, requests_this_window,   \* PerIPStats
  blocked_ips,           \* the keys of IPBlacklist's map ...
  block_age,             \* ... and how long ago they were put there
  client_ip,             \* per descriptor: the address of its Connection
  \* history, per address
  recent,                \* ages of the requests served in the last second
  verdict,               \* what became of the last request
  told                   \* answers 429 since its window began

handler == <<pc, cur>>
tracker == <<window_age, requests_this_window>>
blacklist == <<blocked_ips, block_age>>
history == <<recent, verdict, told>>
vars == <<handler, tracker, blacklist, client_ip, history>>

Init ==
  /\ pc = "idle" /\ cur \in Ips
  /\ window_age = [ip \in Ips |-> WindowTicks]
  /\ requests_this_window = [ip \in Ips |-> 0]
  /\ blocked_ips = {} /\ block_age = [ip \in Ips |-> 0]
  /\ client_ip = [fd \in Fds |-> Nobody]
  /\ recent = [ip \in Ips |-> <<>>]
  /\ verdict = [ip \in Ips |-> "none"]
  /\ told = [ip \in Ips |-> 0]
-----------------------------------------------------------------------------
(* Accept: isBlocked.                                                      *)

BugNeverExpires(ip) == ip \in blocked_ips
IsBlocked(ip) == ip \in blocked_ips /\ block_age[ip] <= BlockTicks

ConnectionsOf(ip) == {fd \in Fds : client_ip[fd] = ip}
Connected == {fd \in Fds : client_ip[fd] # Nobody}

(* 503 before the blacklist is asked, 403 if it says so; otherwise the     *)
(* connection is added, and an entry that is over was erased by asking.    *)
Accept(ip) ==
  /\ pc = "idle"
  /\ IF Cardinality(Connected) >= MAX_CONNECTIONS \/ IsBlocked(ip)
     THEN UNCHANGED <<blocked_ips, client_ip>>
     ELSE /\ blocked_ips' = blocked_ips \ {ip}
          /\ \E fd \in Fds \ Connected : client_ip' = [client_ip EXCEPT ![fd] = ip]
  /\ UNCHANGED <<handler, tracker, block_age, history>>

Remove(ip) == \E fd \in ConnectionsOf(ip) : client_ip' = [client_ip EXCEPT ![fd] = Nobody]

(* A connection ends without a request.                                    *)
Leave(ip) ==
  /\ pc = "idle" /\ Remove(ip)
  /\ UNCHANGED <<handler, tracker, blacklist, history>>
-----------------------------------------------------------------------------
(* A complete header has been read.                                        *)

WindowExpired(ip) == window_age[ip] >= WindowTicks

(* A default-constructed window_start is in the past like an expired one;  *)
(* either way the window starts now.                                       *)
BugWindowKept(ip) == window_age
Restarted(ip) == [window_age EXCEPT ![ip] = 0]

recordRequest(ip) ==
  /\ pc = "idle" /\ Remove(ip)
  /\ IF WindowExpired(ip)
     THEN /\ window_age' = Restarted(ip)
          /\ requests_this_window' = [requests_this_window EXCEPT ![ip] = 1]
          /\ told' = [told EXCEPT ![ip] = 0]
     ELSE /\ requests_this_window' = [requests_this_window EXCEPT ![ip] = @ + 1]
          /\ UNCHANGED <<window_age, told>>
  /\ verdict' = [verdict EXCEPT ![ip] = "pending"]
  /\ pc' = "isSuspicious" /\ cur' = ip
  /\ UNCHANGED <<blacklist, recent>>

getCurrentRate(ip) == IF WindowExpired(ip) THEN 0 ELSE requests_this_window[ip]

BugLowThreshold(ip) == getCurrentRate(ip) > MAX_REQUESTS_PER_SEC
Suspicious(ip) == getCurrentRate(ip) > RATE_THRESHOLD

isSuspicious ==
  /\ pc = "isSuspicious"
  /\ pc' = IF Suspicious(cur) THEN "blockIP" ELSE "getCurrentRate"
  /\ UNCHANGED <<cur, tracker, blacklist, client_ip, history>>

BugBlockUnstamped == block_age
BlockStamped == [block_age EXCEPT ![cur] = 0]

blockIP ==
  /\ pc = "blockIP"
  /\ blocked_ips' = blocked_ips \cup {cur}
  /\ block_age' = BlockStamped
  /\ pc' = "getCurrentRate"
  /\ UNCHANGED <<cur, tracker, client_ip, history>>

OverLimit(ip) == getCurrentRate(ip) > MAX_REQUESTS_PER_SEC

(* 429, and the connection is closed.                                      *)
TooManyRequests ==
  /\ pc = "getCurrentRate" /\ OverLimit(cur)
  /\ told' = [told EXCEPT ![cur] = @ + 1]
  /\ verdict' = [verdict EXCEPT ![cur] = "refused"]
  /\ pc' = "idle"
  /\ UNCHANGED <<cur, tracker, blacklist, client_ip, recent>>

Respond ==
  /\ pc = "getCurrentRate" /\ ~OverLimit(cur)
  /\ recent' = [recent EXCEPT ![cur] = Append(@, 0)]
  /\ verdict' = [verdict EXCEPT ![cur] = "granted"]
  /\ pc' = "idle"
  /\ UNCHANGED <<cur, tracker, blacklist, client_ip, told>>

(* A tick of the clock; external, std::chrono::steady_clock.               *)
Aged(age, most) == IF age < most THEN age + 1 ELSE age

Tick ==
  /\ window_age' = [ip \in Ips |-> Aged(window_age[ip], WindowTicks)]
  /\ block_age' = [ip \in Ips |-> Aged(block_age[ip], BlockTicks + 1)]
  /\ recent' = [ip \in Ips |-> Within(Older(recent[ip]), WindowTicks)]
  /\ UNCHANGED <<handler, requests_this_window, blocked_ips, client_ip, verdict, told>>

Handler == isSuspicious \/ blockIP \/ TooManyRequests \/ Respond

Next ==
  \/ Handler \/ Tick
  \/ \E ip \in Ips : Accept(ip) \/ Leave(ip) \/ recordRequest(ip)

Spec == Init /\ [][Next]_vars

(* The handler gets on with a request, and time passes.  Nobody has to     *)
(* connect, or to send anything.                                           *)
FairSpec == Spec /\ WF_vars(Handler) /\ WF_vars(Tick)
-----------------------------------------------------------------------------
(* What MAX_REQUESTS_PER_SEC (main.cpp:26) amounts to.  The windows are    *)
(* fixed, and a window may end between recordRequest and getCurrentRate,   *)
(* which then sees rate 0: in one second an address can be served twice    *)
(* the limit and one more, but never beyond, and it is refused only after  *)
(* the limit was served.                                                   *)
Quota == INSTANCE Quota WITH
  Callers <- Ips,
  Least   <- [ip \in Ips |-> MAX_REQUESTS_PER_SEC],
  Most    <- [ip \in Ips |-> 2 * MAX_REQUESTS_PER_SEC + 1],
  Window  <- WindowTicks

ImplementsQuota == Quota!Spec

(* The blacklist does not touch connections that are already open          *)
(* (main.cpp:137 is on the way of new ones only), so a flood goes on after *)
(* the address is blocked, but only by as many requests as it has          *)
(* connections left.                                                       *)
FloodIsBounded ==
  \A ip \in Ips : requests_this_window[ip] <= RATE_THRESHOLD + MAX_CONNECTIONS

(* Two thresholds in two files (main.cpp:26, ThreatDetector.hpp): nobody   *)
(* is blocked who was not told 429 for every request between the two.      *)
WarnedBeforeBlocked ==
  pc = "blockIP" => told[cur] >= RATE_THRESHOLD - MAX_REQUESTS_PER_SEC

(* "for 10 seconds" (main.cpp:216): whatever a blocked address does, it is *)
(* let in again.                                                           *)
BlockEnds == \A ip \in Ips : (ip \in blocked_ips) ~> ~IsBlocked(ip)
=============================================================================
