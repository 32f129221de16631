-------------------------- MODULE RateControlProofs --------------------------
(***************************************************************************)
(* Proofs about RateControl, for any addresses, descriptors, thresholds,   *)
(* window and block: nobody is blocked unwarned, the fixed windows keep a  *)
(* quota, and a block bounds what a flood still gets through.              *)
(***************************************************************************)
EXTENDS RateControl, AgesProofs

(* Types of the tracker, the blacklist and the counted answers.            *)
Types ==
  /\ pc \in {"idle", "isSuspicious", "blockIP", "getCurrentRate"}
  /\ cur \in Ips
  /\ window_age \in [Ips -> 0..WindowTicks]
  /\ requests_this_window \in [Ips -> Nat]
  /\ blocked_ips \subseteq Ips
  /\ block_age \in [Ips -> 0..(BlockTicks + 1)]
  /\ told \in [Ips -> Nat]
  /\ client_ip \in [Fds -> Ips \cup {Nobody}]

(* The request of ip that the handler has recorded and not answered.       *)
InHand(ip) == IF pc # "idle" /\ cur = ip THEN 1 ELSE 0

(* In a window that has not ended, each request recorded is within the     *)
(* limit, in hand, or was answered 429.                                    *)
Accounted ==
  \A ip \in Ips :
    window_age[ip] < WindowTicks =>
      requests_this_window[ip] <= MAX_REQUESTS_PER_SEC + told[ip] + InHand(ip)

IInv == Types /\ Accounted /\ WarnedBeforeBlocked

LEMMA AgedType ==
  ASSUME NEW most \in Nat, NEW age \in 0..most
  PROVE  Aged(age, most) \in 0..most /\ Aged(age, most) >= age
BY DEF Aged

LEMMA InitInvariant == Init => IInv
BY RateAssumption DEF Init, IInv, Types, Accounted, WarnedBeforeBlocked, InHand

(* Each step keeps the types.                                              *)
LEMMA TypesStep == Types /\ [Next]_vars => Types'
<1> SUFFICES ASSUME Types, [Next]_vars PROVE Types'
    OBVIOUS
<1> USE RateAssumption DEF Types
<1>1. ASSUME NEW ip \in Ips, Accept(ip) PROVE Types'
      BY <1>1 DEF Accept, handler, tracker, history
<1>2. ASSUME NEW ip \in Ips, Leave(ip) PROVE Types'
      BY <1>2 DEF Leave, Remove, ConnectionsOf, handler, tracker, blacklist, history
<1>3. ASSUME NEW ip \in Ips, recordRequest(ip) PROVE Types'
      BY <1>3 DEF recordRequest, Remove, ConnectionsOf, Restarted, blacklist
<1>4. CASE isSuspicious
      BY <1>4 DEF isSuspicious, tracker, blacklist, history
<1>5. CASE blockIP
      BY <1>5 DEF blockIP, BlockStamped, tracker, history
<1>6. CASE TooManyRequests
      BY <1>6 DEF TooManyRequests, tracker, blacklist
<1>7. CASE Respond
      BY <1>7 DEF Respond, tracker, blacklist
<1>8. CASE Tick
  <2>1. window_age' \in [Ips -> 0..WindowTicks]
        BY <1>8, AgedType DEF Tick
  <2>2. block_age' \in [Ips -> 0..(BlockTicks + 1)]
        BY <1>8, AgedType, BlockTicks + 1 \in Nat DEF Tick
  <2> QED BY <1>8, <2>1, <2>2 DEF Tick, handler
<1>9. CASE UNCHANGED vars
      BY <1>9 DEF vars, handler, tracker, blacklist, history
<1> QED BY <1>1, <1>2, <1>3, <1>4, <1>5, <1>6, <1>7, <1>8, <1>9
        DEF Next, Handler

(* Each step keeps the account of a window.  Time only ends windows, and a *)
(* window that ended is accounted for from its next request on.            *)
LEMMA AccountedStep == Types /\ Accounted /\ [Next]_vars => Accounted'
<1> SUFFICES ASSUME Types, Accounted, [Next]_vars, NEW ip \in Ips,
                    window_age'[ip] < WindowTicks
             PROVE  (requests_this_window[ip]
                       <= MAX_REQUESTS_PER_SEC + told[ip] + InHand(ip))'
    BY DEF Accounted
<1> USE RateAssumption DEF Types, Accounted, InHand
<1>1. ASSUME NEW i \in Ips, Accept(i) \/ Leave(i) PROVE (requests_this_window[ip]
                       <= MAX_REQUESTS_PER_SEC + told[ip] + InHand(ip))'
      BY <1>1 DEF Accept, Leave, handler, tracker, history
<1>2. ASSUME NEW i \in Ips, recordRequest(i) PROVE (requests_this_window[ip]
                       <= MAX_REQUESTS_PER_SEC + told[ip] + InHand(ip))'
  <2>1. CASE i = ip /\ WindowExpired(ip)
        BY <1>2, <2>1 DEF recordRequest
  <2>2. CASE i = ip /\ ~WindowExpired(ip)
        BY <1>2, <2>2 DEF recordRequest, WindowExpired
  <2>3. CASE i # ip
        BY <1>2, <2>3 DEF recordRequest, Restarted
  <2> QED BY <2>1, <2>2, <2>3
<1>3. CASE isSuspicious \/ blockIP
      BY <1>3 DEF isSuspicious, blockIP, tracker, history
<1>4. CASE TooManyRequests
      BY <1>4 DEF TooManyRequests, tracker
<1>5. CASE Respond
  <2>1. CASE cur = ip
        BY <1>5, <2>1 DEF Respond, OverLimit, getCurrentRate, WindowExpired, tracker
  <2>2. CASE cur # ip
        BY <1>5, <2>2 DEF Respond, tracker
  <2> QED BY <2>1, <2>2
<1>6. CASE Tick
      BY <1>6, AgedType DEF Tick, handler
<1>7. CASE UNCHANGED vars
      BY <1>7 DEF vars, handler, tracker, history
<1> QED BY <1>1, <1>2, <1>3, <1>4, <1>5, <1>6, <1>7 DEF Next, Handler

(* The block is decided from a count of an open window, and nothing but    *)
(* the handler changes what was told.                                      *)
LEMMA WarnedStep == IInv /\ [Next]_vars => WarnedBeforeBlocked'
<1> SUFFICES ASSUME IInv, [Next]_vars, pc' = "blockIP"
             PROVE  told'[cur'] >= RATE_THRESHOLD - MAX_REQUESTS_PER_SEC
    BY DEF WarnedBeforeBlocked
<1> USE RateAssumption DEF IInv, Types
<1>1. CASE isSuspicious
  <2>1. requests_this_window[cur] > RATE_THRESHOLD /\ window_age[cur] < WindowTicks
        BY <1>1 DEF isSuspicious, Suspicious, getCurrentRate, WindowExpired
  <2>2. requests_this_window[cur] <= MAX_REQUESTS_PER_SEC + told[cur] + 1
        BY <1>1, <2>1 DEF Accounted, InHand, isSuspicious
  <2> QED BY <1>1, <2>1, <2>2 DEF isSuspicious, history
<1>2. CASE Tick
      BY <1>2 DEF Tick, WarnedBeforeBlocked, handler
<1>3. CASE UNCHANGED vars
      BY <1>3 DEF vars, handler, history, WarnedBeforeBlocked
<1>4. CASE blockIP \/ TooManyRequests \/ Respond
      BY <1>4 DEF blockIP, TooManyRequests, Respond
<1>5. ASSUME NEW ip \in Ips, Accept(ip) \/ Leave(ip) \/ recordRequest(ip)
      PROVE  FALSE
      BY <1>5 DEF Accept, Leave, recordRequest, handler
<1> QED BY <1>1, <1>2, <1>3, <1>4, <1>5 DEF Next, Handler

(* Nobody is blocked who was not told 429 for every request between the    *)
(* limit of main.cpp:26 and the threshold of ThreatDetector.hpp, however   *)
(* the clock runs between the calls of the handler (main.cpp:211-220).     *)
THEOREM NobodyBlockedUnwarned == Spec => []WarnedBeforeBlocked
<1>1. IInv /\ [Next]_vars => IInv'
      BY TypesStep, AccountedStep, WarnedStep DEF IInv
<1>2. IInv => WarnedBeforeBlocked
      BY DEF IInv
<1> QED BY InitInvariant, <1>1, <1>2, PTL DEF Spec
-----------------------------------------------------------------------------
(* RateControl implements Quota.                                           *)

(* The requests served in the last second are the first p of l, from       *)
(* before the window of age began, and those of the window, which are      *)
(* among the r that were counted in it, one less if one is in hand (h).    *)
(* As many as the limit were served before and one that found its window   *)
(* over; while the window is open nothing of it is a second old, and what  *)
(* was counted and is not in hand was served unless the limit was.         *)
Split(l, age, r, h, p) ==
  /\ p \in 0..Len(l) /\ p <= MAX_REQUESTS_PER_SEC + 1
  /\ \A i \in 1..p : l[i] >= age
  /\ \A i \in (p + 1)..Len(l) : l[i] <= age
  /\ Len(l) - p + h <= r
  /\ Len(l) - p + h <= MAX_REQUESTS_PER_SEC + 1
  /\ age < WindowTicks =>
       /\ Len(l) - p <= MAX_REQUESTS_PER_SEC
       /\ Len(l) - p = MAX_REQUESTS_PER_SEC \/ Len(l) - p + h = r

Second(l) == l \in Seq(Nat) /\ Sorted(l) /\ \A i \in DOMAIN l : l[i] < WindowTicks

Served ==
  /\ recent \in [Ips -> Seq(Nat)]
  /\ verdict \in [Ips -> {"none", "pending", "granted", "refused"}]
  /\ \A ip \in Ips :
       /\ Second(recent[ip])
       /\ \E p : Split(recent[ip], window_age[ip], requests_this_window[ip], InHand(ip), p)
       /\ verdict[ip] = "pending" <=> InHand(ip) = 1

LEMMA SecondFacts ==
  ASSUME NEW l, Second(l)
  PROVE  /\ l \in Seq(Nat) /\ Len(l) \in Nat /\ DOMAIN l = 1..Len(l)
         /\ \A i \in 1..Len(l) : l[i] \in Nat /\ l[i] < WindowTicks
BY LenProperties DEF Second

(* A window ends, and everything of the last second is from before.        *)
LEMMA SplitRestart ==
  ASSUME NEW l, Second(l), NEW r \in Nat, NEW p, Split(l, WindowTicks, r, 0, p)
  PROVE  Split(l, 0, 1, 1, Len(l))
<1>1. /\ Len(l) \in Nat /\ \A i \in 1..Len(l) : l[i] \in Nat /\ l[i] < WindowTicks
      /\ WindowTicks \in Nat /\ MAX_REQUESTS_PER_SEC \in Nat
      BY SecondFacts, RateAssumption
<1>2. /\ p \in 0..Len(l) /\ \A i \in 1..p : l[i] >= WindowTicks
      /\ Len(l) - p + 0 <= MAX_REQUESTS_PER_SEC + 1
      BY DEF Split
<1>3. p = 0
  <2>1. CASE p # 0
    <3>1. 1 \in 1..p /\ 1 \in 1..Len(l)
          BY <1>1, <1>2, <2>1
    <3> QED BY <1>1, <1>2, <3>1
  <2> QED BY <2>1
<1>4. Len(l) <= MAX_REQUESTS_PER_SEC + 1
      BY <1>1, <1>2, <1>3
<1> QED BY <1>1, <1>4 DEF Split

LEMMA SplitRecord ==
  ASSUME NEW l, Second(l), NEW age \in 0..WindowTicks, age < WindowTicks,
         NEW r \in Nat, NEW p, Split(l, age, r, 0, p)
  PROVE  Split(l, age, r + 1, 1, p)
BY SecondFacts, RateAssumption DEF Split

LEMMA SplitGrant ==
  ASSUME NEW l, Second(l), NEW age \in 0..WindowTicks, NEW r \in Nat, NEW p,
         Split(l, age, r, 1, p), age < WindowTicks => r <= MAX_REQUESTS_PER_SEC
  PROVE  /\ Len(l) < 2 * MAX_REQUESTS_PER_SEC + 1
         /\ Second(Append(l, 0)) /\ Split(Append(l, 0), age, r, 0, p)
<1> DEFINE a == Append(l, 0)
<1>0. Sorted(l)
      BY DEF Second
<1>1. /\ l \in Seq(Nat) /\ Len(l) \in Nat /\ DOMAIN l = 1..Len(l)
      /\ \A i \in 1..Len(l) : l[i] \in Nat /\ l[i] < WindowTicks
      BY SecondFacts
<1>2. /\ a \in Seq(Nat) /\ Sorted(a) /\ Len(a) = Len(l) + 1
      /\ \A i \in 1..Len(l) : a[i] = l[i]
      /\ a[Len(l) + 1] = 0
      BY <1>0, <1>1, AppendSorted
<1>3. DOMAIN a = 1..Len(a)
      BY <1>2, LenProperties
<1> HIDE DEF a
<1>4. Second(a)
      BY <1>1, <1>2, <1>3, RateAssumption DEF Second
<1>5. Split(a, age, r, 0, p)
  <2>0. /\ p \in 0..Len(l) /\ p <= MAX_REQUESTS_PER_SEC + 1
        /\ Len(l) - p + 1 <= r
        /\ Len(l) - p + 1 <= MAX_REQUESTS_PER_SEC + 1
        /\ age < WindowTicks => Len(l) - p + 1 = r
    <3>1. /\ p \in 0..Len(l) /\ p <= MAX_REQUESTS_PER_SEC + 1
          /\ Len(l) - p + 1 <= r
          /\ Len(l) - p + 1 <= MAX_REQUESTS_PER_SEC + 1
          /\ age < WindowTicks =>
                Len(l) - p = MAX_REQUESTS_PER_SEC \/ Len(l) - p + 1 = r
          BY DEF Split
    <3>2. Len(l) \in Nat /\ MAX_REQUESTS_PER_SEC \in Nat
          BY <1>1, RateAssumption
    <3>3. age < WindowTicks => ~(Len(l) - p = MAX_REQUESTS_PER_SEC)
          BY <3>1, <3>2
    <3> QED BY <3>1, <3>3
  <2>1. /\ p \in 0..Len(l)
        /\ \A i \in 1..p : l[i] >= age
        /\ \A i \in (p + 1)..Len(l) : l[i] <= age
        BY DEF Split
  <2>2. \A i \in 1..p : a[i] >= age
        BY <1>1, <1>2, <2>1
  <2>3. ASSUME NEW i \in (p + 1)..Len(a) PROVE a[i] <= age
    <3>1. CASE i = Len(l) + 1
          BY <1>2, <3>1
    <3>2. CASE i # Len(l) + 1
      <4>1. i \in (p + 1)..Len(l) /\ i \in 1..Len(l)
            BY <1>1, <1>2, <2>1, <3>2
      <4> QED BY <1>2, <2>1, <4>1
    <3> QED BY <3>1, <3>2
  <2>6. Len(a) = Len(l) + 1 /\ Len(l) \in Nat /\ MAX_REQUESTS_PER_SEC \in Nat
        BY <1>1, <1>2, RateAssumption
  <2>4. /\ p \in 0..Len(a) /\ Len(a) - p + 0 <= r
        /\ Len(a) - p + 0 <= MAX_REQUESTS_PER_SEC + 1
        BY <2>0, <2>6
  <2>5. ASSUME age < WindowTicks
        PROVE  Len(a) - p <= MAX_REQUESTS_PER_SEC /\ Len(a) - p + 0 = r
        BY <2>0, <2>5, <2>6
  <2> QED BY <2>0, <2>2, <2>3, <2>4, <2>5 DEF Split
<1>6. Len(l) < 2 * MAX_REQUESTS_PER_SEC + 1
  <2>0. /\ p \in 0..Len(l) /\ p <= MAX_REQUESTS_PER_SEC + 1
        /\ Len(l) - p + 1 <= r
        /\ Len(l) - p + 1 <= MAX_REQUESTS_PER_SEC + 1
        BY DEF Split
  <2>1. CASE age < WindowTicks
        BY <1>1, <2>0, <2>1, RateAssumption
  <2>2. CASE ~(age < WindowTicks)
    <3>1. \A i \in 1..p : l[i] >= age
          BY DEF Split
    <3>2. CASE p # 0
      <4>1. 1 \in 1..p /\ 1 \in 1..Len(l)
            BY <1>1, <2>0, <3>2
      <4> QED BY <1>1, <2>2, <3>1, <4>1, RateAssumption
    <3> QED BY <1>1, <2>0, <3>2, RateAssumption
  <2> QED BY <2>1, <2>2
<1> QED BY <1>4, <1>5, <1>6 DEF a

LEMMA SplitRefuse ==
  ASSUME NEW l, Second(l), NEW age \in 0..WindowTicks, age < WindowTicks,
         NEW r \in Nat, r > MAX_REQUESTS_PER_SEC, NEW p, Split(l, age, r, 1, p)
  PROVE  Len(l) >= MAX_REQUESTS_PER_SEC /\ Split(l, age, r, 0, p)
BY SecondFacts, RateAssumption DEF Split

(* Time passes.  While the window is open only what is from before falls   *)
(* out of the last second, and when it ends all of that has.               *)
LEMMA SplitTick ==
  ASSUME NEW l, Second(l), NEW age \in 0..WindowTicks, NEW r \in Nat,
         NEW h \in {0, 1}, NEW p, Split(l, age, r, h, p)
  PROVE  LET m == Within(Older(l), WindowTicks) IN
         Second(m) /\ \E q : Split(m, Aged(age, WindowTicks), r, h, q)
<1> DEFINE o == Older(l)
           m == Within(o, WindowTicks)
           next == Aged(age, WindowTicks)
<1>0. Sorted(l) /\ WindowTicks \in Nat /\ MAX_REQUESTS_PER_SEC \in Nat
      BY RateAssumption DEF Second
<1>1. /\ l \in Seq(Nat) /\ Len(l) \in Nat /\ DOMAIN l = 1..Len(l)
      /\ \A i \in 1..Len(l) : l[i] \in Nat /\ l[i] < WindowTicks
      BY SecondFacts
<1>2. /\ o \in Seq(Nat) /\ Sorted(o) /\ Len(o) = Len(l) /\ DOMAIN o = 1..Len(l)
      /\ \A i \in 1..Len(l) : o[i] = l[i] + 1
      BY <1>0, <1>1, OlderFacts
<1>3. PICK n : Past(o, WindowTicks, n)
      BY <1>0, <1>2, PastExists
<1>4. n \in 0..Len(l) /\ \A i \in 1..Len(l) : i <= n <=> l[i] + 1 >= WindowTicks
      BY <1>2, <1>3 DEF Past
<1>5. /\ m \in Seq(Nat) /\ Len(m) = Len(l) - n
      /\ \A i \in 1..(Len(l) - n) : m[i] = o[n + i]
  <2> HIDE DEF o
  <2>1. /\ Within(o, WindowTicks) \in Seq(Nat)
        /\ Len(Within(o, WindowTicks)) = Len(o) - n
        /\ \A i \in 1..(Len(o) - n) : Within(o, WindowTicks)[i] = o[n + i]
    <3>1. o \in Seq(Nat) /\ WindowTicks \in Nat
          BY <1>0, <1>2
    <3> QED BY <1>3, <3>1, WithinElements
  <2> QED BY <1>2, <2>1
<1> HIDE DEF o
<1>6. Second(m)
      BY <1>0, <1>2, WithinSorted DEF Second
<1>7. /\ p \in 0..Len(l)
      /\ \A i \in 1..p : l[i] >= age
      /\ \A i \in (p + 1)..Len(l) : l[i] <= age
      BY DEF Split
<1>11. /\ p <= MAX_REQUESTS_PER_SEC + 1
       /\ Len(l) - p + h <= r /\ Len(l) - p + h <= MAX_REQUESTS_PER_SEC + 1
       /\ age < WindowTicks =>
            /\ Len(l) - p <= MAX_REQUESTS_PER_SEC
            /\ Len(l) - p = MAX_REQUESTS_PER_SEC \/ Len(l) - p + h = r
      BY DEF Split
<1> HIDE DEF m
<1>8. \A i \in 1..(Len(l) - n) : n + i \in 1..Len(l) /\ m[i] = l[n + i] + 1
      BY <1>1, <1>2, <1>4, <1>5
<1>9. CASE age + 1 < WindowTicks
  <2>0. next = age + 1
        BY <1>0, <1>9 DEF Aged
  <2>1. n <= p
    <3>1. CASE n > p
      <4>1. n \in (p + 1)..Len(l) /\ n \in 1..Len(l)
            BY <1>1, <1>4, <1>7, <3>1
      <4>2. l[n] \in Nat /\ l[n] + 1 >= WindowTicks /\ l[n] <= age
            BY <1>1, <1>4, <1>7, <4>1
      <4> QED BY <1>0, <1>9, <4>2
    <3> QED BY <1>4, <1>7, <3>1
  <2>2. \A i \in 1..(p - n) : m[i] >= age + 1
    <3>1. ASSUME NEW i \in 1..(p - n) PROVE m[i] >= age + 1
      <4>1. i \in 1..(Len(l) - n) /\ n + i \in 1..p /\ n + i \in 1..Len(l)
            BY <1>1, <1>4, <1>7, <2>1
      <4> QED BY <1>1, <1>7, <1>8, <4>1
    <3> QED BY <3>1
  <2>3. \A i \in (p - n + 1)..(Len(l) - n) : m[i] <= age + 1
    <3>1. ASSUME NEW i \in (p - n + 1)..(Len(l) - n) PROVE m[i] <= age + 1
      <4>1. i \in 1..(Len(l) - n) /\ n + i \in (p + 1)..Len(l) /\ n + i \in 1..Len(l)
            BY <1>1, <1>4, <1>7, <2>1
      <4> QED BY <1>1, <1>7, <1>8, <4>1
    <3> QED BY <3>1
  <2>4. /\ p - n \in 0..Len(m) /\ p - n <= MAX_REQUESTS_PER_SEC + 1
        /\ Len(m) - (p - n) = Len(l) - p /\ age < WindowTicks
    <3>1. /\ Len(m) = Len(l) - n /\ Len(l) \in Nat /\ n \in 0..Len(l)
          /\ p \in 0..Len(l)
          BY <1>1, <1>4, <1>5, <1>7
    <3> QED BY <1>0, <1>9, <1>11, <2>1, <3>1
  <2>5. Split(m, age + 1, r, h, p - n)
        BY <1>5, <1>11, <2>2, <2>3, <2>4 DEF Split
  <2> QED BY <1>6, <2>0, <2>5 DEF m, o
<1>10. CASE ~(age + 1 < WindowTicks)
  <2>0. next = WindowTicks
        BY <1>0, <1>10 DEF Aged
  <2>1. p <= n
    <3>1. CASE p > n
      <4>1. p \in 1..p /\ p \in 1..Len(l)
            BY <1>1, <1>4, <1>7, <3>1
      <4>2. l[p] \in Nat /\ ~(l[p] + 1 >= WindowTicks) /\ l[p] >= age
            BY <1>1, <1>4, <1>7, <3>1, <4>1
      <4> QED BY <1>0, <1>10, <4>2
    <3> QED BY <1>4, <1>7, <3>1
  <2>2. \A i \in 1..Len(m) : m[i] <= WindowTicks
    <3>1. ASSUME NEW i \in 1..Len(m) PROVE m[i] <= WindowTicks
      <4>1. i \in 1..(Len(l) - n) /\ n + i \in 1..Len(l)
            BY <1>5, <1>8
      <4> QED BY <1>0, <1>1, <1>8, <4>1
    <3> QED BY <3>1
  <2>3. Len(m) \in Nat /\ Len(m) <= Len(l) - p
        BY <1>1, <1>4, <1>5, <1>7, <2>1
  <2>4. /\ 0 \in 0..Len(m) /\ Len(m) - 0 + h <= r
        /\ Len(m) - 0 + h <= MAX_REQUESTS_PER_SEC + 1
        /\ 0 <= MAX_REQUESTS_PER_SEC + 1 /\ ~(WindowTicks < WindowTicks)
    <3>1. Len(l) \in Nat /\ p \in 0..Len(l)
          BY <1>1, <1>7
    <3> QED BY <1>0, <1>11, <2>3, <3>1
  <2>5. \A i \in 1..0 : m[i] >= WindowTicks
        OBVIOUS
  <2>6. \A i \in (0 + 1)..Len(m) : m[i] <= WindowTicks
        BY <2>2
  <2>7. Split(m, WindowTicks, r, h, 0)
        BY <2>4, <2>5, <2>6 DEF Split
  <2> QED BY <1>6, <2>0, <2>7 DEF m, o
<1> QED BY <1>9, <1>10

LEMMA ServedInit == Init => Served
<1> SUFFICES ASSUME Init PROVE Served
    OBVIOUS
<1>1. <<>> \in Seq(Nat) /\ Len(<<>>) = 0 /\ Second(<<>>)
      BY EmptySeq DEF Second, Sorted
<1>2. Split(<<>>, WindowTicks, 0, 0, 0)
      BY <1>1, RateAssumption DEF Split
<1> QED BY <1>1, <1>2 DEF Init, Served, InHand

(* A step that leaves one address as it was for Served.                    *)
Untouched(ip) ==
  /\ window_age'[ip] = window_age[ip]
  /\ requests_this_window'[ip] = requests_this_window[ip]
  /\ recent'[ip] = recent[ip] /\ verdict'[ip] = verdict[ip]
  /\ InHand(ip)' = InHand(ip)

ServedHere(ip) ==
  /\ Second(recent[ip])
  /\ \E p : Split(recent[ip], window_age[ip], requests_this_window[ip], InHand(ip), p)
  /\ verdict[ip] = "pending" <=> InHand(ip) = 1

LEMMA ServedUntouched ==
  ASSUME NEW ip \in Ips, ServedHere(ip), Untouched(ip)
  PROVE  ServedHere(ip)'
BY DEF ServedHere, Untouched

(* recordRequest asks for its address.                                     *)
LEMMA RecordStep ==
  ASSUME Types, Served, NEW ip \in Ips, recordRequest(ip)
  PROVE  Served' /\ Quota!Ask(ip)
<1> USE DEF Types, Served
<1>1. /\ pc = "idle" /\ pc' # "idle" /\ cur' = ip /\ recent' = recent
      /\ verdict' = [verdict EXCEPT ![ip] = "pending"]
      /\ \A i \in Ips \ {ip} : /\ window_age'[i] = window_age[i]
                               /\ requests_this_window'[i] = requests_this_window[i]
      BY DEF recordRequest, Restarted
<1>2. InHand(ip) = 0 /\ InHand(ip)' = 1 /\ verdict[ip] # "pending"
      BY <1>1 DEF InHand
<1>3. PICK p : Split(recent[ip], window_age[ip], requests_this_window[ip], 0, p)
      BY <1>2
<1>4. \E q : Split(recent[ip], window_age'[ip], requests_this_window'[ip], 1, q)
  <2>1. CASE WindowExpired(ip)
    <3>1. window_age[ip] = WindowTicks
          BY <2>1, RateAssumption DEF WindowExpired
    <3>2. window_age'[ip] = 0 /\ requests_this_window'[ip] = 1
          BY <2>1 DEF recordRequest, Restarted
    <3> QED BY <1>3, <3>1, <3>2, SplitRestart
  <2>2. CASE ~WindowExpired(ip)
    <3>1. window_age[ip] < WindowTicks
          BY <2>2, RateAssumption DEF WindowExpired
    <3>2. /\ window_age'[ip] = window_age[ip]
          /\ requests_this_window'[ip] = requests_this_window[ip] + 1
          BY <2>2 DEF recordRequest
    <3> QED BY <1>3, <3>1, <3>2, SplitRecord
  <2> QED BY <2>1, <2>2
<1>5. ServedHere(ip)'
      BY <1>1, <1>2, <1>4 DEF ServedHere
<1>6. ASSUME NEW i \in Ips \ {ip} PROVE ServedHere(i)'
      BY <1>1, <1>6, ServedUntouched DEF ServedHere, Untouched, InHand
<1>7. Served'
      BY <1>1, <1>5, <1>6 DEF ServedHere
<1> QED BY <1>1, <1>2, <1>7 DEF Quota!Ask

LEMMA RespondStep ==
  ASSUME Types, Served, Respond
  PROVE  Served' /\ Quota!Grant(cur)
<1> USE DEF Types, Served
<1>1. /\ pc # "idle" /\ pc' = "idle" /\ UNCHANGED <<cur, tracker>>
      /\ recent' = [recent EXCEPT ![cur] = Append(recent[cur], 0)]
      /\ verdict' = [verdict EXCEPT ![cur] = "granted"]
      BY DEF Respond
<1>2. InHand(cur) = 1 /\ InHand(cur)' = 0 /\ verdict[cur] = "pending"
      BY <1>1 DEF InHand
<1>3. PICK p : Split(recent[cur], window_age[cur], requests_this_window[cur], 1, p)
      BY <1>2
<1>4. window_age[cur] < WindowTicks => requests_this_window[cur] <= MAX_REQUESTS_PER_SEC
      BY RateAssumption DEF Respond, OverLimit, getCurrentRate, WindowExpired
<1>5. /\ Len(recent[cur]) < 2 * MAX_REQUESTS_PER_SEC + 1
      /\ Second(recent'[cur])
      /\ Split(recent'[cur], window_age[cur], requests_this_window[cur], 0, p)
      BY <1>1, <1>3, <1>4, SplitGrant
<1>6. ServedHere(cur)'
      BY <1>1, <1>2, <1>5 DEF ServedHere, tracker
<1>7. ASSUME NEW i \in Ips \ {cur} PROVE ServedHere(i)'
      BY <1>1, <1>7, ServedUntouched DEF ServedHere, Untouched, InHand, tracker
<1>8. recent' \in [Ips -> Seq(Nat)]
      BY <1>1, <1>5 DEF Second
<1>9. Served'
      BY <1>1, <1>6, <1>7, <1>8 DEF ServedHere
<1> QED BY <1>1, <1>2, <1>5, <1>9 DEF Quota!Grant

LEMMA RefuseStep ==
  ASSUME Types, Served, TooManyRequests
  PROVE  Served' /\ Quota!Refuse(cur)
<1> USE DEF Types, Served
<1>1. /\ pc # "idle" /\ pc' = "idle" /\ UNCHANGED <<cur, tracker, recent>>
      /\ verdict' = [verdict EXCEPT ![cur] = "refused"]
      BY DEF TooManyRequests
<1>2. InHand(cur) = 1 /\ InHand(cur)' = 0 /\ verdict[cur] = "pending"
      BY <1>1 DEF InHand
<1>3. PICK p : Split(recent[cur], window_age[cur], requests_this_window[cur], 1, p)
      BY <1>2
<1>4. /\ window_age[cur] < WindowTicks
      /\ requests_this_window[cur] > MAX_REQUESTS_PER_SEC
      BY RateAssumption DEF TooManyRequests, OverLimit, getCurrentRate, WindowExpired
<1>5. /\ Len(recent[cur]) >= MAX_REQUESTS_PER_SEC
      /\ Split(recent[cur], window_age[cur], requests_this_window[cur], 0, p)
      BY <1>3, <1>4, SplitRefuse
<1>6. ServedHere(cur)'
      BY <1>1, <1>2, <1>5 DEF ServedHere, tracker
<1>7. ASSUME NEW i \in Ips \ {cur} PROVE ServedHere(i)'
      BY <1>1, <1>7, ServedUntouched DEF ServedHere, Untouched, InHand, tracker
<1>8. Served'
      BY <1>1, <1>6, <1>7 DEF ServedHere
<1> QED BY <1>1, <1>2, <1>5, <1>8 DEF Quota!Refuse

LEMMA PassStep ==
  ASSUME Types, Served, Tick
  PROVE  Served' /\ Quota!Pass
<1> USE DEF Types, Served
<1>1. ASSUME NEW ip \in Ips PROVE ServedHere(ip)' /\ recent'[ip] \in Seq(Nat)
  <2>1. PICK p : Split(recent[ip], window_age[ip], requests_this_window[ip], InHand(ip), p)
        OBVIOUS
  <2>2. /\ recent'[ip] = Within(Older(recent[ip]), WindowTicks)
        /\ window_age'[ip] = Aged(window_age[ip], WindowTicks)
        /\ requests_this_window'[ip] = requests_this_window[ip]
        /\ verdict' = verdict /\ InHand(ip)' = InHand(ip) /\ InHand(ip) \in {0, 1}
        BY DEF Tick, InHand, handler
  <2>3. /\ Second(recent'[ip])
        /\ \E q : Split(recent'[ip], window_age'[ip], requests_this_window'[ip], InHand(ip), q)
        BY <2>1, <2>2, SplitTick
  <2> QED BY <2>2, <2>3 DEF ServedHere, Second
<1>2. Served'
      BY <1>1 DEF ServedHere, Tick
<1>3. \A s : Quota!Older(s) = Older(s)
      BY DEF Quota!Older, Older
<1>4. \A s, w : Quota!Within(s, w) = Within(s, w)
      BY DEF Quota!Within, Within
<1>5. Quota!Pass
      BY <1>3, <1>4 DEF Quota!Pass, Tick
<1> QED BY <1>2, <1>5

LEMMA QuotaStep ==
  ASSUME Types, Served, [Next]_vars
  PROVE  Served' /\ [Quota!Next]_(Quota!quotavars)
<1> USE DEF Quota!Next, Quota!quotavars
<1>1. ASSUME NEW ip \in Ips, recordRequest(ip)
      PROVE  Served' /\ [Quota!Next]_(Quota!quotavars)
      BY <1>1, RecordStep
<1>2. CASE Respond
      BY <1>2, RespondStep DEF Types
<1>3. CASE TooManyRequests
      BY <1>3, RefuseStep DEF Types
<1>4. CASE Tick
      BY <1>4, PassStep
<1>5. ASSUME UNCHANGED <<tracker, recent, verdict>>, \A ip \in Ips : InHand(ip)' = InHand(ip)
      PROVE  Served' /\ [Quota!Next]_(Quota!quotavars)
      BY <1>5 DEF Served, tracker
<1>6. ASSUME NEW ip \in Ips, Accept(ip) \/ Leave(ip)
      PROVE  Served' /\ [Quota!Next]_(Quota!quotavars)
      BY <1>5, <1>6 DEF Accept, Leave, handler, tracker, history, InHand
<1>7. CASE isSuspicious \/ blockIP
      BY <1>5, <1>7 DEF isSuspicious, blockIP, tracker, history, InHand
<1>8. CASE UNCHANGED vars
      BY <1>5, <1>8 DEF vars, handler, tracker, history, InHand
<1> QED BY <1>1, <1>2, <1>3, <1>4, <1>6, <1>7, <1>8 DEF Next, Handler

(* However the calls of the handler (main.cpp:210-235) and the ends of a   *)
(* window (IPTracker.cpp) interleave, no second sees an address served     *)
(* more than twice MAX_REQUESTS_PER_SEC and one, and a 429 goes only to    *)
(* one that was served the limit in it.                                    *)
THEOREM QuotaRefinement == Spec => ImplementsQuota
<1>1. Init => Types
      BY InitInvariant DEF IInv
<1>2. Init => Quota!Init
      BY DEF Init, Quota!Init
<1> QED BY <1>1, <1>2, TypesStep, ServedInit, QuotaStep, PTL
        DEF Spec, ImplementsQuota, Quota!Spec
-----------------------------------------------------------------------------
(* A flood is bounded by the connections that are open when it is blocked. *)

(* Between recordRequest and what isSuspicious leads to.                   *)
Deciding(ip) == pc \in {"isSuspicious", "blockIP"} /\ cur = ip

Flooding(ip) ==
  window_age[ip] < WindowTicks /\ requests_this_window[ip] > RATE_THRESHOLD

(* An address over the threshold has no more requests to come in this      *)
(* window than it has connections, and as its block is no older than the   *)
(* window it gets no new ones before the window ends.                      *)
Contained(ip) ==
  /\ requests_this_window[ip] <= RATE_THRESHOLD + MAX_CONNECTIONS
  /\ Flooding(ip) =>
       /\ requests_this_window[ip] + Cardinality(ConnectionsOf(ip))
            <= RATE_THRESHOLD + MAX_CONNECTIONS
       /\ Deciding(ip) \/ (ip \in blocked_ips /\ block_age[ip] <= window_age[ip])

FloodInv ==
  /\ Cardinality(Connected) <= MAX_CONNECTIONS
  /\ \A ip \in Ips : Contained(ip)

LEMMA CountFacts ==
  ASSUME Types, NEW ip \in Ips
  PROVE  /\ IsFiniteSet(Connected) /\ Cardinality(Connected) \in Nat
         /\ IsFiniteSet(ConnectionsOf(ip)) /\ Cardinality(ConnectionsOf(ip)) \in Nat
         /\ Cardinality(ConnectionsOf(ip)) <= Cardinality(Connected)
<1>1. ConnectionsOf(ip) \subseteq Connected /\ Connected \subseteq Fds
      BY RateAssumption DEF ConnectionsOf, Connected
<1>2. IsFiniteSet(Connected)
      BY <1>1, RateAssumption, FS_Subset
<1> QED BY <1>1, <1>2, FS_Subset, FS_CardinalityType

LEMMA RemoveCounts ==
  ASSUME Types, NEW ip \in Ips, Remove(ip)
  PROVE  /\ Cardinality(ConnectionsOf(ip)) > 0
         /\ Cardinality(ConnectionsOf(ip)') = Cardinality(ConnectionsOf(ip)) - 1
         /\ \A i \in Ips \ {ip} : ConnectionsOf(i)' = ConnectionsOf(i)
         /\ Cardinality(Connected') = Cardinality(Connected) - 1
<1>1. PICK fd \in ConnectionsOf(ip) : client_ip' = [client_ip EXCEPT ![fd] = Nobody]
      BY DEF Remove
<1>2. /\ fd \in Connected
      /\ ConnectionsOf(ip)' = ConnectionsOf(ip) \ {fd}
      /\ Connected' = Connected \ {fd}
      /\ \A i \in Ips \ {ip} : ConnectionsOf(i)' = ConnectionsOf(i)
      BY <1>1, RateAssumption DEF Types, ConnectionsOf, Connected
<1>3. /\ IsFiniteSet(Connected) /\ Cardinality(Connected) \in Nat
      /\ IsFiniteSet(ConnectionsOf(ip)) /\ Cardinality(ConnectionsOf(ip)) \in Nat
      BY CountFacts
<1>4. /\ Cardinality(ConnectionsOf(ip) \ {fd}) = Cardinality(ConnectionsOf(ip)) - 1
      /\ Cardinality(Connected \ {fd}) = Cardinality(Connected) - 1
      BY <1>1, <1>2, <1>3, FS_RemoveElement
<1>5. Cardinality(ConnectionsOf(ip)) # 0
      BY <1>1, <1>3, FS_EmptySet
<1> QED BY <1>2, <1>3, <1>4, <1>5

LEMMA AddCounts ==
  ASSUME Types, NEW ip \in Ips, NEW fd \in Fds \ Connected,
         client_ip' = [client_ip EXCEPT ![fd] = ip]
  PROVE  /\ \A i \in Ips \ {ip} : ConnectionsOf(i)' = ConnectionsOf(i)
         /\ Cardinality(Connected') = Cardinality(Connected) + 1
<1>1. /\ Connected' = Connected \cup {fd}
      /\ \A i \in Ips \ {ip} : ConnectionsOf(i)' = ConnectionsOf(i)
      BY RateAssumption DEF Types, ConnectionsOf, Connected
<1>2. IsFiniteSet(Connected)
      BY CountFacts
<1> QED BY <1>1, <1>2, FS_AddElement

LEMMA FloodInit == Init => FloodInv
<1> SUFFICES ASSUME Init PROVE FloodInv
    OBVIOUS
<1>1. Connected = {}
      BY DEF Init, Connected
<1>2. Cardinality(Connected) = 0
      BY <1>1, FS_EmptySet
<1>3. ASSUME NEW ip \in Ips PROVE Contained(ip)
      BY RateAssumption DEF Init, Contained, Flooding
<1> QED BY <1>2, <1>3, RateAssumption DEF FloodInv

(* What Contained speaks of, for one address.                              *)
LEMMA ContainedUntouched ==
  ASSUME Types, NEW ip \in Ips, Contained(ip),
         window_age'[ip] = window_age[ip],
         requests_this_window'[ip] = requests_this_window[ip],
         ConnectionsOf(ip)' = ConnectionsOf(ip), block_age'[ip] = block_age[ip],
         ip \in blocked_ips => ip \in blocked_ips', Deciding(ip) => Deciding(ip)'
  PROVE  Contained(ip)'
BY DEF Contained, Flooding

LEMMA AcceptContained ==
  ASSUME Types, FloodInv, NEW ip \in Ips, Accept(ip)
  PROVE  FloodInv'
<1>0. /\ pc = "idle" /\ UNCHANGED <<handler, tracker, block_age>>
      BY DEF Accept
<1>1. CASE Cardinality(Connected) >= MAX_CONNECTIONS \/ IsBlocked(ip)
  <2>1. UNCHANGED <<handler, tracker, block_age, blocked_ips, client_ip>>
        BY <1>1 DEF Accept
  <2> QED BY <2>1 DEF FloodInv, Contained, Flooding, Deciding, Connected,
                      ConnectionsOf, handler, tracker
<1>2. CASE ~(Cardinality(Connected) >= MAX_CONNECTIONS \/ IsBlocked(ip))
  <2>1. PICK fd \in Fds \ Connected : client_ip' = [client_ip EXCEPT ![fd] = ip]
        BY <1>2 DEF Accept
  <2>2. blocked_ips' = blocked_ips \ {ip}
        BY <1>2 DEF Accept
  <2>3. /\ \A i \in Ips \ {ip} : ConnectionsOf(i)' = ConnectionsOf(i)
        /\ Cardinality(Connected') = Cardinality(Connected) + 1
        BY <2>1, AddCounts
  <2>4. Cardinality(Connected)' <= MAX_CONNECTIONS
        BY <1>2, <2>3, CountFacts, RateAssumption
  <2>5. ASSUME NEW i \in Ips \ {ip} PROVE Contained(i)'
        BY <1>0, <2>2, <2>3, ContainedUntouched DEF FloodInv, Deciding, handler, tracker
  <2>6. ~Flooding(ip)
    <3>1. CASE Flooding(ip)
      <4>1. ip \in blocked_ips /\ block_age[ip] <= window_age[ip] /\ window_age[ip] < WindowTicks
            BY <1>0, <3>1 DEF FloodInv, Contained, Deciding, Flooding
      <4>2. block_age[ip] \in Nat /\ window_age[ip] \in Nat
            BY RateAssumption DEF Types
      <4> QED BY <1>2, <4>1, <4>2, RateAssumption DEF IsBlocked
    <3> QED BY <3>1
  <2>7. Contained(ip)'
        BY <1>0, <2>6 DEF FloodInv, Contained, Flooding, tracker
  <2> QED BY <2>4, <2>5, <2>7 DEF FloodInv
<1> QED BY <1>1, <1>2

LEMMA LeaveContained ==
  ASSUME Types, FloodInv, NEW ip \in Ips, Leave(ip)
  PROVE  FloodInv'
<1>1. UNCHANGED <<handler, tracker, blacklist>> /\ Remove(ip)
      BY DEF Leave
<1>2. /\ Cardinality(ConnectionsOf(ip)') = Cardinality(ConnectionsOf(ip)) - 1
      /\ \A i \in Ips \ {ip} : ConnectionsOf(i)' = ConnectionsOf(i)
      /\ Cardinality(Connected') = Cardinality(Connected) - 1
      BY <1>1, RemoveCounts
<1>3. Cardinality(Connected)' <= MAX_CONNECTIONS
      BY <1>2, CountFacts, RateAssumption DEF FloodInv
<1>4. ASSUME NEW i \in Ips \ {ip} PROVE Contained(i)'
      BY <1>1, <1>2, ContainedUntouched DEF FloodInv, Deciding, handler, tracker, blacklist
<1>5. Contained(ip)'
  <2>1. /\ requests_this_window[ip] \in Nat
        /\ Cardinality(ConnectionsOf(ip)) \in Nat
        BY CountFacts DEF Types
  <2> QED BY <1>1, <1>2, <2>1, RateAssumption
          DEF FloodInv, Contained, Flooding, Deciding, handler, tracker, blacklist
<1> QED BY <1>3, <1>4, <1>5 DEF FloodInv

LEMMA RecordContained ==
  ASSUME Types, FloodInv, NEW ip \in Ips, recordRequest(ip)
  PROVE  FloodInv'
<1>1. /\ pc = "idle" /\ pc' = "isSuspicious" /\ cur' = ip
      /\ UNCHANGED blacklist /\ Remove(ip)
      /\ \A i \in Ips \ {ip} : /\ window_age'[i] = window_age[i]
                               /\ requests_this_window'[i] = requests_this_window[i]
      BY DEF recordRequest, Restarted, Types
<1>2. /\ Cardinality(ConnectionsOf(ip)') = Cardinality(ConnectionsOf(ip)) - 1
      /\ Cardinality(ConnectionsOf(ip)) > 0
      /\ \A i \in Ips \ {ip} : ConnectionsOf(i)' = ConnectionsOf(i)
      /\ Cardinality(Connected') = Cardinality(Connected) - 1
      BY <1>1, RemoveCounts
<1>3. Cardinality(Connected)' <= MAX_CONNECTIONS
      BY <1>2, CountFacts, RateAssumption DEF FloodInv
<1>4. ASSUME NEW i \in Ips \ {ip} PROVE Contained(i)'
      BY <1>1, <1>2, ContainedUntouched DEF FloodInv, Deciding, blacklist
<1>5. /\ requests_this_window'[ip] + Cardinality(ConnectionsOf(ip)')
           <= RATE_THRESHOLD + MAX_CONNECTIONS
      /\ requests_this_window'[ip] <= RATE_THRESHOLD + MAX_CONNECTIONS
  <2>1. /\ Cardinality(ConnectionsOf(ip)) \in Nat /\ Cardinality(Connected) \in Nat
        /\ Cardinality(ConnectionsOf(ip)) <= Cardinality(Connected)
        /\ Cardinality(Connected) <= MAX_CONNECTIONS
        /\ MAX_CONNECTIONS \in Nat /\ RATE_THRESHOLD \in Nat
        /\ requests_this_window[ip] \in Nat
        BY CountFacts, RateAssumption DEF FloodInv, Types
  <2>2. CASE WindowExpired(ip)
    <3>1. requests_this_window'[ip] = 1
          BY <2>2 DEF recordRequest, Types
    <3> QED BY <1>2, <2>1, <3>1
  <2>3. CASE ~WindowExpired(ip)
    <3>1. requests_this_window'[ip] = requests_this_window[ip] + 1
          BY <2>3 DEF recordRequest, Types
    <3>2. window_age[ip] < WindowTicks
          BY <2>3, RateAssumption DEF WindowExpired, Types
    <3>3. \/ requests_this_window[ip] <= RATE_THRESHOLD
          \/ requests_this_window[ip] + Cardinality(ConnectionsOf(ip))
               <= RATE_THRESHOLD + MAX_CONNECTIONS
          BY <2>1, <3>2 DEF FloodInv, Contained, Flooding
    <3> QED BY <1>2, <2>1, <3>1, <3>3
  <2> QED BY <2>2, <2>3
<1>6. Contained(ip)'
      BY <1>1, <1>5 DEF Contained, Deciding
<1> QED BY <1>3, <1>4, <1>6 DEF FloodInv

(* The calls of the handler for the address it decides about.              *)
LEMMA DecisionContained ==
  ASSUME Types, FloodInv, isSuspicious \/ blockIP
  PROVE  FloodInv'
<1>1. UNCHANGED <<cur, tracker, client_ip>>
      BY DEF isSuspicious, blockIP
<1>2. /\ Connected' = Connected
      /\ \A i \in Ips : ConnectionsOf(i)' = ConnectionsOf(i)
      BY <1>1 DEF Connected, ConnectionsOf
<1>3. ASSUME NEW i \in Ips, i # cur PROVE Contained(i)'
      BY <1>1, <1>2, <1>3, ContainedUntouched
         DEF isSuspicious, blockIP, BlockStamped, FloodInv, Deciding, tracker, blacklist, Types
<1>4. Contained(cur)'
  <2>1. CASE isSuspicious
    <3>1. CASE Flooding(cur)
      <4>1. Suspicious(cur)
            BY <3>1, RateAssumption
               DEF Flooding, Suspicious, getCurrentRate, WindowExpired, Types
      <4>2. pc' = "blockIP" /\ UNCHANGED <<cur, tracker, client_ip>>
            BY <2>1, <4>1 DEF isSuspicious
      <4> QED BY <1>2, <4>2 DEF FloodInv, Contained, Flooding, Deciding, tracker, Types
    <3>2. CASE ~Flooding(cur)
          BY <1>1, <3>2 DEF FloodInv, Contained, Flooding, tracker, Types
    <3> QED BY <3>1, <3>2
  <2>2. CASE blockIP
    <3>1. cur \in blocked_ips' /\ block_age'[cur] = 0
          BY <2>2 DEF blockIP, BlockStamped, Types
    <3>2. window_age[cur] \in Nat
          BY RateAssumption DEF Types
    <3> QED BY <1>1, <1>2, <3>1, <3>2 DEF FloodInv, Contained, Flooding, tracker, Types
  <2> QED BY <2>1, <2>2
<1> QED BY <1>1, <1>2, <1>3, <1>4 DEF FloodInv

(* The block and the window get older together.                            *)
LEMMA TickContained ==
  ASSUME Types, FloodInv, Tick
  PROVE  FloodInv'
<1>1. UNCHANGED <<handler, requests_this_window, blocked_ips, client_ip>>
      BY DEF Tick
<1>2. /\ Connected' = Connected
      /\ \A i \in Ips : ConnectionsOf(i)' = ConnectionsOf(i)
      BY <1>1 DEF Connected, ConnectionsOf
<1>3. ASSUME NEW ip \in Ips PROVE Contained(ip)'
  <2>1. /\ window_age'[ip] = Aged(window_age[ip], WindowTicks)
        /\ block_age'[ip] = Aged(block_age[ip], BlockTicks + 1)
        /\ window_age[ip] \in 0..WindowTicks /\ block_age[ip] \in 0..(BlockTicks + 1)
        BY DEF Tick, Types
  <2>2. window_age'[ip] < WindowTicks => window_age'[ip] = window_age[ip] + 1
        BY <2>1, RateAssumption DEF Aged
  <2>3. block_age'[ip] <= block_age[ip] + 1
        BY <2>1, RateAssumption DEF Aged
  <2>4. block_age'[ip] \in Nat
        BY <2>1, RateAssumption DEF Aged
  <2>5. Flooding(ip)' => Flooding(ip)
        BY <1>1, <2>1, <2>2, RateAssumption DEF Flooding
  <2> QED BY <1>1, <1>2, <2>1, <2>2, <2>3, <2>4, <2>5, RateAssumption
          DEF FloodInv, Contained, Flooding, Deciding, handler
<1> QED BY <1>1, <1>2, <1>3 DEF FloodInv

LEMMA FloodStep == ASSUME Types, FloodInv, [Next]_vars PROVE FloodInv'
<1>1. ASSUME NEW ip \in Ips, Accept(ip) \/ Leave(ip) \/ recordRequest(ip)
      PROVE  FloodInv'
      BY <1>1, AcceptContained, LeaveContained, RecordContained
<1>2. CASE isSuspicious \/ blockIP
      BY <1>2, DecisionContained
<1>3. CASE TooManyRequests \/ Respond
  <2>1. pc = "getCurrentRate" /\ UNCHANGED <<cur, tracker, blacklist, client_ip>>
        BY <1>3 DEF TooManyRequests, Respond
  <2> QED BY <2>1 DEF FloodInv, Contained, Flooding, Deciding, Connected,
                      ConnectionsOf, tracker, blacklist
<1>4. CASE Tick
      BY <1>4, TickContained
<1>5. CASE UNCHANGED vars
      BY <1>5 DEF vars, FloodInv, Contained, Flooding, Deciding, Connected,
                  ConnectionsOf, handler, tracker, blacklist
<1> QED BY <1>1, <1>2, <1>3, <1>4, <1>5 DEF Next, Handler

(* A window counts at most RATE_THRESHOLD requests of an address and one   *)
(* for each connection the server admits: the block keeps new ones away    *)
(* (main.cpp:137) for as long as the window lasts, because it lasts longer.*)
THEOREM FloodBound == Spec => []FloodIsBounded
<1>1. Init => Types
      BY InitInvariant DEF IInv
<1>2. FloodInv => FloodIsBounded
      BY DEF FloodInv, Contained, FloodIsBounded
<1> QED BY <1>1, <1>2, TypesStep, FloodInit, FloodStep, PTL DEF Spec
=============================================================================
