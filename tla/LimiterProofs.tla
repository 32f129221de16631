---------------------------- MODULE LimiterProofs ----------------------------
(***************************************************************************)
(* Proofs about SlidingWindowLimiter: it keeps its quota exactly, for any  *)
(* keys, limits and window, and any width of size_t.                       *)
(***************************************************************************)
EXTENDS SlidingWindowLimiter, AgesProofs

W == windowMs + 1

(* What a log may be: in order, so that what the loop over its front       *)
(* leaves is all that has not expired, and no longer than the limit.       *)
Log(k, dq) ==
  /\ dq \in Seq(Nat) /\ Sorted(dq)
  /\ \A i \in DOMAIN dq : dq[i] <= W
  /\ Len(dq) <= AsSize(maxRequests[k])

IInv ==
  /\ verdict \in [Keys -> {"none", "pending", "granted", "refused"}]
  /\ requestLog \in [Keys -> Seq(Nat)]
  /\ \A k \in Keys : Log(k, requestLog[k])

LEMMA SizeType == ASSUME NEW k \in Keys PROVE AsSize(maxRequests[k]) \in Nat
<1>1. \A n \in Int, m \in Nat \ {0} : n % m \in Nat
      OBVIOUS
<1> QED BY <1>1, LimiterAssumption DEF AsSize

(* The loop that pops the front leaves what is within the window.          *)
LEMMA PrunedIsWithin ==
  ASSUME NEW dq \in Seq(Nat), Sorted(dq)
  PROVE  Pruned(dq) = Within(dq, W)
<1>0. W \in Nat /\ windowMs \in Nat
      BY LimiterAssumption DEF W
<1>1. PICK n : Past(dq, W, n)
      BY <1>0, PastExists
<1>2. /\ Len(dq) \in Nat /\ DOMAIN dq = 1..Len(dq) /\ n \in 0..Len(dq)
      /\ \A i \in DOMAIN dq : dq[i] \in Nat
      /\ \A i \in DOMAIN dq : i <= n <=> Expired(dq[i])
      BY <1>0, <1>1, LenProperties DEF Past, W, Expired
<1> DEFINE First(i) == /\ \A j \in 1..(i - 1) : Expired(dq[j])
                       /\ i <= Len(dq) => ~Expired(dq[i])
           f == CHOOSE i \in 1..(Len(dq) + 1) : First(i)
<1>3. n + 1 \in 1..(Len(dq) + 1) /\ First(n + 1)
      BY <1>2
<1>4. f \in 1..(Len(dq) + 1) /\ First(f)
      BY <1>3
<1>5. Pruned(dq) = SubSeq(dq, f, Len(dq))
      BY DEF Pruned
<1> HIDE DEF f
<1>6. f = n + 1
  <2>1. CASE f < n + 1
        BY <1>2, <1>4, <2>1
  <2>2. CASE f > n + 1
    <3>1. n + 1 \in 1..(f - 1) /\ n + 1 \in DOMAIN dq
          BY <1>2, <1>4, <2>2
    <3> QED BY <1>2, <1>4, <3>1
  <2> QED BY <1>2, <1>4, <2>1, <2>2
<1> QED BY <1>0, <1>1, <1>5, <1>6, WithinIs

(* A millisecond later.                                                    *)
AgedLog(dq) == [i \in DOMAIN dq |-> Aged(dq[i])]

LEMMA AgedIsLog ==
  ASSUME NEW k \in Keys, NEW dq, Log(k, dq)
  PROVE  /\ Log(k, AgedLog(dq)) /\ Len(AgedLog(dq)) = Len(dq)
         /\ DOMAIN AgedLog(dq) = DOMAIN dq
         /\ \A i \in DOMAIN dq : AgedLog(dq)[i] = Aged(dq[i])
<1>0. W \in Nat /\ windowMs \in Nat /\ W = windowMs + 1
      BY LimiterAssumption DEF W
<1>1. Len(dq) \in Nat /\ DOMAIN dq = 1..Len(dq) /\ \A i \in 1..Len(dq) : dq[i] \in Nat
      BY LenProperties DEF Log
<1>2. DOMAIN AgedLog(dq) = DOMAIN dq /\ \A i \in DOMAIN dq : AgedLog(dq)[i] = Aged(dq[i])
      BY DEF AgedLog
<1>3. \A i \in DOMAIN dq : Aged(dq[i]) \in Nat /\ Aged(dq[i]) <= W
      BY <1>0, <1>1 DEF Log, Aged
<1>4. AgedLog(dq) \in [1..Len(dq) -> Nat]
      BY <1>1, <1>2, <1>3 DEF AgedLog
<1>5. AgedLog(dq) \in Seq(Nat)
      BY <1>1, <1>4, SeqDef
<1>6. Len(AgedLog(dq)) = Len(dq)
      BY <1>1, <1>2, <1>5, LenProperties
<1>7. Sorted(AgedLog(dq))
      BY <1>0, <1>1, <1>2 DEF Log, Sorted, Aged
<1> QED BY <1>2, <1>3, <1>5, <1>6, <1>7 DEF Log

LEMMA PrunedIsLog ==
  ASSUME NEW k \in Keys, NEW dq, Log(k, dq)
  PROVE  /\ Pruned(dq) = Within(dq, W) /\ Log(k, Pruned(dq))
         /\ \A i \in DOMAIN Pruned(dq) : Pruned(dq)[i] < W
<1>0. W \in Nat
      BY LimiterAssumption DEF W
<1>1. Pruned(dq) = Within(dq, W)
      BY PrunedIsWithin DEF Log
<1>2. /\ Pruned(dq) \in Seq(Nat) /\ Sorted(Pruned(dq))
      /\ Len(Pruned(dq)) \in 0..Len(dq)
      /\ \A i \in DOMAIN Pruned(dq) : Pruned(dq)[i] < W
      BY <1>0, <1>1, WithinSorted DEF Log
<1>3. \A i \in DOMAIN Pruned(dq) : Pruned(dq)[i] \in Nat
      BY <1>2, LenProperties
<1>4. \A i \in DOMAIN Pruned(dq) : Pruned(dq)[i] <= W
      BY <1>0, <1>2, <1>3
<1>5. Len(dq) \in Nat
      BY LenProperties DEF Log
<1>6. Len(Pruned(dq)) <= AsSize(maxRequests[k])
      BY <1>2, <1>5, SizeType DEF Log
<1> QED BY <1>1, <1>2, <1>4, <1>6 DEF Log

LEMMA AppendIsLog ==
  ASSUME NEW k \in Keys, NEW dq, Log(k, dq), ~Full(k, dq)
  PROVE  Log(k, Append(dq, 0))
<1>0. W \in Nat
      BY LimiterAssumption DEF W
<1>1. /\ Append(dq, 0) \in Seq(Nat) /\ Sorted(Append(dq, 0))
      /\ Len(Append(dq, 0)) = Len(dq) + 1
      /\ \A i \in DOMAIN dq : Append(dq, 0)[i] = dq[i]
      /\ Append(dq, 0)[Len(dq) + 1] = 0
      BY AppendSorted DEF Log
<1>2. /\ Len(dq) \in Nat /\ DOMAIN dq = 1..Len(dq)
      /\ DOMAIN Append(dq, 0) = 1..(Len(dq) + 1)
      BY <1>1, LenProperties DEF Log
<1>3. \A i \in DOMAIN Append(dq, 0) : Append(dq, 0)[i] <= W
      BY <1>0, <1>1, <1>2 DEF Log
<1>4. Len(dq) + 1 <= AsSize(maxRequests[k])
      BY <1>2, SizeType DEF Full
<1> QED BY <1>1, <1>3, <1>4 DEF Log
-----------------------------------------------------------------------------
LEMMA InitInvariant == Init => IInv
<1> SUFFICES ASSUME Init PROVE IInv
    OBVIOUS
<1>1. <<>> \in Seq(Nat) /\ Len(<<>>) = 0
      BY EmptySeq
<1>2. \A k \in Keys : Log(k, <<>>)
      BY <1>1, SizeType DEF Log, Sorted
<1> QED BY <1>1, <1>2 DEF Init, IInv

(* What a call of allowRequest leaves in the log of its key.               *)
LEMMA AllowEffect ==
  ASSUME IInv, NEW k \in Keys, allowRequest(k)
  PROVE  LET dq == Within(requestLog[k], W) IN
         /\ Log(k, dq) /\ \A i \in DOMAIN dq : dq[i] < W
         /\ \/ /\ Full(k, dq) /\ verdict' = [verdict EXCEPT ![k] = "refused"]
               /\ requestLog' = [requestLog EXCEPT ![k] = dq]
            \/ /\ ~Full(k, dq) /\ verdict' = [verdict EXCEPT ![k] = "granted"]
               /\ requestLog' = [requestLog EXCEPT ![k] = Append(dq, 0)]
               /\ Log(k, Append(dq, 0))
<1>1. /\ Pruned(requestLog[k]) = Within(requestLog[k], W)
      /\ Log(k, Within(requestLog[k], W))
      /\ \A i \in DOMAIN Within(requestLog[k], W) : Within(requestLog[k], W)[i] < W
      BY PrunedIsLog DEF IInv
<1>2. ~Full(k, Within(requestLog[k], W)) => Log(k, Append(Within(requestLog[k], W), 0))
      BY <1>1, AppendIsLog
<1> QED BY <1>1, <1>2 DEF allowRequest, LogOfRefused

LEMMA InductiveStep == ASSUME IInv, [Next]_vars PROVE IInv'
<1>1. ASSUME NEW k \in Keys, Ask(k) PROVE IInv'
      BY <1>1 DEF Ask, IInv
<1>2. ASSUME NEW k \in Keys, allowRequest(k) PROVE IInv'
  <2>1. \E dq \in Seq(Nat) : Log(k, dq) /\ requestLog' = [requestLog EXCEPT ![k] = dq]
        BY <1>2, AllowEffect DEF Log
  <2>2. verdict' \in [Keys -> {"none", "pending", "granted", "refused"}]
        BY <1>2, AllowEffect DEF IInv
  <2> QED BY <2>1, <2>2 DEF IInv
<1>3. CASE Tick
  <2>1. requestLog' = [k \in Keys |-> AgedLog(requestLog[k])] /\ UNCHANGED verdict
        BY <1>3 DEF Tick, AgedLog
  <2>2. \A k \in Keys : Log(k, AgedLog(requestLog[k]))
        BY AgedIsLog DEF IInv
  <2>3. \A k \in Keys : AgedLog(requestLog[k]) \in Seq(Nat)
        BY <2>2 DEF Log
  <2> QED BY <2>1, <2>2, <2>3 DEF IInv
<1>4. CASE UNCHANGED vars
      BY <1>4 DEF vars, IInv
<1> QED BY <1>1, <1>2, <1>3, <1>4 DEF Next

(* The log of a key is bounded by its limit, however often the key asks    *)
(* and is refused, and its entries by the window they saturate at.         *)
THEOREM LogIsBounded == Spec => []TypeOK
<1>1. ASSUME NEW k \in Keys, Log(k, requestLog[k])
      PROVE  requestLog[k] \in Seq(0..(windowMs + 1))
  <2> DEFINE l == requestLog[k]
  <2>1. /\ Len(l) \in Nat /\ DOMAIN l = 1..Len(l) /\ l \in [1..Len(l) -> Nat]
        /\ \A i \in 1..Len(l) : l[i] <= windowMs + 1
        BY <1>1, LenProperties DEF Log, W
  <2> HIDE DEF l
  <2>2. l \in [1..Len(l) -> 0..(windowMs + 1)]
        BY <2>1, LimiterAssumption
  <2>3. l \in Seq(0..(windowMs + 1))
        BY <2>1, <2>2, SeqDef
  <2> QED BY <2>3 DEF l
<1>2. IInv => TypeOK
      BY <1>1 DEF IInv, TypeOK, Log
<1> QED BY <1>2, InitInvariant, InductiveStep, PTL DEF Spec
-----------------------------------------------------------------------------
(* The limiter implements Quota.                                           *)

Recent == [k \in Keys |-> Within(requestLog[k], W)]

(* Entries that age and expire are grants that get older and fall out of   *)
(* the window; what an age saturates at is outside of it.                  *)
LEMMA AgedWithin ==
  ASSUME NEW k \in Keys, NEW dq, Log(k, dq)
  PROVE  Within(AgedLog(dq), W) = Within(Older(Within(dq, W)), W)
<1> DEFINE a == AgedLog(dq)
           d == Within(dq, W)
           o == Older(d)
<1>0. W \in Nat /\ windowMs \in Nat /\ W = windowMs + 1
      BY LimiterAssumption DEF W
<1>1. dq \in Seq(Nat) /\ Sorted(dq) /\ \A i \in DOMAIN dq : dq[i] <= W
      BY DEF Log
<1>2. /\ a \in Seq(Nat) /\ Sorted(a) /\ Len(a) = Len(dq) /\ DOMAIN a = DOMAIN dq
      /\ \A i \in DOMAIN dq : a[i] = Aged(dq[i])
      BY AgedIsLog DEF Log
<1>3. PICK n : Past(dq, W, n)
      BY <1>0, <1>1, PastExists
<1>4. /\ d \in Seq(Nat) /\ n \in Nat /\ Len(d) = Len(dq) - n
      /\ \A i \in 1..(Len(dq) - n) : d[i] = dq[n + i] /\ d[i] < W
      BY <1>0, <1>1, <1>3, WithinElements
<1>5. /\ o \in Seq(Nat) /\ Len(o) = Len(d) /\ DOMAIN o = DOMAIN d
      /\ \A i \in DOMAIN d : o[i] = d[i] + 1
      BY <1>4, OlderFacts
<1>6. PICK m : Past(a, W, m)
      BY <1>0, <1>2, PastExists
<1>7. /\ Within(a, W) \in Seq(Nat) /\ m \in Nat /\ Len(Within(a, W)) = Len(a) - m
      /\ \A i \in 1..(Len(a) - m) : Within(a, W)[i] = a[m + i]
      BY <1>0, <1>2, <1>6, WithinElements
<1>8. /\ Len(dq) \in Nat /\ DOMAIN dq = 1..Len(dq) /\ \A i \in 1..Len(dq) : dq[i] \in Nat
      /\ DOMAIN d = 1..(Len(dq) - n)
      BY <1>1, <1>4, LenProperties
<1>9. /\ n \in 0..Len(dq) /\ \A i \in 1..Len(dq) : i <= n <=> dq[i] >= W
      /\ m \in 0..Len(dq) /\ \A i \in 1..Len(dq) : i <= m <=> Aged(dq[i]) >= W
      BY <1>2, <1>3, <1>6, <1>8 DEF Past
<1> HIDE DEF a, d, o
<1>10. n <= m
  <2>1. CASE n > m
    <3>1. n \in 1..Len(dq) /\ dq[n] >= W /\ ~(Aged(dq[n]) >= W)
          BY <1>8, <1>9, <2>1
    <3> QED BY <1>0, <1>8, <3>1 DEF Aged
  <2> QED BY <1>9, <2>1
<1>11. \A i \in 1..(Len(dq) - n) : o[i] = Aged(dq[n + i])
  <2>1. ASSUME NEW i \in 1..(Len(dq) - n) PROVE o[i] = Aged(dq[n + i])
    <3>0. n + i \in 1..Len(dq) /\ i \in DOMAIN d
          BY <1>8, <1>9
    <3>1. o[i] = dq[n + i] + 1 /\ n + i \in 1..Len(dq)
          BY <1>4, <1>5, <3>0
    <3>2. ~(dq[n + i] >= W) /\ dq[n + i] \in Nat
          BY <1>4, <1>8, <1>9, <3>1
    <3> QED BY <1>0, <3>1, <3>2 DEF Aged
  <2> QED BY <2>1
<1> DEFINE q == m - n
<1>12. Past(o, W, q)
  <2>1. m - n \in 0..Len(o)
        BY <1>4, <1>5, <1>8, <1>9, <1>10
  <2>2. ASSUME NEW i \in 1..(Len(dq) - n) PROVE i <= m - n <=> o[i] >= W
    <3>1. n + i \in 1..Len(dq) /\ (i <= m - n <=> n + i <= m)
          BY <1>4, <1>8, <1>9
    <3> QED BY <1>9, <1>11, <3>1
  <2> QED BY <1>5, <1>8, <2>1, <2>2 DEF Past
<1>13. q = m - n
       OBVIOUS
<1> HIDE DEF q
<1>14. /\ Within(o, W) \in Seq(Nat) /\ Len(Within(o, W)) = Len(o) - q
       /\ \A i \in 1..(Len(o) - q) : Within(o, W)[i] = o[q + i]
       BY <1>0, <1>5, <1>12, WithinElements
<1>15. Len(Within(o, W)) = Len(Within(a, W)) /\ Len(Within(a, W)) = Len(dq) - m
       BY <1>2, <1>4, <1>5, <1>7, <1>8, <1>9, <1>14, <1>13
<1>16. ASSUME NEW i \in 1..(Len(dq) - m) PROVE Within(o, W)[i] = Within(a, W)[i]
  <2>1. /\ i \in 1..(Len(o) - q) /\ q + i \in 1..(Len(dq) - n)
        /\ n + (q + i) = m + i /\ m + i \in 1..Len(dq)
        BY <1>4, <1>5, <1>8, <1>9, <1>10, <1>13
  <2>2. Within(o, W)[i] = Aged(dq[m + i])
        BY <1>11, <1>14, <2>1
  <2>3. Within(a, W)[i] = Aged(dq[m + i])
        BY <1>2, <1>7, <1>8, <2>1
  <2> QED BY <2>2, <2>3
<1> QED BY <1>7, <1>14, <1>15, <1>16, SeqEqual DEF a, d, o

LEMMA QuotaInit == Init => Quota!Init
<1>1. Within(<<>>, W) = <<>>
  <2>1. <<>> \in Seq(Nat) /\ W \in Nat
        BY LimiterAssumption DEF W
  <2>2. \A i \in DOMAIN <<>> : <<>>[i] < W
        OBVIOUS
  <2> QED BY <2>1, <2>2, WithinAll
<1> QED BY <1>1 DEF Init, Quota!Init, W

LEMMA QuotaStep == ASSUME IInv, [Next]_vars PROVE [Quota!Next]_(Quota!quotavars)
<1> USE DEF Quota!Next, Quota!quotavars
<1>0. W \in Nat /\ windowMs + 1 = W /\ W > 0
      BY LimiterAssumption DEF W
<1>1. ASSUME NEW k \in Keys, Ask(k) PROVE Quota!Ask(k)
      BY <1>1 DEF Ask, Quota!Ask
<1>2. ASSUME NEW k \in Keys, allowRequest(k)
      PROVE  Quota!Grant(k) \/ Quota!Refuse(k)
  <2> DEFINE dq == Within(requestLog[k], W)
  <2>1. /\ Log(k, dq) /\ \A i \in DOMAIN dq : dq[i] < W
        /\ \/ /\ Full(k, dq) /\ verdict' = [verdict EXCEPT ![k] = "refused"]
              /\ requestLog' = [requestLog EXCEPT ![k] = dq]
           \/ /\ ~Full(k, dq) /\ verdict' = [verdict EXCEPT ![k] = "granted"]
              /\ requestLog' = [requestLog EXCEPT ![k] = Append(dq, 0)]
              /\ Log(k, Append(dq, 0))
        BY <1>2, AllowEffect
  <2>2. Recent[k] = dq /\ verdict[k] = "pending"
        BY <1>2 DEF Recent, allowRequest
  <2>3. Len(dq) \in Nat /\ AsSize(maxRequests[k]) \in Nat
        BY <2>1, LenProperties, SizeType DEF Log
  <2> HIDE DEF dq
  <2>4. CASE Full(k, dq)
    <3>1. Within(dq, W) = dq
          BY <1>0, <2>1, WithinAll DEF Log
    <3>2. Recent' = Recent
          BY <2>1, <2>2, <2>4, <3>1 DEF IInv, Recent, W
    <3>3. Len(Recent[k]) >= AsSize(maxRequests[k])
          BY <2>2, <2>4 DEF Full
    <3> QED BY <1>0, <2>1, <2>2, <2>4, <3>2, <3>3 DEF Quota!Refuse, Recent
  <2>5. CASE ~Full(k, dq)
    <3>1. Within(Append(dq, 0), W) = Append(dq, 0)
      <4>1. /\ DOMAIN dq = 1..Len(dq) /\ DOMAIN Append(dq, 0) = 1..(Len(dq) + 1)
            /\ \A i \in 1..Len(dq) : Append(dq, 0)[i] = dq[i]
            /\ Append(dq, 0)[Len(dq) + 1] = 0
            BY <2>1, <2>5, AppendProperties, LenProperties DEF Log
      <4>2. \A i \in DOMAIN Append(dq, 0) : Append(dq, 0)[i] < W
            BY <1>0, <2>1, <2>3, <4>1
      <4> QED BY <1>0, <2>1, <2>5, <4>2, WithinAll DEF Log
    <3>2. Recent' = [Recent EXCEPT ![k] = Append(Recent[k], 0)]
          BY <2>1, <2>2, <2>5, <3>1 DEF IInv, Recent, W
    <3>3. Len(Recent[k]) < AsSize(maxRequests[k])
          BY <2>2, <2>3, <2>5 DEF Full
    <3> QED BY <1>0, <2>1, <2>2, <2>5, <3>2, <3>3 DEF Quota!Grant, Recent
  <2> QED BY <2>4, <2>5
<1>3. CASE Tick
  <2>1. requestLog' = [k \in Keys |-> AgedLog(requestLog[k])] /\ UNCHANGED verdict
        BY <1>3 DEF Tick, AgedLog
  <2>2. \A k \in Keys :
          Within(requestLog'[k], W) = Within(Older(Within(requestLog[k], W)), W)
        BY <2>1, AgedWithin DEF IInv
  <2>3. \A s : Quota!Older(s) = Older(s)
        BY DEF Quota!Older, Older
  <2>4. \A s, w : Quota!Within(s, w) = Within(s, w)
        BY DEF Quota!Within, Within
  <2>5. Quota!Pass
        BY <1>0, <2>1, <2>2, <2>3, <2>4 DEF Quota!Pass
  <2> QED BY <2>5
<1>4. CASE UNCHANGED vars
      BY <1>4 DEF vars
<1> QED BY <1>1, <1>2, <1>3, <1>4 DEF Next

(* allowRequest keeps its quota exactly (:19-29): in any windowMs it       *)
(* grants a key at most maxRequests, which a negative int wraps to, and    *)
(* refuses it nothing before.                                              *)
THEOREM QuotaRefinement == Spec => ImplementsQuota
BY InitInvariant, InductiveStep, QuotaInit, QuotaStep, PTL
   DEF Spec, ImplementsQuota, Quota!Spec
=============================================================================
