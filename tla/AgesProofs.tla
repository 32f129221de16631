----------------------------- MODULE AgesProofs -----------------------------
(***************************************************************************)
(* Lemmas about ages that are in order, the oldest first.                  *)
(***************************************************************************)
EXTENDS Ages, Integers, SequenceTheorems, FiniteSetTheorems, TLAPS

Sorted(ages) == \A i, j \in DOMAIN ages : i < j => ages[i] >= ages[j]

(* The first n are as old as the window or older, and no others.           *)
Past(ages, window, n) ==
  n \in 0..Len(ages) /\ \A i \in DOMAIN ages : i <= n <=> ages[i] >= window

LEMMA PastExists ==
  ASSUME NEW s \in Seq(Nat), Sorted(s), NEW w \in Nat
  PROVE  \E n : Past(s, w, n)
<1> DEFINE E == {i \in DOMAIN s : s[i] >= w}
<1>1. Len(s) \in Nat /\ DOMAIN s = 1..Len(s) /\ \A i \in 1..Len(s) : s[i] \in Nat
      BY LenProperties
<1>2. IsFiniteSet(1..Len(s)) /\ Cardinality(1..Len(s)) = Len(s)
      BY <1>1, FS_Interval
<1>3. E \in SUBSET (1..Len(s)) /\ IsFiniteSet(E)
      BY <1>1, <1>2, FS_Subset
<1>4. Cardinality(E) \in Nat /\ Cardinality(E) <= Len(s)
      BY <1>2, <1>3, FS_Subset, FS_CardinalityType
<1>5. ASSUME NEW i \in E PROVE i \in 1..Cardinality(E)
  <2>1. i \in 1..Len(s)
        BY <1>1
  <2>2. 1..i \in SUBSET E
        BY <1>1, <2>1 DEF Sorted
  <2>3. Cardinality(1..i) = i
        BY <2>1, FS_Interval
  <2>4. Cardinality(1..i) <= Cardinality(E)
        BY <1>3, <2>2, FS_Subset
  <2> QED BY <1>4, <2>1, <2>3, <2>4
<1>6. IsFiniteSet(1..Cardinality(E)) /\ Cardinality(1..Cardinality(E)) = Cardinality(E)
      BY <1>4, FS_Interval
<1>7. E = 1..Cardinality(E)
      BY <1>5, <1>6, FS_Subset
<1>8. Past(s, w, Cardinality(E))
  <2> HIDE DEF E
  <2>1. \A i \in DOMAIN s : s[i] >= w <=> i \in E
        BY DEF E
  <2> QED BY <1>1, <1>4, <1>7, <2>1 DEF Past
<1> QED BY <1>8

LEMMA WithinIs ==
  ASSUME NEW s \in Seq(Nat), NEW w \in Nat, NEW n, Past(s, w, n)
  PROVE  Within(s, w) = SubSeq(s, n + 1, Len(s))
<1> DEFINE m == CHOOSE k \in 0..Len(s) : \A i \in DOMAIN s : i <= k <=> s[i] >= w
<1>1. Len(s) \in Nat /\ DOMAIN s = 1..Len(s)
      BY LenProperties
<1>2. /\ n \in 0..Len(s)
      /\ \A i \in DOMAIN s : i <= n <=> s[i] >= w
      BY DEF Past
<1>3. m \in 0..Len(s) /\ \A i \in DOMAIN s : i <= m <=> s[i] >= w
      BY <1>2
<1>4. Within(s, w) = SubSeq(s, m + 1, Len(s))
      BY DEF Within
<1> HIDE DEF m
<1>5. m = n
  <2>1. CASE m < n
    <3>1. n \in DOMAIN s
          BY <1>1, <1>2, <1>3, <2>1
    <3> QED BY <1>1, <1>2, <1>3, <2>1, <3>1
  <2>2. CASE n < m
    <3>1. m \in DOMAIN s
          BY <1>1, <1>2, <1>3, <2>2
    <3> QED BY <1>1, <1>2, <1>3, <2>2, <3>1
  <2> QED BY <1>1, <1>2, <1>3, <2>1, <2>2
<1> QED BY <1>4, <1>5

(* What is within the window, element by element.                          *)
LEMMA WithinElements ==
  ASSUME NEW s \in Seq(Nat), NEW w \in Nat, NEW n, Past(s, w, n)
  PROVE  /\ Within(s, w) \in Seq(Nat) /\ n \in Nat
         /\ Len(Within(s, w)) = Len(s) - n
         /\ \A i \in 1..(Len(s) - n) :
              Within(s, w)[i] = s[n + i] /\ Within(s, w)[i] < w
<1>1. /\ Len(s) \in Nat /\ DOMAIN s = 1..Len(s) /\ n \in 0..Len(s)
      /\ \A i \in 1..Len(s) : s[i] \in Nat
      /\ \A i \in DOMAIN s : i <= n <=> s[i] >= w
      BY LenProperties DEF Past
<1>2. Within(s, w) = SubSeq(s, n + 1, Len(s))
      BY WithinIs
<1>3. /\ SubSeq(s, n + 1, Len(s)) \in Seq(Nat)
      /\ Len(SubSeq(s, n + 1, Len(s))) =
           IF n + 1 <= Len(s) THEN Len(s) - (n + 1) + 1 ELSE 0
      /\ \A i \in 1..(Len(s) - (n + 1) + 1) :
           SubSeq(s, n + 1, Len(s))[i] = s[(n + 1) + i - 1]
  <2>1. \A i \in (n + 1)..Len(s) : s[i] \in Nat
        BY <1>1
  <2>2. n + 1 \in Int /\ Len(s) \in Int
        BY <1>1
  <2> QED BY <2>1, <2>2, SubSeqProperties
<1>4. ASSUME NEW i \in 1..(Len(s) - n)
      PROVE  SubSeq(s, n + 1, Len(s))[i] = s[n + i] /\ s[n + i] < w
  <2>1. i \in 1..(Len(s) - (n + 1) + 1) /\ (n + 1) + i - 1 = n + i
        BY <1>1
  <2>2. n + i \in 1..Len(s) /\ ~(n + i <= n)
        BY <1>1
  <2>3. ~(s[n + i] >= w) /\ s[n + i] \in Nat
        BY <1>1, <2>2
  <2> QED BY <1>3, <2>1, <2>3
<1>5. Len(SubSeq(s, n + 1, Len(s))) = Len(s) - n
  <2>1. n \in Int /\ Len(s) \in Int /\ n <= Len(s)
        BY <1>1
  <2>2. CASE n + 1 <= Len(s)
    <3>1. Len(SubSeq(s, n + 1, Len(s))) = Len(s) - (n + 1) + 1
          BY <1>3, <2>2
    <3> QED BY <2>1, <3>1
  <2>3. CASE ~(n + 1 <= Len(s))
    <3>1. Len(SubSeq(s, n + 1, Len(s))) = 0
          BY <1>3, <2>3
    <3>2. n = Len(s)
          BY <2>1, <2>3
    <3> QED BY <2>1, <3>1, <3>2
  <2> QED BY <2>2, <2>3
<1>6. SubSeq(s, n + 1, Len(s)) \in Seq(Nat) /\ n \in Nat
      BY <1>1, <1>3
<1> QED BY <1>2, <1>4, <1>5, <1>6

LEMMA WithinSorted ==
  ASSUME NEW s \in Seq(Nat), Sorted(s), NEW w \in Nat
  PROVE  /\ Within(s, w) \in Seq(Nat) /\ Sorted(Within(s, w))
         /\ Len(Within(s, w)) \in 0..Len(s)
         /\ \A i \in DOMAIN Within(s, w) : Within(s, w)[i] < w
<1>1. PICK n : Past(s, w, n)
      BY PastExists
<1>2. /\ Within(s, w) \in Seq(Nat) /\ n \in Nat
      /\ Len(Within(s, w)) = Len(s) - n
      /\ \A i \in 1..(Len(s) - n) :
           Within(s, w)[i] = s[n + i] /\ Within(s, w)[i] < w
      BY <1>1, WithinElements
<1>3. /\ Len(s) \in Nat /\ DOMAIN s = 1..Len(s)
      /\ Len(Within(s, w)) \in Nat
      /\ DOMAIN Within(s, w) = 1..(Len(s) - n)
      BY <1>2, LenProperties
<1>4. Sorted(Within(s, w))
  <2> SUFFICES ASSUME NEW i \in 1..(Len(s) - n), NEW j \in 1..(Len(s) - n), i < j
               PROVE  Within(s, w)[i] >= Within(s, w)[j]
      BY <1>3 DEF Sorted
  <2>1. n + i \in DOMAIN s /\ n + j \in DOMAIN s /\ n + i < n + j
        BY <1>2, <1>3
  <2> QED BY <1>2, <2>1 DEF Sorted
<1> QED BY <1>2, <1>3, <1>4

(* Nothing is past.                                                        *)
LEMMA WithinAll ==
  ASSUME NEW s \in Seq(Nat), NEW w \in Nat, \A i \in DOMAIN s : s[i] < w
  PROVE  Within(s, w) = s
<1>1. Len(s) \in Nat /\ DOMAIN s = 1..Len(s) /\ \A i \in 1..Len(s) : s[i] \in Nat
      BY LenProperties
<1>2. Past(s, w, 0)
      BY <1>1 DEF Past
<1> QED BY <1>2, WithinIs, SubSeqFull

(* The next one is the youngest.                                           *)
LEMMA AppendSorted ==
  ASSUME NEW s \in Seq(Nat), Sorted(s)
  PROVE  /\ Append(s, 0) \in Seq(Nat) /\ Sorted(Append(s, 0))
         /\ Len(Append(s, 0)) = Len(s) + 1
         /\ \A i \in DOMAIN s : Append(s, 0)[i] = s[i]
         /\ Append(s, 0)[Len(s) + 1] = 0
<1>1. /\ Append(s, 0) \in Seq(Nat)
      /\ Len(Append(s, 0)) = Len(s) + 1
      /\ \A i \in 1..Len(s) : Append(s, 0)[i] = s[i]
      /\ Append(s, 0)[Len(s) + 1] = 0
      BY AppendProperties
<1>2. /\ Len(s) \in Nat /\ DOMAIN s = 1..Len(s) /\ \A i \in 1..Len(s) : s[i] \in Nat
      /\ DOMAIN Append(s, 0) = 1..(Len(s) + 1)
      BY <1>1, LenProperties
<1> QED BY <1>1, <1>2 DEF Sorted

LEMMA OlderFacts ==
  ASSUME NEW s \in Seq(Nat)
  PROVE  /\ Older(s) \in Seq(Nat) /\ Len(Older(s)) = Len(s)
         /\ DOMAIN Older(s) = DOMAIN s
         /\ \A i \in DOMAIN s : Older(s)[i] = s[i] + 1
         /\ Sorted(s) => Sorted(Older(s))
<1>1. Len(s) \in Nat /\ DOMAIN s = 1..Len(s) /\ \A i \in 1..Len(s) : s[i] \in Nat
      BY LenProperties
<1>2. Older(s) \in [1..Len(s) -> Nat]
      BY <1>1 DEF Older
<1>3. Older(s) \in Seq(Nat)
      BY <1>1, <1>2, SeqDef
<1>4. DOMAIN Older(s) = DOMAIN s /\ \A i \in DOMAIN s : Older(s)[i] = s[i] + 1
      BY DEF Older
<1>5. Len(Older(s)) = Len(s)
      BY <1>1, <1>3, <1>4, LenProperties
<1> QED BY <1>1, <1>3, <1>4, <1>5 DEF Sorted
=============================================================================
