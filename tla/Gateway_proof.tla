----------------------------- MODULE Gateway_proof -----------------------------
(***************************************************************************)
(* The deque of InMemoryRateLimiter holds what the sliding window needs,   *)
(* for every limit, window, resolution of the clock and set of identities; *)
(* Gateway's requests use it as its specification allows, and each spends  *)
(* its own key's quota.                                                    *)
(***************************************************************************)
EXTENDS Gateway, TLAPS, SequenceTheorems, FiniteSetTheorems, WellFoundedInduction

-----------------------------------------------------------------------------
(* What the while loop leaves of a deque *)

LEMMA TimesProperties ==
  ASSUME NEW h \in Times
  PROVE  /\ Len(h) \in Nat /\ DOMAIN h = 1..Len(h)
         /\ \A k \in 1..Len(h) : h[k] \in Nat
BY LenProperties, ElementOfSeq DEF Times

LEMMA AppendTime ==
  ASSUME NEW h \in Times, NEW t \in Nat
  PROVE  /\ Append(h, t) \in Times
         /\ Len(Append(h, t)) = Len(h) + 1
         /\ \A k \in 1..Len(h) : Append(h, t)[k] = h[k]
         /\ Append(h, t)[Len(h) + 1] = t
BY AppendProperties DEF Times

\* The loop pops every entry before the first that is recent enough, and stops.
LEMMA EvictedExists ==
  ASSUME NEW h \in Times, NEW t \in Nat
  PROVE  /\ Evicted(h, t) \in 0..Len(h)
         /\ \A k \in 1..Evicted(h, t) : h[k] < t - Window
         /\ Evicted(h, t) = Len(h) \/ h[Evicted(h, t) + 1] >= t - Window
<1> DEFINE start == t - Window
           Stops == {n \in 0..Len(h) : n = Len(h) \/ h[n + 1] >= start}
<1>1. Len(h) \in Nat /\ start \in Int /\ \A k \in 1..Len(h) : h[k] \in Nat
  BY TimesProperties, LimiterAssumption
<1>2. Len(h) \in Stops /\ Stops \subseteq Nat
  BY <1>1
<1>3. PICK n \in Stops : \A m \in Stops : ~(<<m, n>> \in OpToRel(<, Nat))
  BY <1>2, NatLessThanWellFounded, WFMin
<1>4. \A m \in Stops : ~(m < n)
  BY <1>2, <1>3 DEF OpToRel
<1>5. \A k \in 1..n : h[k] < start
  <2> SUFFICES ASSUME NEW k \in 1..n PROVE h[k] < start
    OBVIOUS
  <2>1. k - 1 \in 0..Len(h) /\ k - 1 < n /\ k \in 1..Len(h) /\ (k - 1) + 1 = k
    BY <1>1, <1>2
  <2>2. k - 1 \notin Stops
    BY <1>4, <2>1
  <2>3. ~(h[k] >= start)
    BY <2>1, <2>2
  <2> QED BY <1>1, <2>1, <2>3
<1>6. n \in 0..Len(h) /\ (n = Len(h) \/ h[n + 1] >= start)
  BY <1>3
<1> QED BY <1>5, <1>6 DEF Evicted

LEMMA KeptProperties ==
  ASSUME NEW h \in Times, NEW t \in Nat
  PROVE  /\ Kept(h, t) \in Times
         /\ Evicted(h, t) \in 0..Len(h)
         /\ Len(Kept(h, t)) = Len(h) - Evicted(h, t)
         /\ \A k \in 1..Len(Kept(h, t)) : Kept(h, t)[k] = h[Evicted(h, t) + k]
         /\ \A k \in 1..Len(Kept(h, t)) : Kept(h, t)[1] >= t - Window
         /\ \A k \in 1..Evicted(h, t) : h[k] < t - Window
<1> DEFINE e == Evicted(h, t)
<1>1. /\ Len(h) \in Nat /\ e \in 0..Len(h) /\ \A k \in 1..Len(h) : h[k] \in Nat
      /\ \A k \in 1..e : h[k] < t - Window
      /\ e = Len(h) \/ h[e + 1] >= t - Window
  BY TimesProperties, EvictedExists
<1> HIDE DEF e
<1>2. \A k \in (e + 1)..Len(h) : h[k] \in Nat
  BY <1>1
<1>3. /\ SubSeq(h, e + 1, Len(h)) \in Seq(Nat)
      /\ Len(SubSeq(h, e + 1, Len(h))) =
           IF e + 1 <= Len(h) THEN Len(h) - (e + 1) + 1 ELSE 0
      /\ \A k \in 1..(Len(h) - (e + 1) + 1) :
           SubSeq(h, e + 1, Len(h))[k] = h[(e + 1) + k - 1]
  BY <1>1, <1>2, SubSeqProperties
<1> DEFINE kept == SubSeq(h, e + 1, Len(h))
<1>4. Len(kept) = Len(h) - e
  BY <1>1, <1>3
<1>5. \A k \in 1..Len(kept) : kept[k] = h[e + k]
  <2> SUFFICES ASSUME NEW k \in 1..Len(kept) PROVE kept[k] = h[e + k]
    OBVIOUS
  <2>1. k \in 1..(Len(h) - (e + 1) + 1) /\ (e + 1) + k - 1 = e + k
    BY <1>1, <1>4
  <2> QED BY <1>3, <2>1
<1>6. \A k \in 1..Len(kept) : kept[1] >= t - Window
  BY <1>1, <1>4, <1>5
<1>7. Kept(h, t) = kept
  BY DEF Kept, e
<1>8. kept \in Times
  BY <1>3 DEF Times
<1> HIDE DEF kept
<1> QED BY <1>1, <1>4, <1>5, <1>6, <1>7, <1>8 DEF e

-----------------------------------------------------------------------------
(* The deque is the recent end of the list of admissions *)

Sorted ==
  \A i \in Identities : \A k \in DOMAIN admitted[i] :
    /\ admitted[i][k] <= now
    /\ \A j \in 1..k : admitted[i][j] <= admitted[i][k]

\* h is what remains of i's admissions without the first m, which have expired.
Remains(i, m, h) ==
  /\ m + Len(h) = Len(admitted[i])
  /\ \A k \in 1..Len(h) : h[k] = admitted[i][m + k]
  /\ \A k \in 1..m : admitted[i][k] < now - Window

Suffix == \A i \in Identities : \E m \in Nat : Remains(i, m, bucket[i])

LEMMA LengthsAdd ==
  ASSUME NEW m \in Nat, NEW l \in Nat, NEW n \in Nat, NEW e \in 0..l, NEW k \in Nat,
         m + l = n, k = l - e
  PROVE  m + e \in Nat /\ (m + e) + k = n
OBVIOUS

LEMMA UpperInterval ==
  ASSUME NEW m \in Nat, NEW l \in Nat, NEW n \in Nat, m + l = n
  PROVE  Cardinality((m + 1)..n) = l
<1>1. m + 1 \in Int /\ n \in Int
  OBVIOUS
<1>2. Cardinality((m + 1)..n) = IF m + 1 > n THEN 0 ELSE n - (m + 1) + 1
  BY <1>1, FS_Interval
<1>3. (IF m + 1 > n THEN 0 ELSE n - (m + 1) + 1) = l
  OBVIOUS
<1> QED BY <1>2, <1>3

LEMMA KeptRemains ==
  ASSUME TypeOK, Sorted, Suffix, NEW i \in Identities
  PROVE  \E m \in Nat :
           /\ Remains(i, m, Kept(bucket[i], now))
           /\ \A k \in (m + 1)..Len(admitted[i]) : admitted[i][k] >= now - Window
<1> DEFINE h == bucket[i]
           a == admitted[i]
           e == Evicted(h, now)
           kept == Kept(h, now)
<1>1. h \in Times /\ a \in Times /\ now \in Nat /\ Window \in Nat
  BY LimiterAssumption DEF TypeOK
<1>2. PICK m \in Nat : Remains(i, m, h)
  BY DEF Suffix
<1>3. /\ m + Len(h) = Len(a)
      /\ \A k \in 1..Len(h) : h[k] = a[m + k]
      /\ \A k \in 1..m : a[k] < now - Window
  BY <1>2 DEF Remains
<1>4. /\ kept \in Times /\ e \in 0..Len(h) /\ Len(kept) = Len(h) - e
      /\ \A k \in 1..Len(kept) : kept[k] = h[e + k]
      /\ \A k \in 1..Len(kept) : kept[1] >= now - Window
      /\ \A k \in 1..e : h[k] < now - Window
  BY <1>1, KeptProperties
<1>5. Len(h) \in Nat /\ Len(a) \in Nat /\ \A k \in 1..Len(a) : a[k] \in Nat
  BY <1>1, TimesProperties
<1>6. \A k \in DOMAIN a : \A j \in 1..k : a[j] <= a[k]
  BY DEF Sorted
<1>7. DOMAIN a = 1..Len(a)
  BY <1>1, TimesProperties
<1> HIDE DEF h, a, e, kept
<1>8. m + e \in Nat /\ (m + e) + Len(kept) = Len(a)
  <2>1. Len(kept) \in Nat
    BY <1>4, TimesProperties
  <2>2. m + Len(h) = Len(a)
    BY <1>3
  <2>3. e \in 0..Len(h) /\ Len(kept) = Len(h) - e
    BY <1>4
  <2>4. Len(h) \in Nat /\ Len(a) \in Nat
    BY <1>5
  <2> QED BY <2>1, <2>2, <2>3, <2>4, LengthsAdd
<1>9. \A k \in 1..Len(kept) : kept[k] = a[(m + e) + k]
  <2> SUFFICES ASSUME NEW k \in 1..Len(kept) PROVE kept[k] = a[(m + e) + k]
    OBVIOUS
  <2>1. e + k \in 1..Len(h) /\ m + (e + k) = (m + e) + k
    BY <1>4, <1>5
  <2> QED BY <1>3, <1>4, <2>1
<1>10. \A k \in 1..(m + e) : a[k] < now - Window
  <2> SUFFICES ASSUME NEW k \in 1..(m + e) PROVE a[k] < now - Window
    OBVIOUS
  <2>1. CASE k <= m
    BY <1>3, <2>1
  <2>2. CASE ~(k <= m)
    <3>1. k - m \in 1..e /\ k - m \in 1..Len(h) /\ m + (k - m) = k
      BY <1>4, <1>5, <2>2
    <3>2. h[k - m] = a[k] /\ h[k - m] < now - Window
      BY <1>3, <1>4, <3>1
    <3> QED BY <3>2
  <2> QED BY <2>1, <2>2
<1>11. \A k \in ((m + e) + 1)..Len(a) : a[k] >= now - Window
  <2> SUFFICES ASSUME NEW k \in ((m + e) + 1)..Len(a) PROVE a[k] >= now - Window
    OBVIOUS
  <2>1. 1 \in 1..Len(kept) /\ (m + e) + 1 \in 1..k /\ k \in 1..Len(a)
        /\ (m + e) + 1 \in 1..Len(a)
    BY <1>5, <1>8
  <2>2. kept[1] = a[(m + e) + 1] /\ kept[1] >= now - Window
    BY <1>4, <1>9, <2>1
  <2>3. a[(m + e) + 1] <= a[k]
    BY <1>6, <1>7, <2>1
  <2>4. a[(m + e) + 1] \in Nat /\ a[k] \in Nat
    BY <1>5, <2>1
  <2> QED BY <1>1, <2>2, <2>3, <2>4
<1>12. Remains(i, m + e, kept)
  BY <1>8, <1>9, <1>10 DEF Remains, a
<1> QED BY <1>8, <1>11, <1>12 DEF a, kept, h

\* The deque left by the loop is as long as the window has admissions.
LEMMA KeptCounts ==
  ASSUME TypeOK, Sorted, Suffix, NEW i \in Identities
  PROVE  Cardinality(Log!Recent(i)) = Len(Kept(bucket[i], now))
<1> DEFINE a == admitted[i]
           kept == Kept(bucket[i], now)
<1>1. PICK m \in Nat : /\ Remains(i, m, kept)
                       /\ \A k \in (m + 1)..Len(a) : a[k] >= now - Window
  BY KeptRemains
<1>2. /\ a \in Times /\ now \in Nat /\ Window \in Nat /\ bucket[i] \in Times
  BY LimiterAssumption DEF TypeOK
<1>3. /\ DOMAIN a = 1..Len(a) /\ Len(a) \in Nat /\ \A k \in 1..Len(a) : a[k] \in Nat
      /\ kept \in Times /\ Len(kept) \in Nat
  BY <1>2, KeptProperties, TimesProperties
<1>4. m + Len(kept) = Len(a) /\ \A k \in 1..m : a[k] < now - Window
  BY <1>1 DEF Remains
<1>5. Log!Recent(i) = {k \in 1..Len(a) : a[k] >= now - Window}
  BY <1>3 DEF Log!Recent
<1> HIDE DEF a, kept
<1>6. \A k \in 1..Len(a) : a[k] >= now - Window <=> k \in (m + 1)..Len(a)
  <2> SUFFICES ASSUME NEW k \in 1..Len(a)
               PROVE  a[k] >= now - Window <=> k \in (m + 1)..Len(a)
    OBVIOUS
  <2>1. CASE k <= m
    <3>1. a[k] < now - Window /\ a[k] \in Nat
      BY <1>3, <1>4, <2>1
    <3>2. ~(a[k] >= now - Window)
      BY <1>2, <3>1
    <3> QED BY <1>3, <2>1, <3>2
  <2>2. CASE ~(k <= m)
    <3>1. k \in (m + 1)..Len(a)
      BY <1>3, <2>2
    <3> QED BY <1>1, <3>1
  <2> QED BY <2>1, <2>2
<1>7. Log!Recent(i) = (m + 1)..Len(a)
  <2>1. (m + 1)..Len(a) \subseteq 1..Len(a)
    BY <1>3
  <2> QED BY <1>5, <1>6, <2>1
<1>8. Cardinality((m + 1)..Len(a)) = Len(kept)
  BY <1>3, <1>4, UpperInterval
<1> QED BY <1>7, <1>8 DEF kept

-----------------------------------------------------------------------------
(* Invariance *)

LEMMA StartsFresh == Init => TypeOK /\ Sorted /\ Suffix
<1> SUFFICES ASSUME Init PROVE TypeOK /\ Sorted /\ Suffix
  OBVIOUS
<1>1. <<>> \in Times /\ Len(<<>>) = 0 /\ DOMAIN <<>> = {}
  BY EmptySeq DEF Times
<1>2. TypeOK
  BY <1>1, LimiterAssumption DEF Init, TypeOK, NoDenial
<1>3. Sorted
  BY <1>1 DEF Init, Sorted
<1>4. ASSUME NEW i \in Identities PROVE Remains(i, 0, bucket[i])
  <2>1. admitted[i] = <<>> /\ bucket[i] = <<>>
    BY DEF Init
  <2> QED BY <1>1, <2>1 DEF Remains
<1>5. Suffix
  BY <1>4 DEF Suffix
<1> QED BY <1>2, <1>3, <1>5

\* The entries the loop leaves are no more than the limit.
LEMMA KeptTyped ==
  ASSUME TypeOK, NEW i \in Identities
  PROVE  /\ Kept(bucket[i], now) \in Times
         /\ Len(Kept(bucket[i], now)) \in 0..Limit
<1>1. bucket[i] \in Times /\ Len(bucket[i]) <= Limit /\ now \in Nat /\ Limit \in Nat
  BY LimiterAssumption DEF TypeOK
<1>2. /\ Kept(bucket[i], now) \in Times
      /\ Len(Kept(bucket[i], now)) = Len(bucket[i]) - Evicted(bucket[i], now)
      /\ Evicted(bucket[i], now) \in 0..Len(bucket[i])
  BY <1>1, KeptProperties
<1>3. Len(Kept(bucket[i], now)) \in Nat /\ Len(bucket[i]) \in Nat
  BY <1>1, <1>2, TimesProperties
<1>4. Len(Kept(bucket[i], now)) <= Len(bucket[i])
  BY <1>2, <1>3
<1> QED BY <1>1, <1>2, <1>3, <1>4

LEMMA TypedStep == TypeOK /\ [Next]_vars => TypeOK'
<1> SUFFICES ASSUME TypeOK, [Next]_vars PROVE TypeOK'
  OBVIOUS
<1>0. /\ now \in 0..MaxTime /\ MaxTime \in Nat /\ Limit \in Nat
      /\ bucket \in [Identities -> Times] /\ admitted \in [Identities -> Times]
      /\ \A i \in Identities : Len(bucket[i]) <= Limit
      /\ denial \in [Identities -> [at : -1..MaxTime, hint : Nat]]
  BY LimiterAssumption DEF TypeOK
<1>1. CASE UNCHANGED vars
  BY <1>1 DEF vars, TypeOK
<1>2. CASE Tick
  <2>1. now' \in 0..MaxTime
    BY <1>0, <1>2 DEF Tick
  <2> QED BY <1>2, <2>1 DEF Tick, TypeOK
<1>3. ASSUME NEW i \in Identities, Allow(i) PROVE TypeOK'
  <2> DEFINE kept == Kept(bucket[i], now)
  <2>1. kept \in Times /\ Len(kept) \in Nat /\ Len(kept) < Limit
    BY <1>3, KeptTyped DEF Allow
  <2>2. /\ bucket' = [bucket EXCEPT ![i] = Append(kept, now)]
        /\ admitted' = [admitted EXCEPT ![i] = Append(admitted[i], now)]
        /\ denial' = [denial EXCEPT ![i] = NoDenial]
        /\ verdict' = "allowed" /\ now' = now
    BY <1>3 DEF Allow
  <2> HIDE DEF kept
  <2>3. /\ Append(kept, now) \in Times /\ Len(Append(kept, now)) <= Limit
        /\ Append(admitted[i], now) \in Times
    BY <1>0, <2>1, AppendTime
  <2>4. NoDenial \in [at : -1..MaxTime, hint : Nat]
    BY <1>0 DEF NoDenial
  <2>5. bucket' \in [Identities -> Times] /\ \A j \in Identities : Len(bucket'[j]) <= Limit
    BY <1>0, <2>2, <2>3
  <2>6. admitted' \in [Identities -> Times]
    BY <1>0, <2>2, <2>3
  <2>7. denial' \in [Identities -> [at : -1..MaxTime, hint : Nat]]
    BY <1>0, <2>2, <2>4
  <2> QED BY <1>0, <2>2, <2>5, <2>6, <2>7 DEF TypeOK
<1>4. ASSUME NEW i \in Identities, Limited(i) PROVE TypeOK'
  <2> DEFINE kept == Kept(bucket[i], now)
             new == [at |-> now, hint |-> Hint(kept)]
  <2>1. kept \in Times /\ Len(kept) <= Limit /\ Len(kept) \in Nat /\ Len(kept) >= Limit
    BY <1>4, KeptTyped DEF Limited
  <2>2. /\ bucket' = [bucket EXCEPT ![i] = kept]
        /\ denial' = [denial EXCEPT ![i] = new]
        /\ verdict' = "rate_limited" /\ now' = now /\ admitted' = admitted
    BY <1>4 DEF Limited
  <2> HIDE DEF kept
  <2>3. Hint(kept) \in Nat
    <3>1. Limit >= 1 /\ Window \in Nat /\ Second \in Nat \ {0}
      BY LimiterAssumption
    <3>2. 1 \in 1..Len(kept)
      BY <1>0, <2>1, <3>1
    <3>3. kept[1] \in Nat
      BY <2>1, <3>2, TimesProperties
    <3> DEFINE wait == (kept[1] + Window - now) \div Second
    <3>4. wait \in Int
      BY <1>0, <3>1, <3>3
    <3>5. Hint(kept) = IF wait > 1 THEN wait ELSE 1
      BY DEF Hint
    <3> HIDE DEF wait
    <3> QED BY <3>4, <3>5
  <2>4. new \in [at : -1..MaxTime, hint : Nat]
    BY <1>0, <2>3
  <2> HIDE DEF new
  <2>5. denial' \in [Identities -> [at : -1..MaxTime, hint : Nat]]
    BY <1>0, <2>2, <2>4
  <2>6. bucket' \in [Identities -> Times] /\ \A j \in Identities : Len(bucket'[j]) <= Limit
    BY <1>0, <2>1, <2>2
  <2> QED BY <1>0, <2>2, <2>5, <2>6 DEF TypeOK
<1> QED BY <1>1, <1>2, <1>3, <1>4 DEF Next

LEMMA SortedStep == TypeOK /\ Sorted /\ [Next]_vars => Sorted'
<1> SUFFICES ASSUME TypeOK, Sorted, [Next]_vars PROVE Sorted'
  OBVIOUS
<1>0. /\ now \in Nat /\ admitted \in [Identities -> Times]
      /\ \A j \in Identities : /\ DOMAIN admitted[j] = 1..Len(admitted[j])
                               /\ Len(admitted[j]) \in Nat
                               /\ \A k \in 1..Len(admitted[j]) : admitted[j][k] \in Nat
  BY TimesProperties, LimiterAssumption DEF TypeOK
<1>1. CASE UNCHANGED vars
  BY <1>1 DEF vars, Sorted
<1>2. CASE Tick
  <2>1. now' = now + 1 /\ admitted' = admitted
    BY <1>2 DEF Tick
  <2>2. \A j \in Identities : \A k \in DOMAIN admitted[j] : admitted[j][k] <= now + 1
    BY <1>0 DEF Sorted
  <2> QED BY <2>1, <2>2 DEF Sorted
<1>3. ASSUME NEW i \in Identities, Limited(i) PROVE Sorted'
  BY <1>3 DEF Limited, Sorted
<1>4. ASSUME NEW i \in Identities, Allow(i) PROVE Sorted'
  <2> DEFINE a == admitted[i]
             b == Append(a, now)
  <2>1. /\ admitted' = [admitted EXCEPT ![i] = b] /\ now' = now
    BY <1>4 DEF Allow
  <2>2. /\ a \in Times /\ DOMAIN a = 1..Len(a) /\ Len(a) \in Nat
        /\ \A k \in 1..Len(a) : a[k] \in Nat
    BY <1>0
  <2>3. /\ b \in Times /\ Len(b) = Len(a) + 1 /\ b[Len(a) + 1] = now
        /\ \A k \in 1..Len(a) : b[k] = a[k]
    BY <1>0, <2>2, AppendTime
  <2>4. DOMAIN b = 1..(Len(a) + 1)
    BY <2>3, TimesProperties
  <2>5. \A k \in 1..Len(a) : a[k] <= now /\ \A j \in 1..k : a[j] <= a[k]
    BY <2>2 DEF Sorted
  <2> HIDE DEF a, b
  <2>6. ASSUME NEW k \in DOMAIN b
        PROVE  b[k] <= now /\ \A j \in 1..k : b[j] <= b[k]
    <3>1. CASE k \in 1..Len(a)
      <4>1. b[k] = a[k] /\ \A j \in 1..k : b[j] = a[j]
        BY <2>2, <2>3, <3>1
      <4> QED BY <2>5, <3>1, <4>1
    <3>2. CASE k = Len(a) + 1
      <4>1. b[k] = now
        BY <2>3, <3>2
      <4>2. \A j \in 1..Len(a) : b[j] <= now
        BY <2>3, <2>5
      <4>3. \A j \in 1..k : j \in 1..Len(a) \/ j = k
        BY <2>2, <3>2
      <4> QED BY <1>0, <4>1, <4>2, <4>3
    <3> QED BY <2>2, <2>4, <3>1, <3>2
  <2>7. admitted'[i] = b /\ \A j \in Identities : j # i => admitted'[j] = admitted[j]
    BY <1>0, <2>1
  <2> QED BY <2>1, <2>6, <2>7 DEF Sorted
<1> QED BY <1>1, <1>2, <1>3, <1>4 DEF Next

LEMMA SuffixStep == TypeOK /\ Sorted /\ Suffix /\ [Next]_vars => Suffix'
<1> SUFFICES ASSUME TypeOK, Sorted, Suffix, [Next]_vars PROVE Suffix'
  OBVIOUS
<1>0. /\ now \in Nat /\ Window \in Nat
      /\ bucket \in [Identities -> Times] /\ admitted \in [Identities -> Times]
  BY LimiterAssumption DEF TypeOK
<1>1. CASE UNCHANGED vars
  BY <1>1 DEF vars, Suffix, Remains
<1>2. CASE Tick
  <2> SUFFICES ASSUME NEW i \in Identities
               PROVE  \E m \in Nat :
                        /\ m + Len(bucket'[i]) = Len(admitted'[i])
                        /\ \A k \in 1..Len(bucket'[i]) : bucket'[i][k] = admitted'[i][m + k]
                        /\ \A k \in 1..m : admitted'[i][k] < now' - Window
    BY DEF Suffix, Remains
  <2>1. now' = now + 1 /\ admitted' = admitted /\ bucket' = bucket
    BY <1>2 DEF Tick
  <2>2. PICK m \in Nat : Remains(i, m, bucket[i])
    BY DEF Suffix
  <2>3. \A k \in 1..Len(admitted[i]) : admitted[i][k] \in Nat
    BY <1>0, TimesProperties
  <2>4. Len(admitted[i]) \in Nat /\ Len(bucket[i]) \in Nat
    BY <1>0, TimesProperties
  <2>5. m + Len(bucket[i]) = Len(admitted[i]) /\ \A k \in 1..m : admitted[i][k] < now - Window
    BY <2>2 DEF Remains
  <2>6. m <= Len(admitted[i])
    BY <2>4, <2>5
  <2>7. \A k \in 1..m : admitted[i][k] < now + 1 - Window
    BY <1>0, <2>3, <2>4, <2>5, <2>6
  <2>8. \A k \in 1..Len(bucket[i]) : bucket[i][k] = admitted[i][m + k]
    BY <2>2 DEF Remains
  <2>9. \A k \in 1..m : admitted'[i][k] < now' - Window
    <3> SUFFICES ASSUME NEW k \in 1..m PROVE admitted'[i][k] < now' - Window
      OBVIOUS
    <3>1. admitted[i][k] < now + 1 - Window
      BY <2>7
    <3>2. admitted'[i] = admitted[i]
      BY <2>1
    <3>3. now' - Window = now + 1 - Window
      BY <1>0, <2>1
    <3> QED BY <3>1, <3>2, <3>3
  <2>10. /\ m + Len(bucket'[i]) = Len(admitted'[i])
         /\ \A k \in 1..Len(bucket'[i]) : bucket'[i][k] = admitted'[i][m + k]
    BY <2>1, <2>5, <2>8
  <2> QED BY <2>9, <2>10
<1>3. ASSUME NEW i \in Identities, Limited(i) PROVE Suffix'
  <2> SUFFICES ASSUME NEW j \in Identities
               PROVE  \E m \in Nat :
                        /\ m + Len(bucket'[j]) = Len(admitted'[j])
                        /\ \A k \in 1..Len(bucket'[j]) : bucket'[j][k] = admitted'[j][m + k]
                        /\ \A k \in 1..m : admitted'[j][k] < now' - Window
    BY DEF Suffix, Remains
  <2>1. /\ bucket' = [bucket EXCEPT ![i] = Kept(bucket[i], now)]
        /\ now' = now /\ admitted' = admitted
    BY <1>3 DEF Limited
  <2>2. CASE j = i
    <3>1. PICK m \in Nat : Remains(i, m, Kept(bucket[i], now))
      BY KeptRemains
    <3>2. bucket'[j] = Kept(bucket[i], now)
      BY <1>0, <2>1, <2>2
    <3> QED BY <2>1, <2>2, <3>1, <3>2 DEF Remains
  <2>3. CASE j # i
    <3>1. bucket'[j] = bucket[j]
      BY <1>0, <2>1, <2>3
    <3> QED BY <2>1, <3>1 DEF Suffix, Remains
  <2> QED BY <2>2, <2>3
<1>4. ASSUME NEW i \in Identities, Allow(i) PROVE Suffix'
  <2> SUFFICES ASSUME NEW j \in Identities
               PROVE  \E m \in Nat :
                        /\ m + Len(bucket'[j]) = Len(admitted'[j])
                        /\ \A k \in 1..Len(bucket'[j]) : bucket'[j][k] = admitted'[j][m + k]
                        /\ \A k \in 1..m : admitted'[j][k] < now' - Window
    BY DEF Suffix, Remains
  <2> DEFINE kept == Kept(bucket[i], now)
             a == admitted[i]
  <2>1. /\ bucket' = [bucket EXCEPT ![i] = Append(kept, now)]
        /\ admitted' = [admitted EXCEPT ![i] = Append(a, now)]
        /\ now' = now
    BY <1>4 DEF Allow
  <2>2. CASE j = i
    <3>1. PICK m \in Nat : Remains(i, m, kept)
      BY KeptRemains
    <3>2. kept \in Times /\ a \in Times
      BY <1>0, KeptTyped
    <3>3. Len(kept) \in Nat /\ Len(a) \in Nat
      BY <3>2, TimesProperties
    <3>4. /\ m + Len(kept) = Len(a)
          /\ \A k \in 1..Len(kept) : kept[k] = a[m + k]
          /\ \A k \in 1..m : a[k] < now - Window
      BY <3>1 DEF Remains
    <3>5. bucket'[j] = Append(kept, now) /\ admitted'[j] = Append(a, now)
      BY <1>0, <2>1, <2>2
    <3> HIDE DEF kept, a
    <3>6. /\ Len(Append(kept, now)) = Len(kept) + 1
          /\ \A k \in 1..Len(kept) : Append(kept, now)[k] = kept[k]
          /\ Append(kept, now)[Len(kept) + 1] = now
      BY <1>0, <3>2, AppendTime
    <3>7. /\ Len(Append(a, now)) = Len(a) + 1
          /\ \A k \in 1..Len(a) : Append(a, now)[k] = a[k]
          /\ Append(a, now)[Len(a) + 1] = now
      BY <1>0, <3>2, AppendTime
    <3>8. m + (Len(kept) + 1) = Len(a) + 1
      BY <3>3, <3>4
    <3>9. ASSUME NEW k \in 1..(Len(kept) + 1)
          PROVE  Append(kept, now)[k] = Append(a, now)[m + k]
      <4>1. CASE k = Len(kept) + 1
        BY <3>6, <3>7, <3>8, <4>1
      <4>2. CASE k \in 1..Len(kept)
        <5>1. m + k \in 1..Len(a)
          BY <3>3, <3>4, <4>2
        <5> QED BY <3>4, <3>6, <3>7, <4>2, <5>1
      <4>3. k \in 1..Len(kept) \/ k = Len(kept) + 1
        BY <3>3
      <4> QED BY <4>1, <4>2, <4>3
    <3>10. \A k \in 1..m : Append(a, now)[k] < now - Window
      <4>1. \A k \in 1..m : k \in 1..Len(a)
        BY <3>3, <3>4
      <4> QED BY <3>4, <3>7, <4>1
    <3>11. /\ m + Len(Append(kept, now)) = Len(Append(a, now))
           /\ \A k \in 1..Len(Append(kept, now)) :
                Append(kept, now)[k] = Append(a, now)[m + k]
      BY <3>6, <3>7, <3>8, <3>9
    <3> QED BY <2>1, <3>5, <3>10, <3>11
  <2>3. CASE j # i
    <3>1. bucket'[j] = bucket[j] /\ admitted'[j] = admitted[j]
      BY <1>0, <2>1, <2>3
    <3> QED BY <2>1, <3>1 DEF Suffix, Remains
  <2> QED BY <2>2, <2>3
<1> QED BY <1>1, <1>2, <1>3, <1>4 DEF Next

\* For every limit, window and clock: no deque outgrows the limit.
THEOREM TypeCorrect == Spec => []TypeOK
BY StartsFresh, TypedStep, PTL DEF Spec

LEMMA Invariance == Spec => [](TypeOK /\ Sorted /\ Suffix)
BY StartsFresh, TypedStep, SortedStep, SuffixStep, PTL DEF Spec

-----------------------------------------------------------------------------
(* The quota *)

\* An admission that has a limit's worth of admissions after it has left the
\* window when the last of them is let through.
LEMMA QuotaArithmetic ==
  ASSUME NEW m \in Nat, NEW l \in Nat, NEW n \in Nat, NEW lim \in Nat,
         m + l = n, l < lim, NEW k \in Nat, k + lim = n + 1
  PROVE  k <= m
OBVIOUS

LEMMA QuotaStep == TypeOK /\ Sorted /\ Suffix /\ WindowQuota /\ [Next]_vars => WindowQuota'
<1> SUFFICES ASSUME TypeOK, Sorted, Suffix, WindowQuota, [Next]_vars PROVE WindowQuota'
  OBVIOUS
<1>0. /\ now \in Nat /\ Window \in Nat /\ Limit \in Nat
      /\ admitted \in [Identities -> Times]
  BY LimiterAssumption DEF TypeOK
<1>1. CASE UNCHANGED vars
  BY <1>1 DEF vars, WindowQuota
<1>2. CASE Tick
  BY <1>2 DEF Tick, WindowQuota
<1>3. ASSUME NEW i \in Identities, Limited(i) PROVE WindowQuota'
  BY <1>3 DEF Limited, WindowQuota
<1>4. ASSUME NEW i \in Identities, Allow(i) PROVE WindowQuota'
  <2> DEFINE kept == Kept(bucket[i], now)
             a == admitted[i]
             b == Append(a, now)
  <2>1. admitted' = [admitted EXCEPT ![i] = b] /\ Len(kept) < Limit
    BY <1>4 DEF Allow
  <2>2. PICK m \in Nat : Remains(i, m, kept)
    BY KeptRemains
  <2>3. kept \in Times /\ a \in Times
    BY <1>0, KeptTyped
  <2>4. /\ Len(kept) \in Nat /\ Len(a) \in Nat /\ DOMAIN a = 1..Len(a)
        /\ \A k \in 1..Len(a) : a[k] \in Nat
    BY <2>3, TimesProperties
  <2>5. m + Len(kept) = Len(a) /\ \A k \in 1..m : a[k] < now - Window
    BY <2>2 DEF Remains
  <2>6. /\ b \in Times /\ Len(b) = Len(a) + 1 /\ b[Len(a) + 1] = now
        /\ \A k \in 1..Len(a) : b[k] = a[k]
    BY <1>0, <2>3, AppendTime
  <2>7. DOMAIN b = 1..(Len(a) + 1)
    BY <2>6, TimesProperties
  <2>8. \A k \in DOMAIN a : k + Limit \in DOMAIN a => a[k + Limit] - a[k] > Window
    BY DEF WindowQuota
  <2>9. admitted'[i] = b /\ \A j \in Identities : j # i => admitted'[j] = admitted[j]
    BY <1>0, <2>1
  <2> HIDE DEF kept, a, b
  <2>10. ASSUME NEW k \in DOMAIN b, k + Limit \in DOMAIN b
         PROVE  b[k + Limit] - b[k] > Window
    <3>1. k \in Nat /\ k >= 1
      BY <2>4, <2>7
    <3>2. CASE k + Limit = Len(a) + 1
      <4>1. Len(kept) < Limit /\ m + Len(kept) = Len(a)
        BY <2>1, <2>5
      <4>2. k <= m
        BY <1>0, <2>4, <3>1, <3>2, <4>1, QuotaArithmetic
      <4>3. k \in 1..m /\ k \in 1..Len(a)
        BY <2>4, <3>1, <4>1, <4>2
      <4>4. b[k] = a[k] /\ a[k] < now - Window /\ a[k] \in Nat
        BY <2>4, <2>5, <2>6, <4>3
      <4>5. b[k + Limit] = now
        BY <2>6, <3>2
      <4> QED BY <1>0, <4>4, <4>5
    <3>3. CASE k + Limit # Len(a) + 1
      <4>1. k \in 1..Len(a) /\ k + Limit \in 1..Len(a)
        BY <1>0, <2>4, <2>7, <2>10, <3>1, <3>3
      <4> QED BY <2>4, <2>6, <2>8, <4>1
    <3> QED BY <3>2, <3>3
  <2> QED BY <2>9, <2>10 DEF WindowQuota, a
<1> QED BY <1>1, <1>2, <1>3, <1>4 DEF Next

\* For every limit and window: no window of the configured length, wherever it
\* starts, sees more than the limit's admissions of one identity.
THEOREM QuotaHolds == Spec => []WindowQuota
<1>1. Init => WindowQuota
  <2> SUFFICES ASSUME Init PROVE WindowQuota
    OBVIOUS
  <2>1. \A i \in Identities : DOMAIN admitted[i] = {}
    BY EmptySeq DEF Init
  <2> QED BY <2>1 DEF WindowQuota
<1> QED BY <1>1, Invariance, QuotaStep, PTL DEF Spec

-----------------------------------------------------------------------------
(* The deque answers as the list of all admissions would *)

\* FiniteSets as SlidingWindow's instance sees it.
LEMMA SameCount == ASSUME NEW S PROVE Log!Cardinality(S) = Cardinality(S)
BY DEF Log!Cardinality, Cardinality

LEMMA LogStep == TypeOK /\ Sorted /\ Suffix /\ [Next]_vars
                   => [Log!Next]_<<now, admitted, verdict>>
<1> SUFFICES ASSUME TypeOK, Sorted, Suffix, [Next]_vars
             PROVE  [Log!Next]_<<now, admitted, verdict>>
  OBVIOUS
<1>1. CASE UNCHANGED vars
  BY <1>1 DEF vars
<1>2. CASE Tick
  BY <1>2 DEF Tick, Log!Tick, Log!Next
<1>3. ASSUME NEW i \in Identities, Allow(i) PROVE Log!Next
  <2>1. Cardinality(Log!Recent(i)) = Len(Kept(bucket[i], now))
    BY KeptCounts
  <2>2. Log!Cardinality(Log!Recent(i)) = Len(Kept(bucket[i], now))
    BY <2>1, SameCount
  <2>3. Log!Admit(i)
    BY <1>3, <2>2 DEF Allow, Log!Admit
  <2> QED BY <2>3 DEF Log!Next
<1>4. ASSUME NEW i \in Identities, Limited(i) PROVE Log!Next
  <2>1. Cardinality(Log!Recent(i)) = Len(Kept(bucket[i], now))
    BY KeptCounts
  <2>2. Log!Cardinality(Log!Recent(i)) = Len(Kept(bucket[i], now))
    BY <2>1, SameCount
  <2>3. Log!Deny(i)
    BY <1>4, <2>2 DEF Limited, Log!Deny
  <2> QED BY <2>3 DEF Log!Next
<1> QED BY <1>1, <1>2, <1>3, <1>4 DEF Next

\* For every limit, window and clock: a request is let through exactly if fewer
\* than the limit were in the window that ends now, although the deque has
\* forgotten every earlier admission.
THEOREM ImplementsLog == Spec => LogSpec
<1>1. Init => Log!Init
  BY DEF Init, Log!Init
<1> QED BY <1>1, Invariance, LogStep, PTL DEF Spec, LogSpec, Log!Spec

-----------------------------------------------------------------------------
(* Retry-After *)

\* After a denial the oldest entry of the deque is gone when its hint and one
\* more second are over.
Owed ==
  \A i \in Identities : denial[i] # NoDenial =>
    /\ Len(bucket[i]) >= 1
    /\ bucket[i][1] + Window < denial[i].at + (denial[i].hint + 1) * Second

\* What int() cuts off is less than a second.
LEMMA Truncation ==
  ASSUME NEW w \in Int, NEW hint \in Nat, w \div Second <= hint
  PROVE  w < (hint + 1) * Second
<1>1. Second \in Nat \ {0}
  BY LimiterAssumption
<1> DEFINE q == w \div Second
<1>2. q \in Int /\ w < q * Second + Second
  BY <1>1, SMT
<1> HIDE DEF q
<1>3. q * Second + Second = (q + 1) * Second
  BY <1>1, <1>2, SMT
<1>4. q + 1 <= hint + 1
  BY <1>2 DEF q
<1>5. (q + 1) * Second <= (hint + 1) * Second
  BY <1>1, <1>2, <1>4, SMT
<1>6. (q + 1) * Second \in Int /\ (hint + 1) * Second \in Int
  BY <1>1, <1>2, SMT
<1> QED BY <1>2, <1>3, <1>5, <1>6

LEMMA OwedStep == TypeOK /\ Owed /\ [Next]_vars => Owed'
<1> SUFFICES ASSUME TypeOK, Owed, [Next]_vars PROVE Owed'
  OBVIOUS
<1>0. /\ now \in Nat /\ Limit \in Nat \ {0} /\ Window \in Nat /\ Second \in Nat \ {0}
      /\ bucket \in [Identities -> Times]
      /\ denial \in [Identities -> [at : -1..MaxTime, hint : Nat]]
  BY LimiterAssumption DEF TypeOK
<1>1. CASE UNCHANGED vars \/ Tick
  BY <1>1 DEF vars, Tick, Owed
<1>2. ASSUME NEW i \in Identities, Allow(i) PROVE Owed'
  <2>1. /\ bucket' = [bucket EXCEPT ![i] = Append(Kept(bucket[i], now), now)]
        /\ denial' = [denial EXCEPT ![i] = NoDenial]
    BY <1>2 DEF Allow
  <2> QED BY <1>0, <2>1 DEF Owed
<1>3. ASSUME NEW i \in Identities, Limited(i) PROVE Owed'
  <2> DEFINE kept == Kept(bucket[i], now)
             wait == (kept[1] + Window - now) \div Second
  <2>1. /\ bucket' = [bucket EXCEPT ![i] = kept] /\ Len(kept) >= Limit
        /\ denial' = [denial EXCEPT ![i] = [at |-> now, hint |-> Hint(kept)]]
    BY <1>3 DEF Limited
  <2>2. kept \in Times /\ Len(kept) \in Nat
    BY KeptTyped
  <2>3. 1 \in 1..Len(kept) /\ kept[1] \in Nat
    BY <1>0, <2>1, <2>2, TimesProperties
  <2>4. wait \in Int
    BY <1>0, <2>3, SMT
  <2>5. Hint(kept) = IF wait > 1 THEN wait ELSE 1
    BY DEF Hint
  <2> HIDE DEF wait
  <2>6. Hint(kept) \in Nat /\ wait <= Hint(kept)
    BY <2>4, <2>5
  <2>7. kept[1] + Window - now \in Int
    BY <1>0, <2>3
  <2> HIDE DEF kept
  <2>8. kept[1] + Window - now < (Hint(kept) + 1) * Second
    BY <2>6, <2>7, Truncation DEF wait
  <2>9. (Hint(kept) + 1) * Second \in Nat
    BY <1>0, <2>6
  <2>10. kept[1] + Window < now + (Hint(kept) + 1) * Second
    <3> DEFINE delay == (Hint(kept) + 1) * Second
    <3>1. delay \in Nat /\ kept[1] + Window - now < delay
      BY <2>8, <2>9
    <3> HIDE DEF delay
    <3>2. kept[1] + Window < now + delay
      BY <1>0, <2>3, <3>1
    <3> QED BY <3>2 DEF delay
  <2>11. /\ bucket'[i] = kept /\ denial'[i] = [at |-> now, hint |-> Hint(kept)]
         /\ \A j \in Identities \ {i} : bucket'[j] = bucket[j] /\ denial'[j] = denial[j]
    BY <1>0, <2>1
  <2>12. Len(kept) >= 1
    BY <2>3
  <2> QED BY <2>10, <2>11, <2>12 DEF Owed
<1> QED BY <1>1, <1>2, <1>3 DEF Next

\* For every limit, window and clock: whoever waits a second longer than the
\* header says finds the deque below the limit.
THEOREM HintSuffices == Spec => []RetryHint
<1>1. Init => Owed
  BY DEF Init, Owed
<1>2. TypeOK /\ Owed => RetryHint
  <2> SUFFICES ASSUME TypeOK, Owed, NEW i \in Identities, denial[i] # NoDenial,
                      now >= denial[i].at + (denial[i].hint + 1) * Second
               PROVE  Len(Kept(bucket[i], now)) < Limit
    BY DEF RetryHint
  <2> DEFINE h == bucket[i]
             kept == Kept(h, now)
             due == denial[i].at + (denial[i].hint + 1) * Second
  <2>1. /\ h \in Times /\ Len(h) <= Limit /\ now \in Nat /\ Window \in Nat /\ Limit \in Nat
        /\ denial[i].at \in Int /\ denial[i].hint \in Nat /\ Second \in Nat
    BY LimiterAssumption DEF TypeOK
  <2>2. due \in Int
    BY <2>1, SMT
  <2>3. Len(h) >= 1 /\ h[1] + Window < due /\ now >= due
    BY DEF Owed
  <2>4. /\ kept \in Times /\ Evicted(h, now) \in 0..Len(h)
        /\ Len(kept) = Len(h) - Evicted(h, now)
        /\ \A k \in 1..Len(kept) : kept[k] = h[Evicted(h, now) + k]
        /\ \A k \in 1..Len(kept) : kept[1] >= now - Window
    BY <2>1, KeptProperties
  <2>5. Len(h) \in Nat /\ Len(kept) \in Nat /\ h[1] \in Nat
    BY <2>1, <2>3, <2>4, TimesProperties
  <2> HIDE DEF h, kept, due
  <2>6. h[1] < now - Window
    BY <2>1, <2>2, <2>3, <2>5
  <2>7. Evicted(h, now) # 0
    <3> SUFFICES ASSUME Evicted(h, now) = 0 PROVE FALSE
      OBVIOUS
    <3>1. 1 \in 1..Len(kept)
      BY <2>3, <2>4, <2>5
    <3>2. kept[1] = h[1] /\ kept[1] >= now - Window
      BY <2>4, <3>1
    <3> QED BY <2>1, <2>5, <2>6, <3>2
  <2>8. Len(kept) < Limit
    BY <2>1, <2>4, <2>5, <2>7
  <2> QED BY <2>8 DEF kept, h
<1> QED BY <1>1, <1>2, StartsFresh, TypedStep, OwedStep, PTL DEF Spec

-----------------------------------------------------------------------------
(* The gateway uses the limiter as it is specified *)

LEMMA GatewayTypedInit == GatewayInit => GatewayTypeOK
<1> SUFFICES ASSUME GatewayInit PROVE GatewayTypeOK
  OBVIOUS
<1>1. \A h \in Hosts : [key |-> NoKey, host |-> h, exempt |-> TRUE] \in Presented
  BY DEF Presented
<1> QED BY <1>1 DEF GatewayInit, GatewayTypeOK

LEMMA IdentityTyped ==
  ASSUME GatewayTypeOK, NEW request \in Presented
  PROVE  Identity(request) \in Identities
BY GatewayAssumption DEF Identity, Presented

LEMMA GatewayStep == GatewayTypeOK /\ [GatewayNext]_<<vars, gatewayVars>> => [Next]_vars
<1> SUFFICES ASSUME GatewayTypeOK, [GatewayNext]_<<vars, gatewayVars>> PROVE [Next]_vars
  OBVIOUS
<1>1. ASSUME NEW r \in Requests, NEW request \in Presented,
             Pass(r, request) \/ Admit(r, request) \/ Refuse(r, request)
      PROVE  [Next]_vars
  BY <1>1, IdentityTyped DEF Pass, Admit, Refuse, Next
<1>2. ASSUME NEW r \in Requests, Authenticate(r) PROVE [Next]_vars
  BY <1>2 DEF Authenticate, vars
<1> QED BY <1>1, <1>2 DEF GatewayNext, Next

LEMMA GatewayTypedStep ==
  GatewayTypeOK /\ [GatewayNext]_<<vars, gatewayVars>> => GatewayTypeOK'
<1> SUFFICES ASSUME GatewayTypeOK, [GatewayNext]_<<vars, gatewayVars>> PROVE GatewayTypeOK'
  OBVIOUS
<1>1. CASE UNCHANGED gatewayVars
  BY <1>1 DEF gatewayVars, GatewayTypeOK
<1>2. ASSUME NEW r \in Requests, NEW request \in Presented,
             Pass(r, request) \/ Admit(r, request) \/ Refuse(r, request)
      PROVE  GatewayTypeOK'
  BY <1>2 DEF Pass, Admit, Refuse, Arrive, Reached, GatewayTypeOK
<1>3. ASSUME NEW r \in Requests, Authenticate(r) PROVE GatewayTypeOK'
  <2>1. \E where \in {"handled", "misconfigured", "unauthorized"} :
          stage' = [stage EXCEPT ![r] = where]
    BY <1>3 DEF Authenticate, Reached
  <2> QED BY <1>3, <2>1 DEF Authenticate, GatewayTypeOK
<1> QED BY <1>1, <1>2, <1>3 DEF GatewayNext, gatewayVars

LEMMA GatewayTyped == GatewaySpec => []GatewayTypeOK
BY GatewayTypedInit, GatewayTypedStep, PTL DEF GatewaySpec

\* What holds of the limiter alone holds of it behind the gateway, whatever
\* requests arrive: its quota, its hint and its answers.
THEOREM GatewayLimits == GatewaySpec => Spec /\ []WindowQuota /\ []RetryHint /\ LogSpec
<1>1. GatewayInit => Init
  BY DEF GatewayInit
<1>2. GatewaySpec => Spec
  BY <1>1, GatewayTyped, GatewayStep, PTL DEF GatewaySpec, Spec
<1> QED BY <1>2, QuotaHolds, HintSuffices, ImplementsLog, PTL

-----------------------------------------------------------------------------
(* A key's quota is its own *)

\* The requests that have been let through on a key's account.
Metering(k) ==
  {r \in Requests : /\ sent[r].key = k /\ ~ sent[r].exempt
                    /\ stage[r] \notin {"new", "limited"}}

Metered1to1 ==
  config.limited /\ config.keyed =>
    \A k \in Keys : Len(admitted[k]) = Cardinality(Metering(k))

\* Nobody with a valid key is turned away after the limiter, nobody else let in.
Authentic ==
  config.auth =>
    \A r \in Requests : ~ sent[r].exempt =>
      /\ stage[r] = "handled" => sent[r].key \in config.valid
      /\ stage[r] \in {"unauthorized", "misconfigured"} => sent[r].key \notin config.valid

LEMMA MeteringFinite ==
  \A k : IsFiniteSet(Metering(k)) /\ Cardinality(Metering(k)) \in Nat
BY GatewayAssumption, FS_Subset, FS_CardinalityType DEF Metering

LEMMA LengthsTyped ==
  ASSUME TypeOK, NEW k \in Keys
  PROVE  admitted[k] \in Times /\ Len(admitted[k]) \in Nat /\ k \in Identities
BY GatewayAssumption, TimesProperties DEF TypeOK

LEMMA MeteredStep ==
  TypeOK /\ GatewayTypeOK /\ Metered1to1 /\ [GatewayNext]_<<vars, gatewayVars>>
    => Metered1to1'
<1> SUFFICES ASSUME TypeOK, GatewayTypeOK, Metered1to1, [GatewayNext]_<<vars, gatewayVars>>,
                    config.limited', config.keyed', NEW k \in Keys
             PROVE  Len(admitted'[k]) = Cardinality(Metering(k)')
  BY DEF Metered1to1
<1>0. config' = config /\ config.limited /\ config.keyed
  BY DEF GatewayNext, Pass, Admit, Refuse, Arrive, Authenticate, gatewayVars
<1>1. Len(admitted[k]) = Cardinality(Metering(k))
  BY <1>0 DEF Metered1to1
<1>2. CASE UNCHANGED <<admitted, gatewayVars>>
  BY <1>1, <1>2 DEF Metering, gatewayVars
<1>3. ASSUME NEW r \in Requests, NEW request \in Presented, Arrive(r, request),
             NEW where, Reached(r, where)
      PROVE  /\ r \notin Metering(k)
             /\ Metering(k)' = Metering(k) \cup
                  {o \in {r} : /\ request.key = k /\ ~ request.exempt
                               /\ where \notin {"new", "limited"}}
  <2>1. /\ stage[r] = "new" /\ stage' = [stage EXCEPT ![r] = where]
        /\ sent' = [sent EXCEPT ![r] = request]
    BY <1>3 DEF Arrive, Reached
  <2>2. /\ stage'[r] = where /\ sent'[r] = request
        /\ \A o \in Requests \ {r} : stage'[o] = stage[o] /\ sent'[o] = sent[o]
    BY <2>1 DEF GatewayTypeOK
  <2> QED BY <2>1, <2>2 DEF Metering
<1>4. ASSUME NEW r \in Requests, NEW request \in Presented, Pass(r, request)
      PROVE  Len(admitted'[k]) = Cardinality(Metering(k)')
  <2>1. request.exempt /\ admitted' = admitted
    BY <1>0, <1>4 DEF Pass, Metered, vars
  <2>2. Metering(k)' = Metering(k)
    BY <1>3, <1>4, <2>1 DEF Pass
  <2> QED BY <1>1, <2>1, <2>2
<1>5. ASSUME NEW r \in Requests, NEW request \in Presented, Refuse(r, request)
      PROVE  Len(admitted'[k]) = Cardinality(Metering(k)')
  <2>1. admitted' = admitted
    BY <1>5 DEF Refuse, Limited
  <2>2. Metering(k)' = Metering(k)
    BY <1>3, <1>5 DEF Refuse
  <2> QED BY <1>1, <2>1, <2>2
<1>6. ASSUME NEW r \in Requests, NEW request \in Presented, Admit(r, request)
      PROVE  Len(admitted'[k]) = Cardinality(Metering(k)')
  <2> DEFINE i == Identity(request)
  <2>1. /\ admitted' = [admitted EXCEPT ![i] = Append(admitted[i], now)]
        /\ ~ request.exempt /\ Arrive(r, request) /\ Reached(r, "admitted")
    BY <1>6 DEF Admit, Allow, Metered
  <2>2. i = k <=> request.key = k
    BY <1>0, GatewayAssumption DEF Identity, Presented
  <2>3. admitted \in [Identities -> Times] /\ now \in Nat
    BY LimiterAssumption DEF TypeOK
  <2> HIDE DEF i
  <2>4. CASE request.key = k
    <3>1. Metering(k)' = Metering(k) \cup {r} /\ r \notin Metering(k)
      BY <1>3, <2>1, <2>4
    <3>2. Cardinality(Metering(k)') = Cardinality(Metering(k)) + 1
      BY <3>1, MeteringFinite, FS_AddElement
    <3>3. Len(admitted'[k]) = Len(admitted[k]) + 1
      BY <2>1, <2>2, <2>3, <2>4, LengthsTyped, AppendTime
    <3> QED BY <1>1, <3>2, <3>3
  <2>5. CASE request.key # k
    <3>1. Metering(k)' = Metering(k)
      BY <1>3, <2>1, <2>5
    <3>2. admitted'[k] = admitted[k]
      BY <2>1, <2>2, <2>3, <2>5, LengthsTyped
    <3> QED BY <1>1, <3>1, <3>2
  <2> QED BY <2>4, <2>5
<1>7. ASSUME NEW r \in Requests, Authenticate(r)
      PROVE  Len(admitted'[k]) = Cardinality(Metering(k)')
  <2>1. /\ stage[r] = "admitted" /\ sent' = sent /\ admitted' = admitted
        /\ \E where \in {"handled", "misconfigured", "unauthorized"} :
             stage' = [stage EXCEPT ![r] = where]
    BY <1>7 DEF Authenticate, Reached
  <2>2. Metering(k)' = Metering(k)
    BY <2>1 DEF Metering, GatewayTypeOK
  <2> QED BY <1>1, <2>1, <2>2
<1>8. CASE Tick /\ UNCHANGED gatewayVars
  BY <1>2, <1>8 DEF Tick
<1> QED BY <1>2, <1>4, <1>5, <1>6, <1>7, <1>8 DEF GatewayNext, vars

LEMMA AuthenticStep ==
  GatewayTypeOK /\ Authentic /\ [GatewayNext]_<<vars, gatewayVars>> => Authentic'
<1> SUFFICES ASSUME GatewayTypeOK, Authentic, [GatewayNext]_<<vars, gatewayVars>>
             PROVE  Authentic'
  OBVIOUS
<1>1. CASE UNCHANGED gatewayVars
  BY <1>1 DEF gatewayVars, Authentic
<1>2. ASSUME NEW r \in Requests, NEW request \in Presented,
             Pass(r, request) \/ Admit(r, request) \/ Refuse(r, request)
      PROVE  Authentic'
  BY <1>2 DEF Pass, Admit, Refuse, Arrive, Reached, GatewayTypeOK, Authentic
<1>3. ASSUME NEW r \in Requests, Authenticate(r) PROVE Authentic'
  <2>1. config' = config /\ sent' = sent
    BY <1>3 DEF Authenticate
  <2>2. CASE ~ config.auth
    BY <2>1, <2>2 DEF Authentic
  <2>3. CASE config.auth
    <3>1. ~ sent[r].exempt =>
             \/ stage' = [stage EXCEPT ![r] = "misconfigured"] /\ config.valid = {}
             \/ stage' = [stage EXCEPT ![r] = "handled"] /\ sent[r].key \in config.valid
             \/ stage' = [stage EXCEPT ![r] = "unauthorized"] /\ sent[r].key \notin config.valid
      BY <1>3, <2>3 DEF Authenticate, Reached
    <3>2. \A o \in Requests \ {r} : stage'[o] = stage[o]
      BY <1>3 DEF Authenticate, Reached, GatewayTypeOK
    <3> QED BY <2>1, <2>3, <3>1, <3>2 DEF Authentic, GatewayTypeOK
  <2> QED BY <2>2, <2>3
<1> QED BY <1>1, <1>2, <1>3 DEF GatewayNext, gatewayVars

\* For any number of requests, keys and hosts and any interleaving of the two
\* middlewares, the quota of a valid key is spent by its own handled requests.
THEOREM OwnQuota == GatewaySpec => []QuotaIsOwn
<1>1. GatewayInit => Metered1to1 /\ Authentic
  <2> SUFFICES ASSUME GatewayInit PROVE Metered1to1 /\ Authentic
    OBVIOUS
  <2>1. \A r \in Requests : stage[r] = "new"
    BY DEF GatewayInit
  <2>2. \A k : Metering(k) = {}
    BY <2>1 DEF Metering
  <2>3. \A k \in Keys : admitted[k] = <<>>
    BY GatewayAssumption DEF GatewayInit, Init
  <2> QED BY <2>1, <2>2, <2>3, FS_EmptySet DEF Metered1to1, Authentic
<1>2. GatewayTypeOK /\ Metered1to1 /\ Authentic => QuotaIsOwn
  <2> SUFFICES ASSUME GatewayTypeOK, Metered1to1, Authentic,
                      config.limited, config.keyed, config.auth
               PROVE  /\ \A k \in config.valid : Len(admitted[k]) =
                           Cardinality({r \in Requests :
                             /\ sent[r].key = k /\ ~ sent[r].exempt
                             /\ stage[r] \in {"admitted", "handled"}})
                      /\ \A r \in Requests :
                           stage[r] = "handled" /\ ~ sent[r].exempt
                             => sent[r].key \in config.valid
    BY DEF QuotaIsOwn
  <2>1. \A k \in config.valid : Metering(k) =
          {r \in Requests : /\ sent[r].key = k /\ ~ sent[r].exempt
                            /\ stage[r] \in {"admitted", "handled"}}
    BY DEF Metering, Authentic, GatewayTypeOK
  <2>2. config.valid \subseteq Keys
    BY GatewayAssumption DEF GatewayTypeOK
  <2> QED BY <2>1, <2>2 DEF Metered1to1, Authentic
<1>3. GatewaySpec => []TypeOK
  BY GatewayLimits, TypeCorrect, PTL
<1> QED BY <1>1, <1>2, <1>3, GatewayTyped, MeteredStep, AuthenticStep, PTL DEF GatewaySpec
=============================================================================
