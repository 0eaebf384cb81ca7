------------------------ MODULE RedisRateLimiter_proof ------------------------
(***************************************************************************)
(* The shared counters of RedisRateLimiter, for any number of requests,    *)
(* keys, hosts and workers, every limit and window, and clocks that are    *)
(* ahead of each other by any amount.                                      *)
(***************************************************************************)
EXTENDS RedisRateLimiter, TLAPS, FiniteSetTheorems

-----------------------------------------------------------------------------
(* The inductive invariant *)

Places == {"new"} \cup InRedis \cup Over

Typed ==
  /\ now \in 1..MaxTime
  /\ counters \in [DOMAIN counters -> [value : Nat, expires : Nat]]
  /\ pc \in [Requests -> Places]
  /\ client \in [Requests -> [key : ApiKeys \cup {NoKey}, host : Hosts]]
  /\ epoch \in [Requests -> Nat]
  /\ count \in [Requests -> Nat]
  /\ countedAt \in [Requests -> Nat]

\* What a request's place says of its stamps.
Stamped(r) ==
  /\ pc[r] \in {"new", "exempt", "incr"} => countedAt[r] = 0
  /\ pc[r] \in {"counted", "expire", "expiring", "allowed", "limited"} => countedAt[r] # 0
  /\ countedAt[r] <= now
  /\ countedAt[r] = 0 <=> count[r] = 0
  /\ pc[r] = "allowed" => count[r] <= Limit
  /\ pc[r] = "limited" => count[r] > Limit

Stamps == \A r \in Requests : Stamped(r)

\* A counter never exceeds the number of requests that have incremented it, and
\* neither does what one of them was told.
Backed ==
  /\ \A s \in DOMAIN counters : counters[s].value \in 1..Cardinality(Counted(s))
  /\ \A r \in Requests : countedAt[r] # 0 => count[r] <= Cardinality(Counted(Slot(r)))

\* Counters are dropped once they have expired.
Expiries ==
  \A s \in DOMAIN counters :
    counters[s].expires \in {Never} \cup (now + 1)..(now + Window + 1)

-----------------------------------------------------------------------------
(* Who has been counted *)

LEMMA CountedFinite ==
  ASSUME NEW s
  PROVE  /\ Counted(s) \subseteq Requests /\ IsFiniteSet(Counted(s))
         /\ Cardinality(Counted(s)) \in Nat
         /\ Cardinality(Counted(s)) <= Cardinality(Requests)
<1>1. Counted(s) \subseteq Requests /\ IsFiniteSet(Requests)
  BY RedisAssumption DEF Counted
<1> QED BY <1>1, FS_Subset, FS_CardinalityType

\* Only Incr counts a request; the stamp of a counted request is fixed.
Uncounting == \/ Tick \/ UNCHANGED vars
              \/ \E r \in Requests : \/ Arrive(r) \/ IncrReply(r) \/ Expire(r)
                                     \/ ExpireReply(r) \/ RedisFails(r) \/ WorkerStops(r)

LEMMA SameCounted ==
  ASSUME Typed, Stamps, Uncounting
  PROVE  /\ countedAt' = countedAt /\ count' = count /\ client' = client
         /\ \A r \in Requests : countedAt[r] # 0 => epoch'[r] = epoch[r] /\ Slot(r)' = Slot(r)
         /\ \A s : Counted(s)' = Counted(s)
<1>1. countedAt' = countedAt /\ count' = count /\ client' = client
  BY DEF Uncounting, Tick, vars, Arrive, IncrReply, Expire, ExpireReply, RedisFails, WorkerStops
<1>2. ASSUME NEW r \in Requests, countedAt[r] # 0
      PROVE  epoch'[r] = epoch[r]
  <2>1. pc[r] # "new"
    BY <1>2 DEF Stamps, Stamped
  <2> QED BY <2>1 DEF Typed, Uncounting, Tick, vars, Arrive, IncrReply, Expire, ExpireReply,
                      RedisFails, WorkerStops
<1>3. \A r \in Requests : countedAt[r] # 0 => Slot(r)' = Slot(r)
  BY <1>1, <1>2 DEF Slot, Identity
<1>4. ASSUME NEW s PROVE Counted(s)' = Counted(s)
  BY <1>1, <1>3 DEF Counted
<1> QED BY <1>1, <1>2, <1>3, <1>4

LEMMA IncrCounts ==
  ASSUME Typed, Stamps, NEW r \in Requests, Incr(r)
  PROVE  /\ pc' = [pc EXCEPT ![r] = "counted"] /\ now' = now
         /\ client' = client /\ epoch' = epoch
         /\ \A o : Slot(o)' = Slot(o)
         /\ countedAt[r] = 0 /\ countedAt'[r] = now /\ now # 0
         /\ \A o \in Requests \ {r} : countedAt'[o] = countedAt[o] /\ count'[o] = count[o]
         /\ countedAt' \in [Requests -> Nat]
         /\ \A s : Counted(s)' = IF s = Slot(r) THEN Counted(s) \cup {r} ELSE Counted(s)
         /\ r \notin Counted(Slot(r))
<1>1. /\ pc' = [pc EXCEPT ![r] = "counted"] /\ now' = now /\ now # 0 /\ now \in Nat
      /\ client' = client /\ epoch' = epoch
      /\ countedAt' = [countedAt EXCEPT ![r] = now]
  BY RedisAssumption DEF Typed, Incr, Goto
<1>2. ASSUME NEW o PROVE Slot(o)' = Slot(o)
  BY <1>1 DEF Slot, Identity
<1>3. /\ countedAt'[r] = now /\ countedAt' \in [Requests -> Nat]
      /\ \A o \in Requests \ {r} : countedAt'[o] = countedAt[o] /\ count'[o] = count[o]
  BY <1>1 DEF Typed, Incr
<1>4. countedAt[r] = 0
  BY DEF Incr, Stamps, Stamped
<1>5. ASSUME NEW s
      PROVE  Counted(s)' = IF s = Slot(r) THEN Counted(s) \cup {r} ELSE Counted(s)
  BY <1>1, <1>2, <1>3, <1>4 DEF Counted
<1> QED BY <1>1, <1>2, <1>3, <1>4, <1>5 DEF Counted

\* What Incr does to the counters.
LEMMA IncrValue ==
  ASSUME Typed, NEW r \in Requests, Incr(r)
  PROVE  LET s == Slot(r)
         IN  /\ counters' \in [DOMAIN counters \cup {s} -> [value : Nat, expires : Nat]]
             /\ DOMAIN counters' = DOMAIN counters \cup {s}
             /\ \A t \in DOMAIN counters \ {s} : counters'[t] = counters[t]
             /\ counters'[s].value =
                  IF s \in DOMAIN counters THEN counters[s].value + 1 ELSE 1
             /\ counters'[s].expires =
                  IF s \in DOMAIN counters THEN counters[s].expires ELSE Never
             /\ count'[r] = counters'[s].value
<1> DEFINE s == Slot(r)
<1>1. counters' = Incremented(s) /\ count' = [count EXCEPT ![r] = counters'[s].value]
  BY DEF Incr
<1>2. \A t \in DOMAIN counters : /\ counters[t] \in [value : Nat, expires : Nat]
                                 /\ counters[t].value \in Nat /\ counters[t].expires \in Nat
  BY DEF Typed
<1> HIDE DEF s
<1>3. DOMAIN counters' = DOMAIN counters \cup {s}
  BY <1>1 DEF Incremented
<1>4. \A t \in DOMAIN counters \ {s} : counters'[t] = counters[t]
  BY <1>1 DEF Incremented
<1>5. counters'[s] = IF s \in DOMAIN counters
                     THEN [value |-> counters[s].value + 1, expires |-> counters[s].expires]
                     ELSE [value |-> 1, expires |-> Never]
  BY <1>1, <1>2 DEF Incremented
<1>6. counters'[s] \in [value : Nat, expires : Nat]
  BY <1>2, <1>5 DEF Never
<1>7. \A t \in DOMAIN counters' : counters'[t] \in [value : Nat, expires : Nat]
  BY <1>2, <1>3, <1>4, <1>6
<1>8. counters' \in [DOMAIN counters \cup {s} -> [value : Nat, expires : Nat]]
  BY <1>1, <1>3, <1>7 DEF Incremented
<1>9. count'[r] = counters'[s].value
  BY <1>1 DEF Typed
<1> QED BY <1>3, <1>4, <1>5, <1>8, <1>9 DEF s

-----------------------------------------------------------------------------
(* Every step keeps the invariant *)

LEMMA StepKinds == [Next]_vars => Uncounting \/ \E r \in Requests : Incr(r)
BY DEF Next, Uncounting

LEMMA StartsTyped == Init => Typed /\ Stamps /\ Backed /\ Expiries
<1> SUFFICES ASSUME Init PROVE Typed /\ Stamps /\ Backed /\ Expiries
  OBVIOUS
<1>1. /\ now = 1 /\ DOMAIN counters = {} /\ counters = [s \in {} |-> [value |-> 1, expires |-> Never]]
      /\ pc = [r \in Requests |-> "new"]
      /\ client \in [Requests -> [key : ApiKeys \cup {NoKey}, host : Hosts]]
      /\ epoch = [r \in Requests |-> 0] /\ count = [r \in Requests |-> 0]
      /\ countedAt = [r \in Requests |-> 0]
  BY DEF Init
<1>2. counters \in [DOMAIN counters -> [value : Nat, expires : Nat]]
  BY <1>1
<1>3. Typed
  BY <1>1, <1>2, RedisAssumption DEF Typed, Places
<1>4. Stamps
  BY <1>1 DEF Stamps, Stamped
<1>5. Backed /\ Expiries
  BY <1>1 DEF Backed, Expiries
<1> QED BY <1>3, <1>4, <1>5

LEMMA TypedStep == Typed /\ Stamps /\ [Next]_vars => Typed'
<1> SUFFICES ASSUME Typed, Stamps, [Next]_vars PROVE Typed'
  OBVIOUS
<1>0. /\ now \in Nat
      /\ now < MaxTime => now + 1 \in 1..MaxTime
      /\ Window \in Nat /\ MaxTime \in Nat
  BY RedisAssumption DEF Typed
<1>1. CASE UNCHANGED vars
  BY <1>1 DEF vars, Typed
<1>2. CASE Tick
  <2>1. /\ now' = now + 1 /\ now < MaxTime
        /\ \A s \in DOMAIN counters' : s \in DOMAIN counters /\ counters'[s] = counters[s]
        /\ counters' = [s \in DOMAIN counters' |-> counters'[s]]
    BY <1>2 DEF Tick
  <2>2. counters' \in [DOMAIN counters' -> [value : Nat, expires : Nat]]
    BY <2>1 DEF Typed
  <2>3. UNCHANGED <<pc, client, epoch, count, countedAt>>
    BY <1>2 DEF Tick
  <2> QED BY <1>0, <2>1, <2>2, <2>3 DEF Typed
<1>3. ASSUME NEW r \in Requests, Arrive(r) PROVE Typed'
  <2>1. UNCHANGED <<now, counters, client, count, countedAt>>
    BY <1>3 DEF Arrive
  <2>2. pc' \in [Requests -> Places]
    BY <1>3 DEF Arrive, Goto, Typed, Places, InRedis, Over
  <2>3. epoch' \in [Requests -> Nat]
    <3>1. CASE epoch' = epoch
      BY <3>1 DEF Typed
    <3>2. ASSUME NEW skew \in Skews, epoch' = [epoch EXCEPT ![r] = now + skew]
          PROVE  epoch' \in [Requests -> Nat]
      <4>1. now + skew \in Nat
        BY <1>0, RedisAssumption
      <4> QED BY <3>2, <4>1 DEF Typed
    <3> QED BY <1>3, <3>1, <3>2 DEF Arrive
  <2> QED BY <2>1, <2>2, <2>3 DEF Typed
<1>4. ASSUME NEW r \in Requests, Incr(r) PROVE Typed'
  <2>1. /\ counters' \in [DOMAIN counters \cup {Slot(r)} -> [value : Nat, expires : Nat]]
        /\ DOMAIN counters' = DOMAIN counters \cup {Slot(r)}
        /\ count'[r] = counters'[Slot(r)].value
    BY <1>4, IncrValue
  <2>2. counters'[Slot(r)].value \in Nat
    BY <2>1
  <2>3. count' \in [Requests -> Nat]
    BY <1>4, <2>2 DEF Incr, Typed
  <2>4. /\ pc' = [pc EXCEPT ![r] = "counted"] /\ now' = now
        /\ client' = client /\ epoch' = epoch /\ countedAt' \in [Requests -> Nat]
    BY <1>4, IncrCounts
  <2>5. pc' \in [Requests -> Places]
    BY <2>4 DEF Typed, Places, InRedis
  <2> QED BY <2>1, <2>3, <2>4, <2>5 DEF Typed
<1>5. ASSUME NEW r \in Requests,
             IncrReply(r) \/ ExpireReply(r) \/ RedisFails(r) \/ WorkerStops(r)
      PROVE  Typed'
  <2>1. UNCHANGED <<now, counters, client, epoch, count, countedAt>>
    BY <1>5 DEF IncrReply, ExpireReply, RedisFails, WorkerStops
  <2>2. pc' \in [Requests -> Places]
    BY <1>5 DEF IncrReply, ExpireReply, RedisFails, WorkerStops, Goto, Typed, Places,
                InRedis, Over, Verdict
  <2> QED BY <2>1, <2>2 DEF Typed
<1>6. ASSUME NEW r \in Requests, Expire(r) PROVE Typed'
  <2>1. /\ counters' = [counters EXCEPT ![Slot(r)].expires = now + Window + 1]
        /\ UNCHANGED <<now, client, epoch, count, countedAt>>
    BY <1>6 DEF Expire
  <2>2. now + Window + 1 \in Nat
    BY <1>0
  <2>3. counters' \in [DOMAIN counters -> [value : Nat, expires : Nat]]
    BY <2>1, <2>2 DEF Typed
  <2>4. pc' \in [Requests -> Places]
    BY <1>6 DEF Expire, Goto, Typed, Places, InRedis
  <2> QED BY <2>1, <2>3, <2>4 DEF Typed
<1> QED BY <1>1, <1>2, <1>3, <1>4, <1>5, <1>6 DEF Next

LEMMA StampsStep == Typed /\ Stamps /\ Backed /\ [Next]_vars => Stamps'
<1> SUFFICES ASSUME Typed, Stamps, Backed, [Next]_vars, NEW o \in Requests
             PROVE  Stamped(o)'
  BY DEF Stamps
<1>0. Stamped(o) /\ now \in Nat /\ count[o] \in Nat /\ Limit \in Nat
  BY RedisAssumption DEF Stamps, Typed
<1>1. ASSUME NEW r \in Requests, Incr(r) PROVE Stamped(o)'
  <2>1. /\ pc' = [pc EXCEPT ![r] = "counted"] /\ now' = now
        /\ countedAt'[r] = now /\ now # 0
        /\ \A p \in Requests \ {r} : countedAt'[p] = countedAt[p] /\ count'[p] = count[p]
    BY <1>1, IncrCounts
  <2>2. CASE o = r
    <3>1. /\ count'[r] = counters'[Slot(r)].value
          /\ counters'[Slot(r)].value =
                  IF Slot(r) \in DOMAIN counters THEN counters[Slot(r)].value + 1 ELSE 1
      BY <1>1, IncrValue
    <3>2. Slot(r) \in DOMAIN counters => counters[Slot(r)].value \in Nat
      BY DEF Typed
    <3>3. count'[r] # 0
      BY <3>1, <3>2
    <3> QED BY <1>0, <2>1, <2>2, <3>3 DEF Stamped, Typed
  <2>3. CASE o # r
    BY <1>0, <2>1, <2>3 DEF Stamped, Typed
  <2> QED BY <2>2, <2>3
<1>2. CASE Uncounting
  <2>1. countedAt' = countedAt /\ count' = count
    BY <1>2, SameCounted
  <2>2. now' \in Nat /\ now' >= now
    BY <1>0, <1>2 DEF Uncounting, Tick, vars, Arrive, IncrReply, Expire, ExpireReply, RedisFails, WorkerStops
  <2>3. CASE pc'[o] = pc[o]
    BY <1>0, <2>1, <2>2, <2>3 DEF Stamped, Typed
  <2>4. CASE pc'[o] # pc[o]
    <3>1. Arrive(o) \/ IncrReply(o) \/ Expire(o) \/ ExpireReply(o) \/ RedisFails(o) \/ WorkerStops(o)
      BY <1>2, <2>4 DEF Uncounting, Tick, vars, Arrive, IncrReply, Expire, ExpireReply,
                        RedisFails, WorkerStops, Goto, Typed
    <3>2. CASE Arrive(o)
      BY <1>0, <2>1, <2>2, <3>2 DEF Arrive, Goto, Stamped, Typed
    <3>3. CASE IncrReply(o)
      BY <1>0, <2>1, <2>2, <3>3 DEF IncrReply, Goto, Verdict, Stamped, Typed
    <3>4. CASE Expire(o)
      BY <1>0, <2>1, <2>2, <3>4 DEF Expire, Goto, Stamped, Typed
    <3>5. CASE ExpireReply(o)
      BY <1>0, <2>1, <2>2, <3>5 DEF ExpireReply, Goto, Verdict, Stamped, Typed
    <3>6. CASE RedisFails(o) \/ WorkerStops(o)
      BY <1>0, <2>1, <2>2, <3>6 DEF RedisFails, WorkerStops, Goto, Stamped, Typed
    <3> QED BY <3>1, <3>2, <3>3, <3>4, <3>5, <3>6
  <2> QED BY <2>3, <2>4
<1> QED BY <1>1, <1>2, StepKinds

LEMMA BackedStep == Typed /\ Stamps /\ Backed /\ [Next]_vars => Backed'
<1> SUFFICES ASSUME Typed, Stamps, Backed, [Next]_vars PROVE Backed'
  OBVIOUS
<1>1. CASE Uncounting
  <2>1. /\ countedAt' = countedAt /\ count' = count
        /\ \A r \in Requests : countedAt[r] # 0 => Slot(r)' = Slot(r)
        /\ \A s : Counted(s)' = Counted(s)
    BY <1>1, SameCounted
  <2>2. \A s \in DOMAIN counters' : s \in DOMAIN counters /\ counters'[s].value = counters[s].value
    <3>1. CASE \E r \in Requests : Expire(r)
      BY <3>1 DEF Expire, Typed
    <3>2. CASE Tick
      BY <3>2 DEF Tick
    <3>3. CASE counters' = counters
      BY <3>3
    <3> QED BY <1>1, <3>1, <3>2, <3>3 DEF Uncounting, vars, Arrive, IncrReply, ExpireReply,
                                           RedisFails, WorkerStops
  <2>3. ASSUME NEW s \in DOMAIN counters'
        PROVE  counters'[s].value \in 1..Cardinality(Counted(s)')
    <3>1. Counted(s)' = Counted(s)
      BY <2>1
    <3> QED BY <2>2, <3>1 DEF Backed
  <2>4. ASSUME NEW r \in Requests, countedAt'[r] # 0
        PROVE  count'[r] <= Cardinality(Counted(Slot(r))')
    <3>1. Slot(r)' = Slot(r) /\ countedAt[r] # 0
      BY <2>1, <2>4
    <3>2. Counted(Slot(r))' = {o \in Requests : countedAt'[o] # 0 /\ Slot(o)' = Slot(r)'}
      BY DEF Counted
    <3>3. Counted(Slot(r))' = Counted(Slot(r))
      BY <2>1, <3>1, <3>2 DEF Counted
    <3> QED BY <2>1, <3>1, <3>3 DEF Backed
  <2> QED BY <2>3, <2>4 DEF Backed
<1>2. ASSUME NEW r \in Requests, Incr(r) PROVE Backed'
  <2>0. PICK s : s = Slot(r)
    OBVIOUS
  <2>1. /\ countedAt[r] = 0 /\ \A o : Slot(o)' = Slot(o)
        /\ \A o \in Requests \ {r} : countedAt'[o] = countedAt[o] /\ count'[o] = count[o]
        /\ \A t : Counted(t)' = IF t = s THEN Counted(t) \cup {r} ELSE Counted(t)
        /\ r \notin Counted(s)
    BY <1>2, <2>0, IncrCounts
  <2>2. /\ DOMAIN counters' = DOMAIN counters \cup {s}
        /\ \A t \in DOMAIN counters \ {s} : counters'[t] = counters[t]
        /\ counters'[s].value = IF s \in DOMAIN counters THEN counters[s].value + 1 ELSE 1
        /\ count'[r] = counters'[s].value
    BY <1>2, <2>0, IncrValue
  <2>3. /\ Cardinality(Counted(s)) \in Nat
        /\ Cardinality(Counted(s)') = Cardinality(Counted(s)) + 1
    BY <2>1, CountedFinite, FS_AddElement
  <2>4. ASSUME NEW t PROVE Cardinality(Counted(t)) <= Cardinality(Counted(t)')
                           /\ Cardinality(Counted(t)) \in Nat /\ Cardinality(Counted(t)') \in Nat
    <3>1. CASE t = s
      BY <2>3, <3>1
    <3>2. CASE t # s
      <4>1. Counted(t)' = Counted(t)
        BY <2>1, <3>2
      <4> QED BY <4>1, CountedFinite
    <3> QED BY <3>1, <3>2
  <2>5. counters'[s].value \in 1..Cardinality(Counted(s)')
    BY <2>2, <2>3 DEF Backed
  <2>6. ASSUME NEW t \in DOMAIN counters'
        PROVE  counters'[t].value \in 1..Cardinality(Counted(t)')
    <3>1. CASE t = s
      BY <2>5, <3>1
    <3>2. CASE t # s
      <4>1. counters'[t].value \in 1..Cardinality(Counted(t)) /\ Counted(t)' = Counted(t)
        BY <2>1, <2>2, <3>2 DEF Backed
      <4> QED BY <4>1
    <3> QED BY <3>1, <3>2
  <2>7. ASSUME NEW o \in Requests, countedAt'[o] # 0
        PROVE  count'[o] <= Cardinality(Counted(Slot(o))')
    <3>0. Counted(Slot(o))' = {p \in Requests : countedAt'[p] # 0 /\ Slot(p)' = Slot(o)}
      BY <2>1 DEF Counted
    <3>1. CASE o = r
      <4>1. Counted(Slot(r))' = Counted(s)'
        BY <2>0, <2>1 DEF Counted
      <4> QED BY <2>2, <2>5, <3>1, <4>1
    <3>2. CASE o # r
      <4>0. PICK t : t = Slot(o)
        OBVIOUS
      <4>1. count'[o] = count[o] /\ count[o] <= Cardinality(Counted(t)) /\ count[o] \in Nat
        BY <2>1, <2>7, <3>2, <4>0 DEF Backed, Typed
      <4>2. Counted(Slot(o))' = Counted(t)'
        BY <2>1, <4>0 DEF Counted
      <4>3. Cardinality(Counted(t)) <= Cardinality(Counted(t)')
            /\ Cardinality(Counted(t)) \in Nat /\ Cardinality(Counted(t)') \in Nat
        BY <2>4
      <4> QED BY <4>1, <4>2, <4>3
    <3> QED BY <3>1, <3>2
  <2> QED BY <2>6, <2>7 DEF Backed
<1> QED BY <1>1, <1>2, StepKinds

LEMMA ExpiriesStep == Typed /\ Expiries /\ [Next]_vars => Expiries'
<1> SUFFICES ASSUME Typed, Expiries, [Next]_vars PROVE Expiries'
  OBVIOUS
<1>0. now \in Nat /\ Window \in Nat /\ \A s \in DOMAIN counters : counters[s].expires \in Nat
  BY RedisAssumption DEF Typed
<1>1. CASE Tick
  <2>1. /\ now' = now + 1
        /\ \A s \in DOMAIN counters' :
             /\ s \in DOMAIN counters /\ counters'[s] = counters[s]
             /\ counters[s].expires = Never \/ counters[s].expires > now + 1
    BY <1>1 DEF Tick
  <2>2. ASSUME NEW s \in DOMAIN counters'
        PROVE  counters'[s].expires \in {Never} \cup (now' + 1)..(now' + Window + 1)
    <3>1. CASE counters[s].expires = Never
      BY <2>1, <3>1
    <3>2. CASE counters[s].expires # Never
      <4>1. counters[s].expires > now + 1 /\ counters[s].expires <= now + Window + 1
            /\ counters[s].expires \in Nat
        BY <1>0, <2>1, <3>2 DEF Expiries
      <4> QED BY <1>0, <2>1, <4>1
    <3> QED BY <3>1, <3>2
  <2> QED BY <2>2 DEF Expiries
<1>2. ASSUME NEW r \in Requests, Incr(r) PROVE Expiries'
  <2>1. LET s == Slot(r)
        IN  /\ DOMAIN counters' = DOMAIN counters \cup {s}
            /\ \A t \in DOMAIN counters \ {s} : counters'[t] = counters[t]
            /\ counters'[s].expires =
                 IF s \in DOMAIN counters THEN counters[s].expires ELSE Never
    BY <1>2, IncrValue
  <2>2. now' = now
    BY <1>2 DEF Incr
  <2> QED BY <2>1, <2>2 DEF Expiries
<1>3. ASSUME NEW r \in Requests, Expire(r) PROVE Expiries'
  <2>1. now' = now /\ counters' = [counters EXCEPT ![Slot(r)].expires = now + Window + 1]
    BY <1>3 DEF Expire
  <2>2. ASSUME NEW s \in DOMAIN counters'
        PROVE  counters'[s].expires \in {Never} \cup (now' + 1)..(now' + Window + 1)
    <3>1. s \in DOMAIN counters
      BY <2>1
    <3>2. CASE s = Slot(r)
      <4>1. counters'[s].expires = now + Window + 1
        BY <2>1, <3>1, <3>2 DEF Typed
      <4> QED BY <1>0, <2>1, <4>1
    <3>3. CASE s # Slot(r)
      BY <2>1, <3>1, <3>3 DEF Expiries
    <3> QED BY <3>2, <3>3
  <2> QED BY <2>2 DEF Expiries
<1>4. CASE UNCHANGED <<now, counters>>
  BY <1>4 DEF Expiries
<1> QED BY <1>1, <1>2, <1>3, <1>4 DEF Next, vars, Arrive, IncrReply, ExpireReply, RedisFails, WorkerStops

LEMMA Invariance == Spec => [](Typed /\ Stamps /\ Backed /\ Expiries)
<1>1. Typed /\ Stamps /\ Backed /\ Expiries /\ [Next]_vars
        => (Typed /\ Stamps /\ Backed /\ Expiries)'
  BY TypedStep, StampsStep, BackedStep, ExpiriesStep
<1> QED BY <1>1, StartsTyped, PTL DEF Spec

-----------------------------------------------------------------------------
(* The theorems *)

\* For any requests, limits, windows and clocks: the state is well typed, no counter
\* exceeds the number of requests, and an expiry is at most a window and a second away.
THEOREM TypeCorrect == Spec => []TypeOK
<1>1. Typed /\ Stamps /\ Backed /\ Expiries => TypeOK
  <2> SUFFICES ASSUME Typed, Stamps, Backed, Expiries PROVE TypeOK
    OBVIOUS
  <2>1. Cardinality(Requests) \in Nat
    BY RedisAssumption, FS_CardinalityType
  <2>2. ASSUME NEW s \in DOMAIN counters
        PROVE  /\ s \in {Slot(r) : r \in Requests}
               /\ counters[s].value \in 1..Cardinality(Requests)
    <3>1. counters[s].value \in 1..Cardinality(Counted(s))
      BY DEF Backed
    <3>2. /\ IsFiniteSet(Counted(s)) /\ Cardinality(Counted(s)) \in Nat
          /\ Cardinality(Counted(s)) <= Cardinality(Requests)
      BY CountedFinite
    <3>3. Cardinality(Counted(s)) # 0
      BY <3>1, <3>2
    <3>4. Counted(s) # {}
      BY <3>3, FS_EmptySet
    <3>5. s \in {Slot(r) : r \in Requests}
      BY <3>4 DEF Counted
    <3> QED BY <2>1, <3>1, <3>2, <3>5
  <2>3. ASSUME NEW r \in Requests
        PROVE  count[r] \in (IF countedAt[r] = 0 THEN {0} ELSE 1..Cardinality(Requests))
    <3>1. count[r] \in Nat /\ (countedAt[r] = 0 <=> count[r] = 0)
      BY DEF Typed, Stamps, Stamped
    <3>2. CASE countedAt[r] # 0
      <4>1. count[r] <= Cardinality(Counted(Slot(r)))
        BY <3>2 DEF Backed
      <4>2. /\ Cardinality(Counted(Slot(r))) \in Nat
            /\ Cardinality(Counted(Slot(r))) <= Cardinality(Requests)
        BY CountedFinite
      <4> QED BY <2>1, <3>1, <3>2, <4>1, <4>2
    <3> QED BY <3>1, <3>2
  <2> QED BY <2>2, <2>3 DEF Typed, Expiries, TypeOK, Places
<1> QED BY <1>1, Invariance, PTL

\* For any requests, limits, windows and clocks: whoever is refused shares its
\* window and its key or address with a limit's worth of other requests.
THEOREM DenialsAreJustified == Spec => []DenialsJustified
<1>1. Typed /\ Stamps /\ Backed => DenialsJustified
  <2> SUFFICES ASSUME Typed, Stamps, Backed, NEW r \in Requests, pc[r] = "limited"
               PROVE  LET byKey(o) == KeySource = "api_key" /\ client[o].key # NoKey
                          others == {o \in Requests \ {r} :
                                       /\ countedAt[o] # 0
                                       /\ epoch[o] \div Window = epoch[r] \div Window
                                       /\ byKey(o) <=> byKey(r)
                                       /\ IF byKey(r) THEN client[o].key = client[r].key
                                                       ELSE client[o].host = client[r].host}
                      IN  Cardinality(others) >= Limit
    BY DEF DenialsJustified
  <2> DEFINE byKey(o) == KeySource = "api_key" /\ client[o].key # NoKey
             others == {o \in Requests \ {r} :
                          /\ countedAt[o] # 0
                          /\ epoch[o] \div Window = epoch[r] \div Window
                          /\ byKey(o) <=> byKey(r)
                          /\ IF byKey(r) THEN client[o].key = client[r].key
                                          ELSE client[o].host = client[r].host}
             same == Counted(Slot(r))
  <2>1. /\ r \in same /\ count[r] > Limit /\ count[r] <= Cardinality(same)
        /\ count[r] \in Nat /\ Limit \in Nat
    BY RedisAssumption DEF Stamps, Stamped, Backed, Typed, Counted
  <2>2. IsFiniteSet(same) /\ Cardinality(same) \in Nat
    BY CountedFinite
  <2>3. same \ {r} \subseteq others
    <3> SUFFICES ASSUME NEW o \in same, o # r PROVE o \in others
      OBVIOUS
    <3>1. o \in Requests /\ countedAt[o] # 0 /\ Slot(o) = Slot(r)
      BY DEF Counted
    <3>2. Identity(o) = Identity(r) /\ epoch[o] \div Window = epoch[r] \div Window
      BY <3>1 DEF Slot
    <3>3. /\ byKey(o) <=> byKey(r)
          /\ IF byKey(r) THEN client[o].key = client[r].key ELSE client[o].host = client[r].host
      BY <3>2 DEF Identity
    <3> QED BY <3>1, <3>2, <3>3
  <2>4. IsFiniteSet(others)
    BY RedisAssumption, FS_Subset
  <2> HIDE DEF others, same
  <2>5. Cardinality(same \ {r}) = Cardinality(same) - 1
    BY <2>1, <2>2, FS_RemoveElement
  <2>6. Cardinality(same \ {r}) <= Cardinality(others) /\ Cardinality(others) \in Nat
    BY <2>3, <2>4, FS_Subset, FS_CardinalityType
  <2>7. Cardinality(others) >= Limit
    BY <2>1, <2>2, <2>5, <2>6
  <2> QED BY <2>7 DEF others
<1> QED BY <1>1, Invariance, PTL

\* For any requests, limits, windows and clocks: a counter without an expiry is
\* about to get one or stems from a failed request.
THEOREM LeaksAreFailures == Spec => []OnlyFailuresLeak
<1>1. Init => OnlyFailuresLeak
  BY DEF Init, OnlyFailuresLeak
<1>2. Typed /\ Stamps /\ OnlyFailuresLeak /\ [Next]_vars => OnlyFailuresLeak'
  <2> SUFFICES ASSUME Typed, Stamps, OnlyFailuresLeak, [Next]_vars,
                      NEW s \in DOMAIN counters', counters'[s].expires = Never
               PROVE  \E o \in Counted(s)' :
                        count'[o] = 1 /\ pc'[o] \in {"counted", "expire", "waived", "unavailable", "gone"}
    BY DEF OnlyFailuresLeak
  <2>1. ASSUME s \in DOMAIN counters, counters[s].expires = Never
        PROVE  \E o \in Requests :
                 /\ countedAt[o] # 0 /\ o \in Counted(s) /\ Slot(o) = s
                 /\ count[o] = 1 /\ pc[o] \in {"counted", "expire", "waived", "unavailable", "gone"}
    BY <2>1 DEF OnlyFailuresLeak, Counted
  <2>2. ASSUME NEW r \in Requests, Incr(r)
        PROVE  \E o \in Counted(s)' :
                 count'[o] = 1 /\ pc'[o] \in {"counted", "expire", "waived", "unavailable", "gone"}
    <3>1. /\ pc' = [pc EXCEPT ![r] = "counted"] /\ countedAt[r] = 0
          /\ \A o \in Requests \ {r} : countedAt'[o] = countedAt[o] /\ count'[o] = count[o]
          /\ Counted(s)' = IF s = Slot(r) THEN Counted(s) \cup {r} ELSE Counted(s)
      BY <2>2, IncrCounts
    <3>2. /\ DOMAIN counters' = DOMAIN counters \cup {Slot(r)}
          /\ \A t \in DOMAIN counters \ {Slot(r)} : counters'[t] = counters[t]
          /\ counters'[Slot(r)].value = IF Slot(r) \in DOMAIN counters THEN counters[Slot(r)].value + 1 ELSE 1
          /\ counters'[Slot(r)].expires = IF Slot(r) \in DOMAIN counters THEN counters[Slot(r)].expires ELSE Never
          /\ count'[r] = counters'[Slot(r)].value
      BY <2>2, IncrValue
    <3>3. CASE s \in DOMAIN counters
      <4>1. counters[s].expires = Never
        BY <3>2, <3>3
      <4>2. PICK o \in Requests :
                 /\ countedAt[o] # 0 /\ o \in Counted(s)
                 /\ count[o] = 1 /\ pc[o] \in {"counted", "expire", "waived", "unavailable", "gone"}
        BY <2>1, <3>3, <4>1
      <4>3. o # r /\ o \in Counted(s)' /\ count'[o] = 1 /\ pc'[o] = pc[o]
        BY <3>1, <4>2 DEF Typed
      <4> QED BY <4>2, <4>3
    <3>4. CASE s \notin DOMAIN counters
      <4>1. s = Slot(r) /\ count'[r] = 1 /\ r \in Counted(s)' /\ pc'[r] = "counted"
        BY <3>1, <3>2, <3>4 DEF Typed
      <4> QED BY <4>1
    <3> QED BY <3>3, <3>4
  <2>3. CASE Uncounting
    <3>1. /\ count' = count /\ Counted(s)' = Counted(s)
      BY <2>3, SameCounted
    <3>2. /\ s \in DOMAIN counters /\ counters[s].expires = Never
          /\ \A r \in Requests : Expire(r) => s # Slot(r)
      <4>1. CASE \E r \in Requests : Expire(r)
        <5>1. PICK r \in Requests : Expire(r)
          BY <4>1
        <5>2. counters' = [counters EXCEPT ![Slot(r)].expires = now + Window + 1]
          BY <5>1 DEF Expire
        <5>3. s \in DOMAIN counters /\ now + Window + 1 # Never
          BY <5>2, RedisAssumption DEF Never, Typed
        <5>4. s # Slot(r)
          BY <5>2, <5>3 DEF Typed
        <5>5. \A p \in Requests : Expire(p) => p = r
          BY <5>1 DEF Expire, Goto, Typed
        <5> QED BY <5>2, <5>3, <5>4, <5>5
      <4>2. CASE Tick
        BY <4>2 DEF Tick, Expire, Goto, Typed
      <4>3. CASE counters' = counters /\ ~\E r \in Requests : Expire(r)
        BY <4>3
      <4> QED BY <2>3, <4>1, <4>2, <4>3 DEF Uncounting, vars, Arrive, IncrReply, ExpireReply,
                                              RedisFails, WorkerStops
    <3>3. PICK o \in Requests :
             /\ countedAt[o] # 0 /\ o \in Counted(s) /\ Slot(o) = s
             /\ count[o] = 1 /\ pc[o] \in {"counted", "expire", "waived", "unavailable", "gone"}
      BY <2>1, <3>2
    <3>4. pc'[o] \in {"counted", "expire", "waived", "unavailable", "gone"}
      <4>1. CASE pc'[o] = pc[o]
        BY <3>3, <4>1
      <4>2. CASE pc'[o] # pc[o]
        <5>1. Arrive(o) \/ IncrReply(o) \/ Expire(o) \/ ExpireReply(o) \/ RedisFails(o) \/ WorkerStops(o)
          BY <2>3, <4>2 DEF Uncounting, Tick, vars, Arrive, IncrReply, Expire, ExpireReply,
                            RedisFails, WorkerStops, Goto, Typed
        <5>2. ~Expire(o)
          BY <3>2, <3>3
        <5> QED BY <3>3, <5>1, <5>2 DEF Arrive, IncrReply, ExpireReply, RedisFails, WorkerStops,
                                         Goto, Typed
      <4> QED BY <4>1, <4>2
    <3> QED BY <3>1, <3>3, <3>4
  <2> QED BY <2>2, <2>3, StepKinds
<1> QED BY <1>1, <1>2, Invariance, PTL DEF Spec

-----------------------------------------------------------------------------
(* The quota *)

\* Lateness among the requests of a slot differs by two seconds or more.
Spread(s) == \E r, o \in Counted(s) : Lateness(r) - Lateness(o) >= 2

\* Once a counter was dropped, its slot has a request that was counted a window
\* and a second before; until then nobody was told more than its value.
Numbered ==
  \A r \in Requests : countedAt[r] # 0 /\ ~Spread(Slot(r)) =>
    /\ Slot(r) \in DOMAIN counters => count[r] <= counters[Slot(r)].value
    /\ \A o \in Counted(Slot(r)) \ {r} : count[o] # count[r]

Overdue ==
  /\ \A s \in DOMAIN counters : counters[s].expires # Never =>
       \E r \in Counted(s) : countedAt[r] + Window + 1 <= counters[s].expires
  /\ \A r \in Requests : countedAt[r] # 0 /\ Slot(r) \notin DOMAIN counters =>
       \E o \in Counted(Slot(r)) : countedAt[o] + Window + 1 <= now

LEMMA SameWindow ==
  ASSUME NEW a \in Nat, NEW b \in Nat, NEW w \in Nat \ {0}, a \div w = b \div w
  PROVE  a - b <= w - 1
BY SMT

\* Whoever is counted once the counter has been dropped is late.
LEMMA LateAfterDrop ==
  ASSUME Typed, NEW r \in Requests, NEW o \in Requests, Slot(r) = Slot(o),
         NEW t \in Nat, countedAt[o] + Window + 1 <= t
  PROVE  (t - epoch[r]) - Lateness(o) >= 2
<1>1. epoch[r] \div Window = epoch[o] \div Window
  BY DEF Slot
<1>2. epoch[r] \in Nat /\ epoch[o] \in Nat /\ Window \in Nat \ {0} /\ countedAt[o] \in Nat
  BY RedisAssumption DEF Typed
<1>3. epoch[r] - epoch[o] <= Window - 1
  BY <1>1, <1>2, SameWindow
<1> QED BY <1>2, <1>3 DEF Lateness

\* A difference in lateness, once there, stays.
LEMMA SpreadStays ==
  ASSUME Typed, Stamps, [Next]_vars, NEW s, Spread(s)
  PROVE  Spread(s)'
<1>1. PICK r \in Counted(s), o \in Counted(s) : Lateness(r) - Lateness(o) >= 2
  BY DEF Spread
<1>2. ASSUME NEW p \in {r, o} PROVE p \in Counted(s)' /\ Lateness(p)' = Lateness(p)
  <2>1. p \in Requests /\ countedAt[p] # 0 /\ p \in Counted(s)
    BY <1>1 DEF Counted
  <2>2. CASE Uncounting
    <3>1. Counted(s)' = Counted(s) /\ countedAt' = countedAt /\ epoch'[p] = epoch[p]
      BY <2>1, <2>2, SameCounted
    <3> QED BY <2>1, <3>1 DEF Lateness
  <2>3. ASSUME NEW q \in Requests, Incr(q)
        PROVE  p \in Counted(s)' /\ Lateness(p)' = Lateness(p)
    <3>1. /\ epoch' = epoch /\ countedAt[q] = 0
          /\ \A i \in Requests \ {q} : countedAt'[i] = countedAt[i]
          /\ Counted(s)' = IF s = Slot(q) THEN Counted(s) \cup {q} ELSE Counted(s)
      BY <2>3, IncrCounts
    <3> QED BY <2>1, <3>1 DEF Lateness
  <2> QED BY <2>2, <2>3, StepKinds
<1>3. Lateness(r)' - Lateness(o)' >= 2
  BY <1>1, <1>2
<1> QED BY <1>2, <1>3 DEF Spread

\* A request that is counted after its counter was dropped spreads its slot.
LEMMA SpreadAfterDrop ==
  ASSUME Typed, Stamps, Overdue, NEW p \in Requests, Incr(p), NEW s, s = Slot(p),
         s \notin DOMAIN counters, Counted(s) # {}
  PROVE  Spread(s)'
<1>1. PICK r \in Counted(s) : TRUE
  OBVIOUS
<1>2. r \in Requests /\ countedAt[r] # 0 /\ Slot(r) = s
  BY <1>1 DEF Counted
<1>3. PICK o \in Counted(s) : countedAt[o] + Window + 1 <= now
  BY <1>2 DEF Overdue
<1>4. o \in Requests /\ countedAt[o] # 0 /\ Slot(o) = s
  BY <1>3 DEF Counted
<1>5. /\ epoch' = epoch /\ countedAt[p] = 0 /\ countedAt'[p] = now
      /\ \A i \in Requests \ {p} : countedAt'[i] = countedAt[i]
      /\ Counted(s)' = Counted(s) \cup {p}
  BY IncrCounts
<1>6. now \in Nat
  BY DEF Typed
<1>7. (now - epoch[p]) - Lateness(o) >= 2
  BY <1>3, <1>4, <1>6, LateAfterDrop
<1>8. Lateness(p)' = now - epoch[p] /\ Lateness(o)' = Lateness(o)
  BY <1>4, <1>5 DEF Lateness
<1> QED BY <1>3, <1>5, <1>7, <1>8 DEF Spread

LEMMA OverdueStep == Typed /\ Stamps /\ Overdue /\ [Next]_vars => Overdue'
<1> SUFFICES ASSUME Typed, Stamps, Overdue, [Next]_vars PROVE Overdue'
  OBVIOUS
<1>0. /\ now \in Nat /\ Window \in Nat /\ \A s \in DOMAIN counters : counters[s].expires \in Nat
      /\ \A r \in Requests : countedAt[r] \in Nat /\ countedAt[r] <= now
  BY RedisAssumption DEF Typed, Stamps, Stamped
<1>1. ASSUME NEW s \in DOMAIN counters', counters'[s].expires # Never
      PROVE  \E r \in Counted(s)' : countedAt'[r] + Window + 1 <= counters'[s].expires
  <2>1. ASSUME s \in DOMAIN counters, counters[s].expires # Never
        PROVE  \E r \in Requests :
                 /\ r \in Counted(s) /\ countedAt[r] # 0
                 /\ countedAt[r] + Window + 1 <= counters[s].expires
    BY <2>1 DEF Overdue, Counted
  <2>2. ASSUME NEW p \in Requests, Incr(p)
        PROVE  \E r \in Counted(s)' : countedAt'[r] + Window + 1 <= counters'[s].expires
    <3>1. /\ countedAt[p] = 0
          /\ \A i \in Requests \ {p} : countedAt'[i] = countedAt[i]
          /\ Counted(s)' = IF s = Slot(p) THEN Counted(s) \cup {p} ELSE Counted(s)
      BY <2>2, IncrCounts
    <3>2. s \in DOMAIN counters /\ counters'[s].expires = counters[s].expires
      BY <1>1, <2>2, IncrValue
    <3> QED BY <1>1, <2>1, <3>1, <3>2
  <2>3. CASE Uncounting
    <3>1. countedAt' = countedAt /\ Counted(s)' = Counted(s)
      BY <2>3, SameCounted
    <3>2. ASSUME NEW p \in Requests, Expire(p)
          PROVE  \E r \in Counted(s)' : countedAt'[r] + Window + 1 <= counters'[s].expires
      <4>1. /\ counters' = [counters EXCEPT ![Slot(p)].expires = now + Window + 1]
            /\ s \in DOMAIN counters /\ countedAt[p] # 0
        BY <3>2 DEF Expire, Stamps, Stamped
      <4>2. CASE s = Slot(p)
        <5>1. p \in Counted(s) /\ counters'[s].expires = now + Window + 1
          BY <4>1, <4>2 DEF Counted, Typed
        <5>2. countedAt[p] + Window + 1 <= now + Window + 1
          BY <1>0
        <5> QED BY <3>1, <5>1, <5>2
      <4>3. CASE s # Slot(p)
        <5>1. counters'[s] = counters[s]
          BY <4>1, <4>3 DEF Typed
        <5> QED BY <1>1, <2>1, <3>1, <4>1, <5>1
      <4> QED BY <4>2, <4>3
    <3>3. CASE Tick
      <4>1. s \in DOMAIN counters /\ counters'[s] = counters[s]
        BY <3>3 DEF Tick
      <4> QED BY <1>1, <2>1, <3>1, <4>1
    <3>4. CASE counters' = counters
      BY <1>1, <2>1, <3>1, <3>4
    <3> QED BY <2>3, <3>2, <3>3, <3>4 DEF Uncounting, vars, Arrive, IncrReply, ExpireReply,
                                            RedisFails, WorkerStops
  <2> QED BY <2>2, <2>3, StepKinds
<1>2. ASSUME NEW r \in Requests, countedAt'[r] # 0, Slot(r)' \notin DOMAIN counters'
      PROVE  \E o \in Counted(Slot(r))' : countedAt'[o] + Window + 1 <= now'
  <2>1. ASSUME NEW s, s = Slot(r)', NEW p \in Requests, Incr(p)
        PROVE  \E o \in Counted(s)' : countedAt'[o] + Window + 1 <= now'
    <3>1. /\ now' = now /\ countedAt[p] = 0 /\ \A i : Slot(i)' = Slot(i)
          /\ \A i \in Requests \ {p} : countedAt'[i] = countedAt[i]
          /\ Counted(s)' = IF s = Slot(p) THEN Counted(s) \cup {p} ELSE Counted(s)
      BY <2>1, IncrCounts
    <3>2. DOMAIN counters' = DOMAIN counters \cup {Slot(p)}
      BY <2>1, IncrValue
    <3>3. r # p /\ s = Slot(r) /\ s \notin DOMAIN counters /\ countedAt[r] # 0
      BY <1>2, <2>1, <3>1, <3>2
    <3>4. PICK o \in Counted(s) : countedAt[o] + Window + 1 <= now
      BY <3>3 DEF Overdue
    <3>5. o \in Requests /\ countedAt[o] # 0
      BY <3>4 DEF Counted
    <3> QED BY <3>1, <3>4, <3>5
  <2>2. ASSUME NEW s, s = Slot(r)', Uncounting
        PROVE  \E o \in Counted(s)' : countedAt'[o] + Window + 1 <= now'
    <3>1. /\ countedAt' = countedAt /\ Counted(s)' = Counted(s) /\ s = Slot(r)
          /\ countedAt[r] # 0
      BY <1>2, <2>2, SameCounted
    <3>2. CASE s \notin DOMAIN counters
      <4>1. PICK o \in Counted(s) : countedAt[o] + Window + 1 <= now
        BY <3>1, <3>2 DEF Overdue
      <4>2. o \in Requests
        BY <4>1 DEF Counted
      <4>3. now' = now \/ now' = now + 1
        BY <2>2 DEF Uncounting, Tick, vars, Arrive, IncrReply, Expire, ExpireReply,
                    RedisFails, WorkerStops
      <4>4. countedAt[o] + Window + 1 <= now'
        BY <1>0, <4>1, <4>2, <4>3
      <4> QED BY <3>1, <4>1, <4>4
    <3>3. CASE s \in DOMAIN counters
      <4>1. Tick
        <5>1. s \notin DOMAIN counters'
          BY <1>2, <2>2
        <5> QED BY <2>2, <3>3, <5>1 DEF Uncounting, vars, Arrive, IncrReply, Expire, ExpireReply,
                                         RedisFails, WorkerStops
      <4>2. now' = now + 1 /\ counters[s].expires # Never /\ ~(counters[s].expires > now')
        BY <1>2, <2>2, <3>3, <4>1 DEF Tick
      <4>3. PICK o \in Counted(s) : countedAt[o] + Window + 1 <= counters[s].expires
        BY <3>3, <4>2 DEF Overdue
      <4>4. o \in Requests
        BY <4>3 DEF Counted
      <4>5. countedAt[o] + Window + 1 <= now'
        BY <1>0, <3>3, <4>2, <4>3, <4>4
      <4> QED BY <3>1, <4>3, <4>5
    <3> QED BY <3>2, <3>3
  <2>3. \A s : s = Slot(r)' => \E o \in Counted(s)' : countedAt'[o] + Window + 1 <= now'
    BY <2>1, <2>2, StepKinds
  <2>4. PICK s : s = Slot(r)'
    OBVIOUS
  <2>5. Counted(Slot(r))' = Counted(s)'
    BY <2>4 DEF Counted
  <2> QED BY <2>3, <2>4, <2>5
<1> QED BY <1>1, <1>2 DEF Overdue

LEMMA NumberedStep == Typed /\ Stamps /\ Overdue /\ Numbered /\ [Next]_vars => Numbered'
<1> SUFFICES ASSUME Typed, Stamps, Overdue, Numbered, [Next]_vars PROVE Numbered'
  OBVIOUS
<1> SUFFICES ASSUME NEW r \in Requests, NEW s, s = Slot(r)', countedAt'[r] # 0, ~Spread(s)'
             PROVE  /\ s \in DOMAIN counters' => count'[r] <= counters'[s].value
                    /\ \A o \in Counted(s)' \ {r} : count'[o] # count'[r]
  <2>1. ASSUME NEW r \in Requests, countedAt'[r] # 0, ~Spread(Slot(r))'
        PROVE  /\ Slot(r)' \in DOMAIN counters' => count'[r] <= counters'[Slot(r)'].value
               /\ \A o \in Counted(Slot(r))' \ {r} : count'[o] # count'[r]
    <3>1. PICK s : s = Slot(r)'
      OBVIOUS
    <3>2. Counted(s)' = Counted(Slot(r))'
      BY <3>1 DEF Counted
    <3>3. ~Spread(s)'
      BY <2>1, <3>2 DEF Spread
    <3> QED BY <2>1, <3>1, <3>2, <3>3
  <2> QED BY <2>1 DEF Numbered
<1>0. ~Spread(s)
  BY SpreadStays
<1>1. ASSUME NEW o \in Counted(s)
      PROVE  /\ s \in DOMAIN counters => count[o] <= counters[s].value
             /\ \A i \in Counted(s) \ {o} : count[i] # count[o]
             /\ o \in Requests /\ countedAt[o] # 0
  BY <1>0, <1>1 DEF Numbered, Counted
<1>2. CASE Uncounting
  <2>1. /\ countedAt' = countedAt /\ count' = count /\ Counted(s)' = Counted(s)
        /\ r \in Counted(s)
    <3>1. countedAt' = countedAt /\ count' = count /\ Counted(s)' = Counted(s)
      BY <1>2, SameCounted
    <3>2. countedAt[r] # 0 /\ Slot(r)' = Slot(r)
      BY <1>2, <3>1, SameCounted
    <3> QED BY <3>1, <3>2 DEF Counted
  <2>2. \A t \in DOMAIN counters' : t \in DOMAIN counters /\ counters'[t].value = counters[t].value
    <3>1. CASE \E p \in Requests : Expire(p)
      BY <3>1 DEF Expire, Typed
    <3>2. CASE Tick
      BY <3>2 DEF Tick
    <3>3. CASE counters' = counters
      BY <3>3
    <3> QED BY <1>2, <3>1, <3>2, <3>3 DEF Uncounting, vars, Arrive, IncrReply, ExpireReply,
                                           RedisFails, WorkerStops
  <2> QED BY <1>1, <2>1, <2>2
<1>3. ASSUME NEW p \in Requests, Incr(p)
      PROVE  /\ s \in DOMAIN counters' => count'[r] <= counters'[s].value
             /\ \A o \in Counted(s)' \ {r} : count'[o] # count'[r]
  <2>1. /\ countedAt[p] = 0 /\ \A o : Slot(o)' = Slot(o)
        /\ \A o \in Requests \ {p} : countedAt'[o] = countedAt[o] /\ count'[o] = count[o]
        /\ Counted(s)' = IF s = Slot(p) THEN Counted(s) \cup {p} ELSE Counted(s)
        /\ p \notin Counted(Slot(p))
    BY <1>3, IncrCounts
  <2>2. /\ \A t \in DOMAIN counters \ {Slot(p)} : counters'[t] = counters[t]
        /\ DOMAIN counters' = DOMAIN counters \cup {Slot(p)}
        /\ counters'[Slot(p)].value =
             IF Slot(p) \in DOMAIN counters THEN counters[Slot(p)].value + 1 ELSE 1
        /\ count'[p] = counters'[Slot(p)].value
    BY <1>3, IncrValue
  <2>3. r # p => r \in Counted(s)
    BY <2>1 DEF Counted
  <2>4. CASE s # Slot(p)
    <3>1. r # p /\ Counted(s)' = Counted(s) /\ p \notin Counted(s)
      BY <2>1, <2>4 DEF Counted
    <3>2. \A o \in Counted(s) : count'[o] = count[o]
      BY <1>1, <2>1, <3>1
    <3>3. s \in DOMAIN counters' => s \in DOMAIN counters /\ counters'[s] = counters[s]
      BY <2>2, <2>4
    <3> QED BY <1>1, <2>3, <3>1, <3>2, <3>3
  <2>5. CASE s = Slot(p) /\ s \in DOMAIN counters
    <3>1. counters[s].value \in Nat /\ \A o \in Requests : count[o] \in Nat
      BY <2>5 DEF Typed
    <3>2. count'[p] = counters[s].value + 1 /\ counters'[s].value = counters[s].value + 1
      BY <2>2, <2>5
    <3>3. \A o \in Counted(s) : count'[o] = count[o] /\ count[o] <= counters[s].value /\ count[o] \in Nat
      BY <1>1, <2>1, <2>5, <3>1
    <3>4. \A o \in Counted(s) : count'[o] # count'[p] /\ count'[o] <= counters'[s].value
      BY <3>1, <3>2, <3>3
    <3>5. Counted(s)' = Counted(s) \cup {p}
      BY <2>1, <2>5
    <3>6. CASE r = p
      <4>1. count'[r] <= counters'[s].value
        BY <3>1, <3>2, <3>6
      <4> QED BY <3>4, <3>5, <3>6, <4>1
    <3>7. CASE r # p
      BY <1>1, <2>3, <3>3, <3>4, <3>5, <3>7
    <3> QED BY <3>6, <3>7
  <2>6. CASE s = Slot(p) /\ s \notin DOMAIN counters
    <3>1. Counted(s) = {}
      BY <1>3, <2>6, SpreadAfterDrop
    <3>2. r = p /\ Counted(s)' = {p} /\ count'[p] = 1 /\ counters'[s].value = 1
      BY <2>1, <2>2, <2>3, <2>6, <3>1
    <3> QED BY <3>2
  <2> QED BY <2>4, <2>5, <2>6
<1> QED BY <1>2, <1>3, StepKinds

\* For any requests, limits, windows and clocks: no more than the limit's requests
\* of an identity are let through in a window whose requests' lateness differs by
\* at most a second.
THEOREM QuotaHolds == Spec => []WindowQuota
<1>1. Init => Overdue /\ Numbered
  BY DEF Init, Overdue, Numbered
<1>2. Typed /\ Stamps /\ Overdue /\ Numbered /\ [Next]_vars => (Overdue /\ Numbered)'
  BY OverdueStep, NumberedStep
<1>3. Typed /\ Stamps /\ Numbered => WindowQuota
  <2> SUFFICES ASSUME Typed, Stamps, Numbered, NEW s,
                      \A r, o \in Counted(s) : Lateness(r) - Lateness(o) <= 1
               PROVE  Cardinality({r \in Counted(s) : pc[r] = "allowed"}) <= Limit
    BY DEF WindowQuota
  <2> DEFINE let == {r \in Counted(s) : pc[r] = "allowed"}
             number == [r \in let |-> count[r]]
  <2>1. \A r \in Counted(s) : r \in Requests /\ countedAt[r] # 0 /\ Slot(r) = s
    BY DEF Counted
  <2>2. ~Spread(s)
    <3> SUFFICES ASSUME NEW r \in Counted(s), NEW o \in Counted(s)
                 PROVE  ~(Lateness(r) - Lateness(o) >= 2)
      BY DEF Spread
    <3>1. Lateness(r) \in Int /\ Lateness(o) \in Int
      BY <2>1 DEF Lateness, Typed
    <3>2. Lateness(r) - Lateness(o) <= 1
      OBVIOUS
    <3> QED BY <3>1, <3>2
  <2>3. \A r \in let : count[r] \in 1..Limit
    BY <2>1, RedisAssumption DEF Typed, Stamps, Stamped
  <2>4. \A r, o \in let : count[r] = count[o] => r = o
    BY <2>1, <2>2 DEF Numbered
  <2>5. number \in Injection(let, 1..Limit)
    BY <2>3, <2>4 DEF Injection, IsInjective
  <2> HIDE DEF let, number
  <2>6. IsFiniteSet(1..Limit) /\ Cardinality(1..Limit) = Limit
    BY RedisAssumption, FS_Interval
  <2>7. Cardinality(let) <= Limit
    BY <2>5, <2>6, FS_Injection
  <2> QED BY <2>7 DEF let
<1> QED BY <1>1, <1>2, <1>3, Invariance, PTL DEF Spec
=============================================================================
