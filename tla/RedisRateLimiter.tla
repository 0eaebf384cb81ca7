---------------------------- MODULE RedisRateLimiter ----------------------------
(***************************************************************************)
(* RateLimitMiddleware over RedisRateLimiter of api/rate_limiter.py:       *)
(* workers with clocks of their own share counters in Redis, one for each  *)
(* identity and fixed window.  INCR and EXPIRE are two round trips, each a *)
(* command that Redis applies and a reply; a connection can break and a    *)
(* worker can stop before or after the command was applied.  (The client   *)
(* library is pinned below the version that repeats commands by itself.)   *)
(***************************************************************************)
EXTENDS Integers, FiniteSets

CONSTANTS
  Requests,
  ApiKeys,      \* the keys that clients present, valid or not: authentication comes later
  NoKey,
  Hosts,        \* their addresses
  KeySource,    \* settings.rate_limit_key_source
  Limit,        \* requests_per_window
  Window,       \* window_seconds
  Skews,        \* by how much a worker's clock may be ahead of the slowest
  FailOpen,
  MaxTime       \* bound on Redis's clock

\* The middleware raises limit and window to 1.
ASSUME RedisAssumption ==
  /\ KeySource \in {"api_key", "ip"} /\ FailOpen \in BOOLEAN
  /\ Limit \in Nat \ {0} /\ Window \in Nat \ {0}
  /\ Skews \subseteq Nat /\ MaxTime \in Nat \ {0}
  /\ IsFiniteSet(Requests) /\ NoKey \notin ApiKeys

Never == 0

VARIABLES
  now,        \* Redis's clock, in seconds
  counters,   \* the keys that exist in Redis: their value and when they expire
  pc,         \* where each request is in dispatch and check
  client,     \* the key and the host it comes with
  epoch,      \* int(time.time()) as read by its worker
  count,      \* what INCR returned to it
  countedAt   \* when INCR was applied for it; 0: never

vars == <<now, counters, pc, client, epoch, count, countedAt>>

InRedis == {"incr", "counted", "expire", "expiring"}
Over == {"exempt", "allowed", "waived", "limited", "unavailable", "gone"}

\* The key in the x-api-key or the Authorization header, else the address.
Identity(r) ==
  IF KeySource = "api_key" /\ client[r].key # NoKey
  THEN <<"api_key", client[r].key>>
  ELSE <<"ip", client[r].host>>

WithoutIndex(r) == <<Identity(r), 0>>   \* mutant: the key lacks the window's index

Slot(r) == <<Identity(r), epoch[r] \div Window>>

Goto(r, where) == pc' = [pc EXCEPT ![r] = where]

-----------------------------------------------------------------------------
\* dispatch up to the first reply it waits for: the clock is read before that.
Arrive(r) ==
  /\ pc[r] = "new"
  /\ \/ Goto(r, "exempt") /\ UNCHANGED epoch   \* /healthz, /app, ...
     \/ /\ Goto(r, "incr")
        /\ \E skew \in Skews : epoch' = [epoch EXCEPT ![r] = now + skew]
  /\ UNCHANGED <<now, counters, client, count, countedAt>>

\* A counter that INCR creates has no expiry.
Incremented(s) ==
  [t \in DOMAIN counters \cup {s} |->
     IF t # s THEN counters[t]
     ELSE IF s \in DOMAIN counters
          THEN [counters[s] EXCEPT !.value = @ + 1]
          ELSE [value |-> 1, expires |-> Never]]

Incr(r) ==
  /\ pc[r] = "incr"
  /\ Goto(r, "counted")
  /\ counters' = Incremented(Slot(r))
  /\ count' = [count EXCEPT ![r] = counters'[Slot(r)].value]
  /\ countedAt' = [countedAt EXCEPT ![r] = now]
  /\ UNCHANGED <<now, client, epoch>>

Verdict(n) == IF n > Limit THEN "limited" ELSE "allowed"

IncrReplyNoExpire(r) ==   \* mutant: EXPIRE is sent on the first refusal only
  /\ pc[r] = "counted"
  /\ Goto(r, IF count[r] = Limit + 1 THEN "expire" ELSE Verdict(count[r]))
  /\ UNCHANGED <<now, counters, client, epoch, count, countedAt>>

IncrReply(r) ==
  /\ pc[r] = "counted"
  /\ Goto(r, IF count[r] = 1 THEN "expire" ELSE Verdict(count[r]))
  /\ UNCHANGED <<now, counters, client, epoch, count, countedAt>>

ExpireAtWindowEnd(r) ==   \* mutant: the counter lives to the end of its window only
  /\ pc[r] = "expire"
  /\ Goto(r, "expiring")
  /\ counters' = [counters EXCEPT ![Slot(r)].expires = now + Window - (epoch[r] % Window)]
  /\ UNCHANGED <<now, client, epoch, count, countedAt>>

\* await redis.expire(key, window_seconds + 1)
Expire(r) ==
  /\ pc[r] = "expire"
  /\ Goto(r, "expiring")
  /\ counters' = [counters EXCEPT ![Slot(r)].expires = now + Window + 1]
  /\ UNCHANGED <<now, client, epoch, count, countedAt>>

ExpireReply(r) ==
  /\ pc[r] = "expiring"
  /\ Goto(r, Verdict(count[r]))
  /\ UNCHANGED <<now, counters, client, epoch, count, countedAt>>

\* Either command raises, before or after it was applied.
RedisFails(r) ==
  /\ pc[r] \in InRedis
  /\ Goto(r, IF FailOpen THEN "waived" ELSE "unavailable")
  /\ UNCHANGED <<now, counters, client, epoch, count, countedAt>>

\* The worker stops with the request unanswered.
WorkerStops(r) ==
  /\ pc[r] \in InRedis
  /\ Goto(r, "gone")
  /\ UNCHANGED <<now, counters, client, epoch, count, countedAt>>

\* A second passes; Redis drops what has expired.
Tick ==
  /\ now < MaxTime
  /\ now' = now + 1
  /\ counters' = [s \in {t \in DOMAIN counters :
                           counters[t].expires = Never \/ counters[t].expires > now'}
                    |-> counters[s]]
  /\ UNCHANGED <<pc, client, epoch, count, countedAt>>

-----------------------------------------------------------------------------
Init ==
  /\ now = 1
  /\ counters = [s \in {} |-> [value |-> 1, expires |-> Never]]
  /\ pc = [r \in Requests |-> "new"]
  /\ client \in [Requests -> [key : ApiKeys \cup {NoKey}, host : Hosts]]
  /\ epoch = [r \in Requests |-> 0]
  /\ count = [r \in Requests |-> 0]
  /\ countedAt = [r \in Requests |-> 0]

Next ==
  \/ Tick
  \/ \E r \in Requests : \/ Arrive(r) \/ Incr(r) \/ IncrReply(r) \/ Expire(r)
                         \/ ExpireReply(r) \/ RedisFails(r) \/ WorkerStops(r)

Spec == Init /\ [][Next]_vars
-----------------------------------------------------------------------------
(* Properties *)

TypeOK ==
  /\ now \in 1..MaxTime
  /\ \A s \in DOMAIN counters :
       /\ s \in {Slot(r) : r \in Requests}
       /\ counters[s].value \in 1..Cardinality(Requests)
       /\ counters[s].expires \in {Never} \cup (now + 1)..(now + Window + 1)
  /\ pc \in [Requests -> {"new"} \cup InRedis \cup Over]
  /\ client \in [Requests -> [key : ApiKeys \cup {NoKey}, host : Hosts]]
  /\ epoch \in [Requests -> Nat] /\ countedAt \in [Requests -> Nat]
  /\ \A r \in Requests : count[r] \in (IF countedAt[r] = 0 THEN {0} ELSE 1..Cardinality(Requests))

Counted(s) == {r \in Requests : countedAt[r] # 0 /\ Slot(r) = s}

\* How much later than the moment it was stamped with a request was counted:
\* its delay on the way to Redis, less what its worker's clock is ahead.
Lateness(r) == countedAt[r] - epoch[r]

\* No more than the limit's requests of an identity are let through in a window,
\* on any number of workers, provided that among the window's requests lateness
\* differs by at most the second that the expiry has to spare.
WindowQuota ==
  \A s \in {Slot(r) : r \in Requests} :
    (\A r, o \in Counted(s) : Lateness(r) - Lateness(o) <= 1) =>
      Cardinality({r \in Counted(s) : pc[r] = "allowed"}) <= Limit

\* Whoever is refused shares its window with as many others as the limit allows
\* that were counted and bear the same key; for a request without a key, that
\* come from the same address.  Other keys, other windows and counters that a
\* stopped worker left behind never cost anybody its quota.
DenialsJustified ==
  \A r \in Requests : pc[r] = "limited" =>
    LET byKey(o) == KeySource = "api_key" /\ client[o].key # NoKey
        others == {o \in Requests \ {r} :
                     /\ countedAt[o] # 0
                     /\ epoch[o] \div Window = epoch[r] \div Window
                     /\ byKey(o) <=> byKey(r)
                     /\ IF byKey(r) THEN client[o].key = client[r].key
                                     ELSE client[o].host = client[r].host}
    IN  Cardinality(others) >= Limit

\* A counter without an expiry is about to get one, or stems from a request that
\* failed or whose worker stopped between INCR and EXPIRE.
OnlyFailuresLeak ==
  \A s \in DOMAIN counters : counters[s].expires = Never =>
    \E r \in Counted(s) :
      count[r] = 1 /\ pc[r] \in {"counted", "expire", "waived", "unavailable", "gone"}
=============================================================================
