-------------------------- MODULE InMemoryRateLimiter --------------------------
(***************************************************************************)
(* InMemoryRateLimiter of api/rate_limiter.py: one deque of admission      *)
(* times per identity.  check has no await, so that it is one step of the  *)
(* event loop.  Time is counted in ticks, Second of them to a second; any  *)
(* number of checks may see the same tick.                                 *)
(***************************************************************************)
EXTENDS Integers, Sequences, FiniteSets

CONSTANTS
  Identities,  \* what _identity_key returns
  Limit,       \* RateLimitMiddleware.requests_per_window
  Window,      \* RateLimitMiddleware.window_seconds, in ticks
  Second,      \* the ticks of a second
  MaxTime      \* bound: how long the clock runs

\* The middleware raises both settings to at least 1.
ASSUME LimiterAssumption ==
  /\ Limit \in Nat \ {0}
  /\ Window \in Nat \ {0} /\ Second \in Nat \ {0}
  /\ MaxTime \in Nat

VARIABLES
  now,       \* time.monotonic()
  bucket,    \* _bucket, the defaultdict of deques
  admitted,  \* every admission time of an identity
  verdict,   \* the latest answer
  denial     \* an identity's latest denial, if nothing of it was admitted since

vars == <<now, bucket, admitted, verdict, denial>>

NoDenial == [at |-> -1, hint |-> 0]

EvictedEarly(h, t) ==   \* mutant: <= for <
  CHOOSE n \in 0..Len(h) :
    /\ \A k \in 1..n : h[k] <= t - Window
    /\ n = Len(h) \/ h[n + 1] > t - Window

\* How many times the while loop pops the left end.
Evicted(h, t) ==
  CHOOSE n \in 0..Len(h) :
    /\ \A k \in 1..n : h[k] < t - Window
    /\ n = Len(h) \/ h[n + 1] >= t - Window

Kept(h, t) == SubSeq(h, Evicted(h, t) + 1, Len(h))

-----------------------------------------------------------------------------
Tick ==
  /\ now < MaxTime
  /\ now' = now + 1
  /\ UNCHANGED <<bucket, admitted, verdict, denial>>

Allow(i) ==
  LET history == Kept(bucket[i], now)
  IN  /\ Len(history) < Limit
      /\ bucket' = [bucket EXCEPT ![i] = Append(history, now)]
      /\ admitted' = [admitted EXCEPT ![i] = Append(@, now)]
      /\ verdict' = "allowed"
      /\ denial' = [denial EXCEPT ![i] = NoDenial]
      /\ UNCHANGED now

HintElapsed(history) ==   \* mutant: the time elapsed, not the time that remains
  LET wait == (now - history[1]) \div Second
  IN  IF wait > 1 THEN wait ELSE 1

\* max(1, int(history[0] + window_seconds - now))
Hint(history) ==
  LET wait == (history[1] + Window - now) \div Second
  IN  IF wait > 1 THEN wait ELSE 1

Limited(i) ==
  LET history == Kept(bucket[i], now)
  IN  /\ Len(history) >= Limit
      /\ bucket' = [bucket EXCEPT ![i] = history]
      /\ verdict' = "rate_limited"
      /\ denial' = [denial EXCEPT ![i] = [at |-> now, hint |-> Hint(history)]]
      /\ UNCHANGED <<now, admitted>>

Init ==
  /\ now = 0
  /\ bucket = [i \in Identities |-> <<>>]
  /\ admitted = [i \in Identities |-> <<>>]
  /\ verdict = "none"
  /\ denial = [i \in Identities |-> NoDenial]

Next == Tick \/ \E i \in Identities : Allow(i) \/ Limited(i)

Spec == Init /\ [][Next]_vars

-----------------------------------------------------------------------------
(* Properties *)

Times == Seq(Nat)

\* In particular no deque ever holds more than Limit entries.
TypeOK ==
  /\ now \in 0..MaxTime
  /\ bucket \in [Identities -> Times]
  /\ \A i \in Identities : Len(bucket[i]) <= Limit
  /\ admitted \in [Identities -> Times]
  /\ verdict \in {"none", "allowed", "rate_limited"}
  /\ denial \in [Identities -> [at : -1..MaxTime, hint : Nat]]

\* No window of the configured length, wherever it starts, sees more than Limit
\* admissions of one identity.
WindowQuota ==
  \A i \in Identities : \A k \in DOMAIN admitted[i] :
    k + Limit \in DOMAIN admitted[i] => admitted[i][k + Limit] - admitted[i][k] > Window

\* Retry-After is truncated to whole seconds.  Whoever waits one second longer
\* than it says, and lets nobody else use the identity, is admitted.
RetryHint ==
  \A i \in Identities :
    denial[i] # NoDenial /\ now >= denial[i].at + (denial[i].hint + 1) * Second
      => Len(Kept(bucket[i], now)) < Limit

\* The deque gives exactly the answers that the full list of admissions gives.
Log == INSTANCE SlidingWindow
  WITH Identities <- Identities, Limit <- Limit, Window <- Window,
       now <- now, admitted <- admitted, verdict <- verdict
LogSpec == Log!Spec
=============================================================================
