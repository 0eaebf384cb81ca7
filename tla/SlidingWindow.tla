----------------------------- MODULE SlidingWindow -----------------------------
(***************************************************************************)
(* What a sliding-window limiter promises: a request is let through if and *)
(* only if fewer than Limit requests of its identity were let through in   *)
(* the closed window of length Window that ends now.                       *)
(***************************************************************************)
EXTENDS Integers, Sequences, FiniteSets

CONSTANTS
  Identities,  \* API keys or addresses
  Limit,       \* requests per window
  Window       \* its length, in ticks of the clock

VARIABLES
  now,         \* the monotonic clock
  admitted,    \* for every identity, when its requests were let through
  verdict      \* the latest answer

Recent(i) == {k \in DOMAIN admitted[i] : admitted[i][k] >= now - Window}

Init ==
  /\ now \in Nat
  /\ admitted = [i \in Identities |-> <<>>]
  /\ verdict = "none"

Tick ==
  /\ now' = now + 1
  /\ UNCHANGED <<admitted, verdict>>

Admit(i) ==
  /\ Cardinality(Recent(i)) < Limit
  /\ admitted' = [admitted EXCEPT ![i] = Append(@, now)]
  /\ verdict' = "allowed"
  /\ UNCHANGED now

Deny(i) ==
  /\ Cardinality(Recent(i)) >= Limit
  /\ verdict' = "rate_limited"
  /\ UNCHANGED <<now, admitted>>

Next == Tick \/ \E i \in Identities : Admit(i) \/ Deny(i)

Spec == Init /\ [][Next]_<<now, admitted, verdict>>
=============================================================================
