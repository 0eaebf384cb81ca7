--------------------------------- MODULE Gateway ---------------------------------
(***************************************************************************)
(* What a request passes before a handler sees it: RateLimitMiddleware,    *)
(* here with the in-memory limiter, then ApiKeyAuthMiddleware.  create_app *)
(* adds the limiter last, and so it comes first: a request is metered by   *)
(* the key it presents before anybody has checked that key.  Between the   *)
(* two the event loop may serve other requests and the clock moves on.     *)
(***************************************************************************)
EXTENDS InMemoryRateLimiter

CONSTANTS
  Requests,
  Keys,    \* what _extract_api_key may return
  NoKey,   \* or None
  Issued,  \* the keys in api_auth_keys and api_auth_key_hashes, if any are set
  Hosts    \* request.client.host, or "unknown"

\* The prefixes api_key: and ip: keep keys and hosts apart.
ASSUME GatewayAssumption ==
  /\ IsFiniteSet(Requests)
  /\ Issued \subseteq Keys /\ NoKey \notin Keys
  /\ Identities = Keys \cup Hosts /\ Keys \cap Hosts = {}

VARIABLES
  config,  \* the settings the middlewares were built from
  sent,    \* what a request presents
  stage    \* how far it has come

gatewayVars == <<config, sent, stage>>

Presented == [key : Keys \cup {NoKey}, host : Hosts, exempt : BOOLEAN]
Reached(r, where) == stage' = [stage EXCEPT ![r] = where]

IdentityOfHost(request) == request.host   \* mutant: the key is not found

\* RateLimitMiddleware._identity_key
Identity(request) ==
  IF config.keyed /\ request.key # NoKey THEN request.key ELSE request.host

Metered(request) == config.limited /\ ~ request.exempt

-----------------------------------------------------------------------------
(* RateLimitMiddleware.dispatch *)

Arrive(r, request) ==
  /\ stage[r] = "new"
  /\ sent' = [sent EXCEPT ![r] = request]
  /\ UNCHANGED config

Pass(r, request) ==
  /\ Arrive(r, request) /\ ~ Metered(request)
  /\ Reached(r, "admitted")
  /\ UNCHANGED vars

Admit(r, request) ==
  /\ Arrive(r, request) /\ Metered(request)
  /\ Allow(Identity(request))
  /\ Reached(r, "admitted")

\* 429 with Retry-After.
Refuse(r, request) ==
  /\ Arrive(r, request) /\ Metered(request)
  /\ Limited(Identity(request))
  /\ Reached(r, "limited")

-----------------------------------------------------------------------------
(* ApiKeyAuthMiddleware.dispatch *)

Authenticate(r) ==
  LET request == sent[r]
  IN  /\ stage[r] = "admitted"
      /\ Reached(r, CASE ~ config.auth \/ request.exempt -> "handled"
                      [] config.auth /\ ~ request.exempt /\ config.valid = {} -> "misconfigured"
                      [] OTHER -> IF request.key \in config.valid THEN "handled"
                                                                  ELSE "unauthorized")
      /\ UNCHANGED <<config, sent, now, bucket, admitted, verdict, denial>>

GatewayInit ==
  /\ Init
  /\ config \in [limited : BOOLEAN, keyed : BOOLEAN, auth : BOOLEAN, valid : {{}, Issued}]
  /\ sent \in [Requests -> {[key |-> NoKey, host |-> h, exempt |-> TRUE] : h \in Hosts}]
  /\ stage = [r \in Requests |-> "new"]

GatewayNext ==
  \/ Tick /\ UNCHANGED gatewayVars
  \/ \E r \in Requests :
       \/ \E request \in Presented : Pass(r, request) \/ Admit(r, request) \/ Refuse(r, request)
       \/ Authenticate(r)

GatewaySpec == GatewayInit /\ [][GatewayNext]_<<vars, gatewayVars>>

-----------------------------------------------------------------------------
(* Properties *)

GatewayTypeOK ==
  /\ config \in [limited : BOOLEAN, keyed : BOOLEAN, auth : BOOLEAN, valid : {{}, Issued}]
  /\ sent \in [Requests -> Presented]
  /\ stage \in [Requests -> {"new", "admitted", "limited", "unauthorized", "misconfigured",
                             "handled"}]

\* Limited by key and with authentication on, the quota of a valid key is spent
\* by that key's own requests, one each, on nothing but being handled; and whatever
\* is handled was metered so.  (Limited by host, requests without a valid key
\* spend the quota of whoever shares their address.)
QuotaIsOwn ==
  config.limited /\ config.keyed /\ config.auth =>
    /\ \A k \in config.valid :
         Len(admitted[k]) =
           Cardinality({r \in Requests : /\ sent[r].key = k /\ ~ sent[r].exempt
                                         /\ stage[r] \in {"admitted", "handled"}})
    /\ \A r \in Requests :
         stage[r] = "handled" /\ ~ sent[r].exempt => sent[r].key \in config.valid
=============================================================================
