----------------------------- MODULE MCHttpClients -----------------------------
(***************************************************************************)
(* An instance of HttpClients for TLC: two calls of any kinds at a time,   *)
(* and a judge with a provider of its own.                                 *)
(***************************************************************************)
EXTENDS HttpClients, TLC

CONSTANTS c1, c2, base, judge
=============================================================================
