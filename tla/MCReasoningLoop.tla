---------------------------- MODULE MCReasoningLoop ----------------------------
(***************************************************************************)
(* Instances of ReasoningLoop for TLC.  The queries, and the alternatives, *)
(* are interchangeable, but the liveness property rules symmetry out.      *)
(***************************************************************************)
EXTENDS ReasoningLoop

CONSTANTS q1, q2, a1, a2

MCQueries == {q1, q2}
MCAlternatives == {a1, a2}
OneAlternative == {a1}
=============================================================================
