---------------------------- MODULE MCConsoleSessions ----------------------------
(***************************************************************************)
(* Instance of ConsoleSessions for TLC: tabs are interchangeable.          *)
(***************************************************************************)
EXTENDS ConsoleSessions, TLC

CONSTANTS t1, t2

Symmetry == Permutations(Tabs)
=============================================================================
