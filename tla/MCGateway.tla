-------------------------------- MODULE MCGateway --------------------------------
(***************************************************************************)
(* An instance of Gateway for TLC: four requests from one address, with a  *)
(* valid key, an unknown one or none.                                      *)
(***************************************************************************)
EXTENDS Gateway, TLC

CONSTANTS r1, r2, r3, r4, issued, forged, home

Anonymous == Permutations(Requests)
=============================================================================
