---------------------------- MODULE MCStorageClient ----------------------------
(***************************************************************************)
(* Instance of StorageClient for TLC: two writes of one key and a health   *)
(* check.                                                                  *)
(***************************************************************************)
EXTENDS StorageClient, TLC

CONSTANTS c1, c2, h1, k1

OneKey == [c \in Calls |-> k1]
=============================================================================
