--------------------------- MODULE MCCompletionStream ---------------------------
(***************************************************************************)
(* Instances of CompletionStream for TLC: a policy store without a file,   *)
(* and policies that block the term, have it revised, and both (blocking   *)
(* wins); revisions that leave the answer or hold the term, and empty ones.*)
(***************************************************************************)
EXTENDS CompletionStream

TwoPrompts == 1..2
OnePrompt == 1..1
MCPieces == {"blank", "term"}
MCPolicies == [blocked : {{}, {"term"}}, revise : {{}, {"term"}}]
MCRevisions == {<<"term">>, <<>>}
=============================================================================
