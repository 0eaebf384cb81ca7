----------------------------- MODULE MigrationLedger -----------------------------
(***************************************************************************)
(* What applying migrations promises, however many runners there are: the  *)
(* SQL that has taken effect is a list that only grows, no file is in it   *)
(* twice, and a file of a release comes after the files that precede it    *)
(* there, each in the text that the release gives it.                      *)
(***************************************************************************)
EXTENDS Naturals, Sequences, Functions

CONSTANT Releases   \* each a function from file numbers, in name order, to texts

VARIABLE ledger     \* [file, text] of every migration, in the order of effect

Entry(release, f) == [file |-> f, text |-> release[f]]
Before(release, f) == {g \in DOMAIN release : g < f}

Apply(release, f) ==
  /\ \A k \in DOMAIN ledger : ledger[k].file # f
  /\ \A g \in Before(release, f) : Entry(release, g) \in Range(ledger)
  /\ ledger' = Append(ledger, Entry(release, f))

Init == ledger = <<>>

Next == \E release \in Releases : \E f \in DOMAIN release : Apply(release, f)

Spec == Init /\ [][Next]_ledger
=============================================================================
