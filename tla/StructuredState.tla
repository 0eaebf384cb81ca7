---------------------------- MODULE StructuredState ----------------------------
(***************************************************************************)
(* The hypothesis bank of core/state.py (StructuredState) and what         *)
(* core/branch_manager.py does with it, as operators on a sequence of      *)
(* hypotheses in the order of StructuredState.hypotheses.                   *)
(*                                                                         *)
(* Confidences are kept in hundredths: every constant the code adds,       *)
(* subtracts or compares with is a whole number of hundredths.  Texts are  *)
(* reduced to the id the code derives from them: "h0-" and a digest of the *)
(* query for a seed, "h-" and a digest of the text for an alternative, so  *)
(* that equal texts have equal ids.                                        *)
(***************************************************************************)
EXTENDS Integers, Sequences, FiniteSets

CONSTANTS
  Queries,       \* the queries a client may send
  Alternatives,  \* the texts the branch-alt model may answer with
  MaxBranches    \* settings.max_branches

ASSUME MaxBranchesAssumption == MaxBranches \in Nat

Ids == Queries \cup Alternatives
Confidence == 0..99

\* contras is len(Hypothesis.contradictions).
Hypothesis == [id : Ids, conf : Confidence, contras : Nat, alive : BOOLEAN]

\* The values of StructuredState.hypotheses.
Bank == Seq(Hypothesis)

SeedConfident(q) ==   \* mutant: the seed starts above the solve threshold
  [id |-> q, conf |-> 82, contras |-> 0, alive |-> TRUE]

Seed(q) == [id |-> q, conf |-> 42, contras |-> 0, alive |-> TRUE]
Alternative(a) == [id |-> a, conf |-> 38, contras |-> 0, alive |-> TRUE]

-----------------------------------------------------------------------------
(* Selection *)

\* active_hypotheses, as the positions of the live ones.
Live(hs) == {i \in DOMAIN hs : hs[i].alive}

\* Python's max keeps the first of several maximal elements.
Leads(hs, i, j) ==
  \/ hs[i].conf > hs[j].conf
  \/ hs[i].conf = hs[j].conf /\ i <= j

TopOfAll(hs) ==   \* mutant: the dead compete too
  CHOOSE i \in DOMAIN hs : \A j \in DOMAIN hs : Leads(hs, i, j)

\* The position of top_hypothesis; meaningful when Live(hs) # {}.
Top(hs) == CHOOSE i \in Live(hs) : \A j \in Live(hs) : Leads(hs, i, j)

TopConfidence(hs) == IF Live(hs) = {} THEN 0 ELSE hs[Top(hs)].conf

\* Ten times confidence * (1 - 0.1 * len(contradictions)), in hundredths.
Score(h) == h.conf * (10 - h.contras)

WinnerOldest(hs) ==   \* mutant: collapse returns the first live hypothesis
  CHOOSE i \in Live(hs) : \A j \in Live(hs) : i <= j

\* The hypothesis collapse returns; meaningful when Live(hs) # {}.
Winner(hs) ==
  CHOOSE i \in Live(hs) : \A j \in Live(hs) :
    \/ Score(hs[i]) > Score(hs[j])
    \/ Score(hs[i]) = Score(hs[j]) /\ i <= j

-----------------------------------------------------------------------------
(* Branching and pruning *)

\* contradicted: some contradiction is recorded.  The code only ever records
\* severity 0.8, above the 0.6 that should_branch asks for.
ShouldBranch(hs, contradicted) ==
  /\ Cardinality(Live(hs)) < 3
  /\ \/ contradicted
     \/ Live(hs) # {} /\ \A i \in Live(hs) : hs[i].conf < 50
     \/ Cardinality(Live(hs)) <= 1

WillBranchUncapped(hs, contradicted) ==   \* mutant: should_branch's cap of three is lost
  \/ contradicted
  \/ Live(hs) # {} /\ \A i \in Live(hs) : hs[i].conf < 50
  \/ Cardinality(Live(hs)) <= 1

WillBranch(hs, contradicted) ==
  ShouldBranch(hs, contradicted) /\ Cardinality(Live(hs)) < MaxBranches

Weak(h) == h.conf < 20 \/ h.contras >= 3

WithAlive(h, b) == [id |-> h.id, conf |-> h.conf, contras |-> h.contras, alive |-> b]

PruneUnconfident(hs) ==   \* mutant: the pruning threshold is raised to 0.5
  [i \in DOMAIN hs |->
     WithAlive(hs[i], hs[i].alive /\ ~(hs[i].conf < 50 \/ hs[i].contras >= 3))]

Prune(hs) == [i \in DOMAIN hs |-> WithAlive(hs[i], hs[i].alive /\ ~Weak(hs[i]))]

-----------------------------------------------------------------------------
(* What a phase does to one hypothesis *)

WithConf(h, c) == [id |-> h.id, conf |-> c, contras |-> h.contras, alive |-> h.alive]

RaiseUncapped(h, amount) ==   \* mutant: min(0.99, ...) is lost
  WithConf(h, h.conf + amount)

Raise(h, amount) == WithConf(h, IF h.conf + amount > 99 THEN 99 ELSE h.conf + amount)

Lower(h, amount) == WithConf(h, IF h.conf < amount THEN 0 ELSE h.conf - amount)

Contradict(h) ==
  [id |-> h.id, conf |-> Lower(h, 25).conf, contras |-> h.contras + 1, alive |-> h.alive]

\* top_hypothesis() is None when nothing is live, and the phases then return.
RaiseTop(hs, amount) ==
  IF Live(hs) = {} THEN hs ELSE [hs EXCEPT ![Top(hs)] = Raise(@, amount)]

ContradictTop(hs) ==
  IF Live(hs) = {} THEN hs ELSE [hs EXCEPT ![Top(hs)] = Contradict(@)]
=============================================================================
