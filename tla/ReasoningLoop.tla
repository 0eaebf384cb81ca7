----------------------------- MODULE ReasoningLoop -----------------------------
(***************************************************************************)
(* The requests of one thread, one after the other: the state a request    *)
(* starts from, front-door triage, prelude, the phase loop under its two   *)
(* drivers (the LangGraph graph of graph/builder.py and the while loop of  *)
(* service.complete_stream), the coda and the snapshot put at the end.     *)
(*                                                                         *)
(* A request works on a copy of the thread's snapshot; an exception in any *)
(* await discards the copy.  The snapshot outlives restarts, so that each  *)
(* request may meet another max_loops.  Concurrent requests are in         *)
(* Orchestrator.                                                           *)
(***************************************************************************)
EXTENDS StructuredState

CONSTANTS
  LoopCaps,     \* settings.max_loops of the processes that serve the thread
  Threshold,    \* settings.default_confidence_threshold, in hundredths
  MaxRequests   \* bound: how many requests the thread serves

ASSUME LoopAssumption ==
  /\ LoopCaps \subseteq Nat
  /\ Threshold \in 0..100
  /\ MaxRequests \in Nat

VARIABLES
  saved,        \* the thread's snapshot in the session store
  served,       \* requests finished, answered or not
  stage,        \* where the current request is
  driver,       \* which entry point runs it
  query,        \* MythosState.query
  hyps,         \* structured_state.hypotheses
  contradicted, \* structured_state.contradictions is not empty
  trace,        \* the last two entries of structured_state.trace
  phase,        \* MythosState.phase
  loopIndex,    \* MythosState.loop_index
  maxLoops,     \* MythosState.max_loops
  converged,    \* MythosState.converged
  haltReason,   \* MythosState.halt_reason
  winner        \* the position of the hypothesis final_answer was synthesized from

state == <<hyps, contradicted, trace>>
control == <<phase, loopIndex, maxLoops, converged, haltReason>>
vars == <<saved, served, stage, driver, query, state, control, winner>>

Phases == <<"explore", "solve", "verify", "repair", "synthesize">>
Stages == {"idle", "triage", "prelude", "loop", "router", "coda", "gate"}
Drivers == {"graph", "stream"}
HaltReasons == {"", "max_loops", "converged_confident", "graph_exit"}

ExploreMark == <<"phase.explore.completed", 0>>
Marker(hs) == <<hs[Top(hs)].id, hs[Top(hs)].conf>>

LastTwo(s) == IF Len(s) > 2 THEN SubSeq(s, Len(s) - 1, Len(s)) ELSE s

Snapshot == [hyps |-> hyps, contradicted |-> contradicted, trace |-> trace]

-----------------------------------------------------------------------------
(* Halting *)

HaltLate(hs, l, m, c) ==   \* mutant: > for >=
  IF l > m THEN "max_loops"
  ELSE IF c /\ TopConfidence(hs) >= Threshold THEN "converged_confident" ELSE ""

\* What should_halt returns, as the reason it sets, "" standing for False.
Halt(hs, l, m, c) ==
  IF l >= m THEN "max_loops"
  ELSE IF c /\ TopConfidence(hs) >= Threshold THEN "converged_confident" ELSE ""

HaltNow == Halt(hyps, loopIndex, maxLoops, converged)

\* should_halt assigns halt_reason only when it returns True.
RecordHalt(reason) == haltReason' = IF reason = "" THEN haltReason ELSE reason

-----------------------------------------------------------------------------
(* The start of a request: _initialize_runtime, triage, prelude *)

Begin(q, d, cap) ==
  /\ stage = "idle" /\ served < MaxRequests
  /\ stage' = "triage" /\ driver' = d /\ query' = q
  /\ hyps' = saved.hyps
  /\ contradicted' = saved.contradicted
  /\ trace' = saved.trace
  /\ phase' = "explore" /\ loopIndex' = 0 /\ maxLoops' = cap
  /\ converged' = FALSE /\ haltReason' = "" /\ winner' = 0
  /\ UNCHANGED <<saved, served>>

Triage(exhaustive) ==
  /\ stage = "triage"
  /\ stage' = "prelude"
  /\ maxLoops' = IF exhaustive THEN maxLoops + 2 ELSE maxLoops
  /\ UNCHANGED <<saved, served, driver, query, state, phase, loopIndex, converged,
                 haltReason, winner>>

Prelude ==
  /\ stage = "prelude"
  /\ stage' = "loop"
  /\ hyps' = Append(hyps, Seed(query))
  /\ UNCHANGED <<saved, served, driver, query, contradicted, trace, control, winner>>

-----------------------------------------------------------------------------
(* The phases.  run_current_phase ends every one of them with FinishPhase. *)

NextPhase ==
  LET i == CHOOSE n \in DOMAIN Phases : Phases[n] = phase
  IN  Phases[IF i = Len(Phases) THEN 1 ELSE i + 1]

SettledAtOnce(l) ==   \* mutant: the first phase of a request may converge
  l >= 1

\* _convergence_check answers False below two phases.
Settled(l) == l >= 2

RunsPhase(p) == stage = "loop" /\ phase = p /\ HaltNow = ""

\* log is the trace the phase leaves; hyps' is already determined.
FinishPhase(log) ==
  /\ loopIndex' = loopIndex + 1
  /\ IF Live(hyps') = {} \/ ~Settled(loopIndex')
     THEN trace' = log /\ converged' = FALSE
     ELSE LET mark == Marker(hyps')
              previous == IF Len(log) >= 2 THEN {log[i] : i \in DOMAIN log} ELSE {}
          IN  /\ trace' = LastTwo(Append(log, mark))
              /\ converged' = (mark \in previous \/ TopConfidence(hyps') >= 88)
  /\ phase' = NextPhase
  /\ RecordHalt(Halt(hyps', loopIndex', maxLoops, converged'))
  /\ stage' = IF driver = "graph" THEN "router" ELSE "loop"
  /\ UNCHANGED <<saved, served, driver, query, maxLoops, winner>>

Explore ==
  /\ RunsPhase("explore")
  /\ IF WillBranch(hyps, contradicted)
     THEN \E a \in Alternatives : hyps' = Prune(Append(hyps, Alternative(a)))
     ELSE hyps' = Prune(hyps)
  /\ UNCHANGED contradicted
  /\ FinishPhase(LastTwo(Append(trace, ExploreMark)))

Solve ==
  /\ RunsPhase("solve")
  /\ hyps' = RaiseTop(hyps, 14)
  /\ UNCHANGED contradicted
  /\ FinishPhase(trace)

Verify(passed) ==
  /\ RunsPhase("verify")
  /\ hyps' = IF passed THEN RaiseTop(hyps, 10) ELSE ContradictTop(hyps)
  /\ contradicted' = (contradicted \/ (~passed /\ Live(hyps) # {}))
  /\ FinishPhase(trace)

Repair ==
  /\ RunsPhase("repair")
  /\ hyps' = IF contradicted THEN RaiseTop(hyps, 8) ELSE hyps
  /\ UNCHANGED contradicted
  /\ FinishPhase(trace)

Synthesize ==
  /\ RunsPhase("synthesize")
  /\ Live(hyps) # {}
  /\ UNCHANGED <<hyps, contradicted>>
  /\ FinishPhase(trace)

-----------------------------------------------------------------------------
(* Leaving the loop *)

\* complete_stream breaks out of its loop.
StreamBreak ==
  /\ stage = "loop" /\ driver = "stream" /\ HaltNow # ""
  /\ stage' = "coda"
  /\ RecordHalt(HaltNow)
  /\ UNCHANGED <<saved, served, driver, query, state, phase, loopIndex, maxLoops,
                 converged, winner>>

\* loop_node returns without running a phase.
LoopNodeReturn ==
  /\ stage = "loop" /\ driver = "graph" /\ HaltNow # ""
  /\ stage' = "router"
  /\ RecordHalt(HaltNow)
  /\ UNCHANGED <<saved, served, driver, query, state, phase, loopIndex, maxLoops,
                 converged, winner>>

RouterStrict ==   \* mutant: the router never takes the cap for a reason to leave
  /\ stage = "router"
  /\ stage' = IF HaltNow = "converged_confident" THEN "coda" ELSE "loop"
  /\ RecordHalt(HaltNow)
  /\ UNCHANGED <<saved, served, driver, query, state, phase, loopIndex, maxLoops,
                 converged, winner>>

LoopRouter ==
  /\ stage = "router"
  /\ stage' = IF HaltNow = "" THEN "loop" ELSE "coda"
  /\ RecordHalt(HaltNow)
  /\ UNCHANGED <<saved, served, driver, query, state, phase, loopIndex, maxLoops,
                 converged, winner>>

-----------------------------------------------------------------------------
(* The end of a request *)

CodaUnchecked ==   \* mutant: collapse falls back instead of raising
  /\ stage = "coda"
  /\ stage' = "gate"
  /\ winner' = IF Live(hyps) = {} THEN 0 ELSE Winner(hyps)
  /\ UNCHANGED <<saved, served, driver, query, state, control>>

\* The answer is synthesized from the winner.
\* coda_node names its own reason when the loop left none.
Coda ==
  /\ stage = "coda" /\ Live(hyps) # {}
  /\ stage' = "gate"
  /\ haltReason' = IF driver = "graph" /\ haltReason = "" THEN "graph_exit" ELSE haltReason
  /\ winner' = Winner(hyps)
  /\ UNCHANGED <<saved, served, driver, query, state, phase, loopIndex, maxLoops, converged>>

\* Safety gate and trajectory log have succeeded: sessions.put.
Put ==
  /\ stage = "gate"
  /\ stage' = "idle" /\ served' = served + 1
  /\ saved' = Snapshot
  /\ UNCHANGED <<driver, query, state, control, winner>>

Abandon ==
  /\ stage' = "idle" /\ served' = served + 1
  /\ UNCHANGED <<saved, driver, query, state, control, winner>>

\* An await of a model or of a store raises, or the prelude meets a triage field
\* that is not a number.
CallFails ==
  /\ \/ stage \in {"triage", "prelude", "coda", "gate"}
     \/ RunsPhase("explore") /\ WillBranch(hyps, contradicted)
     \/ RunsPhase("verify") /\ Live(hyps) # {}
  /\ Abandon

\* collapse raises RuntimeError("No live hypotheses at collapse time").
CollapseFails ==
  /\ stage = "coda" \/ RunsPhase("synthesize")
  /\ Live(hyps) = {}
  /\ Abandon

-----------------------------------------------------------------------------
Init ==
  /\ saved = [hyps |-> <<>>, contradicted |-> FALSE, trace |-> <<>>]
  /\ served = 0 /\ stage = "idle"
  /\ driver \in Drivers /\ query \in Queries
  /\ hyps = <<>> /\ contradicted = FALSE /\ trace = <<>>
  /\ phase = "explore" /\ loopIndex = 0 /\ maxLoops = 0
  /\ converged = FALSE /\ haltReason = "" /\ winner = 0

RunPhase ==
  \/ Explore
  \/ Solve
  \/ \E passed \in BOOLEAN : Verify(passed)
  \/ Repair
  \/ Synthesize

\* What the event loop runs once a request has begun.
Work ==
  \/ \E exhaustive \in BOOLEAN : Triage(exhaustive)
  \/ Prelude
  \/ RunPhase
  \/ StreamBreak
  \/ LoopNodeReturn
  \/ LoopRouter
  \/ Coda
  \/ Put
  \/ CallFails
  \/ CollapseFails

Next ==
  \/ \E q \in Queries, d \in Drivers, cap \in LoopCaps : Begin(q, d, cap)
  \/ Work

Spec == Init /\ [][Next]_vars

\* A client need not send a request; the event loop does resume a task whose
\* await is over, and every await ends with a result or an exception.
FairSpec == Spec /\ WF_vars(Work)

-----------------------------------------------------------------------------
(* Properties *)

Marks == (Ids \cup {ExploreMark[1]}) \X Confidence
Traces == Seq(Marks)

\* Every variable keeps its type; in particular no sum or difference takes a
\* confidence out of 0..99.
TypeOK ==
  /\ saved \in [hyps : Bank, contradicted : BOOLEAN, trace : Traces]
  /\ served \in 0..MaxRequests
  /\ stage \in Stages /\ driver \in Drivers /\ query \in Queries
  /\ hyps \in Bank
  /\ contradicted \in BOOLEAN
  /\ trace \in Traces
  /\ phase \in {Phases[i] : i \in DOMAIN Phases}
  /\ loopIndex \in Nat /\ maxLoops \in Nat
  /\ converged \in BOOLEAN /\ haltReason \in HaltReasons
  /\ winner \in Nat

InLoop == stage \in {"loop", "router", "coda", "gate"}

\* From the prelude to the answer some hypothesis is live: pruning in explore
\* never takes the last one, so collapse (synthesize and coda) has a winner.
LiveHypothesis == InLoop => Live(hyps) # {}

\* What collapse asserts by raising RuntimeError when nothing is live.
CollapseFindsWinner ==
  stage = "coda" \/ RunsPhase("synthesize") => Live(hyps) # {}

\* Whatever driver ran the loop and however often it called should_halt, the
\* reason reported with the answer is the one that held when the loop ended,
\* no phase ran beyond max_loops, and "graph_exit" is never reported.
HaltTruthful ==
  /\ loopIndex <= maxLoops
  /\ stage = "gate" =>
       \/ haltReason = "max_loops" /\ loopIndex = maxLoops
       \/ /\ haltReason = "converged_confident" /\ loopIndex < maxLoops
          /\ converged /\ TopConfidence(hyps) >= Threshold

\* A request that stops as confident before its own verify phase has run (the
\* third) stops on a hypothesis that it inherited from the thread's snapshot.
EarlyHaltIsInherited ==
  stage = "coda" /\ haltReason = "converged_confident" /\ loopIndex < 3
    => Top(hyps) <= Len(saved.hyps)

\* should_halt looks at the top hypothesis, collapse discounts contradictions:
\* the hypothesis a confident request answers with is above the threshold too.
ConfidentWinner ==
  stage = "gate" /\ haltReason = "converged_confident"
    => hyps[winner].conf >= Threshold

\* max_branches caps branching, not the live hypotheses: a request adds one
\* seed, and pruning aside the bank of a thread grows by no more than that.
Cap == IF MaxBranches < 3 THEN MaxBranches ELSE 3
LiveGrowth == MaxBranches > 0 /\ InLoop => Cardinality(Live(hyps)) <= served + Cap

\* A thread that has been answered once always holds a hypothesis to go on from.
SnapshotUsable == saved.hyps # <<>> => Live(saved.hyps) # {}

\* A pruned hypothesis is neither revived nor changed by any later phase.
DeadStayDead ==
  [][stage # "idle" => \A i \in DOMAIN hyps :
        ~hyps[i].alive => i \in DOMAIN hyps' /\ hyps'[i] = hyps[i]]_vars

\* A phase converges only on a confidence of 0.88 or when it left the top
\* hypothesis as it was; the trace left by earlier phases and earlier requests
\* never makes it converge, unless two hypotheses of the bank share an id.
ConvergesAtRest ==
  [][converged' /\ loopIndex' = loopIndex + 1 =>
       \/ TopConfidence(hyps') >= 88
       \/ loopIndex > 0 /\ Marker(hyps') = Marker(hyps)
       \/ \E i, j \in DOMAIN hyps' : i # j /\ hyps'[i].id = hyps'[j].id]_vars

\* Every request ends, answered or not, whichever driver runs it.
RequestEnds == stage # "idle" ~> stage = "idle"
=============================================================================
