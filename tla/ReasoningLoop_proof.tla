-------------------------- MODULE ReasoningLoop_proof --------------------------
(***************************************************************************)
(* What holds of the requests of a thread for all queries, alternatives,   *)
(* branching limits, thresholds and numbers of requests.  First come       *)
(* lemmas about the hypothesis bank (StructuredState): the maxima that     *)
(* top_hypothesis and collapse ask for exist, and which positions are      *)
(* live, and how confident, after each change the phases make.  Then each  *)
(* section adds an invariant and the theorem it is for, from the halt      *)
(* reason to convergence and the winner of a confident request.            *)
(***************************************************************************)
EXTENDS ReasoningLoop, TLAPS, SequenceTheorems, WellFoundedInduction, FiniteSetTheorems

-----------------------------------------------------------------------------
(* Python's max over a list *)

\* A non-empty set of naturals has a least element.
LEMMA LeastNatural ==
  ASSUME NEW T \in SUBSET Nat, T # {}
  PROVE  \E x \in T : \A y \in T : x <= y
<1>1. PICK x \in T : \A y \in T : ~(<<y, x>> \in OpToRel(<, Nat))
  BY NatLessThanWellFounded, WFMin
<1>2. \A y \in T : ~(y < x)
  BY <1>1 DEF OpToRel
<1> QED BY <1>2

\* Among the positions with the least cost there is a first one.
LEMMA FirstOfTheLeast ==
  ASSUME NEW S \in SUBSET Nat, S # {}, NEW cost \in [S -> Nat]
  PROVE  \E i \in S : \A j \in S : cost[i] < cost[j] \/ (cost[i] = cost[j] /\ i <= j)
<1> DEFINE Costs == {cost[i] : i \in S}
<1>1. Costs \in SUBSET Nat /\ Costs # {}
  OBVIOUS
<1>2. PICK c \in Costs : \A d \in Costs : c <= d
  BY <1>1, LeastNatural
<1> DEFINE Best == {i \in S : cost[i] = c}
<1>3. Best \in SUBSET Nat /\ Best # {}
  OBVIOUS
<1>4. PICK i \in Best : \A j \in Best : i <= j
  BY <1>3, LeastNatural
<1> SUFFICES ASSUME NEW j \in S
             PROVE  cost[i] < cost[j] \/ (cost[i] = cost[j] /\ i <= j)
  BY <1>4
<1>5. c <= cost[j] /\ c \in Nat /\ cost[j] \in Nat /\ cost[i] = c
  BY <1>1, <1>2, <1>4
<1>6. CASE cost[j] = c
  BY <1>4, <1>5, <1>6
<1>7. CASE cost[j] # c
  BY <1>5, <1>7
<1> QED BY <1>6, <1>7

\* What Python's max returns: the first position with the largest value.
LEMMA FirstOfTheLargest ==
  ASSUME NEW S \in SUBSET Nat, S # {}, NEW value \in [S -> Int],
         NEW bound \in Int, \A i \in S : value[i] <= bound
  PROVE  \E i \in S : \A j \in S : value[i] > value[j] \/ (value[i] = value[j] /\ i <= j)
<1> DEFINE gap == [i \in S |-> bound - value[i]]
<1>1. \A i \in S : value[i] \in Int /\ value[i] <= bound /\ i \in Nat
  OBVIOUS
<1>2. gap \in [S -> Nat] /\ \A i \in S : gap[i] = bound - value[i]
  BY <1>1
<1> HIDE DEF gap
<1>3. PICK i \in S : \A j \in S : gap[i] < gap[j] \/ (gap[i] = gap[j] /\ i <= j)
  BY <1>2, FirstOfTheLeast
<1> SUFFICES ASSUME NEW j \in S
             PROVE  value[i] > value[j] \/ (value[i] = value[j] /\ i <= j)
  OBVIOUS
<1>4. gap[i] < gap[j] \/ (gap[i] = gap[j] /\ i <= j)
  BY <1>3
<1>5. gap[i] = bound - value[i] /\ gap[j] = bound - value[j]
  BY <1>2
<1> QED BY <1>1, <1>4, <1>5

LEMMA LiveAreHypotheses ==
  ASSUME NEW hs \in Bank
  PROVE  /\ Live(hs) \in SUBSET Nat
         /\ \A i \in DOMAIN hs : hs[i] \in Hypothesis
         /\ \A i \in DOMAIN hs : hs[i].conf \in 0..99 /\ hs[i].contras \in Nat
<1>1. DOMAIN hs = 1..Len(hs) /\ Len(hs) \in Nat /\ \A i \in 1..Len(hs) : hs[i] \in Hypothesis
  BY LenProperties, ElementOfSeq DEF Bank
<1>2. \A h \in Hypothesis : h.conf \in 0..99 /\ h.contras \in Nat
  BY DEF Hypothesis, Confidence
<1>3. Live(hs) \subseteq DOMAIN hs
  BY DEF Live
<1>4. DOMAIN hs \subseteq Nat
  BY <1>1
<1> QED BY <1>1, <1>2, <1>3, <1>4

\* Python's max over the live hypotheses of a bank that has some is one of
\* them, and none of the others leads it.
LEMMA TopExists ==
  ASSUME NEW hs \in Bank, Live(hs) # {}
  PROVE  /\ Top(hs) \in Live(hs)
         /\ \A j \in Live(hs) : Leads(hs, Top(hs), j)
<1> DEFINE value == [i \in Live(hs) |-> hs[i].conf]
<1>1. Live(hs) \in SUBSET Nat /\ \A i \in Live(hs) : hs[i].conf \in 0..99
  BY LiveAreHypotheses DEF Live
<1>2. value \in [Live(hs) -> Int] /\ 99 \in Int /\ \A i \in Live(hs) : value[i] <= 99
  BY <1>1
<1>3. PICK i \in Live(hs) :
        \A j \in Live(hs) : value[i] > value[j] \/ (value[i] = value[j] /\ i <= j)
  <2> HIDE DEF value
  <2> QED BY <1>1, <1>2, FirstOfTheLargest
<1>4. \A j \in Live(hs) : Leads(hs, i, j)
  BY <1>3 DEF Leads
<1> QED BY <1>4 DEF Top

\* The confidence of the top is the largest of all the live ones.
LEMMA TopConfidenceBounds ==
  ASSUME NEW hs \in Bank, Live(hs) # {}
  PROVE  /\ TopConfidence(hs) \in Confidence
         /\ \A j \in Live(hs) : hs[j].conf <= TopConfidence(hs)
<1>1. \A i \in Live(hs) : hs[i].conf \in 0..99
  BY LiveAreHypotheses DEF Live
<1>2. TopConfidence(hs) = hs[Top(hs)].conf
  BY DEF TopConfidence
<1>3. Top(hs) \in Live(hs) /\ \A j \in Live(hs) : Leads(hs, Top(hs), j)
  BY TopExists
<1>4. \A j \in Live(hs) : hs[j].conf <= hs[Top(hs)].conf
  <2> SUFFICES ASSUME NEW j \in Live(hs) PROVE hs[j].conf <= hs[Top(hs)].conf
    OBVIOUS
  <2>1. hs[j].conf \in 0..99 /\ hs[Top(hs)].conf \in 0..99
    BY <1>1, <1>3
  <2>2. hs[Top(hs)].conf > hs[j].conf \/ hs[Top(hs)].conf = hs[j].conf
    BY <1>3 DEF Leads
  <2>3. \A a, b \in 0..99 : (a > b \/ a = b) => b <= a
    OBVIOUS
  <2> QED BY <2>1, <2>2, <2>3, Zenon
<1> QED BY <1>1, <1>2, <1>3, <1>4 DEF Confidence

LEMMA TopConfidenceType ==
  ASSUME NEW hs \in Bank
  PROVE  TopConfidence(hs) \in Confidence
<1>1. CASE Live(hs) = {}
  BY <1>1 DEF TopConfidence, Confidence
<1> QED BY <1>1, TopConfidenceBounds

\* A score is at most ten times the largest confidence.
LEMMA ScoreBound ==
  ASSUME NEW c \in 0..99, NEW n \in Nat
  PROVE  c * (10 - n) \in Int /\ c * (10 - n) <= 990
<1>1. CASE n > 10
  <2> DEFINE m == n - 10
  <2>1. m \in Nat /\ 10 - n = -m
    BY <1>1
  <2>2. c * m >= 0
    BY <2>1
  <2> QED BY <2>1, <2>2
<1>2. CASE n \in 0..10
  <2>1. n = 0 \/ n = 1 \/ n = 2 \/ n = 3 \/ n = 4 \/ n = 5 \/ n = 6 \/ n = 7
        \/ n = 8 \/ n = 9 \/ n = 10
    BY <1>2
  <2> QED BY <2>1
<1> QED BY <1>1, <1>2

\* collapse returns one of the live hypotheses of a bank that has some.
LEMMA WinnerExists ==
  ASSUME NEW hs \in Bank, Live(hs) # {}
  PROVE  /\ Winner(hs) \in Live(hs)
         /\ \A j \in Live(hs) : Score(hs[Winner(hs)]) >= Score(hs[j])
<1> DEFINE value == [i \in Live(hs) |-> Score(hs[i])]
<1>1. Live(hs) \in SUBSET Nat
  BY LiveAreHypotheses
<1>2. \A i \in Live(hs) : Score(hs[i]) \in Int /\ Score(hs[i]) <= 990
  BY LiveAreHypotheses, ScoreBound DEF Live, Score
<1>3. value \in [Live(hs) -> Int] /\ 990 \in Int /\ \A i \in Live(hs) : value[i] <= 990
  BY <1>2
<1>4. PICK i \in Live(hs) :
        \A j \in Live(hs) : value[i] > value[j] \/ (value[i] = value[j] /\ i <= j)
  <2> HIDE DEF value
  <2> QED BY <1>1, <1>3, FirstOfTheLargest
<1>5. \A j \in Live(hs) : \/ Score(hs[i]) > Score(hs[j])
                          \/ Score(hs[i]) = Score(hs[j]) /\ i <= j
  BY <1>4
<1>6. /\ Winner(hs) \in Live(hs)
      /\ \A j \in Live(hs) : \/ Score(hs[Winner(hs)]) > Score(hs[j])
                             \/ Score(hs[Winner(hs)]) = Score(hs[j]) /\ Winner(hs) <= j
  BY <1>5 DEF Winner
<1> QED BY <1>2, <1>6

-----------------------------------------------------------------------------
(* What the phases do to one hypothesis *)

LEMMA ChangesAreHypotheses ==
  ASSUME NEW h \in Hypothesis
  PROVE  /\ \A n \in Nat : /\ Raise(h, n) \in Hypothesis
                           /\ Raise(h, n).alive = h.alive
                           /\ Raise(h, n).contras = h.contras
                           /\ Raise(h, n).conf >= h.conf
                           /\ Raise(h, n).conf = IF h.conf + n > 99 THEN 99 ELSE h.conf + n
         /\ Contradict(h) \in Hypothesis
         /\ Contradict(h).alive = h.alive
         /\ Contradict(h).contras = h.contras + 1
         /\ Contradict(h).conf = IF h.conf < 25 THEN 0 ELSE h.conf - 25
<1>1. h.id \in Ids /\ h.conf \in 0..99 /\ h.contras \in Nat /\ h.alive \in BOOLEAN
  BY DEF Hypothesis, Confidence
<1>2. ASSUME NEW c \in 0..99, NEW n \in Nat
      PROVE  [id |-> h.id, conf |-> c, contras |-> n, alive |-> h.alive] \in Hypothesis
  BY <1>1, <1>2 DEF Hypothesis, Confidence
<1>3. ASSUME NEW n \in Nat
      PROVE  /\ Raise(h, n) \in Hypothesis
             /\ Raise(h, n).alive = h.alive
             /\ Raise(h, n).contras = h.contras
             /\ Raise(h, n).conf >= h.conf
             /\ Raise(h, n).conf = IF h.conf + n > 99 THEN 99 ELSE h.conf + n
  <2> DEFINE c == IF h.conf + n > 99 THEN 99 ELSE h.conf + n
  <2>1. c \in 0..99 /\ c >= h.conf
    BY <1>1
  <2>2. Raise(h, n) = [id |-> h.id, conf |-> c, contras |-> h.contras, alive |-> h.alive]
    BY DEF Raise, WithConf
  <2>3. Raise(h, n) \in Hypothesis
    <3> HIDE DEF c
    <3> QED BY <1>1, <1>2, <2>1, <2>2
  <2> QED BY <2>1, <2>2, <2>3
<1>4. /\ Contradict(h) \in Hypothesis
      /\ Contradict(h).alive = h.alive
      /\ Contradict(h).contras = h.contras + 1
      /\ Contradict(h).conf = IF h.conf < 25 THEN 0 ELSE h.conf - 25
  <2> DEFINE c == IF h.conf < 25 THEN 0 ELSE h.conf - 25
  <2>1. c \in 0..99
    BY <1>1
  <2>2. Contradict(h) =
          [id |-> h.id, conf |-> c, contras |-> h.contras + 1, alive |-> h.alive]
    BY DEF Contradict, Lower, WithConf
  <2>3. Contradict(h) \in Hypothesis
    <3>1. h.contras + 1 \in Nat
      BY <1>1
    <3> HIDE DEF c
    <3> QED BY <1>2, <2>1, <2>2, <3>1
  <2> QED BY <2>2, <2>3
<1> QED BY <1>3, <1>4

LEMMA ReplaceLive ==
  ASSUME NEW hs \in Bank, NEW i \in DOMAIN hs,
         NEW h \in Hypothesis, h.alive = hs[i].alive
  PROVE  /\ [hs EXCEPT ![i] = h] \in Bank
         /\ DOMAIN [hs EXCEPT ![i] = h] = DOMAIN hs
         /\ Live([hs EXCEPT ![i] = h]) = Live(hs)
<1>1. [hs EXCEPT ![i] = h] \in Bank /\ DOMAIN [hs EXCEPT ![i] = h] = DOMAIN hs
  BY ExceptSeq, LenProperties DEF Bank
<1> QED BY <1>1 DEF Live

LEMMA SeedsAreHypotheses ==
  /\ \A q \in Queries : Seed(q) \in Hypothesis
  /\ \A a \in Alternatives : Alternative(a) \in Hypothesis
BY DEF Seed, Alternative, Hypothesis, Confidence, Ids

LEMMA AppendKeeps ==
  ASSUME NEW hs \in Bank, NEW h \in Hypothesis
  PROVE  /\ Append(hs, h) \in Bank
         /\ \A i \in DOMAIN hs : i \in DOMAIN Append(hs, h) /\ Append(hs, h)[i] = hs[i]
         /\ Len(hs) + 1 \in DOMAIN Append(hs, h)
         /\ Append(hs, h)[Len(hs) + 1] = h
         /\ DOMAIN Append(hs, h) = DOMAIN hs \cup {Len(hs) + 1}
BY AppendProperties, LenProperties DEF Bank

LEMMA PruneKeeps ==
  ASSUME NEW hs \in Bank
  PROVE  /\ Prune(hs) \in Bank
         /\ DOMAIN Prune(hs) = DOMAIN hs
         /\ \A i \in DOMAIN hs :
              /\ Prune(hs)[i].conf = hs[i].conf
              /\ Prune(hs)[i].contras = hs[i].contras
              /\ Prune(hs)[i].alive <=> hs[i].alive /\ ~Weak(hs[i])
<1>1. \A i \in DOMAIN hs : hs[i] \in Hypothesis
  BY LiveAreHypotheses
<1>2. \A h \in Hypothesis, b \in BOOLEAN : WithAlive(h, b) \in Hypothesis
  BY DEF Hypothesis, WithAlive
<1>3. \A i \in DOMAIN hs : WithAlive(hs[i], hs[i].alive /\ ~Weak(hs[i])) \in Hypothesis
  <2> SUFFICES ASSUME NEW i \in DOMAIN hs
               PROVE  WithAlive(hs[i], hs[i].alive /\ ~Weak(hs[i])) \in Hypothesis
    OBVIOUS
  <2>1. hs[i] \in Hypothesis /\ hs[i].alive \in BOOLEAN
    BY <1>1 DEF Hypothesis
  <2>2. (hs[i].alive /\ ~Weak(hs[i])) \in BOOLEAN
    OBVIOUS
  <2> QED BY <1>2, <2>1, <2>2, Zenon
<1>4. DOMAIN Prune(hs) = DOMAIN hs
  BY DEF Prune
<1>5. DOMAIN hs = 1..Len(hs) /\ Len(hs) \in Nat
  BY LenProperties DEF Bank
<1>6. Prune(hs) \in [1..Len(hs) -> Hypothesis]
  BY <1>3, <1>5 DEF Prune
<1>7. Prune(hs) \in Bank
  BY <1>5, <1>6, SeqDef DEF Bank
<1> QED BY <1>4, <1>7 DEF Prune, WithAlive

-----------------------------------------------------------------------------
(* Traces, marks and halting *)

LEMMA LastTwoTyped ==
  ASSUME NEW s \in Traces PROVE LastTwo(s) \in Traces
<1>1. Len(s) \in Nat /\ \A i \in 1..Len(s) : s[i] \in Marks
  BY LenProperties, ElementOfSeq DEF Traces
<1>2. CASE Len(s) > 2
  <2>1. Len(s) - 1 \in Int /\ Len(s) \in Int
    BY <1>1
  <2>2. \A i \in (Len(s) - 1)..Len(s) : s[i] \in Marks
    BY <1>1, <1>2
  <2>3. SubSeq(s, Len(s) - 1, Len(s)) \in Seq(Marks)
    BY <2>1, <2>2, SubSeqProperties
  <2> QED BY <1>2, <2>3 DEF LastTwo, Traces
<1> QED BY <1>1, <1>2 DEF LastTwo

LEMMA AppendTyped ==
  ASSUME NEW s \in Traces, NEW m \in Marks PROVE LastTwo(Append(s, m)) \in Traces
<1>1. Append(s, m) \in Traces
  BY AppendProperties DEF Traces
<1> QED BY <1>1, LastTwoTyped

LEMMA MarksTyped ==
  /\ ExploreMark \in Marks
  /\ \A hs \in Bank : Live(hs) # {} => Marker(hs) \in Marks
<1>1. ExploreMark \in Marks
  BY DEF ExploreMark, Marks, Confidence
<1>2. ASSUME NEW hs \in Bank, Live(hs) # {} PROVE Marker(hs) \in Marks
  <2>1. Top(hs) \in DOMAIN hs
    BY <1>2, TopExists DEF Live
  <2>2. hs[Top(hs)] \in Hypothesis
    BY <2>1, LiveAreHypotheses
  <2>3. \A h \in Hypothesis : h.id \in Ids /\ h.conf \in Confidence
    BY DEF Hypothesis
  <2>4. hs[Top(hs)].id \in Ids /\ hs[Top(hs)].conf \in Confidence
    BY <2>2, <2>3, Zenon
  <2> QED BY <2>4 DEF Marker, Marks
<1> QED BY <1>1, <1>2

LEMMA HaltTyped ==
  ASSUME NEW hs, NEW l, NEW m, NEW c PROVE Halt(hs, l, m, c) \in HaltReasons
BY DEF Halt, HaltReasons

LEMMA PhasesTyped ==
  ASSUME phase \in {Phases[i] : i \in DOMAIN Phases}
  PROVE  NextPhase \in {Phases[i] : i \in DOMAIN Phases}
<1>1. PICK i \in 1..5 : Phases[i] = phase
  BY DEF Phases
<1> DEFINE k == CHOOSE n \in DOMAIN Phases : Phases[n] = phase
<1>2. DOMAIN Phases = 1..5 /\ Len(Phases) = 5
  BY DEF Phases
<1>3. k \in 1..5
  BY <1>1, <1>2
<1>4. (IF k = 5 THEN 1 ELSE k + 1) \in 1..5
  <2> HIDE DEF k
  <2> QED BY <1>3
<1> QED BY <1>2, <1>4 DEF NextPhase

-----------------------------------------------------------------------------
(* Type correctness *)

Typed == TypeOK /\ (stage # "idle" => served < MaxRequests)

LEMMA FinishPhaseTyped ==
  ASSUME Typed, stage = "loop", hyps' \in Bank, contradicted' \in BOOLEAN,
         NEW log \in Traces, FinishPhase(log)
  PROVE  Typed'
<1>1. trace' \in Traces /\ converged' \in BOOLEAN
  <2>1. CASE Live(hyps') = {} \/ ~Settled(loopIndex')
    BY <2>1 DEF FinishPhase
  <2>2. CASE ~(Live(hyps') = {} \/ ~Settled(loopIndex'))
    <3>1. Marker(hyps') \in Marks
      BY <2>2, MarksTyped
    <3>2. trace' = LastTwo(Append(log, Marker(hyps'))) /\ converged' \in BOOLEAN
      BY <2>2 DEF FinishPhase
    <3> QED BY <3>1, <3>2, AppendTyped
  <2> QED BY <2>1, <2>2
<1>2. haltReason' \in HaltReasons
  BY HaltTyped DEF FinishPhase, RecordHalt, Typed, TypeOK
<1>3. phase' \in {Phases[i] : i \in DOMAIN Phases}
  BY PhasesTyped DEF FinishPhase, Typed, TypeOK
<1>4. loopIndex' \in Nat
  BY DEF FinishPhase, Typed, TypeOK
<1>5. stage' \in Stages /\ stage' # "idle"
  BY DEF FinishPhase, Stages
<1>6. /\ saved' = saved /\ served' = served /\ driver' = driver /\ query' = query
      /\ maxLoops' = maxLoops /\ winner' = winner
  BY DEF FinishPhase
<1> QED BY <1>1, <1>2, <1>3, <1>4, <1>5, <1>6 DEF Typed, TypeOK

\* The banks the phases leave.
LEMMA TopIsHypothesis ==
  ASSUME NEW hs \in Bank, Live(hs) # {}
  PROVE  Top(hs) \in DOMAIN hs /\ hs[Top(hs)] \in Hypothesis
BY TopExists, LiveAreHypotheses DEF Live

LEMMA TopChangeTyped ==
  ASSUME NEW hs \in Bank, NEW n \in Nat
  PROVE  RaiseTop(hs, n) \in Bank /\ ContradictTop(hs) \in Bank
<1>1. CASE Live(hs) = {}
  BY <1>1 DEF RaiseTop, ContradictTop
<1>2. CASE Live(hs) # {}
  <2>1. Top(hs) \in DOMAIN hs /\ hs[Top(hs)] \in Hypothesis
    BY <1>2, TopIsHypothesis
  <2>2. /\ Raise(hs[Top(hs)], n) \in Hypothesis
        /\ Raise(hs[Top(hs)], n).alive = hs[Top(hs)].alive
        /\ Contradict(hs[Top(hs)]) \in Hypothesis
        /\ Contradict(hs[Top(hs)]).alive = hs[Top(hs)].alive
    BY <2>1, ChangesAreHypotheses
  <2> QED BY <1>2, <2>1, <2>2, ReplaceLive DEF RaiseTop, ContradictTop
<1> QED BY <1>1, <1>2

LEMMA ExploreTyped ==
  ASSUME hyps \in Bank, Explore PROVE hyps' \in Bank
<1>1. CASE WillBranch(hyps, contradicted)
  <2>1. PICK a \in Alternatives : hyps' = Prune(Append(hyps, Alternative(a)))
    BY <1>1 DEF Explore
  <2>2. Append(hyps, Alternative(a)) \in Bank
    BY SeedsAreHypotheses, AppendKeeps
  <2> QED BY <2>1, <2>2, PruneKeeps
<1>2. CASE ~WillBranch(hyps, contradicted)
  BY <1>2, PruneKeeps DEF Explore
<1> QED BY <1>1, <1>2

LEMMA TypedInit == Init => Typed
<1> SUFFICES ASSUME Init PROVE Typed
  OBVIOUS
<1>1. <<>> \in Bank /\ <<>> \in Traces
  BY EmptySeq DEF Bank, Traces
<1>2. 0 \in 0..MaxRequests
  BY LoopAssumption
<1>3. "explore" \in {Phases[i] : i \in DOMAIN Phases}
  BY DEF Phases
<1> QED BY <1>1, <1>2, <1>3, LoopAssumption
        DEF Init, Typed, TypeOK, Stages, HaltReasons

LEMMA PhaseTyped == Typed /\ RunPhase => Typed'
<1> SUFFICES ASSUME Typed, RunPhase PROVE Typed'
  OBVIOUS
<1>0. hyps \in Bank /\ contradicted \in BOOLEAN /\ trace \in Traces
  BY DEF Typed, TypeOK
<1>1. CASE Explore
  <2>1. LastTwo(Append(trace, ExploreMark)) \in Traces
    BY <1>0, MarksTyped, AppendTyped
  <2> QED BY <1>0, <1>1, <2>1, ExploreTyped, FinishPhaseTyped DEF Explore, RunsPhase
<1>2. CASE Solve
  <2>1. hyps' \in Bank
    BY <1>0, <1>2, TopChangeTyped DEF Solve
  <2> QED BY <1>0, <1>2, <2>1, FinishPhaseTyped DEF Solve, RunsPhase
<1>3. ASSUME NEW passed \in BOOLEAN, Verify(passed) PROVE Typed'
  <2>1. hyps' \in Bank /\ contradicted' \in BOOLEAN
    BY <1>0, <1>3, TopChangeTyped DEF Verify
  <2> QED BY <1>0, <1>3, <2>1, FinishPhaseTyped DEF Verify, RunsPhase
<1>4. CASE Repair
  <2>1. hyps' \in Bank
    BY <1>0, <1>4, TopChangeTyped DEF Repair
  <2> QED BY <1>0, <1>4, <2>1, FinishPhaseTyped DEF Repair, RunsPhase
<1>5. CASE Synthesize
  BY <1>0, <1>5, FinishPhaseTyped DEF Synthesize, RunsPhase
<1> QED BY <1>1, <1>2, <1>3, <1>4, <1>5 DEF RunPhase

LEMMA TypedStep == Typed /\ [Next]_vars => Typed'
<1> SUFFICES ASSUME Typed, [Next]_vars PROVE Typed'
  OBVIOUS
<1> USE DEF Typed
<1>1. ASSUME NEW q \in Queries, NEW d \in Drivers, NEW cap \in LoopCaps,
           Begin(q, d, cap) PROVE Typed'
  <2>1. "explore" \in {Phases[i] : i \in DOMAIN Phases}
    BY DEF Phases
  <2>2. saved.hyps \in Bank /\ saved.contradicted \in BOOLEAN /\ saved.trace \in Traces
    BY DEF TypeOK
  <2> QED BY <1>1, <2>1, <2>2, LoopAssumption
          DEF Begin, TypeOK, Stages, HaltReasons
<1>2. ASSUME NEW exhaustive \in BOOLEAN, Triage(exhaustive) PROVE Typed'
  BY <1>2 DEF Triage, TypeOK, Stages, state
<1>3. CASE Prelude
  <2>1. hyps' \in Bank
    BY <1>3, SeedsAreHypotheses, AppendKeeps DEF Prelude, TypeOK
  <2> QED BY <1>3, <2>1 DEF Prelude, TypeOK, Stages, control
<1>4. CASE RunPhase
  BY <1>4, PhaseTyped
<1>5. CASE StreamBreak \/ LoopNodeReturn \/ LoopRouter
  <2>1. haltReason' \in HaltReasons
    <3>1. HaltNow \in HaltReasons
      BY HaltTyped DEF HaltNow
    <3>2. RecordHalt(HaltNow)
      BY <1>5 DEF StreamBreak, LoopNodeReturn, LoopRouter
    <3> QED BY <3>1, <3>2 DEF RecordHalt, TypeOK
  <2> QED BY <1>5, <2>1
          DEF StreamBreak, LoopNodeReturn, LoopRouter, TypeOK, Stages, state
<1>6. CASE Coda
  <2>1. Winner(hyps) \in Nat
    BY <1>6, WinnerExists, LiveAreHypotheses DEF Coda, TypeOK
  <2>2. haltReason' \in HaltReasons
    BY <1>6 DEF Coda, HaltReasons, TypeOK
  <2> QED BY <1>6, <2>1, <2>2 DEF Coda, TypeOK, Stages, state
<1>7. CASE Put
  <2>1. Snapshot \in [hyps : Bank, contradicted : BOOLEAN, trace : Traces]
    BY DEF TypeOK, Snapshot
  <2>2. served + 1 \in 0..MaxRequests
    BY <1>7, LoopAssumption DEF Put, TypeOK
  <2> QED BY <1>7, <2>1, <2>2 DEF Put, TypeOK, Stages, state, control
<1>8. CASE CallFails \/ CollapseFails
  <2>1. stage # "idle" /\ Abandon
    BY <1>8 DEF CallFails, CollapseFails, RunsPhase
  <2>2. served + 1 \in 0..MaxRequests
    BY <2>1, LoopAssumption DEF TypeOK
  <2> QED BY <2>1, <2>2 DEF Abandon, TypeOK, Stages, state, control
<1>9. CASE UNCHANGED vars
  BY <1>9 DEF vars, state, control, TypeOK
<1> QED BY <1>1, <1>2, <1>3, <1>4, <1>5, <1>6, <1>7, <1>8, <1>9 DEF Next, Work

\* Type correctness of the request loop, whatever the queries, alternatives and
\* limits: no confidence leaves 0..99, through any sequence of phases.
THEOREM TypeCorrect == Spec => []TypeOK
<1>1. Typed => TypeOK
  BY DEF Typed
<1> QED BY <1>1, TypedInit, TypedStep, PTL DEF Spec

-----------------------------------------------------------------------------
(* Halting *)

\* No phase starts at the cap.
WithinCap ==
  /\ loopIndex <= maxLoops
  /\ stage = "triage" => loopIndex = 0

\* The two ways a loop ends.
AtCap == haltReason = "max_loops" /\ loopIndex = maxLoops
Confident == converged /\ TopConfidence(hyps) >= Threshold
EndedConfident == haltReason = "converged_confident" /\ loopIndex < maxLoops /\ Confident

\* The loop is only left with the reason should_halt gives at that point.
HaltKnown ==
  /\ stage = "coda" => HaltNow # "" /\ haltReason = HaltNow
  /\ stage = "gate" => AtCap \/ EndedConfident

LEMMA LoopNumbers ==
  ASSUME Typed PROVE loopIndex \in Nat /\ maxLoops \in Nat
BY LoopAssumption DEF Typed, TypeOK

LEMMA RunPhaseBelowCap ==
  ASSUME Typed, RunPhase
  PROVE  /\ loopIndex < maxLoops
         /\ loopIndex' = loopIndex + 1 /\ maxLoops' = maxLoops
         /\ stage = "loop" /\ stage' \in {"router", "loop"}
<1>1. HaltNow = "" /\ stage = "loop" /\ \E log : FinishPhase(log)
  BY DEF RunPhase, Explore, Solve, Verify, Repair, Synthesize, RunsPhase
<1>2. ~(loopIndex >= maxLoops)
  BY <1>1 DEF HaltNow, Halt
<1>3. stage' \in {"router", "loop"} /\ loopIndex' = loopIndex + 1 /\ maxLoops' = maxLoops
  BY <1>1 DEF FinishPhase
<1>4. loopIndex < maxLoops
  BY <1>2, LoopNumbers
<1> QED BY <1>1, <1>3, <1>4

LEMMA WithinCapStep == Typed /\ WithinCap /\ [Next]_vars => WithinCap'
<1> SUFFICES ASSUME Typed, WithinCap, [Next]_vars PROVE WithinCap'
  OBVIOUS
<1> USE LoopNumbers DEF WithinCap
<1>1. ASSUME NEW q \in Queries, NEW d \in Drivers, NEW cap \in LoopCaps,
           Begin(q, d, cap) PROVE WithinCap'
  <2>1. loopIndex' = 0 /\ maxLoops' \in Nat
    BY <1>1, LoopAssumption DEF Begin
  <2> QED BY <2>1
<1>2. ASSUME NEW exhaustive \in BOOLEAN, Triage(exhaustive) PROVE WithinCap'
  BY <1>2 DEF Triage
<1>3. CASE Prelude
  BY <1>3 DEF Prelude, control
<1>4. CASE RunPhase
  BY <1>4, RunPhaseBelowCap
<1>5. CASE StreamBreak \/ LoopNodeReturn \/ LoopRouter
  BY <1>5 DEF StreamBreak, LoopNodeReturn, LoopRouter
<1>6. CASE Coda
  BY <1>6 DEF Coda
<1>7. CASE Put \/ CallFails \/ CollapseFails
  BY <1>7 DEF Put, CallFails, CollapseFails, Abandon, control
<1>8. CASE UNCHANGED vars
  BY <1>8 DEF vars, control
<1> QED BY <1>1, <1>2, <1>3, <1>4, <1>5, <1>6, <1>7, <1>8 DEF Next, Work

LEMMA HaltKnownStep == Typed /\ WithinCap /\ HaltKnown /\ [Next]_vars => HaltKnown'
<1> SUFFICES ASSUME Typed, WithinCap, HaltKnown, [Next]_vars PROVE HaltKnown'
  OBVIOUS
<1>1. CASE StreamBreak
  <2>1. HaltNow' = HaltNow
    BY <1>1 DEF StreamBreak, HaltNow, state
  <2> QED BY <1>1, <2>1 DEF StreamBreak, RecordHalt, HaltKnown
<1>2. CASE LoopRouter
  <2>1. HaltNow' = HaltNow
    BY <1>2 DEF LoopRouter, HaltNow, state
  <2> QED BY <1>2, <2>1 DEF LoopRouter, RecordHalt, HaltKnown
<1>3. CASE Coda
  <2>1. haltReason = HaltNow /\ HaltNow # ""
    BY <1>3 DEF Coda, HaltKnown
  <2>2. AtCap \/ EndedConfident
    <3>1. CASE loopIndex >= maxLoops
      BY <2>1, <3>1, LoopNumbers DEF WithinCap, HaltNow, Halt, AtCap
    <3>2. CASE ~(loopIndex >= maxLoops)
      <4>1. HaltNow = IF Confident THEN "converged_confident" ELSE ""
        BY <3>2 DEF HaltNow, Halt, Confident
      <4>2. Confident /\ haltReason = "converged_confident"
        BY <2>1, <4>1
      <4>3. loopIndex < maxLoops
        BY <3>2, LoopNumbers
      <4> QED BY <4>2, <4>3 DEF EndedConfident
    <3> QED BY <3>1, <3>2
  <2>3. UNCHANGED <<haltReason, loopIndex, maxLoops, converged, hyps>> /\ stage' = "gate"
    BY <1>3, <2>1 DEF Coda, state
  <2>4. (AtCap <=> AtCap') /\ (EndedConfident <=> EndedConfident')
    BY <2>3 DEF AtCap, EndedConfident, Confident
  <2> QED BY <2>2, <2>3, <2>4 DEF HaltKnown
<1>4. CASE UNCHANGED vars
  <2>1. /\ stage' = stage /\ HaltNow' = HaltNow /\ haltReason' = haltReason
        /\ (AtCap <=> AtCap') /\ (EndedConfident <=> EndedConfident')
    BY <1>4 DEF vars, state, control, HaltNow, AtCap, EndedConfident, Confident
  <2> QED BY <2>1 DEF HaltKnown
<1>5. CASE RunPhase
  BY <1>5, RunPhaseBelowCap DEF HaltKnown
<1>6. CASE ~(StreamBreak \/ LoopRouter \/ Coda \/ UNCHANGED vars \/ RunPhase)
  <2>1. stage' \in {"triage", "prelude", "loop", "router", "idle"}
    BY <1>6 DEF Next, Work, Begin, Triage, Prelude, LoopNodeReturn, Put, CallFails,
                CollapseFails, Abandon
  <2> QED BY <2>1 DEF HaltKnown
<1> QED BY <1>1, <1>2, <1>3, <1>4, <1>5, <1>6

\* The halt reason that goes out with an answer is the one that held when the
\* loop ended, under either driver and for every cap and threshold; "graph_exit"
\* is unreachable.
THEOREM HaltIsTruthful == Spec => []HaltTruthful
<1>1. Init => WithinCap /\ HaltKnown
  <2> SUFFICES ASSUME Init PROVE WithinCap /\ HaltKnown
    OBVIOUS
  <2>1. loopIndex = 0 /\ maxLoops = 0 /\ stage = "idle"
    BY DEF Init
  <2> QED BY <2>1 DEF WithinCap, HaltKnown
<1>2. WithinCap /\ HaltKnown => HaltTruthful
  BY DEF WithinCap, HaltKnown, AtCap, EndedConfident, Confident, HaltTruthful
<1> QED BY <1>1, <1>2, TypedInit, TypedStep, WithinCapStep, HaltKnownStep, PTL DEF Spec

-----------------------------------------------------------------------------
(* The dead *)

\* A pruned hypothesis is neither revived nor changed by any phase, for every
\* bank a thread can reach.
THEOREM TheDeadStayDead == Spec => DeadStayDead
<1> DEFINE Kept == \A i \in DOMAIN hyps :
                     ~hyps[i].alive => i \in DOMAIN hyps' /\ hyps'[i] = hyps[i]
<1>1. ASSUME NEW hs \in Bank, NEW i \in DOMAIN hs, ~hs[i].alive
      PROVE  i \in DOMAIN Prune(hs) /\ Prune(hs)[i] = hs[i]
  <2>1. hs[i] \in Hypothesis
    BY LiveAreHypotheses
  <2>2. WithAlive(hs[i], FALSE) = hs[i]
    BY <1>1, <2>1 DEF Hypothesis, WithAlive
  <2>3. Prune(hs)[i] = WithAlive(hs[i], hs[i].alive /\ ~Weak(hs[i]))
    BY DEF Prune
  <2>4. (hs[i].alive /\ ~Weak(hs[i])) = FALSE
    BY <1>1
  <2> QED BY <2>2, <2>3, <2>4 DEF Prune
<1>2. ASSUME Typed, RunPhase PROVE Kept
  <2>0. hyps \in Bank
    BY <1>2 DEF Typed, TypeOK
  <2>1. CASE Explore
    <3>1. CASE ~WillBranch(hyps, contradicted)
      BY <1>1, <2>0, <2>1, <3>1 DEF Explore
    <3>2. CASE WillBranch(hyps, contradicted)
      <4>1. PICK a \in Alternatives : hyps' = Prune(Append(hyps, Alternative(a)))
        BY <2>1, <3>2 DEF Explore
      <4>2. /\ Append(hyps, Alternative(a)) \in Bank
            /\ \A i \in DOMAIN hyps : /\ i \in DOMAIN Append(hyps, Alternative(a))
                                      /\ Append(hyps, Alternative(a))[i] = hyps[i]
        BY <2>0, SeedsAreHypotheses, AppendKeeps
      <4> QED BY <1>1, <4>1, <4>2
    <3> QED BY <3>1, <3>2
  <2>2. CASE ~Explore
    <3>1. hyps' = hyps \/ (Live(hyps) # {} /\ \E h : hyps' = [hyps EXCEPT ![Top(hyps)] = h])
      BY <1>2, <2>2 DEF RunPhase, Solve, Verify, Repair, Synthesize, RaiseTop, ContradictTop
    <3>2. Live(hyps) # {} => hyps[Top(hyps)].alive
      BY <2>0, TopExists DEF Live
    <3> QED BY <3>1, <3>2
  <2> QED BY <2>1, <2>2
<1>3. ASSUME Typed, [Next]_vars, stage # "idle" PROVE Kept
  <2>1. CASE Prelude
    <3>1. hyps \in Bank /\ query \in Queries
      BY <1>3 DEF Typed, TypeOK
    <3>2. hyps' = Append(hyps, Seed(query))
      BY <2>1 DEF Prelude
    <3> QED BY <3>1, <3>2, SeedsAreHypotheses, AppendKeeps
  <2>2. CASE RunPhase
    BY <1>2, <1>3, <2>2
  <2>3. CASE ~(Prelude \/ RunPhase)
    <3>1. hyps' = hyps
      BY <1>3, <2>3 DEF Next, Begin, Work, Triage, StreamBreak, LoopNodeReturn, LoopRouter,
                        Coda, Put, CallFails, CollapseFails, Abandon, vars, state
    <3> QED BY <3>1
  <2> QED BY <2>1, <2>2, <2>3
<1>4. Typed /\ [Next]_vars => [stage # "idle" => Kept]_vars
  BY <1>3
<1> HIDE DEF Kept
<1>5. Spec => [][stage # "idle" => Kept]_vars
  BY <1>4, TypedInit, TypedStep, PTL DEF Spec
<1> USE DEF Kept
<1> QED BY <1>5 DEF DeadStayDead

-----------------------------------------------------------------------------
(* The last hypothesis is not pruned *)

\* What keeps one live hypothesis from being pruned by the explore phases of a
\* request that runs at most ten phases: it enters the first one as strong as
\* the seed, and its own verify phase can cost it one contradiction and 0.25,
\* but only if it leads, in which case solve has just raised it to 0.56.
Survives(hs, n, i) ==
  /\ i \in Live(hs)
  /\ n <= 2 => hs[i].contras = 0 /\ hs[i].conf >= 42
  /\ n = 2 /\ i = Top(hs) => hs[i].conf >= 56
  /\ n \in 3..5 => hs[i].contras <= 1 /\ hs[i].conf >= 31

Survivor == InLoop => \E i \in Live(hyps) : Survives(hyps, loopIndex, i)

\* An exhaustive request adds two to a cap of at most eight.
ShortLoops == \A cap \in LoopCaps : cap <= 8
Short == maxLoops <= (IF stage = "triage" THEN 8 ELSE 10)

\* Which phase is due, for the ten phases a request can run.
OnTime ==
  /\ stage \in {"triage", "prelude"} => loopIndex = 0
  /\ loopIndex \in {0, 5} => phase = "explore"
  /\ loopIndex \in {1, 6} => phase = "solve"
  /\ loopIndex \in {2, 7} => phase = "verify"
  /\ loopIndex \in {3, 8} => phase = "repair"
  /\ loopIndex \in {4, 9} => phase = "synthesize"

LEMMA PruneSurvives ==
  ASSUME NEW hs \in Bank, NEW n \in {0, 5}, NEW i, Survives(hs, n, i)
  PROVE  Survives(Prune(hs), n + 1, i)
<1>1. i \in DOMAIN hs /\ hs[i].alive
  BY DEF Survives, Live
<1>2. hs[i].conf \in 0..99 /\ hs[i].contras \in Nat
  BY <1>1, LiveAreHypotheses
<1>3. hs[i].conf >= 31 /\ hs[i].contras <= 1 /\ (n = 0 => hs[i].conf >= 42 /\ hs[i].contras = 0)
  BY <1>2 DEF Survives
<1>4. ~Weak(hs[i])
  BY <1>2, <1>3 DEF Weak
<1>5. /\ i \in DOMAIN Prune(hs)
      /\ Prune(hs)[i].conf = hs[i].conf
      /\ Prune(hs)[i].contras = hs[i].contras
      /\ Prune(hs)[i].alive
  BY <1>1, <1>4, PruneKeeps
<1>6. i \in Live(Prune(hs))
  BY <1>5 DEF Live
<1> QED BY <1>3, <1>5, <1>6 DEF Survives

LEMMA AppendSurvives ==
  ASSUME NEW hs \in Bank, NEW h \in Hypothesis, NEW n \in {0, 5}, NEW i, Survives(hs, n, i)
  PROVE  Survives(Append(hs, h), n, i)
<1>1. i \in DOMAIN hs /\ hs[i].alive
  BY DEF Survives, Live
<1>2. i \in DOMAIN Append(hs, h) /\ Append(hs, h)[i] = hs[i]
  BY <1>1, AppendKeeps
<1>3. i \in Live(Append(hs, h))
  BY <1>1, <1>2 DEF Live
<1> QED BY <1>2, <1>3 DEF Survives

LEMMA CappedSum ==
  ASSUME NEW n \in Nat, NEW a \in 0..99, NEW b \in 0..99, NEW c \in 0..99, NEW d \in 0..99,
         b >= d, c >= a, d = IF c + n > 99 THEN 99 ELSE c + n
  PROVE  b >= IF a + n > 99 THEN 99 ELSE a + n
OBVIOUS

\* What raising the top does to the live hypotheses.
LEMMA RaiseTopKeeps ==
  ASSUME NEW hs \in Bank, Live(hs) # {}, NEW n \in Nat
  PROVE  /\ RaiseTop(hs, n) \in Bank
         /\ Live(RaiseTop(hs, n)) = Live(hs)
         /\ \A i \in Live(hs) : /\ RaiseTop(hs, n)[i].contras = hs[i].contras
                                /\ RaiseTop(hs, n)[i].conf >= hs[i].conf
         /\ \A i \in Live(hs) : i = Top(RaiseTop(hs, n)) =>
              RaiseTop(hs, n)[i].conf >= IF hs[i].conf + n > 99 THEN 99 ELSE hs[i].conf + n
<1> DEFINE t == Top(hs)
           raised == RaiseTop(hs, n)
<1>0. raised = [hs EXCEPT ![t] = Raise(@, n)]
  BY DEF RaiseTop
<1> HIDE DEF raised
<1>1. t \in Live(hs) /\ t \in DOMAIN hs /\ hs[t] \in Hypothesis
  BY TopExists, TopIsHypothesis
<1>2. /\ Raise(hs[t], n) \in Hypothesis
      /\ Raise(hs[t], n).alive = hs[t].alive
      /\ Raise(hs[t], n).contras = hs[t].contras
      /\ Raise(hs[t], n).conf >= hs[t].conf
      /\ Raise(hs[t], n).conf = IF hs[t].conf + n > 99 THEN 99 ELSE hs[t].conf + n
  BY <1>1, ChangesAreHypotheses
<1>3. raised \in Bank /\ Live(raised) = Live(hs)
  BY <1>0, <1>1, <1>2, ReplaceLive
<1>4. raised[t] = Raise(hs[t], n) /\ \A i \in DOMAIN hs : i # t => raised[i] = hs[i]
  BY <1>0, <1>1
<1>5. \A i \in Live(hs) : i \in DOMAIN hs /\ hs[i].conf \in 0..99 /\ raised[i].conf \in 0..99
  BY <1>3, LiveAreHypotheses DEF Live
<1>6. \A a \in 0..99 : a >= a
  OBVIOUS
<1>7. \A i \in Live(hs) : raised[i].contras = hs[i].contras /\ raised[i].conf >= hs[i].conf
  <2> HIDE DEF t
  <2> SUFFICES ASSUME NEW i \in Live(hs)
               PROVE  raised[i].contras = hs[i].contras /\ raised[i].conf >= hs[i].conf
    OBVIOUS
  <2>1. CASE i = t
    BY <1>2, <1>4, <2>1
  <2>2. CASE i # t
    BY <1>4, <1>5, <1>6, <2>2
  <2> QED BY <2>1, <2>2
<1>8. ASSUME NEW i \in Live(hs), i = Top(raised)
      PROVE  raised[i].conf >= IF hs[i].conf + n > 99 THEN 99 ELSE hs[i].conf + n
  <2>1. Leads(raised, i, t)
    BY <1>1, <1>3, <1>8, TopExists
  <2>2. Leads(hs, t, i)
    BY TopExists
  <2>3. raised[i].conf > raised[t].conf \/ raised[i].conf = raised[t].conf
    BY <2>1 DEF Leads
  <2>4. hs[t].conf > hs[i].conf \/ hs[t].conf = hs[i].conf
    BY <2>2 DEF Leads
  <2>5. raised[t].conf = IF hs[t].conf + n > 99 THEN 99 ELSE hs[t].conf + n
    BY <1>2, <1>4
  <2>6. /\ hs[i].conf \in 0..99 /\ raised[i].conf \in 0..99
        /\ hs[t].conf \in 0..99 /\ raised[t].conf \in 0..99
    BY <1>1, <1>5
  <2>7. \A x, y \in 0..99 : (x > y \/ x = y) => x >= y
    OBVIOUS
  <2>8. raised[i].conf >= raised[t].conf /\ hs[t].conf >= hs[i].conf
    BY <2>3, <2>4, <2>6, <2>7, Zenon
  <2> HIDE DEF t
  <2> QED BY <2>5, <2>6, <2>8, CappedSum
<1> QED BY <1>3, <1>7, <1>8 DEF raised

\* What contradicting the top does to the live hypotheses.
LEMMA ContradictTopKeeps ==
  ASSUME NEW hs \in Bank, Live(hs) # {}
  PROVE  /\ ContradictTop(hs) \in Bank
         /\ Live(ContradictTop(hs)) = Live(hs)
         /\ \A i \in Live(hs) : i # Top(hs) => ContradictTop(hs)[i] = hs[i]
         /\ ContradictTop(hs)[Top(hs)].contras = hs[Top(hs)].contras + 1
         /\ ContradictTop(hs)[Top(hs)].conf =
              IF hs[Top(hs)].conf < 25 THEN 0 ELSE hs[Top(hs)].conf - 25
<1> DEFINE lowered == ContradictTop(hs)
<1>0. lowered = [hs EXCEPT ![Top(hs)] = Contradict(@)]
  BY DEF ContradictTop
<1> HIDE DEF lowered
<1>1. Top(hs) \in DOMAIN hs /\ hs[Top(hs)] \in Hypothesis
  BY TopIsHypothesis
<1>2. /\ Contradict(hs[Top(hs)]) \in Hypothesis
      /\ Contradict(hs[Top(hs)]).alive = hs[Top(hs)].alive
      /\ Contradict(hs[Top(hs)]).contras = hs[Top(hs)].contras + 1
      /\ Contradict(hs[Top(hs)]).conf =
           IF hs[Top(hs)].conf < 25 THEN 0 ELSE hs[Top(hs)].conf - 25
  BY <1>1, ChangesAreHypotheses
<1>3. lowered \in Bank /\ Live(lowered) = Live(hs)
  BY <1>0, <1>1, <1>2, ReplaceLive
<1>4. lowered[Top(hs)] = Contradict(hs[Top(hs)])
      /\ \A i \in DOMAIN hs : i # Top(hs) => lowered[i] = hs[i]
  BY <1>0, <1>1
<1> QED BY <1>2, <1>3, <1>4 DEF Live, lowered

LEMMA SolveSurvives ==
  ASSUME NEW hs \in Bank, NEW i, NEW n \in {1, 6}, Survives(hs, n, i)
  PROVE  Survives(RaiseTop(hs, 14), n + 1, i)
<1> DEFINE raised == RaiseTop(hs, 14)
<1> SUFFICES Survives(raised, n + 1, i)
  OBVIOUS
<1>1. i \in Live(hs) /\ Live(hs) # {} /\ 14 \in Nat
  BY DEF Survives
<1>0. /\ raised \in Bank
      /\ Live(raised) = Live(hs)
      /\ \A j \in Live(hs) : /\ raised[j].contras = hs[j].contras
                             /\ raised[j].conf >= hs[j].conf
      /\ \A j \in Live(hs) : j = Top(raised) =>
           raised[j].conf >= IF hs[j].conf + 14 > 99 THEN 99 ELSE hs[j].conf + 14
  BY <1>1, RaiseTopKeeps
<1> HIDE DEF raised
<1>2. /\ i \in Live(raised)
      /\ raised[i].contras = hs[i].contras
      /\ raised[i].conf >= hs[i].conf
      /\ i = Top(raised) =>
           raised[i].conf >= IF hs[i].conf + 14 > 99 THEN 99 ELSE hs[i].conf + 14
      /\ raised \in Bank
  BY <1>0, <1>1
<1>3. /\ hs[i].conf \in 0..99 /\ hs[i].contras \in Nat
      /\ raised[i].conf \in 0..99 /\ raised[i].contras \in Nat
  BY <1>1, <1>2, LiveAreHypotheses DEF Live
<1>4. CASE n = 1
  <2>1. hs[i].contras = 0 /\ hs[i].conf >= 42
    BY <1>4 DEF Survives
  <2>2. raised[i].contras = 0 /\ raised[i].conf >= 42
    BY <1>2, <1>3, <2>1
  <2>3. i = Top(raised) => raised[i].conf >= 56
    BY <1>2, <1>3, <2>1
  <2> QED BY <1>2, <1>4, <2>2, <2>3 DEF Survives
<1>5. CASE n = 6
  BY <1>2, <1>5 DEF Survives
<1> QED BY <1>4, <1>5

LEMMA RaiseSurvives ==
  ASSUME NEW hs \in Bank, NEW amount \in Nat, NEW i, NEW n \in {2, 3, 7, 8},
         Survives(hs, n, i)
  PROVE  Survives(RaiseTop(hs, amount), n + 1, i)
<1> DEFINE raised == RaiseTop(hs, amount)
<1> SUFFICES Survives(raised, n + 1, i)
  OBVIOUS
<1>1. i \in Live(hs) /\ Live(hs) # {}
  BY DEF Survives
<1>0. /\ raised \in Bank
      /\ Live(raised) = Live(hs)
      /\ \A j \in Live(hs) : /\ raised[j].contras = hs[j].contras
                             /\ raised[j].conf >= hs[j].conf
      /\ \A j \in Live(hs) : j = Top(raised) =>
           raised[j].conf >= IF hs[j].conf + amount > 99 THEN 99 ELSE hs[j].conf + amount
  BY <1>1, RaiseTopKeeps
<1> HIDE DEF raised
<1>2. /\ i \in Live(raised)
      /\ raised[i].contras = hs[i].contras
      /\ raised[i].conf >= hs[i].conf
      /\ raised \in Bank
  BY <1>0, <1>1
<1>3. /\ hs[i].conf \in 0..99 /\ hs[i].contras \in Nat
      /\ raised[i].conf \in 0..99 /\ raised[i].contras \in Nat
  BY <1>1, <1>2, LiveAreHypotheses DEF Live
<1>4. CASE n \in {2, 3}
  <2>1. (hs[i].contras = 0 \/ hs[i].contras <= 1) /\ (hs[i].conf >= 42 \/ hs[i].conf >= 31)
    BY <1>4 DEF Survives
  <2>2. raised[i].contras <= 1 /\ raised[i].conf >= 31
    BY <1>2, <1>3, <2>1
  <2> QED BY <1>2, <1>4, <2>2 DEF Survives
<1>5. CASE n \in {7, 8}
  BY <1>2, <1>5 DEF Survives
<1> QED BY <1>4, <1>5

LEMMA KeepSurvives ==
  ASSUME NEW hs, NEW i, NEW n \in {3, 4, 8, 9}, Survives(hs, n, i)
  PROVE  Survives(hs, n + 1, i)
<1>1. CASE n \in {3, 4}
  <2>1. hs[i].contras <= 1 /\ hs[i].conf >= 31 /\ i \in Live(hs)
    BY <1>1 DEF Survives
  <2>2. ~(n + 1 <= 2) /\ ~(n + 1 = 2)
    BY <1>1
  <2> QED BY <2>1, <2>2 DEF Survives
<1>2. CASE n \in {8, 9}
  BY <1>2 DEF Survives
<1> QED BY <1>1, <1>2

LEMMA SeedSurvives ==
  ASSUME NEW hs \in Bank, NEW q \in Queries
  PROVE  Survives(Append(hs, Seed(q)), 0, Len(hs) + 1)
<1> DEFINE i == Len(hs) + 1
           seeded == Append(hs, Seed(q))
<1>1. i \in DOMAIN seeded /\ seeded[i] = Seed(q)
  BY SeedsAreHypotheses, AppendKeeps
<1>2. i \in Live(seeded) /\ seeded[i].contras = 0 /\ seeded[i].conf >= 42
  BY <1>1 DEF Live, Seed
<1> HIDE DEF i, seeded
<1>3. Survives(seeded, 0, i)
  BY <1>2 DEF Survives
<1> USE DEF i, seeded
<1> QED BY <1>3

LEMMA ContradictSurvives ==
  ASSUME NEW hs \in Bank, NEW i, NEW n \in {2, 7}, Survives(hs, n, i)
  PROVE  Survives(ContradictTop(hs), n + 1, i)
<1> DEFINE lowered == ContradictTop(hs)
<1> SUFFICES Survives(lowered, n + 1, i)
  OBVIOUS
<1>1. i \in Live(hs)
  BY DEF Survives
<1>2. /\ i \in Live(lowered)
      /\ i # Top(hs) => lowered[i] = hs[i]
      /\ lowered[Top(hs)].contras = hs[Top(hs)].contras + 1
      /\ lowered[Top(hs)].conf = IF hs[Top(hs)].conf < 25 THEN 0 ELSE hs[Top(hs)].conf - 25
      /\ lowered \in Bank
  BY <1>1, ContradictTopKeeps
<1> HIDE DEF lowered
<1>3. /\ hs[i].conf \in 0..99 /\ hs[i].contras \in Nat
  BY <1>1, LiveAreHypotheses DEF Live
<1>4. CASE n = 2
  <2>1. hs[i].contras = 0 /\ hs[i].conf >= 42 /\ (i = Top(hs) => hs[i].conf >= 56)
    BY <1>4 DEF Survives
  <2>2. CASE i = Top(hs)
    <3>1. lowered[i].contras = hs[i].contras + 1
          /\ lowered[i].conf = IF hs[i].conf < 25 THEN 0 ELSE hs[i].conf - 25
      BY <1>2, <2>2
    <3>2. lowered[i].contras <= 1 /\ lowered[i].conf >= 31
      BY <1>3, <2>1, <2>2, <3>1
    <3> QED BY <1>2, <1>4, <3>2 DEF Survives
  <2>3. CASE i # Top(hs)
    <3>1. hs[i].contras <= 1 /\ hs[i].conf >= 31
      BY <1>3, <2>1
    <3>2. lowered[i] = hs[i]
      BY <1>2, <2>3
    <3> QED BY <1>2, <1>4, <3>1, <3>2 DEF Survives
  <2> QED BY <2>2, <2>3
<1>5. CASE n = 7
  BY <1>2, <1>5 DEF Survives
<1> QED BY <1>4, <1>5

LEMMA ShortStep ==
  ASSUME ShortLoops, Typed, Short, [Next]_vars
  PROVE  Short'
<1>1. ASSUME NEW q \in Queries, NEW d \in Drivers, NEW cap \in LoopCaps,
           Begin(q, d, cap) PROVE Short'
  <2>1. maxLoops' = cap /\ cap \in Nat /\ cap <= 8
    BY <1>1, LoopAssumption DEF Begin, ShortLoops
  <2> QED BY <2>1 DEF Short
<1>2. ASSUME NEW exhaustive \in BOOLEAN, Triage(exhaustive) PROVE Short'
  BY <1>2, LoopNumbers DEF Triage, Short
<1>3. CASE RunPhase
  BY <1>3, RunPhaseBelowCap DEF Short
<1>4. CASE UNCHANGED maxLoops /\ stage' # "triage"
  BY <1>4, LoopNumbers DEF Short
<1>5. CASE UNCHANGED vars
  BY <1>5 DEF vars, control, Short
<1> QED
  BY <1>1, <1>2, <1>3, <1>4, <1>5
  DEF Next, Work, Prelude, StreamBreak, LoopNodeReturn, LoopRouter, Coda, Put, CallFails,
      CollapseFails, Abandon, control

LEMMA PhaseOrder ==
  /\ phase = "explore" => NextPhase = "solve"
  /\ phase = "solve" => NextPhase = "verify"
  /\ phase = "verify" => NextPhase = "repair"
  /\ phase = "repair" => NextPhase = "synthesize"
  /\ phase = "synthesize" => NextPhase = "explore"
<1> DEFINE k == CHOOSE m \in DOMAIN Phases : Phases[m] = phase
<1>1. DOMAIN Phases = 1..5 /\ Len(Phases) = 5
      /\ Phases[1] = "explore" /\ Phases[2] = "solve" /\ Phases[3] = "verify"
      /\ Phases[4] = "repair" /\ Phases[5] = "synthesize"
  BY DEF Phases
<1>2. NextPhase = Phases[IF k = 5 THEN 1 ELSE k + 1]
  BY <1>1 DEF NextPhase
<1>3. ASSUME NEW m \in 1..5, Phases[m] = phase PROVE k = m
  <2>1. k \in 1..5 /\ Phases[k] = phase
    BY <1>1, <1>3
  <2> HIDE DEF k
  <2>2. \A a, b \in 1..5 : Phases[a] = Phases[b] => a = b
    BY <1>1
  <2> QED BY <1>3, <2>1, <2>2
<1> HIDE DEF k
<1>4. 1 \in 1..5 /\ 2 \in 1..5 /\ 3 \in 1..5 /\ 4 \in 1..5 /\ 5 \in 1..5
  OBVIOUS
<1>5. /\ phase = "explore" => k = 1
      /\ phase = "solve" => k = 2
      /\ phase = "verify" => k = 3
      /\ phase = "repair" => k = 4
      /\ phase = "synthesize" => k = 5
  BY <1>1, <1>3, <1>4
<1> QED BY <1>1, <1>2, <1>5

LEMMA OnTimeStep ==
  ASSUME Short, Typed, WithinCap, OnTime, [Next]_vars
  PROVE  OnTime'
<1>0. loopIndex \in Nat /\ maxLoops \in Nat /\ maxLoops <= 10
  BY LoopNumbers DEF Short
<1>1. ASSUME NEW q \in Queries, NEW d \in Drivers, NEW cap \in LoopCaps,
           Begin(q, d, cap) PROVE OnTime'
  <2>1. loopIndex' = 0 /\ phase' = "explore"
    BY <1>1 DEF Begin
  <2> QED BY <2>1 DEF OnTime
<1>2. ASSUME NEW exhaustive \in BOOLEAN, Triage(exhaustive) PROVE OnTime'
  BY <1>2 DEF Triage, OnTime
<1>3. CASE RunPhase
  <2>1. /\ loopIndex' = loopIndex + 1 /\ stage' \in {"router", "loop"}
        /\ loopIndex \in 0..9
    BY <1>0, <1>3, RunPhaseBelowCap
  <2>2. phase' = NextPhase
    BY <1>3 DEF RunPhase, Explore, Solve, Verify, Repair, Synthesize, FinishPhase
  <2>3. /\ phase = "explore" => NextPhase = "solve"
        /\ phase = "solve" => NextPhase = "verify"
        /\ phase = "verify" => NextPhase = "repair"
        /\ phase = "repair" => NextPhase = "synthesize"
        /\ phase = "synthesize" => NextPhase = "explore"
    BY PhaseOrder
  <2>4. \/ loopIndex \in {0, 5} /\ loopIndex' \in {1, 6} /\ phase' = "solve"
        \/ loopIndex \in {1, 6} /\ loopIndex' \in {2, 7} /\ phase' = "verify"
        \/ loopIndex \in {2, 7} /\ loopIndex' \in {3, 8} /\ phase' = "repair"
        \/ loopIndex \in {3, 8} /\ loopIndex' \in {4, 9} /\ phase' = "synthesize"
        \/ loopIndex \in {4, 9} /\ loopIndex' \in {5, 10} /\ phase' = "explore"
    BY <2>1, <2>2, <2>3 DEF OnTime
  <2> QED BY <2>1, <2>4 DEF OnTime
<1>4. CASE ~RunPhase /\ (stage \in {"idle", "triage"} => UNCHANGED vars)
  <2>1. UNCHANGED <<phase, loopIndex>> /\ (stage' \in {"triage", "prelude"} => stage' = stage)
    BY <1>4 DEF Next, Begin, Work, Triage, Prelude, StreamBreak, LoopNodeReturn, LoopRouter,
                Coda, Put, CallFails, CollapseFails, Abandon, vars, control
  <2> QED BY <2>1 DEF OnTime
<1>5. CASE CallFails
  BY <1>5 DEF CallFails, Abandon, OnTime, control
<1>6. stage = "idle" /\ ~UNCHANGED vars =>
        \E q \in Queries, d \in Drivers, cap \in LoopCaps : Begin(q, d, cap)
  BY DEF Next, Work, Triage, Prelude, RunPhase, Explore, Solve, Verify, Repair, Synthesize,
         RunsPhase, StreamBreak, LoopNodeReturn, LoopRouter, Coda, Put, CallFails, CollapseFails
<1>7. stage = "triage" /\ ~UNCHANGED vars =>
        CallFails \/ \E exhaustive \in BOOLEAN : Triage(exhaustive)
  BY DEF Next, Begin, Work, Prelude, RunPhase, Explore, Solve, Verify, Repair, Synthesize,
         RunsPhase, StreamBreak, LoopNodeReturn, LoopRouter, Coda, Put, CollapseFails
<1> QED BY <1>1, <1>2, <1>3, <1>4, <1>5, <1>6, <1>7

LEMMA PhaseTellsIndex ==
  ASSUME OnTime, loopIndex \in 0..9
  PROVE  /\ phase = "explore" => loopIndex \in {0, 5}
         /\ phase = "solve" => loopIndex \in {1, 6}
         /\ phase = "verify" => loopIndex \in {2, 7}
         /\ phase = "repair" => loopIndex \in {3, 8}
         /\ phase = "synthesize" => loopIndex \in {4, 9}
BY DEF OnTime

LEMMA PhaseSurvives ==
  ASSUME Short, Typed, WithinCap, OnTime, Survivor, RunPhase
  PROVE  Survivor'
<1>0. hyps \in Bank /\ loopIndex \in 0..9 /\ loopIndex' = loopIndex + 1
  BY LoopNumbers, RunPhaseBelowCap DEF Short, Typed, TypeOK
<1>1. PICK i \in Live(hyps) : Survives(hyps, loopIndex, i)
  BY RunPhaseBelowCap DEF Survivor, InLoop
<1>2. Live(hyps) # {}
  BY <1>1
<1>3. CASE Explore
  <2>0. phase = "explore"
    BY <1>3 DEF Explore, RunsPhase
  <2>1. loopIndex \in {0, 5}
    BY <1>0, <2>0, PhaseTellsIndex
  <2>2. Survives(hyps', loopIndex + 1, i)
    <3>1. CASE ~WillBranch(hyps, contradicted)
      BY <1>0, <1>1, <1>3, <2>1, <3>1, PruneSurvives DEF Explore
    <3>2. CASE WillBranch(hyps, contradicted)
      <4>1. PICK a \in Alternatives : hyps' = Prune(Append(hyps, Alternative(a)))
        BY <1>3, <3>2 DEF Explore
      <4>2. Append(hyps, Alternative(a)) \in Bank /\ Alternative(a) \in Hypothesis
        BY <1>0, SeedsAreHypotheses, AppendKeeps
      <4>3. Survives(Append(hyps, Alternative(a)), loopIndex, i)
        BY <1>0, <1>1, <2>1, <4>2, AppendSurvives
      <4> QED BY <2>1, <4>1, <4>2, <4>3, PruneSurvives
    <3> QED BY <3>1, <3>2
  <2> QED BY <1>0, <2>2 DEF Survivor, Survives
<1>4. CASE Solve
  <2>1. phase = "solve" /\ hyps' = RaiseTop(hyps, 14)
    BY <1>4 DEF Solve, RunsPhase
  <2>2. loopIndex \in {1, 6}
    BY <1>0, <2>1, PhaseTellsIndex
  <2>3. Survives(hyps', loopIndex + 1, i)
    BY <1>0, <1>1, <2>1, <2>2, SolveSurvives
  <2> QED BY <1>0, <2>3 DEF Survivor, Survives
<1>5. ASSUME NEW passed \in BOOLEAN, Verify(passed) PROVE Survivor'
  <2>1. phase = "verify" /\ (hyps' = RaiseTop(hyps, 10) \/ hyps' = ContradictTop(hyps))
    BY <1>5 DEF Verify, RunsPhase
  <2>2. loopIndex \in {2, 7}
    BY <1>0, <2>1, PhaseTellsIndex
  <2>3. Survives(hyps', loopIndex + 1, i)
    BY <1>0, <1>1, <2>1, <2>2, RaiseSurvives, ContradictSurvives
  <2> QED BY <1>0, <2>3 DEF Survivor, Survives
<1>6. CASE Repair
  <2>1. phase = "repair" /\ (hyps' = hyps \/ hyps' = RaiseTop(hyps, 8))
    BY <1>6 DEF Repair, RunsPhase
  <2>2. loopIndex \in {3, 8}
    BY <1>0, <2>1, PhaseTellsIndex
  <2>3. Survives(hyps', loopIndex + 1, i)
    BY <1>0, <1>1, <2>1, <2>2, RaiseSurvives, KeepSurvives
  <2> QED BY <1>0, <2>3 DEF Survivor, Survives
<1>7. CASE Synthesize
  <2>0. phase = "synthesize" /\ hyps' = hyps
    BY <1>7 DEF Synthesize, RunsPhase
  <2>1. loopIndex \in {4, 9}
    BY <1>0, <2>0, PhaseTellsIndex
  <2>2. Survives(hyps', loopIndex + 1, i)
    BY <1>1, <2>0, <2>1, KeepSurvives
  <2> QED BY <1>0, <2>2 DEF Survivor, Survives
<1> QED BY <1>3, <1>4, <1>5, <1>6, <1>7 DEF RunPhase

LEMMA SurvivorStep ==
  ASSUME Short, Typed, WithinCap, OnTime, Survivor, [Next]_vars
  PROVE  Survivor'
<1>1. CASE Prelude
  <2>1. hyps \in Bank /\ query \in Queries
    BY DEF Typed, TypeOK
  <2>2. hyps' = Append(hyps, Seed(query)) /\ loopIndex' = 0
    BY <1>1 DEF Prelude, OnTime, control
  <2>3. Survives(hyps', loopIndex', Len(hyps) + 1)
    BY <2>1, <2>2, SeedSurvives
  <2>4. Len(hyps) + 1 \in Live(hyps')
    BY <2>3 DEF Survives
  <2> QED BY <2>3, <2>4 DEF Survivor
<1>2. CASE RunPhase
  BY <1>2, PhaseSurvives
<1>3. CASE ~(Prelude \/ RunPhase)
  <2>1. InLoop' => InLoop /\ hyps' = hyps /\ loopIndex' = loopIndex
    BY <1>3 DEF Next, Begin, Work, Triage, StreamBreak, LoopNodeReturn, LoopRouter, Coda, Put,
                CallFails, CollapseFails, Abandon, vars, state, control, InLoop
  <2> QED BY <2>1 DEF Survivor
<1> QED BY <1>1, <1>2, <1>3

\* With a configured max_loops of at most eight (so at most ten phases), no
\* request ever prunes its last hypothesis, for every max_branches, threshold,
\* judge and history of the thread: collapse always finds a winner.
THEOREM HypothesisSurvives ==
  ASSUME ShortLoops
  PROVE  Spec => []LiveHypothesis
<1>1. Init => Short /\ WithinCap /\ OnTime /\ Survivor
  <2> SUFFICES ASSUME Init PROVE Short /\ WithinCap /\ OnTime /\ Survivor
    OBVIOUS
  <2>1. loopIndex = 0 /\ maxLoops = 0 /\ stage = "idle" /\ phase = "explore"
    BY DEF Init
  <2> QED BY <2>1 DEF Short, WithinCap, OnTime, Survivor, InLoop
<1>2. Typed /\ Short /\ WithinCap /\ OnTime /\ Survivor /\ [Next]_vars
        => (Short /\ WithinCap /\ OnTime /\ Survivor)'
  BY ShortStep, WithinCapStep, OnTimeStep, SurvivorStep
<1>3. Survivor => LiveHypothesis
  BY DEF Survivor, LiveHypothesis
<1> QED BY <1>1, <1>2, <1>3, TypedInit, TypedStep, PTL DEF Spec

-----------------------------------------------------------------------------
(* What a request starts from and leaves *)

\* Until the seed is added, the bank is the stored one.
Untouched == stage \in {"triage", "prelude"} =>
  hyps = saved.hyps /\ loopIndex = 0 /\ phase = "explore"

LEMMA UntouchedStep == Untouched /\ [Next]_vars => Untouched'
<1> SUFFICES ASSUME Untouched, [Next]_vars PROVE Untouched'
  OBVIOUS
<1>1. ASSUME NEW q \in Queries, NEW d \in Drivers, NEW cap \in LoopCaps,
           Begin(q, d, cap) PROVE Untouched'
  <2>1. saved' = saved /\ hyps' = saved.hyps /\ loopIndex' = 0 /\ phase' = "explore"
    BY <1>1 DEF Begin
  <2> QED BY <2>1 DEF Untouched
<1>2. ASSUME NEW exhaustive \in BOOLEAN, Triage(exhaustive) PROVE Untouched'
  BY <1>2 DEF Triage, Untouched, state
<1>3. CASE Prelude
  BY <1>3 DEF Prelude, Untouched
<1>4. CASE RunPhase
  BY <1>4 DEF RunPhase, Explore, Solve, Verify, Repair, Synthesize, FinishPhase, Untouched
<1>5. CASE StreamBreak \/ LoopNodeReturn \/ LoopRouter \/ Coda
  <2>1. stage' \in {"coda", "router", "loop", "gate"}
    BY <1>5 DEF StreamBreak, LoopNodeReturn, LoopRouter, Coda
  <2> QED BY <2>1 DEF Untouched
<1>6. CASE Put \/ CallFails \/ CollapseFails
  BY <1>6 DEF Put, CallFails, CollapseFails, Abandon, Untouched
<1>7. CASE UNCHANGED vars
  BY <1>7 DEF vars, state, control, Untouched
<1> QED BY <1>1, <1>2, <1>3, <1>4, <1>5, <1>6, <1>7 DEF Next, Work

\* What is about to be stored has a live hypothesis: the coda has just used one.
Usable == SnapshotUsable /\ (stage = "gate" => Live(hyps) # {})

LEMMA UsableStep == Usable /\ [Next]_vars => Usable'
<1> SUFFICES ASSUME Usable, [Next]_vars PROVE Usable'
  OBVIOUS
<1>1. CASE Coda
  <2>1. saved' = saved /\ hyps' = hyps /\ Live(hyps) # {}
    BY <1>1 DEF Coda, state
  <2> QED BY <2>1 DEF Usable, SnapshotUsable
<1>2. CASE Put
  BY <1>2 DEF Put, Usable, SnapshotUsable, Snapshot
<1>3. CASE UNCHANGED vars
  BY <1>3 DEF vars, state, Usable, SnapshotUsable
<1>4. CASE ~(Coda \/ Put \/ UNCHANGED vars)
  <2>1. saved' = saved /\ stage' # "gate"
    BY <1>4 DEF Next, Begin, Work, Triage, Prelude, RunPhase, Explore, Solve, Verify, Repair,
                Synthesize, FinishPhase, StreamBreak, LoopNodeReturn, LoopRouter, CallFails,
                CollapseFails, Abandon
  <2> QED BY <2>1 DEF Usable, SnapshotUsable
<1> QED BY <1>1, <1>2, <1>3, <1>4

\* Whatever the settings, a thread that was answered once always has a live
\* hypothesis in its snapshot: a request that lost them all never stores it.
THEOREM SnapshotsUsable == Spec => []SnapshotUsable
<1>1. Init => Usable
  <2> SUFFICES ASSUME Init PROVE Usable
    OBVIOUS
  <2>1. saved = [hyps |-> <<>>, contradicted |-> FALSE, trace |-> <<>>] /\ stage = "idle"
    BY DEF Init
  <2>2. saved.hyps = <<>>
    BY <2>1
  <2> QED BY <2>1, <2>2 DEF Usable, SnapshotUsable
<1>2. Usable => SnapshotUsable
  BY DEF Usable
<1> QED BY <1>1, <1>2, UsableStep, PTL DEF Spec

-----------------------------------------------------------------------------
(* Confident halts before the judge *)

\* Whatever is live beyond position n is no more confident than b.
Below(hs, n, b) == \A i \in Live(hs) : i > n => hs[i].conf <= b

\* What a request has added itself is no more confident than its phases make it.
Modest ==
  stage \in {"loop", "router", "coda"} =>
    /\ loopIndex = 0 => phase = "explore" /\ Below(hyps, Len(saved.hyps), 42)
    /\ loopIndex = 1 => phase = "solve" /\ Below(hyps, Len(saved.hyps), 42)
    /\ loopIndex = 2 => Below(hyps, Len(saved.hyps), 56)

LEMMA SeedBelow ==
  ASSUME NEW hs \in Bank, NEW q \in Queries
  PROVE  Below(Append(hs, Seed(q)), Len(hs), 42)
<1> DEFINE seeded == Append(hs, Seed(q))
<1>1. /\ DOMAIN seeded = DOMAIN hs \cup {Len(hs) + 1} /\ seeded[Len(hs) + 1] = Seed(q)
      /\ DOMAIN hs = 1..Len(hs) /\ Len(hs) \in Nat
  BY SeedsAreHypotheses, AppendKeeps, LenProperties DEF Bank
<1>2. Seed(q).conf = 42
  BY DEF Seed
<1> HIDE DEF seeded
<1>3. \A i \in DOMAIN seeded : i > Len(hs) => i = Len(hs) + 1
  BY <1>1
<1>4. Below(seeded, Len(hs), 42)
  BY <1>1, <1>2, <1>3 DEF Below, Live
<1> QED BY <1>4 DEF seeded

LEMMA ExploreBelow ==
  ASSUME NEW n \in Nat, hyps \in Bank, Below(hyps, n, 42), Explore
  PROVE  Below(hyps', n, 42)
<1>1. ASSUME NEW hs \in Bank, Below(hs, n, 42) PROVE Below(Prune(hs), n, 42)
  BY <1>1, PruneKeeps DEF Below, Live
<1>2. ASSUME NEW a \in Alternatives PROVE Below(Append(hyps, Alternative(a)), n, 42)
  <2> DEFINE grown == Append(hyps, Alternative(a))
  <2>1. /\ \A i \in DOMAIN hyps : grown[i] = hyps[i]
        /\ grown[Len(hyps) + 1] = Alternative(a)
        /\ DOMAIN grown = DOMAIN hyps \cup {Len(hyps) + 1}
    BY SeedsAreHypotheses, AppendKeeps
  <2>2. Alternative(a).conf = 38
    BY DEF Alternative
  <2> HIDE DEF grown
  <2>3. ASSUME NEW i \in DOMAIN grown, grown[i].alive, i > n PROVE grown[i].conf <= 42
    <3>1. CASE i = Len(hyps) + 1
      BY <2>1, <2>2, <3>1
    <3>2. CASE i \in DOMAIN hyps
      BY <2>1, <2>3, <3>2 DEF Below, Live
    <3> QED BY <2>1, <3>1, <3>2
  <2>4. Below(grown, n, 42)
    BY <2>3 DEF Below, Live
  <2> QED BY <2>4 DEF grown
<1>3. CASE WillBranch(hyps, contradicted)
  <2>1. PICK a \in Alternatives : hyps' = Prune(Append(hyps, Alternative(a)))
    BY <1>3 DEF Explore
  <2>2. Append(hyps, Alternative(a)) \in Bank
    BY SeedsAreHypotheses, AppendKeeps
  <2> QED BY <1>1, <1>2, <2>1, <2>2
<1>4. CASE ~WillBranch(hyps, contradicted)
  BY <1>1, <1>4 DEF Explore
<1> QED BY <1>3, <1>4

LEMMA SolveBelow ==
  ASSUME NEW hs \in Bank, NEW n \in Nat, Below(hs, n, 42)
  PROVE  Below(RaiseTop(hs, 14), n, 56)
<1> DEFINE t == Top(hs)
           raised == RaiseTop(hs, 14)
<1>1. CASE Live(hs) = {}
  BY <1>1 DEF RaiseTop, Below
<1>2. CASE Live(hs) # {}
  <2>1. t \in Live(hs) /\ t \in DOMAIN hs /\ hs[t] \in Hypothesis
    BY <1>2, TopExists, TopIsHypothesis
  <2>2. 14 \in Nat /\ Raise(hs[t], 14).conf = IF hs[t].conf + 14 > 99 THEN 99 ELSE hs[t].conf + 14
    BY <2>1, ChangesAreHypotheses
  <2>3. Live(raised) = Live(hs)
    BY <1>2, <2>2, RaiseTopKeeps
  <2>4. raised[t] = Raise(hs[t], 14) /\ \A i \in DOMAIN hs : i # t => raised[i] = hs[i]
    BY <1>2, <2>1 DEF RaiseTop
  <2>5. \A i \in Live(hs) : i \in DOMAIN hs /\ hs[i].conf \in 0..99
    BY LiveAreHypotheses DEF Live
  <2> HIDE DEF t, raised
  <2>6. ASSUME NEW i \in Live(hs), i > n PROVE raised[i].conf <= 56
    <3>1. hs[i].conf \in 0..99 /\ hs[i].conf <= 42
      BY <2>5, <2>6 DEF Below
    <3>2. CASE i = t
      BY <2>2, <2>4, <3>1, <3>2
    <3>3. CASE i # t
      BY <2>4, <2>5, <3>1, <3>3
    <3> QED BY <3>2, <3>3
  <2>7. Below(raised, n, 56)
    BY <2>3, <2>6 DEF Below
  <2> QED BY <2>7 DEF raised
<1> QED BY <1>1, <1>2

LEMMA ModestStep ==
  ASSUME Typed, Untouched, Modest, [Next]_vars
  PROVE  Modest'
<1>0. hyps \in Bank /\ saved.hyps \in Bank /\ query \in Queries
  BY DEF Typed, TypeOK
<1>1. CASE Prelude
  <2>1. /\ hyps' = Append(saved.hyps, Seed(query)) /\ loopIndex' = 0 /\ phase' = "explore"
        /\ saved' = saved
    BY <1>1 DEF Prelude, Untouched, control
  <2>2. Below(hyps', Len(saved'.hyps), 42)
    BY <1>0, <2>1, SeedBelow
  <2>3. loopIndex' # 1 /\ loopIndex' # 2
    BY <2>1
  <2> QED BY <2>1, <2>2, <2>3 DEF Modest
<1>2. CASE RunPhase
  <2>1. loopIndex' = loopIndex + 1 /\ stage = "loop" /\ loopIndex \in Nat
    BY <1>2, RunPhaseBelowCap, LoopNumbers
  <2>2. saved' = saved /\ phase' = NextPhase
    BY <1>2 DEF RunPhase, Explore, Solve, Verify, Repair, Synthesize, FinishPhase
  <2>3. Len(saved.hyps) \in Nat
    BY <1>0, LenProperties DEF Bank
  <2>4. CASE loopIndex = 0
    <3>1. phase = "explore" /\ Below(hyps, Len(saved.hyps), 42)
      BY <2>1, <2>4 DEF Modest
    <3>2. Explore
      BY <1>2, <3>1 DEF RunPhase, Solve, Verify, Repair, Synthesize, RunsPhase
    <3>3. Below(hyps', Len(saved.hyps), 42)
      BY <1>0, <2>3, <3>1, <3>2, ExploreBelow
    <3>4. phase' = "solve" /\ loopIndex' = 1
      BY <2>1, <2>2, <2>4, <3>1, PhaseOrder
    <3> QED BY <2>2, <3>3, <3>4 DEF Modest, Below
  <2>5. CASE loopIndex = 1
    <3>1. phase = "solve" /\ Below(hyps, Len(saved.hyps), 42)
      BY <2>1, <2>5 DEF Modest
    <3>2. Solve
      BY <1>2, <3>1 DEF RunPhase, Explore, Verify, Repair, Synthesize, RunsPhase
    <3>3. hyps' = RaiseTop(hyps, 14)
      BY <3>2 DEF Solve
    <3>4. Below(hyps', Len(saved.hyps), 56)
      BY <1>0, <2>3, <3>1, <3>3, SolveBelow
    <3>5. loopIndex' = 2
      BY <2>1, <2>5
    <3> QED BY <2>2, <3>4, <3>5 DEF Modest, Below
  <2>6. CASE loopIndex >= 2
    <3>1. loopIndex' # 0 /\ loopIndex' # 1 /\ loopIndex' # 2
      BY <2>1, <2>6
    <3> QED BY <3>1 DEF Modest
  <2> QED BY <2>1, <2>4, <2>5, <2>6
<1>3. CASE StreamBreak \/ LoopNodeReturn \/ LoopRouter
  <2>1. /\ stage \in {"loop", "router", "coda"} /\ UNCHANGED <<saved, hyps, loopIndex, phase>>
    BY <1>3 DEF StreamBreak, LoopNodeReturn, LoopRouter, state
  <2> QED BY <2>1 DEF Modest, Below
<1>4. CASE UNCHANGED vars
  BY <1>4 DEF vars, state, control, Modest, Below
<1>5. CASE ~(Prelude \/ RunPhase \/ StreamBreak \/ LoopNodeReturn \/ LoopRouter \/ UNCHANGED vars)
  <2>1. stage' \notin {"loop", "router", "coda"}
    BY <1>5 DEF Next, Work, Begin, Triage, Coda, Put, CallFails, CollapseFails, Abandon
  <2> QED BY <2>1 DEF Modest
<1> QED BY <1>1, <1>2, <1>3, <1>4, <1>5

\* With a confidence threshold above 0.56, which is what a new seed reaches before
\* its first verdict, a request that stops as confident before it has asked the
\* judge stops on a hypothesis it inherited; for every max_loops, history and judge.
THEOREM EarlyHaltInherits ==
  ASSUME Threshold > 56
  PROVE  Spec => []EarlyHaltIsInherited
<1>1. Init => WithinCap /\ HaltKnown /\ Untouched /\ Modest
  <2> SUFFICES ASSUME Init PROVE WithinCap /\ HaltKnown /\ Untouched /\ Modest
    OBVIOUS
  <2>1. loopIndex = 0 /\ maxLoops = 0 /\ stage = "idle"
    BY DEF Init
  <2> QED BY <2>1 DEF WithinCap, HaltKnown, Untouched, Modest
<1>2. ASSUME Typed, WithinCap, HaltKnown, Modest PROVE EarlyHaltIsInherited
  <2> SUFFICES ASSUME stage = "coda", haltReason = "converged_confident", loopIndex < 3
               PROVE  Top(hyps) <= Len(saved.hyps)
    BY DEF EarlyHaltIsInherited
  <2>1. hyps \in Bank /\ saved.hyps \in Bank /\ loopIndex \in 0..2
    BY <1>2, LoopNumbers DEF Typed, TypeOK
  <2>2. HaltNow = "converged_confident"
    BY <1>2 DEF HaltKnown
  <2>3. TopConfidence(hyps) >= Threshold
    BY <2>2 DEF HaltNow, Halt
  <2>4. TopConfidence(hyps) > 56 /\ TopConfidence(hyps) \in 0..99
    BY <2>1, <2>3, LoopAssumption, TopConfidenceType DEF Confidence
  <2>5. Live(hyps) # {}
    BY <2>4 DEF TopConfidence
  <2>6. Top(hyps) \in Live(hyps) /\ hyps[Top(hyps)].conf = TopConfidence(hyps)
    BY <2>1, <2>5, TopExists DEF TopConfidence
  <2>7. Below(hyps, Len(saved.hyps), 42) \/ Below(hyps, Len(saved.hyps), 56)
    BY <1>2, <2>1 DEF Modest
  <2>8. ~(Top(hyps) > Len(saved.hyps))
    <3> SUFFICES ASSUME Top(hyps) > Len(saved.hyps) PROVE FALSE
      OBVIOUS
    <3>1. ASSUME NEW b, Below(hyps, Len(saved.hyps), b) PROVE TopConfidence(hyps) <= b
      <4>1. hyps[Top(hyps)].conf <= b
        BY <2>6, <3>1 DEF Below
      <4> QED BY <2>6, <4>1
    <3>2. TopConfidence(hyps) <= 42 \/ TopConfidence(hyps) <= 56
      BY <2>7, <3>1
    <3>3. ASSUME NEW c \in 0..99, c > 56 PROVE ~(c <= 42 \/ c <= 56)
      BY <3>3
    <3> QED BY <2>4, <3>2, <3>3
  <2>9. Top(hyps) \in Nat /\ Len(saved.hyps) \in Nat
    BY <2>1, <2>6, LiveAreHypotheses, LenProperties DEF Bank
  <2> QED BY <2>8, <2>9
<1> QED BY <1>1, <1>2, TypedInit, TypedStep, WithinCapStep, HaltKnownStep, UntouchedStep,
           ModestStep, PTL DEF Spec

-----------------------------------------------------------------------------
(* The growth of a thread's bank *)

\* Each request so far has added at most its seed; branching stops at the cap.
Grown ==
  /\ Cardinality(Live(saved.hyps)) <= served + Cap - 1
  /\ InLoop => Cardinality(Live(hyps)) <= served + Cap

LEMMA LiveFinite ==
  ASSUME NEW hs \in Bank
  PROVE  IsFiniteSet(Live(hs)) /\ Cardinality(Live(hs)) \in Nat
<1>1. DOMAIN hs = 1..Len(hs) /\ Len(hs) \in Int /\ 1 \in Int
  BY LenProperties DEF Bank
<1>2. IsFiniteSet(DOMAIN hs)
  BY <1>1, FS_Interval
<1>3. Live(hs) \in SUBSET DOMAIN hs
  BY DEF Live
<1> QED BY <1>2, <1>3, FS_Subset, FS_CardinalityType

LEMMA AppendGrows ==
  ASSUME NEW hs \in Bank, NEW h \in Hypothesis
  PROVE  Cardinality(Live(Append(hs, h))) <= Cardinality(Live(hs)) + 1
<1> DEFINE more == Live(hs) \cup {Len(hs) + 1}
<1>1. Live(Append(hs, h)) \in SUBSET more
  BY AppendKeeps DEF Live
<1>2. IsFiniteSet(more) /\ Cardinality(more) <= Cardinality(Live(hs)) + 1
  <2>1. IsFiniteSet(Live(hs)) /\ Cardinality(Live(hs)) \in Nat
    BY LiveFinite
  <2>2. /\ IsFiniteSet(more)
        /\ Cardinality(more) = IF Len(hs) + 1 \in Live(hs) THEN Cardinality(Live(hs))
                               ELSE Cardinality(Live(hs)) + 1
    BY <2>1, FS_AddElement
  <2> QED BY <2>1, <2>2
<1>3. Cardinality(Live(Append(hs, h))) <= Cardinality(more)
  BY <1>1, <1>2, FS_Subset
<1>4. Cardinality(more) \in Nat /\ Cardinality(Live(hs)) \in Nat
      /\ Cardinality(Live(Append(hs, h))) \in Nat
  BY <1>2, AppendKeeps, LiveFinite, FS_CardinalityType
<1> HIDE DEF more
<1> QED BY <1>2, <1>3, <1>4

LEMMA PruneShrinks ==
  ASSUME NEW hs \in Bank
  PROVE  Cardinality(Live(Prune(hs))) <= Cardinality(Live(hs))
<1>1. Live(Prune(hs)) \in SUBSET Live(hs)
  BY PruneKeeps DEF Live
<1> QED BY <1>1, LiveFinite, FS_Subset

LEMMA TopChangeKeepsLive ==
  ASSUME NEW hs \in Bank, NEW n \in Nat
  PROVE  Live(RaiseTop(hs, n)) = Live(hs) /\ Live(ContradictTop(hs)) = Live(hs)
<1>1. CASE Live(hs) = {}
  BY <1>1 DEF RaiseTop, ContradictTop
<1>2. CASE Live(hs) # {}
  BY <1>2, RaiseTopKeeps, ContradictTopKeeps
<1> QED BY <1>1, <1>2

LEMMA ExploreGrows ==
  ASSUME hyps \in Bank, Explore
  PROVE  \/ Cardinality(Live(hyps')) <= Cardinality(Live(hyps))
         \/ Cardinality(Live(hyps')) <= Cap
<1>1. CASE ~WillBranch(hyps, contradicted)
  BY <1>1, PruneShrinks DEF Explore
<1>2. CASE WillBranch(hyps, contradicted)
  <2>1. PICK a \in Alternatives : hyps' = Prune(Append(hyps, Alternative(a)))
    BY <1>2 DEF Explore
  <2> DEFINE grown == Append(hyps, Alternative(a))
  <2>2. grown \in Bank /\ Prune(grown) \in Bank
    BY SeedsAreHypotheses, AppendKeeps, PruneKeeps
  <2>3. Cardinality(Live(grown)) <= Cardinality(Live(hyps)) + 1
    BY SeedsAreHypotheses, AppendGrows
  <2> HIDE DEF grown
  <2>4. Cardinality(Live(hyps')) <= Cardinality(Live(grown)) /\ hyps' \in Bank
    BY <2>1, <2>2, PruneShrinks DEF grown
  <2>5. Cardinality(Live(hyps)) < 3 /\ Cardinality(Live(hyps)) < MaxBranches
    BY <1>2 DEF WillBranch, ShouldBranch
  <2>6. /\ Cardinality(Live(hyps)) \in Nat /\ Cardinality(Live(grown)) \in Nat
        /\ Cardinality(Live(hyps')) \in Nat /\ MaxBranches \in Nat
    BY <2>2, <2>4, LiveFinite, MaxBranchesAssumption
  <2> QED BY <2>3, <2>4, <2>5, <2>6 DEF Cap
<1> QED BY <1>1, <1>2

LEMMA GrownStep ==
  ASSUME MaxBranches > 0, Typed, Untouched, Grown, [Next]_vars
  PROVE  Grown'
<1>0. /\ hyps \in Bank /\ saved.hyps \in Bank /\ query \in Queries /\ served \in Nat
      /\ Cap \in Nat /\ Cap >= 1
      /\ Cardinality(Live(hyps)) \in Nat /\ Cardinality(Live(saved.hyps)) \in Nat
  <2>1. hyps \in Bank /\ saved.hyps \in Bank /\ query \in Queries /\ served \in Nat
    BY LoopAssumption DEF Typed, TypeOK
  <2> QED BY <2>1, LiveFinite, MaxBranchesAssumption DEF Cap
<1>1. CASE Prelude
  <2>1. /\ hyps' = Append(saved.hyps, Seed(query)) /\ saved' = saved /\ served' = served
    BY <1>1 DEF Prelude, Untouched
  <2>2. Seed(query) \in Hypothesis
    BY <1>0, SeedsAreHypotheses
  <2>3. Cardinality(Live(hyps')) <= Cardinality(Live(saved.hyps)) + 1
    BY <1>0, <2>1, <2>2, AppendGrows
  <2>4. Cardinality(Live(hyps')) \in Nat
    BY <1>0, <2>1, <2>2, AppendKeeps, LiveFinite
  <2>5. Cardinality(Live(hyps')) <= served + Cap
    BY <1>0, <2>3, <2>4 DEF Grown
  <2> QED BY <2>1, <2>5 DEF Grown
<1>2. CASE RunPhase
  <2>1. saved' = saved /\ served' = served /\ InLoop
    BY <1>2 DEF RunPhase, Explore, Solve, Verify, Repair, Synthesize, RunsPhase, FinishPhase,
                InLoop
  <2>2. Cardinality(Live(hyps)) <= served + Cap
    BY <2>1 DEF Grown
  <2>3. CASE Explore
    <3>1. hyps' \in Bank
      BY <1>0, <2>3, ExploreTyped
    <3>2. Cardinality(Live(hyps')) \in Nat
      BY <3>1, LiveFinite
    <3>3. \/ Cardinality(Live(hyps')) <= Cardinality(Live(hyps))
          \/ Cardinality(Live(hyps')) <= Cap
      BY <1>0, <2>3, ExploreGrows
    <3>4. Cardinality(Live(hyps')) <= served + Cap
      BY <1>0, <2>2, <3>2, <3>3
    <3> QED BY <2>1, <3>4 DEF Grown
  <2>4. CASE ~Explore
    <3>1. \/ hyps' = hyps \/ hyps' = ContradictTop(hyps)
          \/ \E n \in {8, 10, 14} : hyps' = RaiseTop(hyps, n)
      BY <1>2, <2>4 DEF RunPhase, Solve, Verify, Repair, Synthesize
    <3>2. Live(hyps') = Live(hyps)
      BY <1>0, <3>1, TopChangeKeepsLive
    <3> QED BY <2>1, <2>2, <3>2 DEF Grown
  <2> QED BY <2>3, <2>4
<1>3. CASE Put
  <2>1. served' = served + 1 /\ saved'.hyps = hyps /\ InLoop /\ ~InLoop'
    BY <1>3 DEF Put, Snapshot, InLoop
  <2>2. Cardinality(Live(saved'.hyps)) <= served' + Cap - 1
    BY <1>0, <2>1 DEF Grown
  <2> QED BY <2>1, <2>2 DEF Grown
<1>4. CASE CallFails \/ CollapseFails
  <2>1. served' = served + 1 /\ saved' = saved /\ ~InLoop'
    BY <1>4 DEF CallFails, CollapseFails, Abandon, InLoop
  <2>2. Cardinality(Live(saved'.hyps)) <= served' + Cap - 1
    BY <1>0, <2>1 DEF Grown
  <2> QED BY <2>1, <2>2 DEF Grown
<1>5. CASE ~(Prelude \/ RunPhase \/ Put \/ CallFails \/ CollapseFails)
  <2>1. saved' = saved /\ served' = served /\ (InLoop' => InLoop /\ hyps' = hyps)
    BY <1>5 DEF Next, Work, Begin, Triage, StreamBreak, LoopNodeReturn, LoopRouter, Coda, vars,
                state, InLoop
  <2> QED BY <2>1 DEF Grown
<1> QED BY <1>1, <1>2, <1>3, <1>4, <1>5

\* max_branches caps branching, for every history, judge and cap on the loops; the
\* live hypotheses of a thread grow by no more than one seed with every request.
THEOREM BankGrowth ==
  ASSUME MaxBranches > 0
  PROVE  Spec => []LiveGrowth
<1>1. Init => Untouched /\ Grown
  <2> SUFFICES ASSUME Init PROVE Untouched /\ Grown
    OBVIOUS
  <2>0. /\ saved = [hyps |-> <<>>, contradicted |-> FALSE, trace |-> <<>>]
        /\ hyps = <<>> /\ loopIndex = 0 /\ phase = "explore"
        /\ served = 0 /\ stage = "idle"
    BY DEF Init
  <2>1. Live(saved.hyps) = {}
    BY <2>0 DEF Live
  <2>2. Cap \in Nat /\ Cap >= 1
    BY MaxBranchesAssumption DEF Cap
  <2>3. Cardinality(Live(saved.hyps)) <= served + Cap - 1
    BY <2>0, <2>1, <2>2, FS_EmptySet
  <2> QED BY <2>0, <2>3 DEF Untouched, Grown, InLoop
<1>2. Untouched /\ Typed /\ Grown /\ [Next]_vars => Grown'
  BY GrownStep
<1>3. Grown => LiveGrowth
  BY DEF Grown, LiveGrowth
<1> QED BY <1>1, <1>2, <1>3, TypedInit, TypedStep, UntouchedStep, PTL DEF Spec

-----------------------------------------------------------------------------
(* Convergence.  The last two trace entries that a phase compares its mark   *)
(* with are the mark of the phase before, the mark of the one before that or *)
(* the marker of explore; after a solve, what an earlier request has left.   *)

Latest(log) == log[Len(log)]

\* Two entries are kept.
LEMMA Pushed ==
  ASSUME NEW log \in Traces, Len(log) <= 2, NEW m \in Marks
  PROVE  LET new == LastTwo(Append(log, m))
         IN  /\ new \in Traces /\ new # <<>> /\ Len(new) <= 2 /\ Latest(new) = m
             /\ log # <<>> => Len(new) = 2 /\ new[1] = Latest(log) /\ new[2] = m
             /\ log = <<>> => Len(new) = 1
<1> DEFINE more == Append(log, m)
           new == LastTwo(more)
<1>1. /\ more \in Seq(Marks) /\ Len(more) = Len(log) + 1
      /\ \A i \in 1..Len(log) : more[i] = log[i]
      /\ more[Len(log) + 1] = m
  BY AppendProperties DEF Traces
<1>2. Len(log) = 0 \/ Len(log) = 1 \/ Len(log) = 2
  <2>1. Len(log) \in Nat
    BY LenProperties DEF Traces
  <2>2. \A n \in Nat : n <= 2 => n = 0 \/ n = 1 \/ n = 2
    OBVIOUS
  <2> QED BY <2>1, <2>2, Zenon
<1>3. new \in Traces
  BY AppendTyped
<1>4. \A s \in Traces : s = <<>> <=> Len(s) = 0
  BY EmptySeq DEF Traces
<1> HIDE DEF more, new
<1>5. ASSUME Len(log) = 2
      PROVE  /\ new \in Traces /\ new # <<>> /\ Len(new) <= 2 /\ Latest(new) = m
             /\ log # <<>> => Len(new) = 2 /\ new[1] = Latest(log) /\ new[2] = m
             /\ log = <<>> => Len(new) = 1
  <2>1. Len(more) = 3 /\ more[3] = m /\ more[2] = log[2]
    BY <1>1, <1>5
  <2>2. new = SubSeq(more, 2, 3)
    BY <2>1 DEF LastTwo, new
  <2>3. \A i \in 2..3 : more[i] \in Marks
    BY <1>1, <2>1, ElementOfSeq
  <2>4. /\ Len(SubSeq(more, 2, 3)) = 3 - 2 + 1
        /\ \A i \in 1..(3 - 2 + 1) : SubSeq(more, 2, 3)[i] = more[2 + i - 1]
    <3>1. 2 \in Int /\ 3 \in Int /\ 2 <= 3 + 1
      OBVIOUS
    <3> QED BY <2>3, <3>1, SubSeqProperties
  <2>5. Len(new) = 2 /\ new[1] = more[2] /\ new[2] = more[3]
    BY <2>2, <2>4
  <2>6. new # <<>>
    BY <1>3, <1>4, <2>5
  <2> QED BY <1>3, <1>4, <1>5, <2>1, <2>5, <2>6 DEF Latest
<1>6. ASSUME Len(log) = 1
      PROVE  /\ new \in Traces /\ new # <<>> /\ Len(new) <= 2 /\ Latest(new) = m
             /\ log # <<>> => Len(new) = 2 /\ new[1] = Latest(log) /\ new[2] = m
             /\ log = <<>> => Len(new) = 1
  <2>1. Len(more) = 2 /\ more[2] = m /\ more[1] = log[1] /\ new = more
    BY <1>1, <1>6 DEF LastTwo, new
  <2>2. Len(new) = 2 /\ new[1] = log[1] /\ new[2] = m
    BY <2>1
  <2>3. new # <<>> /\ log # <<>>
    BY <1>3, <1>4, <1>6, <2>2
  <2> QED BY <1>3, <1>6, <2>2, <2>3 DEF Latest
<1>7. ASSUME Len(log) = 0
      PROVE  /\ new \in Traces /\ new # <<>> /\ Len(new) <= 2 /\ Latest(new) = m
             /\ log # <<>> => Len(new) = 2 /\ new[1] = Latest(log) /\ new[2] = m
             /\ log = <<>> => Len(new) = 1
  <2>1. Len(more) = 1 /\ more[1] = m /\ new = more
    BY <1>1, <1>7 DEF LastTwo, new
  <2>2. new # <<>>
    BY <1>3, <1>4, <2>1
  <2> QED BY <1>3, <1>4, <1>7, <2>1, <2>2 DEF Latest
<1>8. /\ new \in Traces /\ new # <<>> /\ Len(new) <= 2 /\ Latest(new) = m
      /\ log # <<>> => Len(new) = 2 /\ new[1] = Latest(log) /\ new[2] = m
      /\ log = <<>> => Len(new) = 1
  BY <1>2, <1>5, <1>6, <1>7
<1> QED BY <1>8 DEF more, new

\* What FinishPhase makes of the trace that the phase leaves.
LEMMA Finished ==
  ASSUME hyps' \in Bank, loopIndex \in Nat, NEW log \in Traces, Len(log) <= 2, FinishPhase(log)
  PROVE  /\ trace' \in Traces /\ Len(trace') <= 2
         /\ Live(hyps') = {} \/ loopIndex = 0 => trace' = log /\ converged' = FALSE
         /\ Live(hyps') # {} /\ loopIndex >= 1 =>
              /\ trace' # <<>> /\ Latest(trace') = Marker(hyps')
              /\ log # <<>> => Len(trace') = 2 /\ trace'[1] = Latest(log)
              /\ log = <<>> => Len(trace') = 1
         /\ converged' =>
              /\ Live(hyps') # {} /\ loopIndex >= 1
              /\ \/ TopConfidence(hyps') >= 88
                 \/ log # <<>> /\ Marker(hyps') = Latest(log)
                 \/ Len(log) = 2 /\ Marker(hyps') = log[1]
<1>1. loopIndex' = loopIndex + 1 /\ (Settled(loopIndex') <=> loopIndex >= 1)
  BY DEF FinishPhase, Settled
<1>2. CASE Live(hyps') = {} \/ ~(loopIndex >= 1)
  <2>1. trace' = log /\ converged' = FALSE
    BY <1>1, <1>2 DEF FinishPhase
  <2>2. ~(loopIndex = 0 /\ loopIndex >= 1)
    OBVIOUS
  <2> QED BY <1>2, <2>1, <2>2
<1>3. CASE Live(hyps') # {} /\ loopIndex >= 1
  <2> DEFINE m == Marker(hyps')
             previous == IF Len(log) >= 2 THEN {log[i] : i \in DOMAIN log} ELSE {}
  <2>1. m \in Marks
    BY <1>3, MarksTyped
  <2>2. /\ trace' = LastTwo(Append(log, m))
        /\ converged' = (m \in previous \/ TopConfidence(hyps') >= 88)
    BY <1>1, <1>3 DEF FinishPhase
  <2>3. /\ Len(log) \in Nat /\ DOMAIN log = 1..Len(log)
        /\ log = <<>> <=> Len(log) = 0
    BY LenProperties, EmptySeq DEF Traces
  <2>4. m \in previous => /\ Len(log) = 2
                          /\ m = log[1] \/ m = log[2]
    BY <2>3
  <2> HIDE DEF m, previous
  <2>5. /\ trace' \in Traces /\ Len(trace') <= 2 /\ trace' # <<>> /\ Latest(trace') = m
        /\ log # <<>> => Len(trace') = 2 /\ trace'[1] = Latest(log)
        /\ log = <<>> => Len(trace') = 1
    BY <2>1, <2>2, Pushed
  <2>6. loopIndex # 0
    BY <1>3
  <2>7. m \in previous => \/ log # <<>> /\ m = Latest(log)
                          \/ Len(log) = 2 /\ m = log[1]
    <3>1. Len(log) = 2 => log # <<>>
      BY <2>3
    <3>2. Len(log) = 2 => Latest(log) = log[2]
      BY DEF Latest
    <3> QED BY <2>4, <3>1, <3>2
  <2>8. converged' => \/ TopConfidence(hyps') >= 88
                      \/ log # <<>> /\ m = Latest(log)
                      \/ Len(log) = 2 /\ m = log[1]
    BY <2>2, <2>7
  <2> QED BY <1>3, <2>5, <2>6, <2>8 DEF m
<1> QED BY <1>2, <1>3

\* Capped and floored sums, and which hypotheses they apply to.
Raised(c, n) == IF c + n > 99 THEN 99 ELSE c + n
Lowered(c) == IF c < 25 THEN 0 ELSE c - 25

LEMMA TopChanges ==
  ASSUME NEW hs \in Bank, Live(hs) # {}, NEW n \in Nat
  PROVE  /\ DOMAIN RaiseTop(hs, n) = DOMAIN hs /\ DOMAIN ContradictTop(hs) = DOMAIN hs
         /\ \A i \in DOMAIN hs :
              /\ RaiseTop(hs, n)[i].id = hs[i].id /\ ContradictTop(hs)[i].id = hs[i].id
              /\ RaiseTop(hs, n)[i].conf = IF i = Top(hs) THEN Raised(hs[i].conf, n) ELSE hs[i].conf
              /\ ContradictTop(hs)[i].conf = IF i = Top(hs) THEN Lowered(hs[i].conf) ELSE hs[i].conf
<1> DEFINE t == Top(hs)
<1>1. t \in DOMAIN hs /\ hs[t] \in Hypothesis
  BY TopIsHypothesis
<1>2. /\ Raise(hs[t], n).conf = Raised(hs[t].conf, n)
      /\ Contradict(hs[t]).conf = Lowered(hs[t].conf)
  BY <1>1, ChangesAreHypotheses DEF Raised, Lowered
<1>3. Raise(hs[t], n).id = hs[t].id /\ Contradict(hs[t]).id = hs[t].id
  BY DEF Raise, WithConf, Contradict
<1>4. /\ RaiseTop(hs, n) = [hs EXCEPT ![t] = Raise(hs[t], n)]
      /\ ContradictTop(hs) = [hs EXCEPT ![t] = Contradict(hs[t])]
  BY DEF RaiseTop, ContradictTop
<1> HIDE DEF t
<1>5. ASSUME NEW i \in DOMAIN hs
      PROVE  /\ RaiseTop(hs, n)[i].id = hs[i].id /\ ContradictTop(hs)[i].id = hs[i].id
             /\ RaiseTop(hs, n)[i].conf = IF i = t THEN Raised(hs[i].conf, n) ELSE hs[i].conf
             /\ ContradictTop(hs)[i].conf = IF i = t THEN Lowered(hs[i].conf) ELSE hs[i].conf
  <2>1. CASE i = t
    BY <1>1, <1>2, <1>3, <1>4, <2>1
  <2>2. CASE i # t
    BY <1>1, <1>4, <2>2
  <2> QED BY <2>1, <2>2
<1>6. DOMAIN RaiseTop(hs, n) = DOMAIN hs /\ DOMAIN ContradictTop(hs) = DOMAIN hs
  BY <1>4
<1> QED BY <1>5, <1>6 DEF t

\* explore keeps every hypothesis, and the confidence of each; the live ones it
\* leaves are at 0.20 or above.
LEMMA ExploreLeaves ==
  ASSUME hyps \in Bank, Explore
  PROVE  /\ \A i \in DOMAIN hyps : i \in DOMAIN hyps' /\ hyps'[i].id = hyps[i].id /\ hyps'[i].conf = hyps[i].conf
         /\ \A i \in Live(hyps') : hyps'[i].conf >= 20
<1>1. ASSUME NEW hs \in Bank
      PROVE  /\ \A i \in DOMAIN hs : /\ i \in DOMAIN Prune(hs)
                                     /\ Prune(hs)[i].id = hs[i].id /\ Prune(hs)[i].conf = hs[i].conf
             /\ \A i \in Live(Prune(hs)) : Prune(hs)[i].conf >= 20
  <2>1. \A i \in DOMAIN hs : Prune(hs)[i].id = hs[i].id
    BY DEF Prune, WithAlive
  <2>2. ASSUME NEW i \in Live(Prune(hs)) PROVE Prune(hs)[i].conf >= 20
    <3>1. i \in DOMAIN hs /\ Prune(hs)[i].alive /\ Prune(hs)[i].conf = hs[i].conf
      BY PruneKeeps DEF Live
    <3>2. ~Weak(hs[i]) /\ hs[i].conf \in 0..99
      BY <3>1, PruneKeeps, LiveAreHypotheses
    <3>3. hs[i].conf >= 20
      BY <3>2 DEF Weak
    <3> QED BY <3>1, <3>3
  <2> QED BY <2>1, <2>2, PruneKeeps
<1>2. CASE ~WillBranch(hyps, contradicted)
  BY <1>1, <1>2 DEF Explore
<1>3. CASE WillBranch(hyps, contradicted)
  <2>1. PICK a \in Alternatives : hyps' = Prune(Append(hyps, Alternative(a)))
    BY <1>3 DEF Explore
  <2>2. /\ Append(hyps, Alternative(a)) \in Bank
        /\ \A i \in DOMAIN hyps : /\ i \in DOMAIN Append(hyps, Alternative(a))
                                  /\ Append(hyps, Alternative(a))[i] = hyps[i]
    BY SeedsAreHypotheses, AppendKeeps
  <2> QED BY <1>1, <2>1, <2>2
<1> QED BY <1>2, <1>3

\* What a trace entry can be: the marker of explore, or the id and the confidence
\* of a hypothesis, now, before the solve phase or before the verdict.
IsMark(hs, e) == e = ExploreMark \/ \E j \in DOMAIN hs : e = <<hs[j].id, hs[j].conf>>
BeforeSolve(hs, e) ==
  \/ e = ExploreMark
  \/ \E j \in DOMAIN hs, c \in 20..99 : e = <<hs[j].id, c>> /\ hs[j].conf = Raised(c, 14)
BeforeVerify(hs, e) ==
  \E j \in DOMAIN hs, c \in 20..99 :
     e = <<hs[j].id, c>> /\ (hs[j].conf = Raised(c, 10) \/ hs[j].conf = Lowered(c))

\* Where the phases have got to, and what their trace and their bank then hold.
PaceIndex ==
  /\ phase = "explore" => loopIndex = 0 \/ (loopIndex >= 2 /\ Live(hyps) # {})
  /\ phase = "solve" => loopIndex >= 1
  /\ phase \in {"verify", "repair", "synthesize"} => loopIndex >= 2
PaceLatest ==
  /\ loopIndex = 1 => trace # <<>> /\ Latest(trace) = ExploreMark
  /\ loopIndex >= 2 /\ Live(hyps) # {} => trace # <<>> /\ Latest(trace) = Marker(hyps)
PaceBank ==
  /\ phase \in {"solve", "verify"} => \A i \in Live(hyps) : hyps[i].conf >= 20
  /\ phase = "verify" /\ Live(hyps) # {} => TopConfidence(hyps) >= 34
PaceEarlier ==
  /\ phase = "solve" /\ Len(trace) = 2 => IsMark(hyps, trace[1])
  /\ phase = "verify" /\ Len(trace) = 2 /\ Live(hyps) # {} => BeforeSolve(hyps, trace[1])
  /\ phase = "repair" /\ Len(trace) = 2 /\ Live(hyps) # {} => BeforeVerify(hyps, trace[1])
Pace == PaceIndex /\ PaceLatest /\ PaceBank /\ PaceEarlier

\* Across requests only this is left of it: the last entry is some hypothesis as it is.
Paced ==
  /\ Len(trace) <= 2 /\ Len(saved.trace) <= 2
  /\ saved.trace # <<>> => IsMark(saved.hyps, Latest(saved.trace))
  /\ trace # <<>> => IsMark(hyps, Latest(trace))
  /\ InLoop => Pace

Repeats(hs) == \E i, j \in DOMAIN hs : i # j /\ hs[i].id = hs[j].id

\* What ConvergesAtRest says of a phase.
AtRest ==
  converged' => \/ TopConfidence(hyps') >= 88
                \/ loopIndex > 0 /\ Marker(hyps') = Marker(hyps)
                \/ Repeats(hyps')

\* An entry stays a mark of the bank while ids and confidences stay.
LEMMA MarkStays ==
  ASSUME NEW hs, NEW hn, NEW e, IsMark(hs, e),
         \A i \in DOMAIN hs : i \in DOMAIN hn /\ hn[i].id = hs[i].id /\ hn[i].conf = hs[i].conf
  PROVE  IsMark(hn, e)
BY DEF IsMark

\* The mark of a bank names its top, unless two hypotheses share an id.
LEMMA MarkNamesTop ==
  ASSUME NEW hn \in Bank, Live(hn) # {}, ~Repeats(hn), NEW i, NEW c,
         NEW j \in DOMAIN hn, i = hn[j].id, Marker(hn) = <<i, c>>
  PROVE  j = Top(hn) /\ hn[j].conf = c
<1>1. Top(hn) \in DOMAIN hn
  BY TopIsHypothesis
<1>2. hn[Top(hn)].id = hn[j].id /\ hn[Top(hn)].conf = c
  BY DEF Marker
<1> QED BY <1>1, <1>2 DEF Repeats

\* Raising the top changes the confidence of the new top, unless that is 0.99.
LEMMA RaiseMoves ==
  ASSUME NEW hs \in Bank, Live(hs) # {}, NEW n \in 1..99, NEW T, T = Top(RaiseTop(hs, n)),
         RaiseTop(hs, n)[T].conf = hs[T].conf
  PROVE  hs[T].conf = 99
<1> DEFINE hn == RaiseTop(hs, n)
           t == Top(hs)
<1>1. hn \in Bank /\ Live(hn) = Live(hs)
  BY TopChangeTyped, TopChangeKeepsLive
<1>2. T \in Live(hs) /\ t \in Live(hs) /\ Leads(hn, T, t) /\ Leads(hs, t, T)
  BY <1>1, TopExists
<1>3. T \in DOMAIN hs /\ t \in DOMAIN hs
  BY <1>2 DEF Live
<1>4. hs[T].conf \in 0..99 /\ hs[t].conf \in 0..99
  BY <1>3, LiveAreHypotheses
<1>5. hn[t].conf = Raised(hs[t].conf, n)
  BY <1>3, TopChanges
<1>6. \A a, b \in 0..99, m \in 1..99 :
        /\ a >= Raised(b, m) /\ b >= a => a = 99
        /\ Raised(a, m) = a => a = 99
  BY DEF Raised
<1>7. hs[T].conf > Raised(hs[t].conf, n) \/ hs[T].conf = Raised(hs[t].conf, n)
  BY <1>2, <1>5 DEF Leads
<1>8. hs[t].conf > hs[T].conf \/ hs[t].conf = hs[T].conf
  BY <1>2 DEF Leads
<1> HIDE DEF hn, t
<1>9. hs[T].conf >= Raised(hs[t].conf, n) /\ hs[t].conf >= hs[T].conf
  <2>1. \A a, b \in 0..99 : a > b \/ a = b => a >= b
    OBVIOUS
  <2>2. Raised(hs[t].conf, n) \in 0..99
    BY <1>4 DEF Raised
  <2> QED BY <1>4, <1>7, <1>8, <2>1, <2>2, Zenon
<1> QED BY <1>4, <1>6, <1>9

\* What the phases after explore have in common.
LEMMA AfterPhase ==
  ASSUME Typed, Paced, stage = "loop", loopIndex >= 1, hyps' \in Bank,
         Live(hyps') = Live(hyps), Live(hyps) = {} => hyps' = hyps, FinishPhase(trace)
  PROVE  /\ saved' = saved /\ loopIndex' >= 2 /\ phase' = NextPhase
         /\ Len(trace') <= 2
         /\ trace' # <<>> => IsMark(hyps', Latest(trace'))
         /\ PaceLatest'
         /\ Live(hyps) # {} =>
              /\ trace'[1] = Latest(trace)
              /\ \/ Latest(trace) = ExploreMark /\ loopIndex = 1
                 \/ Latest(trace) = Marker(hyps) /\ loopIndex >= 2
         /\ converged' =>
              /\ Live(hyps') # {}
              /\ \/ TopConfidence(hyps') >= 88
                 \/ Marker(hyps') = Latest(trace)
                 \/ Len(trace) = 2 /\ Marker(hyps') = trace[1]
<1>1. Pace /\ loopIndex \in Nat /\ trace \in Traces /\ Len(trace) <= 2
  BY DEF Typed, TypeOK, Paced, InLoop
<1>2. saved' = saved /\ phase' = NextPhase /\ loopIndex' = loopIndex + 1
  BY DEF FinishPhase
<1>3. loopIndex' >= 2 /\ loopIndex # 0
  BY <1>1, <1>2
<1>4. /\ Len(trace') <= 2
      /\ Live(hyps') = {} => trace' = trace
      /\ Live(hyps') # {} =>
           /\ trace' # <<>> /\ Latest(trace') = Marker(hyps')
           /\ trace # <<>> => Len(trace') = 2 /\ trace'[1] = Latest(trace)
      /\ converged' =>
           /\ Live(hyps') # {}
           /\ \/ TopConfidence(hyps') >= 88
              \/ Marker(hyps') = Latest(trace)
              \/ Len(trace) = 2 /\ Marker(hyps') = trace[1]
  BY <1>1, <1>3, Finished
<1>5. ASSUME trace' # <<>> PROVE IsMark(hyps', Latest(trace'))
  <2>1. CASE Live(hyps) = {}
    <3>1. trace' = trace /\ hyps' = hyps
      BY <1>4, <2>1
    <3>2. Latest(trace') = Latest(trace)
      BY <3>1 DEF Latest
    <3> QED BY <1>5, <3>1, <3>2 DEF Paced
  <2>2. CASE Live(hyps) # {}
    <3>1. Top(hyps') \in DOMAIN hyps'
      BY <2>2, TopIsHypothesis
    <3> QED BY <1>4, <2>2, <3>1 DEF IsMark, Marker
  <2> QED BY <2>1, <2>2
<1>6. PaceLatest'
  <2>1. loopIndex' # 1
    BY <1>1, <1>2, <1>3
  <2>2. Live(hyps') # {} => trace' # <<>> /\ Latest(trace') = Marker(hyps')
    BY <1>4
  <2>3. Latest(trace)' = Latest(trace') /\ Marker(hyps)' = Marker(hyps')
    BY DEF Latest, Marker
  <2> QED BY <2>1, <2>2, <2>3 DEF PaceLatest
<1>7. ASSUME Live(hyps) # {}
      PROVE  /\ trace'[1] = Latest(trace)
             /\ \/ Latest(trace) = ExploreMark /\ loopIndex = 1
                \/ Latest(trace) = Marker(hyps) /\ loopIndex >= 2
  <2>1. loopIndex = 1 \/ loopIndex >= 2
    BY <1>1
  <2>2. /\ trace # <<>>
        /\ \/ Latest(trace) = ExploreMark /\ loopIndex = 1
           \/ Latest(trace) = Marker(hyps) /\ loopIndex >= 2
    BY <1>1, <1>7, <2>1 DEF Pace, PaceLatest
  <2> QED BY <1>4, <1>7, <2>2
<1> QED BY <1>2, <1>3, <1>4, <1>5, <1>6, <1>7

\* The numbers: what solve, verify and repair make of a confidence of 0.20 or more is
\* not the one of two phases before, unless both are at the ceiling.
LEMMA Numbers ==
  /\ \A c \in 20..99 : Raised(c, 14) >= 34 /\ Raised(c, 14) >= 20
  /\ \A c \in 34..99 : Lowered(c) > 0
  /\ \A c \in 20..99 : /\ c >= Raised(c, 14) => c >= 88
                       /\ Lowered(Raised(c, 14)) = c => c >= 88
                       /\ c >= Raised(c, 10) => c >= 88
                       /\ c >= Raised(Raised(c, 10), 8) => c >= 88
                       /\ Lowered(c) # c
                       /\ Raised(Lowered(c), 8) # c
BY DEF Raised, Lowered

LEMMA PacedAgain ==
  ASSUME Paced, saved' = saved, Len(trace') <= 2,
         trace' # <<>> => IsMark(hyps', Latest(trace')),
         InLoop' => Pace'
  PROVE  Paced'
<1>1. IsMark(hyps, Latest(trace))' = IsMark(hyps', Latest(trace'))
  BY DEF IsMark, Latest
<1>2. saved'.trace # <<>> => IsMark(saved'.hyps, Latest(saved'.trace))
  BY DEF Paced
<1>3. IsMark(saved.hyps, Latest(saved.trace))' = IsMark(saved'.hyps, Latest(saved'.trace))
  BY DEF IsMark, Latest
<1> QED BY <1>1, <1>2, <1>3 DEF Paced

LEMMA SolveAtRest ==
  ASSUME Typed, Paced, Solve
  PROVE  Paced' /\ AtRest
<1>0. /\ hyps \in Bank /\ trace \in Traces /\ stage = "loop" /\ phase = "solve" /\ Pace
      /\ hyps' = RaiseTop(hyps, 14) /\ FinishPhase(trace)
  BY DEF Typed, TypeOK, Solve, RunsPhase, Paced, InLoop
<1>1. hyps' \in Bank /\ Live(hyps') = Live(hyps) /\ (Live(hyps) = {} => hyps' = hyps)
  BY <1>0, TopChangeTyped, TopChangeKeepsLive DEF RaiseTop
<1>2. loopIndex >= 1
  BY <1>0 DEF Pace, PaceIndex
<1>3. /\ saved' = saved /\ loopIndex' >= 2 /\ phase' = "verify"
      /\ Len(trace') <= 2
      /\ trace' # <<>> => IsMark(hyps', Latest(trace'))
      /\ PaceLatest'
      /\ Live(hyps) # {} =>
           /\ trace'[1] = Latest(trace)
           /\ \/ Latest(trace) = ExploreMark /\ loopIndex = 1
              \/ Latest(trace) = Marker(hyps) /\ loopIndex >= 2
      /\ converged' =>
           /\ Live(hyps') # {}
           /\ \/ TopConfidence(hyps') >= 88
              \/ Marker(hyps') = Latest(trace)
              \/ Len(trace) = 2 /\ Marker(hyps') = trace[1]
  BY <1>0, <1>1, <1>2, AfterPhase, PhaseOrder
<1>4. \A i \in Live(hyps) : i \in DOMAIN hyps /\ hyps[i].conf \in 20..99
  BY <1>0, LiveAreHypotheses DEF Pace, PaceBank, Live
<1>5. ASSUME Live(hyps) # {}
      PROVE  /\ DOMAIN hyps' = DOMAIN hyps
             /\ \A i \in DOMAIN hyps :
                  /\ hyps'[i].id = hyps[i].id
                  /\ hyps'[i].conf = IF i = Top(hyps) THEN Raised(hyps[i].conf, 14) ELSE hyps[i].conf
             /\ Top(hyps) \in Live(hyps)
             /\ Top(hyps') \in Live(hyps)
             /\ TopConfidence(hyps') = hyps'[Top(hyps')].conf
             /\ TopConfidence(hyps') \in 0..99
             /\ hyps'[Top(hyps)].conf <= TopConfidence(hyps')
  BY <1>0, <1>1, <1>5, TopChanges, TopExists, TopConfidenceBounds DEF TopConfidence, Confidence
<1>6. Live(hyps) # {} => TopConfidence(hyps') >= 34
  <2> SUFFICES ASSUME Live(hyps) # {} PROVE TopConfidence(hyps') >= 34
    OBVIOUS
  <2>1. hyps'[Top(hyps)].conf = Raised(hyps[Top(hyps)].conf, 14) /\ hyps[Top(hyps)].conf \in 20..99
    BY <1>4, <1>5
  <2>2. Raised(hyps[Top(hyps)].conf, 14) >= 34 /\ Raised(hyps[Top(hyps)].conf, 14) \in 0..99
    BY <2>1, Numbers DEF Raised
  <2>3. \A a, b \in 0..99 : a >= 34 /\ a <= b => b >= 34
    OBVIOUS
  <2> QED BY <1>5, <2>1, <2>2, <2>3
<1>7. ASSUME NEW i \in Live(hyps) PROVE hyps'[i].conf >= 20
  <2>1. hyps'[i].conf = hyps[i].conf \/ hyps'[i].conf = Raised(hyps[i].conf, 14)
    BY <1>4, <1>5, <1>7
  <2>2. hyps[i].conf >= 20
    BY <1>4, <1>7
  <2> QED BY <1>4, <1>7, <2>1, <2>2, Numbers
<1>8. Live(hyps) # {} => BeforeSolve(hyps', trace'[1])
  <2> SUFFICES ASSUME Live(hyps) # {}, trace'[1] = Marker(hyps) PROVE BeforeSolve(hyps', trace'[1])
    BY <1>3 DEF BeforeSolve
  <2>1. Top(hyps) \in DOMAIN hyps' /\ hyps[Top(hyps)].conf \in 20..99
    BY <1>4, <1>5
  <2>2. /\ trace'[1] = <<hyps'[Top(hyps)].id, hyps[Top(hyps)].conf>>
        /\ hyps'[Top(hyps)].conf = Raised(hyps[Top(hyps)].conf, 14)
    BY <1>4, <1>5 DEF Marker
  <2> QED BY <2>1, <2>2 DEF BeforeSolve
<1>9. Pace'
  <2>1. PaceIndex'
    BY <1>3 DEF PaceIndex
  <2>2. PaceBank'
    <3>1. \A i \in Live(hyps') : hyps'[i].conf >= 20
      BY <1>1, <1>7
    <3>2. Live(hyps') # {} => TopConfidence(hyps') >= 34
      BY <1>1, <1>6
    <3>3. TopConfidence(hyps)' = TopConfidence(hyps')
      BY DEF TopConfidence
    <3> QED BY <3>1, <3>2, <3>3 DEF PaceBank
  <2>3. PaceEarlier'
    <3>1. Live(hyps') # {} => BeforeSolve(hyps, trace[1])'
      BY <1>1, <1>8 DEF BeforeSolve
    <3> QED BY <1>3, <3>1 DEF PaceEarlier
  <2> QED BY <1>3, <2>1, <2>2, <2>3 DEF Pace
<1>10. Paced'
  BY <1>3, <1>9, PacedAgain
<1>11. AtRest
  <2> SUFFICES ASSUME converged', ~Repeats(hyps')
               PROVE  TopConfidence(hyps') >= 88 \/ (loopIndex > 0 /\ Marker(hyps') = Marker(hyps))
    BY DEF AtRest
  <2>0. Live(hyps) # {} /\ loopIndex > 0 /\ Live(hyps') # {}
    BY <1>0, <1>1, <1>2, <1>3 DEF Typed, TypeOK
  <2>1. Marker(hyps') # ExploreMark
    <3>1. hyps'[Top(hyps')].conf # 0
      BY <1>5, <1>6, <2>0
    <3> QED BY <3>1 DEF Marker, ExploreMark
  <2>2. ASSUME Len(trace) = 2, Marker(hyps') = trace[1]
        PROVE  TopConfidence(hyps') >= 88
    <3>1. PICK j \in DOMAIN hyps : trace[1] = <<hyps[j].id, hyps[j].conf>>
      BY <1>0, <2>1, <2>2 DEF Pace, PaceEarlier, IsMark
    <3>2. j \in DOMAIN hyps' /\ hyps[j].id = hyps'[j].id
      BY <1>5, <2>0
    <3>3. j = Top(hyps') /\ hyps'[j].conf = hyps[j].conf
      BY <1>1, <2>0, <2>2, <3>1, <3>2, MarkNamesTop
    <3>4. hyps[j].conf = 99
      BY <1>0, <2>0, <3>3, RaiseMoves
    <3> QED BY <1>5, <2>0, <3>3, <3>4
  <2> QED BY <1>3, <2>0, <2>1, <2>2
<1> QED BY <1>10, <1>11

LEMMA VerifyAtRest ==
  ASSUME Typed, Paced, NEW passed \in BOOLEAN, Verify(passed)
  PROVE  Paced' /\ AtRest
<1>0. /\ hyps \in Bank /\ trace \in Traces /\ stage = "loop" /\ phase = "verify" /\ Pace
      /\ hyps' = RaiseTop(hyps, 10) \/ hyps' = ContradictTop(hyps)
      /\ FinishPhase(trace)
  BY DEF Typed, TypeOK, Verify, RunsPhase, Paced, InLoop
<1>1. hyps' \in Bank /\ Live(hyps') = Live(hyps) /\ (Live(hyps) = {} => hyps' = hyps)
  <2>1. hyps' \in Bank
    BY <1>0, TopChangeTyped
  <2>2. Live(hyps') = Live(hyps)
    BY <1>0, TopChangeKeepsLive
  <2>3. Live(hyps) = {} => hyps' = hyps
    BY <1>0 DEF RaiseTop, ContradictTop
  <2> QED BY <2>1, <2>2, <2>3
<1>2. loopIndex >= 2 /\ loopIndex >= 1 /\ loopIndex > 0 /\ loopIndex # 1
  BY <1>0 DEF Pace, PaceIndex, Typed, TypeOK
<1>3. /\ saved' = saved /\ loopIndex' >= 2 /\ phase' = "repair"
      /\ Len(trace') <= 2
      /\ trace' # <<>> => IsMark(hyps', Latest(trace'))
      /\ PaceLatest'
      /\ Live(hyps) # {} => trace'[1] = Latest(trace) /\ Latest(trace) = Marker(hyps)
      /\ converged' =>
           /\ Live(hyps') # {}
           /\ \/ TopConfidence(hyps') >= 88
              \/ Marker(hyps') = Latest(trace)
              \/ Len(trace) = 2 /\ Marker(hyps') = trace[1]
  BY <1>0, <1>1, <1>2, AfterPhase, PhaseOrder
<1>4. \A i \in Live(hyps) : i \in DOMAIN hyps /\ hyps[i].conf \in 20..99
  BY <1>0, LiveAreHypotheses DEF Pace, PaceBank, Live
<1>5. ASSUME Live(hyps) # {}
      PROVE  /\ DOMAIN hyps' = DOMAIN hyps
             /\ \A i \in DOMAIN hyps : hyps'[i].id = hyps[i].id
             /\ \/ \A i \in DOMAIN hyps : hyps'[i].conf =
                     IF i = Top(hyps) THEN Raised(hyps[i].conf, 10) ELSE hyps[i].conf
                \/ \A i \in DOMAIN hyps : hyps'[i].conf =
                     IF i = Top(hyps) THEN Lowered(hyps[i].conf) ELSE hyps[i].conf
             /\ Top(hyps) \in Live(hyps)
             /\ Top(hyps') \in Live(hyps)
             /\ TopConfidence(hyps') = hyps'[Top(hyps')].conf
             /\ TopConfidence(hyps') \in 0..99
             /\ hyps'[Top(hyps)].conf <= TopConfidence(hyps')
  BY <1>0, <1>1, <1>5, TopChanges, TopExists, TopConfidenceBounds DEF TopConfidence, Confidence
<1>6. Live(hyps) # {} => TopConfidence(hyps') > 0
  <2> SUFFICES ASSUME Live(hyps) # {} PROVE TopConfidence(hyps') > 0
    OBVIOUS
  <2> DEFINE c == hyps[Top(hyps)].conf
  <2>1. c \in 34..99
    <3>1. TopConfidence(hyps) >= 34
      BY <1>0 DEF Pace, PaceBank
    <3>2. TopConfidence(hyps) = c
      BY DEF TopConfidence
    <3> QED BY <1>4, <1>5, <3>1, <3>2
  <2>2. hyps'[Top(hyps)].conf = Raised(c, 10) \/ hyps'[Top(hyps)].conf = Lowered(c)
    BY <1>4, <1>5
  <2> HIDE DEF c
  <2>3. Raised(c, 10) \in 1..99 /\ Lowered(c) \in 1..99
    BY <2>1 DEF Raised, Lowered
  <2>4. \A a \in 1..99, b \in 0..99 : a <= b => b > 0
    OBVIOUS
  <2> QED BY <1>5, <2>2, <2>3, <2>4
<1>7. Live(hyps) # {} => BeforeVerify(hyps', trace'[1])
  <2> SUFFICES ASSUME Live(hyps) # {} PROVE BeforeVerify(hyps', trace'[1])
    OBVIOUS
  <2>1. Top(hyps) \in DOMAIN hyps' /\ Top(hyps) \in DOMAIN hyps /\ hyps[Top(hyps)].conf \in 20..99
    BY <1>4, <1>5
  <2>2. /\ trace'[1] = <<hyps'[Top(hyps)].id, hyps[Top(hyps)].conf>>
        /\ \/ hyps'[Top(hyps)].conf = Raised(hyps[Top(hyps)].conf, 10)
           \/ hyps'[Top(hyps)].conf = Lowered(hyps[Top(hyps)].conf)
    BY <1>3, <1>5, <2>1 DEF Marker
  <2> QED BY <2>1, <2>2 DEF BeforeVerify
<1>8. Pace'
  <2>1. PaceIndex' /\ PaceBank'
    BY <1>3 DEF PaceIndex, PaceBank
  <2>2. Live(hyps') # {} => BeforeVerify(hyps, trace[1])'
    BY <1>1, <1>7 DEF BeforeVerify
  <2>3. PaceEarlier'
    BY <1>3, <2>2 DEF PaceEarlier
  <2> QED BY <1>3, <2>1, <2>3 DEF Pace
<1>9. AtRest
  <2> SUFFICES ASSUME converged', ~Repeats(hyps')
               PROVE  TopConfidence(hyps') >= 88 \/ (loopIndex > 0 /\ Marker(hyps') = Marker(hyps))
    BY DEF AtRest
  <2>0. Live(hyps) # {} /\ Live(hyps') # {}
    BY <1>1, <1>3
  <2>1. Marker(hyps') # ExploreMark
    <3>1. hyps'[Top(hyps')].conf # 0
      BY <1>5, <1>6, <2>0
    <3> QED BY <3>1 DEF Marker, ExploreMark
  <2>2. ASSUME Len(trace) = 2, Marker(hyps') = trace[1]
        PROVE  TopConfidence(hyps') >= 88
    <3>1. PICK j \in DOMAIN hyps, c \in 20..99 :
            trace[1] = <<hyps[j].id, c>> /\ hyps[j].conf = Raised(c, 14)
      BY <1>0, <2>0, <2>1, <2>2 DEF Pace, PaceEarlier, BeforeSolve
    <3>2. j \in DOMAIN hyps' /\ hyps[j].id = hyps'[j].id
      BY <1>5, <2>0
    <3>3. j = Top(hyps') /\ hyps'[j].conf = c
      BY <1>1, <2>0, <2>2, <3>1, <3>2, MarkNamesTop
    <3>4. \/ c = Raised(c, 14)
          \/ c = Raised(Raised(c, 14), 10)
          \/ c = Lowered(Raised(c, 14))
      BY <1>5, <2>0, <3>1, <3>3
    <3>5. c >= Raised(c, 14) \/ c = Lowered(Raised(c, 14))
      BY <3>4 DEF Raised
    <3>6. c >= 88
      BY <3>5, Numbers
    <3> QED BY <1>5, <2>0, <3>3, <3>6
  <2> QED BY <1>2, <1>3, <2>0, <2>2
<1> QED BY <1>3, <1>8, <1>9, PacedAgain

LEMMA RepairAtRest ==
  ASSUME Typed, Paced, Repair
  PROVE  Paced' /\ AtRest
<1>0. /\ hyps \in Bank /\ trace \in Traces /\ stage = "loop" /\ phase = "repair" /\ Pace
      /\ hyps' = RaiseTop(hyps, 8) \/ hyps' = hyps
      /\ FinishPhase(trace)
  BY DEF Typed, TypeOK, Repair, RunsPhase, Paced, InLoop
<1>1. hyps' \in Bank /\ Live(hyps') = Live(hyps) /\ (Live(hyps) = {} => hyps' = hyps)
  BY <1>0, TopChangeTyped, TopChangeKeepsLive DEF RaiseTop
<1>2. loopIndex >= 2 /\ loopIndex >= 1 /\ loopIndex > 0 /\ loopIndex # 1
  BY <1>0 DEF Pace, PaceIndex, Typed, TypeOK
<1>3. /\ saved' = saved /\ loopIndex' >= 2 /\ phase' = "synthesize"
      /\ Len(trace') <= 2
      /\ trace' # <<>> => IsMark(hyps', Latest(trace'))
      /\ PaceLatest'
      /\ Live(hyps) # {} => trace'[1] = Latest(trace) /\ Latest(trace) = Marker(hyps)
      /\ converged' =>
           /\ Live(hyps') # {}
           /\ \/ TopConfidence(hyps') >= 88
              \/ Marker(hyps') = Latest(trace)
              \/ Len(trace) = 2 /\ Marker(hyps') = trace[1]
  BY <1>0, <1>1, <1>2, AfterPhase, PhaseOrder
<1>4. Pace'
  BY <1>3 DEF Pace, PaceIndex, PaceBank, PaceEarlier
<1>5. AtRest
  <2> SUFFICES ASSUME converged', ~Repeats(hyps')
               PROVE  TopConfidence(hyps') >= 88 \/ (loopIndex > 0 /\ Marker(hyps') = Marker(hyps))
    BY DEF AtRest
  <2>0. Live(hyps) # {} /\ Live(hyps') # {}
    BY <1>1, <1>3
  <2>1. /\ DOMAIN hyps' = DOMAIN hyps
        /\ \A i \in DOMAIN hyps :
             /\ hyps'[i].id = hyps[i].id
             /\ hyps'[i].conf = hyps[i].conf \/ hyps'[i].conf = Raised(hyps[i].conf, 8)
    BY <1>0, <2>0, TopChanges
  <2>2. ASSUME Len(trace) = 2, Marker(hyps') = trace[1]
        PROVE  TopConfidence(hyps') >= 88
    <3>1. PICK j \in DOMAIN hyps, c \in 20..99 :
            /\ trace[1] = <<hyps[j].id, c>>
            /\ hyps[j].conf = Raised(c, 10) \/ hyps[j].conf = Lowered(c)
      BY <1>0, <2>0, <2>2 DEF Pace, PaceEarlier, BeforeVerify
    <3>2. j \in DOMAIN hyps' /\ hyps[j].id = hyps'[j].id
      BY <2>1
    <3>3. j = Top(hyps') /\ hyps'[j].conf = c
      BY <1>1, <2>0, <2>2, <3>1, <3>2, MarkNamesTop
    <3>4. \/ c = Raised(c, 10)
          \/ c = Raised(Raised(c, 10), 8)
          \/ c = Lowered(c)
          \/ c = Raised(Lowered(c), 8)
      BY <2>1, <3>1, <3>3
    <3>5. c >= Raised(c, 10) \/ c >= Raised(Raised(c, 10), 8)
      <4>1. Lowered(c) # c /\ Raised(Lowered(c), 8) # c
        BY Numbers
      <4>2. c = Raised(c, 10) \/ c = Raised(Raised(c, 10), 8)
        BY <3>4, <4>1
      <4> QED BY <4>2
    <3>6. c >= 88
      BY <3>5, Numbers
    <3>7. TopConfidence(hyps') = hyps'[j].conf
      BY <2>0, <3>3 DEF TopConfidence
    <3> QED BY <3>3, <3>6, <3>7
  <2> QED BY <1>2, <1>3, <2>0, <2>2
<1> QED BY <1>3, <1>4, <1>5, PacedAgain

LEMMA SynthesizeAtRest ==
  ASSUME Typed, Paced, Synthesize
  PROVE  Paced' /\ AtRest
<1>0. /\ hyps \in Bank /\ trace \in Traces /\ stage = "loop" /\ phase = "synthesize" /\ Pace
      /\ hyps' = hyps /\ Live(hyps) # {} /\ FinishPhase(trace)
  BY DEF Typed, TypeOK, Synthesize, RunsPhase, Paced, InLoop
<1>1. loopIndex >= 1 /\ loopIndex > 0
  BY <1>0 DEF Pace, PaceIndex, Typed, TypeOK
<1>2. hyps' \in Bank /\ Live(hyps') = Live(hyps) /\ Live(hyps') # {} /\ Marker(hyps') = Marker(hyps)
  BY <1>0
<1>3. /\ saved' = saved /\ loopIndex' >= 2 /\ phase' = "explore"
      /\ Len(trace') <= 2
      /\ trace' # <<>> => IsMark(hyps', Latest(trace'))
      /\ PaceLatest'
  BY <1>0, <1>1, <1>2, AfterPhase, PhaseOrder
<1>4. Live(hyps)' # {}
  BY <1>2 DEF Live
<1>5. Pace'
  BY <1>3, <1>4 DEF Pace, PaceIndex, PaceBank, PaceEarlier
<1>6. AtRest
  BY <1>1, <1>2 DEF AtRest
<1> QED BY <1>3, <1>5, <1>6, PacedAgain

LEMMA ExploreAtRest ==
  ASSUME Typed, Paced, Explore
  PROVE  Paced' /\ AtRest
<1> DEFINE log == LastTwo(Append(trace, ExploreMark))
<1>0. /\ hyps \in Bank /\ trace \in Traces /\ Len(trace) <= 2 /\ loopIndex \in Nat
      /\ stage = "loop" /\ phase = "explore" /\ Pace
      /\ FinishPhase(log)
  BY DEF Typed, TypeOK, Explore, RunsPhase, Paced, InLoop
<1>1. hyps' \in Bank
  BY <1>0, ExploreTyped
<1>2. /\ \A i \in DOMAIN hyps : i \in DOMAIN hyps' /\ hyps'[i].id = hyps[i].id
                                /\ hyps'[i].conf = hyps[i].conf
      /\ \A i \in Live(hyps') : hyps'[i].conf >= 20
  BY <1>0, ExploreLeaves
<1>3. /\ log \in Traces /\ log # <<>> /\ Len(log) <= 2 /\ Latest(log) = ExploreMark
      /\ trace # <<>> => Len(log) = 2 /\ log[1] = Latest(trace)
      /\ trace = <<>> => Len(log) = 1
  BY <1>0, MarksTyped, Pushed
<1> HIDE DEF log
<1>4. /\ Len(trace') <= 2
      /\ Live(hyps') = {} \/ loopIndex = 0 => trace' = log /\ converged' = FALSE
      /\ Live(hyps') # {} /\ loopIndex >= 1 =>
           trace' # <<>> /\ Latest(trace') = Marker(hyps') /\ trace'[1] = Latest(log)
      /\ converged' =>
           /\ Live(hyps') # {} /\ loopIndex >= 1
           /\ \/ TopConfidence(hyps') >= 88
              \/ Marker(hyps') = Latest(log)
              \/ Len(log) = 2 /\ Marker(hyps') = log[1]
  BY <1>0, <1>1, <1>3, Finished
<1>5. saved' = saved /\ loopIndex' = loopIndex + 1 /\ phase' = "solve"
  BY <1>0, PhaseOrder DEF FinishPhase
<1>6. loopIndex = 0 \/ (loopIndex >= 2 /\ Live(hyps) # {})
  BY <1>0 DEF Pace, PaceIndex
<1>7. IsMark(hyps', ExploreMark) /\ (trace # <<>> => IsMark(hyps', Latest(trace)))
  <2>1. trace # <<>> => IsMark(hyps, Latest(trace))
    BY DEF Paced
  <2>2. ASSUME NEW e, IsMark(hyps, e) PROVE IsMark(hyps', e)
    BY <1>2, <2>2, MarkStays
  <2> QED BY <2>1, <2>2 DEF IsMark
<1>8. CASE loopIndex = 0 \/ Live(hyps') = {}
  <2>1. trace' = log /\ ~converged'
    BY <1>4, <1>8
  <2>2. Latest(trace') = ExploreMark
    BY <1>3, <2>1 DEF Latest
  <2>3. Len(trace') = 2 => IsMark(hyps', trace'[1])
    <3>1. Len(trace') = 2 => trace # <<>>
      BY <1>3, <2>1
    <3> QED BY <1>3, <1>7, <2>1, <3>1
  <2>4. PaceIndex' /\ PaceEarlier'
    <3>1. IsMark(hyps, trace[1])' = IsMark(hyps', trace'[1])
      BY DEF IsMark
    <3>2. loopIndex' >= 1
      BY <1>0, <1>5
    <3> QED BY <1>5, <2>3, <3>1, <3>2 DEF PaceIndex, PaceEarlier
  <2>5. PaceLatest'
    <3>1. Latest(trace)' = Latest(trace') /\ Live(hyps)' = Live(hyps')
      BY DEF Latest, Live
    <3>2. trace' # <<>>
      BY <1>3, <2>1
    <3>3. loopIndex' >= 2 => Live(hyps') = {}
      BY <1>5, <1>8
    <3> QED BY <2>2, <3>1, <3>2, <3>3 DEF PaceLatest
  <2>6. PaceBank'
    BY <1>2, <1>5 DEF PaceBank, Live
  <2>7. Paced'
    BY <1>4, <1>5, <1>7, <2>2, <2>4, <2>5, <2>6, PacedAgain DEF Pace
  <2> QED BY <2>1, <2>7 DEF AtRest
<1>9. CASE loopIndex >= 2 /\ Live(hyps) # {} /\ Live(hyps') # {}
  <2>1. trace # <<>> /\ Latest(trace) = Marker(hyps)
    BY <1>0, <1>9 DEF Pace, PaceLatest
  <2>2. /\ trace' # <<>> /\ Latest(trace') = Marker(hyps') /\ trace'[1] = ExploreMark
        /\ loopIndex >= 1 /\ loopIndex > 0 /\ loopIndex' >= 2 /\ loopIndex' # 1
    BY <1>0, <1>3, <1>4, <1>5, <1>9
  <2>3. Top(hyps') \in Live(hyps') /\ Top(hyps') \in DOMAIN hyps'
    BY <1>1, <1>9, TopExists, TopIsHypothesis
  <2>4. IsMark(hyps', Latest(trace'))
    BY <2>2, <2>3 DEF IsMark, Marker
  <2>5. PaceIndex' /\ PaceBank'
    <3>1. loopIndex' >= 1
      BY <1>0, <1>5, <1>9
    <3> QED BY <1>2, <1>5, <3>1 DEF PaceIndex, PaceBank, Live
  <2>6. PaceLatest'
    <3>1. Latest(trace)' = Latest(trace') /\ Marker(hyps)' = Marker(hyps')
      BY DEF Latest, Marker
    <3> QED BY <2>2, <3>1 DEF PaceLatest
  <2>7. PaceEarlier'
    <3>1. IsMark(hyps, trace[1])' = IsMark(hyps', trace'[1])
      BY DEF IsMark
    <3> QED BY <1>5, <1>7, <2>2, <3>1 DEF PaceEarlier
  <2>8. Paced'
    BY <1>4, <1>5, <2>4, <2>5, <2>6, <2>7, PacedAgain DEF Pace
  <2>9. Marker(hyps') # ExploreMark
    <3>1. hyps'[Top(hyps')].conf # 0
      BY <1>2, <2>3
    <3> QED BY <3>1 DEF Marker, ExploreMark
  <2>10. AtRest
    BY <1>3, <1>4, <2>1, <2>2, <2>9 DEF AtRest
  <2> QED BY <2>8, <2>10
<1> QED BY <1>6, <1>8, <1>9

LEMMA PhaseAtRest ==
  ASSUME Typed, Paced, RunPhase
  PROVE  Paced' /\ AtRest
BY ExploreAtRest, SolveAtRest, VerifyAtRest, RepairAtRest, SynthesizeAtRest DEF RunPhase

LEMMA PacedStep ==
  ASSUME Typed, Untouched, Paced, [Next]_vars
  PROVE  Paced'
<1>1. ASSUME NEW q \in Queries, NEW d \in Drivers, NEW cap \in LoopCaps,
           Begin(q, d, cap) PROVE Paced'
  <2>1. /\ saved' = saved /\ hyps' = saved.hyps /\ trace' = saved.trace
        /\ stage' = "triage"
    BY <1>1 DEF Begin
  <2>2. Len(trace') <= 2 /\ (trace' # <<>> => IsMark(hyps', Latest(trace'))) /\ ~InLoop'
    BY <2>1 DEF Paced, InLoop
  <2> QED BY <2>1, <2>2, PacedAgain
<1>2. CASE Prelude
  <2>1. /\ hyps' = Append(hyps, Seed(query)) /\ trace' = trace /\ saved' = saved
        /\ loopIndex' = 0 /\ phase' = "explore" /\ hyps \in Bank /\ query \in Queries
    BY <1>2 DEF Prelude, Untouched, control, Typed, TypeOK
  <2>2. \A i \in DOMAIN hyps : i \in DOMAIN hyps' /\ hyps'[i].id = hyps[i].id
                               /\ hyps'[i].conf = hyps[i].conf
    BY <2>1, SeedsAreHypotheses, AppendKeeps
  <2>3. Len(trace') <= 2 /\ (trace' # <<>> => IsMark(hyps', Latest(trace')))
    <3>1. Len(trace) <= 2 /\ (trace # <<>> => IsMark(hyps, Latest(trace)))
      BY DEF Paced
    <3>2. IsMark(hyps, Latest(trace)) => IsMark(hyps', Latest(trace))
      BY <2>2, MarkStays
    <3> QED BY <2>1, <3>1, <3>2 DEF Latest
  <2>4. Pace'
    <3>1. ~(loopIndex' >= 2) /\ loopIndex' # 1
      BY <2>1
    <3> QED BY <2>1, <3>1 DEF Pace, PaceIndex, PaceLatest, PaceBank, PaceEarlier
  <2> QED BY <2>1, <2>3, <2>4, PacedAgain
<1>3. CASE RunPhase
  BY <1>3, PhaseAtRest
<1>4. CASE Put
  <2>1. /\ saved' = Snapshot /\ hyps' = hyps /\ trace' = trace /\ ~InLoop'
    BY <1>4 DEF Put, state, InLoop
  <2>2. saved'.hyps = hyps /\ saved'.trace = trace
    BY <2>1 DEF Snapshot
  <2>3. Latest(trace)' = Latest(trace) /\ Latest(saved.trace)' = Latest(trace)
    BY <2>1, <2>2 DEF Latest
  <2> QED BY <2>1, <2>2, <2>3 DEF Paced, IsMark
<1>5. CASE ~(Prelude \/ RunPhase \/ Put
             \/ \E q \in Queries, d \in Drivers, cap \in LoopCaps : Begin(q, d, cap))
  <2>1. /\ UNCHANGED <<saved, hyps, trace>>
        /\ InLoop' => InLoop /\ UNCHANGED <<phase, loopIndex>>
    BY <1>5 DEF Next, Work, Triage, StreamBreak, LoopNodeReturn, LoopRouter, Coda, CallFails,
                CollapseFails, Abandon, vars, state, control, InLoop
  <2>2. Latest(trace)' = Latest(trace)
    BY <2>1 DEF Latest
  <2>3. InLoop' => Pace'
    <3> SUFFICES ASSUME InLoop' PROVE Pace'
      OBVIOUS
    <3>1. Pace /\ UNCHANGED <<hyps, trace, phase, loopIndex>>
      BY <2>1 DEF Paced
    <3> QED BY ZenonT(60), <3>1 DEF Pace, PaceIndex, PaceLatest, PaceBank, PaceEarlier, Latest, Marker,
                        IsMark, BeforeSolve, BeforeVerify, Live, TopConfidence
  <2>4. Len(trace') <= 2 /\ (trace' # <<>> => IsMark(hyps', Latest(trace')))
    BY <2>1 DEF Paced, Latest
  <2> QED BY <2>1, <2>3, <2>4, PacedAgain
<1> QED BY <1>1, <1>2, <1>3, <1>4, <1>5

\* The number of phases run changes only where a phase runs.
LEMMA OnlyPhasesConverge ==
  ASSUME Typed, Untouched, Paced, [Next]_vars, converged', loopIndex' = loopIndex + 1
  PROVE  AtRest
<1>1. RunPhase \/ UNCHANGED loopIndex \/ ~converged'
  BY DEF Next, Work, Begin, Triage, Prelude, StreamBreak, LoopNodeReturn, LoopRouter, Coda,
         Put, CallFails, CollapseFails, Abandon, vars, control
<1>2. loopIndex + 1 # loopIndex
  BY DEF Typed, TypeOK
<1> QED BY <1>1, <1>2, PhaseAtRest

\* A phase converges on 0.88 or on having left the top as it was, for every history,
\* judge, cap on the loops and threshold: no entry that earlier phases or requests left
\* in the trace equals the mark of a phase that changed the top hypothesis.
THEOREM RestConverges == Spec => ConvergesAtRest
<1>1. Init => Untouched /\ Paced
  <2> SUFFICES ASSUME Init PROVE Untouched /\ Paced
    OBVIOUS
  <2>1. /\ saved.trace = <<>> /\ trace = <<>> /\ stage = "idle"
        /\ Len(trace) = 0 /\ Len(saved.trace) = 0
    BY EmptySeq DEF Init
  <2> QED BY <2>1 DEF Untouched, Paced, InLoop
<1>2. ASSUME Typed, Untouched, Paced, [Next]_vars
      PROVE  converged' /\ loopIndex' = loopIndex + 1 =>
               \/ TopConfidence(hyps') >= 88
               \/ loopIndex > 0 /\ Marker(hyps') = Marker(hyps)
               \/ \E i, j \in DOMAIN hyps' : i # j /\ hyps'[i].id = hyps'[j].id
  BY <1>2, OnlyPhasesConverge DEF AtRest, Repeats
<1> QED BY <1>1, <1>2, TypedInit, TypedStep, UntouchedStep, PacedStep, PTL DEF Spec, ConvergesAtRest

-----------------------------------------------------------------------------
(* The confident winner.  Only the top is raised, and it stays the top until *)
(* it fails a verdict or a new hypothesis overtakes it: a hypothesis that is *)
(* not the top is as weak as a new one or has failed.  No verdict is asked   *)
(* for once the loop could stop, so that a failed one is at Ceiling - 26.    *)

Ceiling == IF Threshold > 88 THEN Threshold ELSE 88

Faded(hs) ==
  \A i \in Live(hs) : i # Top(hs) =>
     hs[i].conf <= Ceiling - 26 /\ (hs[i].contras = 0 => hs[i].conf <= 42)

\* Three contradictions mean that the last verdict was a failure.
Worn(hs, b) == \A i \in Live(hs) : hs[i].contras >= 3 => hs[i].conf <= b

Fading ==
  /\ Faded(hyps) /\ Faded(saved.hyps)
  /\ Worn(hyps, Ceiling - 18) /\ Worn(saved.hyps, Ceiling - 18)
  /\ InLoop /\ phase = "repair" => Worn(hyps, Ceiling - 26)
  /\ InLoop /\ phase \in {"solve", "verify"} => \A i \in Live(hyps) : hyps[i].contras < 3
  /\ InLoop /\ phase = "verify" /\ TopConfidence(hyps) >= 88 => converged
  /\ stage = "gate" => Live(hyps) # {} /\ winner = Winner(hyps)

LEMMA CeilingBounds == Ceiling \in 88..100 /\ Threshold <= Ceiling
BY LoopAssumption DEF Ceiling

\* Whoever leads all the others is the top.
LEMMA TopIsUnique ==
  ASSUME NEW hs \in Bank, NEW i \in Live(hs), \A j \in Live(hs) : Leads(hs, i, j)
  PROVE  Top(hs) = i
<1>1. Top(hs) \in Live(hs) /\ Leads(hs, Top(hs), i) /\ Leads(hs, i, Top(hs))
  BY TopExists
<1>2. Live(hs) \in SUBSET Nat /\ \A j \in Live(hs) : hs[j].conf \in 0..99
  BY LiveAreHypotheses DEF Live
<1>3. \A a, b \in 0..99, m, n \in Nat :
        (a > b \/ (a = b /\ m <= n)) /\ (b > a \/ (b = a /\ n <= m)) => m = n
  OBVIOUS
<1>4. Top(hs) \in Nat /\ i \in Nat /\ hs[Top(hs)].conf \in 0..99 /\ hs[i].conf \in 0..99
  BY <1>1, <1>2
<1> QED BY <1>1, <1>3, <1>4, Zenon DEF Leads

\* A new hypothesis that is no stronger than a seed.
LEMMA AppendFades ==
  ASSUME NEW hs \in Bank, Faded(hs), NEW b, Worn(hs, b),
         NEW h \in Hypothesis, h.alive, h.conf <= 42, h.contras = 0
  PROVE  Faded(Append(hs, h)) /\ Worn(Append(hs, h), b)
<1> DEFINE hn == Append(hs, h)
           n == Len(hs) + 1
<1>1. /\ hn \in Bank /\ hn[n] = h /\ DOMAIN hn = DOMAIN hs \cup {n}
      /\ \A i \in DOMAIN hs : i \in DOMAIN hn /\ hn[i] = hs[i]
  BY AppendKeeps
<1> HIDE DEF hn, n
<1>2. Live(hn) = Live(hs) \cup {n} /\ \A i \in Live(hs) : hn[i] = hs[i]
  BY <1>1 DEF Live
<1>3. \A i \in Live(hn) : hn[i].conf \in 0..99
  BY <1>1, LiveAreHypotheses DEF Live
<1>4. Top(hn) \in Live(hn) /\ \A j \in Live(hn) : Leads(hn, Top(hn), j)
  BY <1>1, <1>2, TopExists
<1>5. ASSUME NEW i \in Live(hn), i # Top(hn)
      PROVE  hn[i].conf <= Ceiling - 26 /\ (hn[i].contras = 0 => hn[i].conf <= 42)
  <2>1. hn[i].conf <= 42 => hn[i].conf <= Ceiling - 26
    BY <1>3, CeilingBounds
  <2>2. CASE i = n
    BY <1>1, <2>1, <2>2
  <2>3. CASE i \in Live(hs) /\ i # Top(hs)
    BY <1>2, <2>3 DEF Faded
  <2>4. CASE i \in Live(hs) /\ i = Top(hs) /\ Top(hn) \in Live(hs)
    <3>1. \A j \in Live(hs) : Leads(hs, Top(hn), j)
      BY <1>2, <1>4, <2>4 DEF Leads
    <3>2. Top(hs) = Top(hn)
      BY <2>4, <3>1, TopIsUnique
    <3> QED BY <1>5, <2>4, <3>2
  <2>5. CASE Top(hn) = n
    <3>1. hn[n].conf > hn[i].conf \/ hn[n].conf = hn[i].conf
      BY <1>4, <2>5 DEF Leads
    <3>2. \A a, c \in 0..99 : (a > c \/ a = c) /\ a <= 42 => c <= 42
      OBVIOUS
    <3>3. hn[n].conf \in 0..99 /\ hn[i].conf \in 0..99 /\ hn[n].conf <= 42
      BY <1>1, <1>2, <1>3
    <3>4. hn[i].conf <= 42
      BY <3>1, <3>2, <3>3, Zenon
    <3> QED BY <2>1, <3>4
  <2> QED BY <1>2, <1>4, <2>2, <2>3, <2>4, <2>5
<1>6. ASSUME NEW i \in Live(hn), hn[i].contras >= 3 PROVE hn[i].conf <= b
  <2>1. i # n
    BY <1>1, <1>6
  <2> QED BY <1>2, <1>6, <2>1 DEF Worn
<1>7. Faded(hn)
  BY <1>5 DEF Faded
<1>8. Worn(hn, b)
  BY <1>6 DEF Worn
<1> QED BY <1>7, <1>8 DEF hn

\* Pruning kills the top or leaves it the top.
LEMMA PruneFades ==
  ASSUME NEW hs \in Bank, Faded(hs)
  PROVE  /\ Faded(Prune(hs))
         /\ \A i \in Live(Prune(hs)) : Prune(hs)[i].contras < 3
<1> DEFINE hn == Prune(hs)
<1>1. /\ hn \in Bank /\ DOMAIN hn = DOMAIN hs
      /\ \A i \in DOMAIN hs : /\ hn[i].conf = hs[i].conf /\ hn[i].contras = hs[i].contras
                              /\ hn[i].alive <=> hs[i].alive /\ ~Weak(hs[i])
  BY PruneKeeps
<1> HIDE DEF hn
<1>2. \A i \in Live(hn) : /\ i \in Live(hs) /\ i \in DOMAIN hs /\ ~Weak(hs[i])
                          /\ hn[i].conf = hs[i].conf /\ hn[i].contras = hs[i].contras
  BY <1>1 DEF Live
<1>3. ASSUME NEW i \in Live(hn), i # Top(hn) PROVE i # Top(hs)
  <2> SUFFICES ASSUME i = Top(hs) PROVE FALSE
    OBVIOUS
  <2>1. \A j \in Live(hs) : Leads(hs, i, j)
    BY <1>2, TopExists
  <2>2. \A j \in Live(hn) : Leads(hn, i, j)
    BY <1>2, <2>1 DEF Leads
  <2>3. Top(hn) = i
    BY <1>1, <2>2, TopIsUnique
  <2> QED BY <1>3, <2>3
<1>4. Faded(hn)
  BY <1>2, <1>3 DEF Faded
<1>5. ASSUME NEW i \in Live(hn) PROVE hn[i].contras < 3
  <2>1. hs[i].contras \in Nat /\ ~(hs[i].contras >= 3) /\ hn[i].contras = hs[i].contras
    BY <1>2, LiveAreHypotheses DEF Weak
  <2> QED BY <2>1
<1> QED BY <1>4, <1>5 DEF hn

LEMMA LeadGrows ==
  ASSUME NEW a \in Int, NEW b \in Int, NEW c \in Int, NEW p \in Int, NEW q \in Int,
         a > b \/ (a = b /\ p <= q), c >= a
  PROVE  c > b \/ (c = b /\ p <= q)
OBVIOUS

LEMMA SumBounds ==
  ASSUME NEW x \in Int, NEW y \in Int, NEW m \in Int, NEW c \in Int, x <= c, y <= x + m
  PROVE  y <= c + m
OBVIOUS

\* The top is raised.
LEMMA RaiseFades ==
  ASSUME NEW hs \in Bank, Faded(hs), NEW n \in 1..99
  PROVE  /\ Faded(RaiseTop(hs, n))
         /\ \A b \in Int : Worn(hs, b) => Worn(RaiseTop(hs, n), b + n)
         /\ (\A i \in Live(hs) : hs[i].contras < 3) =>
              \A i \in Live(RaiseTop(hs, n)) : RaiseTop(hs, n)[i].contras < 3
<1> DEFINE hn == RaiseTop(hs, n)
<1>0. CASE Live(hs) = {}
  BY <1>0 DEF RaiseTop, Worn
<1>1. CASE Live(hs) # {}
  <2> DEFINE t == Top(hs)
  <2>1. t \in DOMAIN hs /\ hs[t] \in Hypothesis /\ t \in Live(hs)
    BY <1>1, TopIsHypothesis, TopExists
  <2>2. hn \in Bank /\ Live(hn) = Live(hs)
    BY TopChangeTyped, TopChangeKeepsLive
  <2>3. \A i \in Live(hs) : /\ hs[i].conf \in 0..99 /\ hs[i].contras \in Nat /\ i \in Nat
                            /\ i \in DOMAIN hs
    BY LiveAreHypotheses DEF Live
  <2>4. hn = [hs EXCEPT ![t] = Raise(hs[t], n)]
    BY <1>1 DEF RaiseTop
  <2>5. /\ Raise(hs[t], n).contras = hs[t].contras
        /\ Raise(hs[t], n).conf = IF hs[t].conf + n > 99 THEN 99 ELSE hs[t].conf + n
    BY <2>1, ChangesAreHypotheses
  <2>6. \A j \in Live(hs) : Leads(hs, t, j)
    BY <1>1, TopExists
  <2> HIDE DEF hn, t
  <2>7. \A i \in Live(hs) : /\ hn[i].contras = hs[i].contras
                            /\ i # t => hn[i].conf = hs[i].conf
    BY <2>1, <2>3, <2>4, <2>5
  <2>8. hn[t].conf >= hs[t].conf /\ hn[t].conf <= hs[t].conf + n /\ hn[t].conf \in 0..99
    BY <2>1, <2>3, <2>4, <2>5
  <2>9. ASSUME NEW j \in Live(hs) PROVE Leads(hn, t, j)
    <3>1. CASE j = t
      BY <2>3, <3>1 DEF Leads
    <3>2. CASE j # t
      <4>1. hs[t].conf > hs[j].conf \/ (hs[t].conf = hs[j].conf /\ t <= j)
        BY <2>6 DEF Leads
      <4>3. hs[t].conf \in 0..99 /\ hs[j].conf \in 0..99 /\ t \in Nat /\ j \in Nat
        BY <2>1, <2>3
      <4>4. hn[t].conf > hs[j].conf \/ (hn[t].conf = hs[j].conf /\ t <= j)
        <5>1. /\ hn[t].conf \in Int /\ hs[t].conf \in Int /\ hs[j].conf \in Int
              /\ t \in Int /\ j \in Int /\ hn[t].conf >= hs[t].conf
          BY <2>8, <4>3
        <5> QED BY <4>1, <5>1, LeadGrows
      <4> QED BY <2>7, <3>2, <4>4 DEF Leads
    <3> QED BY <3>1, <3>2
  <2>10. Top(hn) = t
    BY <2>1, <2>2, <2>9, TopIsUnique
  <2>11. Faded(hn)
    BY <2>2, <2>7, <2>10 DEF Faded, t
  <2>12. ASSUME NEW b \in Int, Worn(hs, b) PROVE Worn(hn, b + n)
    <3> SUFFICES ASSUME NEW i \in Live(hn), hn[i].contras >= 3 PROVE hn[i].conf <= b + n
      BY DEF Worn
    <3>1. hs[i].conf <= b /\ hs[i].conf \in 0..99 /\ i \in Live(hs)
      BY <2>2, <2>3, <2>7, <2>12 DEF Worn
    <3>2. hn[i].conf <= hs[i].conf + n /\ hn[i].conf \in 0..99
      <4>1. CASE i = t
        BY <2>8, <4>1
      <4>2. CASE i # t
        BY <2>7, <3>1, <4>2
      <4> QED BY <4>1, <4>2
    <3>3. hs[i].conf \in Int /\ hn[i].conf \in Int /\ n \in Int /\ b \in Int
      BY <2>12, <3>1, <3>2
    <3>4. hs[i].conf <= b /\ hn[i].conf <= hs[i].conf + n
      BY <3>1, <3>2
    <3> QED BY <3>3, <3>4, SumBounds
  <2> QED BY <2>2, <2>7, <2>11, <2>12 DEF hn
<1> QED BY <1>0, <1>1

LEMMA LoweredBelow ==
  ASSUME NEW c \in Int, NEW m \in Int, m >= 88, c < m
  PROVE  (IF c < 25 THEN 0 ELSE c - 25) <= m - 26
OBVIOUS

\* The top fails a verdict that was asked for below the ceiling.
LEMMA ContradictFades ==
  ASSUME NEW hs \in Bank, Faded(hs), TopConfidence(hs) < Ceiling,
         \A i \in Live(hs) : hs[i].contras < 3
  PROVE  Faded(ContradictTop(hs)) /\ Worn(ContradictTop(hs), Ceiling - 26)
<1> DEFINE hn == ContradictTop(hs)
<1>0. CASE Live(hs) = {}
  BY <1>0 DEF ContradictTop, Worn
<1>1. CASE Live(hs) # {}
  <2> DEFINE t == Top(hs)
  <2>1. t \in DOMAIN hs /\ t \in Live(hs) /\ hs[t] \in Hypothesis /\ hs[t].conf < Ceiling
    BY <1>1, TopIsHypothesis, TopExists DEF TopConfidence
  <2>2. hn \in Bank /\ Live(hn) = Live(hs)
    BY TopChangeTyped, TopChangeKeepsLive
  <2>3. \A i \in Live(hs) : /\ hs[i].conf \in 0..99 /\ hs[i].contras \in Nat
                            /\ i \in DOMAIN hs
    BY LiveAreHypotheses DEF Live
  <2>4. hn = [hs EXCEPT ![t] = Contradict(hs[t])]
    BY <1>1 DEF ContradictTop
  <2>5. /\ Contradict(hs[t]).contras = hs[t].contras + 1
        /\ Contradict(hs[t]).conf = IF hs[t].conf < 25 THEN 0 ELSE hs[t].conf - 25
    BY <2>1, ChangesAreHypotheses
  <2> HIDE DEF hn
  <2>6. \A i \in Live(hs) : i # t => hn[i] = hs[i]
    BY <2>3, <2>4
  <2>7. /\ hn[t].contras = hs[t].contras + 1
        /\ hn[t].conf = IF hs[t].conf < 25 THEN 0 ELSE hs[t].conf - 25
    BY <2>1, <2>4, <2>5
  <2>8. hn[t].contras # 0 /\ hn[t].conf <= Ceiling - 26
    <3>1. hs[t].conf \in 0..99 /\ hs[t].contras \in Nat
      BY <2>1, <2>3
    <3>2. Ceiling \in Int /\ Ceiling >= 88 /\ hs[t].conf \in Int /\ hs[t].conf < Ceiling
      BY <2>1, <3>1, CeilingBounds
    <3>3. hn[t].conf <= Ceiling - 26
      BY <2>7, <3>2, LoweredBelow
    <3> QED BY <2>7, <3>1, <3>3
  <2>9. \A i \in Live(hs) : i # t => ~(hn[i].contras >= 3)
    BY <2>3, <2>6
  <2>10. Faded(hn)
    <3> SUFFICES ASSUME NEW i \in Live(hs), i # Top(hn)
                 PROVE  hn[i].conf <= Ceiling - 26 /\ (hn[i].contras = 0 => hn[i].conf <= 42)
      BY <2>2 DEF Faded
    <3>1. CASE i = t
      BY <2>8, <3>1
    <3>2. CASE i # t
      BY <2>6, <3>2 DEF Faded
    <3> QED BY <3>1, <3>2
  <2>11. Worn(hn, Ceiling - 26)
    BY <2>2, <2>8, <2>9 DEF Worn
  <2> QED BY <2>10, <2>11 DEF hn
<1> QED BY <1>0, <1>1

\* What prune leaves is not worn, whatever it was told before.
LEMMA FreshIsNotWorn ==
  ASSUME NEW hs \in Bank, \A i \in Live(hs) : hs[i].contras < 3, NEW b
  PROVE  Worn(hs, b)
<1>1. \A i \in Live(hs) : hs[i].contras \in Nat
  BY LiveAreHypotheses DEF Live
<1> QED BY <1>1 DEF Worn

LEMMA WornMore ==
  ASSUME NEW hs \in Bank, NEW a \in Int, NEW b \in Int, a <= b, Worn(hs, a)
  PROVE  Worn(hs, b)
<1> SUFFICES ASSUME NEW i \in Live(hs), hs[i].contras >= 3 PROVE hs[i].conf <= b
  BY DEF Worn
<1>1. hs[i].conf \in Int /\ hs[i].conf <= a
  BY LiveAreHypotheses DEF Worn, Live
<1> QED BY <1>1

LEMMA FadingAgain ==
  ASSUME Fading, saved' = saved, Faded(hyps'), Worn(hyps', Ceiling - 18),
         InLoop' /\ phase' = "repair" => Worn(hyps', Ceiling - 26),
         InLoop' /\ phase' \in {"solve", "verify"} => \A i \in Live(hyps') : hyps'[i].contras < 3,
         InLoop' /\ phase' = "verify" /\ TopConfidence(hyps') >= 88 => converged',
         stage' = "gate" => Live(hyps') # {} /\ winner' = Winner(hyps')
  PROVE  Fading'
<1>1. /\ Faded(hyps)' = Faded(hyps') /\ Faded(saved.hyps)' = Faded(saved'.hyps)
      /\ Ceiling' = Ceiling
  BY DEF Faded, Ceiling
<1>2. /\ Worn(hyps, Ceiling - 18)' = Worn(hyps', Ceiling - 18)
      /\ Worn(hyps, Ceiling - 26)' = Worn(hyps', Ceiling - 26)
      /\ Worn(saved.hyps, Ceiling - 18)' = Worn(saved'.hyps, Ceiling - 18)
  BY <1>1 DEF Worn
<1>3. /\ Live(hyps)' = Live(hyps') /\ TopConfidence(hyps)' = TopConfidence(hyps')
      /\ Winner(hyps)' = Winner(hyps')
  BY DEF Live, TopConfidence, Winner
<1>4. Faded(saved'.hyps) /\ Worn(saved'.hyps, Ceiling - 18)
  BY DEF Fading
<1> QED BY <1>1, <1>2, <1>3, <1>4 DEF Fading

LEMMA PhaseFades ==
  ASSUME Typed, Paced, Fading, RunPhase
  PROVE  Fading'
<1>0. /\ hyps \in Bank /\ loopIndex \in Nat /\ stage = "loop" /\ stage' # "gate" /\ InLoop /\ Pace
      /\ HaltNow = ""
  BY RunPhaseBelowCap
     DEF Typed, TypeOK, Paced, InLoop, RunPhase, Explore, Solve, Verify, Repair, Synthesize,
         RunsPhase
<1>1. saved' = saved /\ phase' = NextPhase
  BY DEF RunPhase, Explore, Solve, Verify, Repair, Synthesize, FinishPhase
<1>2. Faded(hyps) /\ Worn(hyps, Ceiling - 18)
  BY DEF Fading
<1>3. Ceiling - 18 \in Int /\ Ceiling - 26 \in Int /\ Ceiling - 26 <= Ceiling - 18
      /\ (Ceiling - 26) + 8 = Ceiling - 18
  BY CeilingBounds
<1>4. 14 \in 1..99 /\ 10 \in 1..99 /\ 8 \in 1..99
  OBVIOUS
<1>5. CASE Explore
  <2>1. phase' = "solve"
    BY <1>1, <1>5, PhaseOrder DEF Explore, RunsPhase
  <2>2. PICK hs \in Bank : Faded(hs) /\ hyps' = Prune(hs)
    <3>1. CASE ~WillBranch(hyps, contradicted)
      BY <1>0, <1>2, <1>5, <3>1 DEF Explore
    <3>2. CASE WillBranch(hyps, contradicted)
      <4>1. PICK a \in Alternatives : hyps' = Prune(Append(hyps, Alternative(a)))
        BY <1>5, <3>2 DEF Explore
      <4>2. /\ Alternative(a) \in Hypothesis /\ Alternative(a).alive
            /\ Alternative(a).conf <= 42 /\ Alternative(a).contras = 0
        BY SeedsAreHypotheses DEF Alternative
      <4>3. Append(hyps, Alternative(a)) \in Bank /\ Faded(Append(hyps, Alternative(a)))
        BY <1>0, <1>2, <4>2, AppendFades, AppendKeeps
      <4> QED BY <4>1, <4>3
    <3> QED BY <3>1, <3>2
  <2>3. /\ hyps' \in Bank /\ Faded(hyps')
        /\ \A i \in Live(hyps') : hyps'[i].contras < 3
    BY <2>2, PruneFades, PruneKeeps
  <2>4. Worn(hyps', Ceiling - 18)
    BY <2>3, FreshIsNotWorn
  <2> QED BY <1>0, <1>1, <2>1, <2>3, <2>4, FadingAgain
<1>6. CASE Solve
  <2>1. /\ phase' = "verify" /\ hyps' = RaiseTop(hyps, 14) /\ FinishPhase(trace)
        /\ phase = "solve"
    BY <1>1, <1>6, PhaseOrder DEF Solve, RunsPhase
  <2>2. \A i \in Live(hyps) : hyps[i].contras < 3
    BY <1>0, <2>1 DEF Fading
  <2>3. /\ hyps' \in Bank /\ Faded(hyps')
        /\ \A i \in Live(hyps') : hyps'[i].contras < 3
    BY <1>0, <1>2, <1>4, <2>1, <2>2, RaiseFades, TopChangeTyped
  <2>4. Worn(hyps', Ceiling - 18)
    BY <2>3, FreshIsNotWorn
  <2>5. TopConfidence(hyps') >= 88 => converged'
    <3> SUFFICES ASSUME TopConfidence(hyps') >= 88 PROVE converged'
      OBVIOUS
    <3>1. Live(hyps') # {}
      BY DEF TopConfidence
    <3>2. Settled(loopIndex')
      <4>1. loopIndex >= 1 /\ loopIndex' = loopIndex + 1 /\ loopIndex \in Nat
        BY <1>0, <2>1 DEF Pace, PaceIndex, FinishPhase
      <4>2. loopIndex' >= 2
        BY <4>1
      <4> QED BY <4>2 DEF Settled
    <3> QED BY <2>1, <3>1, <3>2 DEF FinishPhase
  <2> QED BY <1>0, <1>1, <2>1, <2>3, <2>4, <2>5, FadingAgain
<1>7. ASSUME NEW passed \in BOOLEAN, Verify(passed) PROVE Fading'
  <2>1. phase' = "repair" /\ phase = "verify"
    BY <1>1, <1>7, PhaseOrder DEF Verify, RunsPhase
  <2>2. \A i \in Live(hyps) : hyps[i].contras < 3
    BY <1>0, <2>1 DEF Fading
  <2>3. TopConfidence(hyps) < Ceiling
    <3>1. ~(converged /\ TopConfidence(hyps) >= Threshold)
      BY <1>0 DEF HaltNow, Halt
    <3>2. TopConfidence(hyps) >= 88 => converged
      BY <1>0, <2>1 DEF Fading
    <3>3. ~(TopConfidence(hyps) >= 88 /\ TopConfidence(hyps) >= Threshold)
      BY <3>1, <3>2
    <3>4. TopConfidence(hyps) \in 0..99 /\ Threshold \in 0..100
      BY <1>0, LoopAssumption, TopConfidenceType DEF Confidence
    <3> QED BY <3>3, <3>4 DEF Ceiling
  <2>4. hyps' \in Bank /\ Faded(hyps') /\ Worn(hyps', Ceiling - 26)
    <3>1. CASE passed
      <4>1. hyps' = RaiseTop(hyps, 10)
        BY <1>7, <3>1 DEF Verify
      <4>2. /\ hyps' \in Bank /\ Faded(hyps')
            /\ \A i \in Live(hyps') : hyps'[i].contras < 3
        BY <1>0, <1>2, <1>4, <2>2, <4>1, RaiseFades, TopChangeTyped
      <4> QED BY <4>2, FreshIsNotWorn
    <3>2. CASE ~passed
      <4>1. hyps' = ContradictTop(hyps)
        BY <1>7, <3>2 DEF Verify
      <4> QED BY <1>0, <1>2, <2>2, <2>3, <4>1, ContradictFades, TopChangeTyped
    <3> QED BY <3>1, <3>2
  <2>5. Worn(hyps', Ceiling - 18)
    BY <1>3, <2>4, WornMore
  <2> QED BY <1>0, <1>1, <2>1, <2>4, <2>5, FadingAgain
<1>8. CASE Repair
  <2>1. /\ phase' = "synthesize" /\ phase = "repair"
        /\ hyps' = RaiseTop(hyps, 8) \/ hyps' = hyps
    BY <1>1, <1>8, PhaseOrder DEF Repair, RunsPhase
  <2>2. Worn(hyps, Ceiling - 26)
    BY <1>0, <2>1 DEF Fading
  <2>3. Faded(hyps') /\ Worn(hyps', Ceiling - 18)
    <3>1. CASE hyps' = hyps
      BY <1>2, <3>1
    <3>2. CASE hyps' = RaiseTop(hyps, 8)
      <4>1. Worn(hyps', (Ceiling - 26) + 8)
        BY <1>0, <1>2, <1>3, <1>4, <2>2, <3>2, RaiseFades
      <4> QED BY <1>0, <1>2, <1>3, <1>4, <3>2, <4>1, RaiseFades
    <3> QED BY <2>1, <3>1, <3>2
  <2> QED BY <1>0, <1>1, <2>1, <2>3, FadingAgain
<1>9. CASE Synthesize
  <2>1. phase' = "explore" /\ hyps' = hyps
    BY <1>1, <1>9, PhaseOrder DEF Synthesize, RunsPhase
  <2> QED BY <1>0, <1>1, <1>2, <2>1, FadingAgain
<1> QED BY <1>5, <1>6, <1>7, <1>8, <1>9 DEF RunPhase

LEMMA FadingStep ==
  ASSUME Typed, Untouched, Paced, Fading, [Next]_vars
  PROVE  Fading'
<1>0. hyps \in Bank /\ query \in Queries
  BY DEF Typed, TypeOK
<1>1. ASSUME NEW q \in Queries, NEW d \in Drivers, NEW cap \in LoopCaps,
           Begin(q, d, cap) PROVE Fading'
  <2>1. saved' = saved /\ hyps' = saved.hyps /\ ~InLoop' /\ stage' # "gate"
    BY <1>1 DEF Begin, InLoop
  <2>2. Faded(hyps') /\ Worn(hyps', Ceiling - 18)
    BY <2>1 DEF Fading
  <2> QED BY <2>1, <2>2, FadingAgain
<1>2. CASE Prelude
  <2>1. /\ hyps' = Append(hyps, Seed(query)) /\ saved' = saved /\ phase' = "explore"
        /\ stage' = "loop"
    BY <1>2 DEF Prelude, Untouched, control
  <2>2. /\ Seed(query) \in Hypothesis /\ Seed(query).alive
        /\ Seed(query).conf <= 42 /\ Seed(query).contras = 0
    BY <1>0, SeedsAreHypotheses DEF Seed
  <2>3. Faded(hyps') /\ Worn(hyps', Ceiling - 18)
    BY <1>0, <2>1, <2>2, AppendFades DEF Fading
  <2> QED BY <2>1, <2>3, FadingAgain
<1>3. CASE RunPhase
  BY <1>3, PhaseFades
<1>4. CASE Put
  <2>1. saved' = Snapshot /\ hyps' = hyps /\ ~InLoop' /\ stage' # "gate"
    BY <1>4 DEF Put, state, InLoop
  <2>2. saved'.hyps = hyps
    BY <2>1 DEF Snapshot
  <2> QED BY <2>1, <2>2 DEF Fading, Faded, Worn, Ceiling
<1>5. CASE Coda
  <2>1. UNCHANGED <<saved, hyps, phase, converged>> /\ InLoop
        /\ Live(hyps) # {} /\ winner' = Winner(hyps)
    BY <1>5 DEF Coda, state, InLoop
  <2>2. Faded(hyps') /\ Worn(hyps', Ceiling - 18) /\ Live(hyps') # {} /\ winner' = Winner(hyps')
    BY <2>1 DEF Fading
  <2>3. /\ InLoop' /\ phase' = "repair" => Worn(hyps', Ceiling - 26)
        /\ InLoop' /\ phase' \in {"solve", "verify"} => \A i \in Live(hyps') : hyps'[i].contras < 3
        /\ InLoop' /\ phase' = "verify" /\ TopConfidence(hyps') >= 88 => converged'
    BY <2>1 DEF Fading
  <2> QED BY <2>1, <2>2, <2>3, FadingAgain
<1>6. CASE ~(Prelude \/ RunPhase \/ Put \/ Coda
             \/ \E q \in Queries, d \in Drivers, cap \in LoopCaps : Begin(q, d, cap))
  <2>1. /\ UNCHANGED <<saved, hyps>>
        /\ InLoop' => InLoop /\ UNCHANGED <<phase, converged>>
        /\ stage' = "gate" => stage = "gate" /\ winner' = winner
    BY <1>6 DEF Next, Work, Triage, StreamBreak, LoopNodeReturn, LoopRouter, CallFails,
                CollapseFails, Abandon, vars, state, control, InLoop
  <2>2. /\ Faded(hyps') /\ Worn(hyps', Ceiling - 18)
        /\ stage' = "gate" => Live(hyps') # {} /\ winner' = Winner(hyps')
    BY <2>1 DEF Fading
  <2>3. /\ InLoop' /\ phase' = "repair" => Worn(hyps', Ceiling - 26)
        /\ InLoop' /\ phase' \in {"solve", "verify"} => \A i \in Live(hyps') : hyps'[i].contras < 3
        /\ InLoop' /\ phase' = "verify" /\ TopConfidence(hyps') >= 88 => converged'
    BY <2>1 DEF Fading
  <2> QED BY <2>1, <2>2, <2>3, FadingAgain
<1> QED BY <1>1, <1>2, <1>3, <1>4, <1>5, <1>6

\* One contradiction or more take a tenth of the confidence or more.
LEMMA ScoreFades ==
  ASSUME NEW c \in 0..99, NEW n \in Nat
  PROVE  /\ n >= 1 => c * (10 - n) <= 9 * c
         /\ n <= 2 => c * (10 - n) >= 8 * c
<1>1. ASSUME n >= 1 PROVE c * (10 - n) <= 9 * c
  <2> DEFINE m == n - 1
  <2>1. m \in Nat /\ 10 - n = 9 - m
    BY <1>1
  <2>2. c * m >= 0 /\ c * (9 - m) = 9 * c - c * m
    BY <2>1
  <2> QED BY <2>1, <2>2
<1>2. ASSUME n <= 2 PROVE c * (10 - n) >= 8 * c
  <2>1. n = 0 \/ n = 1 \/ n = 2
    BY <1>2
  <2> QED BY <2>1
<1> QED BY <1>1, <1>2

\* should_halt trusts the top hypothesis, collapse discounts contradictions, and the
\* answer of a confident request is confident all the same: for every judge, history,
\* cap on the loops and on branches, from a threshold of 0.71 on (the default is 0.72).
\* What is not the top has a score of at most 9 * (Ceiling - 26), and 0.42 if it never
\* failed, which a top above the threshold exceeds with up to two contradictions.
THEOREM ConfidentAnswers ==
  ASSUME Threshold >= 71
  PROVE  Spec => []ConfidentWinner
<1>1. Init => WithinCap /\ HaltKnown /\ Untouched /\ Paced /\ Fading
  <2> SUFFICES ASSUME Init PROVE WithinCap /\ HaltKnown /\ Untouched /\ Paced /\ Fading
    OBVIOUS
  <2>1. /\ saved.trace = <<>> /\ trace = <<>> /\ stage = "idle"
        /\ Len(trace) = 0 /\ Len(saved.trace) = 0
        /\ hyps = <<>> /\ saved.hyps = <<>> /\ loopIndex = 0 /\ maxLoops = 0
    BY EmptySeq DEF Init
  <2>2. Live(<<>>) = {}
    BY DEF Live
  <2>3. Fading
    BY <2>1, <2>2 DEF Fading, Faded, Worn, InLoop
  <2> QED BY <2>1, <2>3 DEF WithinCap, HaltKnown, Untouched, Paced, InLoop
<1>2. ASSUME Typed, HaltKnown, Fading PROVE ConfidentWinner
  <2> SUFFICES ASSUME stage = "gate", haltReason = "converged_confident"
               PROVE  hyps[winner].conf >= Threshold
    BY DEF ConfidentWinner
  <2> DEFINE w == hyps[winner]
             t == hyps[Top(hyps)]
  <2>1. hyps \in Bank /\ Live(hyps) # {} /\ winner = Winner(hyps) /\ Faded(hyps)
        /\ Worn(hyps, Ceiling - 18)
    BY <1>2 DEF Typed, TypeOK, Fading
  <2>2. t.conf >= Threshold
    BY <1>2, <2>1 DEF HaltKnown, AtCap, EndedConfident, Confident, TopConfidence
  <2>3. CASE winner = Top(hyps)
    BY <2>2, <2>3
  <2>4. CASE winner # Top(hyps)
    <3>1. winner \in Live(hyps) /\ Top(hyps) \in Live(hyps) /\ Score(w) >= Score(t)
      BY <2>1, TopExists, WinnerExists
    <3>2. w.conf <= Ceiling - 26 /\ (w.contras = 0 => w.conf <= 42)
      BY <2>1, <2>4, <3>1 DEF Faded
    <3>3. t.contras >= 3 => t.conf <= Ceiling - 18
      BY <2>1, <3>1 DEF Worn
    <3>4. /\ w.conf \in 0..99 /\ w.contras \in Nat
          /\ t.conf \in 0..99 /\ t.contras \in Nat
      BY <2>1, <3>1, LiveAreHypotheses DEF Live
    <3> HIDE DEF w, t
    <3>5. Threshold \in 71..100 /\ Ceiling = (IF Threshold > 88 THEN Threshold ELSE 88)
      BY LoopAssumption DEF Ceiling
    <3>6. ~(t.conf <= Ceiling - 18)
      BY <2>2, <3>4, <3>5
    <3>7. t.contras <= 2
      BY <3>3, <3>4, <3>6
    <3>8. Score(t) >= 8 * t.conf /\ Score(t) \in Int
      BY <3>4, <3>7, ScoreFades DEF Score
    <3>9. Score(t) >= 8 * Threshold
      BY <2>2, <3>4, <3>5, <3>8
    <3>10. Score(w) <= 420 \/ Score(w) <= 9 * (Ceiling - 26)
      <4>1. CASE w.contras = 0
        <5>1. Score(w) = 10 * w.conf /\ w.conf <= 42
          BY <3>2, <3>4, <4>1 DEF Score
        <5> QED BY <3>4, <5>1
      <4>2. CASE w.contras # 0
        <5>1. w.contras >= 1
          BY <3>4, <4>2
        <5>2. Score(w) <= 9 * w.conf /\ Score(w) \in Int
          BY <3>4, <5>1, ScoreFades DEF Score
        <5> QED BY <3>2, <3>4, <3>5, <5>2
      <4> QED BY <4>1, <4>2
    <3>11. Score(w) \in Int
      BY <3>4 DEF Score
    <3>12. ~(Score(w) >= Score(t))
      BY <3>5, <3>8, <3>9, <3>10, <3>11
    <3> QED BY <3>1, <3>12
  <2> QED BY <2>3, <2>4
<1> QED BY <1>1, <1>2, TypedInit, TypedStep, WithinCapStep, HaltKnownStep, UntouchedStep,
           PacedStep, FadingStep, PTL DEF Spec
==============================================================================
