-------------------------- MODULE MigrationRunner_proof --------------------------
(***************************************************************************)
(* Any number of runners of any releases: the database is a ledger in      *)
(* which every file is once and in order, and success is complete.         *)
(***************************************************************************)
EXTENDS MigrationRunner, TLAPS, SequenceTheorems

Row(f, x) == [file |-> f, text |-> x]

\* Rows and effects are committed together: they tell the same.
RowsAreEffects ==
  /\ \A f \in DOMAIN tracked : Row(f, tracked[f]) \in Range(ledger)
  /\ \A e \in Range(ledger) : e.file \in DOMAIN tracked

\* What a runner has left behind is tracked, in the text of its directory.
PassedAreTracked ==
  \A r \in Runners : pc[r] \in Running \cup {"done"} =>
    /\ \A f \in passed[r] :
         f \in DOMAIN release[r] /\ f \in DOMAIN tracked /\ tracked[f] = release[r][f]
    /\ pc[r] = "done" => DOMAIN release[r] \subseteq passed[r]

\* A transaction is about the first file that its runner has not passed.
FirstAtHand ==
  \A r \in Runners : pc[r] \in InTransaction =>
    file[r] \in Left(r) /\ \A g \in Left(r) : file[r] <= g

\* An uncommitted row has the only claim to its key.
OneClaim ==
  \A r \in Runners : pc[r] = "commit" =>
    /\ file[r] \notin DOMAIN tracked
    /\ \A o \in Runners : pc[o] = "commit" /\ file[o] = file[r] => o = r

IInv == RowsAreEffects /\ PassedAreTracked /\ FirstAtHand /\ OneClaim

-----------------------------------------------------------------------------
LEMMA LedgerGrows ==
  ASSUME NEW h \in Seq(Entries), NEW e \in Entries
  PROVE  Append(h, e) \in Seq(Entries) /\ Range(Append(h, e)) = Range(h) \cup {e}
<1>1. /\ Append(h, e) \in Seq(Entries)
      /\ DOMAIN h = 1..Len(h) /\ DOMAIN Append(h, e) = 1..(Len(h) + 1) /\ Len(h) \in Nat
      /\ \A i \in 1..Len(h) : Append(h, e)[i] = h[i]
      /\ Append(h, e)[Len(h) + 1] = e
  BY AppendProperties, LenProperties
<1>2. 1..(Len(h) + 1) = (1..Len(h)) \cup {Len(h) + 1}
  BY <1>1
<1> QED BY <1>1, <1>2 DEF Range

LEMMA DirectoryTyped ==
  ASSUME TypeOK, NEW r \in Runners, NEW f \in DOMAIN release[r]
  PROVE  f \in Nat /\ release[r][f] \in Texts
BY MigrationAssumption DEF TypeOK

\* A file in a transaction is one of the runner's directory.
LEMMA RowTyped ==
  ASSUME TypeOK, FirstAtHand, NEW r \in Runners, pc[r] \in InTransaction
  PROVE  Row(file[r], release[r][file[r]]) \in Entries /\ file[r] \in DOMAIN release[r]
<1>1. file[r] \in DOMAIN release[r]
  BY DEF FirstAtHand, Left
<1> QED BY <1>1, DirectoryTyped DEF Row, Entries

-----------------------------------------------------------------------------
(* Type correctness *)

LEMMA StartsFresh == Init => TypeOK /\ IInv
<1> SUFFICES ASSUME Init PROVE TypeOK /\ IInv
  OBVIOUS
<1>1. ledger = <<>> /\ ledger \in Seq(Entries) /\ Range(ledger) = {}
  BY EmptySeq DEF Init, Range
<1>2. DOMAIN tracked = {}
  BY DEF Init
<1>3. TypeOK
  BY <1>1, <1>2, MigrationAssumption DEF Init, TypeOK, Running, InTransaction
<1> QED
  BY <1>1, <1>2, <1>3 DEF Init, IInv, RowsAreEffects, PassedAreTracked, FirstAtHand,
     OneClaim, Running, InTransaction

LEMMA TypedStep == TypeOK /\ FirstAtHand /\ [Next]_vars => TypeOK'
<1> SUFFICES ASSUME TypeOK, FirstAtHand, [Next]_vars PROVE TypeOK'
  OBVIOUS
<1>1. CASE UNCHANGED vars
  BY <1>1 DEF vars, TypeOK
<1>2. ASSUME NEW r \in Runners, Start(r) PROVE TypeOK'
  BY <1>2, MigrationAssumption DEF Start, Goto, TypeOK, Running, database
<1>3. ASSUME NEW r \in Runners, Select(r) PROVE TypeOK'
  <2>1. PICK f \in Left(r) :
          /\ file' = [file EXCEPT ![r] = f]
          /\ \/ Goto(r, "execute") /\ UNCHANGED passed
             \/ passed' = [passed EXCEPT ![r] = @ \cup {f}] /\ UNCHANGED pc
             \/ Goto(r, "failed") /\ UNCHANGED passed
    BY <1>3 DEF Select
  <2>2. f \in Nat
    BY DirectoryTyped DEF Left
  <2>3. UNCHANGED <<release, runs, database>>
    BY <1>3 DEF Select
  <2> QED BY <2>1, <2>2, <2>3 DEF Goto, TypeOK, Running, InTransaction, database
<1>4. ASSUME NEW r \in Runners, Finish(r) \/ Execute(r) \/ Insert(r) \/ Fail(r) PROVE TypeOK'
  BY <1>4 DEF Finish, Execute, Insert, Fail, Goto, TypeOK, Running, InTransaction, database
<1>5. ASSUME NEW r \in Runners, NEW a \in BOOLEAN, Commit(r, a) PROVE TypeOK'
  <2>1. Row(file[r], release[r][file[r]]) \in Entries /\ release[r][file[r]] \in Texts
        /\ file[r] \in Nat
    BY <1>5, RowTyped, DirectoryTyped DEF Commit, InTransaction
  <2>2. ledger' \in Seq(Entries)
    BY <1>5, <2>1, LedgerGrows DEF Commit, TypeOK, Row
  <2>3. DOMAIN tracked' = DOMAIN tracked \cup {file[r]}
        /\ \A f \in DOMAIN tracked' :
             tracked'[f] = IF f = file[r] THEN release[r][f] ELSE tracked[f]
    BY <1>5 DEF Commit
  <2>4. DOMAIN tracked' \subseteq Nat /\ \A f \in DOMAIN tracked' : tracked'[f] \in Texts
    BY <2>1, <2>3 DEF TypeOK
  <2> QED BY <1>5, <2>1, <2>2, <2>4 DEF Commit, Goto, TypeOK, Running, InTransaction
<1> QED BY <1>1, <1>2, <1>3, <1>4, <1>5 DEF Next, Work

-----------------------------------------------------------------------------
(* The inductive invariant *)

LEMMA StepKeepsIInv == TypeOK /\ IInv /\ [Next]_vars => IInv'
<1> SUFFICES ASSUME TypeOK, IInv, [Next]_vars PROVE IInv'
  OBVIOUS
<1> USE DEF IInv
<1>1. CASE UNCHANGED vars
  BY <1>1 DEF vars, RowsAreEffects, PassedAreTracked, FirstAtHand, OneClaim, Left
<1>2. ASSUME NEW r \in Runners, Start(r) PROVE IInv'
  BY <1>2 DEF Start, Goto, TypeOK, RowsAreEffects, PassedAreTracked, FirstAtHand, OneClaim,
     Left, Running, InTransaction, database
<1>3. ASSUME NEW r \in Runners, Select(r) PROVE IInv'
  <2>1. PICK f \in Left(r) :
          /\ \A g \in Left(r) : f <= g
          /\ file' = [file EXCEPT ![r] = f]
          /\ \/ Goto(r, "execute") /\ UNCHANGED passed
             \/ /\ f \in DOMAIN tracked /\ tracked[f] = release[r][f]
                /\ passed' = [passed EXCEPT ![r] = @ \cup {f}] /\ UNCHANGED pc
             \/ Goto(r, "failed") /\ UNCHANGED passed
    BY <1>3 DEF Select
  <2>2. UNCHANGED <<release, runs, database>> /\ pc[r] = "select"
    BY <1>3 DEF Select
  <2>3. RowsAreEffects'
    BY <2>2 DEF RowsAreEffects, database
  <2>4. PassedAreTracked'
    BY <2>1, <2>2 DEF PassedAreTracked, Goto, TypeOK, Running, InTransaction, database, Left
  <2>5. FirstAtHand'
    BY <2>1, <2>2 DEF FirstAtHand, Goto, TypeOK, InTransaction, database, Left
  <2>6. OneClaim'
    BY <2>1, <2>2 DEF OneClaim, Goto, TypeOK, database
  <2> QED BY <2>3, <2>4, <2>5, <2>6
<1>4. ASSUME NEW r \in Runners, Finish(r) \/ Execute(r) \/ Insert(r) \/ Fail(r) PROVE IInv'
  <2>1. UNCHANGED <<release, file, passed, runs, database>>
    BY <1>4 DEF Finish, Execute, Insert, Fail
  <2>2. RowsAreEffects'
    BY <2>1 DEF RowsAreEffects, database
  <2>3. PassedAreTracked'
    BY <1>4, <2>1 DEF PassedAreTracked, Finish, Execute, Insert, Fail, Goto, TypeOK, Running,
       InTransaction, database, Left
  <2>4. FirstAtHand'
    BY <1>4, <2>1 DEF FirstAtHand, Finish, Execute, Insert, Fail, Goto, TypeOK, InTransaction,
       database, Left
  <2>5. OneClaim'
    BY <1>4, <2>1 DEF OneClaim, Finish, Execute, Insert, Fail, Goto, TypeOK, database
  <2> QED BY <2>2, <2>3, <2>4, <2>5
<1>5. ASSUME NEW r \in Runners, NEW a \in BOOLEAN, Commit(r, a) PROVE IInv'
  <2>1. /\ pc[r] = "commit" /\ UNCHANGED <<release, file>>
        /\ passed' = [passed EXCEPT ![r] = @ \cup {file[r]}]
        /\ Goto(r, "select") \/ Goto(r, "failed")
    BY <1>5 DEF Commit
  <2>2. DOMAIN tracked' = DOMAIN tracked \cup {file[r]}
        /\ \A f \in DOMAIN tracked' :
             tracked'[f] = IF f = file[r] THEN release[r][f] ELSE tracked[f]
    BY <1>5 DEF Commit
  <2>3. file[r] \in DOMAIN release[r] /\ file[r] \notin DOMAIN tracked
    BY <2>1, RowTyped DEF OneClaim, InTransaction
  <2>4. Range(ledger') = Range(ledger) \cup {Row(file[r], release[r][file[r]])}
    BY <1>5, <2>1, RowTyped, LedgerGrows DEF Commit, TypeOK, Row, InTransaction
  <2>5. RowsAreEffects'
    BY <2>2, <2>3, <2>4 DEF RowsAreEffects, Row
  <2>6. PassedAreTracked'
    BY <2>1, <2>2, <2>3 DEF PassedAreTracked, Goto, TypeOK, Running, InTransaction
  <2>7. FirstAtHand'
    BY <2>1 DEF FirstAtHand, Goto, TypeOK, InTransaction, Left
  <2>8. OneClaim'
    BY <2>1, <2>2, <2>3 DEF OneClaim, Goto, TypeOK
  <2> QED BY <2>5, <2>6, <2>7, <2>8
<1> QED BY <1>1, <1>2, <1>3, <1>4, <1>5 DEF Next, Work

LEMMA Invariance == Spec => [](TypeOK /\ IInv)
<1>1. TypeOK /\ IInv /\ [Next]_vars => (TypeOK /\ IInv)'
  BY TypedStep, StepKeepsIInv DEF IInv
<1> QED BY <1>1, StartsFresh, PTL DEF Spec

-----------------------------------------------------------------------------
(* What follows from it *)

\* Every variable keeps its type, for all runners and releases.
THEOREM TypeCorrect == Spec => []TypeOK
BY Invariance, PTL

\* A run that reports success has its whole directory in effect.
THEOREM CompleteSuccess == Spec => []SuccessIsComplete
<1>1. TypeOK /\ IInv => SuccessIsComplete
  <2> SUFFICES ASSUME TypeOK, IInv, NEW r \in Runners, pc[r] = "done",
                      NEW f \in DOMAIN release[r]
               PROVE  [file |-> f, text |-> release[r][f]] \in Range(ledger)
    BY DEF SuccessIsComplete
  <2>1. f \in DOMAIN tracked /\ tracked[f] = release[r][f]
    BY DEF IInv, PassedAreTracked
  <2> QED BY <2>1 DEF IInv, RowsAreEffects, Row
<1> QED BY <1>1, Invariance, PTL

\* The runners implement the ledger: every commit appends a file that is not
\* yet in it and whose predecessors are.
THEOREM ImplementsLedger == Spec => LedgerSpec
<1>1. Init => Ledger!Init
  BY DEF Init, Ledger!Init
<1>2. TypeOK /\ IInv /\ [Next]_vars => [Ledger!Next]_ledger
  <2> SUFFICES ASSUME TypeOK, IInv, [Next]_vars PROVE [Ledger!Next]_ledger
    OBVIOUS
  <2>1. ASSUME NEW r \in Runners, NEW a \in BOOLEAN, Commit(r, a) PROVE Ledger!Next
    <3>1. /\ pc[r] = "commit" /\ release[r] \in Releases
          /\ ledger' = Append(ledger, [file |-> file[r], text |-> release[r][file[r]]])
      BY <2>1 DEF Commit, TypeOK
    <3>2. /\ file[r] \in Left(r) /\ \A g \in Left(r) : file[r] <= g
          /\ file[r] \notin DOMAIN tracked
      BY <3>1 DEF IInv, FirstAtHand, OneClaim, InTransaction
    <3>3. \A k \in DOMAIN ledger : ledger[k].file # file[r]
      BY <3>2 DEF IInv, RowsAreEffects, Range
    <3>4. ASSUME NEW g \in DOMAIN release[r], g < file[r]
          PROVE  [file |-> g, text |-> release[r][g]] \in Range(ledger)
      <4>1. g \in Nat /\ file[r] \in Nat
        BY DirectoryTyped DEF TypeOK
      <4>2. g \in passed[r]
        BY <3>2, <3>4, <4>1 DEF Left
      <4>3. g \in DOMAIN tracked /\ tracked[g] = release[r][g]
        BY <3>1, <4>2 DEF IInv, PassedAreTracked, Running, InTransaction
      <4> QED BY <4>3 DEF IInv, RowsAreEffects, Row
    <3>5. Ledger!Apply(release[r], file[r])
      BY <3>1, <3>3, <3>4 DEF Ledger!Apply, Ledger!Before, Ledger!Entry, Ledger!Range, Range
    <3> QED BY <3>1, <3>2, <3>5 DEF Ledger!Next, Left
  <2>2. ASSUME NEW r \in Runners,
               Start(r) \/ Select(r) \/ Finish(r) \/ Execute(r) \/ Insert(r) \/ Fail(r)
        PROVE  UNCHANGED ledger
    BY <2>2 DEF Start, Select, Finish, Execute, Insert, Fail, database
  <2>3. CASE UNCHANGED vars
    BY <2>3 DEF vars
  <2> QED BY <2>1, <2>2, <2>3 DEF Next, Work
<1> QED BY <1>1, <1>2, Invariance, PTL DEF Spec, LedgerSpec, Ledger!Spec
=============================================================================
