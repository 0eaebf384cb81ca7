-------------------------- MODULE StorageClient_proof --------------------------
(***************************************************************************)
(* The connection pools and the rows of StorageClient, for any number of   *)
(* concurrent calls and any limit of attempts.                             *)
(***************************************************************************)
EXTENDS StorageClient, Integers, TLAPS, FiniteSetTheorems

Places == {"new"} \cup Initialising \cup Executing \cup Ended

\* The pools that were assigned to self._pool or that an initialisation holds.
kept == created - broken

Typed ==
  /\ pool \in BOOLEAN /\ created \in Nat /\ broken \in Nat /\ peak \in Nat
  /\ row \in [Keys -> Calls \cup {Nobody}]
  /\ pc \in [Calls -> Places]
  /\ attempt \in [Calls -> [operation : 1..MaxAttempts, pool : 1..MaxAttempts]]
  /\ sent \in [Calls -> [pools : Nat, statements : Nat]]
  /\ before \in [Calls -> SUBSET Calls]

LEMMA AttemptTypes ==
  ASSUME Typed, NEW c \in Calls
  PROVE  /\ attempt[c].operation \in 1..MaxAttempts /\ attempt[c].pool \in 1..MaxAttempts
         /\ MaxAttempts \in Nat \ {0}
BY StorageAssumption DEF Typed

\* What a call goes to when an error leaves its initialisation or its operation.
LEMMA EnterMoves ==
  ASSUME Typed, NEW c \in Calls, NEW n \in 1..MaxAttempts, Enter(c, n)
  PROVE  /\ \E w \in {IF pool THEN "execute" ELSE "connect"} : pc' = [pc EXCEPT ![c] = w]
         /\ attempt' \in [Calls -> [operation : 1..MaxAttempts, pool : 1..MaxAttempts]]
<1>1. 1 \in 1..MaxAttempts
  BY StorageAssumption
<1>2. [operation |-> n, pool |-> 1] \in [operation : 1..MaxAttempts, pool : 1..MaxAttempts]
  BY <1>1
<1> QED BY <1>2 DEF Enter, Goto, Typed

LEMMA OperationFailsMoves ==
  ASSUME Typed, NEW c \in Calls, NEW retryable \in BOOLEAN, OperationFails(c, retryable)
  PROVE  /\ \E w \in {"failed", IF pool THEN "execute" ELSE "connect"} : pc' = [pc EXCEPT ![c] = w]
         /\ attempt' \in [Calls -> [operation : 1..MaxAttempts, pool : 1..MaxAttempts]]
<1>1. CASE retryable /\ c \notin HealthChecks /\ attempt[c].operation < MaxAttempts
  <2>1. Enter(c, attempt[c].operation + 1)
    BY <1>1 DEF OperationFails
  <2>2. attempt[c].operation + 1 \in 1..MaxAttempts
    BY <1>1, AttemptTypes
  <2> QED BY <2>1, <2>2, EnterMoves
<1>2. CASE ~(retryable /\ c \notin HealthChecks /\ attempt[c].operation < MaxAttempts)
  BY <1>2 DEF OperationFails, Goto, Typed
<1> QED BY <1>1, <1>2

LEMMA InitFailsMoves ==
  ASSUME Typed, NEW c \in Calls, NEW retryable \in BOOLEAN, InitFails(c, retryable)
  PROVE  /\ \E w \in {"connect", "failed", "execute"} :
              /\ pc' = [pc EXCEPT ![c] = w]
              /\ w = "execute" => pool
         /\ attempt' \in [Calls -> [operation : 1..MaxAttempts, pool : 1..MaxAttempts]]
<1>1. CASE retryable /\ attempt[c].pool < MaxAttempts
  <2>1. /\ pc' = [pc EXCEPT ![c] = "connect"]
        /\ attempt' = [attempt EXCEPT ![c].pool = @ + 1]
    BY <1>1 DEF InitFails, Goto
  <2>2. attempt[c].pool + 1 \in 1..MaxAttempts
    BY <1>1, AttemptTypes
  <2>3. attempt' \in [Calls -> [operation : 1..MaxAttempts, pool : 1..MaxAttempts]]
    BY <2>1, <2>2 DEF Typed
  <2> QED BY <2>1, <2>3
<1>2. CASE ~(retryable /\ attempt[c].pool < MaxAttempts)
  <2>1. OperationFails(c, retryable)
    BY <1>2 DEF InitFails
  <2> QED BY <2>1, OperationFailsMoves
<1> QED BY <1>1, <1>2

\* Every step moves one call, as follows.
Moves(c, w) ==
  /\ pc' = [pc EXCEPT ![c] = w]
  /\ \/ /\ pc[c] \in {"new"} \cup Executing                            \* Begin, ExecuteFails
        /\ w \in {"failed", IF pool THEN "execute" ELSE "connect"}
        /\ CountPeak /\ kept' = kept /\ pool' = pool
     \/ /\ pc[c] = "connect" /\ w \in {"connect", "failed", "execute"}  \* ConnectFails
        /\ w = "execute" => pool
        /\ CountPeak /\ kept' = kept /\ pool' = pool
     \/ /\ pc[c] = "schema" /\ w \in {"connect", "failed", "execute"}   \* SchemaFails
        /\ w = "execute" => pool
        /\ CountPeak /\ kept' = kept - 1 /\ pool' = pool
     \/ /\ pc[c] = "connect" /\ w = "schema"                            \* Connected
        /\ kept' = kept + 1 /\ pool' = pool /\ peak' = peak
     \/ /\ pc[c] = "schema" /\ w = "execute"                            \* SchemaEnsured
        /\ kept' = kept /\ pool' = TRUE /\ peak' = peak
     \/ /\ pc[c] \in Executing /\ w \in {"reply", "done"}               \* Execute, Return
        /\ UNCHANGED <<kept, pool, peak>>
     \/ /\ pc[c] \in Initialising \cup Executing /\ w = "cancelled"     \* Cancel
        /\ kept' = IF pc[c] = "schema" THEN kept - 1 ELSE kept
        /\ UNCHANGED <<pool, peak>>

LEMMA StepMoves ==
  ASSUME Typed, Next
  PROVE  /\ \E c \in Calls : \E w \in Places : Moves(c, w)
         /\ attempt' \in [Calls -> [operation : 1..MaxAttempts, pool : 1..MaxAttempts]]
<1>0. /\ {"failed", "execute", "connect"} \subseteq Places
      /\ {"schema", "reply", "done", "cancelled"} \subseteq Places
  BY DEF Places, Initialising, Executing, Ended
<1>1. ASSUME NEW c \in Calls, Begin(c)
      PROVE  /\ \E w \in Places : Moves(c, w)
             /\ attempt' \in [Calls -> [operation : 1..MaxAttempts, pool : 1..MaxAttempts]]
  <2>1. Enter(c, 1) /\ 1 \in 1..MaxAttempts
    BY <1>1, StorageAssumption DEF Begin
  <2>2. PICK w \in {IF pool THEN "execute" ELSE "connect"} : pc' = [pc EXCEPT ![c] = w]
    BY <2>1, EnterMoves
  <2>3. Moves(c, w)
    BY <1>1, <2>2 DEF Begin, Moves, kept
  <2> QED BY <1>0, <2>1, <2>2, <2>3, EnterMoves
<1>2. ASSUME NEW c \in Calls, NEW retryable \in BOOLEAN, ExecuteFails(c, retryable)
      PROVE  /\ \E w \in Places : Moves(c, w)
             /\ attempt' \in [Calls -> [operation : 1..MaxAttempts, pool : 1..MaxAttempts]]
  <2>1. OperationFails(c, retryable)
    BY <1>2 DEF ExecuteFails
  <2>2. PICK w \in {"failed", IF pool THEN "execute" ELSE "connect"} : pc' = [pc EXCEPT ![c] = w]
    BY <2>1, OperationFailsMoves
  <2>3. Moves(c, w)
    BY <1>2, <2>2 DEF ExecuteFails, Moves, kept
  <2> QED BY <1>0, <2>1, <2>2, <2>3, OperationFailsMoves
<1>3. ASSUME NEW c \in Calls, NEW retryable \in BOOLEAN,
             ConnectFails(c, retryable) \/ SchemaFails(c, retryable)
      PROVE  /\ \E w \in Places : Moves(c, w)
             /\ attempt' \in [Calls -> [operation : 1..MaxAttempts, pool : 1..MaxAttempts]]
  <2>1. InitFails(c, retryable)
    BY <1>3 DEF ConnectFails, SchemaFails
  <2>2. PICK w \in {"connect", "failed", "execute"} :
          pc' = [pc EXCEPT ![c] = w] /\ (w = "execute" => pool)
    BY <2>1, InitFailsMoves
  <2>3. Moves(c, w)
    BY <1>3, <2>2 DEF ConnectFails, SchemaFails, Moves, kept, Typed
  <2> QED BY <1>0, <2>1, <2>2, <2>3, InitFailsMoves
<1>4. ASSUME NEW c \in Calls,
             Connected(c) \/ SchemaEnsured(c) \/ Execute(c) \/ Return(c) \/ Cancel(c)
      PROVE  /\ \E w \in Places : Moves(c, w)
             /\ attempt' \in [Calls -> [operation : 1..MaxAttempts, pool : 1..MaxAttempts]]
  <2>1. attempt' = attempt
    BY <1>4 DEF Connected, SchemaEnsured, Execute, Return, Cancel
  <2>2. CASE Connected(c)
    <3>1. Moves(c, "schema")
      BY <2>2 DEF Connected, Goto, Moves, kept, Typed
    <3> QED BY <1>0, <2>1, <3>1 DEF Typed
  <2>3. CASE SchemaEnsured(c)
    <3>1. Moves(c, "execute")
      BY <2>3 DEF SchemaEnsured, Goto, Moves, kept
    <3> QED BY <1>0, <2>1, <3>1 DEF Typed
  <2>4. CASE Execute(c)
    <3>1. Moves(c, "reply")
      BY <2>4 DEF Execute, Goto, Moves, kept, Executing
    <3> QED BY <1>0, <2>1, <3>1 DEF Typed
  <2>5. CASE Return(c)
    <3>1. Moves(c, "done")
      BY <2>5 DEF Return, Goto, Moves, kept, Executing
    <3> QED BY <1>0, <2>1, <3>1 DEF Typed
  <2>6. CASE Cancel(c)
    <3>1. Moves(c, "cancelled")
      BY <2>6 DEF Cancel, Goto, Moves, kept, Typed
    <3> QED BY <1>0, <2>1, <3>1 DEF Typed
  <2> QED BY <1>4, <2>2, <2>3, <2>4, <2>5, <2>6
<1> QED BY <1>1, <1>2, <1>3, <1>4 DEF Next, Work

-----------------------------------------------------------------------------
(* Counting the calls at an await *)

At(place) == {c \in Calls : pc[c] = place}
Number(place) == Cardinality(At(place))

LEMMA Numbers ==
  ASSUME NEW place
  PROVE  IsFiniteSet(At(place)) /\ Number(place) \in Nat
<1>1. At(place) \subseteq Calls /\ IsFiniteSet(Calls)
  BY StorageAssumption DEF At
<1> QED BY <1>1, FS_Subset, FS_CardinalityType DEF Number

LEMMA Counting ==
  ASSUME Typed, NEW c \in Calls, NEW w, pc' = [pc EXCEPT ![c] = w], NEW place
  PROVE  Number(place)' = Number(place) + (IF w = place THEN 1 ELSE 0)
                                        - (IF pc[c] = place THEN 1 ELSE 0)
<1>1. /\ pc'[c] = w /\ \A o \in Calls \ {c} : pc'[o] = pc[o]
      /\ IsFiniteSet(At(place)) /\ Cardinality(At(place)) \in Nat
  BY Numbers DEF Typed, Number
<1>2. CASE w = place /\ pc[c] # place
  <2>1. At(place)' = At(place) \cup {c} /\ c \notin At(place)
    BY <1>1, <1>2 DEF At
  <2> QED BY <1>1, <1>2, <2>1, FS_AddElement DEF Number
<1>3. CASE w # place /\ pc[c] = place
  <2>1. At(place)' = At(place) \ {c} /\ c \in At(place)
    BY <1>1, <1>3 DEF At
  <2> QED BY <1>1, <1>3, <2>1, FS_RemoveElement DEF Number
<1>4. CASE w = place <=> pc[c] = place
  <2>1. At(place)' = At(place)
    BY <1>1, <1>4 DEF At
  <2> QED BY <1>1, <1>4, <2>1 DEF Number
<1> QED BY <1>2, <1>3, <1>4

LEMMA DisjointUnion ==
  ASSUME NEW S, NEW T, IsFiniteSet(S), IsFiniteSet(T), S \cap T = {}
  PROVE  Cardinality(S \cup T) = Cardinality(S) + Cardinality(T)
<1>1. Cardinality(S \cup T) = Cardinality(S) + Cardinality(T) - Cardinality(S \cap T)
  BY FS_Union
<1>2. Cardinality(S \cap T) = 0
  BY FS_EmptySet
<1>3. Cardinality(S) \in Nat /\ Cardinality(T) \in Nat
  BY FS_CardinalityType
<1> QED BY <1>1, <1>2, <1>3

LEMMA InitialisingNumber ==
  /\ Cardinality({c \in Calls : pc[c] \in Initialising}) = Number("connect") + Number("schema")
  /\ Cardinality({c \in Calls : pc'[c] \in Initialising}) = Number("connect")' + Number("schema")'
<1>1. /\ {c \in Calls : pc[c] \in Initialising} = At("connect") \cup At("schema")
      /\ At("connect") \cap At("schema") = {}
  BY DEF At, Initialising
<1>2. /\ {c \in Calls : pc'[c] \in Initialising} = At("connect")' \cup At("schema")'
      /\ At("connect")' \cap At("schema")' = {}
  BY DEF At, Initialising
<1>3. IsFiniteSet(At("connect")) /\ IsFiniteSet(At("schema"))
  BY Numbers
<1>4. IsFiniteSet(At("connect")') /\ IsFiniteSet(At("schema")')
  <2>1. At("connect")' \subseteq Calls /\ At("schema")' \subseteq Calls /\ IsFiniteSet(Calls)
    BY StorageAssumption DEF At
  <2> QED BY <2>1, FS_Subset
<1>5. Cardinality(At("connect") \cup At("schema")) = Number("connect") + Number("schema")
  BY <1>1, <1>3, DisjointUnion DEF Number
<1>6. Cardinality(At("connect")' \cup At("schema")') = Number("connect")' + Number("schema")'
  BY <1>2, <1>4, DisjointUnion DEF Number
<1> QED BY <1>1, <1>2, <1>5, <1>6

-----------------------------------------------------------------------------
(* The pools *)

\* Until a pool is assigned, pools exist in the hands of those who ensure their
\* schema; from then on nobody starts to connect any more, so that those who still
\* do and the pools there are never exceed the most that did at one time.
Pools ==
  /\ Number("schema") <= kept
  /\ Number("connect") + Number("schema") <= peak
  /\ pool = FALSE => kept = Number("schema")
  /\ pool = TRUE => kept + Number("connect") <= peak
  /\ peak <= Cardinality(Calls)

LEMMA PoolsMove ==
  ASSUME Typed, Pools, NEW c \in Calls, NEW w \in Places, Moves(c, w)
  PROVE  Pools' /\ kept' \in Int /\ peak' \in Nat /\ pool' \in BOOLEAN
<1> DEFINE a == Number("connect")
           b == Number("schema")
           N == Cardinality(Calls)
<1>1. pc' = [pc EXCEPT ![c] = w]
  BY DEF Moves
<1>2. a \in Nat /\ b \in Nat /\ kept \in Int /\ peak \in Nat /\ pool \in BOOLEAN /\ N \in Nat
  BY Numbers, StorageAssumption, FS_CardinalityType DEF Typed, kept
<1>3. /\ a' = a + (IF w = "connect" THEN 1 ELSE 0) - (IF pc[c] = "connect" THEN 1 ELSE 0)
      /\ b' = b + (IF w = "schema" THEN 1 ELSE 0) - (IF pc[c] = "schema" THEN 1 ELSE 0)
  BY <1>1, Counting
<1>4. a' + b' <= N
  <2>1. {o \in Calls : pc'[o] \in Initialising} \subseteq Calls /\ IsFiniteSet(Calls)
    BY StorageAssumption
  <2>2. Cardinality({o \in Calls : pc'[o] \in Initialising}) <= N
    BY <2>1, FS_Subset
  <2> QED BY <2>2, InitialisingNumber
<1>5. CountPeak => peak' = IF a' + b' > peak THEN a' + b' ELSE peak
  BY InitialisingNumber DEF CountPeak
<1>6. /\ b <= kept /\ a + b <= peak /\ peak <= N
      /\ pool = FALSE => kept = b
      /\ pool = TRUE => kept + a <= peak
  BY DEF Pools
<1> HIDE DEF a, b, N
<1>7. /\ b' <= kept' /\ a' + b' <= peak' /\ peak' <= N
      /\ pool' = FALSE => kept' = b'
      /\ pool' = TRUE => kept' + a' <= peak'
      /\ kept' \in Int /\ peak' \in Nat /\ pool' \in BOOLEAN
  <2>1. CASE /\ pc[c] \in {"new"} \cup Executing
             /\ w \in {"failed", IF pool THEN "execute" ELSE "connect"}
             /\ CountPeak /\ kept' = kept /\ pool' = pool
    BY <1>2, <1>3, <1>4, <1>5, <1>6, <2>1 DEF Executing
  <2>2. CASE /\ pc[c] = "connect" /\ w \in {"connect", "failed", "execute"}
             /\ w = "execute" => pool
             /\ CountPeak /\ kept' = kept /\ pool' = pool
    BY <1>2, <1>3, <1>4, <1>5, <1>6, <2>2
  <2>3. CASE /\ pc[c] = "schema" /\ w \in {"connect", "failed", "execute"}
             /\ w = "execute" => pool
             /\ CountPeak /\ kept' = kept - 1 /\ pool' = pool
    BY <1>2, <1>3, <1>4, <1>5, <1>6, <2>3
  <2>4. CASE /\ pc[c] = "connect" /\ w = "schema"
             /\ kept' = kept + 1 /\ pool' = pool /\ peak' = peak
    BY <1>2, <1>3, <1>4, <1>6, <2>4
  <2>5. CASE /\ pc[c] = "schema" /\ w = "execute"
             /\ kept' = kept /\ pool' = TRUE /\ peak' = peak
    BY <1>2, <1>3, <1>4, <1>6, <2>5
  <2>6. CASE /\ pc[c] \in Executing /\ w \in {"reply", "done"}
             /\ UNCHANGED <<kept, pool, peak>>
    BY <1>2, <1>3, <1>4, <1>6, <2>6 DEF Executing
  <2>7. CASE /\ pc[c] \in Initialising \cup Executing /\ w = "cancelled"
             /\ kept' = IF pc[c] = "schema" THEN kept - 1 ELSE kept
             /\ UNCHANGED <<pool, peak>>
    BY <1>2, <1>3, <1>4, <1>6, <2>7 DEF Initialising, Executing
  <2> QED BY <2>1, <2>2, <2>3, <2>4, <2>5, <2>6, <2>7 DEF Moves
<1> QED BY <1>7 DEF Pools, a, b, N

-----------------------------------------------------------------------------
(* The rows *)

\* A call began after others only once those had ended.
Begun == \A c \in Calls : \A o \in before[c] : pc[o] \in Ended

\* A statement that was executed is in its row, or a later one is that does not
\* stem from a call which had ended by then.
Written ==
  \A c \in Calls \ HealthChecks : pc[c] \in {"reply", "done"} =>
    row[KeyOf[c]] # Nobody /\ row[KeyOf[c]] \notin before[c]

LEMMA TypedStep == Typed /\ Pools /\ [Next]_vars => (Typed /\ Pools)'
<1> SUFFICES ASSUME Typed, Pools, [Next]_vars PROVE (Typed /\ Pools)'
  OBVIOUS
<1>1. CASE UNCHANGED vars
  BY <1>1 DEF vars, Typed, Pools, Number, At, kept
<1>2. CASE Next
  <2>1. PICK c \in Calls, w \in Places : Moves(c, w)
    BY <1>2, StepMoves
  <2>2. Pools' /\ kept' \in Int /\ peak' \in Nat /\ pool' \in BOOLEAN
    BY <2>1, PoolsMove
  <2>3. pc' \in [Calls -> Places]
    BY <2>1 DEF Moves, Typed
  <2>4. attempt' \in [Calls -> [operation : 1..MaxAttempts, pool : 1..MaxAttempts]]
    BY <1>2, StepMoves
  <2>5. row' \in [Keys -> Calls \cup {Nobody}]
    <3>1. CASE row' = row
      BY <3>1 DEF Typed
    <3>2. ASSUME NEW o \in Calls, row' = [row EXCEPT ![KeyOf[o]] = o]
          PROVE  row' \in [Keys -> Calls \cup {Nobody}]
      BY <3>2, StorageAssumption DEF Typed
    <3> QED BY <1>2, <3>1, <3>2 DEF Next, Work, Begin, Cancel, Connected, SchemaEnsured, Execute,
                                    Return, ConnectFails, SchemaFails, ExecuteFails
  <2>6. before' \in [Calls -> SUBSET Calls]
    BY <1>2 DEF Next, Work, Begin, Cancel, Connected, SchemaEnsured, Execute,
                Return, ConnectFails, SchemaFails, ExecuteFails, Typed
  <2>7. created' \in Nat /\ broken' \in Nat
    BY <1>2 DEF Next, Work, Begin, Cancel, Connected, SchemaEnsured, Execute,
                Return, ConnectFails, SchemaFails, ExecuteFails, Typed
  <2>8. sent' \in [Calls -> [pools : Nat, statements : Nat]]
    <3>1. CASE sent' = sent
      BY <3>1 DEF Typed
    <3>2. ASSUME NEW o \in Calls, Connected(o) \/ Execute(o)
          PROVE  sent' \in [Calls -> [pools : Nat, statements : Nat]]
      <4>1. /\ [sent[o] EXCEPT !.pools = @ + 1] \in [pools : Nat, statements : Nat]
            /\ [sent[o] EXCEPT !.statements = @ + 1] \in [pools : Nat, statements : Nat]
        BY DEF Typed
      <4>2. \/ sent' = [sent EXCEPT ![o] = [sent[o] EXCEPT !.pools = @ + 1]]
            \/ sent' = [sent EXCEPT ![o] = [sent[o] EXCEPT !.statements = @ + 1]]
        BY <3>2 DEF Connected, Execute
      <4> QED BY <4>1, <4>2 DEF Typed
    <3> QED BY <1>2, <3>1, <3>2 DEF Next, Work, Begin, Cancel, SchemaEnsured,
                                    Return, ConnectFails, SchemaFails, ExecuteFails
  <2> QED BY <2>2, <2>3, <2>4, <2>5, <2>6, <2>7, <2>8 DEF Typed
<1> QED BY <1>1, <1>2

\* Whoever has ended stays so.
LEMMA EndedStays ==
  ASSUME Typed, [Next]_vars, NEW o \in Calls, pc[o] \in Ended
  PROVE  pc'[o] = pc[o]
<1>1. CASE UNCHANGED vars
  BY <1>1 DEF vars
<1>2. CASE Next
  <2>1. PICK c \in Calls, w \in Places : Moves(c, w)
    BY <1>2, StepMoves
  <2>2. c # o
    BY <2>1 DEF Moves, Ended, Executing, Initialising
  <2> QED BY <2>1, <2>2 DEF Moves, Typed
<1> QED BY <1>1, <1>2

LEMMA BegunStep == Typed /\ Begun /\ [Next]_vars => Begun'
<1> SUFFICES ASSUME Typed, Begun, [Next]_vars, NEW c \in Calls, NEW o \in before'[c]
             PROVE  pc'[o] \in Ended
  BY DEF Begun
<1>1. o \in Calls /\ pc[o] \in Ended
  <2>1. CASE before' = before
    BY <2>1 DEF Begun, Typed
  <2>2. ASSUME NEW b \in Calls, Begin(b) PROVE o \in Calls /\ pc[o] \in Ended
    <3>1. before' = [before EXCEPT ![b] = {p \in Calls : pc[p] \in Ended}]
      BY <2>2 DEF Begin
    <3> QED BY <3>1 DEF Begun, Typed
  <2> QED BY <2>1, <2>2 DEF Next, vars, Work, Cancel, Connected, SchemaEnsured, Execute,
                            Return, ConnectFails, SchemaFails, ExecuteFails
<1> QED BY <1>1, EndedStays

LEMMA WrittenStep == Typed /\ Begun /\ Written /\ [Next]_vars => Written'
<1> SUFFICES ASSUME Typed, Begun, Written, [Next]_vars,
                    NEW c \in Calls \ HealthChecks, pc'[c] \in {"reply", "done"}
             PROVE  row'[KeyOf[c]] # Nobody /\ row'[KeyOf[c]] \notin before'[c]
  BY DEF Written
<1>1. ASSUME NEW o \in Calls, Execute(o)
      PROVE  row'[KeyOf[c]] # Nobody /\ row'[KeyOf[c]] \notin before'[c]
  <2>1. /\ pc[o] = "execute" /\ pc' = [pc EXCEPT ![o] = "reply"] /\ before' = before
        /\ row' = IF o \in HealthChecks THEN row ELSE [row EXCEPT ![KeyOf[o]] = o]
    BY <1>1 DEF Execute, Goto
  <2>2. o \notin before[c] /\ o # Nobody /\ KeyOf[c] \in Keys /\ KeyOf[o] \in Keys
    BY <2>1, StorageAssumption DEF Begun, Ended
  <2>3. CASE o \notin HealthChecks /\ KeyOf[o] = KeyOf[c]
    <3>1. row'[KeyOf[c]] = o
      BY <2>1, <2>2, <2>3 DEF Typed
    <3> QED BY <2>1, <2>2, <3>1
  <2>4. CASE o \in HealthChecks \/ KeyOf[o] # KeyOf[c]
    <3>1. row'[KeyOf[c]] = row[KeyOf[c]] /\ o # c
      BY <2>1, <2>2, <2>4 DEF Typed
    <3>2. pc[c] \in {"reply", "done"}
      BY <2>1, <3>1 DEF Typed
    <3> QED BY <2>1, <3>1, <3>2 DEF Written
  <2> QED BY <2>3, <2>4
<1>2. CASE ~\E o \in Calls : Execute(o)
  <2>1. row' = row
    BY <1>2 DEF Next, vars, Work, Begin, Cancel, Connected, SchemaEnsured,
                Return, ConnectFails, SchemaFails, ExecuteFails
  <2>2. pc[c] \in {"reply", "done"}
    <3>1. CASE Return(c)
      BY <3>1 DEF Return
    <3>2. CASE pc'[c] = pc[c]
      BY <3>2
    <3>3. CASE pc'[c] # pc[c] /\ ~Return(c)
      <4>1. Next
        BY <3>3 DEF vars
      <4>2. PICK o \in Calls : Begin(o) \/ Cancel(o) \/ Work(o)
        BY <4>1 DEF Next
      <4>3. CASE Begin(o)
        <5>1. Enter(o, 1) /\ 1 \in 1..MaxAttempts
          BY <4>3, StorageAssumption DEF Begin
        <5>2. \E w \in {IF pool THEN "execute" ELSE "connect"} : pc' = [pc EXCEPT ![o] = w]
          BY <5>1, EnterMoves
        <5> QED BY <3>3, <5>2 DEF Typed
      <4>4. ASSUME NEW retryable \in BOOLEAN,
                   ConnectFails(o, retryable) \/ SchemaFails(o, retryable) \/ ExecuteFails(o, retryable)
            PROVE  pc[c] \in {"reply", "done"}
        <5>1. InitFails(o, retryable) \/ OperationFails(o, retryable)
          BY <4>4 DEF ConnectFails, SchemaFails, ExecuteFails
        <5>2. \E w \in {"failed", "execute", "connect"} : pc' = [pc EXCEPT ![o] = w]
          BY <5>1, InitFailsMoves, OperationFailsMoves
        <5> QED BY <3>3, <5>2 DEF Typed
      <4>5. CASE Cancel(o) \/ Connected(o) \/ SchemaEnsured(o)
        BY <3>3, <4>5 DEF Cancel, Connected, SchemaEnsured, Goto, Typed
      <4>6. CASE Return(o)
        BY <3>3, <4>6 DEF Return, Goto, Typed
      <4> QED BY <1>2, <4>2, <4>3, <4>4, <4>5, <4>6 DEF Work
    <3> QED BY <3>1, <3>2, <3>3
  <2>3. before'[c] = before[c]
    <3>1. CASE before' = before
      BY <3>1
    <3>2. ASSUME NEW b \in Calls, Begin(b) PROVE before'[c] = before[c]
      <4>1. b # c /\ before' = [before EXCEPT ![b] = {o \in Calls : pc[o] \in Ended}]
        BY <2>2, <3>2 DEF Begin
      <4> QED BY <4>1 DEF Typed
    <3> QED BY <3>1, <3>2 DEF Next, vars, Work, Cancel, Connected, SchemaEnsured, Execute,
                              Return, ConnectFails, SchemaFails, ExecuteFails
  <2> QED BY <2>1, <2>2, <2>3 DEF Written
<1> QED BY <1>1, <1>2

-----------------------------------------------------------------------------
(* The attempts *)

\* What every operation before the current one may have spent, and the current one.
Spent(c) ==
  LET n == attempt[c].operation
  IN  /\ n <= Limit(c)
      /\ sent[c].statements <= n
      /\ pc[c] \in {"new", "execute"} \cup Initialising => sent[c].statements <= n - 1
      /\ sent[c].pools <= (n - 1) * MaxAttempts + attempt[c].pool
      /\ pc[c] \in {"new", "connect"} =>
           sent[c].pools <= (n - 1) * MaxAttempts + attempt[c].pool - 1
      /\ pc[c] = "new" => sent[c].pools = 0 /\ sent[c].statements = 0

Spending == \A c \in Calls : Spent(c)

LEMMA Budgets ==
  ASSUME NEW m \in Nat, NEW n \in Nat \ {0}, NEW k \in Nat, n <= k
  PROVE  /\ (n - 1) * m \in Nat /\ k * m \in Nat
         /\ ((n + 1) - 1) * m = (n - 1) * m + m
         /\ (n - 1) * m + m <= k * m
<1>1. \A a \in Nat : a * m \in Nat /\ (a + 1) * m = a * m + m
  OBVIOUS
<1>2. n - 1 \in Nat /\ (n - 1) + 1 = n /\ (n + 1) - 1 = n /\ k - n \in Nat /\ n + (k - n) = k
  OBVIOUS
<1>3. (n - 1) * m \in Nat /\ n * m = (n - 1) * m + m /\ k * m \in Nat /\ (k - n) * m \in Nat
  BY <1>1, <1>2
<1>4. \A a, b \in Nat : (a + b) * m = a * m + b * m
  OBVIOUS
<1>5. k * m = n * m + (k - n) * m
  BY <1>2, <1>4
<1> QED BY <1>2, <1>3, <1>5

\* An error spends nothing, and begins an attempt only while there is one left.
LEMMA OperationFailsSpent ==
  ASSUME Typed, NEW c \in Calls, Spent(c), NEW retryable \in BOOLEAN,
         OperationFails(c, retryable), sent' = sent
  PROVE  Spent(c)'
<1> DEFINE n == attempt[c].operation
<1>1. /\ n \in Nat \ {0} /\ MaxAttempts \in Nat /\ attempt[c].pool \in 1..MaxAttempts
      /\ sent[c].pools \in Nat /\ sent[c].statements \in Nat
  BY AttemptTypes DEF Typed
<1>2. /\ sent[c].statements <= n
      /\ sent[c].pools <= (n - 1) * MaxAttempts + attempt[c].pool
  BY DEF Spent
<1>3. CASE retryable /\ c \notin HealthChecks /\ n < MaxAttempts
  <2>1. attempt'[c].operation = n + 1 /\ attempt'[c].pool = 1 /\ pc'[c] # "new"
    BY <1>3 DEF OperationFails, Enter, Goto, Typed
  <2>2. Limit(c) = MaxAttempts /\ n + 1 <= MaxAttempts /\ (n + 1) - 1 = n
    BY <1>1, <1>3 DEF Limit
  <2> HIDE DEF n
  <2>3. (n - 1) * MaxAttempts \in Nat /\ ((n + 1) - 1) * MaxAttempts = (n - 1) * MaxAttempts + MaxAttempts
    BY <1>1, <2>2, Budgets
  <2>4. sent[c].pools <= ((n + 1) - 1) * MaxAttempts
    BY <1>1, <1>2, <2>3
  <2>5. ((n + 1) - 1) * MaxAttempts \in Nat
    BY <1>1, <2>3
  <2>6. /\ n + 1 <= Limit(c) /\ sent[c].statements <= n + 1 /\ sent[c].statements <= (n + 1) - 1
        /\ sent[c].pools <= ((n + 1) - 1) * MaxAttempts + 1
        /\ sent[c].pools <= ((n + 1) - 1) * MaxAttempts + 1 - 1
    BY <1>1, <1>2, <2>2, <2>4, <2>5
  <2> QED BY <2>1, <2>6 DEF Spent, Limit
<1>4. CASE ~(retryable /\ c \notin HealthChecks /\ n < MaxAttempts)
  <2>1. attempt' = attempt /\ pc'[c] = "failed"
    BY <1>4 DEF OperationFails, Goto, Typed
  <2> QED BY <2>1 DEF Spent, Limit, Initialising
<1> QED BY <1>3, <1>4

LEMMA InitFailsSpent ==
  ASSUME Typed, NEW c \in Calls, Spent(c), NEW retryable \in BOOLEAN,
         InitFails(c, retryable), sent' = sent, pc[c] \in Initialising
  PROVE  Spent(c)'
<1>1. CASE retryable /\ attempt[c].pool < MaxAttempts
  <2> DEFINE b == (attempt[c].operation - 1) * MaxAttempts
  <2>1. /\ attempt'[c].operation = attempt[c].operation
        /\ attempt'[c].pool = attempt[c].pool + 1 /\ pc'[c] = "connect"
    BY <1>1 DEF InitFails, Goto, Typed
  <2>2. /\ attempt[c].operation \in Nat \ {0} /\ attempt[c].pool \in Nat /\ MaxAttempts \in Nat
        /\ sent[c].pools \in Nat /\ sent[c].pools <= b + attempt[c].pool
    BY AttemptTypes DEF Typed, Spent
  <2>3. b \in Nat
    BY <2>2, Budgets
  <2> HIDE DEF b
  <2>4. /\ sent[c].pools <= b + (attempt[c].pool + 1)
        /\ sent[c].pools <= b + (attempt[c].pool + 1) - 1
    BY <2>2, <2>3
  <2> QED BY <2>1, <2>4 DEF Spent, Limit, Initialising, b
<1>2. CASE ~(retryable /\ attempt[c].pool < MaxAttempts)
  BY <1>2, OperationFailsSpent DEF InitFails
<1> QED BY <1>1, <1>2

\* A step is about one call.
LEMMA OthersSpend ==
  ASSUME Typed, NEW c \in Calls, Begin(c) \/ Cancel(c) \/ Work(c), NEW o \in Calls \ {c}
  PROVE  pc'[o] = pc[o] /\ attempt'[o] = attempt[o] /\ sent'[o] = sent[o]
<1>1. CASE Begin(c) \/ Cancel(c)
  BY <1>1 DEF Begin, Cancel, Enter, Goto, Typed
<1>2. CASE Connected(c) \/ SchemaEnsured(c) \/ Execute(c) \/ Return(c)
  BY <1>2 DEF Connected, SchemaEnsured, Execute, Return, Goto, Typed
<1>3. ASSUME NEW retryable \in BOOLEAN,
             ConnectFails(c, retryable) \/ SchemaFails(c, retryable) \/ ExecuteFails(c, retryable)
      PROVE  pc'[o] = pc[o] /\ attempt'[o] = attempt[o] /\ sent'[o] = sent[o]
  BY <1>3 DEF ConnectFails, SchemaFails, ExecuteFails, InitFails, OperationFails, Enter, Goto, Typed
<1> QED BY <1>1, <1>2, <1>3 DEF Work

LEMMA SpentStep ==
  ASSUME Typed, NEW c \in Calls, Begin(c) \/ Cancel(c) \/ Work(c), Spent(c)
  PROVE  Spent(c)'
<1> DEFINE n == attempt[c].operation
           b == (n - 1) * MaxAttempts
<1>1. /\ n \in Nat \ {0} /\ attempt[c].pool \in Nat /\ MaxAttempts \in Nat
      /\ sent[c].pools \in Nat /\ sent[c].statements \in Nat
  BY AttemptTypes DEF Typed
<1>2. b \in Nat
  BY <1>1, Budgets
<1>3. CASE Begin(c)
  <2>1. /\ attempt'[c].operation = 1 /\ attempt'[c].pool = 1 /\ sent' = sent
        /\ pc[c] = "new"
    BY <1>3 DEF Begin, Enter, Typed
  <2>2. sent[c].pools = 0 /\ sent[c].statements = 0 /\ pc'[c] # "new"
    BY <1>3, <2>1 DEF Begin, Enter, Goto, Typed, Spent
  <2>3. 1 <= Limit(c) /\ (1 - 1) * MaxAttempts = 0
    BY <1>1, StorageAssumption DEF Limit
  <2> QED BY <2>1, <2>2, <2>3 DEF Spent, Limit
<1>4. CASE Connected(c)
  <2>1. /\ attempt' = attempt /\ pc[c] = "connect" /\ pc'[c] = "schema"
        /\ sent'[c].pools = sent[c].pools + 1 /\ sent'[c].statements = sent[c].statements
    BY <1>4 DEF Connected, Goto, Typed
  <2>2. /\ sent[c].pools <= b + attempt[c].pool - 1 /\ sent[c].statements <= n - 1
        /\ sent[c].statements <= n /\ n <= Limit(c)
    BY <2>1 DEF Spent, Initialising
  <2>3. sent[c].pools + 1 <= b + attempt[c].pool
    <3> HIDE DEF b, n
    <3> QED BY <1>1, <1>2, <2>2
  <2> QED BY <2>1, <2>2, <2>3 DEF Spent, Limit
<1>5. CASE Execute(c)
  <2>1. /\ attempt' = attempt /\ pc[c] = "execute" /\ pc'[c] = "reply"
        /\ sent'[c].pools = sent[c].pools /\ sent'[c].statements = sent[c].statements + 1
    BY <1>5 DEF Execute, Goto, Typed
  <2>2. /\ sent[c].pools <= b + attempt[c].pool /\ sent[c].statements <= n - 1
        /\ n <= Limit(c)
    BY <2>1 DEF Spent
  <2>3. sent[c].statements + 1 <= n
    <3> HIDE DEF n
    <3> QED BY <1>1, <2>2
  <2> QED BY <2>1, <2>2, <2>3 DEF Spent, Limit, Initialising
<1>6. CASE SchemaEnsured(c)
  BY <1>6 DEF SchemaEnsured, Goto, Typed, Spent, Limit, Initialising
<1>7. CASE Return(c) \/ Cancel(c)
  BY <1>7 DEF Return, Cancel, Goto, Typed, Spent, Limit, Initialising
<1>8. ASSUME NEW retryable \in BOOLEAN,
             ConnectFails(c, retryable) \/ SchemaFails(c, retryable) \/ ExecuteFails(c, retryable)
      PROVE  Spent(c)'
  BY <1>8, InitFailsSpent, OperationFailsSpent
     DEF ConnectFails, SchemaFails, ExecuteFails, Initialising
<1> QED BY <1>3, <1>4, <1>5, <1>6, <1>7, <1>8 DEF Work

LEMMA SpendingStep == Typed /\ Spending /\ [Next]_vars => Spending'
<1> SUFFICES ASSUME Typed, Spending, [Next]_vars, NEW o \in Calls PROVE Spent(o)'
  BY DEF Spending
<1>1. Spent(o)
  BY DEF Spending
<1>2. CASE UNCHANGED vars
  BY <1>1, <1>2 DEF vars, Spent, Limit
<1>3. ASSUME NEW c \in Calls, Begin(c) \/ Cancel(c) \/ Work(c) PROVE Spent(o)'
  <2>1. CASE o = c
    BY <1>1, <1>3, <2>1, SpentStep
  <2>2. CASE o # c
    <3>1. pc'[o] = pc[o] /\ attempt'[o] = attempt[o] /\ sent'[o] = sent[o]
      BY <1>3, <2>2, OthersSpend
    <3> QED BY <1>1, <3>1 DEF Spent, Limit
  <2> QED BY <2>1, <2>2
<1> QED BY <1>2, <1>3 DEF Next

LEMMA Starts == Init => Typed /\ Pools /\ Begun /\ Written /\ Spending
<1> SUFFICES ASSUME Init PROVE Typed /\ Pools /\ Begun /\ Written /\ Spending
  OBVIOUS
<1>1. 1 \in 1..MaxAttempts
  BY StorageAssumption
<1>2. Typed
  <2>1. /\ pool = FALSE /\ created = 0 /\ broken = 0 /\ peak = 0 /\ row = [k \in Keys |-> Nobody]
        /\ pc = [c \in Calls |-> "new"] /\ before = [c \in Calls |-> {}]
    BY DEF Init
  <2>2. attempt \in [Calls -> [operation : 1..MaxAttempts, pool : 1..MaxAttempts]]
    <3>1. [operation |-> 1, pool |-> 1] \in [operation : 1..MaxAttempts, pool : 1..MaxAttempts]
      BY <1>1
    <3> QED BY <3>1 DEF Init
  <2>3. pc \in [Calls -> Places]
    BY <2>1 DEF Places
  <2>4. row \in [Keys -> Calls \cup {Nobody}]
    BY <2>1
  <2>5. before \in [Calls -> SUBSET Calls]
    BY <2>1
  <2>6. pool \in BOOLEAN
    BY <2>1, Zenon
  <2>7. created \in Nat /\ broken \in Nat /\ peak \in Nat
    BY <2>1
  <2>8. sent \in [Calls -> [pools : Nat, statements : Nat]]
    <3>1. [pools |-> 0, statements |-> 0] \in [pools : Nat, statements : Nat]
      OBVIOUS
    <3> QED BY <3>1 DEF Init
  <2> QED BY <2>2, <2>3, <2>4, <2>5, <2>6, <2>7, <2>8 DEF Typed
<1>3. \A place \in {"connect", "schema"} : At(place) = {}
  BY DEF Init, At
<1>4. Number("connect") = 0 /\ Number("schema") = 0 /\ Cardinality(Calls) \in Nat
  BY <1>3, FS_EmptySet, FS_CardinalityType, StorageAssumption DEF Number
<1>5. Pools
  BY <1>4 DEF Init, Pools, kept
<1>6. Begun /\ Written
  BY DEF Init, Begun, Written
<1>7. Spending
  <2> SUFFICES ASSUME NEW c \in Calls PROVE Spent(c)
    BY DEF Spending
  <2>1. /\ attempt[c].operation = 1 /\ attempt[c].pool = 1
        /\ sent[c].pools = 0 /\ sent[c].statements = 0
    BY DEF Init
  <2>2. Limit(c) >= 1 /\ (1 - 1) * MaxAttempts = 0
    BY StorageAssumption DEF Limit
  <2> QED BY <2>1, <2>2 DEF Spent
<1> QED BY <1>2, <1>5, <1>6, <1>7

-----------------------------------------------------------------------------
(* The theorems *)

LEMMA Invariance == Spec => [](Typed /\ Pools /\ Begun /\ Written /\ Spending)
<1>1. Typed /\ Pools /\ Begun /\ Written /\ Spending /\ [Next]_vars
        => (Typed /\ Pools /\ Begun /\ Written /\ Spending)'
  BY TypedStep, BegunStep, WrittenStep, SpendingStep
<1> QED BY <1>1, Starts, PTL DEF Spec

LEMMA PoolsExist == Typed /\ Pools => kept \in Nat /\ kept <= peak
<1> SUFFICES ASSUME Typed, Pools PROVE kept \in Nat /\ kept <= peak
  OBVIOUS
<1>1. Number("connect") \in Nat /\ Number("schema") \in Nat
  BY Numbers
<1> QED BY <1>1 DEF Pools, Typed, kept

\* For any number of calls and attempts: the state is well typed; no pool is counted
\* as broken off that was not created.
THEOREM TypeCorrect == Spec => []TypeOK
<1>1. Typed /\ Pools => TypeOK
  BY PoolsExist DEF Typed, Pools, TypeOK, Places, kept
<1> QED BY <1>1, Invariance, PTL

\* For any number of calls and attempts, under errors and cancellations: the pools,
\* none of which is closed, are no more than the calls that were initialising at one
\* time and one for each initialisation that broke off.
THEOREM LeaksAreBounded == Spec => []LeaksBounded
<1>1. Typed /\ Pools => LeaksBounded
  BY PoolsExist DEF Typed, LeaksBounded, kept
<1> QED BY <1>1, Invariance, PTL

\* For any number of calls and attempts: retries inside retries have no statement
\* executed more often than the limit and no more pools created than its square.
THEOREM AttemptsAreBounded == Spec => []AttemptsBounded
<1>1. Typed /\ Spending => AttemptsBounded
  <2> SUFFICES ASSUME Typed, Spending, NEW c \in Calls
               PROVE  sent[c].statements <= Limit(c) /\ sent[c].pools <= Limit(c) * MaxAttempts
    BY DEF AttemptsBounded
  <2> DEFINE n == attempt[c].operation
  <2>1. /\ n \in Nat \ {0} /\ MaxAttempts \in Nat /\ Limit(c) \in Nat
        /\ attempt[c].pool \in Nat /\ attempt[c].pool <= MaxAttempts
        /\ sent[c].pools \in Nat /\ sent[c].statements \in Nat
    BY AttemptTypes DEF Typed, Limit
  <2>2. /\ n <= Limit(c) /\ sent[c].statements <= n
        /\ sent[c].pools <= (n - 1) * MaxAttempts + attempt[c].pool
    BY DEF Spending, Spent
  <2> HIDE DEF n
  <2>3. (n - 1) * MaxAttempts \in Nat /\ Limit(c) * MaxAttempts \in Nat
        /\ (n - 1) * MaxAttempts + MaxAttempts <= Limit(c) * MaxAttempts
    BY <2>1, <2>2, Budgets
  <2> QED BY <2>1, <2>2, <2>3
<1> QED BY <1>1, Invariance, PTL

\* For any number of calls and attempts: a write that has returned is never
\* superseded by one that had ended before it began.
THEOREM NewestStays == Spec => []NewestWriteStays
<1>1. Written => NewestWriteStays
  BY DEF Written, NewestWriteStays
<1> QED BY <1>1, Invariance, PTL
=============================================================================
