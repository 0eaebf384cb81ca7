--------------------------- MODULE Orchestrator_proof ---------------------------
(***************************************************************************)
(* What holds of the requests of the service and of the memory they leave, *)
(* for all sets of requests and threads, with local and with remote stores.*)
(***************************************************************************)
EXTENDS Orchestrator, TLAPS, SequenceTheorems

Memories == Seq(Requests)
Histories == Seq(Memories) \ {<<>>}

-----------------------------------------------------------------------------
(* Snapshots and histories *)

LEMMA EmptyMemory == <<>> \in Memories /\ Range(<<>>) = {}
BY EmptySeq DEF Memories, Range

LEMMA AppendMemory ==
  ASSUME NEW m \in Memories, NEW r \in Requests
  PROVE  Append(m, r) \in Memories /\ Range(Append(m, r)) = Range(m) \cup {r}
<1>1. /\ Append(m, r) \in Memories
      /\ DOMAIN m = 1..Len(m) /\ DOMAIN Append(m, r) = 1..(Len(m) + 1) /\ Len(m) \in Nat
      /\ \A i \in 1..Len(m) : Append(m, r)[i] = m[i]
      /\ Append(m, r)[Len(m) + 1] = r
  BY AppendProperties, LenProperties DEF Memories
<1>2. 1..(Len(m) + 1) = (1..Len(m)) \cup {Len(m) + 1}
  BY <1>1
<1> QED BY <1>1, <1>2 DEF Range

LEMMA FirstHistory == << <<>> >> \in Histories /\ Range(<< <<>> >>) = { <<>> }
<1>1. << <<>> >> \in Seq(Memories) /\ << <<>> >> # <<>>
  BY EmptyMemory
<1>2. DOMAIN << <<>> >> = {1}
  OBVIOUS
<1> QED BY <1>1, <1>2 DEF Histories, Range

LEMMA HistoryGrows ==
  ASSUME NEW h \in Histories, NEW m \in Memories
  PROVE  /\ Append(h, m) \in Histories
         /\ Range(Append(h, m)) = Range(h) \cup {m}
<1>1. h \in Seq(Memories)
  BY DEF Histories
<1>2. /\ Append(h, m) \in Histories
      /\ DOMAIN h = 1..Len(h) /\ DOMAIN Append(h, m) = 1..(Len(h) + 1) /\ Len(h) \in Nat
      /\ \A i \in 1..Len(h) : Append(h, m)[i] = h[i]
      /\ Append(h, m)[Len(h) + 1] = m
  BY <1>1, AppendProperties, LenProperties DEF Histories
<1>3. 1..(Len(h) + 1) = (1..Len(h)) \cup {Len(h) + 1}
  BY <1>2
<1> QED BY <1>2, <1>3 DEF Range

LEMMA LastOfHistory ==
  ASSUME NEW h \in Histories
  PROVE  h[Len(h)] \in Range(h) /\ Range(h) \subseteq Memories
<1>1. h \in Seq(Memories) /\ h # <<>>
  BY DEF Histories
<1>2. DOMAIN h = 1..Len(h) /\ Len(h) \in Nat /\ \A i \in 1..Len(h) : h[i] \in Memories
  BY <1>1, LenProperties, ElementOfSeq
<1>3. Len(h) # 0
  BY <1>1, EmptySeq
<1> QED BY <1>2, <1>3 DEF Range

LEMMA MemoriesOfRequests == \A m \in Memories : Range(m) \subseteq Requests
<1> SUFFICES ASSUME NEW m \in Memories PROVE Range(m) \subseteq Requests
  OBVIOUS
<1>1. \A i \in DOMAIN m : m[i] \in Requests
  BY LenProperties, ElementOfSeq DEF Memories
<1> QED BY <1>1 DEF Range

-----------------------------------------------------------------------------
(* Type correctness *)

\* How often a request's record can have been delivered where it stands.
Delivered ==
  \A r \in Requests :
    /\ pc[r] \in {"new", "get", "search", "reason"} => attempt[r] = 1 /\ deliveries[r] = 0
    /\ pc[r] = "log" => deliveries[r] < attempt[r]
    /\ pc[r] = "logging" => deliveries[r] <= attempt[r]

Placed ==
  /\ remote \subseteq {"trajectory", "session"}
  /\ pc \in [Requests -> {"new"} \cup Waiting \cup Ended]
  /\ prior \in [Requests -> Memories]
  /\ recalled \in [Requests -> SUBSET Requests]
  /\ history \in [Threads -> Histories]
  /\ overlapped \in [Requests -> SUBSET Requests]

Counted ==
  /\ attempt \in [Requests -> 1..MaxAttempts]
  /\ deliveries \in [Requests -> 0..MaxAttempts]

LEMMA StoredTyped ==
  ASSUME Placed, NEW t \in Threads
  PROVE  /\ Stored(t) \in Memories /\ Stored(t) \in Range(history[t])
         /\ Range(Stored(t)) \subseteq Requests
<1>1. history[t] \in Histories
  BY DEF Placed
<1>2. Stored(t) \in Memories /\ Stored(t) \in Range(history[t])
  BY <1>1, LastOfHistory DEF Stored
<1> QED BY <1>2, MemoriesOfRequests

LEMMA MineTyped ==
  ASSUME Placed, NEW r \in Requests
  PROVE  Mine(r) \in Memories /\ Range(Mine(r)) = Range(prior[r]) \cup {r}
BY AppendMemory DEF Placed, Mine

LEMMA PlacedStep == Placed /\ [Next]_vars => Placed'
<1> SUFFICES ASSUME Placed, [Next]_vars PROVE Placed'
  OBVIOUS
<1>1. CASE UNCHANGED vars
  BY <1>1 DEF vars, Placed
<1>2. ASSUME NEW r \in Requests, Begin(r) \/ Cancel(r) \/ Work(r) PROVE Placed'
  <2>1. CASE Get(r)
    <3>1. Stored(ThreadOf[r]) \in Memories
      BY StoredTyped, OrchestratorAssumption
    <3> QED BY <2>1, <3>1 DEF Get, Goto, Placed, Waiting
  <2>2. CASE Search(r)
    <3>1. PICK found \in SUBSET (Threads \ {ThreadOf[r]}) :
            recalled' = [recalled EXCEPT ![r] = UNION {Range(Stored(t)) : t \in found}]
      BY <2>2 DEF Search
    <3>2. UNION {Range(Stored(t)) : t \in found} \subseteq Requests
      BY StoredTyped
    <3> QED BY <2>2, <3>1, <3>2 DEF Search, Goto, Placed, Waiting
  <2>3. CASE Put(r)
    <3>1. ThreadOf[r] \in Threads
      BY OrchestratorAssumption
    <3>2. history' = [history EXCEPT ![ThreadOf[r]] = Append(history[ThreadOf[r]], Mine(r))]
      BY <2>3 DEF Put
    <3>3. Append(history[ThreadOf[r]], Mine(r)) \in Histories
      BY <3>1, MineTyped, HistoryGrows DEF Placed
    <3>4. history' \in [Threads -> Histories]
      BY <3>1, <3>2, <3>3 DEF Placed
    <3> QED BY <2>3, <3>4 DEF Put, Goto, Placed, Waiting
  <2>4. ASSUME NEW retryable \in BOOLEAN, WriteFails(r, retryable) PROVE Placed'
    BY <2>4 DEF WriteFails, Goto, Placed, Waiting, Ended
  <2>5. CASE Begin(r)
    <3>1. overlapped' \in [Requests -> SUBSET Requests]
      BY <2>5 DEF Begin, Placed
    <3> QED BY <2>5, <3>1 DEF Begin, Goto, Placed, Waiting
  <2>6. CASE Reason(r) \/ Log(r) \/ Logged(r) \/ Answer(r) \/ CallFails(r)
             \/ Cancel(r)
    BY <2>6 DEF Reason, Log, Logged, Answer, CallFails, Cancel, Goto, Placed, Waiting,
                Ended
  <2> QED BY <1>2, <2>1, <2>2, <2>3, <2>4, <2>5, <2>6 DEF Work
<1> QED BY <1>1, <1>2 DEF Next

LEMMA CountedStep == Placed /\ Counted /\ Delivered /\ [Next]_vars => (Counted /\ Delivered)'
<1> SUFFICES ASSUME Placed, Counted, Delivered, [Next]_vars PROVE (Counted /\ Delivered)'
  OBVIOUS
<1>0. MaxAttempts \in Nat \ {0} /\ pc \in [Requests -> {"new"} \cup Waiting \cup Ended]
  BY OrchestratorAssumption DEF Placed
<1>1. CASE UNCHANGED vars
  BY <1>1 DEF vars, Counted, Delivered
<1>2. ASSUME NEW r \in Requests, Begin(r) \/ Cancel(r) \/ Work(r)
      PROVE  (Counted /\ Delivered)'
  <2> USE <1>0
  <2>1. CASE Begin(r) \/ Get(r) \/ Search(r) \/ Reason(r) \/ Put(r) \/ Answer(r)
             \/ CallFails(r) \/ Cancel(r)
    BY <2>1 DEF Begin, Get, Search, Reason, Put, Answer, CallFails, Cancel, Goto,
                Counted, Delivered
  <2>2. CASE Log(r)
    BY <2>2 DEF Log, Goto, Counted, Delivered
  <2>3. CASE Logged(r)
    BY <2>3 DEF Logged, Goto, Counted, Delivered
  <2>4. ASSUME NEW retryable \in BOOLEAN, WriteFails(r, retryable)
        PROVE  (Counted /\ Delivered)'
    BY <2>4 DEF WriteFails, Goto, Counted, Delivered
  <2> QED BY <1>2, <2>1, <2>2, <2>3, <2>4 DEF Work
<1> QED BY <1>1, <1>2 DEF Next

LEMMA StartsTyped == Init => Placed /\ Counted /\ Delivered
<1> SUFFICES ASSUME Init PROVE Placed /\ Counted /\ Delivered
  OBVIOUS
<1>1. Placed
  BY EmptyMemory, FirstHistory, OrchestratorAssumption DEF Init, Placed
<1>2. Counted /\ Delivered
  BY OrchestratorAssumption DEF Init, Counted, Delivered
<1> QED BY <1>1, <1>2

\* Type correctness; in particular no trajectory record is delivered more often
\* than retry_async attempts it.
THEOREM TypeCorrect == Spec => []TypeOK
<1>1. Placed /\ Counted => TypeOK
  BY DEF Placed, Counted, TypeOK, Memories, Histories
<1> QED BY <1>1, StartsTyped, PlacedStep, CountedStep, PTL DEF Spec

-----------------------------------------------------------------------------
(* Nothing is remembered that was not logged *)

\* Whoever can still write a snapshot has had its own record delivered, and so
\* has everybody in the snapshot it would extend.
Accountable ==
  \A r \in Requests :
    /\ pc[r] \in {"logging", "put", "putting", "done"} => deliveries[r] > 0
    /\ \A o \in Range(prior[r]) \cup recalled[r] : deliveries[o] > 0

Remembered ==
  \A t \in Threads : \A s \in Range(history[t]) : \A o \in Range(s) : deliveries[o] > 0

LEMMA DeliveriesGrow ==
  ASSUME Counted, [Next]_vars, NEW o \in Requests, deliveries[o] > 0
  PROVE  deliveries'[o] > 0
<1>1. deliveries \in [Requests -> Nat]
  BY OrchestratorAssumption DEF Counted
<1>2. deliveries' = deliveries \/ \E r \in Requests : deliveries' = [deliveries EXCEPT ![r] = @ + 1]
  BY DEF Next, Work, Begin, Get, Search, Reason, Log, Logged, Put, Answer, WriteFails,
         CallFails, Cancel, vars
<1> QED BY <1>1, <1>2

LEMMA RememberedStep ==
  Placed /\ Counted /\ Accountable /\ Remembered /\ [Next]_vars => Remembered'
<1> SUFFICES ASSUME Placed, Counted, Accountable, Remembered, [Next]_vars
             PROVE  Remembered'
  OBVIOUS
<1>1. \A t \in Threads : \A s \in Range(history[t]) : \A o \in Range(s) : o \in Requests
  BY LastOfHistory, MemoriesOfRequests DEF Placed
<1>2. CASE history' = history
  BY <1>1, <1>2, DeliveriesGrow DEF Remembered
<1>3. ASSUME NEW r \in Requests, Put(r) PROVE Remembered'
  <2>1. ThreadOf[r] \in Threads /\ history[ThreadOf[r]] \in Histories /\ Mine(r) \in Memories
    BY OrchestratorAssumption, MineTyped DEF Placed
  <2>2. history' = [history EXCEPT ![ThreadOf[r]] = Append(history[ThreadOf[r]], Mine(r))]
        /\ deliveries' = deliveries /\ pc[r] = "put"
    BY <1>3 DEF Put
  <2>3. Range(Append(history[ThreadOf[r]], Mine(r))) = Range(history[ThreadOf[r]]) \cup {Mine(r)}
    BY <2>1, HistoryGrows
  <2>4. \A o \in Range(Mine(r)) : deliveries[o] > 0
    BY <2>2, MineTyped DEF Accountable
  <2>5. history \in [Threads -> Histories]
    BY DEF Placed
  <2> QED BY <2>1, <2>2, <2>3, <2>4, <2>5 DEF Remembered
<1>4. history' = history \/ \E r \in Requests : Put(r)
  BY DEF Next, Work, Begin, Get, Search, Reason, Log, Logged, Answer, WriteFails,
         CallFails, Cancel, vars
<1> QED BY <1>2, <1>3, <1>4

LEMMA AccountableStep ==
  Placed /\ Counted /\ Accountable /\ Remembered /\ [Next]_vars => Accountable'
<1> SUFFICES ASSUME Placed, Counted, Accountable, Remembered, [Next]_vars,
                    NEW r \in Requests
             PROVE  /\ pc'[r] \in {"logging", "put", "putting", "done"} => deliveries'[r] > 0
                    /\ \A o \in Range(prior'[r]) \cup recalled'[r] : deliveries'[o] > 0
  BY DEF Accountable
<1>0. /\ pc \in [Requests -> {"new"} \cup Waiting \cup Ended]
      /\ deliveries \in [Requests -> Nat]
      /\ prior \in [Requests -> Memories] /\ recalled \in [Requests -> SUBSET Requests]
  BY OrchestratorAssumption DEF Placed, Counted
<1>1. pc'[r] \in {"logging", "put", "putting", "done"} => deliveries'[r] > 0
  <2>1. CASE deliveries[r] > 0
    BY <2>1, DeliveriesGrow
  <2>2. CASE ~(deliveries[r] > 0)
    <3>1. pc[r] \notin {"logging", "put", "putting", "done"}
      BY <2>2 DEF Accountable
    <3>2. ASSUME pc'[r] \in {"logging", "put", "putting", "done"} PROVE Log(r)
      <4>1. \A o \in Requests : o # r /\ (Begin(o) \/ Cancel(o) \/ Work(o)) => pc'[r] = pc[r]
        BY <1>0 DEF Work, Begin, Get, Search, Reason, Log, Logged, Put, Answer, WriteFails,
                    CallFails, Cancel, Goto
      <4>2. Begin(r) \/ Cancel(r) \/ Work(r)
        BY <3>1, <3>2, <4>1 DEF Next, vars
      <4>3. CASE \E retryable \in BOOLEAN : WriteFails(r, retryable)
        BY <1>0, <3>1, <3>2, <4>3 DEF WriteFails, Goto
      <4> QED BY <1>0, <3>1, <3>2, <4>2, <4>3
              DEF Work, Begin, Get, Search, Reason, Logged, Put, Answer, CallFails, Cancel, Goto
    <3>3. Log(r) => deliveries'[r] > 0
      BY <1>0 DEF Log
    <3> QED BY <3>2, <3>3
  <2> QED BY <2>1, <2>2
<1>2. ASSUME NEW o \in Range(prior'[r]) \cup recalled'[r] PROVE deliveries'[o] > 0
  <2>1. o \in Requests /\ deliveries[o] > 0
    <3>1. CASE prior'[r] = prior[r] /\ recalled'[r] = recalled[r]
      BY <1>0, <1>2, <3>1, MemoriesOfRequests DEF Accountable
    <3>2. CASE Get(r)
      <4>1. prior'[r] = Stored(ThreadOf[r]) /\ recalled' = recalled
        BY <1>0, <3>2 DEF Get
      <4>2. ThreadOf[r] \in Threads
        BY OrchestratorAssumption
      <4> QED BY <1>0, <1>2, <4>1, <4>2, StoredTyped DEF Accountable, Remembered
    <3>3. CASE Search(r)
      <4>1. PICK found \in SUBSET (Threads \ {ThreadOf[r]}) :
              recalled' = [recalled EXCEPT ![r] = UNION {Range(Stored(t)) : t \in found}]
        BY <3>3 DEF Search
      <4>2. recalled'[r] = UNION {Range(Stored(t)) : t \in found} /\ prior' = prior
        BY <1>0, <3>3, <4>1 DEF Search
      <4>3. \A t \in found : \A q \in Range(Stored(t)) : q \in Requests /\ deliveries[q] > 0
        BY StoredTyped DEF Remembered
      <4> QED BY <1>0, <1>2, <4>2, <4>3, MemoriesOfRequests DEF Accountable
    <3>4. (prior'[r] = prior[r] /\ recalled'[r] = recalled[r]) \/ Get(r) \/ Search(r)
      BY <1>0 DEF Next, Work, Begin, Get, Search, Reason, Log, Logged, Put, Answer, WriteFails,
                  CallFails, Cancel, vars
    <3> QED BY <3>1, <3>2, <3>3, <3>4
  <2> QED BY <2>1, DeliveriesGrow
<1> QED BY <1>1, <1>2

\* For every set of requests and threads, whichever stores are used, and however
\* calls fail, repeat or overlap: what memory contains was logged before.
THEOREM MemoryIsAudited == Spec => []Audited
<1>1. Init => Accountable /\ Remembered
  <2> SUFFICES ASSUME Init PROVE Accountable /\ Remembered
    OBVIOUS
  <2>1. \A r \in Requests : pc[r] = "new" /\ Range(prior[r]) = {} /\ recalled[r] = {}
    BY EmptyMemory DEF Init
  <2>2. \A t \in Threads : \A s \in Range(history[t]) : Range(s) = {}
    BY EmptyMemory, FirstHistory DEF Init
  <2> QED BY <2>1, <2>2 DEF Accountable, Remembered
<1>2. Accountable /\ Remembered => Audited
  BY DEF Accountable, Remembered, Audited, Snapshots
<1>3. Placed /\ Counted /\ Accountable /\ Remembered /\ [Next]_vars
        => (Accountable /\ Remembered)'
  BY AccountableStep, RememberedStep
<1> QED BY <1>1, <1>2, <1>3, StartsTyped, PlacedStep, CountedStep, PTL DEF Spec

-----------------------------------------------------------------------------
(* Memory is what SnapshotMemory promises *)

\* A request holds a snapshot that its thread has had and that does not contain
\* the request, and a request is in no snapshot before it has read one.
Based ==
  \A r \in Requests :
    /\ prior[r] \in Range(history[ThreadOf[r]])
    /\ r \notin Range(prior[r])
    /\ pc[r] \in {"new", "get"} =>
         \A t \in Threads : \A s \in Range(history[t]) : r \notin Range(s)

LEMMA BasedStep == Placed /\ Based /\ [Next]_vars => Based'
<1> SUFFICES ASSUME Placed, Based, [Next]_vars, NEW r \in Requests
             PROVE  /\ prior'[r] \in Range(history'[ThreadOf[r]])
                    /\ r \notin Range(prior'[r])
                    /\ pc'[r] \in {"new", "get"} =>
                         \A t \in Threads : \A s \in Range(history'[t]) : r \notin Range(s)
  BY DEF Based
<1>0. /\ pc \in [Requests -> {"new"} \cup Waiting \cup Ended]
      /\ prior \in [Requests -> Memories] /\ history \in [Threads -> Histories]
      /\ ThreadOf \in [Requests -> Threads]
  BY OrchestratorAssumption DEF Placed
<1>1. pc'[r] \in {"new", "get"} => pc[r] \in {"new", "get"}
  BY <1>0 DEF Next, Work, Begin, Get, Search, Reason, Log, Logged, Put, Answer, WriteFails,
              CallFails, Cancel, Goto, vars
<1>2. CASE history' = history
  <2>1. CASE prior'[r] = prior[r]
    BY <1>1, <1>2, <2>1 DEF Based
  <2>2. CASE Get(r)
    <3>1. prior'[r] = Stored(ThreadOf[r]) /\ pc[r] = "get"
      BY <1>0, <2>2 DEF Get
    <3>2. ThreadOf[r] \in Threads
      BY <1>0
    <3>3. Stored(ThreadOf[r]) \in Range(history[ThreadOf[r]])
      BY <3>2, StoredTyped
    <3> QED BY <1>1, <1>2, <3>1, <3>2, <3>3 DEF Based
  <2>3. prior'[r] = prior[r] \/ Get(r)
    BY <1>0 DEF Next, Work, Begin, Get, Search, Reason, Log, Logged, Put, Answer, WriteFails,
                CallFails, Cancel, vars
  <2> QED BY <2>1, <2>2, <2>3
<1>3. ASSUME NEW o \in Requests, Put(o)
      PROVE  /\ prior'[r] \in Range(history'[ThreadOf[r]])
             /\ r \notin Range(prior'[r])
             /\ pc'[r] \in {"new", "get"} =>
                  \A t \in Threads : \A s \in Range(history'[t]) : r \notin Range(s)
  <2>1. /\ prior' = prior /\ pc[o] = "put" /\ pc'[o] = "putting"
        /\ history' = [history EXCEPT ![ThreadOf[o]] = Append(history[ThreadOf[o]], Mine(o))]
    BY <1>0, <1>3 DEF Put, Goto
  <2>2. ThreadOf[o] \in Threads /\ Mine(o) \in Memories
    BY <1>0, MineTyped
  <2>3. Range(Append(history[ThreadOf[o]], Mine(o))) = Range(history[ThreadOf[o]]) \cup {Mine(o)}
    BY <1>0, <2>2, HistoryGrows
  <2>4. \A t \in Threads : /\ Range(history[t]) \subseteq Range(history'[t])
                           /\ Range(history'[t]) \subseteq Range(history[t]) \cup {Mine(o)}
    BY <1>0, <2>1, <2>2, <2>3
  <2>5. pc'[r] \in {"new", "get"} => r \notin Range(Mine(o))
    <3> SUFFICES ASSUME pc'[r] \in {"new", "get"} PROVE r \notin Range(Mine(o))
      OBVIOUS
    <3>1. r # o
      BY <2>1
    <3>2. r \notin Range(prior[o])
      BY <1>0, <1>1 DEF Based
    <3> QED BY <3>1, <3>2, MineTyped
  <2>6. ThreadOf[r] \in Threads
    BY <1>0
  <2> QED BY <1>1, <2>1, <2>4, <2>5, <2>6 DEF Based
<1>4. history' = history \/ \E o \in Requests : Put(o)
  BY DEF Next, Work, Begin, Get, Search, Reason, Log, Logged, Answer, WriteFails,
         CallFails, Cancel, vars
<1> QED BY <1>2, <1>3, <1>4

LEMMA BasedAlways == Spec => [](Placed /\ Based)
<1>1. Init => Based
  <2> SUFFICES ASSUME Init, NEW r \in Requests
               PROVE  /\ prior[r] \in Range(history[ThreadOf[r]])
                      /\ r \notin Range(prior[r])
                      /\ \A t \in Threads : \A s \in Range(history[t]) : r \notin Range(s)
    BY DEF Based
  <2>1. ThreadOf[r] \in Threads
    BY OrchestratorAssumption
  <2>2. prior[r] = <<>> /\ \A t \in Threads : history[t] = << <<>> >>
    BY DEF Init
  <2> QED BY <2>1, <2>2, EmptyMemory, FirstHistory
<1> QED BY <1>1, StartsTyped, PlacedStep, BasedStep, PTL DEF Spec

\* Every thread's history only ever grows by a snapshot that adds one request to
\* an earlier snapshot which lacked it, also when puts are repeated after a lost
\* acknowledgement: the requests of the service implement SnapshotMemory.
THEOREM ImplementsMemory == Spec => MemorySpec
<1>1. Init => Memory!Init
  BY DEF Init, Memory!Init
<1>2. Placed /\ Based /\ [Next]_vars => [Memory!Next]_history
  <2> SUFFICES ASSUME Placed, Based, [Next]_vars, history' # history PROVE Memory!Next
    OBVIOUS
  <2>1. PICK r \in Requests : Put(r)
    BY DEF Next, Work, Begin, Get, Search, Reason, Log, Logged, Answer, WriteFails,
           CallFails, Cancel, vars
  <2>2. PICK i \in DOMAIN history[ThreadOf[r]] : history[ThreadOf[r]][i] = prior[r]
    BY DEF Based, Range
  <2>3. r \notin Range(prior[r])
    BY DEF Based
  <2>4. history' = [history EXCEPT ![ThreadOf[r]] =
                      Append(history[ThreadOf[r]], Append(prior[r], r))]
    BY <2>1 DEF Put, Mine
  <2>5. Memory!Range(prior[r]) = Range(prior[r])
    BY DEF Memory!Range, Range
  <2> QED BY <2>2, <2>3, <2>4, <2>5 DEF Memory!Next, Memory!Write
<1> QED BY <1>1, <1>2, BasedAlways, PTL DEF Spec, MemorySpec, Memory!Spec

-----------------------------------------------------------------------------
(* What a step changes *)

LEMMA OnlyPutWrites ==
  ASSUME Placed, [Next]_vars
  PROVE  \/ history' = history
         \/ \E r \in Requests :
              /\ Put(r) /\ pc[r] = "put" /\ pc' = [pc EXCEPT ![r] = "putting"]
              /\ history' = [history EXCEPT ![ThreadOf[r]] = Append(history[ThreadOf[r]], Mine(r))]
              /\ prior' = prior /\ overlapped' = overlapped /\ remote' = remote
BY DEF Next, Work, Begin, Get, Search, Reason, Log, Logged, Put, Answer, WriteFails,
       CallFails, Cancel, Goto, vars

LEMMA PutHistory ==
  ASSUME Placed, NEW r \in Requests,
         history' = [history EXCEPT ![ThreadOf[r]] = Append(history[ThreadOf[r]], Mine(r))]
  PROVE  /\ ThreadOf[r] \in Threads /\ Mine(r) \in Memories
         /\ \A t \in Threads : Range(history[t]) \subseteq Range(history'[t])
         /\ \A t \in Threads : Range(history'[t]) \subseteq Range(history[t]) \cup {Mine(r)}
         /\ Mine(r) \in Range(history'[ThreadOf[r]])
         /\ Stored(ThreadOf[r])' = Mine(r)
         /\ \A t \in Threads \ {ThreadOf[r]} : history'[t] = history[t]
<1> DEFINE h == history[ThreadOf[r]]
<1>1. /\ ThreadOf[r] \in Threads /\ Mine(r) \in Memories /\ h \in Histories
      /\ history \in [Threads -> Histories]
  BY OrchestratorAssumption, MineTyped DEF Placed
<1>2. Range(Append(h, Mine(r))) = Range(h) \cup {Mine(r)}
  BY <1>1, HistoryGrows
<1>3. history'[ThreadOf[r]] = Append(h, Mine(r))
  BY <1>1
<1>4. Append(h, Mine(r))[Len(Append(h, Mine(r)))] = Mine(r)
  BY <1>1, AppendProperties, LenProperties DEF Histories
<1>5. Stored(ThreadOf[r])' = Mine(r)
  BY <1>3, <1>4 DEF Stored
<1> QED BY <1>1, <1>2, <1>3, <1>5

\* Mine(r) ends in r.
LEMMA MineEnds ==
  ASSUME Placed, NEW r \in Requests
  PROVE  Mine(r) # <<>> /\ Writer(Mine(r)) = r
<1>1. prior[r] \in Seq(Requests)
  BY DEF Placed, Memories
<1> QED BY <1>1, AppendProperties, LenProperties, EmptySeq DEF Mine, Writer

-----------------------------------------------------------------------------
(* An answer has been stored *)

Acknowledged ==
  \A r \in Requests : pc[r] \in {"putting", "done"} =>
    \E s \in Range(history[ThreadOf[r]]) : s # <<>> /\ Writer(s) = r

LEMMA AcknowledgedStep == Placed /\ Acknowledged /\ [Next]_vars => Acknowledged'
<1> SUFFICES ASSUME Placed, Acknowledged, [Next]_vars, NEW r \in Requests,
                    pc'[r] \in {"putting", "done"}
             PROVE  \E s \in Range(history'[ThreadOf[r]]) : s # <<>> /\ Writer(s) = r
  BY DEF Acknowledged, Writer
<1>0. ThreadOf[r] \in Threads /\ pc \in [Requests -> {"new"} \cup Waiting \cup Ended]
  BY OrchestratorAssumption DEF Placed
<1>1. CASE pc[r] \in {"putting", "done"}
  <2>1. PICK s \in Range(history[ThreadOf[r]]) : s # <<>> /\ Writer(s) = r
    BY <1>1 DEF Acknowledged
  <2>2. Range(history[ThreadOf[r]]) \subseteq Range(history'[ThreadOf[r]])
    BY <1>0, OnlyPutWrites, PutHistory
  <2> QED BY <2>1, <2>2
<1>2. CASE Put(r)
  <2>1. Mine(r) \in Range(history'[ThreadOf[r]])
    BY <1>2, PutHistory DEF Put
  <2> QED BY <2>1, MineEnds
<1>3. pc[r] \in {"putting", "done"} \/ Put(r)
  BY <1>0 DEF Next, Work, Begin, Get, Search, Reason, Log, Logged, Put, Answer, WriteFails,
              CallFails, Cancel, Goto, vars
<1> QED BY <1>1, <1>2, <1>3

\* For any interleaving and any retries an answered request has been written.
THEOREM AnswersAreStored == Spec => []AnsweredIsStored
<1>1. Init => Acknowledged
  BY DEF Init, Acknowledged
<1>2. Acknowledged => AnsweredIsStored
  BY DEF Acknowledged, AnsweredIsStored
<1> QED BY <1>1, <1>2, BasedAlways, AcknowledgedStep, PTL DEF Spec

-----------------------------------------------------------------------------
(* The in-memory session store *)

\* A request that is in memory has returned from its put.
Committed ==
  "session" \notin remote =>
    \A r \in Requests : \A t \in Threads : \A s \in Range(history[t]) :
      r \in Range(s) => pc[r] \in {"putting", "done", "cancelled"}

LEMMA CommittedStep == Placed /\ Based /\ Committed /\ [Next]_vars => Committed'
<1> SUFFICES ASSUME Placed, Based, Committed, [Next]_vars, "session" \notin remote',
                    NEW r \in Requests, NEW t \in Threads,
                    NEW s \in Range(history'[t]), r \in Range(s)
             PROVE  pc'[r] \in {"putting", "done", "cancelled"}
  BY DEF Committed
<1>0. /\ pc \in [Requests -> {"new"} \cup Waiting \cup Ended] /\ remote' = remote
  BY DEF Placed, Next, Work, Begin, Get, Search, Reason, Log, Logged, Put, Answer, WriteFails,
         CallFails, Cancel, vars
<1>1. pc[r] \in {"putting", "done", "cancelled"} => pc'[r] \in {"putting", "done", "cancelled"}
  BY <1>0 DEF Next, Work, Begin, Get, Search, Reason, Log, Logged, Put, Answer, WriteFails,
              CallFails, Cancel, Goto, Target, vars
<1>2. CASE history' = history
  BY <1>0, <1>1, <1>2 DEF Committed
<1>3. ASSUME NEW o \in Requests, pc' = [pc EXCEPT ![o] = "putting"],
             history' = [history EXCEPT ![ThreadOf[o]] = Append(history[ThreadOf[o]], Mine(o))]
      PROVE  pc'[r] \in {"putting", "done", "cancelled"}
  <2>1. s \in Range(history[t]) \/ s = Mine(o)
    BY <1>3, PutHistory
  <2>2. CASE s \in Range(history[t])
    BY <1>0, <1>1, <2>2 DEF Committed
  <2>3. CASE s = Mine(o) /\ r = o
    BY <1>0, <1>3, <2>3
  <2>4. CASE s = Mine(o) /\ r # o
    <3>1. r \in Range(prior[o]) /\ prior[o] \in Range(history[ThreadOf[o]])
          /\ ThreadOf[o] \in Threads
      BY <2>4, MineTyped, OrchestratorAssumption DEF Based
    <3> QED BY <1>0, <1>1, <3>1 DEF Committed
  <2> QED BY <2>1, <2>2, <2>3, <2>4
<1> QED BY <1>2, <1>3, OnlyPutWrites

LEMMA CommittedAlways == Spec => [](Placed /\ Based /\ Committed)
<1>1. Init => Committed
  <2> SUFFICES ASSUME Init PROVE Committed
    OBVIOUS
  <2>1. \A t \in Threads : \A s \in Range(history[t]) : Range(s) = {}
    BY EmptyMemory, FirstHistory DEF Init
  <2> QED BY <2>1 DEF Committed
<1> QED BY <1>1, BasedAlways, CommittedStep, PTL DEF Spec

\* With the in-memory session store whoever failed is in no snapshot, for any
\* interleaving of any number of requests.
THEOREM FailuresLeaveNoMemory == Spec => []FailureLeavesNoMemory
<1>1. Committed => FailureLeavesNoMemory
  BY DEF Committed, FailureLeavesNoMemory, Snapshots
<1> QED BY <1>1, CommittedAlways, PTL

-----------------------------------------------------------------------------
(* Only who overlaps erases first *)

\* Requests of a thread that run at one time are on record as overlapping.
Recorded ==
  \A r \in Requests : \A o \in Requests \ {r} :
    ThreadOf[o] = ThreadOf[r] /\ pc[r] \in Waiting /\ pc[o] \in Waiting => o \in overlapped[r]

\* A thread's snapshots are about its own requests.
Own == \A t \in Threads : \A s \in Range(history[t]) : \A o \in Range(s) : ThreadOf[o] = t

Known(t, o) == \E s \in Range(history[t]) : o \in Range(s)
WasErased(t, o) == \E i \in 2..Len(history[t]) : o \in Erased(t, i)

\* Every snapshot but the first was put by a request.
Signed == \A t \in Threads : \A i \in 2..Len(history[t]) : Writer(history[t][i]) \in Requests

\* What was stored is stored, unless it was erased.
Stays ==
  \A t \in Threads : \A o \in Requests :
    Known(t, o) => o \in Range(Stored(t)) \/ WasErased(t, o)

\* Whoever has read its thread's snapshot has read of every request stored so far,
\* unless the two overlapped or the other one was erased.
Informed ==
  \A r \in Requests : pc[r] \in Waiting \ {"get"} =>
    \A o \in Requests \ {r} : Known(ThreadOf[r], o) =>
      o \in Range(prior[r]) \/ o \in overlapped[r] \/ WasErased(ThreadOf[r], o)

LEMMA OverlapsGrow ==
  ASSUME Placed, [Next]_vars, NEW r \in Requests
  PROVE  overlapped[r] \subseteq overlapped'[r]
<1>1. ASSUME NEW q \in Requests, Begin(q) PROVE overlapped[r] \subseteq overlapped'[r]
  BY <1>1 DEF Begin
<1> QED BY <1>1 DEF Next, Work, Get, Search, Reason, Log, Logged, Put, Answer, WriteFails,
                    CallFails, Cancel, vars

LEMMA RecordedStep == Placed /\ Recorded /\ [Next]_vars => Recorded'
<1> SUFFICES ASSUME Placed, Recorded, [Next]_vars, NEW r \in Requests, NEW o \in Requests \ {r},
                    ThreadOf[o] = ThreadOf[r], pc'[r] \in Waiting, pc'[o] \in Waiting
             PROVE  o \in overlapped'[r]
  BY DEF Recorded, Waiting
<1>0. pc \in [Requests -> {"new"} \cup Waiting \cup Ended]
  BY DEF Placed
<1>1. CASE pc[r] \in Waiting /\ pc[o] \in Waiting
  BY <1>1, OverlapsGrow DEF Recorded
<1>2. CASE ~(pc[r] \in Waiting /\ pc[o] \in Waiting)
  <2>1. PICK q \in Requests : Begin(q)
    BY <1>0, <1>2 DEF Next, Work, Get, Search, Reason, Log, Logged, Put, Answer, WriteFails,
                      CallFails, Cancel, Goto, vars, Waiting
  <2> DEFINE running == {p \in Requests : ThreadOf[p] = ThreadOf[q] /\ pc[p] \in Waiting}
  <2>2. /\ pc[q] = "new" /\ \A p \in Requests \ {q} : pc'[p] = pc[p]
        /\ overlapped' = [p \in Requests |-> overlapped[p] \cup
                            IF p = q THEN running ELSE IF p \in running THEN {q} ELSE {}]
    BY <1>0, <2>1 DEF Begin, Goto
  <2>3. CASE q = r
    <3>1. o \in running
      BY <2>2, <2>3
    <3> QED BY <2>2, <2>3, <3>1
  <2>4. CASE q = o
    <3>1. r \in running
      BY <2>2, <2>4
    <3> QED BY <2>2, <2>4, <3>1
  <2>5. CASE q # r /\ q # o
    BY <1>2, <2>2, <2>5
  <2> QED BY <2>3, <2>4, <2>5
<1> QED BY <1>1, <1>2

LEMMA OwnStep == Placed /\ Based /\ Own /\ [Next]_vars => Own'
<1> SUFFICES ASSUME Placed, Based, Own, [Next]_vars,
                    NEW t \in Threads, NEW s \in Range(history'[t]), NEW o \in Range(s)
             PROVE  ThreadOf[o] = t
  BY DEF Own
<1>1. CASE history' = history
  BY <1>1 DEF Own
<1>2. ASSUME NEW r \in Requests,
             history' = [history EXCEPT ![ThreadOf[r]] = Append(history[ThreadOf[r]], Mine(r))]
      PROVE  ThreadOf[o] = t
  <2>1. CASE s \in Range(history[t])
    BY <2>1 DEF Own
  <2>2. CASE s \notin Range(history[t])
    <3>1. t = ThreadOf[r] /\ s = Mine(r)
      BY <1>2, <2>2, PutHistory
    <3>2. o = r \/ o \in Range(prior[r])
      BY <3>1, MineTyped
    <3> QED BY <3>1, <3>2 DEF Based, Own
  <2> QED BY <2>1, <2>2
<1> QED BY <1>1, <1>2, OnlyPutWrites

\* How a put changes the list of a thread's snapshots.
LEMMA PutSnapshots ==
  ASSUME Placed, NEW r \in Requests,
         history' = [history EXCEPT ![ThreadOf[r]] = Append(history[ThreadOf[r]], Mine(r))]
  PROVE  LET n == Len(history[ThreadOf[r]])
         IN  /\ n \in Nat \ {0} /\ Len(history'[ThreadOf[r]]) = n + 1
             /\ history'[ThreadOf[r]][n + 1] = Mine(r)
             /\ \A i \in 1..n : history'[ThreadOf[r]][i] = history[ThreadOf[r]][i]
<1> DEFINE h == history[ThreadOf[r]]
<1>1. ThreadOf[r] \in Threads /\ Mine(r) \in Memories /\ history \in [Threads -> Histories]
  BY OrchestratorAssumption, MineTyped DEF Placed
<1>2. h \in Seq(Memories) /\ h # <<>> /\ history'[ThreadOf[r]] = Append(h, Mine(r))
  BY <1>1 DEF Histories
<1>3. Len(h) \in Nat /\ Len(h) # 0
  BY <1>2, LenProperties, EmptySeq
<1>4. /\ Len(Append(h, Mine(r))) = Len(h) + 1
      /\ Append(h, Mine(r))[Len(h) + 1] = Mine(r)
      /\ \A i \in 1..Len(h) : Append(h, Mine(r))[i] = h[i]
  BY <1>1, <1>2, AppendProperties
<1> QED BY <1>2, <1>3, <1>4

LEMMA SignedStep == Placed /\ Signed /\ [Next]_vars => Signed'
<1> SUFFICES ASSUME Placed, Signed, [Next]_vars,
                    NEW t \in Threads, NEW i \in 2..Len(history'[t])
             PROVE  Writer(history'[t][i]) \in Requests
  BY DEF Signed, Writer
<1>1. CASE history'[t] = history[t]
  BY <1>1 DEF Signed
<1>2. ASSUME NEW r \in Requests, t = ThreadOf[r],
             history' = [history EXCEPT ![ThreadOf[r]] = Append(history[ThreadOf[r]], Mine(r))]
      PROVE  Writer(history'[t][i]) \in Requests
  <2> DEFINE n == Len(history[t])
  <2>1. /\ n \in Nat \ {0} /\ Len(history'[t]) = n + 1
        /\ history'[t][n + 1] = Mine(r)
        /\ \A j \in 1..n : history'[t][j] = history[t][j]
    BY <1>2, PutSnapshots
  <2>2. CASE i = n + 1
    BY <2>1, <2>2, MineEnds
  <2>3. CASE i # n + 1
    <3>1. i \in 1..n /\ i \in 2..n
      BY <2>1, <2>3
    <3> QED BY <2>1, <3>1 DEF Signed
  <2> QED BY <2>2, <2>3
<1> QED BY <1>1, <1>2, OnlyPutWrites, PutHistory

\* Erasures are not undone, and a put erases what is stored and not in the new
\* snapshot.
LEMMA PutErases ==
  ASSUME Placed, NEW r \in Requests, NEW t, t = ThreadOf[r], NEW n, n = Len(history[t]),
         history' = [history EXCEPT ![ThreadOf[r]] = Append(history[ThreadOf[r]], Mine(r))]
  PROVE  /\ \A i \in 2..n : Erased(t, i)' = Erased(t, i)
         /\ Erased(t, n + 1)' = Range(Stored(t)) \ Range(Mine(r))
         /\ 2..Len(history'[t]) = 2..n \cup {n + 1}
<1>1. /\ n \in Nat \ {0} /\ Len(history'[t]) = n + 1
      /\ history'[t][n + 1] = Mine(r)
      /\ \A i \in 1..n : history'[t][i] = history[t][i]
  BY PutSnapshots
<1>2. ASSUME NEW i \in 2..n PROVE Erased(t, i)' = Erased(t, i)
  <2>1. i \in 1..n /\ i - 1 \in 1..n
    BY <1>1
  <2> QED BY <1>1, <2>1 DEF Erased
<1>3. Erased(t, n + 1)' = Range(Stored(t)) \ Range(Mine(r))
  <2>1. n \in 1..n /\ (n + 1) - 1 = n
    BY <1>1
  <2> QED BY <1>1, <2>1 DEF Erased, Stored
<1>4. 2..Len(history'[t]) = 2..n \cup {n + 1}
  BY <1>1
<1> QED BY <1>2, <1>3, <1>4

LEMMA ErasuresLast ==
  ASSUME Placed, [Next]_vars, NEW t \in Threads, NEW o, WasErased(t, o)
  PROVE  WasErased(t, o)'
<1>1. CASE history'[t] = history[t]
  BY <1>1 DEF WasErased, Erased
<1>2. ASSUME NEW r \in Requests, t = ThreadOf[r],
             history' = [history EXCEPT ![ThreadOf[r]] = Append(history[ThreadOf[r]], Mine(r))]
      PROVE  WasErased(t, o)'
  <2>1. PICK n : n = Len(history[t])
    OBVIOUS
  <2>2. PICK i \in 2..n : o \in Erased(t, i)
    BY <2>1 DEF WasErased
  <2>3. (\A j \in 2..n : Erased(t, j)' = Erased(t, j)) /\ 2..Len(history'[t]) = 2..n \cup {n + 1}
    BY <1>2, <2>1, PutErases
  <2>4. o \in Erased(t, i)' /\ i \in 2..Len(history'[t])
    BY <2>2, <2>3
  <2> QED BY <2>4 DEF WasErased
<1> QED BY <1>1, <1>2, OnlyPutWrites, PutHistory

LEMMA StaysStep == Placed /\ Stays /\ [Next]_vars => Stays'
<1> SUFFICES ASSUME Placed, Stays, [Next]_vars, NEW t \in Threads, NEW o \in Requests,
                    Known(t, o)'
             PROVE  o \in Range(Stored(t)') \/ WasErased(t, o)'
  BY DEF Stays
<1>1. CASE history'[t] = history[t]
  BY <1>1, ErasuresLast DEF Stays, Known, Stored
<1>2. ASSUME NEW r \in Requests, t = ThreadOf[r],
             history' = [history EXCEPT ![ThreadOf[r]] = Append(history[ThreadOf[r]], Mine(r))]
      PROVE  o \in Range(Stored(t)') \/ WasErased(t, o)'
  <2>1. Stored(t)' = Mine(r) /\ Range(history'[t]) \subseteq Range(history[t]) \cup {Mine(r)}
    BY <1>2, PutHistory
  <2>2. CASE o \in Range(Mine(r))
    BY <2>1, <2>2
  <2>3. CASE o \notin Range(Mine(r))
    <3>1. o \in Range(Stored(t)) \/ WasErased(t, o)
      BY <2>1, <2>3 DEF Known, Stays
    <3>2. CASE o \in Range(Stored(t))
      <4>1. PICK n : n = Len(history[t])
        OBVIOUS
      <4>2. /\ Erased(t, n + 1)' = Range(Stored(t)) \ Range(Mine(r))
            /\ 2..Len(history'[t]) = 2..n \cup {n + 1}
        BY <1>2, <4>1, PutErases
      <4>3. o \in Erased(t, n + 1)' /\ n + 1 \in 2..Len(history'[t])
        BY <2>3, <3>2, <4>2
      <4> QED BY <4>3 DEF WasErased
    <3> QED BY <3>1, <3>2, ErasuresLast
  <2> QED BY <2>2, <2>3
<1> QED BY <1>1, <1>2, OnlyPutWrites, PutHistory

LEMMA InformedStep ==
  Placed /\ Based /\ Recorded /\ Own /\ Stays /\ Informed /\ [Next]_vars => Informed'
<1> SUFFICES ASSUME Placed, Based, Recorded, Own, Stays, Informed, [Next]_vars,
                    NEW r \in Requests, pc'[r] \in Waiting \ {"get"},
                    NEW o \in Requests \ {r}, Known(ThreadOf[r], o)'
             PROVE  o \in Range(prior'[r]) \/ o \in overlapped'[r] \/ WasErased(ThreadOf[r], o)'
  BY DEF Informed, Waiting
<1> DEFINE t == ThreadOf[r]
<1>0. /\ pc \in [Requests -> {"new"} \cup Waiting \cup Ended] /\ t \in Threads
      /\ prior \in [Requests -> Memories]
  BY OrchestratorAssumption DEF Placed
<1>1. (pc[r] \in Waiting \ {"get"} /\ prior'[r] = prior[r]) \/ Get(r)
  BY <1>0 DEF Next, Work, Begin, Get, Search, Reason, Log, Logged, Put, Answer, WriteFails,
              CallFails, Cancel, Goto, vars, Waiting, Ended
<1>2. CASE Get(r)
  <2>1. prior'[r] = Stored(t) /\ history' = history
    BY <1>0, <1>2 DEF Get
  <2>2. o \in Range(Stored(t)) \/ WasErased(t, o)
    BY <1>0, <2>1 DEF Stays, Known
  <2> QED BY <1>0, <2>1, <2>2, ErasuresLast
<1>3. CASE pc[r] \in Waiting \ {"get"} /\ prior'[r] = prior[r]
  <2>1. CASE Known(t, o)
    <3>1. o \in Range(prior[r]) \/ o \in overlapped[r] \/ WasErased(t, o)
      BY <1>3, <2>1 DEF Informed
    <3> QED BY <1>0, <1>3, <3>1, OverlapsGrow, ErasuresLast
  <2>2. CASE ~Known(t, o)
    <3>1. PICK q \in Requests :
            /\ pc[q] = "put"
            /\ history' = [history EXCEPT ![ThreadOf[q]] = Append(history[ThreadOf[q]], Mine(q))]
      BY <2>2, OnlyPutWrites DEF Known
    <3>2. ThreadOf[q] = t /\ o \in Range(Mine(q))
      BY <1>0, <2>2, <3>1, PutHistory DEF Known
    <3>3. o \notin Range(prior[q])
      BY <2>2, <3>2 DEF Based, Known
    <3>4. o = q
      BY <3>2, <3>3, MineTyped
    <3>5. o \in overlapped[r]
      BY <1>3, <3>1, <3>2, <3>4 DEF Recorded, Waiting
    <3> QED BY <3>5, OverlapsGrow
  <2> QED BY <2>1, <2>2
<1> QED BY <1>1, <1>2, <1>3

LEMMA ErasuresStep ==
  Placed /\ Signed /\ Informed /\ ErasesOnlyConcurrent /\ [Next]_vars
    => ErasesOnlyConcurrent'
<1> SUFFICES ASSUME Placed, Signed, Informed, ErasesOnlyConcurrent, [Next]_vars,
                    NEW t \in Threads, NEW i \in 2..Len(history'[t]),
                    NEW gone \in Erased(t, i)', \A j \in 2..(i - 1) : gone \notin Erased(t, j)'
             PROVE  gone \in overlapped'[Writer(history'[t][i])]
  BY DEF ErasesOnlyConcurrent, Erased, Writer
<1>0. history \in [Threads -> Histories] /\ Len(history[t]) \in Nat
  BY LenProperties DEF Placed, Histories
<1>1. ASSUME i \in 2..Len(history[t]), history'[t][i] = history[t][i],
             \A j \in 2..i : Erased(t, j)' = Erased(t, j)
      PROVE  gone \in overlapped'[Writer(history'[t][i])]
  <2>1. gone \in overlapped[Writer(history[t][i])]
    BY <1>0, <1>1 DEF ErasesOnlyConcurrent
  <2>2. Writer(history[t][i]) \in Requests
    BY <1>1 DEF Signed
  <2> QED BY <1>1, <2>1, <2>2, OverlapsGrow
<1>2. CASE history'[t] = history[t]
  BY <1>1, <1>2 DEF Erased
<1>3. ASSUME NEW r \in Requests, t = ThreadOf[r], pc[r] = "put",
             history' = [history EXCEPT ![ThreadOf[r]] = Append(history[ThreadOf[r]], Mine(r))]
      PROVE  gone \in overlapped'[Writer(history'[t][i])]
  <2>0. PICK n : n = Len(history[t])
    OBVIOUS
  <2>1. /\ n \in Nat \ {0} /\ history'[t][n + 1] = Mine(r)
        /\ \A j \in 1..n : history'[t][j] = history[t][j]
    BY <1>3, <2>0, PutSnapshots
  <2>2. /\ \A j \in 2..n : Erased(t, j)' = Erased(t, j)
        /\ Erased(t, n + 1)' = Range(Stored(t)) \ Range(Mine(r))
        /\ 2..Len(history'[t]) = 2..n \cup {n + 1}
    BY <1>3, <2>0, PutErases
  <2>3. CASE i \in 2..n
    <3>1. i \in 1..n /\ \A j \in 2..i : j \in 2..n
      BY <2>1, <2>3
    <3> QED BY <1>1, <2>0, <2>1, <2>2, <2>3, <3>1
  <2>4. CASE i = n + 1
    <3>1. gone \in Range(Stored(t)) /\ gone \notin Range(Mine(r))
      BY <2>2, <2>4
    <3>2. gone \in Requests /\ gone # r /\ gone \notin Range(prior[r]) /\ Known(t, gone)
      BY <3>1, StoredTyped, MineTyped DEF Known
    <3>3. ~WasErased(t, gone)
      <4>1. (n + 1) - 1 = n
        BY <2>1
      <4>2. \A j \in 2..n : gone \notin Erased(t, j)
        BY <2>2, <2>4, <4>1
      <4> QED BY <2>0, <4>2 DEF WasErased
    <3>4. gone \in overlapped[r]
      BY <1>3, <3>2, <3>3 DEF Informed, Waiting
    <3>5. Writer(history'[t][i]) = r
      BY <2>1, <2>4, MineEnds
    <3> QED BY <3>4, <3>5, OverlapsGrow
  <2> QED BY <2>2, <2>3, <2>4
<1> QED BY <1>2, <1>3, OnlyPutWrites, PutHistory

\* For any interleaving of any number of requests over any stores, whoever is the
\* first to erase a request had overlapped it.
THEOREM OnlyConcurrentErase == Spec => []ErasesOnlyConcurrent
<1> DEFINE Inv == Recorded /\ Own /\ Signed /\ Stays /\ Informed /\ ErasesOnlyConcurrent
<1>1. Init => Inv
  <2> SUFFICES ASSUME Init PROVE Inv
    OBVIOUS
  <2>1. \A t \in Threads : /\ history[t] = << <<>> >> /\ Len(history[t]) = 1
                           /\ \A s \in Range(history[t]) : Range(s) = {}
    BY EmptyMemory, FirstHistory DEF Init
  <2>2. Recorded /\ Informed
    BY DEF Init, Recorded, Informed, Waiting
  <2>3. Own /\ Signed /\ Stays
    BY <2>1 DEF Own, Signed, Stays, Known
  <2>4. ErasesOnlyConcurrent
    BY <2>1 DEF ErasesOnlyConcurrent
  <2> QED BY <2>2, <2>3, <2>4
<1>2. Placed /\ Based /\ Inv /\ [Next]_vars => Inv'
  BY RecordedStep, OwnStep, SignedStep, StaysStep, InformedStep, ErasuresStep
<1> QED BY <1>1, <1>2, BasedAlways, PTL DEF Spec

-----------------------------------------------------------------------------
(* Who overlaps nobody is remembered *)

Solitary == {r \in Requests : overlapped[r] = {}}

\* A request that overlapped no other of its thread runs alone; once it has been
\* stored, every request of the thread that reads on starts from a snapshot with it.
Alone ==
  \A r \in Solitary : \A o \in Requests \ {r} : ThreadOf[o] = ThreadOf[r] =>
    /\ ~ (pc[r] \in Waiting /\ pc[o] \in Waiting)
    /\ pc[r] = "done" /\ pc[o] \in Waiting \ {"get"} => r \in Range(prior[o])

Kept ==
  \A r \in Solitary :
    pc[r] \in {"putting", "done"} => r \in Range(Stored(ThreadOf[r]))

LEMMA SolitaryBefore ==
  ASSUME Placed, [Next]_vars, NEW r \in Requests, overlapped'[r] = {}
  PROVE  r \in Solitary
BY OverlapsGrow DEF Solitary

LEMMA KeptStep == Placed /\ Alone /\ Kept /\ [Next]_vars => Kept'
<1> SUFFICES ASSUME Placed, Alone, Kept, [Next]_vars, NEW r \in Requests,
                    overlapped'[r] = {}, pc'[r] \in {"putting", "done"}
             PROVE  r \in Range(Stored(ThreadOf[r])')
  BY DEF Kept, Solitary
<1>0. /\ pc \in [Requests -> {"new"} \cup Waiting \cup Ended] /\ r \in Solitary
      /\ ThreadOf[r] \in Threads
  BY SolitaryBefore, OrchestratorAssumption DEF Placed
<1>1. pc[r] \in {"putting", "done"} \/ Put(r)
  BY <1>0 DEF Next, Work, Begin, Get, Search, Reason, Log, Logged, Put, Answer, WriteFails,
              CallFails, Cancel, Goto, vars
<1>2. CASE history'[ThreadOf[r]] = history[ThreadOf[r]] /\ ~Put(r)
  BY <1>0, <1>1, <1>2 DEF Kept, Stored
<1>3. ASSUME NEW o \in Requests, pc[o] = "put", ThreadOf[o] = ThreadOf[r],
             history' = [history EXCEPT ![ThreadOf[o]] = Append(history[ThreadOf[o]], Mine(o))]
      PROVE  r \in Range(Stored(ThreadOf[r])')
  <2>1. Stored(ThreadOf[r])' = Mine(o) /\ Range(Mine(o)) = Range(prior[o]) \cup {o}
    BY <1>3, PutHistory, MineTyped
  <2>2. CASE o # r
    <3>1. pc[r] \in {"putting", "done"}
      BY <1>0, <1>1, <1>3, <2>2 DEF Put, Goto, Alone, Waiting
    <3>2. pc[r] = "done"
      BY <1>0, <1>3, <2>2, <3>1 DEF Alone, Waiting
    <3> QED BY <1>0, <1>3, <2>1, <2>2, <3>2 DEF Alone, Waiting
  <2> QED BY <2>1, <2>2
<1>4. \/ history'[ThreadOf[r]] = history[ThreadOf[r]]
      \/ \E o \in Requests : /\ pc[o] = "put" /\ ThreadOf[o] = ThreadOf[r]
            /\ history' = [history EXCEPT ![ThreadOf[o]] = Append(history[ThreadOf[o]], Mine(o))]
  BY <1>0, OnlyPutWrites, PutHistory
<1>5. Put(r) => pc[r] = "put"
        /\ history' = [history EXCEPT ![ThreadOf[r]] = Append(history[ThreadOf[r]], Mine(r))]
  BY DEF Put
<1> QED BY <1>2, <1>3, <1>4, <1>5

LEMMA AloneStep == Placed /\ Alone /\ Kept /\ [Next]_vars => Alone'
<1> SUFFICES ASSUME Placed, Alone, Kept, [Next]_vars, NEW r \in Requests,
                    overlapped'[r] = {}, NEW o \in Requests \ {r}, ThreadOf[o] = ThreadOf[r]
             PROVE  /\ ~ (pc'[r] \in Waiting /\ pc'[o] \in Waiting)
                    /\ pc'[r] = "done" /\ pc'[o] \in Waiting \ {"get"} => r \in Range(prior'[o])
  BY DEF Alone, Solitary, Waiting
<1>0. /\ pc \in [Requests -> {"new"} \cup Waiting \cup Ended] /\ r \in Solitary
      /\ ThreadOf[r] \in Threads /\ prior \in [Requests -> Memories]
  BY SolitaryBefore, OrchestratorAssumption DEF Placed
<1>1. /\ ~ (pc[r] \in Waiting /\ pc[o] \in Waiting)
      /\ pc[r] = "done" /\ pc[o] \in Waiting \ {"get"} => r \in Range(prior[o])
  BY <1>0 DEF Alone
<1>2. CASE UNCHANGED vars
  BY <1>1, <1>2 DEF vars
<1>3. ASSUME NEW q \in Requests, Begin(q)
      PROVE  /\ ~ (pc'[r] \in Waiting /\ pc'[o] \in Waiting)
             /\ pc'[r] = "done" /\ pc'[o] \in Waiting \ {"get"} => r \in Range(prior'[o])
  <2> DEFINE running == {p \in Requests : ThreadOf[p] = ThreadOf[q] /\ pc[p] \in Waiting}
  <2>1. /\ pc[q] = "new" /\ pc' = [pc EXCEPT ![q] = "get"] /\ prior' = prior
        /\ overlapped' = [p \in Requests |-> overlapped[p] \cup
                            IF p = q THEN running ELSE IF p \in running THEN {q} ELSE {}]
    BY <1>3 DEF Begin, Goto
  <2>2. CASE q = r
    <3>1. o \notin running
      BY <2>1, <2>2
    <3> QED BY <1>0, <2>1, <2>2, <3>1 DEF Waiting
  <2>3. CASE q = o
    <3>1. r \notin running
      BY <2>1, <2>3
    <3> QED BY <1>0, <1>1, <2>1, <2>3, <3>1 DEF Waiting
  <2>4. CASE q # r /\ q # o
    BY <1>0, <1>1, <2>1, <2>4
  <2> QED BY <2>2, <2>3, <2>4
<1>4. ASSUME NEW q \in Requests, Cancel(q) \/ Work(q)
      PROVE  /\ ~ (pc'[r] \in Waiting /\ pc'[o] \in Waiting)
             /\ pc'[r] = "done" /\ pc'[o] \in Waiting \ {"get"} => r \in Range(prior'[o])
  <2>1. /\ pc[q] \in Waiting
        /\ \E where \in (Waiting \ {"get"}) \cup Ended : pc' = [pc EXCEPT ![q] = where]
    BY <1>4 DEF Work, Get, Search, Reason, Log, Logged, Put, Answer, WriteFails,
       CallFails, Cancel, Goto, Waiting, Ended
  <2>2. /\ \A p \in Requests : pc[p] # "get" => prior'[p] = prior[p]
        /\ pc[o] = "get" => \/ prior'[o] = prior[o]
                            \/ Get(o) /\ prior'[o] = Stored(ThreadOf[o])
    BY <1>0, <1>4 DEF Work, Get, Search, Reason, Log, Logged, Put, Answer, WriteFails,
       CallFails, Cancel, Goto
  <2>3. CASE q = o
    <3>1. pc[r] \notin Waiting /\ pc'[r] = pc[r]
      BY <1>0, <1>1, <2>1, <2>3
    <3>2. pc[o] = "get" /\ pc'[o] \in Waiting => Get(o)
      BY <1>0, <1>4, <2>3 DEF Work, Get, Search, Reason, Log, Logged, Put, Answer, WriteFails,
         CallFails, Cancel, Goto, Waiting, Ended
    <3>3. Get(o) => prior'[o] = Stored(ThreadOf[o])
      BY <1>0 DEF Get
    <3>4. pc[r] = "done" => r \in Range(Stored(ThreadOf[r]))
      BY <1>0 DEF Kept
    <3> QED BY <1>0, <1>1, <2>1, <2>2, <2>3, <3>1, <3>2, <3>3, <3>4
  <2>4. CASE q = r
    <3>1. pc[o] \notin Waiting /\ pc'[o] = pc[o]
      BY <1>0, <1>1, <2>1, <2>4
    <3> QED BY <3>1
  <2>5. CASE q # r /\ q # o
    <3>1. pc'[r] = pc[r] /\ pc'[o] = pc[o]
      BY <1>0, <2>1, <2>5
    <3>2. pc[o] # "get" => prior'[o] = prior[o]
      BY <2>2
    <3> QED BY <1>1, <3>1, <3>2
  <2> QED BY <2>3, <2>4, <2>5
<1> QED BY <1>2, <1>3, <1>4 DEF Next

\* For any number of requests and any interleaving, with local and remote stores:
\* an answered request that overlapped none of its thread stays in memory.
THEOREM AloneRemembered == Spec => []AloneIsRemembered
<1>1. Init => Alone /\ Kept
  BY DEF Init, Alone, Kept, Solitary, Waiting
<1>2. Kept => AloneIsRemembered
  BY DEF Kept, Solitary, AloneIsRemembered
<1>3. Placed /\ Alone /\ Kept /\ [Next]_vars => (Alone /\ Kept)'
  BY AloneStep, KeptStep
<1> QED BY <1>1, <1>2, <1>3, BasedAlways, PTL DEF Spec
=============================================================================
