--------------------------- MODULE HttpClients_proof ---------------------------
(***************************************************************************)
(* Any number of calls, attempts and deltas: an answer is one request's,   *)
(* and requests are accounted for.                                         *)
(***************************************************************************)
EXTENDS HttpClients, TLAPS, SequenceTheorems

Servers == {"judge", "primary"} \cup Kinds

\* How many requests can have been handled where a call stands.
HandledSoFar ==
  \A c \in Calls :
    LET opened == IF kind[c] = "stream" THEN 1 ELSE 0
    IN  /\ pc[c] \in {"idle", "open"} => Len(handled[c]) = 0
        /\ pc[c] = "streaming" => Len(handled[c]) = 1
        /\ pc[c] \in {"open", "streaming"} => kind[c] = "stream"
        /\ pc[c] = "post" => Len(handled[c]) + 1 <= attempt[c] + opened
        /\ pc[c] \in {"reply", "done"} => Len(handled[c]) >= 1
        /\ pc[c] # "idle" => Len(handled[c]) <= attempt[c] + opened

\* Nothing has been given to the caller while an answer is still asked for.
ShownLast ==
  \A c \in Calls :
    /\ pc[c] \in {"idle", "open", "post", "reply"} => shown[c] = <<>>
    /\ \A i \in DOMAIN shown[c] : shown[c][i] = Len(handled[c])

Routed == \A c \in Calls : \A i \in DOMAIN handled[c] : handled[c][i] = Server(c)

IInv == HandledSoFar /\ ShownLast /\ Routed

-----------------------------------------------------------------------------
LEMMA SequenceGrows ==
  ASSUME NEW S, NEW s \in Seq(S), NEW e \in S
  PROVE  /\ Append(s, e) \in Seq(S) /\ Append(s, e) # <<>>
         /\ Len(Append(s, e)) = Len(s) + 1 /\ Len(s) \in Nat
         /\ \A i \in DOMAIN Append(s, e) :
              \/ i \in DOMAIN s /\ Append(s, e)[i] = s[i]
              \/ Append(s, e)[i] = e
<1>1. /\ Append(s, e) \in Seq(S) /\ Len(Append(s, e)) = Len(s) + 1 /\ Len(s) \in Nat
      /\ DOMAIN s = 1..Len(s) /\ DOMAIN Append(s, e) = 1..(Len(s) + 1)
      /\ \A i \in 1..Len(s) : Append(s, e)[i] = s[i]
      /\ Append(s, e)[Len(s) + 1] = e
  BY AppendProperties, LenProperties
<1>2. Append(s, e) # <<>>
  BY <1>1, EmptySeq
<1> QED BY <1>1, <1>2

LEMMA ServerTyped == ASSUME TypeOK, NEW c \in Calls PROVE Server(c) \in Servers
BY DEF TypeOK, Server, Servers, Route, Kinds

\* A handled request is appended to those of its call.
LEMMA HandleAppends ==
  ASSUME TypeOK, NEW c \in Calls, Handle(c)
  PROVE  /\ handled' \in [Calls -> Seq(Servers)]
         /\ Len(handled'[c]) = Len(handled[c]) + 1 /\ Len(handled[c]) \in Nat
         /\ \A i \in DOMAIN handled'[c] :
              \/ i \in DOMAIN handled[c] /\ handled'[c][i] = handled[c][i]
              \/ handled'[c][i] = Server(c)
         /\ \A o \in Calls \ {c} : handled'[o] = handled[o]
<1>1. handled[c] \in Seq(Servers) /\ Server(c) \in Servers
  BY ServerTyped DEF TypeOK, Servers
<1>2. handled \in [Calls -> Seq(Servers)]
  BY DEF TypeOK, Servers
<1>3. handled'[c] = Append(handled[c], Server(c))
  BY <1>2 DEF Handle
<1> QED BY <1>1, <1>2, <1>3, SequenceGrows DEF Handle

\* A piece that is shown is appended to what the caller has.
LEMMA ShowAppends ==
  ASSUME TypeOK, NEW c \in Calls, Show(c)
  PROVE  /\ shown' \in [Calls -> Seq(Nat)]
         /\ \A i \in DOMAIN shown'[c] :
              \/ i \in DOMAIN shown[c] /\ shown'[c][i] = shown[c][i]
              \/ shown'[c][i] = Len(handled[c])
         /\ \A o \in Calls \ {c} : shown'[o] = shown[o]
<1>1. shown[c] \in Seq(Nat) /\ Len(handled[c]) \in Nat
  BY LenProperties DEF TypeOK
<1>2. shown'[c] = Append(shown[c], Len(handled[c]))
  BY DEF Show, TypeOK
<1> QED BY <1>1, <1>2, SequenceGrows DEF Show, TypeOK

LEMMA StartsFresh == Init => TypeOK /\ IInv
<1> SUFFICES ASSUME Init PROVE TypeOK /\ IInv
  OBVIOUS
<1>1. TypeOK
  BY HttpAssumption DEF Init, TypeOK, Ended
<1>2. IInv
  BY DEF Init, IInv, HandledSoFar, ShownLast, Routed
<1> QED BY <1>1, <1>2

LEMMA TypedStep == TypeOK /\ [Next]_vars => TypeOK'
<1> SUFFICES ASSUME TypeOK, [Next]_vars PROVE TypeOK'
  OBVIOUS
<1>1. CASE UNCHANGED vars
  BY <1>1 DEF vars, TypeOK
<1>2. ASSUME NEW c \in Calls, Post(c) \/ Open(c) PROVE TypeOK'
  <2>1. handled' \in [Calls -> Seq(Servers)]
    BY <1>2, HandleAppends DEF Post, Open
  <2> QED BY <1>2, <2>1 DEF Post, Open, Goto, TypeOK, Servers
<1>3. ASSUME NEW c \in Calls, Delta(c) PROVE TypeOK'
  BY <1>3, ShowAppends DEF Delta, TypeOK
<1>4. ASSUME NEW c \in Calls, NEW body \in Bodies, Reply(c, body) PROVE TypeOK'
  <2>1. shown' \in [Calls -> Seq(Nat)]
    BY <1>4, ShowAppends DEF Reply, TypeOK
  <2>2. Goto(c, "done") \/ Goto(c, "failed")
    BY <1>4 DEF Reply
  <2> QED BY <1>4, <2>1, <2>2 DEF Reply, Goto, TypeOK, Ended
<1>5. ASSUME NEW c \in Calls, NEW retryable \in BOOLEAN, PostFails(c, retryable) PROVE TypeOK'
  <2>1. attempt' \in [Calls -> 1..MaxAttempts]
    <3>1. attempt[c] \in 1..MaxAttempts /\ MaxAttempts \in Nat
      BY HttpAssumption DEF TypeOK
    <3>2. \/ UNCHANGED attempt
          \/ attempt[c] < MaxAttempts /\ attempt' = [attempt EXCEPT ![c] = @ + 1]
      BY <1>5 DEF PostFails
    <3>3. CASE UNCHANGED attempt
      BY <3>3 DEF TypeOK
    <3>4. CASE attempt[c] < MaxAttempts /\ attempt' = [attempt EXCEPT ![c] = @ + 1]
      <4>1. attempt[c] + 1 \in 1..MaxAttempts
        BY <3>1, <3>4
      <4> QED BY <3>4, <4>1 DEF TypeOK
    <3> QED BY <3>2, <3>3, <3>4
  <2>2. \E where \in {"post", "failed"} : pc' = [pc EXCEPT ![c] = where]
    BY <1>5 DEF PostFails, Goto
  <2> QED BY <1>5, <2>1, <2>2 DEF PostFails, TypeOK, Ended
<1>6. ASSUME NEW c \in Calls, Begin(c) \/ StreamEnds(c) \/ StreamFails(c) \/ Close(c)
      PROVE  TypeOK'
  BY <1>6 DEF Begin, StreamEnds, StreamFails, Close, Goto, TypeOK, Ended
<1> QED BY <1>1, <1>2, <1>3, <1>4, <1>5, <1>6 DEF Next, Work

LEMMA StepKeepsIInv == TypeOK /\ IInv /\ [Next]_vars => IInv'
<1> SUFFICES ASSUME TypeOK, IInv, [Next]_vars PROVE IInv'
  OBVIOUS
<1>0. \A c \in Calls : Len(handled[c]) \in Nat /\ attempt[c] \in Nat
  BY LenProperties DEF TypeOK
<1>1. CASE UNCHANGED vars
  BY <1>1 DEF vars, IInv, HandledSoFar, ShownLast, Routed, Server
<1>2. ASSUME NEW c \in Calls, Post(c) \/ Open(c) PROVE IInv'
  <2>1. /\ Handle(c) /\ UNCHANGED <<kind, model, attempt, shown>>
        /\ \/ pc[c] = "post" /\ pc' = [pc EXCEPT ![c] = "reply"]
           \/ pc[c] = "open" /\ pc' = [pc EXCEPT ![c] = "streaming"]
    BY <1>2 DEF Post, Open, Goto
  <2>2. HandledSoFar'
    <3> SUFFICES ASSUME NEW o \in Calls
                 PROVE  LET opened == IF kind[o] = "stream" THEN 1 ELSE 0
                        IN  /\ pc'[o] \in {"idle", "open"} => Len(handled'[o]) = 0
                            /\ pc'[o] = "streaming" => Len(handled'[o]) = 1
                            /\ pc'[o] \in {"open", "streaming"} => kind[o] = "stream"
                            /\ pc'[o] = "post" => Len(handled'[o]) + 1 <= attempt[o] + opened
                            /\ pc'[o] \in {"reply", "done"} => Len(handled'[o]) >= 1
                            /\ pc'[o] # "idle" => Len(handled'[o]) <= attempt[o] + opened
      BY <2>1 DEF HandledSoFar
    <3>1. CASE o # c
      BY <2>1, <3>1, HandleAppends DEF IInv, HandledSoFar, TypeOK
    <3>2. CASE o = c
      <4>1. /\ Len(handled'[c]) = Len(handled[c]) + 1 /\ Len(handled[c]) \in Nat
            /\ attempt[c] \in Nat /\ attempt[c] >= 1
        BY <2>1, HandleAppends, HttpAssumption DEF TypeOK
      <4>2. pc'[c] = IF pc[c] = "post" THEN "reply" ELSE "streaming"
        BY <2>1 DEF TypeOK
      <4> QED BY <2>1, <3>2, <4>1, <4>2 DEF IInv, HandledSoFar
    <3> QED BY <3>1, <3>2
  <2>3. ShownLast'
    BY <2>1, HandleAppends, EmptySeq DEF IInv, ShownLast, TypeOK
  <2>4. Routed'
    BY <2>1, HandleAppends DEF IInv, Routed, Server
  <2> QED BY <2>2, <2>3, <2>4 DEF IInv
<1>3. ASSUME NEW c \in Calls, Delta(c) PROVE IInv'
  <2>1. Show(c) /\ pc[c] = "streaming" /\ UNCHANGED <<kind, model, pc, attempt, handled>>
    BY <1>3 DEF Delta
  <2>2. ShownLast'
    BY <2>1, ShowAppends DEF IInv, ShownLast, TypeOK
  <2> QED BY <2>1, <2>2 DEF IInv, HandledSoFar, Routed, Server
<1>4. ASSUME NEW c \in Calls, NEW body \in Bodies, Reply(c, body) PROVE IInv'
  <2>1. /\ pc[c] = "reply" /\ UNCHANGED <<kind, model, attempt, handled>>
        /\ Show(c) \/ UNCHANGED shown
        /\ \/ pc' = [pc EXCEPT ![c] = "done"]
           \/ pc' = [pc EXCEPT ![c] = "failed"]
    BY <1>4 DEF Reply, Goto
  <2>2. HandledSoFar'
    BY <1>0, <2>1 DEF IInv, HandledSoFar, TypeOK
  <2>3. ShownLast'
    BY <2>1, ShowAppends DEF IInv, ShownLast, TypeOK
  <2> QED BY <2>1, <2>2, <2>3 DEF IInv, Routed, Server
<1>5. ASSUME NEW c \in Calls, NEW retryable \in BOOLEAN, PostFails(c, retryable) PROVE IInv'
  <2>1. /\ pc[c] \in {"post", "reply"} /\ UNCHANGED <<kind, model, handled, shown>>
        /\ \/ /\ pc' = [pc EXCEPT ![c] = "post"]
              /\ attempt' = [attempt EXCEPT ![c] = @ + 1]
           \/ pc' = [pc EXCEPT ![c] = "failed"] /\ UNCHANGED attempt
    BY <1>5 DEF PostFails, Goto
  <2>2. HandledSoFar'
    BY <1>0, <2>1 DEF IInv, HandledSoFar, TypeOK
  <2>3. ShownLast'
    BY <2>1 DEF IInv, ShownLast, TypeOK
  <2> QED BY <2>1, <2>2, <2>3 DEF IInv, Routed, Server
<1>6. ASSUME NEW c \in Calls, Begin(c) \/ StreamEnds(c) \/ StreamFails(c) \/ Close(c)
      PROVE  IInv'
  <2>1. UNCHANGED <<kind, model, attempt, handled, shown>>
    BY <1>6 DEF Begin, StreamEnds, StreamFails, Close
  <2>2. HandledSoFar'
    <3>1. attempt[c] \in Nat /\ attempt[c] >= 1 /\ Len(handled[c]) \in Nat
      BY <1>0, HttpAssumption DEF TypeOK
    <3>2. /\ \A o \in Calls \ {c} : pc'[o] = pc[o]
          /\ \/ pc[c] = "idle" /\ kind[c] = "stream" /\ pc'[c] = "open"
             \/ pc[c] = "idle" /\ kind[c] # "stream" /\ pc'[c] = "post"
             \/ pc[c] = "streaming" /\ pc'[c] = "post"
             \/ pc[c] = "streaming" /\ pc'[c] = "done"
             \/ pc[c] # "idle" /\ pc'[c] \in {"failed", "closed"}
      BY <1>6 DEF Begin, StreamEnds, StreamFails, Close, Goto, TypeOK
    <3>3. ASSUME NEW o \in Calls, o # c
          PROVE  pc'[o] = pc[o] /\ kind'[o] = kind[o] /\ handled'[o] = handled[o]
                 /\ attempt'[o] = attempt[o]
      BY <2>1, <3>2, <3>3
    <3>4. pc[c] = "idle" => Len(handled[c]) = 0
      BY DEF IInv, HandledSoFar
    <3>5. pc[c] = "streaming" => Len(handled[c]) = 1 /\ kind[c] = "stream"
      BY DEF IInv, HandledSoFar
    <3>6. pc[c] # "idle" =>
            Len(handled[c]) <= attempt[c] + (IF kind[c] = "stream" THEN 1 ELSE 0)
      BY DEF IInv, HandledSoFar
    <3> SUFFICES ASSUME NEW o \in Calls
                 PROVE  LET opened == IF kind[o] = "stream" THEN 1 ELSE 0
                        IN  /\ pc'[o] \in {"idle", "open"} => Len(handled[o]) = 0
                            /\ pc'[o] = "streaming" => Len(handled[o]) = 1
                            /\ pc'[o] \in {"open", "streaming"} => kind[o] = "stream"
                            /\ pc'[o] = "post" => Len(handled[o]) + 1 <= attempt[o] + opened
                            /\ pc'[o] \in {"reply", "done"} => Len(handled[o]) >= 1
                            /\ pc'[o] # "idle" => Len(handled[o]) <= attempt[o] + opened
      BY <2>1 DEF HandledSoFar
    <3>7. CASE o # c
      BY <3>3, <3>7 DEF IInv, HandledSoFar
    <3>8. CASE o = c
      <4>1. CASE pc[c] = "idle" /\ pc'[c] \in {"open", "post"}
        BY <3>1, <3>2, <3>4, <3>8, <4>1
      <4>2. CASE pc[c] = "streaming" /\ pc'[c] \in {"post", "done"}
        <5>1. kind[c] = "stream" /\ Len(handled[c]) = 1
          BY <3>5, <4>2
        <5>2. Len(handled[c]) + 1 <= attempt[c] + 1 /\ Len(handled[c]) <= attempt[c] + 1
          BY <3>1, <5>1
        <5>3. Len(handled[c]) >= 1
          BY <5>1
        <5>4. pc'[c] \notin {"idle", "open", "streaming"} /\ pc'[c] \in {"post", "done"}
          BY <4>2
        <5> QED BY <5>1, <5>2, <5>3, <5>4, <3>8
      <4>3. CASE pc[c] # "idle" /\ pc'[c] \in {"failed", "closed"}
        BY <3>1, <3>6, <3>8, <4>3
      <4> QED BY <3>2, <4>1, <4>2, <4>3
    <3> QED BY <3>7, <3>8
  <2>3. ShownLast'
    BY <1>6, <2>1 DEF IInv, ShownLast, TypeOK, Begin, StreamEnds, StreamFails, Close, Goto,
       Ended
  <2> QED BY <2>1, <2>2, <2>3 DEF IInv, Routed, Server
<1> QED BY <1>1, <1>2, <1>3, <1>4, <1>5, <1>6 DEF Next, Work

LEMMA Invariance == Spec => [](TypeOK /\ IInv)
<1>1. TypeOK /\ IInv /\ [Next]_vars => (TypeOK /\ IInv)'
  BY TypedStep, StepKeepsIInv
<1> QED BY <1>1, StartsFresh, PTL DEF Spec

-----------------------------------------------------------------------------
(* What follows from it *)

\* Every variable keeps its type, for all calls.
THEOREM TypeCorrect == Spec => []TypeOK
BY Invariance, PTL

\* What a caller is given stems from the last request of its call.
THEOREM OneRequestAnswers == Spec => []AnswerIsOneRequest
<1>1. IInv => AnswerIsOneRequest
  BY DEF IInv, ShownLast, AnswerIsOneRequest
<1> QED BY <1>1, Invariance, PTL

\* Requests are bounded, routed as their call is, and behind every success.
THEOREM Accounting == Spec => []RequestsAccounted
<1>1. TypeOK /\ IInv => RequestsAccounted
  <2> SUFFICES ASSUME TypeOK, IInv, NEW c \in Calls
               PROVE  /\ Len(handled[c]) <= MaxAttempts
                           + (IF kind[c] = "stream" THEN 1 ELSE 0)
                      /\ \A i \in DOMAIN handled[c] : handled[c][i] = Server(c)
                      /\ pc[c] = "done" => handled[c] # <<>>
    BY DEF RequestsAccounted
  <2>1. Len(handled[c]) \in Nat /\ attempt[c] \in 1..MaxAttempts /\ MaxAttempts \in Nat
    BY HttpAssumption, LenProperties DEF TypeOK
  <2>2. Len(handled[c]) <= MaxAttempts + (IF kind[c] = "stream" THEN 1 ELSE 0)
    BY <2>1 DEF IInv, HandledSoFar
  <2>3. pc[c] = "done" => handled[c] # <<>>
    BY <2>1, EmptySeq DEF IInv, HandledSoFar
  <2> QED BY <2>2, <2>3 DEF IInv, Routed
<1> QED BY <1>1, Invariance, PTL
=============================================================================
