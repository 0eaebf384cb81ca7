----------------------------- MODULE Console_proof -----------------------------
(***************************************************************************)
(* What the console shows as answered is on record, what it was told has   *)
(* failed is forgotten, and while the server writes to its stores the      *)
(* console shows what the gate has let pass: for every set of pieces,      *)
(* every number of tokens and every policy and revision.                   *)
(*                                                                         *)
(* In the list of conversations each prompt stands once, before its own    *)
(* reply, settled prompts are kept and cleared ones stay cleared, for      *)
(* every number of tabs, conversations and prompts.                        *)
(***************************************************************************)
EXTENDS CompletionStream, ConsoleSessions, TLAPS, SequenceTheorems, WellFoundedInduction

Events == [kind : {"token", "replace", "final", "error", "done"},
           text : Texts \cup {Withheld}]
Shows == Seq(Pieces \cup {"running", "failed", "no answer", "withheld"})

-----------------------------------------------------------------------------
(* Strip *)

\* A set of positions that is not empty has a first and a last one.
LEMMA Extremes ==
  ASSUME NEW n \in Nat, NEW S \in SUBSET (1..n), S # {}
  PROVE  /\ Min(S) \in S /\ \A i \in S : Min(S) <= i
         /\ Max(S) \in S /\ \A i \in S : i <= Max(S)
<1>1. S \subseteq Nat /\ \A i \in S : n - i \in Nat
  OBVIOUS
<1>2. PICK lo \in S : \A i \in S : ~(<<i, lo>> \in OpToRel(<, Nat))
  BY <1>1, NatLessThanWellFounded, WFMin
<1>3. \A i \in S : lo <= i
  <2>1. \A i \in S : ~(i < lo)
    BY <1>1, <1>2 DEF OpToRel
  <2> QED BY <1>1, <2>1
<1> DEFINE R == {n - i : i \in S}
<1>4. R \subseteq Nat /\ R # {}
  BY <1>1
<1>5. PICK r \in R : \A i \in R : ~(<<i, r>> \in OpToRel(<, Nat))
  BY <1>4, NatLessThanWellFounded, WFMin
<1>6. PICK hi \in S : r = n - hi
  BY <1>5
<1>7. \A i \in S : i <= hi
  <2> SUFFICES ASSUME NEW i \in S PROVE i <= hi
    OBVIOUS
  <2>1. n - i \in R
    OBVIOUS
  <2>2. ~(n - i < r)
    BY <1>4, <1>5, <2>1 DEF OpToRel
  <2> QED BY <1>6, <2>2
<1>8. Min(S) \in S /\ \A i \in S : Min(S) <= i
  BY <1>3 DEF Min
<1>9. Max(S) \in S /\ \A i \in S : i <= Max(S)
  BY <1>7 DEF Max
<1> QED BY <1>8, <1>9

\* Strip takes the part between the first and the last piece that is not white
\* space.
LEMMA StripTakes ==
  ASSUME NEW T, NEW t \in Seq(T), \E i \in DOMAIN t : t[i] # "blank"
  PROVE  \E lo, hi \in 1..Len(t) :
           /\ lo <= hi
           /\ Strip(t) = SubSeq(t, lo, hi)
           /\ t[lo] # "blank" /\ t[hi] # "blank"
<1> DEFINE solid == {i \in DOMAIN t : t[i] # "blank"}
<1>1. Len(t) \in Nat /\ DOMAIN t = 1..Len(t)
  BY LenProperties
<1>2. solid \in SUBSET (1..Len(t)) /\ solid # {}
  BY <1>1
<1>3. Strip(t) = SubSeq(t, Min(solid), Max(solid))
  BY <1>2 DEF Strip
<1> HIDE DEF solid
<1>4. Min(solid) \in solid /\ Max(solid) \in solid /\ Min(solid) <= Max(solid)
  BY <1>1, <1>2, Extremes
<1>5. Min(solid) \in 1..Len(t) /\ Max(solid) \in 1..Len(t)
  BY <1>1, <1>2, <1>4
<1>6. t[Min(solid)] # "blank" /\ t[Max(solid)] # "blank"
  BY <1>4 DEF solid
<1> QED BY <1>3, <1>4, <1>5, <1>6

\* A text whose first and last piece are not white space is left as it is.
LEMMA StripNothing ==
  ASSUME NEW T, NEW t \in Seq(T), Len(t) \in Nat \ {0}, t[1] # "blank", t[Len(t)] # "blank"
  PROVE  Strip(t) = t
<1> DEFINE solid == {i \in DOMAIN t : t[i] # "blank"}
<1>1. DOMAIN t = 1..Len(t)
  BY LenProperties
<1>2. solid \in SUBSET (1..Len(t)) /\ 1 \in solid /\ Len(t) \in solid
  BY <1>1
<1>3. Strip(t) = SubSeq(t, Min(solid), Max(solid))
  BY <1>2 DEF Strip
<1> HIDE DEF solid
<1>4. /\ Min(solid) \in solid /\ \A i \in solid : Min(solid) <= i
      /\ Max(solid) \in solid /\ \A i \in solid : i <= Max(solid)
  BY <1>2, Extremes
<1>5. Min(solid) = 1 /\ Max(solid) = Len(t)
  <2>1. Min(solid) \in 1..Len(t) /\ Max(solid) \in 1..Len(t)
    BY <1>2, <1>4
  <2>2. Min(solid) <= 1 /\ Len(t) <= Max(solid)
    BY <1>2, <1>4
  <2> QED BY <2>1, <2>2
<1> QED BY <1>3, <1>5, SubSeqFull

\* str.strip: stripping twice is stripping once, and what is stripped is a text.
LEMMA StripProperties ==
  ASSUME NEW T, NEW t \in Seq(T)
  PROVE  Strip(t) \in Seq(T) /\ Strip(Strip(t)) = Strip(t)
<1>1. CASE \E i \in DOMAIN t : t[i] # "blank"
  <2>1. PICK lo, hi \in 1..Len(t) :
          lo <= hi /\ Strip(t) = SubSeq(t, lo, hi) /\ t[lo] # "blank" /\ t[hi] # "blank"
    BY <1>1, StripTakes
  <2> DEFINE s == SubSeq(t, lo, hi)
  <2>2. Len(t) \in Nat /\ lo \in Int /\ hi \in Int /\ lo <= hi
        /\ \A i \in lo..hi : t[i] \in T
    BY <2>1, LenProperties, ElementOfSeq
  <2>3. /\ s \in Seq(T) /\ Len(s) = hi - lo + 1
        /\ \A i \in 1..(hi - lo + 1) : s[i] = t[lo + i - 1]
    BY <2>2, SubSeqProperties
  <2> HIDE DEF s
  <2>4. Len(s) \in Nat \ {0} /\ s[1] = t[lo] /\ s[Len(s)] = t[hi]
    <3>1. /\ 1 \in 1..(hi - lo + 1) /\ (hi - lo + 1) \in 1..(hi - lo + 1)
          /\ lo + 1 - 1 = lo /\ lo + (hi - lo + 1) - 1 = hi
      BY <2>2
    <3> QED BY <2>2, <2>3, <3>1
  <2>5. Strip(s) = s
    BY <2>1, <2>3, <2>4, StripNothing
  <2> QED BY <2>1, <2>3, <2>5 DEF s
<1>2. CASE \A i \in DOMAIN t : t[i] = "blank"
  <2>1. Strip(t) = <<>>
    BY <1>2 DEF Strip
  <2>2. \A i \in DOMAIN <<>> : <<>>[i] = "blank"
    BY EmptySeq
  <2>3. Strip(<<>>) = <<>>
    BY <2>2 DEF Strip
  <2> QED BY <2>1, <2>3, EmptySeq
<1> QED BY <1>1, <1>2

-----------------------------------------------------------------------------
(* Types *)

LEMMA Texted ==
  ASSUME TypeOK, NEW p \in Prompts
  PROVE  /\ raw[p] \in Texts /\ answer[p] \in Texts \cup {Withheld}
         /\ wire[p] \in Seq(Events) /\ shown[p] \in Shows
         /\ payload[p] \in Texts \cup {Withheld, None}
BY DEF TypeOK, Events, Shows

LEMMA EventTypes ==
  /\ \A x \in Pieces : Token(x) \in Events
  /\ \A t \in Texts \cup {Withheld} : Replace(t) \in Events /\ Final(t) \in Events
  /\ Error \in Events /\ Done \in Events
<1>1. \A x \in Pieces : <<x>> \in Texts
  BY DEF Texts
<1>2. <<>> \in Texts
  BY EmptySeq DEF Texts
<1> QED BY <1>1, <1>2 DEF Token, Replace, Final, Error, Done, Events

\* What the console may show: any text, and what it says itself.
LEMMA ShowTypes ==
  /\ Texts \subseteq Shows
  /\ Withheld \in Shows /\ Running \in Shows /\ Failed \in Shows /\ NoAnswer \in Shows
<1>1. Texts \subseteq Shows
  BY SeqMonotonic DEF Texts, Shows
<1>2. /\ Withheld \in Shows /\ Running \in Shows /\ Failed \in Shows
      /\ NoAnswer \in Shows
  BY DEF Shows, Withheld, Running, Failed, NoAnswer
<1> QED BY <1>1, <1>2

\* What the steps of the server send.
LEMMA SentTypes ==
  ASSUME TypeOK, NEW p \in Prompts
  PROVE  /\ \A x \in Pieces : <<Token(x)>> \in Seq(Events)
         /\ \A t \in Texts \cup {Withheld} :
              (IF t = answer[p] THEN <<>> ELSE <<Replace(t)>>) \in Seq(Events)
         /\ <<Final(answer[p]), Done>> \in Seq(Events)
         /\ <<Error, Done>> \in Seq(Events)
<1>1. answer[p] \in Texts \cup {Withheld}
  BY Texted
<1>2. <<>> \in Seq(Events)
  BY EmptySeq
<1> QED BY <1>1, <1>2, EventTypes

LEMMA Sending ==
  ASSUME TypeOK, NEW p \in Prompts, NEW events \in Seq(Events), Send(p, events)
  PROVE  /\ wire' \in [Prompts -> Seq(Events)]
         /\ wire'[p] = IF Connected(p) THEN wire[p] \o events ELSE wire[p]
         /\ \A q \in Prompts \ {p} : wire'[q] = wire[q]
<1>1. wire \in [Prompts -> Seq(Events)]
  BY DEF TypeOK, Events
<1>2. wire[p] \o events \in Seq(Events)
  BY <1>1, ConcatProperties
<1> QED BY <1>1, <1>2 DEF Send

\* The gate leaves an answer, revises it or withholds it.
LEMMA GatedTypes ==
  ASSUME NEW t \in Texts \cup {Withheld}, NEW policy, NEW g \in Gated(t, policy)
  PROVE  g \in Texts \cup {Withheld}
BY StreamAssumption DEF Gated, Texts

LEMMA StreamTokenType ==
  ASSUME TypeOK, NEW p \in Prompts, StreamToken(p)
  PROVE  TypeOK'
<1>1. PICK x \in Pieces : raw' = [raw EXCEPT ![p] = Append(@, x)] /\ Send(p, <<Token(x)>>)
  BY DEF StreamToken
<1>2. raw' \in [Prompts -> Texts]
  <2>1. Append(raw[p], x) \in Texts
    BY AppendProperties, Texted DEF Texts
  <2> QED BY <1>1, <2>1 DEF TypeOK
<1>3. wire' \in [Prompts -> Seq(Events)]
  BY <1>1, SentTypes, Sending
<1> QED BY <1>2, <1>3 DEF TypeOK, StreamToken, console, Events

LEMMA CodaDoneType ==
  ASSUME TypeOK, NEW p \in Prompts, CodaDone(p)
  PROVE  TypeOK'
<1>1. Strip(raw[p]) \in Texts
  BY Texted, StripProperties DEF Texts
<1> QED BY <1>1 DEF TypeOK, CodaDone, Goto, Working, console

\* What the gate does to the answer and what it tells the console.
LEMMA GateEffect ==
  ASSUME TypeOK, NEW p \in Prompts, Gate(p)
  PROVE  \E t \in Texts \cup {Withheld} :
           /\ answer' = [answer EXCEPT ![p] = t]
           /\ Send(p, IF t = answer[p] THEN <<>> ELSE <<Replace(t)>>)
<1>1. PICK policy \in Policies : \E t \in Gated(answer[p], policy) :
        /\ answer' = [answer EXCEPT ![p] = t]
        /\ Send(p, IF t = answer[p] THEN <<>> ELSE <<Replace(t)>>)
  BY DEF Gate
<1>2. PICK t \in Gated(answer[p], policy) :
        /\ answer' = [answer EXCEPT ![p] = t]
        /\ Send(p, IF t = answer[p] THEN <<>> ELSE <<Replace(t)>>)
  BY <1>1
<1>3. t \in Texts \cup {Withheld}
  BY Texted, GatedTypes
<1> QED BY <1>2, <1>3

LEMMA GateType ==
  ASSUME TypeOK, NEW p \in Prompts, Gate(p)
  PROVE  TypeOK'
<1>1. PICK t \in Texts \cup {Withheld} :
        /\ answer' = [answer EXCEPT ![p] = t]
        /\ Send(p, IF t = answer[p] THEN <<>> ELSE <<Replace(t)>>)
  BY GateEffect
<1>2. wire' \in [Prompts -> Seq(Events)]
  BY <1>1, SentTypes, Sending
<1>3. answer' \in [Prompts -> Texts \cup {Withheld}]
  BY <1>1 DEF TypeOK
<1> QED BY <1>2, <1>3 DEF TypeOK, Gate, Goto, Working, console, Events

LEMMA FinishType ==
  ASSUME TypeOK, NEW p \in Prompts, Finish(p)
  PROVE  TypeOK'
<1>1. wire' \in [Prompts -> Seq(Events)]
  BY SentTypes, Sending DEF Finish
<1> QED BY <1>1 DEF TypeOK, Finish, Goto, Working, console, Events

LEMMA FailType ==
  ASSUME TypeOK, NEW p \in Prompts, Fail(p)
  PROVE  TypeOK'
<1>1. wire' \in [Prompts -> Seq(Events)]
  BY SentTypes, Sending DEF Fail
<1> QED BY <1>1 DEF TypeOK, Fail, Goto, Working, console, Events

LEMMA ServerType ==
  ASSUME TypeOK, NEW p \in Prompts,
         Get(p) \/ Log(p) \/ Put(p) \/ PutAgain(p) \/ Cancel(p)
  PROVE  TypeOK'
<1>1. CASE Get(p)
  BY <1>1 DEF TypeOK, Get, Goto, Working, console
<1>2. CASE Log(p)
  BY <1>2 DEF TypeOK, Log, Goto, Working, console
<1>3. CASE Put(p)
  BY <1>3 DEF TypeOK, Put, Goto, Working, console
<1>4. CASE PutAgain(p)
  <2>1. attempt[p] \in 1..MaxAttempts /\ attempt[p] < MaxAttempts /\ MaxAttempts \in Nat
    BY <1>4, StreamAssumption DEF TypeOK, PutAgain
  <2>2. attempt[p] + 1 \in 1..MaxAttempts
    BY <2>1
  <2> QED BY <1>4, <2>2 DEF TypeOK, PutAgain, Goto, Working, console
<1>5. CASE Cancel(p)
  BY <1>5 DEF TypeOK, Cancel, Goto, Working, console
<1> QED BY <1>1, <1>2, <1>3, <1>4, <1>5

\* What the console shows after an event is something it may show.
LEMMA ShownAfterType ==
  ASSUME TypeOK, NEW p \in Prompts, NEW event \in Events
  PROVE  ShownAfter(p, event) \in Shows
<1>1. shown[p] \in Shows /\ event.text \in Shows
  BY Texted, ShowTypes DEF Events
<1>2. shown[p] \o event.text \in Shows
  BY <1>1, ConcatProperties DEF Shows
<1> QED BY <1>1, <1>2 DEF ShownAfter

LEMMA ReadType ==
  ASSUME TypeOK, NEW p \in Prompts, Read(p)
  PROVE  TypeOK'
<1> DEFINE event == Head(wire[p])
<1>1. event \in Events /\ Tail(wire[p]) \in Seq(Events)
  BY Texted, HeadTailProperties DEF Read
<1>2. wire' \in [Prompts -> Seq(Events)]
  BY <1>1 DEF TypeOK, Read, Events
<1>3. shown' \in [Prompts -> Shows]
  BY <1>1, ShownAfterType DEF TypeOK, Read, Shows
<1>4. payload' \in [Prompts -> Texts \cup {Withheld, None}]
  BY <1>1 DEF TypeOK, Read, Events
<1>5. started' \in [Prompts -> BOOLEAN] /\ error' \in [Prompts -> BOOLEAN]
  BY DEF TypeOK, Read
<1> QED BY <1>2, <1>3, <1>4, <1>5 DEF TypeOK, Read, server, Events, Shows

LEMMA ConsoleType ==
  ASSUME TypeOK, NEW p \in Prompts, Submit(p) \/ Settle(p) \/ Lose(p)
  PROVE  TypeOK'
<1>1. CASE Submit(p)
  <2>1. beside' \in [Prompts -> SUBSET Prompts]
    BY <1>1 DEF TypeOK, Submit
  <2> QED BY <1>1, <2>1, ShowTypes DEF TypeOK, Submit, Goto, Working, Shows
<1>2. ASSUME SettleFails(p), wire' \in [Prompts -> Seq(Events)] PROVE TypeOK'
  BY <1>2, ShowTypes DEF TypeOK, SettleFails, server, Shows, Events
<1>3. CASE Settle(p)
  <2>1. wire' \in [Prompts -> Seq(Events)]
    BY <1>3 DEF TypeOK, Settle, Events
  <2>2. CASE SettleFails(p)
    BY <1>2, <2>1, <2>2
  <2>3. CASE ~SettleFails(p)
    <3>1. SettleAnswered(p) /\ payload[p] # None
      BY <1>3, <2>3 DEF Settle
    <3>2. (IF payload[p] = <<>> THEN NoAnswer ELSE payload[p]) \in Shows
      BY <3>1, Texted, ShowTypes
    <3> QED BY <2>1, <3>1, <3>2 DEF TypeOK, SettleAnswered, server, Shows, Events
  <2> QED BY <2>2, <2>3
<1>4. CASE Lose(p)
  <2>1. wire' \in [Prompts -> Seq(Events)]
    BY <1>4, EmptySeq DEF TypeOK, Lose, Events
  <2> QED BY <1>2, <1>4, <2>1 DEF Lose
<1> QED BY <1>1, <1>3, <1>4

LEMMA InitType == Init => TypeOK
<1> SUFFICES ASSUME Init PROVE TypeOK
  OBVIOUS
<1>1. <<>> \in Texts /\ <<>> \in Seq(Events) /\ <<>> \in Shows
  BY EmptySeq DEF Texts, Shows
<1>2. 1 \in 1..MaxAttempts
  BY StreamAssumption
<1> QED BY <1>1, <1>2 DEF Init, TypeOK, Working, Events, Shows

\* Every variable of CompletionStream keeps its type, whatever the pieces, the
\* policies and the revisions are.
THEOREM TypeCorrect == Spec => []TypeOK
<1>1. TypeOK /\ [Next]_vars => TypeOK'
  <2> SUFFICES ASSUME TypeOK, [Next]_vars PROVE TypeOK'
    OBVIOUS
  <2>1. CASE UNCHANGED vars
    BY <2>1 DEF TypeOK, vars, server, console
  <2>2. ASSUME NEW p \in Prompts,
               Submit(p) \/ Serve(p) \/ Cancel(p) \/ Read(p) \/ Settle(p) \/ Lose(p)
        PROVE  TypeOK'
    BY <2>2, StreamTokenType, CodaDoneType, GateType, FinishType, FailType, ServerType,
       ReadType, ConsoleType DEF Serve
  <2> QED BY <2>1, <2>2 DEF Next
<1> QED BY <1>1, InitType, PTL DEF Spec

-----------------------------------------------------------------------------
(* A step is about one prompt *)

\* A snapshot of the thread has q, the stored one or one that a task has read.
Known(q) == q \in stored \/ \E o \in Prompts : q \in prior[o]

\* Nothing of q changes, but that it may be erased from a snapshot.
Untouched(q) ==
  /\ remote' = remote /\ (Known(q)' => Known(q))
  /\ task'[q] = task[q] /\ raw'[q] = raw[q] /\ answer'[q] = answer[q]
  /\ prior'[q] = prior[q] /\ logged'[q] = logged[q] /\ beside'[q] = beside[q]
  /\ wire'[q] = wire[q] /\ (Connected(q)' <=> Connected(q))
  /\ shown'[q] = shown[q] /\ started'[q] = started[q] /\ payload'[q] = payload[q]
  /\ error'[q] = error[q] /\ outcome'[q] = outcome[q]

\* Snapshots lose prompts or gain the one whose task puts its own.
LEMMA SnapshotsTouched ==
  ASSUME TypeOK, NEW p \in Prompts, Serve(p) \/ Cancel(p)
  PROVE  /\ \A q \in Prompts \ {p} : Known(q)' => Known(q)
         /\ ~Put(p) => (Known(p)' => Known(p))
<1>1. CASE Get(p)
  BY <1>1 DEF Get, Known, TypeOK
<1>2. CASE Put(p)
  BY <1>2 DEF Put, Known, TypeOK
<1>3. CASE ~Get(p) /\ ~Put(p)
  <2>1. stored' = stored /\ prior' = prior
    BY <1>3 DEF Serve, StreamToken, CodaDone, Gate, Log, PutAgain, Finish, Fail, Cancel
  <2> QED BY <2>1 DEF Known
<1> QED BY <1>1, <1>2, <1>3

LEMMA ServeTouches ==
  ASSUME TypeOK, NEW p \in Prompts, Serve(p) \/ Cancel(p), NEW q \in Prompts \ {p}
  PROVE  Untouched(q)
<1>0. Known(q)' => Known(q)
  BY SnapshotsTouched
<1> USE DEF Untouched, Connected, Goto, server, console
<1>1. CASE Get(p)
  BY <1>0, <1>1 DEF Get, TypeOK
<1>2. CASE StreamToken(p)
  <2>1. wire'[q] = wire[q]
    BY <1>2, SentTypes, Sending DEF StreamToken
  <2> QED BY <1>0, <1>2, <2>1 DEF StreamToken, TypeOK
<1>3. CASE CodaDone(p)
  BY <1>0, <1>3 DEF CodaDone, TypeOK
<1>4. CASE Gate(p)
  <2>1. PICK t \in Texts \cup {Withheld} :
          /\ answer' = [answer EXCEPT ![p] = t]
          /\ Send(p, IF t = answer[p] THEN <<>> ELSE <<Replace(t)>>)
    BY <1>4, GateEffect
  <2>2. wire'[q] = wire[q]
    BY <2>1, SentTypes, Sending
  <2> QED BY <1>0, <1>4, <2>1, <2>2 DEF Gate, TypeOK
<1>5. CASE Log(p)
  BY <1>0, <1>5 DEF Log, TypeOK
<1>6. CASE Put(p)
  BY <1>0, <1>6 DEF Put, TypeOK
<1>7. CASE Finish(p)
  <2>1. wire'[q] = wire[q]
    BY <1>7, SentTypes, Sending DEF Finish
  <2> QED BY <1>0, <1>7, <2>1 DEF Finish, TypeOK
<1>8. CASE Fail(p)
  <2>1. wire'[q] = wire[q]
    BY <1>8, SentTypes, Sending DEF Fail
  <2> QED BY <1>0, <1>8, <2>1 DEF Fail, TypeOK
<1>9. CASE Cancel(p) \/ PutAgain(p)
  BY <1>0, <1>9 DEF Cancel, PutAgain, TypeOK
<1> QED BY <1>1, <1>2, <1>3, <1>4, <1>5, <1>6, <1>7, <1>8, <1>9 DEF Serve

LEMMA ConsoleTouches ==
  ASSUME TypeOK, NEW p \in Prompts, Submit(p) \/ Read(p) \/ Settle(p) \/ Lose(p),
         NEW q \in Prompts \ {p}
  PROVE  Untouched(q)
<1>1. q # 0 /\ p # 0 /\ q # p
  BY StreamAssumption
<1>6. Known(q)' => Known(q)
  BY DEF Known, Submit, Read, Settle, Lose, SettleFails, SettleAnswered, server
<1> USE <1>6 DEF Untouched, Connected, Goto, server, console, TypeOK
<1>2. CASE Submit(p)
  BY <1>1, <1>2 DEF Submit
<1>3. CASE Read(p)
  <2>1. payload'[q] = payload[q]
    BY <1>3 DEF Read
  <2>2. shown'[q] = shown[q] /\ started'[q] = started[q] /\ error'[q] = error[q]
    BY <1>3 DEF Read
  <2> QED BY <1>3, <2>1, <2>2 DEF Read
<1>4. CASE Settle(p)
  <2>1. SettleFails(p) \/ SettleAnswered(p)
    BY <1>4 DEF Settle
  <2> QED BY <1>1, <1>4, <2>1 DEF Settle, SettleFails, SettleAnswered
<1>5. CASE Lose(p)
  BY <1>1, <1>5 DEF Lose, SettleFails
<1> QED BY <1>2, <1>3, <1>4, <1>5

-----------------------------------------------------------------------------
(* What a prompt leaves on record *)

\* Nothing has happened to a prompt that has not been submitted.
Fresh(p) == task[p] = "new" =>
  /\ raw[p] = <<>> /\ wire[p] = <<>> /\ ~started[p] /\ payload[p] = None /\ ~error[p]
  /\ outcome[p] = "none" /\ ~Connected(p)

\* Events wait only for a console that is there; a settled prompt's has gone.
Quiet(p) ==
  /\ ~Connected(p) => wire[p] = <<>>
  /\ outcome[p] # "none" => ~Connected(p)

\* The snapshot is put after the trajectory, with the answer the gate left, and only
\* then is the console told the answer; an error comes instead of it, and without a
\* network before the put.
Recorded(p) ==
  /\ task[p] \in {"put", "final"} => logged[p] = answer[p]
  /\ payload[p] # None =>
       task[p] = "ended" /\ payload[p] = answer[p] /\ logged[p] = answer[p]
  /\ error[p] => task[p] = "ended"
  /\ ~remote /\ Known(p) => task[p] \in {"final", "ended"} /\ ~error[p]

\* The same of the events that are on their way.
Announces(p, event) ==
  /\ event.kind = "final" =>
       task[p] = "ended" /\ event.text = answer[p] /\ logged[p] = answer[p]
  /\ event.kind = "error" => task[p] = "ended" /\ (~remote => ~Known(p))

Sent(p) == \A i \in 1..Len(wire[p]) : Announces(p, wire[p][i])

Answered(p) == outcome[p] = "answered" =>
  payload[p] # None /\ shown[p] = IF payload[p] = <<>> THEN NoAnswer ELSE payload[p]

OnRecord(p) == Fresh(p) /\ Quiet(p) /\ Recorded(p) /\ Sent(p) /\ Answered(p)

LEMMA UntouchedOnRecord ==
  ASSUME NEW q \in Prompts, Untouched(q), OnRecord(q)
  PROVE  OnRecord(q)'
BY DEF Untouched, OnRecord, Fresh, Quiet, Recorded, Sent, Announces, Answered

AnnouncesNow(p, event) ==
  /\ event.kind = "final" =>
       task'[p] = "ended" /\ event.text = answer'[p] /\ logged'[p] = answer'[p]
  /\ event.kind = "error" => task'[p] = "ended" /\ (~remote' => ~Known(p)')

\* A console is told the truth if what waits for it stays true and what is sent
\* is true after the step.
LEMMA SentAfterSend ==
  ASSUME TypeOK, NEW p \in Prompts, NEW events \in Seq(Events), Send(p, events),
         \A i \in 1..Len(wire[p]) : AnnouncesNow(p, wire[p][i]),
         \A i \in 1..Len(events) : AnnouncesNow(p, events[i])
  PROVE  Sent(p)'
<1>1. SUFFICES ASSUME NEW i \in 1..Len(wire'[p]) PROVE AnnouncesNow(p, wire'[p][i])
  BY DEF Sent, Announces, AnnouncesNow
<1>2. CASE ~Connected(p)
  BY <1>2, Sending
<1>3. CASE Connected(p)
  <2>1. wire'[p] = wire[p] \o events
    BY <1>3, Sending
  <2>2. Len(wire[p]) \in Nat /\ Len(events) \in Nat
    BY Texted, LenProperties
  <2>3. /\ Len(wire'[p]) = Len(wire[p]) + Len(events)
        /\ wire'[p][i] = IF i <= Len(wire[p]) THEN wire[p][i] ELSE events[i - Len(wire[p])]
    BY <2>1, Texted, ConcatProperties
  <2>4. CASE i <= Len(wire[p])
    BY <2>2, <2>3, <2>4
  <2>5. CASE ~(i <= Len(wire[p]))
    <3>1. i - Len(wire[p]) \in 1..Len(events)
      BY <2>2, <2>3, <2>5
    <3> QED BY <2>3, <2>5, <3>1
  <2> QED BY <2>4, <2>5
<1> QED BY <1>2, <1>3

LEMMA QuietOnRecord ==
  ASSUME TypeOK, NEW p \in Prompts, OnRecord(p),
         Get(p) \/ CodaDone(p) \/ Log(p) \/ Put(p) \/ PutAgain(p) \/ Cancel(p)
  PROVE  OnRecord(p)'
<1>0. ~Put(p) => (Known(p)' => Known(p))
  BY SnapshotsTouched DEF Serve
<1> USE DEF OnRecord, Fresh, Quiet, Recorded, Sent, Announces, Answered, Connected, Goto, console
<1>1. CASE Get(p)
  BY <1>0, <1>1 DEF Get, Put, TypeOK
<1>2. CASE CodaDone(p)
  BY <1>0, <1>2 DEF CodaDone, Put, TypeOK
<1>3. CASE Log(p)
  BY <1>0, <1>3 DEF Log, Put, TypeOK
<1>4. CASE Put(p)
  BY <1>4 DEF Put, TypeOK
<1>5. CASE PutAgain(p)
  BY <1>0, <1>5 DEF PutAgain, Put, TypeOK
<1>6. CASE Cancel(p) /\ ~Put(p)
  BY <1>0, <1>6 DEF Cancel, TypeOK, Working
<1> QED BY <1>1, <1>2, <1>3, <1>4, <1>5, <1>6

\* What a step of the server that sends events must show of its own prompt.
LEMMA SendOnRecord ==
  ASSUME TypeOK, NEW p \in Prompts, OnRecord(p), NEW events \in Seq(Events), Send(p, events),
         task[p] # "new", task'[p] # "new", UNCHANGED console, Recorded(p)', Sent(p)'
  PROVE  OnRecord(p)'
<1>1. Quiet(p)'
  BY Sending DEF OnRecord, Quiet, Connected, console
<1>2. Answered(p)'
  BY DEF OnRecord, Answered, console
<1> QED BY <1>1, <1>2 DEF OnRecord, Fresh

LEMMA StreamTokenOnRecord ==
  ASSUME TypeOK, NEW p \in Prompts, OnRecord(p), StreamToken(p)
  PROVE  OnRecord(p)'
<1>1. PICK x \in Pieces : Send(p, <<Token(x)>>) /\ <<Token(x)>> \in Seq(Events)
  BY SentTypes DEF StreamToken
<1>2. \A i \in 1..Len(wire[p]) : AnnouncesNow(p, wire[p][i])
  BY DEF OnRecord, Sent, Announces, AnnouncesNow, StreamToken, Known
<1>3. \A i \in 1..Len(<<Token(x)>>) : AnnouncesNow(p, <<Token(x)>>[i])
  BY DEF AnnouncesNow, Token
<1>4. Sent(p)'
  BY <1>1, <1>2, <1>3, SentAfterSend
<1>5. Recorded(p)'
  BY DEF OnRecord, Recorded, StreamToken, Known, console
<1> QED BY <1>1, <1>4, <1>5, SendOnRecord DEF StreamToken

LEMMA GateOnRecord ==
  ASSUME TypeOK, NEW p \in Prompts, OnRecord(p), Gate(p)
  PROVE  OnRecord(p)'
<1>1. PICK t \in Texts \cup {Withheld} :
        /\ answer' = [answer EXCEPT ![p] = t]
        /\ Send(p, IF t = answer[p] THEN <<>> ELSE <<Replace(t)>>)
  BY GateEffect
<1> DEFINE events == IF t = answer[p] THEN <<>> ELSE <<Replace(t)>>
<1>2. events \in Seq(Events) /\ Send(p, events)
  BY <1>1, SentTypes
<1>3. task'[p] = "log" /\ task[p] = "gate" /\ (Known(p)' => Known(p))
  BY DEF Gate, Goto, TypeOK, Known
<1>4. \A i \in 1..Len(wire[p]) : AnnouncesNow(p, wire[p][i])
  BY <1>3 DEF OnRecord, Sent, Announces, AnnouncesNow
<1>5. \A i \in 1..Len(events) : AnnouncesNow(p, events[i])
  <2>1. CASE t = answer[p]
    BY <2>1, EmptySeq
  <2>2. CASE t # answer[p]
    BY <2>2 DEF AnnouncesNow, Replace
  <2> QED BY <2>1, <2>2
<1> HIDE DEF events
<1>6. Sent(p)'
  BY <1>2, <1>4, <1>5, SentAfterSend
<1>7. Recorded(p)'
  BY <1>3 DEF OnRecord, Recorded, Gate, console
<1> QED BY <1>2, <1>3, <1>6, <1>7, SendOnRecord DEF Gate

LEMMA FinishOnRecord ==
  ASSUME TypeOK, NEW p \in Prompts, OnRecord(p), Finish(p)
  PROVE  OnRecord(p)'
<1>1. /\ Send(p, <<Final(answer[p]), Done>>) /\ <<Final(answer[p]), Done>> \in Seq(Events)
      /\ task[p] = "final" /\ task'[p] = "ended" /\ logged[p] = answer[p]
      /\ answer' = answer /\ logged' = logged /\ (Known(p)' => Known(p))
  BY SentTypes DEF Finish, Goto, TypeOK, OnRecord, Recorded, Known
<1>2. \A i \in 1..Len(wire[p]) : AnnouncesNow(p, wire[p][i])
  BY <1>1 DEF OnRecord, Sent, Announces, AnnouncesNow
<1>3. \A i \in 1..Len(<<Final(answer[p]), Done>>) :
        AnnouncesNow(p, <<Final(answer[p]), Done>>[i])
  BY <1>1 DEF AnnouncesNow, Final, Done
<1>4. Sent(p)'
  BY <1>1, <1>2, <1>3, SentAfterSend
<1>5. Recorded(p)'
  BY <1>1 DEF OnRecord, Recorded, Finish, console
<1> QED BY <1>1, <1>4, <1>5, SendOnRecord DEF Finish

LEMMA FailOnRecord ==
  ASSUME TypeOK, NEW p \in Prompts, OnRecord(p), Fail(p)
  PROVE  OnRecord(p)'
<1>1. /\ Send(p, <<Error, Done>>) /\ <<Error, Done>> \in Seq(Events)
      /\ task[p] \in Working \cup {"final"} /\ task'[p] = "ended"
      /\ remote' = remote /\ (~remote => ~Known(p)')
  BY SentTypes DEF Fail, Goto, TypeOK, OnRecord, Recorded, Known, Working
<1>2. \A i \in 1..Len(wire[p]) : AnnouncesNow(p, wire[p][i])
  BY <1>1 DEF OnRecord, Sent, Announces, AnnouncesNow, Working
<1>3. \A i \in 1..Len(<<Error, Done>>) : AnnouncesNow(p, <<Error, Done>>[i])
  BY <1>1 DEF AnnouncesNow, Error, Done
<1>4. Sent(p)'
  BY <1>1, <1>2, <1>3, SentAfterSend
<1>5. Recorded(p)'
  BY <1>1 DEF OnRecord, Recorded, Fail, console, Working
<1>6. task[p] # "new"
  BY <1>1 DEF Working
<1> QED BY <1>1, <1>4, <1>5, <1>6, SendOnRecord DEF Fail

LEMMA ReadOnRecord ==
  ASSUME TypeOK, NEW p \in Prompts, OnRecord(p), Read(p)
  PROVE  OnRecord(p)'
<1> DEFINE event == Head(wire[p])
<1>1. /\ Connected(p) /\ wire[p] # <<>> /\ wire[p] \in Seq(Events)
      /\ UNCHANGED <<server, pending, outcome>>
      /\ wire' = [wire EXCEPT ![p] = Tail(@)]
  BY Texted DEF Read
<1>2. /\ Len(wire[p]) \in Nat \ {0} /\ Len(Tail(wire[p])) = Len(wire[p]) - 1
      /\ \A i \in 1..Len(Tail(wire[p])) : Tail(wire[p])[i] = wire[p][i + 1]
      /\ event = wire[p][1]
  BY <1>1, EmptySeq, HeadTailProperties
<1>3. wire'[p] = Tail(wire[p])
  BY <1>1 DEF TypeOK
<1>4. Announces(p, event)
  BY <1>2 DEF OnRecord, Sent
<1>5. Sent(p)'
  <2> SUFFICES ASSUME NEW i \in 1..Len(wire'[p]) PROVE Announces(p, wire[p][i + 1])
    BY ZenonT(60), <1>1, <1>2, <1>3 DEF Sent, Announces, Known, server
  <2>1. i + 1 \in 1..Len(wire[p])
    BY <1>2, <1>3
  <2> QED BY <2>1 DEF OnRecord, Sent
<1>6. payload'[p] = IF event.kind = "final" THEN event.text ELSE payload[p]
  BY DEF Read, TypeOK
<1>7. error'[p] <=> error[p] \/ event.kind = "error"
  BY DEF Read, TypeOK
<1> HIDE DEF event
<1>8. Recorded(p)'
  BY <1>1, <1>4, <1>6, <1>7 DEF OnRecord, Recorded, Announces, Known, server
<1>9. outcome[p] = "none"
  BY <1>1 DEF OnRecord, Quiet, TypeOK
<1> QED BY <1>1, <1>5, <1>8, <1>9
    DEF OnRecord, Quiet, Fresh, Answered, server, Connected

LEMMA SubmitOnRecord ==
  ASSUME TypeOK, NEW p \in Prompts, OnRecord(p), Submit(p)
  PROVE  OnRecord(p)'
<1>1. Known(p)' => Known(p)
  BY DEF Submit, Known
<1> QED BY <1>1 DEF OnRecord, Fresh, Quiet, Recorded, Sent, Announces, Answered, Connected,
                    Submit, Goto, TypeOK

LEMMA SettleOnRecord ==
  ASSUME TypeOK, NEW p \in Prompts, OnRecord(p), Settle(p) \/ Lose(p)
  PROVE  OnRecord(p)'
<1>1. p # 0 /\ Connected(p) /\ pending' = 0 /\ ~Connected(p)' /\ UNCHANGED <<server, payload, error>>
  BY StreamAssumption DEF Settle, Lose, SettleFails, SettleAnswered, Connected
<1>2. wire'[p] = <<>>
  BY DEF Settle, Lose, TypeOK
<1>3. Answered(p)'
  <2>1. CASE SettleFails(p)
    BY <2>1 DEF SettleFails, Answered, TypeOK
  <2>2. CASE SettleAnswered(p) /\ payload[p] # None
    BY <2>2 DEF SettleAnswered, Answered, TypeOK
  <2> QED BY <2>1, <2>2 DEF Settle, Lose
<1>4. Sent(p)'
  BY <1>2, EmptySeq DEF Sent
<1>5. Recorded(p)'
  BY <1>1 DEF OnRecord, Recorded, Known, server
<1> QED BY <1>1, <1>2, <1>3, <1>4, <1>5 DEF OnRecord, Fresh, Quiet, server

Record == \A p \in Prompts : OnRecord(p)

LEMMA RecordInvariant == Spec => [](TypeOK /\ Record)
<1>1. Init => TypeOK /\ Record
  <2> SUFFICES ASSUME Init PROVE Record
    BY InitType
  <2>1. 0 \notin Prompts
    BY StreamAssumption
  <2> QED BY <2>1, EmptySeq DEF Init, Record, OnRecord, Fresh, Quiet, Recorded, Sent, Answered,
                             Known, Connected
<1>2. TypeOK /\ Record /\ TypeOK' /\ [Next]_vars => Record'
  <2> SUFFICES ASSUME TypeOK, Record, [Next]_vars, NEW q \in Prompts PROVE OnRecord(q)'
    BY DEF Record
  <2>1. OnRecord(q)
    BY DEF Record
  <2>2. CASE UNCHANGED vars
    BY <2>1, <2>2, UntouchedOnRecord DEF Untouched, Known, vars, server, console, Connected
  <2>3. ASSUME NEW p \in Prompts,
               Submit(p) \/ Serve(p) \/ Cancel(p) \/ Read(p) \/ Settle(p) \/ Lose(p)
        PROVE  OnRecord(q)'
    <3>1. CASE q # p
      BY <2>1, <2>3, <3>1, ServeTouches, ConsoleTouches, UntouchedOnRecord
    <3>2. CASE q = p
      BY <2>1, <2>3, <3>2, QuietOnRecord, StreamTokenOnRecord, GateOnRecord, FinishOnRecord,
         FailOnRecord, ReadOnRecord, SubmitOnRecord, SettleOnRecord DEF Serve
    <3> QED BY <3>1, <3>2
  <2> QED BY <2>2, <2>3 DEF Next
<1> QED BY <1>1, <1>2, TypeCorrect, PTL DEF Spec

\* With the in-memory session store, a prompt whose console was sent an error never
\* comes to be remembered, nor was it when the error was sent.
THEOREM ErrorsForget == Spec => []ErrorMeansForgotten
<1>1. Record => ErrorMeansForgotten
  BY DEF Record, OnRecord, Recorded, Known, ErrorMeansForgotten
<1> QED BY <1>1, RecordInvariant, PTL

-----------------------------------------------------------------------------
(* An answered prompt that no task ran beside stays in memory *)

\* The answer has been sent to the console and it has not gone since.
Told(p) == payload[p] # None \/ \E i \in 1..Len(wire[p]) : wire[p][i].kind = "final"

\* No other task runs while the console waits for a prompt that was sent when none
\* ran; from its put on it is stored, and whatever reads later reads of it.
Lone(p) == beside[p] = {} =>
  /\ Connected(p) => \A o \in Prompts \ {p} : ~Busy(o)
  /\ Connected(p) /\ task[p] = "final" => p \in stored
  /\ Told(p) => /\ p \in stored
                /\ \A o \in Prompts \ {p} : Busy(o) /\ task[o] # "get" => p \in prior[o]

\* The task of a prompt goes on, and reads and writes the snapshot, on its own.
LEMMA OwnTask ==
  ASSUME TypeOK, NEW p \in Prompts,
         Serve(p) \/ Cancel(p) \/ Read(p) \/ Settle(p) \/ Lose(p)
  PROVE  /\ beside' = beside /\ (Busy(p)' => Busy(p))
         /\ task'[p] = "final" => task[p] = "final" \/ Put(p)
         /\ Busy(p)' /\ task'[p] # "get" =>
              \/ task[p] # "get" /\ prior'[p] = prior[p]
              \/ prior'[p] = stored
         /\ stored' = stored \/ (task[p] = "put" /\ stored' = prior[p] \cup {p})
         /\ pending' = pending \/ pending' = 0
<1> USE DEF Busy, Goto, server, console, TypeOK
<1>1. CASE Get(p)
  BY <1>1 DEF Get
<1>2. CASE StreamToken(p)
  BY <1>2 DEF StreamToken
<1>3. CASE CodaDone(p)
  BY <1>3 DEF CodaDone
<1>4. CASE Gate(p)
  BY <1>4 DEF Gate
<1>5. CASE Log(p)
  BY <1>5 DEF Log
<1>6. CASE Put(p)
  BY <1>6 DEF Put
<1>7. CASE PutAgain(p)
  BY <1>7 DEF PutAgain
<1>8. CASE Finish(p)
  BY <1>8 DEF Finish
<1>9. CASE Fail(p) \/ Cancel(p)
  BY <1>9 DEF Fail, Cancel
<1>10. CASE Read(p)
  BY <1>10 DEF Read
<1>11. CASE Settle(p) \/ Lose(p)
  BY <1>11 DEF Settle, Lose, SettleFails, SettleAnswered
<1> QED BY <1>1, <1>2, <1>3, <1>4, <1>5, <1>6, <1>7, <1>8, <1>9, <1>10, <1>11 DEF Serve

\* Only the last step of its task tells the console an answer.
LEMMA ToldBefore ==
  ASSUME TypeOK, NEW p \in Prompts, OnRecord(p)', Told(p)',
         Submit(p) \/ Serve(p) \/ Cancel(p) \/ Read(p) \/ Settle(p) \/ Lose(p)
  PROVE  Told(p) \/ (Finish(p) /\ Connected(p))
<1>1. task'[p] = "ended"
  BY DEF OnRecord, Recorded, Sent, Announces, Told
<1>2. CASE Finish(p)
  BY <1>2, SentTypes, Sending DEF Finish, Told, console
<1>3. CASE Fail(p)
  <2>1. CASE Connected(p)
    <3> DEFINE events == <<Error, Done>>
    <3>1. wire'[p] = wire[p] \o events /\ payload' = payload
      BY <1>3, <2>1, SentTypes, Sending DEF Fail, console
    <3>2. /\ wire[p] \in Seq(Events) /\ events \in Seq(Events) /\ Len(wire[p]) \in Nat
          /\ Len(events) = 2 /\ events[1].kind = "error" /\ events[2].kind = "done"
      BY Texted, SentTypes, LenProperties DEF Error, Done
    <3> HIDE DEF events
    <3>3. /\ Len(wire'[p]) = Len(wire[p]) + 2
          /\ \A i \in 1..(Len(wire[p]) + 2) :
               wire'[p][i] = IF i <= Len(wire[p]) THEN wire[p][i] ELSE events[i - Len(wire[p])]
      <4>1. wire[p] \in Seq(Events) /\ events \in Seq(Events) /\ Len(events) = 2
        BY <3>2
      <4>2. /\ Len(wire[p] \o events) = Len(wire[p]) + 2
            /\ \A i \in 1..(Len(wire[p]) + 2) : (wire[p] \o events)[i] =
                 IF i <= Len(wire[p]) THEN wire[p][i] ELSE events[i - Len(wire[p])]
        <5>1. /\ Len(wire[p] \o events) = Len(wire[p]) + Len(events)
              /\ \A i \in 1..(Len(wire[p]) + Len(events)) : (wire[p] \o events)[i] =
                   IF i <= Len(wire[p]) THEN wire[p][i] ELSE events[i - Len(wire[p])]
          BY <4>1, ConcatProperties
        <5> QED BY <4>1, <5>1
      <4> QED BY <3>1, <4>2
    <3>4. CASE payload[p] # None
      BY <3>4 DEF Told
    <3>5. CASE payload[p] = None
      <4>1. PICK i \in 1..(Len(wire[p]) + 2) : wire'[p][i].kind = "final"
        BY <3>1, <3>3, <3>5 DEF Told
      <4>2. CASE i <= Len(wire[p])
        <5>1. i \in 1..Len(wire[p])
          BY <3>2, <4>2
        <5> QED BY <3>3, <4>1, <4>2, <5>1 DEF Told
      <4>3. CASE ~(i <= Len(wire[p]))
        <5>1. i - Len(wire[p]) \in {1, 2}
          BY <3>2, <4>3
        <5> QED BY <3>2, <3>3, <4>1, <4>3, <5>1
      <4> QED BY <4>2, <4>3
    <3> QED BY <3>4, <3>5
  <2>2. CASE ~Connected(p)
    BY <1>3, <2>2, SentTypes, Sending DEF Fail, Told, console
  <2> QED BY <2>1, <2>2
<1>4. CASE Read(p)
  <2>1. /\ wire[p] \in Seq(Events) /\ wire[p] # <<>> /\ wire'[p] = Tail(wire[p])
        /\ payload'[p] # None => payload[p] # None \/ Head(wire[p]).kind = "final"
    BY <1>4, Texted DEF Read, TypeOK
  <2>2. /\ Len(wire[p]) \in Nat \ {0} /\ Len(wire'[p]) = Len(wire[p]) - 1
        /\ \A i \in 1..Len(wire'[p]) : wire'[p][i] = wire[p][i + 1]
        /\ Head(wire[p]) = wire[p][1]
    BY <2>1, EmptySeq, HeadTailProperties
  <2>3. \A i \in 1..Len(wire'[p]) : i + 1 \in 1..Len(wire[p])
    BY <2>2
  <2>4. 1 \in 1..Len(wire[p])
    BY <2>2
  <2> QED BY <2>1, <2>2, <2>3, <2>4 DEF Told
<1>5. CASE Settle(p) \/ Lose(p)
  <2>1. payload' = payload /\ (wire'[p] = wire[p] \/ wire'[p] = <<>>)
    BY <1>5 DEF Settle, Lose, SettleFails, SettleAnswered, TypeOK
  <2> QED BY <2>1, EmptySeq DEF Told
<1>6. CASE Cancel(p)
  BY <1>6 DEF Cancel, Told, console
<1>7. CASE Submit(p) \/ Get(p) \/ StreamToken(p) \/ CodaDone(p) \/ Gate(p) \/ Log(p) \/ Put(p)
           \/ PutAgain(p)
  BY <1>1, <1>7 DEF Submit, Get, StreamToken, CodaDone, Gate, Log, Put, PutAgain, Goto, TypeOK
<1> QED BY <1>2, <1>3, <1>4, <1>5, <1>6, <1>7 DEF Serve

LEMMA SubmitLone ==
  ASSUME TypeOK, NEW p \in Prompts, Submit(p), NEW q \in Prompts, Lone(q),
         OnRecord(p), OnRecord(p)'
  PROVE  Lone(q)'
<1>0. p # 0 /\ q # 0 /\ pending = 0 /\ pending' = p
  BY StreamAssumption DEF Submit
<1>1. CASE q = p
  <2>1. beside'[p] = {o \in Prompts : Busy(o)} /\ task'[p] = "get"
        /\ \A o \in Prompts \ {p} : task'[o] = task[o]
    BY DEF Submit, Goto, TypeOK
  <2>2. ~Told(p)'
    BY <2>1 DEF OnRecord, Recorded, Sent, Announces, Told
  <2> QED BY <1>1, <2>1, <2>2 DEF Lone, Busy
<1>2. CASE q # p
  <2>1. ~Connected(q)' /\ beside'[q] = beside[q] /\ (Told(q)' => Told(q))
        /\ stored' = stored /\ prior' = prior
        /\ \A o \in Prompts \ {p} : task'[o] = task[o]
    BY <1>0, <1>2 DEF Submit, Goto, Connected, Told, TypeOK
  <2>2. task'[p] = "get"
    BY DEF Submit, Goto, TypeOK
  <2> QED BY <1>2, <2>1, <2>2 DEF Lone, Busy
<1> QED BY <1>1, <1>2

LEMMA TaskLone ==
  ASSUME TypeOK, NEW p \in Prompts,
         Serve(p) \/ Cancel(p) \/ Read(p) \/ Settle(p) \/ Lose(p),
         NEW q \in Prompts, OnRecord(q), OnRecord(q)', Lone(q), \A o \in Prompts \ {p} : Untouched(o)
  PROVE  Lone(q)'
<1> SUFFICES ASSUME beside'[q] = {} PROVE Lone(q)'
  BY DEF Lone
<1>1. /\ beside[q] = {} /\ (Connected(q)' => Connected(q))
      /\ \A o \in Prompts : Busy(o)' => Busy(o)
      /\ \A o \in Prompts \ {p} : task'[o] = task[o] /\ prior'[o] = prior[o]
  <2>1. q # 0
    BY StreamAssumption
  <2> QED BY <2>1, OwnTask DEF Untouched, Busy, Connected
<1>2. /\ Connected(q) => \A o \in Prompts \ {q} : ~Busy(o)
      /\ Connected(q) /\ task[q] = "final" => q \in stored
      /\ Told(q) => /\ q \in stored
                    /\ \A o \in Prompts \ {q} : Busy(o) /\ task[o] # "get" => q \in prior[o]
  BY <1>1 DEF Lone
<1>3. Connected(q)' => \A o \in Prompts \ {q} : ~Busy(o)'
  BY <1>1, <1>2
<1>4. ASSUME Connected(q)', task'[q] = "final" PROVE q \in stored'
  <2>1. CASE p = q /\ Put(q)
    BY <2>1 DEF Put
  <2>2. CASE p = q /\ ~Put(q)
    <3>1. task[q] = "final"
      BY <1>4, <2>2, OwnTask
    <3> QED BY <1>1, <1>2, <1>4, <2>2, <3>1, OwnTask
  <2>3. CASE p # q
    <3>1. task[q] = "final" /\ ~Busy(p)
      BY <1>1, <1>2, <1>4, <2>3
    <3>2. stored' = stored
      BY <3>1, OwnTask DEF Busy
    <3> QED BY <1>1, <1>2, <1>4, <3>1, <3>2
  <2> QED BY <2>1, <2>2, <2>3
<1>5. ASSUME Told(q)'
      PROVE  /\ q \in stored'
             /\ \A o \in Prompts \ {q} : Busy(o)' /\ task'[o] # "get" => q \in prior'[o]
  <2>1. CASE p = q /\ Finish(q) /\ Connected(q)
    <3>1. stored' = stored /\ task[q] = "final"
      BY <2>1 DEF Finish
    <3> QED BY <1>1, <1>2, <2>1, <3>1
  <2>2. CASE Told(q)
    <3>1. q \in stored'
      <4>1. CASE p = q
        BY <1>2, <2>2, <4>1, OwnTask
      <4>2. CASE p # q /\ stored' # stored
        <5>1. task[p] = "put" /\ stored' = prior[p] \cup {p}
          BY <4>2, OwnTask
        <5> QED BY <1>2, <2>2, <4>2, <5>1 DEF Busy
      <4> QED BY <1>2, <2>2, <4>1, <4>2
    <3>2. ASSUME NEW o \in Prompts \ {q}, Busy(o)', task'[o] # "get" PROVE q \in prior'[o]
      <4>1. CASE o = p
        <5>1. Busy(p) /\ ((task[p] # "get" /\ prior'[p] = prior[p]) \/ prior'[p] = stored)
          BY <1>1, <3>2, <4>1, OwnTask
        <5> QED BY <1>2, <2>2, <3>2, <4>1, <5>1
      <4>2. CASE o # p
        BY <1>1, <1>2, <2>2, <3>2, <4>2
      <4> QED BY <4>1, <4>2
    <3> QED BY <3>1, <3>2
  <2>3. Told(q) \/ (p = q /\ Finish(q) /\ Connected(q))
    <3>1. CASE p = q
      BY <1>5, <3>1, ToldBefore
    <3>2. CASE p # q
      BY <1>5, <3>2 DEF Untouched, Told
    <3> QED BY <3>1, <3>2
  <2> QED BY <2>1, <2>2, <2>3
<1> QED BY <1>3, <1>4, <1>5 DEF Lone

\* Whatever breaks between the server and the console, an answer that the console
\* shows as the prompt's is the one the gate left, in the trajectory store; and the
\* thread's memory holds the prompt, unless another's task was at work when it was
\* sent.
THEOREM AnswersOnRecord == Spec => []AnsweredIsOnRecord
<1> DEFINE Lonely == \A q \in Prompts : Lone(q)
<1>1. Init => Lonely
  <2> SUFFICES ASSUME Init, NEW q \in Prompts PROVE Lone(q)
    OBVIOUS
  <2>1. ~Connected(q) /\ payload[q] = None /\ wire[q] = <<>>
    BY StreamAssumption DEF Init, Connected
  <2> QED BY <2>1, EmptySeq DEF Lone, Told
<1>2. TypeOK /\ Record /\ Record' /\ Lonely /\ [Next]_vars => Lonely'
  <2> SUFFICES ASSUME TypeOK, Record, Record', Lonely, [Next]_vars, NEW q \in Prompts
               PROVE  Lone(q)'
    OBVIOUS
  <2>1. \A o \in Prompts : OnRecord(o) /\ OnRecord(o)' /\ Lone(o)
    BY DEF Record
  <2>2. CASE UNCHANGED vars
    BY <2>1, <2>2 DEF Lone, Told, Busy, Connected, vars, server, console
  <2>3. ASSUME NEW p \in Prompts, Submit(p) PROVE Lone(q)'
    BY <2>1, <2>3, SubmitLone
  <2>4. ASSUME NEW p \in Prompts, Serve(p) \/ Cancel(p) \/ Read(p) \/ Settle(p) \/ Lose(p)
        PROVE  Lone(q)'
    <3>1. \A o \in Prompts \ {p} : Untouched(o)
      BY <2>4, ServeTouches, ConsoleTouches
    <3> QED BY <2>1, <2>4, <3>1, TaskLone
  <2> QED BY <2>2, <2>3, <2>4 DEF Next
<1>3. Record /\ Lonely => AnsweredIsOnRecord
  <2> SUFFICES ASSUME NEW p \in Prompts, OnRecord(p), Lone(p), outcome[p] = "answered"
               PROVE  /\ beside[p] = {} => p \in stored
                      /\ shown[p] = IF logged[p] = <<>> THEN NoAnswer ELSE logged[p]
    BY DEF Record, AnsweredIsOnRecord
  <2>1. /\ payload[p] # None /\ payload[p] = logged[p]
        /\ shown[p] = IF payload[p] = <<>> THEN NoAnswer ELSE payload[p]
    BY DEF OnRecord, Answered, Recorded
  <2> QED BY <2>1 DEF Lone, Told
<1> HIDE DEF Lonely
<1> QED BY <1>1, <1>2, <1>3, RecordInvariant, PTL DEF Spec

-----------------------------------------------------------------------------
(* What the console shows while the server is at work *)

\* The first k events on the wire are the tokens not read yet; the console shows
\* the others.
Streaming(p, k) ==
  /\ k \in 0..Len(raw[p])
  /\ \A i \in 1..k : wire[p][i] = Token(raw[p][Len(raw[p]) - k + i])
  /\ started[p] <=> k < Len(raw[p])
  /\ started[p] => /\ Len(shown[p]) = Len(raw[p]) - k
                   /\ \A i \in 1..(Len(raw[p]) - k) : shown[p][i] = raw[p][i]

\* The gate has let the answer pass; it has replaced it and the console has not
\* read so; or the console has read so.
Passed(p) == Streaming(p, Len(wire[p])) /\ answer[p] = Strip(raw[p])
Replacing(p) ==
  /\ wire[p] # <<>> /\ wire[p][Len(wire[p])] = Replace(answer[p])
  /\ Streaming(p, Len(wire[p]) - 1)
Replaced(p) == wire[p] = <<>> /\ (answer[p] # <<>> => shown[p] = answer[p])

InStep(p) == Connected(p) =>
  /\ task[p] \in {"get", "coda", "gate"} => Streaming(p, Len(wire[p]))
  /\ task[p] = "gate" => answer[p] = Strip(raw[p])
  /\ task[p] \in {"log", "put", "final"} => Passed(p) \/ Replacing(p) \/ Replaced(p)

LEMMA UntouchedInStep ==
  ASSUME NEW q \in Prompts, Untouched(q), InStep(q)
  PROVE  InStep(q)'
BY ZenonT(60) DEF Untouched, InStep, Streaming, Passed, Replacing, Replaced

LEMMA Lengths ==
  ASSUME TypeOK, NEW p \in Prompts
  PROVE  /\ Len(raw[p]) \in Nat /\ Len(wire[p]) \in Nat /\ Len(shown[p]) \in Nat
         /\ \A i \in 1..Len(raw[p]) : raw[p][i] \in Pieces
         /\ wire[p] = <<>> <=> Len(wire[p]) = 0
BY Texted, LenProperties, ElementOfSeq, EmptySeq DEF Texts, Shows

StreamingNow(p, k) ==
  /\ k \in 0..Len(raw'[p])
  /\ \A i \in 1..k : wire'[p][i] = Token(raw'[p][Len(raw'[p]) - k + i])
  /\ started'[p] <=> k < Len(raw'[p])
  /\ started'[p] => /\ Len(shown'[p]) = Len(raw'[p]) - k
                    /\ \A i \in 1..(Len(raw'[p]) - k) : shown'[p][i] = raw'[p][i]

LEMMA PassedNow ==
  ASSUME NEW p
  PROVE  /\ StreamingNow(p, Len(wire'[p])) => Streaming(p, Len(wire[p]))'
         /\ StreamingNow(p, Len(wire'[p])) /\ answer'[p] = Strip(raw'[p]) => Passed(p)'
         /\ /\ wire'[p] # <<>> /\ wire'[p][Len(wire'[p])] = Replace(answer'[p])
            /\ StreamingNow(p, Len(wire'[p]) - 1)
            => Replacing(p)'
BY DEF Streaming, StreamingNow, Passed, Replacing

\* The tokens sent before are still the first on the wire.
LEMMA StreamingStays ==
  ASSUME TypeOK, NEW p \in Prompts, NEW k \in 0..Len(wire[p]), Streaming(p, k),
         \A i \in 1..k : wire'[p][i] = wire[p][i],
         raw'[p] = raw[p], UNCHANGED console
  PROVE  StreamingNow(p, k)
BY DEF Streaming, StreamingNow, console

LEMMA StreamTokenInStep ==
  ASSUME TypeOK, NEW p \in Prompts, InStep(p), StreamToken(p)
  PROVE  InStep(p)'
<1> SUFFICES ASSUME Connected(p) PROVE StreamingNow(p, Len(wire'[p]))
  BY PassedNow DEF StreamToken, InStep, Connected, console
<1>1. PICK x \in Pieces : raw' = [raw EXCEPT ![p] = Append(@, x)] /\ Send(p, <<Token(x)>>)
  BY DEF StreamToken
<1> DEFINE n == Len(raw[p])
           k == Len(wire[p])
<1>2. n \in Nat /\ k \in 0..n /\ raw[p] \in Texts /\ wire[p] \in Seq(Events)
  BY Lengths, Texted DEF InStep, Streaming, StreamToken
<1>3. /\ Len(raw'[p]) = n + 1 /\ raw'[p][n + 1] = x
      /\ \A i \in 1..n : raw'[p][i] = raw[p][i]
  <2>1. raw'[p] = Append(raw[p], x)
    BY <1>1 DEF TypeOK
  <2> QED BY <1>2, <2>1, AppendProperties DEF Texts
<1>4. /\ Len(wire'[p]) = k + 1 /\ wire'[p][k + 1] = Token(x)
      /\ \A i \in 1..k : wire'[p][i] = wire[p][i]
  <2>1. wire'[p] = wire[p] \o <<Token(x)>> /\ <<Token(x)>> \in Seq(Events)
    BY <1>1, SentTypes, Sending
  <2> QED BY <1>2, <2>1, ConcatProperties
<1>5. Streaming(p, k) /\ \A i \in 1..k : wire[p][i] = Token(raw[p][n - k + i])
  BY DEF InStep, Streaming, StreamToken
<1> HIDE DEF n, k
<1>6. \A i \in 1..(k + 1) : wire'[p][i] = Token(raw'[p][(n + 1) - (k + 1) + i])
  <2> SUFFICES ASSUME NEW i \in 1..(k + 1)
               PROVE  wire'[p][i] = Token(raw'[p][(n + 1) - (k + 1) + i])
    OBVIOUS
  <2>1. CASE i = k + 1
    <3>1. (n + 1) - (k + 1) + i = n + 1
      BY <1>2, <2>1
    <3> QED BY <1>3, <1>4, <2>1, <3>1
  <2>2. CASE i # k + 1
    <3>1. i \in 1..k /\ n - k + i \in 1..n /\ (n + 1) - (k + 1) + i = n - k + i
      BY <1>2, <2>2
    <3> QED BY <1>3, <1>4, <1>5, <3>1
  <2> QED BY <2>1, <2>2
<1>7. \A i \in 1..((n + 1) - (k + 1)) : i \in 1..n
  BY <1>2
<1>8. (n + 1) - (k + 1) = n - k /\ k + 1 \in 0..(n + 1) /\ (k + 1 < n + 1 <=> k < n)
  BY <1>2
<1>9. UNCHANGED console
  BY DEF StreamToken
<1> QED BY <1>3, <1>4, <1>5, <1>6, <1>7, <1>8, <1>9
    DEF Streaming, StreamingNow, console, n, k

LEMMA GateInStep ==
  ASSUME TypeOK, NEW p \in Prompts, InStep(p), Gate(p)
  PROVE  InStep(p)'
<1>1. task[p] = "gate" /\ task'[p] = "log" /\ UNCHANGED console /\ raw'[p] = raw[p]
      /\ (Connected(p)' <=> Connected(p))
  BY DEF Gate, Goto, TypeOK, console, Connected
<1> SUFFICES ASSUME Connected(p) PROVE Passed(p)' \/ Replacing(p)'
  BY <1>1 DEF InStep
<1>2. PICK t \in Texts \cup {Withheld} :
        /\ answer' = [answer EXCEPT ![p] = t]
        /\ Send(p, IF t = answer[p] THEN <<>> ELSE <<Replace(t)>>)
  BY GateEffect
<1>3. answer'[p] = t /\ answer[p] = Strip(raw[p]) /\ Streaming(p, Len(wire[p]))
  BY <1>1, <1>2 DEF TypeOK, InStep
<1>4. wire'[p] = wire[p] \o (IF t = answer[p] THEN <<>> ELSE <<Replace(t)>>)
  BY <1>2, SentTypes, Sending
<1>5. Len(wire[p]) \in Nat /\ wire[p] \in Seq(Events)
  BY Lengths, Texted
<1>6. CASE t = answer[p]
  <2>1. wire'[p] = wire[p]
    BY <1>4, <1>5, <1>6, ConcatEmptySeq
  <2>2. StreamingNow(p, Len(wire'[p]))
    BY <1>1, <1>3, <1>5, <2>1, StreamingStays
  <2> QED BY <1>1, <1>3, <1>6, <2>2, PassedNow
<1>7. CASE t # answer[p]
  <2>1. <<Replace(t)>> \in Seq(Events) /\ wire'[p] = wire[p] \o <<Replace(t)>>
    BY <1>4, <1>7, EventTypes
  <2>2. /\ Len(wire'[p]) = Len(wire[p]) + 1 /\ wire'[p][Len(wire[p]) + 1] = Replace(t)
        /\ \A i \in 1..Len(wire[p]) : wire'[p][i] = wire[p][i]
    BY <1>5, <2>1, ConcatProperties
  <2>3. StreamingNow(p, Len(wire[p]))
    BY <1>1, <1>3, <1>5, <2>2, StreamingStays
  <2>4. Len(wire'[p]) - 1 = Len(wire[p]) /\ wire'[p] # <<>>
    BY <1>5, <2>2, EmptySeq
  <2> QED BY <1>3, <2>2, <2>3, <2>4, PassedNow
<1> QED BY <1>6, <1>7

\* The console reads a token.
LEMMA TokenRead ==
  ASSUME TypeOK, NEW p \in Prompts, Read(p), NEW k \in 1..Len(wire[p]), Streaming(p, k)
  PROVE  StreamingNow(p, k - 1) /\ Len(wire'[p]) = Len(wire[p]) - 1
<1> DEFINE n == Len(raw[p])
           l == Len(wire[p])
           x == raw[p][n - k + 1]
<1>1. /\ n \in Nat /\ k \in 1..n /\ k - 1 \in 0..n /\ n - k + 1 \in 1..n /\ x \in Pieces
      /\ l \in Nat /\ k \in 1..l /\ wire[p] \in Seq(Events) /\ wire[p] # <<>>
  BY Lengths, Texted DEF Streaming, Read
<1>2. /\ \A i \in 1..k : wire[p][i] = Token(raw[p][n - k + i])
      /\ started[p] <=> k < n
      /\ started[p] => /\ Len(shown[p]) = n - k
                       /\ \A i \in 1..(n - k) : shown[p][i] = raw[p][i]
  BY DEF Streaming
<1>3. wire'[p] = Tail(wire[p]) /\ raw'[p] = raw[p]
  BY DEF Read, TypeOK, server
<1>4. /\ Head(wire[p]) = wire[p][1] /\ Len(wire'[p]) = l - 1
      /\ \A i \in 1..(l - 1) : wire'[p][i] = wire[p][i + 1]
  BY <1>1, <1>3, HeadTailProperties
<1>5. Head(wire[p]) = Token(x)
  BY <1>1, <1>2, <1>4
<1> HIDE DEF n, l, x
<1>6. started'[p] /\ shown'[p] = IF started[p] THEN shown[p] \o <<x>> ELSE <<x>>
  <2>1. Head(wire[p]).kind = "token" /\ Head(wire[p]).text = <<x>>
    BY <1>5 DEF Token
  <2>2. ShownAfter(p, Head(wire[p])) = IF started[p] THEN shown[p] \o <<x>> ELSE <<x>>
    BY <2>1 DEF ShownAfter
  <2> QED BY <2>1, <2>2 DEF Read, TypeOK
<1>7. \A i \in 1..(k - 1) : wire'[p][i] = Token(raw[p][n - (k - 1) + i])
  <2> SUFFICES ASSUME NEW i \in 1..(k - 1)
               PROVE  wire'[p][i] = Token(raw[p][n - (k - 1) + i])
    OBVIOUS
  <2>1. i \in 1..(l - 1) /\ i + 1 \in 1..k /\ n - (k - 1) + i = n - k + (i + 1)
    BY <1>1
  <2> QED BY <1>2, <1>4, <2>1
<1>8. n - (k - 1) = (n - k) + 1
  BY <1>1
<1>9. /\ Len(shown'[p]) = (n - k) + 1
      /\ \A i \in 1..((n - k) + 1) : shown'[p][i] = raw[p][i]
  <2>1. CASE started[p]
    <3> DEFINE Shown == Pieces \cup {"running", "failed", "no answer", "withheld"}
    <3>1. x \in Shown /\ shown[p] \in Seq(Shown)
      BY <1>1, Texted DEF Shows
    <3> HIDE DEF Shown
    <3>2. <<x>> \in Seq(Shown) /\ Len(<<x>>) = 1 /\ <<x>>[1] = x
      BY <3>1
    <3>3. /\ Len(shown'[p]) = (n - k) + 1
          /\ \A i \in 1..((n - k) + 1) :
               shown'[p][i] = IF i <= n - k THEN shown[p][i] ELSE <<x>>[i - (n - k)]
      BY <1>2, <1>6, <2>1, <3>1, <3>2, ConcatProperties
    <3>4. ASSUME NEW i \in 1..((n - k) + 1) PROVE shown'[p][i] = raw[p][i]
      <4>1. CASE i <= n - k
        <5>1. i \in 1..(n - k)
          BY <1>1, <4>1
        <5> QED BY <1>2, <2>1, <3>3, <4>1, <5>1
      <4>2. CASE ~(i <= n - k)
        <5>1. i = n - k + 1 /\ i - (n - k) = 1
          BY <1>1, <4>2
        <5> QED BY <3>2, <3>3, <4>2, <5>1 DEF x
      <4> QED BY <4>1, <4>2
    <3> QED BY <3>3, <3>4
  <2>2. CASE ~started[p]
    <3>1. (n - k) + 1 = 1
      BY <1>1, <1>2, <2>2
    <3>2. shown'[p] = <<raw[p][1]>>
      BY <1>6, <2>2, <3>1 DEF x
    <3> QED BY <3>1, <3>2
  <2> QED BY <2>1, <2>2
<1>10. k - 1 < n
  BY <1>1
<1> QED BY <1>1, <1>3, <1>4, <1>6, <1>7, <1>8, <1>9, <1>10 DEF StreamingNow, n, l

LEMMA ReadInStep ==
  ASSUME TypeOK, NEW p \in Prompts, InStep(p), Read(p)
  PROVE  InStep(p)'
<1>1. /\ Connected(p) /\ Connected(p)' /\ task' = task /\ answer' = answer /\ raw' = raw
      /\ wire[p] # <<>> /\ Len(wire[p]) \in Nat \ {0}
  BY Lengths DEF Read, server, Connected
<1>2. CASE task[p] \in {"get", "coda", "gate"}
  <2>1. Len(wire[p]) \in 1..Len(wire[p]) /\ Streaming(p, Len(wire[p]))
    BY <1>1, <1>2 DEF InStep
  <2>2. StreamingNow(p, Len(wire'[p]))
    BY <2>1, TokenRead
  <2> QED BY <1>1, <1>2, <2>2, PassedNow DEF InStep
<1>3. CASE task[p] \in {"log", "put", "final"}
  <2>1. CASE Passed(p)
    <3>1. Len(wire[p]) \in 1..Len(wire[p]) /\ Streaming(p, Len(wire[p]))
      BY <1>1, <2>1 DEF Passed
    <3>2. StreamingNow(p, Len(wire'[p]))
      BY <3>1, TokenRead
    <3>3. Passed(p)'
      BY <1>1, <2>1, <3>2, PassedNow DEF Passed
    <3> QED BY <1>1, <1>3, <3>3 DEF InStep
  <2>2. CASE Replacing(p) /\ Len(wire[p]) # 1
    <3> DEFINE k == Len(wire[p]) - 1
    <3>1. Streaming(p, k)
      BY <2>2 DEF Replacing
    <3>2. k \in 1..Len(wire[p])
      <4>1. \A l \in Nat \ {0} : l # 1 => l - 1 \in 1..l
        OBVIOUS
      <4> QED BY <1>1, <2>2, <4>1
    <3>3. StreamingNow(p, k - 1) /\ Len(wire'[p]) = k
      BY <3>1, <3>2, TokenRead
    <3>4. wire'[p] = Tail(wire[p]) /\ wire[p] \in Seq(Events)
      BY Texted DEF Read, TypeOK
    <3>5. wire'[p][k] = wire[p][k + 1] /\ k + 1 = Len(wire[p])
      BY <1>1, <3>2, <3>3, <3>4, HeadTailProperties
    <3>6. wire'[p] # <<>>
      BY <3>2, <3>3, EmptySeq
    <3>7. Replacing(p)'
      BY <1>1, <2>2, <3>3, <3>5, <3>6, PassedNow DEF Replacing
    <3> QED BY <1>1, <1>3, <3>7 DEF InStep
  <2>3. CASE Replacing(p) /\ Len(wire[p]) = 1
    <3>1. wire'[p] = Tail(wire[p]) /\ wire[p] \in Seq(Events)
      BY Texted DEF Read, TypeOK
    <3>2. wire'[p] = <<>>
      <4>1. Len(Tail(wire[p])) = 0 /\ Tail(wire[p]) \in Seq(Events)
        BY <1>1, <2>3, <3>1, HeadTailProperties
      <4> QED BY <3>1, <4>1, EmptySeq
    <3>3. answer[p] # <<>> => shown'[p] = answer[p]
      <4>1. Head(wire[p]) = wire[p][1] /\ wire[p][1] = Replace(answer[p])
        BY <1>1, <2>3, <3>1 DEF Replacing
      <4>2. Head(wire[p]).kind = "replace" /\ Head(wire[p]).text = answer[p]
        BY <4>1 DEF Replace
      <4>3. answer[p] # <<>> => ShownAfter(p, Head(wire[p])) = answer[p]
        BY <4>2 DEF ShownAfter
      <4> QED BY <4>3 DEF Read, TypeOK
    <3>4. Replaced(p)'
      BY <1>1, <3>2, <3>3 DEF Replaced
    <3> QED BY <1>1, <1>3, <3>4 DEF InStep
  <2> QED BY <1>1, <1>3, <2>1, <2>2, <2>3 DEF InStep, Replaced
<1>4. CASE task[p] \notin {"get", "coda", "gate", "log", "put", "final"}
  BY <1>1, <1>4 DEF InStep
<1> QED BY <1>2, <1>3, <1>4

LEMMA OtherInStep ==
  ASSUME TypeOK, NEW p \in Prompts, InStep(p), OnRecord(p),
         \/ Submit(p) \/ Get(p) \/ CodaDone(p) \/ Log(p) \/ Put(p) \/ PutAgain(p) \/ Finish(p)
         \/ Fail(p) \/ Cancel(p) \/ Settle(p) \/ Lose(p)
  PROVE  InStep(p)'
<1> USE DEF Streaming, Passed, Replacing, Replaced, Connected, Goto
<1>1. CASE Submit(p)
  <2>1. raw'[p] = <<>> /\ wire'[p] = <<>> /\ ~started'[p] /\ task'[p] = "get"
    BY <1>1 DEF Submit, OnRecord, Fresh, TypeOK
  <2>2. Len(raw'[p]) = 0 /\ Len(wire'[p]) = 0
    BY <2>1, EmptySeq
  <2>3. StreamingNow(p, Len(wire'[p]))
    BY <2>1, <2>2 DEF StreamingNow
  <2> QED BY <2>1, <2>3, PassedNow DEF InStep
<1>2. CASE Get(p)
  BY <1>2 DEF InStep, Get, TypeOK, console
<1>3. CASE CodaDone(p)
  BY <1>3 DEF InStep, CodaDone, TypeOK, console
<1>4. CASE Log(p)
  BY <1>4 DEF InStep, Log, TypeOK, console
<1>5. CASE Put(p) \/ PutAgain(p)
  BY <1>5 DEF InStep, Put, PutAgain, TypeOK, console
<1>6. CASE Finish(p) \/ Fail(p) \/ Cancel(p)
  <2>1. task'[p] = "ended"
    BY <1>6 DEF Finish, Fail, Cancel, TypeOK
  <2> QED BY <2>1 DEF InStep
<1>7. CASE Settle(p) \/ Lose(p)
  <2>1. ~Connected(p)'
    BY <1>7, StreamAssumption DEF Settle, Lose, SettleFails, SettleAnswered
  <2> QED BY <2>1 DEF InStep
<1> QED BY <1>1, <1>2, <1>3, <1>4, <1>5, <1>6, <1>7

LEMMA StepInvariant == Spec => [](\A p \in Prompts : InStep(p))
<1> DEFINE Steps == \A p \in Prompts : InStep(p)
<1>1. Init => Steps
  BY StreamAssumption DEF Init, InStep, Connected
<1>2. TypeOK /\ Record /\ Steps /\ [Next]_vars => Steps'
  <2> SUFFICES ASSUME TypeOK, Record, Steps, [Next]_vars, NEW q \in Prompts PROVE InStep(q)'
    OBVIOUS
  <2>1. OnRecord(q) /\ InStep(q)
    BY DEF Record
  <2>2. CASE UNCHANGED vars
    BY <2>1, <2>2, UntouchedInStep DEF Untouched, Known, vars, server, console, Connected
  <2>3. ASSUME NEW p \in Prompts,
               Submit(p) \/ Serve(p) \/ Cancel(p) \/ Read(p) \/ Settle(p) \/ Lose(p)
        PROVE  InStep(q)'
    <3>1. CASE q # p
      BY <2>1, <2>3, <3>1, ServeTouches, ConsoleTouches, UntouchedInStep
    <3>2. CASE q = p
      BY <2>1, <2>3, <3>2, StreamTokenInStep, GateInStep, ReadInStep, OtherInStep DEF Serve
    <3> QED BY <3>1, <3>2
  <2> QED BY <2>2, <2>3 DEF Next
<1> QED BY <1>1, <1>2, RecordInvariant, PTL DEF Spec

\* While the server writes to its stores, a console that has read every token and
\* replacement sent to it shows the answer that the gate has let pass.
THEOREM GatedInFlight == Spec => []InFlightGated
<1>1. TypeOK /\ (\A p \in Prompts : InStep(p)) => InFlightGated
  <2> SUFFICES ASSUME TypeOK, NEW p \in Prompts, InStep(p), CaughtUp(p), answer[p] # <<>>
               PROVE  Strip(shown[p]) = Strip(answer[p])
    BY DEF InFlightGated
  <2>1. /\ raw[p] \in Texts /\ shown[p] \in Shows /\ wire[p] \in Seq(Events)
        /\ Len(raw[p]) \in Nat /\ Len(wire[p]) \in Nat
    BY Texted, Lengths
  <2>2. CASE Passed(p)
    <3>1. Len(wire[p]) = 0
      <4> SUFFICES ASSUME Len(wire[p]) # 0 PROVE FALSE
        OBVIOUS
      <4>1. 1 \in 1..Len(wire[p]) /\ 1 \in DOMAIN wire[p]
        BY <2>1, LenProperties
      <4>2. PICK x : wire[p][1] = Token(x)
        BY <2>2, <4>1 DEF Passed, Streaming
      <4>3. wire[p][1].kind = "token"
        BY <4>2 DEF Token
      <4> QED BY <4>1, <4>3 DEF CaughtUp
    <3>2. CASE Len(raw[p]) = 0
      <4>1. raw[p] = <<>>
        BY <3>2, Lengths, EmptySeq, <2>1 DEF Texts
      <4>2. Strip(<<>>) = <<>>
        BY EmptySeq DEF Strip
      <4> QED BY <2>2, <4>1, <4>2 DEF Passed
    <3>3. CASE Len(raw[p]) # 0
      <4>1. /\ Len(shown[p]) = Len(raw[p])
            /\ \A i \in 1..Len(raw[p]) : shown[p][i] = raw[p][i]
        BY <2>1, <2>2, <3>1, <3>3 DEF Passed, Streaming
      <4>2. raw[p] \in Shows
        BY <2>1, ShowTypes
      <4>3. shown[p] = raw[p]
        BY <2>1, <4>1, <4>2, SeqEqual DEF Shows
      <4> QED BY <2>1, <2>2, <4>3, StripProperties DEF Passed, Texts
    <3> QED BY <3>2, <3>3
  <2>3. CASE Replacing(p)
    <3>1. Len(wire[p]) \in DOMAIN wire[p] /\ wire[p][Len(wire[p])].kind = "replace"
      BY <2>1, <2>3, Lengths, LenProperties DEF Replacing, Replace
    <3> QED BY <3>1 DEF CaughtUp
  <2>4. CASE Replaced(p)
    BY <2>4 DEF Replaced
  <2> QED BY <2>2, <2>3, <2>4 DEF CaughtUp, InStep
<1> QED BY <1>1, TypeCorrect, StepInvariant, PTL

-----------------------------------------------------------------------------
(* ConsoleSessions: what a handler does to a conversation *)

Message == [prompt : Nat, kind : Kinds]
Conversations == Seq([id : Nat, messages : Seq(Message)])

Turn(k) == (k + 1) \div 2

\* The messages are pairs of a prompt and its reply, all of prompts that a says
\* were sent in conversation id, and no two pairs are of one prompt.
Paired(messages, id, a) ==
  /\ Len(messages) % 2 = 0
  /\ \A j \in 1..Len(messages) :
       /\ messages[j].prompt \in 1..Len(a) /\ a[messages[j].prompt] = id
       /\ messages[j].kind = "prompt" <=> j % 2 = 1
       /\ \A k \in 1..Len(messages) :
            messages[k].prompt = messages[j].prompt <=> Turn(k) = Turn(j)

LEMMA NextTurn ==
  ASSUME NEW n \in Nat, n % 2 = 0
  PROVE  /\ (n + 1) % 2 = 1 /\ (n + 2) % 2 = 0
         /\ Turn(n + 1) = Turn(n + 2)
         /\ \A k \in 1..n : Turn(k) # Turn(n + 1)
BY DEF Turn

LEMMA PairedGrows ==
  ASSUME NEW ms, NEW id, NEW x \in Nat, NEW a \in Seq(Nat), Paired(ms, id, a)
  PROVE  Paired(ms, id, Append(a, x))
<1>1. Len(a) \in Nat /\ Len(Append(a, x)) = Len(a) + 1
      /\ \A i \in 1..Len(a) : Append(a, x)[i] = a[i]
  BY AppendProperties, LenProperties
<1> QED BY <1>1 DEF Paired

LEMMA PairedAsks ==
  ASSUME NEW ms \in Seq(Message), NEW id \in Nat, NEW a \in Seq(Nat), Paired(ms, id, a),
         NEW p, p = Len(a) + 1
  PROVE  /\ ms \o <<UserMessage(p), Reply(p, "running")>> \in Seq(Message)
         /\ Paired(ms \o <<UserMessage(p), Reply(p, "running")>>, id, Append(a, id))
<1> DEFINE n == Len(ms)
           b == Append(a, id)
           pair == <<UserMessage(p), Reply(p, "running")>>
           new == ms \o pair
<1>1. n \in Nat /\ Len(a) \in Nat /\ p \in Nat /\ n % 2 = 0
  BY LenProperties DEF Paired
<1>2. UserMessage(p) \in Message /\ Reply(p, "running") \in Message
  BY <1>1 DEF UserMessage, Reply, Message, Kinds
<1>3. pair \in Seq(Message) /\ Len(pair) = 2
  BY <1>2
<1>4. /\ new \in Seq(Message) /\ Len(new) = n + 2
      /\ \A i \in 1..n : new[i] = ms[i]
      /\ new[n + 1] = UserMessage(p) /\ new[n + 2] = Reply(p, "running")
  <2>1. /\ new \in Seq(Message) /\ Len(new) = n + 2
        /\ \A i \in 1..(n + 2) : new[i] = IF i <= n THEN ms[i] ELSE pair[i - n]
    BY <1>3, ConcatProperties
  <2>2. /\ \A i \in 1..n : i \in 1..(n + 2) /\ i <= n
        /\ n + 1 \in 1..(n + 2) /\ ~(n + 1 <= n) /\ (n + 1) - n = 1
        /\ n + 2 \in 1..(n + 2) /\ ~(n + 2 <= n) /\ (n + 2) - n = 2
    BY SMTT(30), <1>1
  <2>3. pair[1] = UserMessage(p) /\ pair[2] = Reply(p, "running")
    OBVIOUS
  <2> HIDE DEF new, pair, n
  <2> QED BY <2>1, <2>2, <2>3
<1>5. /\ Len(b) = p /\ b[p] = id /\ \A i \in 1..Len(a) : b[i] = a[i]
  BY <1>1, AppendProperties
<1>6. /\ new[n + 1].prompt = p /\ new[n + 1].kind = "prompt"
      /\ new[n + 2].prompt = p /\ new[n + 2].kind = "running"
  BY <1>4 DEF UserMessage, Reply
<1> HIDE DEF new, b
<1>7. \A j \in 1..n : new[j].prompt \in 1..Len(a) /\ new[j].prompt # p
  BY <1>1, <1>4 DEF Paired
<1>8. \A j \in 1..(n + 2) : j \in 1..n \/ j = n + 1 \/ j = n + 2
  BY <1>1
<1>9. ASSUME NEW j \in 1..(n + 2)
      PROVE  /\ new[j].prompt \in 1..Len(b) /\ b[new[j].prompt] = id
             /\ new[j].kind = "prompt" <=> j % 2 = 1
  <2>1. CASE j \in 1..n
    <3>1. b[new[j].prompt] = a[new[j].prompt] /\ new[j].prompt \in 1..Len(b)
      BY <1>1, <1>5, <1>7, <2>1
    <3> QED BY <1>4, <2>1, <3>1 DEF Paired
  <2>2. p \in 1..Len(b) /\ (n + 1) % 2 = 1 /\ (n + 2) % 2 = 0
    BY <1>1, <1>5, NextTurn
  <2>3. CASE j = n + 1
    BY <1>5, <1>6, <2>2, <2>3
  <2>4. CASE j = n + 2
    BY <1>5, <1>6, <2>2, <2>4
  <2> QED BY <1>8, <2>1, <2>3, <2>4
<1>10. ASSUME NEW j \in 1..(n + 2), NEW k \in 1..(n + 2)
       PROVE  new[k].prompt = new[j].prompt <=> Turn(k) = Turn(j)
  <2>1. CASE j \in 1..n /\ k \in 1..n
    BY <1>4, <2>1 DEF Paired
  <2>2. CASE j \notin 1..n /\ k \notin 1..n
    BY <1>1, <1>6, <1>8, <2>2, NextTurn
  <2>3. CASE j \notin 1..n /\ k \in 1..n
    BY <1>1, <1>6, <1>7, <1>8, <2>3, NextTurn
  <2>4. CASE j \in 1..n /\ k \notin 1..n
    BY <1>1, <1>6, <1>7, <1>8, <2>4, NextTurn
  <2> QED BY <2>1, <2>2, <2>3, <2>4
<1>11. (n + 2) % 2 = 0
  BY <1>1, NextTurn
<1>12. Paired(new, id, b)
  BY <1>4, <1>9, <1>10, <1>11 DEF Paired
<1> QED BY <1>4, <1>12 DEF new, b

\* The reply of p becomes kind.
Rewrite(ms, p, kind) ==
  [i \in DOMAIN ms |-> IF ms[i].prompt = p /\ ms[i].kind # "prompt" THEN Reply(p, kind) ELSE ms[i]]

LEMMA RewriteProperties ==
  ASSUME NEW ms \in Seq(Message), NEW p \in Nat, NEW kind \in Kinds \ {"prompt"}
  PROVE  /\ Rewrite(ms, p, kind) \in Seq(Message)
         /\ Len(Rewrite(ms, p, kind)) = Len(ms)
         /\ \A i \in 1..Len(ms) : Rewrite(ms, p, kind)[i] =
              IF ms[i].prompt = p /\ ms[i].kind # "prompt" THEN Reply(p, kind) ELSE ms[i]
<1>1. DOMAIN ms = 1..Len(ms) /\ Len(ms) \in Nat /\ \A i \in 1..Len(ms) : ms[i] \in Message
  BY LenProperties, ElementOfSeq
<1>2. Reply(p, kind) \in Message
  BY DEF Reply, Message
<1> DEFINE new == [i \in 1..Len(ms) |->
             IF ms[i].prompt = p /\ ms[i].kind # "prompt" THEN Reply(p, kind) ELSE ms[i]]
<1>3. new \in [1..Len(ms) -> Message]
  BY <1>1, <1>2
<1>4. new \in Seq(Message)
  BY <1>1, <1>3, SeqDef
<1>5. Len(new) = Len(ms)
  BY <1>1, <1>3, <1>4, LenProperties
<1>6. Rewrite(ms, p, kind) = new
  BY <1>1 DEF Rewrite
<1> QED BY <1>4, <1>5, <1>6

LEMMA PairedRewrite ==
  ASSUME NEW ms \in Seq(Message), NEW id \in Nat, NEW a \in Seq(Nat), Paired(ms, id, a),
         NEW p \in Nat, NEW kind \in Kinds \ {"prompt"}
  PROVE  Paired(Rewrite(ms, p, kind), id, a)
<1> DEFINE new == Rewrite(ms, p, kind)
<1>1. /\ Len(new) = Len(ms)
      /\ \A i \in 1..Len(ms) : /\ new[i].prompt = ms[i].prompt
                               /\ new[i].kind = "prompt" <=> ms[i].kind = "prompt"
  <2>1. /\ Len(new) = Len(ms)
        /\ \A i \in 1..Len(ms) : new[i] =
             IF ms[i].prompt = p /\ ms[i].kind # "prompt" THEN Reply(p, kind) ELSE ms[i]
    BY RewriteProperties
  <2>2. Reply(p, kind).prompt = p /\ Reply(p, kind).kind # "prompt"
    BY DEF Reply
  <2> HIDE DEF new
  <2> QED BY <2>1, <2>2
<1> HIDE DEF new
<1>2. Len(ms) % 2 = 0 /\ 1..Len(new) = 1..Len(ms)
  BY <1>1 DEF Paired
<1>3. ASSUME NEW j \in 1..Len(ms)
      PROVE  /\ new[j].prompt \in 1..Len(a) /\ a[new[j].prompt] = id
             /\ new[j].kind = "prompt" <=> j % 2 = 1
             /\ \A k \in 1..Len(ms) : new[k].prompt = new[j].prompt <=> Turn(k) = Turn(j)
  <2>1. new[j].prompt = ms[j].prompt /\ (new[j].kind = "prompt" <=> ms[j].kind = "prompt")
    BY <1>1
  <2>2. ms[j].prompt \in 1..Len(a) /\ a[ms[j].prompt] = id /\ (ms[j].kind = "prompt" <=> j % 2 = 1)
    BY DEF Paired
  <2>3. ASSUME NEW k \in 1..Len(ms)
        PROVE  new[k].prompt = new[j].prompt <=> Turn(k) = Turn(j)
    <3>1. new[k].prompt = ms[k].prompt
      BY <1>1
    <3>2. ms[k].prompt = ms[j].prompt <=> Turn(k) = Turn(j)
      BY DEF Paired
    <3> QED BY <2>1, <3>1, <3>2
  <2> QED BY <2>1, <2>2, <2>3
<1>4. Paired(new, id, a)
  BY <1>1, <1>2, <1>3 DEF Paired
<1> QED BY <1>4 DEF new

-----------------------------------------------------------------------------
(* ConsoleSessions: what a handler does to a list of conversations *)

Conversation == [id : Nat, messages : Seq(Message)]

\* The identities are those of c conversations, no two of the list the same, and
\* every conversation is in order.
Ordered(list, c, a) ==
  \A i \in 1..Len(list) :
    /\ list[i].id \in 1..c
    /\ Paired(list[i].messages, list[i].id, a)
    /\ \A j \in 1..Len(list) : list[j].id = list[i].id => j = i

Holds(list, m) ==
  \E i \in 1..Len(list) : \E j \in 1..Len(list[i].messages) : list[i].messages[j] = m

\* f is applied to the messages of conversation id.
Edited(list, id, f) ==
  [i \in DOMAIN list |-> IF list[i].id = id THEN [list[i] EXCEPT !.messages = f[list[i].messages]]
                         ELSE list[i]]

LEMMA ListTypes ==
  ASSUME NEW list \in Conversations
  PROVE  /\ Len(list) \in Nat /\ DOMAIN list = 1..Len(list)
         /\ \A i \in 1..Len(list) :
              /\ list[i] \in Conversation /\ list[i].id \in Nat
              /\ list[i].messages \in Seq(Message)
              /\ Len(list[i].messages) \in Nat
              /\ DOMAIN list[i].messages = 1..Len(list[i].messages)
              /\ \A j \in 1..Len(list[i].messages) : list[i].messages[j] \in Message
<1>1. Len(list) \in Nat /\ DOMAIN list = 1..Len(list)
      /\ \A i \in 1..Len(list) : list[i] \in Conversation
  BY LenProperties, ElementOfSeq DEF Conversations, Conversation
<1>2. \A i \in 1..Len(list) : list[i].id \in Nat /\ list[i].messages \in Seq(Message)
  BY <1>1 DEF Conversation
<1>3. ASSUME NEW i \in 1..Len(list)
      PROVE  /\ Len(list[i].messages) \in Nat
             /\ DOMAIN list[i].messages = 1..Len(list[i].messages)
             /\ \A j \in 1..Len(list[i].messages) : list[i].messages[j] \in Message
  <2>1. list[i].messages \in Seq(Message)
    BY <1>2
  <2> QED BY <2>1, LenProperties, ElementOfSeq
<1> QED BY <1>1, <1>2, <1>3

LEMMA EditedProperties ==
  ASSUME NEW list \in Conversations, NEW id \in Nat,
         NEW f \in [Seq(Message) -> Seq(Message)]
  PROVE  /\ Edited(list, id, f) \in Conversations
         /\ Len(Edited(list, id, f)) = Len(list)
         /\ \A i \in 1..Len(list) :
              /\ Edited(list, id, f)[i].id = list[i].id
              /\ Edited(list, id, f)[i].messages =
                   IF list[i].id = id THEN f[list[i].messages] ELSE list[i].messages
<1> DEFINE new == [i \in 1..Len(list) |->
             IF list[i].id = id THEN [list[i] EXCEPT !.messages = f[list[i].messages]] ELSE list[i]]
<1>1. /\ Len(list) \in Nat /\ DOMAIN list = 1..Len(list)
      /\ \A i \in 1..Len(list) : list[i] \in Conversation
  BY ListTypes
<1>2. Edited(list, id, f) = new
  BY <1>1 DEF Edited
<1>3. ASSUME NEW i \in 1..Len(list)
      PROVE  /\ new[i] \in Conversation /\ new[i].id = list[i].id
             /\ new[i].messages = IF list[i].id = id THEN f[list[i].messages] ELSE list[i].messages
  <2>1. list[i].messages \in Seq(Message) /\ f[list[i].messages] \in Seq(Message)
    BY <1>1 DEF Conversation
  <2> QED BY <1>1, <2>1 DEF Conversation
<1>4. DOMAIN new = 1..Len(list)
  OBVIOUS
<1>5. new \in [1..Len(list) -> Conversation]
  BY <1>3
<1>6. new \in Conversations /\ Len(new) = Len(list)
  <2>1. new \in Seq(Conversation)
    BY <1>1, <1>5, SeqDef
  <2> HIDE DEF new
  <2>2. Len(new) = Len(list)
    BY <1>1, <1>4, <2>1, LenProperties
  <2> QED BY <2>1, <2>2 DEF Conversations, Conversation
<1> HIDE DEF new
<1> QED BY <1>2, <1>3, <1>6

\* A list is in order after an edit that leaves conversations in order.
LEMMA EditedOrdered ==
  ASSUME NEW list \in Conversations, NEW id \in Nat, NEW f \in [Seq(Message) -> Seq(Message)],
         NEW c \in Nat, NEW a \in Seq(Nat), NEW b \in Seq(Nat), Ordered(list, c, a),
         \A ms \in Seq(Message) : Paired(ms, id, a) => Paired(f[ms], id, b),
         \A ms \in Seq(Message), o \in Nat : Paired(ms, o, a) => Paired(ms, o, b)
  PROVE  Ordered(Edited(list, id, f), c, b)
<1> DEFINE new == Edited(list, id, f)
<1>1. /\ Len(new) = Len(list)
      /\ \A i \in 1..Len(list) :
           /\ new[i].id = list[i].id
           /\ new[i].messages = IF list[i].id = id THEN f[list[i].messages] ELSE list[i].messages
  BY ZenonT(60), EditedProperties
<1> HIDE DEF new
<1>2. ASSUME NEW i \in 1..Len(list)
      PROVE  Paired(new[i].messages, new[i].id, b)
  <2>1. list[i].messages \in Seq(Message) /\ list[i].id \in Nat
    BY ListTypes
  <2>2. Paired(list[i].messages, list[i].id, a)
    BY DEF Ordered
  <2> QED BY <1>1, <2>1, <2>2
<1>3. Ordered(new, c, b)
  BY <1>1, <1>2 DEF Ordered
<1> QED BY <1>3 DEF new

LEMMA OrderedGrows ==
  ASSUME NEW list \in Conversations, NEW c \in Nat, NEW d \in Nat, c <= d,
         NEW a \in Seq(Nat), Ordered(list, c, a), NEW x \in Nat
  PROVE  Ordered(list, d, a) /\ Ordered(list, c, Append(a, x))
<1>1. \A i \in 1..Len(list) : list[i].id \in Nat
  BY ListTypes
<1>2. Ordered(list, d, a)
  BY <1>1 DEF Ordered
<1>3. \A i \in 1..Len(list) : Paired(list[i].messages, list[i].id, Append(a, x))
  BY PairedGrows DEF Ordered
<1>4. Ordered(list, c, Append(a, x))
  BY <1>3 DEF Ordered
<1> QED BY <1>2, <1>4

\* A new conversation comes first.
LEMMA OrderedNew ==
  ASSUME NEW list \in Conversations, NEW c \in Nat, NEW a \in Seq(Nat), Ordered(list, c, a)
  PROVE  /\ <<Session(c + 1)>> \o list \in Conversations
         /\ Ordered(<<Session(c + 1)>> \o list, c + 1, a)
         /\ Len(<<Session(c + 1)>> \o list) = Len(list) + 1
         /\ (<<Session(c + 1)>> \o list)[1] = Session(c + 1)
         /\ \A i \in 1..Len(list) : (<<Session(c + 1)>> \o list)[i + 1] = list[i]
<1> DEFINE new == <<Session(c + 1)>> \o list
           n == Len(list)
<1>1. <<>> \in Seq(Message) /\ Session(c + 1) \in Conversation
  BY EmptySeq DEF Session, Conversation
<1>2. <<Session(c + 1)>> \in Seq(Conversation) /\ Len(<<Session(c + 1)>>) = 1
      /\ <<Session(c + 1)>>[1] = Session(c + 1)
  BY <1>1
<1>3. list \in Seq(Conversation) /\ n \in Nat
  BY LenProperties DEF Conversations, Conversation
<1>4. /\ new \in Seq(Conversation) /\ Len(new) = 1 + n
      /\ \A i \in 1..(1 + n) : new[i] = IF i <= 1 THEN <<Session(c + 1)>>[i] ELSE list[i - 1]
  BY <1>2, <1>3, ConcatProperties
<1> HIDE DEF new, n
<1>5. new[1] = Session(c + 1)
  <2>1. 1 \in 1..(1 + n)
    BY <1>3
  <2> QED BY <1>2, <1>4, <2>1
<1>6. ASSUME NEW i \in 1..n PROVE new[i + 1] = list[i]
  <2>1. i + 1 \in 1..(1 + n) /\ ~(i + 1 <= 1) /\ (i + 1) - 1 = i
    BY <1>3
  <2> QED BY <1>4, <2>1
<1>7. new[1].id = c + 1 /\ new[1].messages = <<>>
  BY <1>5 DEF Session
<1>8. Paired(<<>>, c + 1, a)
  BY EmptySeq DEF Paired
<1>9. \A i \in 1..n : list[i].id \in 1..c /\ Paired(list[i].messages, list[i].id, a)
                      /\ \A j \in 1..n : list[j].id = list[i].id => j = i
  BY DEF Ordered, n
<1>10. ASSUME NEW i \in 1..(1 + n)
       PROVE  i = 1 \/ \E k \in 1..n : i = k + 1 /\ new[i] = list[k]
  <2>1. i = 1 \/ (i - 1 \in 1..n /\ i = (i - 1) + 1)
    BY <1>3
  <2> QED BY <1>6, <2>1
<1>11. ASSUME NEW i \in 1..(1 + n)
       PROVE  new[i].id \in 1..(c + 1) /\ Paired(new[i].messages, new[i].id, a)
  <2>1. CASE i = 1
    BY <1>7, <1>8, <2>1
  <2>2. CASE i # 1
    <3>1. PICK k \in 1..n : new[i] = list[k]
      BY <1>10, <2>2
    <3> QED BY <1>9, <3>1
  <2> QED BY <2>1, <2>2
<1>12. ASSUME NEW i \in 1..(1 + n), NEW j \in 1..(1 + n), new[j].id = new[i].id
       PROVE  j = i
  <2>1. \A k \in 1..n : list[k].id # c + 1
    BY <1>9
  <2>2. CASE i = 1 /\ j = 1
    BY <2>2
  <2>3. CASE i # 1 /\ j # 1
    <3>1. PICK k \in 1..n : i = k + 1 /\ new[i] = list[k]
      BY <1>10, <2>3
    <3>2. PICK l \in 1..n : j = l + 1 /\ new[j] = list[l]
      BY <1>10, <2>3
    <3> QED BY <1>9, <1>12, <3>1, <3>2
  <2>4. CASE i = 1 /\ j # 1
    <3>1. PICK l \in 1..n : j = l + 1 /\ new[j] = list[l]
      BY <1>10, <2>4
    <3> QED BY <1>7, <1>12, <2>1, <2>4, <3>1
  <2>5. CASE i # 1 /\ j = 1
    <3>1. PICK k \in 1..n : i = k + 1 /\ new[i] = list[k]
      BY <1>10, <2>5
    <3> QED BY <1>7, <1>12, <2>1, <2>5, <3>1
  <2> QED BY <2>2, <2>3, <2>4, <2>5
<1>13. Ordered(new, c + 1, a)
  BY <1>4, <1>11, <1>12 DEF Ordered
<1>14. Len(new) = n + 1
  BY <1>3, <1>4
<1> QED BY <1>4, <1>5, <1>6, <1>13, <1>14 DEF new, n, Conversations, Conversation

\* The three edits: a prompt is asked, its reply is written, all is cleared.
Ask(p) == [ms \in Seq(Message) |-> ms \o <<UserMessage(p), Reply(p, "running")>>]
Write(p, kind) == [ms \in Seq(Message) |-> Rewrite(ms, p, kind)]
Wipe == [ms \in Seq(Message) |-> <<>>]

LEMMA EditTypes ==
  /\ \A p \in Nat : Ask(p) \in [Seq(Message) -> Seq(Message)]
  /\ \A p \in Nat, kind \in Kinds \ {"prompt"} : Write(p, kind) \in [Seq(Message) -> Seq(Message)]
  /\ Wipe \in [Seq(Message) -> Seq(Message)]
<1>1. ASSUME NEW p \in Nat PROVE Ask(p) \in [Seq(Message) -> Seq(Message)]
  <2>1. UserMessage(p) \in Message /\ Reply(p, "running") \in Message
    BY DEF UserMessage, Reply, Message, Kinds
  <2> DEFINE pair == <<UserMessage(p), Reply(p, "running")>>
  <2>2. pair \in Seq(Message)
    BY <2>1
  <2> HIDE DEF pair
  <2>3. \A ms \in Seq(Message) : ms \o pair \in Seq(Message)
    BY <2>2, ConcatProperties
  <2> QED BY <2>3 DEF Ask, pair
<1>2. ASSUME NEW p \in Nat, NEW kind \in Kinds \ {"prompt"}
      PROVE  Write(p, kind) \in [Seq(Message) -> Seq(Message)]
  BY RewriteProperties DEF Write
<1>3. Wipe \in [Seq(Message) -> Seq(Message)]
  BY EmptySeq DEF Wipe
<1> QED BY <1>1, <1>2, <1>3

LEMMA Edits ==
  ASSUME NEW list \in Conversations, NEW id \in Nat, NEW p \in Nat,
         NEW kind \in Kinds \ {"prompt"}
  PROVE  /\ InSession(list, id, LAMBDA messages : messages \o <<UserMessage(p), Reply(p, "running")>>)
              = Edited(list, id, Ask(p))
         /\ Written(list, id, p, kind) = Edited(list, id, Write(p, kind))
         /\ InSession(list, id, LAMBDA messages : <<>>) = Edited(list, id, Wipe)
<1>1. /\ DOMAIN list = 1..Len(list)
      /\ \A i \in 1..Len(list) : list[i].messages \in Seq(Message)
  BY ListTypes
<1>2. \A i \in DOMAIN list :
        /\ Ask(p)[list[i].messages] = list[i].messages \o <<UserMessage(p), Reply(p, "running")>>
        /\ Write(p, kind)[list[i].messages] = Rewrite(list[i].messages, p, kind)
        /\ Wipe[list[i].messages] = <<>>
  BY <1>1 DEF Ask, Write, Wipe
<1>3. InSession(list, id, LAMBDA messages : messages \o <<UserMessage(p), Reply(p, "running")>>)
        = Edited(list, id, Ask(p))
  BY <1>2 DEF InSession, Edited
<1>4. Written(list, id, p, kind) = Edited(list, id, Write(p, kind))
  BY <1>2 DEF InSession, Edited, Written, Rewrite
<1>5. InSession(list, id, LAMBDA messages : <<>>) = Edited(list, id, Wipe)
  BY <1>2 DEF InSession, Edited
<1> QED BY <1>3, <1>4, <1>5

\* What a prompt that is asked now leaves in order.
LEMMA AskOrdered ==
  ASSUME NEW list \in Conversations, NEW id \in Nat, NEW c \in Nat, NEW a \in Seq(Nat),
         Ordered(list, c, a)
  PROVE  Ordered(Edited(list, id, Ask(Len(a) + 1)), c, Append(a, id))
<1> DEFINE p == Len(a) + 1
           f == Ask(p)
           b == Append(a, id)
<1>1. p \in Nat /\ f \in [Seq(Message) -> Seq(Message)] /\ b \in Seq(Nat)
  BY LenProperties, EditTypes, AppendProperties
<1>2. \A ms \in Seq(Message) : Paired(ms, id, a) => Paired(f[ms], id, b)
  BY PairedAsks DEF Ask
<1>3. \A ms \in Seq(Message), o \in Nat : Paired(ms, o, a) => Paired(ms, o, b)
  BY PairedGrows
<1> HIDE DEF f, b
<1>4. Ordered(Edited(list, id, f), c, b)
  BY <1>1, <1>2, <1>3, EditedOrdered
<1> QED BY <1>4 DEF f, b

LEMMA WriteOrdered ==
  ASSUME NEW list \in Conversations, NEW id \in Nat, NEW c \in Nat, NEW a \in Seq(Nat),
         Ordered(list, c, a), NEW p \in Nat, NEW kind \in Kinds \ {"prompt"}
  PROVE  Ordered(Edited(list, id, Write(p, kind)), c, a)
<1> DEFINE f == Write(p, kind)
<1>1. f \in [Seq(Message) -> Seq(Message)]
  BY EditTypes
<1>2. \A ms \in Seq(Message) : Paired(ms, id, a) => Paired(f[ms], id, a)
  BY PairedRewrite DEF Write
<1> HIDE DEF f
<1>3. Ordered(Edited(list, id, f), c, a)
  BY <1>1, <1>2, EditedOrdered
<1> QED BY <1>3 DEF f

LEMMA WipeOrdered ==
  ASSUME NEW list \in Conversations, NEW id \in Nat, NEW c \in Nat, NEW a \in Seq(Nat),
         Ordered(list, c, a)
  PROVE  Ordered(Edited(list, id, Wipe), c, a)
<1>1. \A ms \in Seq(Message) : Wipe[ms] = <<>>
  BY DEF Wipe
<1>2. Paired(<<>>, id, a)
  BY EmptySeq DEF Paired
<1> QED BY <1>1, <1>2, EditTypes, EditedOrdered

-----------------------------------------------------------------------------
(* ConsoleSessions: every list is in order *)

SessionsTyped ==
  /\ storage \in Conversations /\ sessions \in [Tabs -> Conversations]
  /\ active \in [Tabs -> Nat] /\ awaited \in [Tabs -> 0..Len(asked)] /\ created \in 0..MaxSessions
  /\ asked \in Seq(1..MaxSessions) /\ asker \in Seq(Tabs \cup {NoTab})
  /\ fate \in Seq({"none"} \cup Settled)
  /\ Len(asker) = Len(asked) /\ Len(fate) = Len(asked)
  /\ shared \subseteq 1..Len(asked) /\ cleared \subseteq 1..Len(asked)
  /\ wiped \subseteq 1..Len(asked)

InOrder ==
  /\ Ordered(storage, created, asked)
  /\ \A t \in Tabs : Ordered(sessions[t], created, asked)

\* The conversation that a tab shows is in its list.
Chosen == \A t \in Open : \E i \in 1..Len(sessions[t]) : sessions[t][i].id = active[t]

Consistent == SessionsTyped /\ InOrder /\ Chosen

LEMMA SessionsFacts ==
  ASSUME Consistent
  PROVE  /\ created \in Nat /\ MaxSessions \in Nat /\ asked \in Seq(Nat) /\ Len(asked) \in Nat
         /\ Asked = 1..Len(asked)
         /\ \A t \in Open : t \in Tabs /\ active[t] \in 1..created
         /\ \A t \in Tabs : /\ sessions[t] \in Conversations /\ awaited[t] \in Nat
                            /\ awaited[t] # 0 => awaited[t] \in 1..Len(asked)
         /\ \A p \in 1..Len(asked) : asked[p] \in Nat
<1>1. created \in Nat /\ MaxSessions \in Nat /\ 1..MaxSessions \subseteq Nat
  BY ConsoleAssumption DEF Consistent, SessionsTyped
<1>2. asked \in Seq(Nat)
  BY <1>1, SeqMonotonic DEF Consistent, SessionsTyped
<1>3. Len(asked) \in Nat /\ Asked = 1..Len(asked) /\ \A p \in 1..Len(asked) : asked[p] \in Nat
  BY <1>2, LenProperties, ElementOfSeq DEF Asked
<1>4. \A t \in Tabs : /\ sessions[t] \in Conversations /\ awaited[t] \in Nat
                      /\ awaited[t] # 0 => awaited[t] \in 1..Len(asked)
  BY <1>3 DEF Consistent, SessionsTyped
<1>5. \A t \in Open : t \in Tabs /\ active[t] \in 1..created
  BY DEF Consistent, Chosen, InOrder, Ordered, Open
<1> QED BY <1>1, <1>2, <1>3, <1>4, <1>5

\* getActiveSession finds the conversation on screen.
LEMMA ActiveFound ==
  ASSUME Consistent, NEW t \in Open
  PROVE  ActiveOf(t) \in 1..Len(sessions[t]) /\ sessions[t][ActiveOf(t)].id = active[t]
<1> DEFINE I == {i \in 1..Len(sessions[t]) : sessions[t][i].id = active[t]}
<1>1. t \in Tabs /\ Len(sessions[t]) \in Nat
  BY ListTypes, SessionsFacts DEF Open
<1>2. I # {} /\ I \in SUBSET (1..Len(sessions[t]))
  BY DEF Consistent, Chosen
<1>3. ActiveOf(t) = Min(I)
  BY <1>2 DEF ActiveOf, SelectInSeq
<1> HIDE DEF I
<1>4. Min(I) \in I
  BY <1>1, <1>2, Extremes
<1> QED BY <1>3, <1>4 DEF I

\* Edits keep a list in its type, and an open tab open.
LEMMA EditedKept ==
  ASSUME NEW list \in Conversations, list # <<>>,
         NEW id \in Nat, NEW f \in [Seq(Message) -> Seq(Message)]
  PROVE  Edited(list, id, f) \in Conversations /\ Edited(list, id, f) # <<>>
<1>1. Edited(list, id, f) \in Conversations /\ Len(Edited(list, id, f)) = Len(list)
  BY EditedProperties
<1>2. Len(list) # 0
  BY ListTypes, EmptySeq DEF Conversations
<1> QED BY <1>1, <1>2, EmptySeq

\* Edits of a list keep it open, and on the conversation that it shows.
LEMMA EditedChosen ==
  ASSUME NEW list \in Conversations, NEW id \in Nat, NEW f \in [Seq(Message) -> Seq(Message)],
         NEW chosen, \E i \in 1..Len(list) : list[i].id = chosen
  PROVE  /\ Edited(list, id, f) # <<>>
         /\ \E i \in 1..Len(Edited(list, id, f)) : Edited(list, id, f)[i].id = chosen
<1> DEFINE new == Edited(list, id, f)
<1>1. /\ Len(new) = Len(list)
      /\ \A i \in 1..Len(list) :
           /\ new[i].id = list[i].id
           /\ new[i].messages = IF list[i].id = id THEN f[list[i].messages] ELSE list[i].messages
  BY ZenonT(60), EditedProperties
<1> HIDE DEF new
<1>2. Len(list) \in Nat
  BY ListTypes
<1>3. new # <<>>
  BY <1>1, <1>2, EmptySeq
<1> QED BY <1>1, <1>3 DEF new

\* The handlers that edit the list of a tab.
LEMMA SubmitEdits ==
  ASSUME Consistent, NEW t \in Tabs, SubmitPrompt(t)
  PROVE  LET new == Edited(sessions[t], active[t], Ask(Len(asked) + 1))
         IN  new \in Conversations /\ new # <<>> /\ sessions' = [sessions EXCEPT ![t] = new]
<1> DEFINE p == Len(asked) + 1
           new == Edited(sessions[t], active[t], Ask(p))
<1>1. /\ t \in Open /\ p \in Nat /\ active[t] \in Nat /\ sessions[t] \in Conversations
      /\ Ask(p) \in [Seq(Message) -> Seq(Message)]
      /\ \E i \in 1..Len(sessions[t]) : sessions[t][i].id = active[t]
  <2>1. t \in Open
    BY DEF SubmitPrompt
  <2>2. p \in Nat /\ active[t] \in Nat
    BY <2>1, SessionsFacts
  <2> QED BY <2>1, <2>2, SessionsFacts, EditTypes DEF Consistent, Chosen
<1>2. "running" \in Kinds \ {"prompt"}
  BY DEF Kinds
<1>3. InSession(sessions[t], active[t],
                LAMBDA messages : messages \o <<UserMessage(p), Reply(p, "running")>>) = new
  BY <1>1, <1>2, Edits
<1>4. sessions' = [sessions EXCEPT ![t] = new]
  BY <1>3 DEF SubmitPrompt, SetSessions
<1>5. new \in Conversations /\ new # <<>>
  <2> HIDE DEF p
  <2>1. sessions[t] # <<>>
    BY <1>1 DEF Open
  <2> QED BY <1>1, <2>1, EditedKept
<1> QED BY <1>4, <1>5

LEMMA WriteEdits ==
  ASSUME Consistent, NEW t \in Open, awaited[t] # 0, NEW kind \in Kinds \ {"prompt"},
         SetSessions(t, Written(sessions[t], asked[awaited[t]], awaited[t], kind))
  PROVE  LET new == Edited(sessions[t], asked[awaited[t]], Write(awaited[t], kind))
         IN  new \in Conversations /\ new # <<>> /\ sessions' = [sessions EXCEPT ![t] = new]
<1> DEFINE p == awaited[t]
           id == asked[p]
           new == Edited(sessions[t], id, Write(p, kind))
<1>1. /\ t \in Tabs /\ p \in Nat /\ id \in Nat /\ sessions[t] \in Conversations
      /\ Write(p, kind) \in [Seq(Message) -> Seq(Message)]
      /\ \E i \in 1..Len(sessions[t]) : sessions[t][i].id = active[t]
  BY SessionsFacts, EditTypes DEF Consistent, Chosen
<1>2. Written(sessions[t], id, p, kind) = new
  BY <1>1, Edits
<1>3. new \in Conversations /\ new # <<>>
  <2> HIDE DEF p, id
  <2>1. sessions[t] # <<>>
    BY DEF Open
  <2> QED BY <1>1, <2>1, EditedKept
<1> QED BY <1>2, <1>3 DEF SetSessions

LEMMA ClearEdits ==
  ASSUME Consistent, NEW t \in Tabs, Clear(t)
  PROVE  LET new == Edited(sessions[t], active[t], Wipe)
         IN  new \in Conversations /\ new # <<>> /\ sessions' = [sessions EXCEPT ![t] = new]
<1> DEFINE new == Edited(sessions[t], active[t], Wipe)
<1>1. /\ t \in Open /\ active[t] \in Nat /\ sessions[t] \in Conversations
      /\ Wipe \in [Seq(Message) -> Seq(Message)]
      /\ \E i \in 1..Len(sessions[t]) : sessions[t][i].id = active[t]
  <2>1. t \in Open
    BY DEF Clear
  <2>2. active[t] \in Nat
    BY <2>1, SessionsFacts
  <2> QED BY <2>1, <2>2, SessionsFacts, EditTypes DEF Consistent, Chosen
<1>2. "partial" \in Kinds \ {"prompt"} /\ 0 \in Nat
  BY DEF Kinds
<1>3. InSession(sessions[t], active[t], LAMBDA messages : <<>>) = new
  BY <1>1, <1>2, Edits
<1>4. sessions' = [sessions EXCEPT ![t] = new]
  BY <1>3 DEF Clear, SetSessions
<1>5. new \in Conversations /\ new # <<>>
  <2>1. sessions[t] # <<>>
    BY <1>1 DEF Open
  <2> QED BY <1>1, <2>1, EditedKept
<1> QED BY <1>4, <1>5

\* A handler that edits the list of an open tab and persists it, or does not.
LEMMA EditConsistent ==
  ASSUME Consistent, NEW t \in Open, NEW f \in [Seq(Message) -> Seq(Message)], NEW id \in Nat,
         sessions' = [sessions EXCEPT ![t] = Edited(sessions[t], id, f)],
         storage' = sessions'[t] \/ storage' = storage,
         active' = active, created' = created, SessionsTyped',
         Ordered(Edited(sessions[t], id, f), created, asked'),
         Ordered(storage, created, asked'), \A o \in Tabs : Ordered(sessions[o], created, asked')
  PROVE  Consistent'
<1>1. t \in Tabs /\ sessions[t] \in Conversations /\ sessions \in [Tabs -> Conversations]
  BY SessionsFacts DEF Open, Consistent, SessionsTyped
<1>2. sessions'[t] = Edited(sessions[t], id, f) /\ \A o \in Tabs \ {t} : sessions'[o] = sessions[o]
  BY <1>1
<1>3. InOrder'
  BY <1>1, <1>2 DEF InOrder
<1>4. Chosen'
  <2> SUFFICES ASSUME NEW o \in Tabs, sessions'[o] # <<>>
               PROVE  \E i \in 1..Len(sessions'[o]) : sessions'[o][i].id = active[o]
    BY DEF Chosen, Open
  <2>1. CASE o = t
    <3>1. \E i \in 1..Len(sessions[t]) : sessions[t][i].id = active[t]
      BY DEF Consistent, Chosen
    <3>2. \E i \in 1..Len(Edited(sessions[t], id, f)) :
            Edited(sessions[t], id, f)[i].id = active[t]
      BY ZenonT(60), <1>1, <3>1, EditedChosen
    <3> QED BY <1>2, <2>1, <3>2
  <2>2. CASE o # t
    BY <1>2, <2>2 DEF Consistent, Chosen, Open
  <2> QED BY <2>1, <2>2
<1> QED BY <1>3, <1>4 DEF Consistent

LEMMA SubmitConsistent ==
  ASSUME Consistent, NEW t \in Tabs, SubmitPrompt(t)
  PROVE  Consistent'
<1> DEFINE p == Len(asked) + 1
           id == active[t]
           new == Edited(sessions[t], id, Ask(p))
<1>1. /\ t \in Open /\ p \in Nat /\ id \in Nat /\ id \in 1..MaxSessions
      /\ sessions[t] \in Conversations
      /\ Ask(p) \in [Seq(Message) -> Seq(Message)] /\ created \in Nat /\ asked \in Seq(Nat)
  <2>1. t \in Open
    BY DEF SubmitPrompt
  <2>2. id \in 1..created /\ created \in 0..MaxSessions /\ MaxSessions \in Nat
    BY <2>1, SessionsFacts DEF Consistent, SessionsTyped
  <2>3. p \in Nat
    BY SessionsFacts
  <2> QED BY <2>1, <2>2, <2>3, SessionsFacts, EditTypes
<1>2. new \in Conversations /\ sessions' = [sessions EXCEPT ![t] = new]
  BY SubmitEdits
<1>3. /\ asked' \in Seq(1..MaxSessions) /\ Len(asked') = p /\ asked' = Append(asked, id)
      /\ asker' \in Seq(Tabs \cup {NoTab}) /\ Len(asker') = p
      /\ fate' \in Seq({"none"} \cup Settled) /\ Len(fate') = p
  <2>1. asked' = Append(asked, id) /\ asker' = Append(asker, t) /\ fate' = Append(fate, "none")
    BY DEF SubmitPrompt
  <2>2. /\ asked \in Seq(1..MaxSessions) /\ asker \in Seq(Tabs \cup {NoTab})
        /\ fate \in Seq({"none"} \cup Settled) /\ Len(asker) = Len(asked) /\ Len(fate) = Len(asked)
    BY DEF Consistent, SessionsTyped
  <2>3. asked' \in Seq(1..MaxSessions) /\ Len(asked') = p
    BY <1>1, <2>1, <2>2, AppendProperties
  <2>4. asker' \in Seq(Tabs \cup {NoTab}) /\ Len(asker') = p
    BY <2>1, <2>2, AppendProperties
  <2>5. fate' \in Seq({"none"} \cup Settled) /\ Len(fate') = p
    BY <2>1, <2>2, AppendProperties
  <2> QED BY <2>1, <2>3, <2>4, <2>5
<1>4. /\ Ordered(new, created, asked') /\ Ordered(storage, created, asked')
      /\ \A o \in Tabs : Ordered(sessions[o], created, asked')
  <2>1. Ordered(new, created, asked')
    BY <1>1, <1>3, AskOrdered DEF Consistent, InOrder
  <2>2. ASSUME NEW list \in Conversations, Ordered(list, created, asked)
        PROVE  Ordered(list, created, asked')
    BY <1>1, <1>3, <2>2, OrderedGrows
  <2> QED BY <2>1, <2>2 DEF Consistent, InOrder, SessionsTyped
<1> HIDE DEF new
<1>5. SessionsTyped'
  <2>1. sessions' \in [Tabs -> Conversations] /\ storage' \in Conversations
    BY <1>2 DEF SubmitPrompt, Persist, Consistent, SessionsTyped
  <2>2. 1..Len(asked) \subseteq 1..Len(asked') /\ p \in 1..Len(asked') /\ 0..Len(asked) \subseteq 0..Len(asked')
        /\ p \in 0..Len(asked')
    BY <1>3, SessionsFacts
  <2>3. awaited' \in [Tabs -> 0..Len(asked')]
    BY <2>2 DEF SubmitPrompt, Consistent, SessionsTyped
  <2>4. /\ shared' \subseteq 1..Len(asked') /\ cleared' \subseteq 1..Len(asked')
        /\ wiped' \subseteq 1..Len(asked')
    BY <2>2 DEF SubmitPrompt, Consistent, SessionsTyped
  <2> QED BY <1>3, <2>1, <2>3, <2>4 DEF SubmitPrompt, Consistent, SessionsTyped
<1>6. active' = active /\ created' = created /\ storage' = sessions'[t]
  BY DEF SubmitPrompt, Persist
<1> QED BY <1>1, <1>2, <1>4, <1>5, <1>6, EditConsistent DEF new

\* Receive and SettlePrompt write the reply of the prompt that the tab waits for.
LEMMA WriteConsistent ==
  ASSUME Consistent, NEW t \in Open, awaited[t] # 0, NEW kind \in Kinds \ {"prompt"},
         SetSessions(t, Written(sessions[t], asked[awaited[t]], awaited[t], kind)),
         storage' = sessions'[t] \/ storage' = storage,
         UNCHANGED <<active, created, asked, asker, shared, cleared, wiped>>,
         awaited' \in [Tabs -> 0..Len(asked)],
         fate' \in Seq({"none"} \cup Settled), Len(fate') = Len(fate)
  PROVE  Consistent'
<1> DEFINE p == awaited[t]
           id == asked[p]
           new == Edited(sessions[t], id, Write(p, kind))
<1>1. /\ t \in Tabs /\ p \in Nat /\ p \in 1..Len(asked) /\ id \in Nat /\ sessions[t] \in Conversations
      /\ created \in Nat /\ asked \in Seq(Nat)
      /\ Write(p, kind) \in [Seq(Message) -> Seq(Message)]
  BY SessionsFacts, EditTypes
<1>2. new \in Conversations /\ sessions' = [sessions EXCEPT ![t] = new]
  BY WriteEdits
<1>3. Ordered(new, created, asked)
  BY <1>1, WriteOrdered DEF Consistent, InOrder
<1> HIDE DEF new
<1>4. SessionsTyped'
  <2>1. sessions' \in [Tabs -> Conversations] /\ storage' \in Conversations
    BY <1>1, <1>2 DEF Consistent, SessionsTyped
  <2> QED BY <2>1 DEF Consistent, SessionsTyped
<1>5. asked' = asked /\ active' = active /\ created' = created
  OBVIOUS
<1>6. Ordered(storage, created, asked') /\ \A o \in Tabs : Ordered(sessions[o], created, asked')
  BY <1>5 DEF Consistent, InOrder
<1> QED BY <1>1, <1>2, <1>3, <1>4, <1>5, <1>6, EditConsistent DEF new

LEMMA ReplyConsistent ==
  ASSUME Consistent, NEW t \in Tabs, Receive(t) \/ \E kind \in Settled : SettlePrompt(t, kind)
  PROVE  Consistent'
<1>1. CASE Receive(t)
  <2>1. "partial" \in Kinds \ {"prompt"}
    BY DEF Kinds
  <2>2. awaited' \in [Tabs -> 0..Len(asked)] /\ fate' \in Seq({"none"} \cup Settled)
    BY <1>1 DEF Receive, history, Consistent, SessionsTyped
  <2> QED BY <1>1, <2>1, <2>2, WriteConsistent DEF Receive, history
<1>2. ASSUME NEW kind \in Settled, SettlePrompt(t, kind) PROVE Consistent'
  <2>1. kind \in Kinds \ {"prompt"}
    BY DEF Kinds, Settled
  <2>2. awaited' \in [Tabs -> 0..Len(asked)]
    BY <1>2, SessionsFacts DEF SettlePrompt, Consistent, SessionsTyped
  <2>3. fate' \in Seq({"none"} \cup Settled) /\ Len(fate') = Len(fate)
    <3>1. awaited[t] \in 1..Len(fate) /\ fate \in Seq({"none"} \cup Settled)
      BY <1>2, SessionsFacts DEF SettlePrompt, Consistent, SessionsTyped
    <3> QED BY <1>2, <3>1, ExceptSeq DEF SettlePrompt
  <2> QED BY <1>2, <2>1, <2>2, <2>3, WriteConsistent DEF SettlePrompt, Persist
<1> QED BY <1>1, <1>2

LEMMA ClearConsistent ==
  ASSUME Consistent, NEW t \in Tabs, Clear(t)
  PROVE  /\ Consistent'
         /\ PromptsIn(sessions[t][ActiveOf(t)].messages) \subseteq 1..Len(asked)
<1> DEFINE id == active[t]
           new == Edited(sessions[t], id, Wipe)
           gone == PromptsIn(sessions[t][ActiveOf(t)].messages)
<1>1. /\ t \in Open /\ id \in Nat /\ sessions[t] \in Conversations /\ created \in Nat
      /\ asked \in Seq(Nat) /\ Wipe \in [Seq(Message) -> Seq(Message)]
  <2>1. t \in Open
    BY DEF Clear
  <2>2. active[t] \in 1..created /\ created \in Nat
    BY <2>1, SessionsFacts
  <2> QED BY <2>1, <2>2, SessionsFacts, EditTypes
<1>2. new \in Conversations /\ sessions' = [sessions EXCEPT ![t] = new]
  BY ClearEdits
<1>3. Ordered(new, created, asked)
  BY <1>1, WipeOrdered DEF Consistent, InOrder
<1>4. gone \subseteq 1..Len(asked)
  <2>1. ActiveOf(t) \in 1..Len(sessions[t])
    BY <1>1, ActiveFound
  <2>2. Paired(sessions[t][ActiveOf(t)].messages, sessions[t][ActiveOf(t)].id, asked)
    BY <2>1 DEF Consistent, InOrder, Ordered
  <2>3. DOMAIN sessions[t][ActiveOf(t)].messages = 1..Len(sessions[t][ActiveOf(t)].messages)
    BY <1>1, <2>1, ListTypes
  <2> QED BY <2>2, <2>3 DEF Paired, PromptsIn
<1>5. /\ storage' = sessions'[t] /\ cleared' = cleared \cup gone
      /\ wiped' = IF Open = {t} THEN wiped \cup gone ELSE wiped
      /\ UNCHANGED <<active, awaited, created, asked, asker, fate, shared>>
  BY DEF Clear, Persist
<1> HIDE DEF new, gone
<1>6. SessionsTyped'
  <2>1. sessions' \in [Tabs -> Conversations] /\ storage' \in Conversations
    BY <1>2, <1>5 DEF Consistent, SessionsTyped
  <2>2. cleared' \subseteq 1..Len(asked) /\ wiped' \subseteq 1..Len(asked)
    BY <1>4, <1>5 DEF Consistent, SessionsTyped
  <2> QED BY <1>5, <2>1, <2>2 DEF Consistent, SessionsTyped
<1>7. Consistent'
  <2>1. Ordered(storage, created, asked') /\ \A o \in Tabs : Ordered(sessions[o], created, asked')
    BY <1>5 DEF Consistent, InOrder
  <2> QED BY <1>1, <1>2, <1>3, <1>5, <1>6, <2>1, EditConsistent DEF new
<1> QED BY <1>4, <1>7 DEF gone

LEMMA NewConsistent ==
  ASSUME Consistent, NEW t \in Tabs, NewConversation(t)
  PROVE  Consistent'
<1> DEFINE new == <<Session(created + 1)>> \o sessions[t]
<1>1. /\ t \in Open /\ created \in Nat /\ MaxSessions \in Nat /\ created < MaxSessions
      /\ sessions[t] \in Conversations /\ asked \in Seq(Nat) /\ Ordered(sessions[t], created, asked)
  BY SessionsFacts DEF NewConversation, Consistent, InOrder
<1>2. /\ new \in Conversations /\ Ordered(new, created + 1, asked)
      /\ Len(new) = Len(sessions[t]) + 1 /\ new[1] = Session(created + 1)
  BY <1>1, OrderedNew
<1>3. /\ sessions' = [sessions EXCEPT ![t] = new] /\ storage' = sessions'[t]
      /\ active' = [active EXCEPT ![t] = created + 1] /\ created' = created + 1
      /\ UNCHANGED <<awaited, history>>
  BY DEF NewConversation, SetSessions, Persist
<1>4. Len(sessions[t]) \in Nat
  BY <1>1, ListTypes
<1> HIDE DEF new
<1>5. sessions'[t] = new /\ \A o \in Tabs \ {t} : sessions'[o] = sessions[o]
  BY <1>3 DEF Consistent, SessionsTyped
<1>6. SessionsTyped'
  <2>1. sessions' \in [Tabs -> Conversations] /\ storage' \in Conversations
    BY <1>2, <1>3, <1>5 DEF Consistent, SessionsTyped
  <2>2. created' \in 0..MaxSessions /\ active' \in [Tabs -> Nat]
    BY <1>1, <1>3 DEF Consistent, SessionsTyped
  <2> QED BY <1>3, <2>1, <2>2 DEF history, Consistent, SessionsTyped
<1>7. InOrder'
  <2>1. ASSUME NEW list \in Conversations, Ordered(list, created, asked)
        PROVE  Ordered(list, created + 1, asked)
    BY <1>1, <2>1, OrderedGrows
  <2> QED BY <1>2, <1>3, <1>5, <2>1 DEF history, Consistent, InOrder, SessionsTyped
<1>8. Chosen'
  <2> SUFFICES ASSUME NEW o \in Tabs, sessions'[o] # <<>>
               PROVE  \E i \in 1..Len(sessions'[o]) : sessions'[o][i].id = active'[o]
    BY DEF Chosen, Open
  <2>1. CASE o = t
    <3>1. 1 \in 1..Len(new) /\ new[1].id = created + 1
      BY <1>2, <1>4 DEF Session
    <3>2. active'[t] = created + 1
      BY <1>3 DEF Consistent, SessionsTyped
    <3> QED BY <1>5, <2>1, <3>1, <3>2
  <2>2. CASE o # t
    <3>1. active'[o] = active[o] /\ sessions'[o] = sessions[o]
      BY <1>3, <1>5, <2>2 DEF Consistent, SessionsTyped
    <3> QED BY <3>1 DEF Consistent, Chosen, Open
  <2> QED BY <2>1, <2>2
<1> QED BY <1>6, <1>7, <1>8 DEF Consistent

\* loadState, the list it shows and what it creates.
LEMMA OpenTabLoads ==
  ASSUME Consistent, NEW t \in Tabs, OpenTab(t)
  PROVE  \E list \in Conversations :
           /\ sessions' = [sessions EXCEPT ![t] = list] /\ list # <<>> /\ Len(list) \in Nat \ {0}
           /\ active' = [active EXCEPT ![t] = list[1].id] /\ created' \in 0..MaxSessions
           /\ created <= created' /\ Ordered(list, created', asked)
           /\ list = storage \/ (storage = <<>> /\ list = <<Session(created + 1)>>)
<1>1. created \in Nat /\ MaxSessions \in Nat /\ asked \in Seq(Nat) /\ storage \in Conversations
      /\ Ordered(storage, created, asked)
  BY SessionsFacts DEF Consistent, InOrder, SessionsTyped
<1>2. CASE storage = <<>>
  <2> DEFINE list == <<Session(created + 1)>>
  <2>1. <<Session(created + 1)>> \o storage = list
    <3>1. <<>> \in Seq(Message)
      BY EmptySeq
    <3>2. Session(created + 1) \in Conversation
      BY <1>1, <3>1 DEF Session, Conversation
    <3>3. <<Session(created + 1)>> \in Seq(Conversation)
      BY <3>2
    <3> QED BY <1>2, <3>3, ConcatEmptySeq
  <2>2. list \in Conversations /\ Ordered(list, created + 1, asked)
    BY <1>1, <2>1, OrderedNew
  <2>3. list # <<>> /\ Len(list) = 1
    OBVIOUS
  <2>4. /\ sessions' = [sessions EXCEPT ![t] = list] /\ created < MaxSessions
        /\ active' = [active EXCEPT ![t] = list[1].id] /\ created' = created + 1
    BY <1>2 DEF OpenTab, SetSessions
  <2>5. created' \in 0..MaxSessions /\ created <= created'
    BY <1>1, <2>4
  <2>6. list = storage \/ (storage = <<>> /\ list = <<Session(created + 1)>>)
    BY <1>2
  <2>7. Ordered(list, created', asked) /\ Len(list) \in Nat \ {0}
    BY <2>2, <2>3, <2>4
  <2> HIDE DEF list
  <2> QED BY <2>2, <2>3, <2>4, <2>5, <2>6, <2>7
<1>3. CASE storage # <<>>
  <2>1. /\ sessions' = [sessions EXCEPT ![t] = storage]
        /\ active' = [active EXCEPT ![t] = storage[1].id] /\ created' = created + 0
    BY <1>3 DEF OpenTab, SetSessions
  <2>2. Len(storage) \in Nat \ {0}
    BY <1>1, <1>3, EmptySeq DEF Conversations
  <2>3. created' = created /\ created \in 0..MaxSessions
    BY <1>1, <2>1 DEF Consistent, SessionsTyped
  <2>4. created' \in 0..MaxSessions /\ created <= created' /\ Ordered(storage, created', asked)
    BY <1>1, <2>3
  <2> QED BY <1>1, <1>3, <2>1, <2>2, <2>4
<1> QED BY <1>2, <1>3

LEMMA OpenTabConsistent ==
  ASSUME Consistent, NEW t \in Tabs, OpenTab(t)
  PROVE  Consistent'
<1>1. PICK list \in Conversations :
        /\ sessions' = [sessions EXCEPT ![t] = list] /\ list # <<>> /\ Len(list) \in Nat \ {0}
        /\ active' = [active EXCEPT ![t] = list[1].id] /\ created' \in 0..MaxSessions
        /\ created <= created' /\ Ordered(list, created', asked)
  BY OpenTabLoads
<1>2. /\ created \in Nat /\ created' \in Nat /\ asked \in Seq(Nat)
      /\ \A o \in Tabs : sessions[o] \in Conversations
  BY <1>1, SessionsFacts
<1>3. sessions'[t] = list /\ \A o \in Tabs \ {t} : sessions'[o] = sessions[o]
  BY <1>1 DEF Consistent, SessionsTyped
<1>4. 1 \in 1..Len(list) /\ list[1].id \in Nat
  BY <1>1, ListTypes
<1>5. SessionsTyped'
  <2>1. sessions' \in [Tabs -> Conversations] /\ active' \in [Tabs -> Nat]
    BY <1>1, <1>4 DEF Consistent, SessionsTyped
  <2>2. shared' \subseteq 1..Len(asked)
    <3>1. \A o \in Open : awaited[o] # 0 => awaited[o] \in 1..Len(asked)
      BY SessionsFacts
    <3>2. shared \subseteq 1..Len(asked)
      BY DEF Consistent, SessionsTyped
    <3> QED BY <3>1, <3>2 DEF OpenTab
  <2> QED BY <1>1, <2>1, <2>2 DEF OpenTab, Consistent, SessionsTyped
<1>6. InOrder'
  <2>1. ASSUME NEW old \in Conversations, Ordered(old, created, asked)
        PROVE  Ordered(old, created', asked)
    BY <1>1, <1>2, <2>1, OrderedGrows
  <2>2. storage' = storage /\ asked' = asked
    BY DEF OpenTab
  <2> QED BY <1>1, <1>2, <1>3, <2>1, <2>2 DEF Consistent, InOrder, SessionsTyped
<1>7. Chosen'
  <2> SUFFICES ASSUME NEW o \in Tabs, sessions'[o] # <<>>
               PROVE  \E i \in 1..Len(sessions'[o]) : sessions'[o][i].id = active'[o]
    BY DEF Chosen, Open
  <2>1. CASE o = t
    <3>1. active'[t] = list[1].id
      BY <1>1 DEF Consistent, SessionsTyped
    <3> QED BY <1>3, <1>4, <2>1, <3>1
  <2>2. CASE o # t
    <3>1. active'[o] = active[o] /\ sessions'[o] = sessions[o]
      BY <1>1, <1>3, <2>2 DEF Consistent, SessionsTyped
    <3> QED BY <3>1 DEF Consistent, Chosen, Open
  <2> QED BY <2>1, <2>2
<1> QED BY <1>5, <1>6, <1>7 DEF Consistent

LEMMA CloseTabConsistent ==
  ASSUME Consistent, NEW t \in Tabs, CloseTab(t)
  PROVE  Consistent'
<1>1. <<>> \in Conversations /\ Len(<<>>) = 0
  BY EmptySeq DEF Conversations
<1>2. /\ sessions' = [sessions EXCEPT ![t] = <<>>] /\ active' = [active EXCEPT ![t] = 0]
      /\ awaited' = [awaited EXCEPT ![t] = 0]
      /\ UNCHANGED <<storage, created, asked, fate, shared, cleared, wiped>>
  BY DEF CloseTab, SetSessions
<1>3. Asked = 1..Len(asked) /\ Len(asked) \in Nat /\ Len(asker) = Len(asked)
      /\ asker \in Seq(Tabs \cup {NoTab})
  BY SessionsFacts DEF Consistent, SessionsTyped
<1>4. asker' \in Seq(Tabs \cup {NoTab}) /\ Len(asker') = Len(asked)
  <2> DEFINE new == [p \in 1..Len(asked) |-> IF asker[p] = t THEN NoTab ELSE asker[p]]
  <2>1. asker' = new
    BY <1>3 DEF CloseTab
  <2>2. new \in [1..Len(asked) -> Tabs \cup {NoTab}]
    BY <1>3, ElementOfSeq
  <2>3. new \in Seq(Tabs \cup {NoTab}) /\ DOMAIN new = 1..Len(asked)
    BY <1>3, <2>2, SeqDef
  <2> HIDE DEF new
  <2>4. Len(new) = Len(asked)
    BY <1>3, <2>3, LenProperties
  <2> QED BY <2>1, <2>3, <2>4
<1>5. SessionsTyped'
  <2>1. sessions' \in [Tabs -> Conversations] /\ active' \in [Tabs -> Nat]
        /\ awaited' \in [Tabs -> 0..Len(asked)]
    BY <1>1, <1>2, <1>3 DEF Consistent, SessionsTyped
  <2> QED BY <1>2, <1>4, <2>1 DEF Consistent, SessionsTyped
<1>6. sessions'[t] = <<>> /\ \A o \in Tabs \ {t} : sessions'[o] = sessions[o] /\ active'[o] = active[o]
  BY <1>2 DEF Consistent, SessionsTyped
<1>7. Ordered(<<>>, created, asked)
  BY <1>1 DEF Ordered
<1>8. InOrder'
  BY <1>2, <1>6, <1>7 DEF Consistent, InOrder
<1>9. Chosen'
  BY <1>6 DEF Consistent, Chosen, Open
<1> QED BY <1>5, <1>8, <1>9 DEF Consistent

LEMMA SwitchConsistent ==
  ASSUME Consistent, NEW t \in Tabs, NEW id \in 1..MaxSessions, SwitchTo(t, id)
  PROVE  Consistent'
<1>1. /\ active' = [active EXCEPT ![t] = id]
      /\ UNCHANGED <<storage, sessions, awaited, created, asked, asker, fate, shared, cleared, wiped>>
  BY DEF SwitchTo, history
<1>2. \E i \in 1..Len(sessions[t]) : sessions[t][i].id = id
  <2>1. DOMAIN sessions[t] = 1..Len(sessions[t])
    BY SessionsFacts, ListTypes
  <2> QED BY <2>1 DEF SwitchTo
<1>3. Chosen'
  BY <1>1, <1>2 DEF Consistent, SessionsTyped, Chosen, Open
<1>4. SessionsTyped'
  BY <1>1 DEF Consistent, SessionsTyped
<1> QED BY <1>1, <1>3, <1>4 DEF Consistent, InOrder

LEMMA ConsistentStep == Consistent /\ [SessionsNext]_sessionsVars => Consistent'
<1> SUFFICES ASSUME Consistent, [SessionsNext]_sessionsVars PROVE Consistent'
  OBVIOUS
<1>1. CASE UNCHANGED sessionsVars
  BY <1>1 DEF Consistent, SessionsTyped, InOrder, Chosen, Open, sessionsVars
<1>2. CASE SessionsNext
  <2>1. PICK t \in Tabs :
          \/ OpenTab(t) \/ CloseTab(t) \/ NewConversation(t) \/ SubmitPrompt(t) \/ Receive(t) \/ Clear(t)
          \/ \E id \in 1..MaxSessions : SwitchTo(t, id)
          \/ \E kind \in Settled : SettlePrompt(t, kind)
    BY <1>2 DEF SessionsNext
  <2> QED BY <2>1, OpenTabConsistent, CloseTabConsistent, NewConsistent, SubmitConsistent,
          ReplyConsistent, ClearConsistent, SwitchConsistent
<1> QED BY <1>1, <1>2

LEMMA ConsistentInit == SessionsInit => Consistent
<1> SUFFICES ASSUME SessionsInit PROVE Consistent
  OBVIOUS
<1>1. <<>> \in Conversations /\ Len(<<>>) = 0 /\ <<>> \in Seq(1..MaxSessions)
      /\ <<>> \in Seq(Tabs \cup {NoTab}) /\ <<>> \in Seq({"none"} \cup Settled)
  BY EmptySeq DEF Conversations
<1>2. SessionsTyped
  BY <1>1, ConsoleAssumption DEF SessionsInit, SessionsTyped
<1>3. InOrder
  BY <1>1 DEF SessionsInit, InOrder, Ordered
<1>4. Chosen
  BY DEF SessionsInit, Chosen, Open
<1> QED BY <1>2, <1>3, <1>4 DEF Consistent

LEMMA ListsOrdered ==
  ASSUME Consistent, NEW list \in Lists
  PROVE  list \in Conversations /\ Ordered(list, created, asked)
<1>1. list = storage \/ \E t \in Tabs : list = sessions[t]
  BY DEF Lists, Open
<1> QED BY <1>1 DEF Consistent, SessionsTyped, InOrder

\* Lists, prompts and what is recorded about them are what their declarations say,
\* and the conversation a tab shows exists: however many tabs, conversations and
\* prompts there may be, and however long the list was not reloaded.
THEOREM SessionsTypeCorrect == SessionsSpec => []SessionsTypeOK
<1>1. Consistent => SessionsTypeOK
  <2> SUFFICES ASSUME Consistent PROVE SessionsTypeOK
    OBVIOUS
  <2>1. ASSUME NEW list \in Lists, NEW i \in DOMAIN list
        PROVE  /\ list[i].id \in 1..created
               /\ \A m \in Range(list[i].messages) : m.prompt \in Asked /\ m.kind \in Kinds
               /\ \A j \in DOMAIN list : list[j].id = list[i].id => i = j
    <3>1. list \in Conversations /\ Ordered(list, created, asked)
      BY ListsOrdered
    <3>2. DOMAIN list = 1..Len(list)
      BY <3>1, ListTypes
    <3>3. /\ list[i].id \in 1..created
          /\ \A j \in DOMAIN list : list[j].id = list[i].id => i = j
          /\ Paired(list[i].messages, list[i].id, asked)
      BY <3>1, <3>2 DEF Ordered
    <3>4. /\ DOMAIN list[i].messages = 1..Len(list[i].messages)
          /\ \A j \in 1..Len(list[i].messages) : list[i].messages[j] \in Message
      BY <3>1, <3>2, ListTypes
    <3>5. \A m \in Range(list[i].messages) : m.prompt \in 1..Len(asked) /\ m.kind \in Kinds
      BY <3>3, <3>4 DEF Range, Paired, Message
    <3> QED BY <3>3, <3>5, SessionsFacts
  <2>2. \A t \in Tabs : awaited[t] \in {0} \cup Asked
    BY SessionsFacts
  <2>3. \A t \in Open : \E i \in DOMAIN sessions[t] : sessions[t][i].id = active[t]
    BY SessionsFacts, ListTypes DEF Consistent, Chosen
  <2>4. shared \cup cleared \cup wiped \subseteq Asked
    BY SessionsFacts DEF Consistent, SessionsTyped
  <2> QED BY <2>1, <2>2, <2>3, <2>4 DEF SessionsTypeOK, Consistent, SessionsTyped
<1> QED BY <1>1, ConsistentInit, ConsistentStep, PTL DEF SessionsSpec

\* A conversation consists of prompts that were sent in it, each once and followed
\* by its own reply, in every tab and in local storage, whatever the user does
\* while replies are under way and however many tabs there are.
THEOREM RepliesFollow == SessionsSpec => []RepliesFollowPrompts
<1>1. Consistent => RepliesFollowPrompts
  <2> SUFFICES ASSUME Consistent, NEW list \in Lists, NEW i \in DOMAIN list
               PROVE  /\ Len(list[i].messages) % 2 = 0
                      /\ \A j \in DOMAIN list[i].messages :
                           /\ asked[list[i].messages[j].prompt] = list[i].id
                           /\ list[i].messages[j].kind = "prompt" <=> j % 2 = 1
                           /\ \A k \in DOMAIN list[i].messages :
                                list[i].messages[k].prompt = list[i].messages[j].prompt
                                  <=> (k + 1) \div 2 = (j + 1) \div 2
    BY DEF RepliesFollowPrompts
  <2>1. list \in Conversations /\ Ordered(list, created, asked)
    BY ListsOrdered
  <2>2. /\ DOMAIN list = 1..Len(list)
        /\ DOMAIN list[i].messages = 1..Len(list[i].messages)
    BY <2>1, ListTypes
  <2>3. Paired(list[i].messages, list[i].id, asked)
    BY <2>1, <2>2 DEF Ordered
  <2> QED BY <2>2, <2>3 DEF Paired, Turn
<1> QED BY <1>1, ConsistentInit, ConsistentStep, PTL DEF SessionsSpec

-----------------------------------------------------------------------------
(* ConsoleSessions: what a handler keeps of a list *)

LEMMA HoldsTypes ==
  ASSUME NEW list \in Conversations, NEW m, Holds(list, m)
  PROVE  m \in Message
<1>1. PICK i \in 1..Len(list) : \E j \in 1..Len(list[i].messages) : list[i].messages[j] = m
  BY DEF Holds
<1>2. PICK j \in 1..Len(list[i].messages) : list[i].messages[j] = m
  BY <1>1
<1>3. list[i].messages[j] \in Message
  BY ListTypes
<1> QED BY <1>2, <1>3

LEMMA HoldsMessages ==
  ASSUME NEW list \in Conversations, NEW m
  PROVE  m \in Messages(list) <=> Holds(list, m)
<1>1. DOMAIN list = 1..Len(list)
      /\ \A i \in 1..Len(list) : DOMAIN list[i].messages = 1..Len(list[i].messages)
  BY ListTypes
<1>2. m \in Messages(list) <=> \E i \in 1..Len(list) : m \in Range(list[i].messages)
  BY <1>1 DEF Messages
<1>3. \A i \in 1..Len(list) :
        m \in Range(list[i].messages) <=> \E j \in 1..Len(list[i].messages) : list[i].messages[j] = m
  BY <1>1 DEF Range
<1> QED BY <1>2, <1>3 DEF Holds

\* A list holds what it held in the conversations that were not edited, and in
\* the edited one what the edit has put there.
LEMMA HoldsEdited ==
  ASSUME NEW list \in Conversations, NEW id \in Nat, NEW f \in [Seq(Message) -> Seq(Message)],
         NEW m
  PROVE  Holds(Edited(list, id, f), m) <=>
           \E i \in 1..Len(list) :
             \/ list[i].id # id /\ \E j \in 1..Len(list[i].messages) : list[i].messages[j] = m
             \/ /\ list[i].id = id
                /\ \E j \in 1..Len(f[list[i].messages]) : f[list[i].messages][j] = m
<1> DEFINE new == Edited(list, id, f)
<1>1. /\ Len(new) = Len(list)
      /\ \A i \in 1..Len(list) :
           /\ new[i].id = list[i].id
           /\ new[i].messages = IF list[i].id = id THEN f[list[i].messages] ELSE list[i].messages
  BY ZenonT(60), EditedProperties
<1> HIDE DEF new
<1>2. Holds(new, m) <=> \E i \in 1..Len(list) : \E j \in 1..Len(new[i].messages) : new[i].messages[j] = m
  BY <1>1 DEF Holds
<1>3. ASSUME NEW i \in 1..Len(list)
      PROVE  (\E j \in 1..Len(new[i].messages) : new[i].messages[j] = m) <=>
               \/ list[i].id # id /\ \E j \in 1..Len(list[i].messages) : list[i].messages[j] = m
               \/ /\ list[i].id = id
                  /\ \E j \in 1..Len(f[list[i].messages]) : f[list[i].messages][j] = m
  BY <1>1
<1>4. Holds(new, m) <=>
           \E i \in 1..Len(list) :
             \/ list[i].id # id /\ \E j \in 1..Len(list[i].messages) : list[i].messages[j] = m
             \/ /\ list[i].id = id
                /\ \E j \in 1..Len(f[list[i].messages]) : f[list[i].messages][j] = m
  BY <1>2, <1>3
<1> QED BY <1>4 DEF new

LEMMA AskHolds ==
  ASSUME NEW list \in Conversations, NEW id \in Nat, NEW p \in Nat, NEW m
  PROVE  /\ Holds(list, m) => Holds(Edited(list, id, Ask(p)), m)
         /\ Holds(Edited(list, id, Ask(p)), m) => Holds(list, m) \/ m.prompt = p
         /\ (\E i \in 1..Len(list) : list[i].id = id)
              => Holds(Edited(list, id, Ask(p)), Reply(p, "running"))
<1> DEFINE pair == <<UserMessage(p), Reply(p, "running")>>
<1>1. UserMessage(p) \in Message /\ Reply(p, "running") \in Message
      /\ UserMessage(p).prompt = p /\ Reply(p, "running").prompt = p
  BY DEF UserMessage, Reply, Message, Kinds
<1>2. pair \in Seq(Message) /\ Len(pair) = 2 /\ pair[1] = UserMessage(p) /\ pair[2] = Reply(p, "running")
  BY <1>1
<1>3. \A ms \in Seq(Message) : Ask(p)[ms] = ms \o pair
  BY DEF Ask
<1> HIDE DEF pair
<1>4. ASSUME NEW ms \in Seq(Message)
      PROVE  /\ \A j \in 1..Len(ms) : \E k \in 1..Len(Ask(p)[ms]) : Ask(p)[ms][k] = ms[j]
             /\ \A k \in 1..Len(Ask(p)[ms]) :
                  \/ \E j \in 1..Len(ms) : Ask(p)[ms][k] = ms[j]
                  \/ Ask(p)[ms][k].prompt = p
             /\ \E k \in 1..Len(Ask(p)[ms]) : Ask(p)[ms][k] = Reply(p, "running")
  <2> DEFINE new == ms \o pair
             n == Len(ms)
  <2>1. /\ n \in Nat /\ Len(new) = n + 2
        /\ \A i \in 1..(n + 2) : new[i] = IF i <= n THEN ms[i] ELSE pair[i - n]
    <3>1. n \in Nat
      BY LenProperties
    <3>2. /\ Len(new) = n + Len(pair)
          /\ \A i \in 1..(n + Len(pair)) : new[i] = IF i <= n THEN ms[i] ELSE pair[i - n]
      BY <1>2, ConcatProperties
    <3> QED BY <1>2, <3>1, <3>2
  <2>2. Ask(p)[ms] = new
    BY <1>3
  <2> HIDE DEF new, n
  <2>3. \A j \in 1..n : j \in 1..(n + 2) /\ new[j] = ms[j]
    BY <2>1
  <2>4. /\ n + 1 \in 1..(n + 2) /\ new[n + 1] = UserMessage(p)
        /\ n + 2 \in 1..(n + 2) /\ new[n + 2] = Reply(p, "running")
    <3>1. /\ n + 1 \in 1..(n + 2) /\ ~(n + 1 <= n) /\ (n + 1) - n = 1
          /\ n + 2 \in 1..(n + 2) /\ ~(n + 2 <= n) /\ (n + 2) - n = 2
      BY <2>1
    <3> QED BY <1>2, <2>1, <3>1
  <2>5. \A k \in 1..(n + 2) : k \in 1..n \/ k = n + 1 \/ k = n + 2
    BY <2>1
  <2> QED BY <1>1, <2>1, <2>2, <2>3, <2>4, <2>5 DEF n
<1>5. \A i \in 1..Len(list) : list[i].messages \in Seq(Message)
  BY ListTypes
<1>6. Ask(p) \in [Seq(Message) -> Seq(Message)]
  BY EditTypes
<1>7. ASSUME Holds(list, m) PROVE Holds(Edited(list, id, Ask(p)), m)
  <2>1. PICK i \in 1..Len(list) : \E j \in 1..Len(list[i].messages) : list[i].messages[j] = m
    BY <1>7 DEF Holds
  <2>2. list[i].id = id => \E k \in 1..Len(Ask(p)[list[i].messages]) : Ask(p)[list[i].messages][k] = m
    BY ZenonT(60), <1>4, <1>5, <2>1
  <2> QED BY <1>6, <2>1, <2>2, HoldsEdited
<1>8. ASSUME Holds(Edited(list, id, Ask(p)), m) PROVE Holds(list, m) \/ m.prompt = p
  <2>1. PICK i \in 1..Len(list) :
          \/ list[i].id # id /\ \E j \in 1..Len(list[i].messages) : list[i].messages[j] = m
          \/ /\ list[i].id = id
             /\ \E j \in 1..Len(Ask(p)[list[i].messages]) : Ask(p)[list[i].messages][j] = m
    BY <1>6, <1>8, HoldsEdited
  <2>2. CASE \E j \in 1..Len(list[i].messages) : list[i].messages[j] = m
    BY <2>2 DEF Holds
  <2>3. CASE \E j \in 1..Len(Ask(p)[list[i].messages]) : Ask(p)[list[i].messages][j] = m
    <3>1. (\E j \in 1..Len(list[i].messages) : list[i].messages[j] = m) \/ m.prompt = p
      <4>1. PICK k \in 1..Len(Ask(p)[list[i].messages]) : Ask(p)[list[i].messages][k] = m
        BY <2>3
      <4>2. list[i].messages \in Seq(Message)
        BY <1>5
      <4>3. \/ \E j \in 1..Len(list[i].messages) : Ask(p)[list[i].messages][k] = list[i].messages[j]
            \/ Ask(p)[list[i].messages][k].prompt = p
        BY <1>4, <4>2
      <4> QED BY <4>1, <4>3
    <3> QED BY <3>1 DEF Holds
  <2> QED BY <2>1, <2>2, <2>3
<1>9. ASSUME NEW i \in 1..Len(list), list[i].id = id
      PROVE  Holds(Edited(list, id, Ask(p)), Reply(p, "running"))
  <2>1. \E k \in 1..Len(Ask(p)[list[i].messages]) : Ask(p)[list[i].messages][k] = Reply(p, "running")
    BY <1>4, <1>5
  <2> QED BY <1>6, <1>9, <2>1, HoldsEdited
<1> QED BY <1>7, <1>8, <1>9

LEMMA WriteHolds ==
  ASSUME NEW list \in Conversations, NEW id \in Nat, NEW p \in Nat,
         NEW kind \in Kinds \ {"prompt"}, NEW m
  PROVE  /\ Holds(list, m) /\ m.prompt # p => Holds(Edited(list, id, Write(p, kind)), m)
         /\ Holds(Edited(list, id, Write(p, kind)), m)
              => \E o \in Message : Holds(list, o) /\ o.prompt = m.prompt
         /\ \A c \in Nat, a \in Seq(Nat) :
              /\ Ordered(list, c, a) /\ id = a[p] /\ Holds(list, m)
              /\ m.prompt = p /\ m.kind # "prompt"
              => Holds(Edited(list, id, Write(p, kind)), Reply(p, kind))
<1> DEFINE f == Write(p, kind)
<1>1. \A i \in 1..Len(list) :
        /\ list[i].messages \in Seq(Message)
        /\ \A j \in 1..Len(list[i].messages) : list[i].messages[j] \in Message
  BY ListTypes
<1>2. f \in [Seq(Message) -> Seq(Message)]
  BY EditTypes
<1>3. ASSUME NEW i \in 1..Len(list)
      PROVE  /\ Len(f[list[i].messages]) = Len(list[i].messages)
             /\ \A j \in 1..Len(list[i].messages) : f[list[i].messages][j] =
                  IF list[i].messages[j].prompt = p /\ list[i].messages[j].kind # "prompt"
                  THEN Reply(p, kind) ELSE list[i].messages[j]
  <2> DEFINE ms == list[i].messages
  <2>1. ms \in Seq(Message)
    BY <1>1
  <2>2. f[ms] = Rewrite(ms, p, kind)
    BY <2>1 DEF Write
  <2> HIDE DEF f, ms
  <2>3. /\ Len(Rewrite(ms, p, kind)) = Len(ms)
        /\ \A j \in 1..Len(ms) : Rewrite(ms, p, kind)[j] =
             IF ms[j].prompt = p /\ ms[j].kind # "prompt" THEN Reply(p, kind) ELSE ms[j]
    BY <2>1, RewriteProperties
  <2>4. /\ Len(f[ms]) = Len(ms)
        /\ \A j \in 1..Len(ms) : f[ms][j] =
             IF ms[j].prompt = p /\ ms[j].kind # "prompt" THEN Reply(p, kind) ELSE ms[j]
    BY <2>2, <2>3
  <2> QED BY <2>4 DEF ms
<1> HIDE DEF f
<1>4. Reply(p, kind).prompt = p
  BY DEF Reply
<1>5. ASSUME Holds(list, m), m.prompt # p PROVE Holds(Edited(list, id, f), m)
  <2>1. PICK i \in 1..Len(list) : \E j \in 1..Len(list[i].messages) : list[i].messages[j] = m
    BY <1>5 DEF Holds
  <2>2. \E j \in 1..Len(f[list[i].messages]) : f[list[i].messages][j] = m
    BY <1>3, <1>5, <2>1
  <2> QED BY <1>2, <2>1, <2>2, HoldsEdited
<1>6. ASSUME Holds(Edited(list, id, f), m)
      PROVE  \E o \in Message : Holds(list, o) /\ o.prompt = m.prompt
  <2>1. PICK i \in 1..Len(list) :
          \/ list[i].id # id /\ \E j \in 1..Len(list[i].messages) : list[i].messages[j] = m
          \/ /\ list[i].id = id
             /\ \E j \in 1..Len(f[list[i].messages]) : f[list[i].messages][j] = m
    BY <1>2, <1>6, HoldsEdited
  <2>2. PICK j \in 1..Len(list[i].messages) : list[i].messages[j].prompt = m.prompt
    BY <1>3, <1>4, <2>1
  <2>3. list[i].messages[j] \in Message /\ Holds(list, list[i].messages[j])
    BY <1>1 DEF Holds
  <2> QED BY <2>2, <2>3
<1>7. ASSUME NEW c \in Nat, NEW a \in Seq(Nat), Ordered(list, c, a), id = a[p], Holds(list, m),
             m.prompt = p, m.kind # "prompt"
      PROVE  Holds(Edited(list, id, f), Reply(p, kind))
  <2>1. PICK i \in 1..Len(list) : \E j \in 1..Len(list[i].messages) : list[i].messages[j] = m
    BY <1>7 DEF Holds
  <2>2. PICK j \in 1..Len(list[i].messages) : list[i].messages[j] = m
    BY <2>1
  <2>3. list[i].id = id
    BY <1>7, <2>2 DEF Ordered, Paired
  <2>4. \E k \in 1..Len(f[list[i].messages]) : f[list[i].messages][k] = Reply(p, kind)
    BY <1>3, <1>7, <2>2
  <2> QED BY <1>2, <2>3, <2>4, HoldsEdited
<1> QED BY <1>5, <1>6, <1>7 DEF f

LEMMA WipeHolds ==
  ASSUME NEW list \in Conversations, NEW k \in 1..Len(list), NEW c \in Nat, NEW a \in Seq(Nat),
         Ordered(list, c, a), NEW m
  PROVE  /\ Holds(Edited(list, list[k].id, Wipe), m)
              => Holds(list, m) /\ m.prompt \notin PromptsIn(list[k].messages)
         /\ Holds(list, m) /\ m.prompt \notin PromptsIn(list[k].messages)
              => Holds(Edited(list, list[k].id, Wipe), m)
<1> DEFINE id == list[k].id
           gone == PromptsIn(list[k].messages)
<1>1. \A i \in 1..Len(list) :
        /\ list[i].messages \in Seq(Message) /\ list[i].id \in Nat
        /\ DOMAIN list[i].messages = 1..Len(list[i].messages)
  BY ListTypes
<1>2. \A i \in 1..Len(list) : Wipe[list[i].messages] = <<>> /\ Len(<<>>) = 0
  BY <1>1, EmptySeq DEF Wipe
<1>3. Holds(Edited(list, id, Wipe), m) <=>
        \E i \in 1..Len(list) : list[i].id # id /\ \E j \in 1..Len(list[i].messages) : list[i].messages[j] = m
  <2>1. \A i \in 1..Len(list) :
          ~ \E j \in 1..Len(Wipe[list[i].messages]) : Wipe[list[i].messages][j] = m
    BY <1>2
  <2>2. id \in Nat /\ Wipe \in [Seq(Message) -> Seq(Message)]
    BY <1>1, EditTypes
  <2> HIDE DEF id
  <2>3. Holds(Edited(list, id, Wipe), m) <=>
           \E i \in 1..Len(list) :
             \/ list[i].id # id /\ \E j \in 1..Len(list[i].messages) : list[i].messages[j] = m
             \/ /\ list[i].id = id
                /\ \E j \in 1..Len(Wipe[list[i].messages]) : Wipe[list[i].messages][j] = m
    BY <2>2, HoldsEdited
  <2> QED BY <2>1, <2>3
<1>4. gone = {list[k].messages[j].prompt : j \in 1..Len(list[k].messages)}
  BY <1>1 DEF PromptsIn
<1>5. ASSUME NEW i \in 1..Len(list), NEW j \in 1..Len(list[i].messages), list[i].id # id
      PROVE  list[i].messages[j].prompt \notin gone
  <2> SUFFICES ASSUME NEW l \in 1..Len(list[k].messages),
                      list[k].messages[l].prompt = list[i].messages[j].prompt
               PROVE  FALSE
    BY <1>4
  <2>1. Paired(list[i].messages, list[i].id, a) /\ Paired(list[k].messages, list[k].id, a)
    BY DEF Ordered
  <2>2. a[list[i].messages[j].prompt] = list[i].id /\ a[list[k].messages[l].prompt] = list[k].id
    BY <2>1 DEF Paired
  <2> QED BY <1>5, <2>2
<1>6. ASSUME NEW i \in 1..Len(list), list[i].id = id PROVE i = k
  BY <1>6 DEF Ordered
<1> HIDE DEF id, gone
<1>7. Holds(Edited(list, id, Wipe), m) => Holds(list, m) /\ m.prompt \notin gone
  BY <1>3, <1>5 DEF Holds
<1>8. ASSUME Holds(list, m), m.prompt \notin gone PROVE Holds(Edited(list, id, Wipe), m)
  <2>1. PICK i \in 1..Len(list) : \E j \in 1..Len(list[i].messages) : list[i].messages[j] = m
    BY <1>8 DEF Holds
  <2>2. list[i].id # id
    BY <1>4, <1>6, <1>8, <2>1
  <2> QED BY <1>3, <2>1, <2>2
<1> QED BY <1>7, <1>8 DEF id, gone

LEMMA NewHolds ==
  ASSUME NEW list \in Conversations, NEW c \in Nat, NEW a \in Seq(Nat), Ordered(list, c, a), NEW m
  PROVE  Holds(<<Session(c + 1)>> \o list, m) <=> Holds(list, m)
<1> DEFINE new == <<Session(c + 1)>> \o list
           n == Len(list)
<1>1. /\ Len(new) = n + 1 /\ new[1] = Session(c + 1) /\ \A i \in 1..n : new[i + 1] = list[i]
  BY OrderedNew
<1>2. n \in Nat
  BY ListTypes
<1>3. new[1].messages = <<>> /\ Len(<<>>) = 0
  BY <1>1, EmptySeq DEF Session
<1> HIDE DEF new
<1>4. ASSUME Holds(new, m) PROVE Holds(list, m)
  <2>1. PICK i \in 1..(n + 1) : \E j \in 1..Len(new[i].messages) : new[i].messages[j] = m
    BY <1>1, <1>4 DEF Holds
  <2>2. i # 1
    BY <1>3, <2>1
  <2>3. i - 1 \in 1..n /\ (i - 1) + 1 = i
    BY <1>2, <2>1, <2>2
  <2>4. new[i] = list[i - 1]
    BY <1>1, <2>3
  <2> QED BY <2>1, <2>3, <2>4 DEF Holds
<1>5. ASSUME Holds(list, m) PROVE Holds(new, m)
  <2>1. PICK i \in 1..n : \E j \in 1..Len(list[i].messages) : list[i].messages[j] = m
    BY <1>5 DEF Holds
  <2>2. i + 1 \in 1..(n + 1) /\ new[i + 1] = list[i]
    BY <1>1, <1>2
  <2> QED BY <1>1, <2>1, <2>2 DEF Holds
<1> QED BY <1>4, <1>5 DEF new

-----------------------------------------------------------------------------
(* ConsoleSessions: what a settled prompt and a cleared conversation leave *)

\* While a tab waits for a prompt, the prompt is its own, unsettled, and has its
\* place in the list of the tab; it is alone unless that is on record.
WaitsFor(t) ==
  awaited[t] # 0 =>
    /\ t \in Open /\ asker[awaited[t]] = t /\ fate[awaited[t]] = "none"
    /\ awaited[t] \notin shared => Open = {t}
    /\ awaited[t] \notin cleared =>
         \E m \in Message : Holds(sessions[t], m) /\ m.prompt = awaited[t] /\ m.kind # "prompt"

\* SettledPromptsAreKept for one prompt, but a prompt that met no other tab is in
\* every list there is: the next list to be written holds it too.
KeptFor(p) ==
  fate[p] \in Settled /\ p \notin cleared =>
    /\ asker[p] # NoTab => Holds(sessions[asker[p]], Reply(p, fate[p]))
    /\ p \notin shared => \A list \in Lists : Holds(list, Reply(p, fate[p]))

GoneFrom(p) == \A list \in Lists : \A m \in Message : Holds(list, m) => m.prompt # p

Saved ==
  /\ \A t \in Tabs : WaitsFor(t)
  /\ \A p \in 1..Len(asked) : KeptFor(p)
  /\ \A p \in wiped : GoneFrom(p)

\* A tab's list changes, and is persisted or not.
LEMMA ListsEdited ==
  ASSUME Consistent, NEW t \in Open, NEW new \in Conversations, new # <<>>,
         sessions' = [sessions EXCEPT ![t] = new], storage' = new \/ storage' = storage
  PROVE  /\ sessions'[t] = new /\ \A o \in Tabs \ {t} : sessions'[o] = sessions[o]
         /\ Open' = Open
         /\ sessions[t] \in Lists
         /\ \A list \in Lists' : list = new \/ list \in Lists
         /\ storage' = new /\ Open = {t} => \A list \in Lists' : list = new
<1>1. t \in Tabs /\ sessions[t] # <<>>
  BY DEF Open
<1>2. sessions'[t] = new /\ \A o \in Tabs \ {t} : sessions'[o] = sessions[o]
  BY <1>1 DEF Consistent, SessionsTyped
<1>3. Open' = Open
  BY <1>1, <1>2 DEF Open
<1>4. sessions[t] \in Lists
  BY DEF Lists
<1>5. \A list \in Lists' : list = storage' \/ \E o \in Open : list = sessions'[o]
  BY <1>3 DEF Lists
<1>6. \A o \in Open : o \in Tabs /\ (o = t \/ o \in Tabs \ {t})
  BY DEF Open
<1>7. storage \in Lists /\ \A o \in Open : sessions[o] \in Lists
  BY DEF Lists
<1>8. \A list \in Lists' : list = new \/ list \in Lists
  BY <1>2, <1>5, <1>6, <1>7
<1>9. ASSUME storage' = new, Open = {t} PROVE \A list \in Lists' : list = new
  BY <1>2, <1>5, <1>9
<1> QED BY <1>2, <1>3, <1>4, <1>8, <1>9

\* What is on record of a prompt only grows while its list is edited.
LEMMA EditKeeps ==
  ASSUME Consistent, NEW t \in Open, NEW new \in Conversations, new # <<>>,
         sessions' = [sessions EXCEPT ![t] = new], storage' = new \/ storage' = storage,
         NEW p \in 1..Len(asked), KeptFor(p), fate'[p] = fate[p], asker'[p] = asker[p],
         p \notin cleared' => p \notin cleared, p \notin shared' => p \notin shared,
         fate[p] \in Settled /\ p \notin cleared' /\ Holds(sessions[t], Reply(p, fate[p]))
           => Holds(new, Reply(p, fate[p]))
  PROVE  KeptFor(p)'
<1> SUFFICES ASSUME fate[p] \in Settled, p \notin cleared'
             PROVE  /\ asker[p] # NoTab => Holds(sessions'[asker[p]], Reply(p, fate[p]))
                    /\ p \notin shared' => \A list \in Lists' : Holds(list, Reply(p, fate[p]))
  BY DEF KeptFor, Holds, Reply
<1>1. /\ sessions'[t] = new /\ \A o \in Tabs \ {t} : sessions'[o] = sessions[o]
      /\ sessions[t] \in Lists /\ \A list \in Lists' : list = new \/ list \in Lists
  BY ListsEdited
<1>2. asker[p] \in Tabs \cup {NoTab}
  BY ElementOfSeq DEF Consistent, SessionsTyped
<1>3. /\ asker[p] # NoTab => Holds(sessions[asker[p]], Reply(p, fate[p]))
      /\ p \notin shared => \A list \in Lists : Holds(list, Reply(p, fate[p]))
  BY DEF KeptFor
<1>4. ASSUME asker[p] # NoTab PROVE Holds(sessions'[asker[p]], Reply(p, fate[p]))
  <2>1. CASE asker[p] = t
    BY <1>1, <1>3, <1>4, <2>1
  <2>2. CASE asker[p] # t
    BY <1>1, <1>2, <1>3, <1>4, <2>2
  <2> QED BY <2>1, <2>2
<1>5. ASSUME p \notin shared', NEW list \in Lists' PROVE Holds(list, Reply(p, fate[p]))
  BY <1>1, <1>3, <1>5
<1> QED BY <1>4, <1>5

\* A tab goes on waiting while another one's list is edited.
LEMMA OthersWait ==
  ASSUME Consistent, NEW t \in Open, NEW o \in Tabs \ {t}, WaitsFor(o), awaited'[o] = awaited[o],
         awaited[o] # 0 => asker'[awaited[o]] = asker[awaited[o]] /\ fate'[awaited[o]] = fate[awaited[o]],
         shared \subseteq shared', cleared \subseteq cleared', Open' = Open, sessions'[o] = sessions[o]
  PROVE  WaitsFor(o)'
BY DEF WaitsFor, Holds

LEMMA EditForgets ==
  ASSUME Consistent, NEW t \in Open, NEW new \in Conversations, new # <<>>,
         sessions' = [sessions EXCEPT ![t] = new], storage' = new \/ storage' = storage,
         NEW p, GoneFrom(p),
         \A m \in Message : Holds(new, m) /\ m.prompt = p => \E o \in Message : Holds(sessions[t], o) /\ o.prompt = p
  PROVE  GoneFrom(p)'
<1>1. sessions[t] \in Lists /\ \A list \in Lists' : list = new \/ list \in Lists
  BY ListsEdited
<1>2. \A list \in Lists' : \A m \in Message : Holds(list, m) => m.prompt # p
  BY <1>1 DEF GoneFrom
<1> QED BY <1>2 DEF GoneFrom, Holds

LEMMA SubmitSaved ==
  ASSUME Consistent, Saved, NEW t \in Tabs, SubmitPrompt(t)
  PROVE  Saved'
<1> DEFINE n == Len(asked)
           new == Edited(sessions[t], active[t], Ask(n + 1))
<1>1. /\ t \in Open /\ new \in Conversations /\ new # <<>>
      /\ sessions' = [sessions EXCEPT ![t] = new] /\ storage' = new
  <2>1. /\ new \in Conversations /\ new # <<>> /\ sessions' = [sessions EXCEPT ![t] = new]
    BY SubmitEdits
  <2> HIDE DEF new
  <2>2. t \in Open /\ storage' = sessions'[t]
    BY DEF SubmitPrompt, Persist
  <2> QED BY <2>1, <2>2 DEF Consistent, SessionsTyped
<1>2. /\ \A m : Holds(sessions[t], m) => Holds(new, m)
      /\ \A m : Holds(new, m) => Holds(sessions[t], m) \/ m.prompt = n + 1
      /\ Holds(new, Reply(n + 1, "running"))
  <2>1. n + 1 \in Nat /\ active[t] \in Nat /\ sessions[t] \in Conversations
    BY <1>1, SessionsFacts
  <2>2. \E i \in 1..Len(sessions[t]) : sessions[t][i].id = active[t]
    BY <1>1 DEF Consistent, Chosen
  <2> HIDE DEF n
  <2> QED BY <2>1, <2>2, AskHolds
<1> HIDE DEF new
<1>3. n \in Nat /\ n + 1 \notin 1..n /\ \A q \in 1..(n + 1) : q \in 1..n \/ q = n + 1
  BY SessionsFacts
<1>4. /\ Len(asked') = n + 1 /\ asker'[n + 1] = t /\ fate'[n + 1] = "none"
      /\ \A q \in 1..n : asker'[q] = asker[q] /\ fate'[q] = fate[q]
  <2>1. /\ asked \in Seq(1..MaxSessions) /\ asker \in Seq(Tabs \cup {NoTab})
        /\ fate \in Seq({"none"} \cup Settled) /\ Len(asker) = n /\ Len(fate) = n
    BY DEF Consistent, SessionsTyped
  <2>2. asked' = Append(asked, active[t]) /\ asker' = Append(asker, t) /\ fate' = Append(fate, "none")
    BY DEF SubmitPrompt
  <2>3. active[t] \in 1..MaxSessions
    <3>1. active[t] \in 1..created /\ created \in 0..MaxSessions /\ MaxSessions \in Nat
      BY <1>1, SessionsFacts DEF Consistent, SessionsTyped
    <3> QED BY <3>1
  <2>4. Len(asked') = n + 1
    BY <2>1, <2>2, <2>3, AppendProperties
  <2>5. asker'[n + 1] = t /\ \A q \in 1..n : asker'[q] = asker[q]
    BY <2>1, <2>2, AppendProperties
  <2>6. fate'[n + 1] = "none" /\ \A q \in 1..n : fate'[q] = fate[q]
    BY <2>1, <2>2, AppendProperties
  <2> QED BY <2>4, <2>5, <2>6
<1>5. /\ awaited' = [awaited EXCEPT ![t] = n + 1] /\ cleared' = cleared /\ wiped' = wiped
      /\ shared' = shared \cup (IF Open = {t} THEN {} ELSE {n + 1})
      /\ shared \subseteq 1..n /\ wiped \subseteq 1..n
  BY DEF SubmitPrompt, Consistent, SessionsTyped
<1>6. /\ sessions'[t] = new /\ \A o \in Tabs \ {t} : sessions'[o] = sessions[o]
      /\ Open' = Open
  BY <1>1, ListsEdited
<1>7. \A o \in Tabs : awaited[o] # 0 => awaited[o] \in 1..n
  BY SessionsFacts
<1> HIDE DEF n
<1>8. WaitsFor(t)'
  <2>1. awaited'[t] = n + 1
    BY <1>5 DEF Consistent, SessionsTyped
  <2>2. Reply(n + 1, "running") \in Message /\ Reply(n + 1, "running").prompt = n + 1
        /\ Reply(n + 1, "running").kind # "prompt"
    BY <1>3 DEF Reply, Message, Kinds
  <2>3. \E m \in Message : Holds(sessions'[t], m) /\ m.prompt = n + 1 /\ m.kind # "prompt"
    BY <1>2, <1>6, <2>2
  <2>4. n + 1 \notin shared' => Open = {t}
    BY <1>5
  <2> QED BY <1>1, <1>4, <1>6, <2>1, <2>3, <2>4 DEF WaitsFor, Holds
<1>9. ASSUME NEW o \in Tabs \ {t} PROVE WaitsFor(o)'
  <2>1. awaited'[o] = awaited[o] /\ shared \subseteq shared' /\ cleared \subseteq cleared'
    BY <1>5 DEF Consistent, SessionsTyped
  <2> QED BY <1>1, <1>4, <1>6, <1>7, <2>1, OthersWait DEF Saved
<1>10. ASSUME NEW q \in 1..n PROVE KeptFor(q)'
  <2>1. q \in 1..Len(asked) /\ KeptFor(q)
    BY DEF Saved, n
  <2> QED BY <1>1, <1>2, <1>4, <1>5, <2>1, EditKeeps
<1>11. ASSUME NEW q, q = n + 1 PROVE KeptFor(q)'
  <2>1. "none" \notin Settled
    BY DEF Settled
  <2> QED BY <1>4, <1>11, <2>1 DEF KeptFor
<1>12. ASSUME NEW q \in wiped PROVE GoneFrom(q)'
  <2>1. \A m \in Message : Holds(new, m) /\ m.prompt = q => \E o \in Message : Holds(sessions[t], o) /\ o.prompt = q
    BY <1>2, <1>3, <1>5
  <2>2. GoneFrom(q)
    BY DEF Saved
  <2> QED BY <1>1, <2>1, <2>2, EditForgets
<1> QED BY <1>3, <1>4, <1>5, <1>8, <1>9, <1>10, <1>11, <1>12 DEF Saved

\* The reply of the prompt that a tab waits for is written; if that settles it,
\* the list is persisted.
LEMMA WriteSaved ==
  ASSUME Consistent, Saved, NEW t \in Open, awaited[t] # 0, NEW kind \in Kinds \ {"prompt"},
         SetSessions(t, Written(sessions[t], asked[awaited[t]], awaited[t], kind)),
         UNCHANGED <<asked, asker, shared, cleared, wiped>>,
         \/ storage' = storage /\ awaited' = awaited /\ fate' = fate
         \/ /\ Persist(t) /\ kind \in Settled
            /\ fate' = [fate EXCEPT ![awaited[t]] = kind] /\ awaited' = [awaited EXCEPT ![t] = 0]
  PROVE  Saved'
<1> DEFINE p == awaited[t]
           new == Edited(sessions[t], asked[p], Write(p, kind))
<1>1. /\ new \in Conversations /\ new # <<>> /\ sessions' = [sessions EXCEPT ![t] = new]
  BY WriteEdits
<1>2. t \in Tabs /\ p \in Nat /\ p \in 1..Len(asked) /\ asked[p] \in Nat /\ sessions[t] \in Conversations
      /\ created \in Nat /\ asked \in Seq(Nat) /\ Ordered(sessions[t], created, asked)
  BY SessionsFacts DEF Consistent, InOrder
<1>3. /\ \A m : Holds(sessions[t], m) /\ m.prompt # p => Holds(new, m)
      /\ \A m : Holds(new, m) => \E o \in Message : Holds(sessions[t], o) /\ o.prompt = m.prompt
      /\ \A m : Holds(sessions[t], m) /\ m.prompt = p /\ m.kind # "prompt" => Holds(new, Reply(p, kind))
  BY <1>2, WriteHolds
<1> HIDE DEF new
<1>4. /\ sessions'[t] = new /\ \A o \in Tabs \ {t} : sessions'[o] = sessions[o]
      /\ Open' = Open /\ (storage' = new \/ storage' = storage)
      /\ storage' = new /\ Open = {t} => \A list \in Lists' : list = new
  <2>1. sessions'[t] = new
    BY <1>1, <1>2 DEF Consistent, SessionsTyped
  <2>2. storage' = new \/ storage' = storage
    BY <2>1 DEF Persist
  <2> QED BY <1>1, <2>1, <2>2, ListsEdited
<1>5. Reply(p, kind) \in Message /\ Reply(p, kind).prompt = p /\ Reply(p, kind).kind # "prompt"
  BY <1>2 DEF Reply, Message
<1>6. WaitsFor(t)
  BY <1>2 DEF Saved
<1>7. WaitsFor(t)'
  <2>1. CASE awaited'[t] = 0
    BY <2>1 DEF WaitsFor
  <2>2. CASE awaited'[t] # 0
    <3>1. awaited' = awaited /\ fate' = fate
      BY <1>2, <2>2 DEF Consistent, SessionsTyped
    <3>2. ASSUME p \notin cleared
          PROVE  \E m \in Message : Holds(sessions'[t], m) /\ m.prompt = p /\ m.kind # "prompt"
      <4>1. PICK m \in Message : Holds(sessions[t], m) /\ m.prompt = p /\ m.kind # "prompt"
        BY <1>6, <3>2 DEF WaitsFor
      <4>2. Holds(new, Reply(p, kind))
        BY <1>3, <4>1
      <4> QED BY <1>4, <1>5, <4>2
    <3> QED BY <1>4, <1>6, <3>1, <3>2 DEF WaitsFor, Holds
  <2> QED BY <2>1, <2>2
<1>8. ASSUME NEW o \in Tabs \ {t} PROVE WaitsFor(o)'
  <2>1. awaited'[o] = awaited[o] /\ WaitsFor(o)
    BY DEF Consistent, SessionsTyped, Saved
  <2>2. awaited[o] # 0 => awaited[o] # p /\ awaited[o] \in 1..Len(asked)
    BY <1>6, <2>1, SessionsFacts DEF WaitsFor
  <2>3. awaited[o] # 0 => fate'[awaited[o]] = fate[awaited[o]]
    BY <2>2, LenProperties DEF Consistent, SessionsTyped
  <2> QED BY <1>4, <2>1, <2>3, OthersWait
<1>9. ASSUME NEW q \in 1..Len(asked), q # p PROVE KeptFor(q)'
  <2>1. fate'[q] = fate[q] /\ KeptFor(q)
    BY <1>9 DEF Consistent, SessionsTyped, Saved
  <2>2. Reply(q, fate[q]).prompt = q
    BY DEF Reply
  <2> QED BY <1>1, <1>3, <1>4, <1>9, <2>1, <2>2, EditKeeps
<1>10. ASSUME NEW q, q = p PROVE KeptFor(q)'
  <2> SUFFICES ASSUME fate'[p] \in Settled, p \notin cleared
               PROVE  /\ Holds(sessions'[t], Reply(p, fate'[p]))
                      /\ p \notin shared => \A list \in Lists' : Holds(list, Reply(p, fate'[p]))
    <3>1. asker'[q] = t
      BY <1>6, <1>10 DEF WaitsFor
    <3> HIDE DEF p
    <3>2. cleared' = cleared /\ shared' = shared
      OBVIOUS
    <3> QED BY <1>10, <3>1, <3>2 DEF KeptFor, Holds, Reply
  <2>1. fate[p] = "none" /\ "none" \notin Settled
    BY <1>6 DEF WaitsFor, Settled
  <2>2. fate' # fate
    BY <2>1
  <2>3. Persist(t) /\ fate' = [fate EXCEPT ![p] = kind]
    BY <2>2
  <2>4. fate'[p] = kind
    <3>1. p \in DOMAIN fate
      BY <1>2, LenProperties DEF Consistent, SessionsTyped
    <3> QED BY <2>3, <3>1
  <2>5. Holds(new, Reply(p, kind))
    BY <1>3, <1>6 DEF WaitsFor
  <2>6. p \notin shared => \A list \in Lists' : list = new
    BY <1>4, <1>6, <2>3 DEF WaitsFor, Persist
  <2> QED BY <1>4, <2>4, <2>5, <2>6
<1>11. ASSUME NEW q \in wiped PROVE GoneFrom(q)'
  <2>1. GoneFrom(q)
    BY DEF Saved
  <2>2. \A m \in Message : Holds(new, m) /\ m.prompt = q => \E o \in Message : Holds(sessions[t], o) /\ o.prompt = q
    BY <1>3
  <2> QED BY <1>1, <1>4, <2>1, <2>2, EditForgets
<1>12. \A o \in Tabs : o = t \/ o \in Tabs \ {t}
  OBVIOUS
<1>13. Len(asked') = Len(asked) /\ wiped' = wiped
  OBVIOUS
<1> HIDE DEF p
<1> QED BY <1>7, <1>8, <1>9, <1>10, <1>11, <1>12, <1>13 DEF Saved

LEMMA ReplySaved ==
  ASSUME Consistent, Saved, NEW t \in Tabs, Receive(t) \/ \E kind \in Settled : SettlePrompt(t, kind)
  PROVE  Saved'
<1>1. CASE Receive(t)
  <2>1. "partial" \in Kinds \ {"prompt"}
    BY DEF Kinds
  <2> QED BY <1>1, <2>1, WriteSaved DEF Receive, history
<1>2. ASSUME NEW kind \in Settled, SettlePrompt(t, kind) PROVE Saved'
  <2>1. kind \in Kinds \ {"prompt"}
    BY DEF Kinds, Settled
  <2> QED BY <1>2, <2>1, WriteSaved DEF SettlePrompt
<1> QED BY <1>1, <1>2

LEMMA ClearSaved ==
  ASSUME Consistent, Saved, NEW t \in Tabs, Clear(t)
  PROVE  Saved'
<1> DEFINE new == Edited(sessions[t], active[t], Wipe)
           gone == PromptsIn(sessions[t][ActiveOf(t)].messages)
<1>1. t \in Open /\ new \in Conversations /\ new # <<>> /\ sessions' = [sessions EXCEPT ![t] = new]
  BY ClearEdits DEF Clear
<1>2. /\ \A m : Holds(new, m) => Holds(sessions[t], m) /\ m.prompt \notin gone
      /\ \A m : Holds(sessions[t], m) /\ m.prompt \notin gone => Holds(new, m)
  <2>1. ActiveOf(t) \in 1..Len(sessions[t]) /\ sessions[t][ActiveOf(t)].id = active[t]
    BY <1>1, ActiveFound
  <2>2. sessions[t] \in Conversations /\ created \in Nat /\ asked \in Seq(Nat)
        /\ Ordered(sessions[t], created, asked)
    BY SessionsFacts DEF Consistent, InOrder
  <2>3. ASSUME NEW k \in 1..Len(sessions[t]), NEW m
        PROVE  /\ Holds(Edited(sessions[t], sessions[t][k].id, Wipe), m)
                    => Holds(sessions[t], m) /\ m.prompt \notin PromptsIn(sessions[t][k].messages)
               /\ Holds(sessions[t], m) /\ m.prompt \notin PromptsIn(sessions[t][k].messages)
                    => Holds(Edited(sessions[t], sessions[t][k].id, Wipe), m)
    BY <2>2, WipeHolds
  <2> QED BY <2>1, <2>3
<1>3. /\ storage' = sessions'[t] /\ cleared' = cleared \cup gone
      /\ wiped' = IF Open = {t} THEN wiped \cup gone ELSE wiped
      /\ UNCHANGED <<active, awaited, created, asked, asker, fate, shared>>
  BY DEF Clear, Persist
<1> HIDE DEF new, gone
<1>4. /\ storage' = new /\ sessions'[t] = new /\ \A o \in Tabs \ {t} : sessions'[o] = sessions[o]
      /\ Open' = Open /\ (Open = {t} => \A list \in Lists' : list = new)
  <2>1. sessions'[t] = new
    BY <1>1 DEF Consistent, SessionsTyped
  <2> QED BY <1>1, <1>3, <2>1, ListsEdited
<1>5. WaitsFor(t)'
  <2> SUFFICES ASSUME awaited[t] # 0
               PROVE  /\ t \in Open /\ asker[awaited[t]] = t /\ fate[awaited[t]] = "none"
                      /\ awaited[t] \notin shared => Open = {t}
                      /\ awaited[t] \notin cleared' =>
                           \E m \in Message : Holds(sessions'[t], m) /\ m.prompt = awaited[t] /\ m.kind # "prompt"
    BY <1>3, <1>4 DEF WaitsFor, Holds
  <2>1. WaitsFor(t)
    BY DEF Saved
  <2>2. ASSUME awaited[t] \notin cleared'
        PROVE  \E m \in Message : Holds(sessions'[t], m) /\ m.prompt = awaited[t] /\ m.kind # "prompt"
    <3>1. awaited[t] \notin cleared /\ awaited[t] \notin gone
      BY <1>3, <2>2
    <3>2. PICK m \in Message : Holds(sessions[t], m) /\ m.prompt = awaited[t] /\ m.kind # "prompt"
      BY <2>1, <3>1 DEF WaitsFor
    <3>3. Holds(new, m)
      BY <1>2, <3>1, <3>2
    <3> QED BY <1>4, <3>2, <3>3
  <2> QED BY <2>1, <2>2 DEF WaitsFor
<1>6. ASSUME NEW o \in Tabs \ {t} PROVE WaitsFor(o)'
  <2>1. WaitsFor(o) /\ cleared \subseteq cleared'
    BY <1>3 DEF Saved
  <2> QED BY <1>1, <1>3, <1>4, <2>1, OthersWait
<1>7. ASSUME NEW q \in 1..Len(asked) PROVE KeptFor(q)'
  <2>1. KeptFor(q) /\ Reply(q, fate[q]).prompt = q
    BY DEF Saved, Reply
  <2>2. q \notin cleared' => q \notin cleared /\ q \notin gone
    BY <1>3
  <2>3. fate[q] \in Settled /\ q \notin cleared' /\ Holds(sessions[t], Reply(q, fate[q]))
          => Holds(new, Reply(q, fate[q]))
    BY <1>2, <2>1, <2>2
  <2> QED BY <1>1, <1>3, <1>4, <2>1, <2>2, <2>3, EditKeeps
<1>8. ASSUME NEW q \in wiped' PROVE GoneFrom(q)'
  <2>1. CASE q \in wiped
    <3>1. GoneFrom(q)
      BY <2>1 DEF Saved
    <3>2. \A m \in Message : Holds(new, m) /\ m.prompt = q => \E o \in Message : Holds(sessions[t], o) /\ o.prompt = q
      BY <1>2
    <3> QED BY <1>1, <1>4, <3>1, <3>2, EditForgets
  <2>2. CASE q \notin wiped
    <3>1. q \in gone /\ \A list \in Lists' : list = new
      BY <1>3, <1>4, <2>2
    <3>2. \A m \in Message : Holds(new, m) => m.prompt # q
      BY <1>2, <3>1
    <3>3. \A list \in Lists' : \A m \in Message : Holds(list, m) => m.prompt # q
      BY <3>1, <3>2
    <3> QED BY <3>3 DEF GoneFrom, Holds
  <2> QED BY <2>1, <2>2
<1>9. \A o \in Tabs : o = t \/ o \in Tabs \ {t}
  OBVIOUS
<1> QED BY <1>3, <1>5, <1>6, <1>7, <1>8, <1>9 DEF Saved

LEMMA NewSaved ==
  ASSUME Consistent, Saved, NEW t \in Tabs, NewConversation(t)
  PROVE  Saved'
<1> DEFINE new == <<Session(created + 1)>> \o sessions[t]
<1>1. /\ t \in Open /\ created \in Nat /\ sessions[t] \in Conversations /\ asked \in Seq(Nat)
      /\ Ordered(sessions[t], created, asked)
  BY SessionsFacts DEF NewConversation, Consistent, InOrder
<1>2. new \in Conversations /\ Len(new) = Len(sessions[t]) + 1
  BY <1>1, OrderedNew
<1>3. \A m : Holds(new, m) <=> Holds(sessions[t], m)
  BY <1>1, NewHolds
<1>4. /\ sessions' = [sessions EXCEPT ![t] = new] /\ storage' = sessions'[t]
      /\ UNCHANGED <<awaited, asked, asker, fate, shared, cleared, wiped>>
  BY DEF NewConversation, SetSessions, Persist, history
<1> HIDE DEF new
<1>5. new # <<>>
  <2>1. Len(sessions[t]) \in Nat
    BY <1>1, ListTypes
  <2>2. Len(new) # 0
    BY <1>2, <2>1
  <2> QED BY <2>2, EmptySeq
<1>6. /\ storage' = new /\ sessions'[t] = new /\ \A o \in Tabs \ {t} : sessions'[o] = sessions[o]
      /\ Open' = Open
  <2>1. sessions'[t] = new
    BY <1>4 DEF Consistent, SessionsTyped
  <2> QED BY <1>1, <1>2, <1>4, <1>5, <2>1, ListsEdited
<1>7. WaitsFor(t)'
  <2>1. WaitsFor(t)
    BY DEF Saved
  <2>2. \A m : Holds(sessions[t], m) => Holds(sessions'[t], m)
    BY <1>3, <1>6
  <2> QED BY <1>4, <1>6, <2>1, <2>2 DEF WaitsFor, Holds
<1>8. ASSUME NEW o \in Tabs \ {t} PROVE WaitsFor(o)'
  BY <1>1, <1>4, <1>6, OthersWait DEF Saved
<1>9. ASSUME NEW q \in 1..Len(asked) PROVE KeptFor(q)'
  <2>1. KeptFor(q)
    BY DEF Saved
  <2> QED BY <1>1, <1>2, <1>3, <1>4, <1>5, <1>6, <2>1, EditKeeps
<1>10. ASSUME NEW q \in wiped PROVE GoneFrom(q)'
  <2>1. GoneFrom(q)
    BY DEF Saved
  <2> QED BY <1>1, <1>2, <1>3, <1>4, <1>5, <1>6, <2>1, EditForgets
<1>11. \A o \in Tabs : o = t \/ o \in Tabs \ {t}
  OBVIOUS
<1> QED BY <1>4, <1>7, <1>8, <1>9, <1>10, <1>11 DEF Saved

\* A tab that opens shows what is stored, or a conversation without messages; of
\* the prompts that other tabs wait for, it is on record that they are not alone.
LEMMA OpenTabSaved ==
  ASSUME Consistent, Saved, NEW t \in Tabs, OpenTab(t)
  PROVE  Saved'
<1>1. PICK list \in Conversations :
        /\ sessions' = [sessions EXCEPT ![t] = list] /\ list # <<>>
        /\ list = storage \/ (storage = <<>> /\ list = <<Session(created + 1)>>)
  BY OpenTabLoads
<1>2. /\ t \notin Open /\ UNCHANGED <<storage, awaited, asked, asker, fate, cleared, wiped>>
      /\ shared' = shared \cup {awaited[o] : o \in {o \in Open : awaited[o] # 0}}
  BY DEF OpenTab
<1>3. /\ sessions'[t] = list /\ (\A o \in Tabs \ {t} : sessions'[o] = sessions[o])
      /\ sessions[t] = <<>> /\ storage \in Lists
      /\ \A o \in Tabs \ {t} : o \in Open' <=> o \in Open
  BY <1>1, <1>2 DEF Consistent, SessionsTyped, Open, Lists
<1>4. \A l \in Lists' : l = list \/ l \in Lists
  <2> SUFFICES ASSUME NEW l \in Lists', l # list PROVE l \in Lists
    OBVIOUS
  <2>1. l = storage \/ \E o \in Open' : l = sessions'[o]
    BY <1>2 DEF Lists
  <2>2. ASSUME NEW o \in Open', l = sessions'[o] PROVE l \in Lists
    <3>1. o \in Tabs \ {t}
      BY <1>3, <2>2 DEF Open
    <3> QED BY <1>3, <2>2, <3>1 DEF Lists
  <2> QED BY <1>3, <2>1, <2>2
<1>5. /\ \A m : ~Holds(<<>>, m)
      /\ \A m : Holds(list, m) => Holds(storage, m)
      /\ \A m : Holds(storage, m) => Holds(list, m)
  <2>1. \A m : ~Holds(<<>>, m)
    BY EmptySeq DEF Holds
  <2>2. ASSUME list = <<Session(created + 1)>>, NEW m PROVE ~Holds(list, m)
    <3>1. Len(list) = 1 /\ list[1] = Session(created + 1)
      BY <2>2
    <3>2. list[1].messages = <<>> /\ Len(<<>>) = 0
      BY <3>1, EmptySeq DEF Session
    <3> QED BY <3>1, <3>2 DEF Holds
  <2> QED BY <1>1, <2>1, <2>2
<1>6. WaitsFor(t)'
  <2>1. awaited[t] = 0
    BY <1>2 DEF Saved, WaitsFor
  <2> QED BY <1>2, <2>1 DEF WaitsFor
<1>7. ASSUME NEW o \in Tabs \ {t} PROVE WaitsFor(o)'
  <2>1. WaitsFor(o)
    BY DEF Saved
  <2>2. awaited[o] # 0 => o \in Open' /\ awaited[o] \in shared'
    BY <1>2, <1>3, <2>1 DEF WaitsFor
  <2> QED BY <1>2, <1>3, <2>1, <2>2 DEF WaitsFor, Holds
<1>8. ASSUME NEW q \in 1..Len(asked) PROVE KeptFor(q)'
  <2> SUFFICES ASSUME fate[q] \in Settled, q \notin cleared
               PROVE  /\ asker[q] # NoTab => Holds(sessions'[asker[q]], Reply(q, fate[q]))
                      /\ q \notin shared' => \A l \in Lists' : Holds(l, Reply(q, fate[q]))
    BY <1>2 DEF KeptFor, Holds, Reply
  <2>1. /\ asker[q] # NoTab => Holds(sessions[asker[q]], Reply(q, fate[q]))
        /\ q \notin shared => \A l \in Lists : Holds(l, Reply(q, fate[q]))
    BY DEF Saved, KeptFor
  <2>2. asker[q] \in Tabs \cup {NoTab}
    BY ElementOfSeq DEF Consistent, SessionsTyped
  <2>3. asker[q] # NoTab => asker[q] # t
    BY <1>3, <1>5, <2>1
  <2>4. asker[q] # NoTab => Holds(sessions'[asker[q]], Reply(q, fate[q]))
    BY <1>3, <2>1, <2>2, <2>3
  <2>5. q \notin shared' => \A l \in Lists' : Holds(l, Reply(q, fate[q]))
    BY <1>2, <1>3, <1>4, <1>5, <2>1
  <2> QED BY <2>4, <2>5
<1>9. ASSUME NEW q \in wiped PROVE GoneFrom(q)'
  <2>1. \A l \in Lists : \A m \in Message : Holds(l, m) => m.prompt # q
    BY DEF Saved, GoneFrom
  <2>2. \A l \in Lists' : \A m \in Message : Holds(l, m) => m.prompt # q
    BY <1>3, <1>4, <1>5, <2>1
  <2> QED BY <2>2 DEF GoneFrom, Holds
<1>10. \A o \in Tabs : o = t \/ o \in Tabs \ {t}
  OBVIOUS
<1> QED BY <1>2, <1>6, <1>7, <1>8, <1>9, <1>10 DEF Saved

LEMMA CloseTabSaved ==
  ASSUME Consistent, Saved, NEW t \in Tabs, CloseTab(t)
  PROVE  Saved'
<1>1. /\ t \in Open /\ sessions' = [sessions EXCEPT ![t] = <<>>]
      /\ awaited' = [awaited EXCEPT ![t] = 0]
      /\ UNCHANGED <<storage, created, asked, fate, shared, cleared, wiped>>
  BY DEF CloseTab, SetSessions
<1>2. \A q \in 1..Len(asked) : asker'[q] = IF asker[q] = t THEN NoTab ELSE asker[q]
  BY SessionsFacts DEF CloseTab
<1>3. /\ sessions'[t] = <<>> /\ (\A o \in Tabs \ {t} : sessions'[o] = sessions[o])
      /\ awaited'[t] = 0 /\ \A o \in Tabs \ {t} : awaited'[o] = awaited[o]
  BY <1>1 DEF Consistent, SessionsTyped
<1>4. /\ \A o \in Tabs \ {t} : o \in Open' <=> o \in Open
      /\ \A o \in Open' : o \in Tabs \ {t}
  BY <1>3 DEF Open
<1>5. \A list \in Lists' : list \in Lists
  BY <1>1, <1>3, <1>4 DEF Lists
<1>6. WaitsFor(t)'
  BY <1>3 DEF WaitsFor
<1>7. ASSUME NEW o \in Tabs \ {t} PROVE WaitsFor(o)'
  <2>1. WaitsFor(o) /\ (awaited[o] # 0 => awaited[o] \in 1..Len(asked))
    BY SessionsFacts DEF Saved
  <2>2. awaited[o] # 0 => awaited[o] \in shared
    BY <1>1, <2>1 DEF WaitsFor
  <2>3. awaited[o] # 0 => asker'[awaited[o]] = o
    BY <1>2, <2>1 DEF WaitsFor
  <2> QED BY <1>1, <1>3, <1>4, <2>1, <2>2, <2>3 DEF WaitsFor, Holds
<1>8. ASSUME NEW q \in 1..Len(asked) PROVE KeptFor(q)'
  <2> SUFFICES ASSUME fate[q] \in Settled, q \notin cleared
               PROVE  /\ asker'[q] # NoTab => Holds(sessions'[asker'[q]], Reply(q, fate[q]))
                      /\ q \notin shared => \A list \in Lists' : Holds(list, Reply(q, fate[q]))
    BY <1>1 DEF KeptFor, Holds, Reply
  <2>1. /\ asker[q] # NoTab => Holds(sessions[asker[q]], Reply(q, fate[q]))
        /\ q \notin shared => \A list \in Lists : Holds(list, Reply(q, fate[q]))
    BY DEF Saved, KeptFor
  <2>2. asker[q] \in Tabs \cup {NoTab}
    BY ElementOfSeq DEF Consistent, SessionsTyped
  <2>3. asker'[q] # NoTab => asker'[q] = asker[q] /\ asker[q] # t
    BY <1>2
  <2>4. asker'[q] # NoTab => Holds(sessions'[asker'[q]], Reply(q, fate[q]))
    BY <1>3, <2>1, <2>2, <2>3
  <2> QED BY <1>5, <2>1, <2>4
<1>9. ASSUME NEW q \in wiped PROVE GoneFrom(q)'
  <2>1. \A list \in Lists' : \A m \in Message : Holds(list, m) => m.prompt # q
    BY <1>5 DEF Saved, GoneFrom
  <2> QED BY <2>1 DEF GoneFrom, Holds
<1>10. \A o \in Tabs : o = t \/ o \in Tabs \ {t}
  OBVIOUS
<1> QED BY <1>1, <1>6, <1>7, <1>8, <1>9, <1>10 DEF Saved

LEMMA SavedStep == Consistent /\ Saved /\ [SessionsNext]_sessionsVars => Saved'
<1> SUFFICES ASSUME Consistent, Saved, [SessionsNext]_sessionsVars PROVE Saved'
  OBVIOUS
<1>1. ASSUME UNCHANGED <<storage, sessions, awaited, asked, asker, fate, shared, cleared, wiped>>
      PROVE  Saved'
  <2>1. Open' = Open /\ Lists' = Lists
    BY <1>1 DEF Open, Lists
  <2>2. ASSUME NEW t \in Tabs PROVE WaitsFor(t)'
    BY <1>1, <2>1 DEF Saved, WaitsFor, Holds
  <2>3. ASSUME NEW q \in 1..Len(asked) PROVE KeptFor(q)'
    BY <1>1, <2>1 DEF Saved, KeptFor, Holds, Reply
  <2>4. ASSUME NEW q \in wiped PROVE GoneFrom(q)'
    BY <1>1, <2>1 DEF Saved, GoneFrom, Holds
  <2> QED BY <1>1, <2>2, <2>3, <2>4 DEF Saved
<1>2. CASE UNCHANGED sessionsVars
  BY <1>1, <1>2 DEF sessionsVars
<1>3. CASE SessionsNext
  <2>1. PICK t \in Tabs :
          \/ OpenTab(t) \/ CloseTab(t) \/ NewConversation(t) \/ SubmitPrompt(t) \/ Receive(t) \/ Clear(t)
          \/ \E id \in 1..MaxSessions : SwitchTo(t, id)
          \/ \E kind \in Settled : SettlePrompt(t, kind)
    BY <1>3 DEF SessionsNext
  <2>2. ASSUME NEW id \in 1..MaxSessions, SwitchTo(t, id) PROVE Saved'
    BY <1>1, <2>2 DEF SwitchTo, history
  <2> QED BY <2>1, <2>2, OpenTabSaved, CloseTabSaved, NewSaved, SubmitSaved, ReplySaved, ClearSaved
<1> QED BY <1>2, <1>3

LEMMA SavedInit == SessionsInit => Saved
<1> SUFFICES ASSUME SessionsInit PROVE Saved
  OBVIOUS
<1>1. Len(asked) = 0 /\ wiped = {}
  BY EmptySeq DEF SessionsInit
<1>2. \A t \in Tabs : awaited[t] = 0
  BY DEF SessionsInit
<1> QED BY <1>1, <1>2 DEF Saved, WaitsFor

\* A prompt that was settled shows so in the tab it was sent from and, unless
\* another tab was open while it was sent or waited for, in what a reload finds,
\* until its conversation is cleared: no other edit of the list undoes it.
THEOREM SettledAreKept == SessionsSpec => []SettledPromptsAreKept
<1>1. Consistent /\ Saved => SettledPromptsAreKept
  <2> SUFFICES ASSUME Consistent, Saved, NEW p \in Asked, fate[p] \in Settled, p \notin cleared
               PROVE  /\ asker[p] # NoTab => Reply(p, fate[p]) \in Messages(sessions[asker[p]])
                      /\ p \notin shared => Reply(p, fate[p]) \in Messages(storage)
    BY DEF SettledPromptsAreKept
  <2>1. /\ asker[p] # NoTab => Holds(sessions[asker[p]], Reply(p, fate[p]))
        /\ p \notin shared => \A list \in Lists : Holds(list, Reply(p, fate[p]))
    BY SessionsFacts DEF Saved, KeptFor
  <2>2. asker[p] \in Tabs \cup {NoTab}
    BY SessionsFacts, ElementOfSeq DEF Consistent, SessionsTyped
  <2>3. storage \in Lists /\ storage \in Conversations
    BY DEF Lists, Consistent, SessionsTyped
  <2> QED BY <2>1, <2>2, <2>3, HoldsMessages, SessionsFacts
<1> QED BY <1>1, ConsistentInit, ConsistentStep, SavedInit, SavedStep, PTL DEF SessionsSpec

\* What was cleared in the only open tab is in no list again, not even the reply
\* that was under way, whatever is written later and whichever tabs are opened.
THEOREM ClearedStays == SessionsSpec => []ClearedStaysCleared
<1>1. Consistent /\ Saved => ClearedStaysCleared
  <2> SUFFICES ASSUME Consistent, Saved, NEW p \in wiped, NEW list \in Lists, NEW m \in Messages(list)
               PROVE  m.prompt # p
    BY DEF ClearedStaysCleared
  <2>1. list \in Conversations
    BY ListsOrdered
  <2>2. Holds(list, m)
    BY <2>1, HoldsMessages
  <2>3. m \in Message
    BY <2>1, <2>2, HoldsTypes
  <2> QED BY <2>2, <2>3 DEF Saved, GoneFrom
<1> QED BY <1>1, ConsistentInit, ConsistentStep, SavedInit, SavedStep, PTL DEF SessionsSpec
==============================================================================
