---------------------------- MODULE CompletionStream ----------------------------
(***************************************************************************)
(* One conversation of the web console (app.js) with /v1/mythos/stream:    *)
(* the task that serves a prompt, from the coda on, the events it has sent *)
(* and the console has not read, and the message that the console shows.   *)
(* The answer is streamed before the safety gate has seen it; the gate may *)
(* withhold or revise it, and the console then replaces what it shows.     *)
(*                                                                         *)
(* A text is a sequence of pieces; a policy term is a piece.  Status       *)
(* events only feed the activity list and are left out.                    *)
(*                                                                         *)
(* The thread's memory is one snapshot: a task reads it when it starts and *)
(* overwrites it when it ends, and the task of a prompt whose connection   *)
(* broke may still be at work beside the next.  A session store behind a   *)
(* network may apply a put whose acknowledgement is lost; the put is then  *)
(* repeated, or raises although it was applied.                            *)
(***************************************************************************)
EXTENDS Naturals, Sequences, Functions, FiniteSetsExt

CONSTANTS
  Prompts,      \* 1..n: the prompts of the conversation, in order
  Pieces,       \* what a streamed token may be; "blank" is white space
  MaxTokens,    \* bound: how many tokens the coda streams
  MaxAttempts,  \* settings.retry_max_attempts
  Policies,     \* what policy_store.load may return
  Revisions     \* what the model may return when it is asked to revise an answer

ASSUME StreamAssumption ==
  /\ Prompts \subseteq Nat \ {0}
  /\ MaxTokens \in Nat /\ MaxAttempts \in Nat \ {0}
  /\ Policies \subseteq [blocked : SUBSET Pieces, revise : SUBSET Pieces]
  /\ Revisions \subseteq Seq(Pieces)

VARIABLES
  remote,    \* the session store is PostgresSessionStore
  task,      \* where the task serving a prompt is
  prior,     \* the prompts in the snapshot that sessions.get returned to it
  raw,       \* the tokens the coda has streamed, joined
  answer,    \* runtime.final_answer
  logged,    \* the final answers in the trajectory store
  stored,    \* the prompts in the thread's stored snapshot
  attempt,   \* the attempt of sessions.put the task is in
  beside,    \* for each prompt, those whose tasks were at work when it was sent
  wire,      \* the events sent and not read
  pending,   \* the prompt state.pending stands for, 0 if none
  shown,     \* placeholder.content
  started,   \* tokenStarted
  payload,   \* finalPayload: the answers received
  error,     \* streamError is set
  outcome    \* how submitPrompt ended

server == <<remote, task, prior, raw, answer, logged, stored, attempt, beside>>
console == <<pending, shown, started, payload, error, outcome>>
vars == <<server, wire, console>>

Texts == Seq(Pieces)
None == <<"none">>              \* finalPayload === null, nothing logged
Running == <<"running">>        \* "Running Mythos orchestration..."
Failed == <<"failed">>          \* "Request failed. ..."
NoAnswer == <<"no answer">>     \* "No answer returned."
Withheld == <<"withheld">>      \* "Response withheld due to policy constraints."

Token(x) == [kind |-> "token", text |-> <<x>>]
Replace(t) == [kind |-> "replace", text |-> t]
Final(t) == [kind |-> "final", text |-> t]
Error == [kind |-> "error", text |-> <<>>]
Done == [kind |-> "done", text |-> <<>>]

\* str.strip
Strip(t) ==
  LET solid == {i \in DOMAIN t : t[i] # "blank"}
  IN  IF solid = {} THEN <<>> ELSE SubSeq(t, Min(solid), Max(solid))

\* A prompt whose connection is gone is no longer the pending one.
Connected(p) == pending = p

\* Whatever is sent to a console that has gone is lost.
Send(p, events) ==
  wire' = IF Connected(p) THEN [wire EXCEPT ![p] = @ \o events] ELSE wire

Goto(p, where) == task' = [task EXCEPT ![p] = where]

Busy(p) == task[p] \notin {"new", "ended"}

-----------------------------------------------------------------------------
(* The server: complete_stream and event_stream *)

GetNothing(p) ==   \* mutant: the snapshot that was found is not taken over
  /\ task[p] = "get"
  /\ Goto(p, "coda")
  /\ UNCHANGED <<remote, prior, raw, answer, logged, stored, attempt, beside, wire, console>>

\* sessions.get returns a copy; what comes before the coda works on it.
Get(p) ==
  /\ task[p] = "get"
  /\ Goto(p, "coda")
  /\ prior' = [prior EXCEPT ![p] = stored]
  /\ UNCHANGED <<remote, raw, answer, logged, stored, attempt, beside, wire, console>>

StreamToken(p) ==
  /\ task[p] = "coda" /\ Len(raw[p]) < MaxTokens
  /\ \E x \in Pieces :
       /\ raw' = [raw EXCEPT ![p] = Append(@, x)]
       /\ Send(p, <<Token(x)>>)
  /\ UNCHANGED <<remote, task, prior, answer, logged, stored, attempt, beside, console>>

CodaDone(p) ==
  /\ task[p] = "coda"
  /\ Goto(p, "gate")
  /\ answer' = [answer EXCEPT ![p] = Strip(raw[p])]
  /\ UNCHANGED <<remote, prior, raw, logged, stored, attempt, beside, wire, console>>

\* What SafetyGate.apply may make of an answer.
Gated(t, policy) ==
  IF Range(t) \cap policy.blocked # {} THEN {Withheld}
  ELSE IF Range(t) \cap policy.revise # {} THEN Revisions
  ELSE {t}

GateSilent(p) ==   \* mutant: no replace event
  /\ task[p] = "gate"
  /\ Goto(p, "log")
  /\ \E policy \in Policies : \E t \in Gated(answer[p], policy) :
       answer' = [answer EXCEPT ![p] = t]
  /\ UNCHANGED <<remote, prior, raw, logged, stored, attempt, beside, wire, console>>

Gate(p) ==
  /\ task[p] = "gate"
  /\ Goto(p, "log")
  /\ \E policy \in Policies : \E t \in Gated(answer[p], policy) :
       /\ answer' = [answer EXCEPT ![p] = t]
       /\ Send(p, IF t = answer[p] THEN <<>> ELSE <<Replace(t)>>)
  /\ UNCHANGED <<remote, prior, raw, logged, stored, attempt, beside, console>>

Log(p) ==
  /\ task[p] = "log"
  /\ Goto(p, "put")
  /\ logged' = [logged EXCEPT ![p] = answer[p]]
  /\ UNCHANGED <<remote, prior, raw, answer, stored, attempt, beside, wire, console>>

\* The whole snapshot is overwritten with the task's own.
Put(p) ==
  /\ task[p] = "put"
  /\ Goto(p, "final")
  /\ stored' = prior[p] \cup {p}
  /\ UNCHANGED <<remote, prior, raw, answer, logged, attempt, beside, wire, console>>

\* The acknowledgement of a put is lost and retry_async repeats it.  (An attempt
\* that was not applied, and is repeated, changes nothing.)
PutAgain(p) ==
  /\ remote /\ task[p] = "final" /\ attempt[p] < MaxAttempts
  /\ Goto(p, "put")
  /\ attempt' = [attempt EXCEPT ![p] = @ + 1]
  /\ UNCHANGED <<remote, prior, raw, answer, logged, stored, beside, wire, console>>

Finish(p) ==
  /\ task[p] = "final"
  /\ Goto(p, "ended")
  /\ Send(p, <<Final(answer[p]), Done>>)
  /\ UNCHANGED <<remote, prior, raw, answer, logged, stored, attempt, beside, console>>

WorkingToTheEnd ==   \* mutant: an exception after the put is reported as an error
  {"get", "coda", "gate", "log", "put", "final"}

Working == {"get", "coda", "gate", "log", "put"}

\* An await raises, the last one perhaps after the put was applied, and
\* event_stream turns the exception into an event.
Fail(p) ==
  /\ task[p] \in Working \/ (remote /\ task[p] = "final")
  /\ Goto(p, "ended")
  /\ Send(p, <<Error, Done>>)
  /\ UNCHANGED <<remote, prior, raw, answer, logged, stored, attempt, beside, console>>

\* The server notices that the console has gone: CancelledError passes by
\* event_stream's except clause.
Cancel(p) ==
  /\ task[p] \in Working \cup {"final"} /\ ~Connected(p)
  /\ Goto(p, "ended")
  /\ UNCHANGED <<remote, prior, raw, answer, logged, stored, attempt, beside, wire, console>>

-----------------------------------------------------------------------------
(* The console: submitPrompt and streamCompletion *)

SubmitUnguarded(p) ==   \* mutant: state.pending is not looked at
  /\ \A o \in Prompts : o < p => task[o] # "new"
  /\ task[p] = "new"
  /\ pending' = p
  /\ shown' = [shown EXCEPT ![p] = Running]
  /\ Goto(p, "get")
  /\ beside' = [beside EXCEPT ![p] = {o \in Prompts : Busy(o)}]
  /\ UNCHANGED <<remote, prior, raw, answer, logged, stored, attempt, wire, started, payload,
                 error, outcome>>

Submit(p) ==
  /\ pending = 0
  /\ \A o \in Prompts : o < p => task[o] # "new"
  /\ task[p] = "new"
  /\ pending' = p
  /\ shown' = [shown EXCEPT ![p] = Running]
  /\ Goto(p, "get")
  /\ beside' = [beside EXCEPT ![p] = {o \in Prompts : Busy(o)}]
  /\ UNCHANGED <<remote, prior, raw, answer, logged, stored, attempt, wire, started, payload,
                 error, outcome>>

\* onEvent
ShownAfter(p, event) ==
  CASE event.kind = "token" -> IF started[p] THEN shown[p] \o event.text ELSE event.text
    [] event.kind = "replace" /\ event.text # <<>> -> event.text
    [] OTHER -> shown[p]

ReadFallback(p) ==   \* mutant: an empty answer falls back to what is shown, as in replace
  /\ Connected(p) /\ wire[p] # <<>>
  /\ LET event == Head(wire[p])
     IN  /\ shown' = [shown EXCEPT ![p] = ShownAfter(p, event)]
         /\ started' = [started EXCEPT ![p] = @ \/ event.kind = "token"]
         /\ payload' = IF event.kind = "final"
                       THEN [payload EXCEPT ![p] = IF event.text = <<>> THEN shown[p] ELSE event.text]
                       ELSE payload
         /\ error' = [error EXCEPT ![p] = @ \/ event.kind = "error"]
  /\ wire' = [wire EXCEPT ![p] = Tail(@)]
  /\ UNCHANGED <<server, pending, outcome>>

Read(p) ==
  /\ Connected(p) /\ wire[p] # <<>>
  /\ LET event == Head(wire[p])
     IN  /\ shown' = [shown EXCEPT ![p] = ShownAfter(p, event)]
         /\ started' = [started EXCEPT ![p] = @ \/ event.kind = "token"]
         /\ payload' = IF event.kind = "final" THEN [payload EXCEPT ![p] = event.text]
                       ELSE payload
         /\ error' = [error EXCEPT ![p] = @ \/ event.kind = "error"]
  /\ wire' = [wire EXCEPT ![p] = Tail(@)]
  /\ UNCHANGED <<server, pending, outcome>>

SettleFails(p) ==
  /\ pending' = 0
  /\ shown' = [shown EXCEPT ![p] = Failed]
  /\ outcome' = [outcome EXCEPT ![p] = "failed"]
  /\ UNCHANGED <<server, started, payload, error>>

SettleAnswered(p) ==
  /\ pending' = 0
  /\ shown' = [shown EXCEPT ![p] = IF payload[p] = <<>> THEN NoAnswer ELSE payload[p]]
  /\ outcome' = [outcome EXCEPT ![p] = "answered"]
  /\ UNCHANGED <<server, started, payload, error>>

\* reader.read reports the end of the stream.
Settle(p) ==
  /\ Connected(p) /\ task[p] = "ended" /\ wire[p] = <<>>
  /\ IF error[p] \/ payload[p] = None THEN SettleFails(p) ELSE SettleAnswered(p)
  /\ UNCHANGED wire

\* The request is refused or the connection breaks: fetch or reader.read rejects
\* and what was under way is lost.  The next prompt may be sent although the
\* server's task may not have noticed yet.
Lose(p) ==
  /\ Connected(p)
  /\ SettleFails(p)
  /\ wire' = [wire EXCEPT ![p] = <<>>]

-----------------------------------------------------------------------------
Init ==
  /\ remote \in BOOLEAN
  /\ task = [p \in Prompts |-> "new"]
  /\ prior = [p \in Prompts |-> {}]
  /\ raw = [p \in Prompts |-> <<>>]
  /\ answer = [p \in Prompts |-> <<>>]
  /\ logged = [p \in Prompts |-> None]
  /\ stored = {}
  /\ attempt = [p \in Prompts |-> 1]
  /\ beside = [p \in Prompts |-> {}]
  /\ wire = [p \in Prompts |-> <<>>]
  /\ pending = 0
  /\ shown = [p \in Prompts |-> <<>>]
  /\ started = [p \in Prompts |-> FALSE]
  /\ payload = [p \in Prompts |-> None]
  /\ error = [p \in Prompts |-> FALSE]
  /\ outcome = [p \in Prompts |-> "none"]

Serve(p) ==
  \/ Get(p) \/ StreamToken(p) \/ CodaDone(p) \/ Gate(p) \/ Log(p) \/ Put(p)
  \/ PutAgain(p) \/ Finish(p) \/ Fail(p)

Next == \E p \in Prompts :
  Submit(p) \/ Serve(p) \/ Cancel(p) \/ Read(p) \/ Settle(p) \/ Lose(p)

Spec == Init /\ [][Next]_vars

\* Every await of the server is assumed to end: HTTP calls have a timeout and
\* attempts are bounded, but for Postgres and Redis the code sets no limit and
\* they must answer or drop the connection.  The console reads what arrives.
FairSpec == Spec /\ \A p \in Prompts : WF_vars(Serve(p)) /\ WF_vars(Read(p) \/ Settle(p))

-----------------------------------------------------------------------------
(* Properties *)

TypeOK ==
  /\ remote \in BOOLEAN
  /\ task \in [Prompts -> Working \cup {"new", "final", "ended"}]
  /\ prior \in [Prompts -> SUBSET Prompts] /\ beside \in [Prompts -> SUBSET Prompts]
  /\ attempt \in [Prompts -> 1..MaxAttempts]
  /\ raw \in [Prompts -> Texts]
  /\ answer \in [Prompts -> Texts \cup {Withheld}]
  /\ logged \in [Prompts -> Texts \cup {Withheld, None}]
  /\ stored \subseteq Prompts
  /\ wire \in [Prompts -> Seq([kind : {"token", "replace", "final", "error", "done"},
                               text : Texts \cup {Withheld}])]
  /\ pending \in Prompts \cup {0}
  /\ shown \in [Prompts -> Seq(Pieces \cup {"running", "failed", "no answer", "withheld"})]
  /\ started \in [Prompts -> BOOLEAN]
  /\ payload \in [Prompts -> Texts \cup {Withheld, None}]
  /\ error \in [Prompts -> BOOLEAN]
  /\ outcome \in [Prompts -> {"none", "answered", "failed"}]

\* A prompt that the console shows as answered shows the answer that is in the
\* trajectory store.  The thread's memory holds it from then on, unless the task of
\* an earlier prompt, whose connection had broken, was still at work when it was
\* sent: such a task may overwrite the memory with a snapshot that lacks it.
AnsweredIsOnRecord ==
  \A p \in Prompts : outcome[p] = "answered" =>
    /\ beside[p] = {} => p \in stored
    /\ shown[p] = IF logged[p] = <<>> THEN NoAnswer ELSE logged[p]

\* With the in-memory session store, a prompt that was told of an error is not in the
\* thread's memory and never comes back; only one whose connection broke may be
\* shown as failed and be remembered.
ErrorMeansForgotten == ~remote => \A p \in Prompts : error[p] => p \notin stored

\* The console has read every token and replacement of p that was sent, and the
\* server has passed the gate and is writing to its stores.
CaughtUp(p) ==
  /\ Connected(p) /\ task[p] \in {"log", "put", "final"}
  /\ \A i \in DOMAIN wire[p] : wire[p][i].kind \notin {"token", "replace"}

\* What it then shows is the gate's answer, white space around it aside, unless
\* that answer is empty.
InFlightGated ==
  \A p \in Prompts :
    CaughtUp(p) /\ answer[p] # <<>> => Strip(shown[p]) = Strip(answer[p])

\* learnings.md: the replace event lets the UI replace the streamed tokens that
\* the gate has invalidated, whatever the gate puts in their place.
InFlightReplaced ==
  \A p \in Prompts :
    CaughtUp(p) /\ answer[p] # Strip(raw[p]) => shown[p] = answer[p]

\* The console is not left waiting: every prompt is answered or fails.
PromptsSettle == \A p \in Prompts : pending = p ~> outcome[p] # "none"
=============================================================================
