------------------------------ MODULE HttpClients ------------------------------
(***************************************************************************)
(* Every call the harness makes over HTTP: completions, streamed ones,     *)
(* embeddings, policy loads and trajectory posts.  All share one pattern:  *)
(* retry_async around a request, a status of 400 or more raised as an      *)
(* error.  A stream is one request without retries; if it ends without a   *)
(* delta, a whole completion is asked for instead.                         *)
(*                                                                         *)
(* The server is the environment: it may handle a request and its answer   *)
(* be lost.  A delta or body is known by the request that produced it.     *)
(***************************************************************************)
EXTENDS Naturals, Sequences, FiniteSets

CONSTANTS
  Calls,
  Models,       \* the model names a caller may pass
  JudgeModels,  \* {settings.model_judge}, or {} without a judge provider
  MaxAttempts,  \* settings.retry_max_attempts
  MaxDeltas     \* bound: the deltas of a stream

ASSUME HttpAssumption == MaxAttempts \in Nat \ {0} /\ MaxDeltas \in Nat

VARIABLES
  kind,     \* what a call is for
  model,    \* the model it names
  pc,       \* the await it is at
  attempt,  \* the attempt of retry_async
  handled,  \* the server of each request that was handled, in order
  shown     \* what the caller has been given: for each piece, the request it came from

vars == <<kind, model, pc, attempt, handled, shown>>

Kinds == {"complete", "stream", "embed", "policy", "trajectory"}
Ended == {"done", "failed", "closed"}

\* RoleRoutedProvider: the judge's model has a provider of its own.
Route(m) == IF m \in JudgeModels THEN "judge" ELSE "primary"
Server(c) == IF kind[c] \in {"complete", "stream"} THEN Route(model[c]) ELSE kind[c]

Goto(c, where) == pc' = [pc EXCEPT ![c] = where]
Handle(c) == handled' = [handled EXCEPT ![c] = Append(@, Server(c))]
Show(c) == shown' = [shown EXCEPT ![c] = Append(@, Len(handled[c]))]

-----------------------------------------------------------------------------
Begin(c) ==
  /\ pc[c] = "idle"
  /\ Goto(c, IF kind[c] = "stream" THEN "open" ELSE "post")
  /\ UNCHANGED <<kind, model, attempt, handled, shown>>

\* The server handles the request that operation() has sent.
Post(c) ==
  /\ pc[c] = "post"
  /\ Goto(c, "reply") /\ Handle(c)
  /\ UNCHANGED <<kind, model, attempt, shown>>

\* A body as expected; a JSON object that lacks the answer; anything else.
Bodies == {"good", "hollow", "garbled"}

Understood(k, body) ==
  \/ body = "good" \/ k = "trajectory"
  \/ body = "hollow" /\ k # "embed"

\* A status below 400.  An empty text of a fallback is not yielded.
Reply(c, body) ==
  /\ pc[c] = "reply"
  /\ IF Understood(kind[c], body) THEN Goto(c, "done") ELSE Goto(c, "failed")
  /\ IF Understood(kind[c], body) /\ ~ (kind[c] = "stream" /\ body = "hollow")
     THEN Show(c) ELSE UNCHANGED shown
  /\ UNCHANGED <<kind, model, attempt, handled>>

PostFailsOnceMore(c, retryable) ==   \* mutant: <= for <
  /\ pc[c] \in {"post", "reply"}
  /\ IF retryable /\ attempt[c] <= MaxAttempts
     THEN Goto(c, "post") /\ attempt' = [attempt EXCEPT ![c] = @ + 1]
     ELSE Goto(c, "failed") /\ UNCHANGED attempt
  /\ UNCHANGED <<kind, model, handled, shown>>

\* 429, 5xx, a timeout or a broken connection are retryable, other errors not;
\* each of them before or after the request was handled.
PostFails(c, retryable) ==
  /\ pc[c] \in {"post", "reply"}
  /\ IF retryable /\ attempt[c] < MaxAttempts
     THEN Goto(c, "post") /\ attempt' = [attempt EXCEPT ![c] = @ + 1]
     ELSE Goto(c, "failed") /\ UNCHANGED attempt
  /\ UNCHANGED <<kind, model, handled, shown>>

-----------------------------------------------------------------------------
Open(c) ==
  /\ pc[c] = "open"
  /\ Goto(c, "streaming") /\ Handle(c)
  /\ UNCHANGED <<kind, model, attempt, shown>>

Delta(c) ==
  /\ pc[c] = "streaming" /\ Len(shown[c]) < MaxDeltas
  /\ Show(c)
  /\ UNCHANGED <<kind, model, pc, attempt, handled>>

\* [DONE], or the connection's end, which is not told from it.
StreamEnds(c) ==
  /\ pc[c] = "streaming"
  /\ Goto(c, IF shown[c] = <<>> THEN "post" ELSE "done")
  /\ UNCHANGED <<kind, model, attempt, handled, shown>>

StreamFailsOver(c) ==   \* mutant: a broken stream is replaced by a completion, too
  /\ pc[c] \in {"open", "streaming"}
  /\ Goto(c, "post")
  /\ UNCHANGED <<kind, model, attempt, handled, shown>>

\* A status of 400 or more, a transport error, an event that is no object.
StreamFails(c) ==
  /\ pc[c] \in {"open", "streaming"}
  /\ Goto(c, "failed")
  /\ UNCHANGED <<kind, model, attempt, handled, shown>>

\* The task is cancelled, or the consumer of a stream closes the generator.
Close(c) ==
  /\ pc[c] \notin {"idle"} \cup Ended
  /\ Goto(c, "closed")
  /\ UNCHANGED <<kind, model, attempt, handled, shown>>

Init ==
  /\ kind \in [Calls -> Kinds] /\ model \in [Calls -> Models]
  /\ pc = [c \in Calls |-> "idle"]
  /\ attempt = [c \in Calls |-> 1]
  /\ handled = [c \in Calls |-> <<>>]
  /\ shown = [c \in Calls |-> <<>>]

Work(c) ==
  \/ Post(c) \/ Open(c) \/ Delta(c) \/ StreamEnds(c) \/ StreamFails(c)
  \/ \E body \in Bodies : Reply(c, body)
  \/ \E retryable \in BOOLEAN : PostFails(c, retryable)

Next == \E c \in Calls : Begin(c) \/ Close(c) \/ Work(c)

Spec == Init /\ [][Next]_vars

-----------------------------------------------------------------------------
(* Properties *)

TypeOK ==
  /\ kind \in [Calls -> Kinds] /\ model \in [Calls -> Models]
  /\ pc \in [Calls -> {"idle", "open", "streaming", "post", "reply"} \cup Ended]
  /\ attempt \in [Calls -> 1..MaxAttempts]
  /\ handled \in [Calls -> Seq({"judge", "primary"} \cup Kinds)]
  /\ shown \in [Calls -> Seq(Nat)]

\* Whatever the caller is given comes from one request, the last that any
\* server handled for the call: answers of two attempts, or a broken stream
\* and its replacement, are never mixed, and nothing is asked for after an answer.
AnswerIsOneRequest ==
  \A c \in Calls : \A i \in DOMAIN shown[c] : shown[c][i] = Len(handled[c])

\* A request is sent at most MaxAttempts times, and once more for a stream that
\* stayed empty; a judge's request never reaches the primary provider, in a
\* retry or a fallback either; and a call that succeeds was handled.
RequestsAccounted ==
  \A c \in Calls :
    /\ Len(handled[c]) <= MaxAttempts + (IF kind[c] = "stream" THEN 1 ELSE 0)
    /\ \A i \in DOMAIN handled[c] : handled[c][i] = Server(c)
    /\ pc[c] = "done" => handled[c] # <<>>
=============================================================================
