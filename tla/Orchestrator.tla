------------------------------ MODULE Orchestrator ------------------------------
(***************************************************************************)
(* Concurrent requests of core/service.py over the session store and the   *)
(* trajectory store.  Every await of complete and complete_stream that     *)
(* touches a store is a step; what a request does to its private copy in   *)
(* between (ReasoningLoop) is one step that succeeds or raises.            *)
(*                                                                         *)
(* A snapshot is the sequence of requests whose reasoning it contains, one *)
(* "user_input" fact each, in order.  A store reached over the network may *)
(* apply a write and lose its acknowledgement; retry_async then repeats    *)
(* the write it holds.                                                     *)
(***************************************************************************)
EXTENDS Naturals, Sequences, Functions, FiniteSets

CONSTANTS
  Threads,
  Requests,
  ThreadOf,     \* the thread_id of a request
  Deployments,  \* the sets of stores that may be behind a network
  Streaming,    \* the requests sent to /stream, which a client may cancel
  MaxAttempts,  \* settings.retry_max_attempts
  RetrievalK    \* settings.memory_retrieval_k

ASSUME OrchestratorAssumption ==
  /\ ThreadOf \in [Requests -> Threads]
  /\ Deployments \subseteq SUBSET {"trajectory", "session"}
  /\ Streaming \subseteq Requests
  /\ MaxAttempts \in Nat \ {0} /\ RetrievalK \in Nat

VARIABLES
  remote,      \* the stores behind a network: Postgres and HTTP rather than memory and JSONL
  pc,          \* the await each request is at
  prior,       \* the snapshot sessions.get returned to it
  recalled,    \* the requests in the snapshots search_similar returned to it
  attempt,     \* the attempt of the retried write it is in
  deliveries,  \* how often its trajectory record has reached the trajectory store
  history,     \* every snapshot of a thread, the stored one last
  overlapped   \* for each request, those of its thread that ran while it did

vars == <<remote, pc, prior, recalled, attempt, deliveries, history, overlapped>>

Waiting == {"get", "search", "reason", "log", "logging", "put", "putting"}
Ended == {"done", "failed", "cancelled"}

Stored(t) == history[t][Len(history[t])]
Mine(r) == Append(prior[r], r)   \* runtime.structured_state after the prelude

Goto(r, where) == pc' = [pc EXCEPT ![r] = where]

-----------------------------------------------------------------------------
Begin(r) ==
  /\ pc[r] = "new"
  /\ Goto(r, "get")
  /\ LET running == {o \in Requests : ThreadOf[o] = ThreadOf[r] /\ pc[o] \in Waiting}
     IN  overlapped' = [o \in Requests |-> overlapped[o] \cup
                          IF o = r THEN running ELSE IF o \in running THEN {r} ELSE {}]
  /\ UNCHANGED <<remote, prior, recalled, attempt, deliveries, history>>

GetNothing(r) ==   \* mutant: the snapshot that was found is not taken over
  /\ pc[r] = "get"
  /\ Goto(r, "search")
  /\ UNCHANGED <<remote, prior, recalled, attempt, deliveries, history, overlapped>>

\* prior = await sessions.get(thread_id): a copy.
Get(r) ==
  /\ pc[r] = "get"
  /\ Goto(r, "search")
  /\ prior' = [prior EXCEPT ![r] = Stored(ThreadOf[r])]
  /\ UNCHANGED <<remote, recalled, attempt, deliveries, history, overlapped>>

\* The snapshots of at most max(1, limit) other threads, however ranked.
Search(r) ==
  /\ pc[r] = "search"
  /\ Goto(r, "reason")
  /\ \E found \in SUBSET (Threads \ {ThreadOf[r]}) :
       /\ Cardinality(found) <= IF RetrievalK > 1 THEN RetrievalK ELSE 1
       /\ recalled' = [recalled EXCEPT ![r] = UNION {Range(Stored(t)) : t \in found}]
  /\ UNCHANGED <<remote, prior, attempt, deliveries, history, overlapped>>

ReasonPutFirst(r) ==   \* mutant: the snapshot is also put before the trajectory is logged
  /\ pc[r] = "reason"
  /\ Goto(r, "log")
  /\ history' = [history EXCEPT ![ThreadOf[r]] = Append(@, Mine(r))]
  /\ UNCHANGED <<remote, prior, recalled, attempt, deliveries, overlapped>>

\* Triage, prelude, phase loop, coda and safety gate, on the private copy.
Reason(r) ==
  /\ pc[r] = "reason"
  /\ Goto(r, "log")
  /\ UNCHANGED <<remote, prior, recalled, attempt, deliveries, history, overlapped>>

-----------------------------------------------------------------------------
(* trajectory_store.write and sessions.put: applied, then acknowledged *)

Log(r) ==
  /\ pc[r] = "log"
  /\ Goto(r, "logging")
  /\ deliveries' = [deliveries EXCEPT ![r] = @ + 1]
  /\ UNCHANGED <<remote, prior, recalled, attempt, history, overlapped>>

LoggedOnly(r) ==   \* mutant: the put is skipped
  /\ pc[r] = "logging"
  /\ Goto(r, "putting")
  /\ attempt' = [attempt EXCEPT ![r] = 1]
  /\ UNCHANGED <<remote, prior, recalled, deliveries, history, overlapped>>

Logged(r) ==
  /\ pc[r] = "logging"
  /\ Goto(r, "put")
  /\ attempt' = [attempt EXCEPT ![r] = 1]
  /\ UNCHANGED <<remote, prior, recalled, deliveries, history, overlapped>>

PutMerged(r) ==   \* mutant: the request is added to what is stored now
  /\ pc[r] = "put"
  /\ Goto(r, "putting")
  /\ history' = [history EXCEPT ![ThreadOf[r]] = Append(@, Append(Stored(ThreadOf[r]), r))]
  /\ UNCHANGED <<remote, prior, recalled, attempt, deliveries, overlapped>>

Put(r) ==
  /\ pc[r] = "put"
  /\ Goto(r, "putting")
  /\ history' = [history EXCEPT ![ThreadOf[r]] = Append(@, Mine(r))]
  /\ UNCHANGED <<remote, prior, recalled, attempt, deliveries, overlapped>>

Answer(r) ==
  /\ pc[r] = "putting"
  /\ Goto(r, "done")
  /\ UNCHANGED <<remote, prior, recalled, attempt, deliveries, history, overlapped>>

\* The store that the write of r goes to.
Target(r) == IF pc[r] \in {"log", "logging"} THEN "trajectory" ELSE "session"

\* A write ends in an error, before or after it was applied.  retry_async
\* repeats it after a retryable error while attempts are left.
WriteFails(r, retryable) ==
  /\ pc[r] \in {"log", "logging", "put", "putting"}
  /\ pc[r] \in {"logging", "putting"} \/ retryable => Target(r) \in remote
  /\ IF retryable /\ attempt[r] < MaxAttempts
     THEN /\ Goto(r, IF pc[r] \in {"log", "logging"} THEN "log" ELSE "put")
          /\ attempt' = [attempt EXCEPT ![r] = @ + 1]
     ELSE Goto(r, "failed") /\ UNCHANGED attempt
  /\ UNCHANGED <<remote, prior, recalled, deliveries, history, overlapped>>

CallFailsRetried(r) ==   \* mutant: the request starts over, as often as it takes
  /\ pc[r] \in {"get", "search", "reason"}
  /\ Goto(r, "get")
  /\ UNCHANGED <<remote, prior, recalled, attempt, deliveries, history, overlapped>>

\* Any other await raises: a read, a model call, the policy load.
CallFails(r) ==
  /\ pc[r] \in {"get", "search", "reason"}
  /\ Goto(r, "failed")
  /\ UNCHANGED <<remote, prior, recalled, attempt, deliveries, history, overlapped>>

\* The client of a stream disconnects and its task is cancelled.
Cancel(r) ==
  /\ r \in Streaming /\ pc[r] \in Waiting
  /\ Goto(r, "cancelled")
  /\ UNCHANGED <<remote, prior, recalled, attempt, deliveries, history, overlapped>>

-----------------------------------------------------------------------------
\* build_storage chooses each backend on its own.
Init ==
  /\ remote \in Deployments
  /\ pc = [r \in Requests |-> "new"]
  /\ prior = [r \in Requests |-> <<>>]
  /\ recalled = [r \in Requests |-> {}]
  /\ attempt = [r \in Requests |-> 1]
  /\ deliveries = [r \in Requests |-> 0]
  /\ history = [t \in Threads |-> << <<>> >>]
  /\ overlapped = [r \in Requests |-> {}]

\* What the event loop does for a request that was sent.
Work(r) ==
  \/ Get(r) \/ Search(r) \/ Reason(r)
  \/ Log(r) \/ Logged(r) \/ Put(r) \/ Answer(r)
  \/ \E retryable \in BOOLEAN : WriteFails(r, retryable)
  \/ CallFails(r)

Next == \E r \in Requests : Begin(r) \/ Cancel(r) \/ Work(r)

Spec == Init /\ [][Next]_vars

\* asyncio resumes every task whose await is over.  HTTP calls have a timeout and
\* attempts are bounded; of Postgres it is assumed that it answers a statement or
\* drops its connection some day, for which the code sets no limit.
FairSpec == Spec /\ \A r \in Requests : WF_vars(Work(r))

-----------------------------------------------------------------------------
(* Properties *)

Snapshots == UNION {Range(history[t]) : t \in Threads}
Writer(s) == s[Len(s)]

TypeOK ==
  /\ remote \subseteq {"trajectory", "session"}
  /\ pc \in [Requests -> {"new"} \cup Waiting \cup Ended]
  /\ prior \in [Requests -> Seq(Requests)]
  /\ recalled \in [Requests -> SUBSET Requests]
  /\ attempt \in [Requests -> 1..MaxAttempts]
  /\ deliveries \in [Requests -> 0..MaxAttempts]
  /\ history \in [Threads -> Seq(Seq(Requests)) \ {<<>>}]
  /\ overlapped \in [Requests -> SUBSET Requests]

\* Nothing that is remembered, in a thread's own snapshot or recalled from
\* another thread's, is missing from the trajectory log.
Audited ==
  \A r \in Requests :
    (\/ \E s \in Snapshots : r \in Range(s)
     \/ \E o \in Requests : r \in recalled[o]) => deliveries[r] > 0

\* An answered request has been written into its thread's memory.
AnsweredIsStored ==
  \A r \in Requests : pc[r] = "done" =>
    \E s \in Range(history[ThreadOf[r]]) : s # <<>> /\ Writer(s) = r

\* An answered request that overlapped no other of its thread is never erased,
\* whatever overlaps, fails, is cancelled or is repeated before it or after.  In
\* particular a thread whose client waits for each answer remembers them all.
AloneIsRemembered ==
  \A r \in Requests : overlapped[r] = {} /\ pc[r] = "done" => r \in Range(Stored(ThreadOf[r]))

\* With the in-memory session store, a request that reported a failure left no
\* trace in memory, wherever its trajectory went.
FailureLeavesNoMemory ==
  "session" \notin remote =>
    \A r \in Requests : pc[r] = "failed" => \A s \in Snapshots : r \notin Range(s)

\* The requests that the i-th snapshot of a thread lacks and the one before had.
Erased(t, i) == Range(history[t][i - 1]) \ Range(history[t][i])

\* Whoever is the first to erase a request had overlapped it: it ran while the erased
\* one did, over any store, repeated and unacknowledged writes included.  (Only the
\* first: a request that read before the erasure may write the erased one back, and
\* one that read in between, and began long after, then erases it again.)
ErasesOnlyConcurrent ==
  \A t \in Threads : \A i \in 2..Len(history[t]) :
    \A gone \in Erased(t, i) \ UNION {Erased(t, j) : j \in 2..(i - 1)} :
      gone \in overlapped[Writer(history[t][i])]

\* Memory is what SnapshotMemory promises; in particular a repeated put never
\* makes a request count twice.
Memory == INSTANCE SnapshotMemory
  WITH Threads <- Threads, Requests <- Requests, ThreadOf <- ThreadOf, history <- history
MemorySpec == Memory!Spec

\* Every request that was sent is answered, fails or is cancelled.
RequestsEnd == <>[](\A r \in Requests : pc[r] \notin Waiting)
=============================================================================
