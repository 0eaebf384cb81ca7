# mythos-harness: verification project

TLA+ models of the mythos-harness runtime, TLC runs over small instances of them,
and TLAPS proofs about them for all instances. Source paths below are relative to
the repository; `core/`, `api/`, ... stand for `src/mythos_harness/core/`, ...

    tlc -config ReasoningLoop_thread.cfg MCReasoningLoop.tla   # any run: see "The runs"
    tlapm ReasoningLoop_proof.tla                              # any module *_proof.tla

`PROJECT.json` holds the same information for tools: components, runs, the source
lines behind each definition, hazards, theorems, and for every property a mutated
definition (an operator marked `\* mutant:` next to the definition it replaces)
under which TLC finds the property violated.

## 1. The system

The harness answers a prompt on a *thread*. It loads what the thread's earlier
requests left, runs a loop of phases over a bank of *hypotheses*, writes an answer
with the best of them, passes it through a policy gate, logs it, and stores the
bank for the thread's next request.

| Component | State | Operations | Talks to |
|---|---|---|---|
| Structured state, branch manager (`core/state.py`, `core/branch_manager.py`) | hypotheses (confidence, contradictions, alive), recorded contradictions, trace | select the top, branch, prune, collapse | phase loop |
| Phase loop and drivers (`core/loop.py`, `graph/builder.py`, `service.complete_stream`) | phase, loop index, cap, converged, halt reason | explore, solve, verify, repair, synthesize; should_halt; convergence check | models, structured state |
| Triage, prelude, coda (`core/triage.py`, `core/prelude.py`, `core/coda.py`) | execution mode; the seed; the answer | one call each per request | models |
| Orchestrator (`core/service.py`) | one runtime state per request, private to it | `complete`, `complete_stream` | stores, everything above |
| Session store (`storage/session.py`) | one snapshot per thread | get, put, search_similar | Postgres or memory |
| Trajectory store (`storage/trajectory.py`, `core/feedback.py`) | records of answered requests | write | Postgres, HTTP or a JSONL file |
| Policy store, safety gate (`storage/policy.py`, `core/safety.py`) | none | load; withhold, revise or pass an answer | file or HTTP, a model |
| Retries (`utils/retry.py`) | the attempt counter | retry_async around store and HTTP calls | the stores, the clients |
| Streaming endpoint (`api/router.py`) | one generator per request | token, replace, final, error, done events | orchestrator, console |
| Web console (`web/static/app.js`) | sessions, the pending prompt, the placeholder message | submitPrompt, streamCompletion; sessions, settings, probes | `/stream` |
| Rate limiters (`api/rate_limiter.py`) | a deque per identity, or a Redis counter per identity and window | check | middleware |
| Middlewares (`api/middleware.py`, `api/observability.py`, `main.py`) | what they were configured with; metrics | rate limit, authentication; metrics, access log, request id | all endpoints, the limiters |
| HTTP clients (`providers/`, `embeddings/openai_compatible.py`, and those of the policy and trajectory stores) | none | complete, stream_complete, embed, load, write; routing by model | HTTP servers, or local functions |
| Decision runs, budgets (`decision/`, `budget/`) | a run's status, evidence and branches; a budget envelope | status setters, reserve and spend | nothing: no handler, service or script calls them |
| Migrations (`scripts/apply_migrations.py`) | schema_migrations, and the schema itself | apply what is missing, file by file | Postgres, other runners |
| Embeddings, evals, panels, configuration, logging | none that the above depends on | pure | |

Everything runs in one asyncio event loop per worker: a step is what happens between
two awaits, and only requests that are at an await interleave. The migration runner is a
process of its own, and so is the console in its browser tab.

### What is hard about it

* **Long sequences.** A bank outlives its request. Hypotheses are raised, blamed and
  pruned by five phases in an order that depends on the judge; the worst thread is
  several requests long.
* **Two drivers of one loop.** The graph asks should_halt (which assigns
  `halt_reason` as it answers) in the phase, in the loop node and in the router; the
  stream asks in its own `while` loop.
* **Read, await, write back.** A request holds its thread's snapshot through a minute
  of model calls and then overwrites whatever is stored.
* **Two stores, no transaction.** Log first, then put; each may fail, be applied
  without an acknowledgement, or be applied twice by a retry.
* **Cancellation.** A `/stream` client that leaves cancels its task at any await.
* **Racing runners.** A migration is looked up before it is applied, and no lock is held
  in between; a release may be rolled out, or back, while another is.
* **Metering before authentication.** The limiter charges a key that nobody has checked.
* **Streaming before gating.** The client sees tokens before the gate sees the answer.
* **Numeric edges.** Thresholds in hundredths, clamps at 0 and 0.99, closed or open
  windows, a Retry-After truncated to seconds.

`PROJECT.json` lists these hazards one by one, at their lines, with the properties
that would catch them.

### What makes each component correct

* *Structured state and loop*: a hypothesis is alive whenever `collapse` needs one;
  the dead stay dead; the reported halt reason is true; an early confident halt comes
  from inherited confidence only; the answer's hypothesis is confident when the halt
  says so; stale traces do not make a request converge; the loop ends.
* *Orchestrator and stores*: memory never holds what was not logged; an answered
  request was stored; a failed one (in-memory store) was not; whoever is the first to erase a
  request overlapped it, and one that overlaps no other is never erased; a
  retried write counts once.
* *HTTP clients*: an answer comes from one request, never from two attempts or from a
  broken stream and its replacement; attempts are bounded; a judge's request goes to the
  judge's provider, in a retry and in a fallback as well.
* *Limiters*: no window of the configured length (in Redis: no fixed window) admits more
  than the limit; forgetting old entries never changes an answer; whoever obeys
  Retry-After (plus the truncated second) gets in; nobody is refused for another's
  requests; only failures leave counters that never expire. Behind the middlewares, a valid
  key's quota is spent by that key's own requests.
* *Migrations*: no file takes effect twice or before its predecessors, however many
  runners race; success means that every file is in effect, in the runner's own text;
  runners that wait for each other's locks all end.
* *Storage clients*: the pools, which nothing closes, are no more than the first callers
  that overlapped and the initialisations that broke off; nested retries are bounded; a
  returned write is not superseded by one that had ended before it began.
* *Stream and console*: what is shown as the answer is what was logged, and it stays in
  memory unless the task of an earlier prompt with a broken connection ran beside it; with
  the in-memory store an error event means that nothing is remembered; once the gate has
  spoken the console shows the gate's text; every prompt is settled; a reply stays with its
  prompt and, once settled, in local storage; what was cleared does not return.

## 2. The plan

In this order, the most important behaviour first. All of it is in place.

1. `StructuredState`, `ReasoningLoop`: the bank and the loop (the program's core).
2. `Orchestrator` over the abstract `SnapshotMemory`: concurrent requests, stores,
   retries, cancellation.
3. `InMemoryRateLimiter`, refining `SlidingWindow`.
4. `CompletionStream`: the streaming endpoint with the console.
5. `RedisRateLimiter`: INCR and EXPIRE as two steps, workers with their own clocks,
   failures and stops between the two.
6. `StorageClient`: pool initialisation by concurrent first callers, nested retries, upserts.
7. `ConsoleSessions`: several tabs and conversations, local storage, reloads.
8. `Gateway`: the middlewares in their order, composed with `InMemoryRateLimiter`.
9. `HttpClients`: requests, retries, streams and their fallback, routing.
10. `MigrationRunner`, refining `MigrationLedger`: runners over one database.

The decision runs with their budgets were considered and left out: section 7.

### Composition

Refinements, each an `INSTANCE ... WITH` and a `PROPERTY` of a run, and each proved:

    Orchestrator         => SnapshotMemory      (MemorySpec)
    InMemoryRateLimiter  => SlidingWindow       (LogSpec)
    Gateway              => InMemoryRateLimiter => SlidingWindow
    MigrationRunner      => MigrationLedger     (LedgerSpec)

`ReasoningLoop` extends `StructuredState`; `Gateway` extends `InMemoryRateLimiter` and
joins its actions, so that every step of it is a step or a stutter of the limiter. The
other modules share no state in the code either; they meet as follows. One prompt of
`ConsoleSessions` is one prompt of `CompletionStream`, seen from the list of
conversations. One step "reason" of `Orchestrator` is a request of `ReasoningLoop`. The
retried writes of `Orchestrator`, `StorageClient` and `HttpClients` are the same ones: the
first without pool and server, the second without the request around them, the third
with the server in place of the table. The snapshot that a prompt of `CompletionStream` reads
and overwrites is the one of `Orchestrator`, as a set of prompts.

Every safety property of the runs that pass is proved (section 5). What is left to TLC is
liveness.

## 3. The models and the code

### StructuredState: `core/state.py`, `core/branch_manager.py`

Operators on a sequence of hypotheses `[id, conf, contras, alive]`, in the order of
the Python list. `Top` is `top_hypothesis` and `Winner` is `collapse`; both take the
first of several maxima, as Python's `max` does. `WillBranch`, `Prune`, `RaiseTop` and
`ContradictTop` are the branch manager's step and the phases' changes.

*Confidences in hundredths.* The code computes with floats; every constant it adds,
subtracts or compares with is a whole number of hundredths. Rounding could matter only
where a sum lands exactly on a threshold. Running the Python code beside the integer
arithmetic over all judge verdicts shows no difference in any decision for up to ten
phases in each of three requests; the first difference appears with `max_loops` at 25,
in the thirteenth phase of a second request, at exactly 0.88. The models stay below that.

*Texts as ids.* The code derives an id from a digest of the text: equal texts give equal
ids, and the convergence check compares ids. The models keep exactly that: a query asked
twice or an alternative generated twice gives two hypotheses with one id.

*Left out*: reasoning paths, artifacts, the confidence map, `per_loop_metrics`: written,
never read by a decision.

### ReasoningLoop: `core/loop.py`, `graph/builder.py`, `core/service.py`

The requests of one thread, one after the other. `Begin` copies the thread's snapshot
into the request and fixes the cap: one of `LoopCaps`, since a stored snapshot outlives a
restart with another `max_loops`. `Triage` may raise the cap by 2; `Prelude` appends the seed. Each phase
action has the phase's effect and then `FinishPhase`, the common end of
`run_current_phase`: index, convergence check, next phase, should_halt. `StreamBreak` is
one driver's exit; `LoopNodeReturn` and `LoopRouter` are the other's. `Coda` chooses the
winner, `Put` stores the snapshot, `CallFails` and `CollapseFails` are the exceptions: the
copy is discarded. The judge's verdict, the alternative's text, triage's mode and which
await fails are choices of the environment.

The trace is kept to its last two entries, which is all that the convergence check reads.

### Orchestrator and SnapshotMemory: `core/service.py`, `storage/`, `utils/retry.py`

Any number of requests on any threads. A snapshot is reduced to the sequence of requests
whose reasoning it contains (each request leaves one `user_input` fact in it). The
awaits `get`, `search`, `reason`, `log`, `put` are steps; a write is two, *applied* and
*acknowledged*, so that `WriteFails` between them is the lost acknowledgement and
`retry_async` the second application. The phase loop is one step here, since it works on
a private copy: `ReasoningLoop` has its inside. `history` keeps all snapshots of a thread
so that properties can speak of erased ones; no action but `Put` uses it beyond its last
element. `remote` is the set of stores behind a network, chosen from `Deployments`
(`storage/factory.py`): a write to the others (memory, JSONL) is not retried, and one that
raised has not been applied. `overlapped` is a history variable too: for each request, those
of its thread that were under way while it was.

*Who may erase whom.* That a request erases only what it overlapped is false, and TLC finds
why: r1 is stored; r2, which had read before that, overwrites it; r3, which had read r1 in
between, writes it back; and r4, which had read r2's snapshot and began long after r1 had
ended, erases it again. `ErasesOnlyConcurrent` is therefore about the first erasure of a
request, and `AloneIsRemembered` says that without an overlap there is none.

*An assumption about Postgres.* A statement whose connection broke has been executed when the
client learns of the error, or never will be: here, in `CompletionStream` and in
`StorageClient` alike. A server may in fact go on with a statement for a moment after its
client has gone, so that this is optimistic; a statement that arrives later than that may
undo a newer write, which `AloneIsRemembered` and `NewestWriteStays` then exclude by
assumption only.

`SnapshotMemory` is the abstract promise: each new snapshot extends *some* earlier
snapshot of its thread by one request. It deliberately does not say which: that is
the lost update of overlapping requests, and the code does nothing against it.

### InMemoryRateLimiter and SlidingWindow: `api/rate_limiter.py`

`check` is one step, as it has no await: `Allow` and `Limited` are its two outcomes.
`admitted` is a history variable, the times of all admissions; `SlidingWindow` decides by
it, the deque forgets. A clock of ticks, `Second` ticks to the second, makes the truncation
of Retry-After visible. The middleware raises limit and window to 1 (`LimiterAssumption`).
The run drives it through `Gateway`.

### Gateway: `api/middleware.py`, `main.py`

The two `dispatch` methods that may refuse a request, in the order in which `create_app`
nests them. `Pass`, `Admit` and `Refuse` are `RateLimitMiddleware`: exempt or switched off,
`Allow` of the limiter, `Limited` of the limiter. `Authenticate` is `ApiKeyAuthMiddleware`, a
later step, since the limiter's backend is awaited and the clock may tick in between.
`config` ranges over every setting that decides: either middleware off, limits by key or by
host, keys issued or none (which refuses everybody with 500, `auth_misconfigured`). A key is
a member of `Keys`; that an issued key may be configured by its hash is one kind of
membership in `valid`. The limiter's failures and `fail_open` are in `RedisRateLimiter`: the
deque cannot fail. The middlewares behind these two (`api/observability.py`) only observe.

### HttpClients: `providers/`, `embeddings/openai_compatible.py`, `storage/`

Any number of calls of the five kinds. `Post` is the server's handling of a request, `Reply`
its answer, `PostFails` an error before or after the handling, with `retry_async`'s decision;
`Open`, `Delta`, `StreamEnds` and `StreamFails` are the streamed completion, which is not
retried, and whose end without a delta leads to `Post`. `Close` is the cancelled task or the
closed generator. A body is good, hollow (an object without the answer) or garbled;
`Understood` says which client raises on which. `shown` records for each piece the caller is
given the request it came from. An end of the connection is not told from `[DONE]` by the
code, and neither is it here.

### MigrationRunner and MigrationLedger: `scripts/apply_migrations.py`

A runner is started with one of `Releases`, a directory of files. `Select` is the lookup in
`schema_migrations` with the comparison of checksums, `Execute`, `Insert` and `Commit` the
transaction, `Fail` an exception or a kill at any statement. Postgres appears as what the
runner relies on: rows that are not committed are invisible but block an equal key, a
committed equal key is a unique violation, statements that lock a table wait (`Locking`), a
commit may take effect although the runner gets an exception. Since the transaction holds
the row and the SQL, `ledger` and `tracked` change in one step.

`MigrationLedger` is what a team wants from such a script, without runners: a list of SQL
texts that only grows, has no file twice and none before its predecessors.

### RedisRateLimiter: `api/rate_limiter.py`, `api/middleware.py`

A request's way through `dispatch` and `check`: exempt or not, stamped by its worker's clock
(which may be ahead of the others by a member of `Skews`), `Incr`, its reply, `Expire`, its
reply. `RedisFails` is an exception from either command, applied or not, and what
`fail_open` makes of it; `WorkerStops` leaves whatever Redis has. A counter exists from its
first INCR until `Tick` reaches its expiry. The `redis` package is pinned below the version
that repeats commands by itself, so a command is applied at most once.

`WindowQuota` cannot hold for any delay: a counter expires `window_seconds` + 1 after its
first request was counted, so a straggler of the same window that is counted later meets a new
counter. The property names the condition, in terms of `Lateness`, under which the spare
second suffices.

### StorageClient: `storage/session.py`, `storage/trajectory.py`, `utils/retry.py`

The store object of one worker. A call enters its operation (`Enter` is the check of
`self._pool`), connects, ensures the schema, assigns the pool, executes its statement,
returns. An error is retried by the inner `retry_async` if it comes from the initialisation
and by the outer one around the operation; `attempt` has both counters, and a retried
operation starts with a new inner one. `created` counts the pools: the code closes none, neither
the one that another caller's assignment replaces nor the one whose schema step raised or was
cancelled (`storage/session.py:181-183`). `broken` counts the latter. `peak`, `before` and `sent`
are history variables. Of a statement whose connection broke, the assumption above is made. The
embedding that `put` computes comes before the operation and is not a step.

### CompletionStream: `service.complete_stream`, `api/router.py`, `web/static/app.js`

For every prompt of a conversation: the task that serves it, the events it has sent and
the console has not read, and the console's variables (`pending`, the placeholder's
text, `tokenStarted`, `finalPayload`, `streamError`). A text is a sequence of pieces: white
space (which `str.strip` removes) and a term that policies block, have revised, or both.
`Lose` is the broken connection as the console sees it (what was under way is lost, the
prompt fails, the next may be sent), `Cancel` the moment the server notices it, possibly
much later or not at all.

The thread's memory is the set of prompts in its snapshot. `Get` copies it into `prior`, and
`Put` overwrites the whole of it with that copy and the prompt, as `sessions.put` does: a task
that outlives its connection erases what was stored since it read. `remote` chooses
`PostgresSessionStore`, where a put may be applied and its acknowledgement lost: `PutAgain` is
`retry_async`'s repetition, and `Fail` in the place "final" the last attempt, whose exception
reaches `event_stream` although the snapshot is stored. (An attempt that was not applied and
is repeated is no step: nothing has changed but `attempt`, and fewer attempts left do not
allow anything new.) `beside`, a history variable, has the tasks that were at work when a prompt
was sent. Without their conditions (`beside[p] = {}`, `~remote`) TLC refutes
`AnsweredIsOnRecord` and `ErrorMeansForgotten`.

### ConsoleSessions: `web/static/app.js`

The list of conversations in each tab, and the one in local storage that every
`persistSessions` overwrites. Handlers are atomic, as in the browser. A stream is a reply
that is "running", then "partial" (streamed and not gated; in memory only, until some
handler persists the list), then settled. `fate`, `shared`, `cleared` and `wiped` are history
variables: what became of a prompt, and whether another tab was open beside it, which is
when the code may lose it. The welcome message and a conversation's title are left out.
`storage` is local storage's list, `awaited` the replies a tab waits for. Names that
`CompletionStream` has too are prefixed (`SessionsInit`, `SessionsTypeOK`) or longer
(`SubmitPrompt`, `SettlePrompt`), since `Console_proof` is about both modules.

## 4. The runs

| Run | Instance | Properties | What it shows |
|---|---|---|---|
| `loop_thread` | 3 requests, max_loops 6 or 0 (`LoopCaps`), otherwise defaults (max_branches 3, threshold 0.72), 2 queries, 2 alternatives | TypeOK, LiveHypothesis, HaltTruthful, EarlyHaltIsInherited, ConfidentWinner, LiveGrowth, DeadStayDead, ConvergesAtRest, RequestEnds | The loop is right for every judge, failure, driver and repeated text with the settings the product ships with, and with the smallest cap, under which an ordinary request runs no phase (`LoopNodeReturn` is the graph's way out). 165,598 states. |
| `loop_one_branch` | max_branches 1, 20 loops, 2 requests | SnapshotUsable | Where a request *can* lose its only hypothesis it fails, and the thread's stored snapshot stays usable. |
| `loop_no_winner` | same | CollapseFindsWinner (violated) | Finding 1. |
| `orchestrator` | 3 requests of one thread in any order and overlap, one of them streaming, session store in memory or networked, 2 attempts | Audited, AnsweredIsStored, FailureLeavesNoMemory, ErasesOnlyConcurrent, AloneIsRemembered, MemorySpec, RequestsEnd | Lost acknowledgements and repeated writes still implement `SnapshotMemory`; nothing is remembered that was not logged; with the in-memory store failures leave no trace; over any store, whoever first erases a request had overlapped it, and what overlapped nothing stays; every request ends. 3.7 million states. |
| `gateway` | 4 requests from one host with a valid key, an unknown one or none; every setting of both middlewares; limit 2, window 4 ticks = 2 s, 7 ticks | RetryHint, QuotaIsOwn, LogSpec | Metering before authentication charges a valid key for its own requests only; behind the middlewares the deque implements the sliding window, and Retry-After is at most a second short. 4.3 million states, up to symmetry of the requests. |
| `rate_limiter_redis` | 3 requests, with or without a key, limit 2, window 1 s, clocks up to 1 s ahead, 3 s | WindowQuota, DenialsJustified, OnlyFailuresLeak | The shared counters keep the quota of a window up to a second of lateness, whatever breaks; denials are justified; leaks come from failures. 1.9 million states. |
| `completion_stream` | 2 prompts, up to 2 tokens of 2 kinds, 4 policies, 2 revisions, session store in memory or Postgres, 2 attempts | TypeOK, AnsweredIsOnRecord, ErrorMeansForgotten, InFlightGated, PromptsSettle | Under broken connections, errors, slow cancellation, overwriting and repeated puts and any gate, the console's picture agrees with what is on record, and an answered prompt is remembered unless a lost one's task ran beside it. 1.5 million states. |
| `console_sessions` | 2 tabs, 3 conversations, 2 prompts | SessionsTypeOK, RepliesFollowPrompts, SettledPromptsAreKept, ClearedStaysCleared | Switching, clearing, new conversations and reloads while a reply is under way neither misplace it nor lose it, unless another tab is open beside it. 3.5 million states. |
| `storage_client` | 2 writes of one row, 1 health check, 2 attempts | LeaksBounded, NewestWriteStays, AttemptsBounded | The unguarded initialisation race costs no more pools than there were overlapping first callers, and one more for each initialisation that breaks off after its pool was created; retries within retries are bounded; retried writes respect the order of calls that do not overlap. 3.8 million states. |
| `http_clients` | 2 calls of any kinds, 2 models of which the judge's has its own provider, 3 attempts, 2 deltas | AnswerIsOneRequest, RequestsAccounted | Lost answers, broken streams, hollow and garbled bodies never make an answer of two requests, nor more requests than allowed, nor one to the wrong provider. 164,836 states. |
| `migrations` | 2 runners, each started twice with any of 4 releases (none, the first, a successor, one with an edited file) | SuccessIsComplete, LedgerSpec, RunsEnd | Races, kills, lost answers to a commit and mixed releases leave a ledger that `MigrationLedger` allows; success is complete; nobody waits forever. 21,060 states. |
| `stream_replace` | 1 prompt | InFlightReplaced (violated) | Finding 2. |

A module's type invariant is in a run unless the module's `_proof` establishes it for all
instances, where the run would add nothing; the loop's, which is small, is in both.

### The bounds, and why they are enough

* *Loop*: 3 requests of up to 8 phases. The first request meets an empty bank, the second
  inherits, the third inherits from one that inherited; with three verify phases per
  request pair the limits of 3 contradictions and of 3 live hypotheses are both reached.
  `loop_thread`'s properties were also checked with (requests, max_loops, max_branches) =
  (4, 6, 3), (4, 6, 2), (3, 10, 3), (2, 14, 3) and (2, 20, 2). `ConvergesAtRest` is violated
  without its last disjunct, so the shared ids it speaks of do occur.
* *Orchestrator*: 3 requests are what an overlap of an overlap needs; 2 attempts give the
  first, the last and the exhausted one. The run has one thread, so that all three meet;
  recall across threads is covered by the theorems, which have any number of threads (two
  threads were checked as well, with `ThreadOf` mapping one request to the other). A store
  behind a network can do everything a local one can, except that the properties about the
  in-memory store need it local: hence the two `Deployments`.
* *Gateway*: 7 ticks are nearly two windows, so that eviction happens repeatedly; Second = 2
  makes hints truncate; 4 requests are the limit twice, under one key or two.
* *HTTP clients*: 3 attempts are the first, a middle one and the last; 2 deltas
  (`MaxDeltas`) let a stream break after one; calls share nothing, so that two suffice.
* *Migrations*: 2 starts each (`MaxRuns`) give a restart after each failure; the releases
  differ in every way that the code tells apart: a missing file, a file more, another text;
  files 1 and 2 lock tables and 3 does not.
* *Redis limiter*: with a window of 1 s, 3 seconds (`MaxTime`) hold two windows and more, one
  expiry and the start after it; 3 requests are the limit and one more. A window of 2 s over
  4 s was checked too (9 million states), and section 5 has all of them. `FailOpen` differs in
  the name of the failed request's answer only. Keys and hosts are one each: identities are
  separated by the key of the counter, and the request without a key gives the second one.
* *Storage client*: 2 attempts in both loops give a lone write up to 4 pools; the health
  check is the caller that is not retried outside.
* *Console sessions*: 3 conversations (`MaxSessions`) and 2 prompts (`MaxPrompts`): each tab may
  start with one of its own and one more be opened; the second prompt may follow or overlap.
* *Stream*: 2 tokens (`MaxTokens`) give blank before, after and only; 2 prompts give the overlap
  after a loss; 2 attempts are the first and the last put. The policies are all that one term
  allows (absent, blocking, revising, both: blocking wins); a revision holds the term again,
  and so may change nothing, or is empty.

### Fairness

* `MigrationRunner`: weak fairness of each runner's work. The script awaits one statement
  after the other; Postgres is assumed to answer a statement that waits for no lock. `Start` and
  `Fail` need not happen. `RunsEnd` shows that runners come to an end whatever they meet; with
  one table lock and the row inserted last, a circle of locks is nothing the script could
  easily get into.
* `StorageClient`, `HttpClients` and the limiters have safety properties only; that their retries
  are bounded is one of them (AttemptsBounded, RequestsAccounted).
* `ReasoningLoop`, `Orchestrator`: weak fairness of a request's work. asyncio resumes
  every task whose await is over. That every await ends is partly the code's doing and partly an
  assumption: HTTP clients have timeouts and attempts are bounded, but the Postgres pools are
  created without a `command_timeout`, and neither `acquire` nor the statements have a limit of
  their own (`storage/session.py:181`). Postgres is assumed to answer or to drop the
  connection. A client need not send requests, so `Begin` has no fairness, and neither has
  `Cancel`.
* `CompletionStream`: weak fairness of the task and of the console's reading, under the same
  assumption. `Lose`, `Cancel` and `Submit` need not happen. A connection that neither delivers
  nor breaks is outside: `fetch` has no timeout and the console would wait.

## 5. What is proved

By TLAPS, for all values of the constants; the only assumptions are the named `ASSUME`s
next to the constants (types, and limits the code enforces), and the hypotheses that four
theorems state themselves: `HypothesisSurvives`, `EarlyHaltInherits`, `BankGrowth` and
`ConfidentAnswers`.

| Theorem | States | Argument |
|---|---|---|
| `ReasoningLoop_proof!TypeCorrect` | TypeOK | Inductive with `served < MaxRequests` while a request runs. The lemmas about the bank at the module's start keep it in type; that `Top` exists is Python's `max` on a non-empty list. |
| `ReasoningLoop_proof!HaltIsTruthful` | HaltTruthful | `WithinCap` (no phase starts at the cap) and `HaltKnown`. The latter is what HaltTruthful lacks to be inductive: it says for every point between the last phase and the coda, under either driver, which reason is set and that its condition still holds. |
| `ReasoningLoop_proof!TheDeadStayDead` | DeadStayDead | From type correctness: every phase changes the top, which is live, or prunes, which only kills. |
| `ReasoningLoop_proof!HypothesisSurvives` | LiveHypothesis | For caps of at most 8 (`ShortLoops`), so at most ten phases (`Short`) and two explore phases after the first. `Survivor`: some live hypothesis is strong enough for the phase that is due (0.38 and fewer than 3 contradictions in the first five, and so on); `OnTime` ties the phase to the loop index. Without the bound it is false: see finding 1. |
| `ReasoningLoop_proof!SnapshotsUsable` | SnapshotUsable | For all settings. `Usable`: between coda and put a hypothesis is live, since the coda raises otherwise. |
| `ReasoningLoop_proof!EarlyHaltInherits` | EarlyHaltIsInherited | For thresholds above 0.56. `Modest`: whatever a request added itself stays at most at 0.42 up to solve and at 0.56 after it, so that the top of a confident halt lies in the inherited part of the bank. Needs `HaltKnown`, and `Untouched` (until the seed is added the bank is the stored one). |
| `ReasoningLoop_proof!BankGrowth` | LiveGrowth | `Grown` counts stored and current live hypotheses together: a seed adds one, branching happens below the cap only, everything else keeps or shrinks the set. Cardinalities come from the library's facts about finite sets. |
| `ReasoningLoop_proof!RestConverges` | ConvergesAtRest | `Paced`: the last trace entry is the marker of explore or the mark of the bank as the phase before left it (`PaceLatest`), the one before it is a confidence that two phases have changed since (`PaceEarlier`: by 0.14, then by 0.10 or -0.25, then by 0.08 or nothing). `Numbers`: no such change gives the old confidence back below 0.88, and explore's marker, with confidence 0, is no live top's (`PaceBank`). Across requests it is enough that the snapshot's last entry is some hypothesis as it is. |
| `ReasoningLoop_proof!ConfidentAnswers` | ConfidentWinner | For thresholds from 0.71 on. `Fading`: only the top is raised and it stays the top until it fails or a new hypothesis overtakes it, so that any other has never been raised and is at most at 0.42, or has failed. No verdict is asked for once the loop could stop (`Ceiling`, 0.88 or the threshold), so a failed one is at most at `Ceiling` - 0.26, and one with three contradictions has just failed. A confident top has at most two, hence a score of 0.8 times the threshold or more, and no other hypothesis reaches that. For a threshold of 0.50 TLC finds a counterexample (3 requests, caps from 1 to 8). |
| `Orchestrator_proof!TypeCorrect` | TypeOK | With `Counted` and `Delivered`: deliveries never exceed attempts, and are fewer while another is to come. |
| `Orchestrator_proof!MemoryIsAudited` | Audited | `Accountable` and `Remembered`: what a request has read, what it holds and what is stored consists of logged requests, except for itself before its log step. |
| `Orchestrator_proof!ImplementsMemory` | MemorySpec | Every step is a stutter of `SnapshotMemory` except `Put`, whose base is in the history (`Based`), also when repeated. |
| `Orchestrator_proof!AnswersAreStored`, `!FailuresLeaveNoMemory` | AnsweredIsStored, FailureLeavesNoMemory | `Acknowledged` extends the first to requests waiting for the put's reply. With the in-memory session store, `Committed`: a request that is in memory has returned from its put. Both rest on `Based`. |
| `Orchestrator_proof!OnlyConcurrentErase` | ErasesOnlyConcurrent | For any stores. `Informed`: whoever has read its thread's snapshot has read of every request stored until now, unless the two overlapped or the other one was erased before. It survives a put, since the putting request is then on record as overlapping all who wait (`Recorded`), and a read, since what was stored is still stored or was erased (`Stays`). A put erases what its request had not read: with `Informed`, a request it overlapped or one that was erased before. |
| `Orchestrator_proof!AloneRemembered` | AloneIsRemembered | For any stores. `Alone`: while a request that overlapped nothing (`Solitary`) waits, no other of its thread does, and whoever has read a snapshot since it was answered has read it. `Kept`: it stays in the stored snapshot from its put on. |
| `Gateway_proof!TypeCorrect`, `!QuotaHolds` | TypeOK and WindowQuota of the limiter | A deque grows only below the limit. `Sorted` (admission times do not decrease) and `Suffix` (a deque is the end of the admissions, and what precedes it is older than a window): neither is visible in the quota itself. |
| `Gateway_proof!ImplementsLog` | LogSpec | From `Suffix`, the deque's length after eviction is the number of recent admissions (`KeptCounts`). |
| `Gateway_proof!HintSuffices` | RetryHint | `Owed`: after a denial the oldest entry of the deque expires before the hint and one more second are over; `Truncation` bounds what `int()` cuts off. |
| `Gateway_proof!GatewayLimits` | WindowQuota, RetryHint, LogSpec, under GatewaySpec | Every gateway step is a limiter step or leaves the limiter alone, so that the three theorems above carry over. |
| `Gateway_proof!OwnQuota` | QuotaIsOwn | `Authentic` (nobody with a valid key is turned away after the limiter, nobody else let in), and a key's admissions are as many as its requests past the limiter. |
| `RedisRateLimiter_proof!TypeCorrect`, `!DenialsAreJustified` | TypeOK, DenialsJustified | `Backed`: a counter's value and what a request was told never exceed the number of requests counted in the slot. A refused request was told more than the limit, so that many others share its slot, and equal slots mean equal identities and windows. |
| `RedisRateLimiter_proof!QuotaHolds` | WindowQuota | Requests let through in a slot were told numbers from 1 to the limit; `Numbered` says that two of them are never equal unless the slot is `Spread`. For that `Overdue`: a dropped counter had lived a window and a second, so whoever is counted in its successor is late by two seconds (`LateAfterDrop`: epochs of one slot are less than a window apart). |
| `RedisRateLimiter_proof!LeaksAreFailures` | OnlyFailuresLeak | Inductive with the stamps' types: only the request that was told 1 sends EXPIRE, and it does so unless it fails. |
| `StorageClient_proof!TypeCorrect`, `!LeaksAreBounded` | TypeOK, LeaksBounded | `Pools` is about `kept`, the pools created whose initialisation did not break off: before one is assigned they are in the hands of those who ensure the schema; afterwards nobody starts to connect, and `kept` plus those who still connect stay below `peak`. `Moves` reduces every action to what it does to these numbers. |
| `StorageClient_proof!AttemptsAreBounded` | AttemptsBounded | `Spent` counts statements and pools against both attempt counters: an operation that has ended used up at most `MaxAttempts` pools (`Budgets`), the current one as many as its own counter says. |
| `StorageClient_proof!NewestStays` | NewestWriteStays | `Begun` (what had ended when a call began has ended for good) and `Written`, which extends the property to the moment between a statement and its reply. |
| `HttpClients_proof!OneRequestAnswers`, `!Accounting` | AnswerIsOneRequest, RequestsAccounted | `ShownLast`: nothing has been given to the caller while an answer is still asked for, so that every piece bears the number of the last request. `HandledSoFar` counts requests against `attempt` and the place the call is at; `Routed`. |
| `Console_proof!TypeCorrect`, `!ErrorsForget` | TypeOK, ErrorMeansForgotten | `Record` relates, prompt by prompt, what the server has written, the events it has sent that are still under way and what the console shows: a final event exists only after both stores have answered, and with the in-memory store an error only where the prompt is in no snapshot, stored or read by another task (`Known`). |
| `Console_proof!AnswersOnRecord` | AnsweredIsOnRecord | The text from `Record`. For the memory `Lone`: while the console waits for a prompt that was sent when no task ran, no other runs, so that nothing overwrites its put; once it has been told its answer (`Told`), whatever task has read the snapshot since has read of it, and writes it back. |
| `Console_proof!GatedInFlight` | InFlightGated | `InStep`: up to the gate what the console shows and the tokens still on the wire add up to the model's text (`Streaming`); after it the same, with the revision as the last event on the wire or already read. |
| `Console_proof!SessionsTypeCorrect`, `!RepliesFollow` | SessionsTypeOK, RepliesFollowPrompts | `Consistent`: lists and messages are in type (`SessionsTyped`), every list holds each prompt once, in its conversation and before its own reply (`InOrder`), and a tab's active conversation exists (`Chosen`). Lists are changed by functions applied to one conversation's messages, and the lemmas are about those. |
| `Console_proof!SettledAreKept`, `!ClearedStays` | SettledPromptsAreKept, ClearedStaysCleared | `Saved`: the prompt a tab waits for is its own, unsettled, has its place in the tab's list and is alone unless on record as shared (`WaitsFor`); a settled one that met no other tab is in *every* list, so that whichever tab writes next does not lose it (`KeptFor`); what the only tab cleared is in none (`GoneFrom`). The last two need the first: a reply is written where its prompt stands. |
| `MigrationRunner_proof!CompleteSuccess`, `!ImplementsLedger` | SuccessIsComplete, LedgerSpec | `RowsAreEffects` (rows and ledger tell the same), `PassedAreTracked` (what a runner left behind is there in its own text), `FirstAtHand` (a transaction is about the first file left) and `OneClaim` (one uncommitted row per key, and none of a tracked one): each commit is then an `Apply`. |

Only model-checked: the liveness properties RequestEnds, RequestsEnd, PromptsSettle
and RunsEnd, since the prover covers neither fairness nor ENABLED. Only proved: the part of
Audited that is about recalled snapshots, since its run has one thread and recall skips the
request's own; and WindowQuota of the in-memory limiter.

## 6. Findings

1. **A request can lose its last hypothesis** (`core/branch_manager.py:16-28`, run
   `loop_no_winner`). `step` decides whether to branch before it prunes. With `max_branches`
   1 the single hypothesis fills the bank, so there is no branching; after three failed
   verdicts explore prunes it, and `collapse` raises "No live hypotheses at collapse
   time". `HypothesisSurvives` shows that this needs more than ten phases; with the
   default settings it does not happen.
2. **An empty revision is not shown** (`web/static/app.js:353`, run `stream_replace`). The
   replace handler falls back to the streamed text when the replacement is empty, so the
   text the gate rejected stays on screen until the final event.

Two observations that are no disagreements. README.md:250 draws the way to Synthesize from
Verify, but a thread's second request may stop as `converged_confident` after explore and
solve, on inherited confidence; `EarlyHaltIsInherited` says that this is the only way. And
with limits by host, requests that fail authentication spend the quota of whoever shares
their address, since metering comes first; `QuotaIsOwn` is about limits by key.

## 7. What is not modelled, and why

* *Decision runs, budgets, evidence packs, approvals*: data classes that nothing in the
  repository's services, handlers or scripts calls. There is no order of execution to
  model; whatever order a model chose would be its own invention.
* *The observability middlewares*: they time, log and name a request, and pass it on.
* *The coda's summary*: the confidence it reports comes from `top_hypothesis`, while the answer
  comes from `collapse`, which discounts contradictions (`core/coda.py:68`): they may describe
  two hypotheses. No decision reads it.
* *A full local storage*: `localStorage.setItem` may throw (`app.js:638`). In `submitPrompt` the
  lines that persist the prompt and its placeholder stand before the `try` (233-249), after
  `pending` was set: the exception would leave it set, and the console would send nothing
  until it is reloaded. `PromptsSettle` assumes that it does not throw.
* *The console's settings, health probes, inspector and rendering*: each reads or overwrites
  one value and nothing else depends on it.
* *Retry-After of the Redis limiter* and the delays of `retry_async`: times without a property.
* *The size of the in-memory limiter's table*: an identity's empty deque is never removed;
  the set of identities is a constant here.
* *Pure functions without state*: local embeddings and the local provider, scorers, panels,
  factories, configuration. A ranking by similarity is any choice of snapshots in
  `Orchestrator`.
* *Wire formats and wording*: JSON, SSE framing, prompts, logs, metrics, status events; the
  digest that makes a trajectory's id (the models take any id per request; that two answers
  to one query on one thread share a row is visible in `storage/trajectory.py:55`).
* *Model answers*: any answer, any verdict, any error; nothing is assumed about quality.
* *Library internals*: LangGraph's recursion limit (a large `max_loops` meets it before the
  cap), Postgres beyond the locking and the assumption described above, the browser. A
  connection that neither answers nor breaks, where no timeout is set (the Redis client,
  the Postgres pools and the runner's connection, `fetch`), waits.
