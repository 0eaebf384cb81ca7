----------------------------- MODULE StorageClient -----------------------------
(***************************************************************************)
(* One Postgres store object of a worker (storage/session.py,              *)
(* storage/trajectory.py) under concurrent calls: the connection pool that *)
(* the first caller creates, and retry_async around it and, once more,     *)
(* around the whole operation.  A write is an upsert on a key (a thread_id *)
(* or a trajectory id); a health check asks for the pool but is not        *)
(* retried.                                                                *)
(*                                                                         *)
(* Every await may raise an error, retryable or not, after its effect or   *)
(* before it, and the task of a call may be cancelled there.               *)
(***************************************************************************)
EXTENDS Naturals, FiniteSets

CONSTANTS
  Calls,
  Keys,
  KeyOf,         \* the key that a call writes
  HealthChecks,  \* the calls that are health checks
  MaxAttempts    \* retry_config.max_attempts

Nobody == "nobody"

\* retry_async raises max_attempts to 1.
ASSUME StorageAssumption ==
  /\ KeyOf \in [Calls -> Keys] /\ HealthChecks \subseteq Calls
  /\ MaxAttempts \in Nat \ {0} /\ IsFiniteSet(Calls) /\ Nobody \notin Calls

VARIABLES
  pool,      \* self._pool is not None
  created,   \* how many pools were created; none is ever closed
  broken,    \* how many of them an initialisation created that then broke off
  row,       \* the call that the row of a key stems from
  pc,        \* the await each call is at
  attempt,   \* the attempt of a call's operation, of its initialisation of the pool
  sent,      \* the pools that were created for a call, the statements executed for it
  peak,      \* the most calls that were initialising at one time
  before     \* the calls that had ended when a call began

vars == <<pool, created, broken, row, pc, attempt, sent, peak, before>>

Initialising == {"connect", "schema"}
Executing == {"execute", "reply"}
Ended == {"done", "failed", "cancelled"}

Goto(c, where) == pc' = [pc EXCEPT ![c] = where]

\* The first lines of an operation: _pool_or_init looks at self._pool.
EnterUnchecked(c, operation) ==   \* mutant: without looking for a pool
  /\ Goto(c, "connect")
  /\ attempt' = [attempt EXCEPT ![c] = [operation |-> operation, pool |-> 1]]

Enter(c, operation) ==
  /\ Goto(c, IF pool THEN "execute" ELSE "connect")
  /\ attempt' = [attempt EXCEPT ![c] = [operation |-> operation, pool |-> 1]]

CountPeak ==
  LET n == Cardinality({c \in Calls : pc'[c] \in Initialising})
  IN  peak' = IF n > peak THEN n ELSE peak

-----------------------------------------------------------------------------
Begin(c) ==
  /\ pc[c] = "new"
  /\ Enter(c, 1)
  /\ CountPeak
  /\ before' = [before EXCEPT ![c] = {o \in Calls : pc[o] \in Ended}]
  /\ UNCHANGED <<pool, created, broken, row, sent>>

\* An error that leaves an operation: again from its start, or out to the caller.
OperationFails(c, retryable) ==
  IF retryable /\ c \notin HealthChecks /\ attempt[c].operation < MaxAttempts
  THEN Enter(c, attempt[c].operation + 1)
  ELSE Goto(c, "failed") /\ UNCHANGED attempt

\* An error in the initialisation of the pool: retried inside the operation first.
InitFails(c, retryable) ==
  IF retryable /\ attempt[c].pool < MaxAttempts
  THEN /\ Goto(c, "connect")
       /\ attempt' = [attempt EXCEPT ![c].pool = @ + 1]
  ELSE OperationFails(c, retryable)

\* await asyncpg.create_pool(...)
Connected(c) ==
  /\ pc[c] = "connect"
  /\ Goto(c, "schema")
  /\ created' = created + 1
  /\ sent' = [sent EXCEPT ![c].pools = @ + 1]
  /\ UNCHANGED <<pool, broken, row, attempt, peak, before>>

ConnectFails(c, retryable) ==
  /\ pc[c] = "connect"
  /\ InitFails(c, retryable)
  /\ CountPeak
  /\ UNCHANGED <<pool, created, broken, row, sent, before>>

\* The schema is there: self._pool = ..., whatever it was.
SchemaEnsured(c) ==
  /\ pc[c] = "schema"
  /\ Goto(c, "execute")
  /\ pool' = TRUE
  /\ UNCHANGED <<created, broken, row, attempt, sent, peak, before>>

\* The new pool is dropped without being closed.
SchemaFails(c, retryable) ==
  /\ pc[c] = "schema"
  /\ InitFails(c, retryable)
  /\ broken' = broken + 1
  /\ CountPeak
  /\ UNCHANGED <<pool, created, row, sent, before>>

ExecuteFirst(c) ==   \* mutant: ON CONFLICT DO NOTHING
  /\ pc[c] = "execute"
  /\ Goto(c, "reply")
  /\ row' = IF c \in HealthChecks \/ row[KeyOf[c]] # Nobody THEN row
            ELSE [row EXCEPT ![KeyOf[c]] = c]
  /\ sent' = [sent EXCEPT ![c].statements = @ + 1]
  /\ UNCHANGED <<pool, created, broken, attempt, peak, before>>

\* The statement is executed by the server.
Execute(c) ==
  /\ pc[c] = "execute"
  /\ Goto(c, "reply")
  /\ row' = IF c \in HealthChecks THEN row ELSE [row EXCEPT ![KeyOf[c]] = c]
  /\ sent' = [sent EXCEPT ![c].statements = @ + 1]
  /\ UNCHANGED <<pool, created, broken, attempt, peak, before>>

Return(c) ==
  /\ pc[c] = "reply"
  /\ Goto(c, "done")
  /\ UNCHANGED <<pool, created, broken, row, attempt, sent, peak, before>>

ExecuteFailsUncounted(c, retryable) ==   \* mutant: the statement is repeated without counting
  /\ pc[c] \in Executing
  /\ Goto(c, IF retryable THEN "execute" ELSE "failed")
  /\ UNCHANGED <<pool, created, broken, row, attempt, sent, peak, before>>

ExecuteFails(c, retryable) ==
  /\ pc[c] \in Executing
  /\ OperationFails(c, retryable)
  /\ CountPeak
  /\ UNCHANGED <<pool, created, broken, row, sent, before>>

\* CancelledError passes through retry_async; a pool whose schema was under way is
\* dropped without being closed.
Cancel(c) ==
  /\ pc[c] \in Initialising \cup Executing
  /\ Goto(c, "cancelled")
  /\ broken' = IF pc[c] = "schema" THEN broken + 1 ELSE broken
  /\ UNCHANGED <<pool, created, row, attempt, sent, peak, before>>

-----------------------------------------------------------------------------
Init ==
  /\ pool = FALSE /\ created = 0 /\ broken = 0 /\ peak = 0
  /\ row = [k \in Keys |-> Nobody]
  /\ pc = [c \in Calls |-> "new"]
  /\ attempt = [c \in Calls |-> [operation |-> 1, pool |-> 1]]
  /\ sent = [c \in Calls |-> [pools |-> 0, statements |-> 0]]
  /\ before = [c \in Calls |-> {}]

Work(c) ==
  \/ Connected(c) \/ SchemaEnsured(c) \/ Execute(c) \/ Return(c)
  \/ \E retryable \in BOOLEAN :
       ConnectFails(c, retryable) \/ SchemaFails(c, retryable) \/ ExecuteFails(c, retryable)

Next == \E c \in Calls : Begin(c) \/ Cancel(c) \/ Work(c)

Spec == Init /\ [][Next]_vars

-----------------------------------------------------------------------------
(* Properties *)

TypeOK ==
  /\ pool \in BOOLEAN /\ created \in Nat /\ broken \in 0..created /\ peak \in 0..Cardinality(Calls)
  /\ row \in [Keys -> Calls \cup {Nobody}]
  /\ pc \in [Calls -> {"new"} \cup Initialising \cup Executing \cup Ended]
  /\ attempt \in [Calls -> [operation : 1..MaxAttempts, pool : 1..MaxAttempts]]
  /\ sent \in [Calls -> [pools : Nat, statements : Nat]]
  /\ before \in [Calls -> SUBSET Calls]

\* Every pool stays open, and all but the one in self._pool are leaked.  One leaks
\* for each initialisation that an error or a cancellation breaks off after the pool
\* was created; apart from these there are no more pools than the first callers that
\* overlapped, as whoever comes after self._pool was assigned creates none.
LeaksBounded == created <= peak + broken

\* A write that has returned is never superseded by one that had ended before it
\* began, however often either was sent.
NewestWriteStays ==
  \A c \in Calls \ HealthChecks : pc[c] = "done" =>
    row[KeyOf[c]] # Nobody /\ row[KeyOf[c]] \notin before[c]

\* The retries, one inside the other, are bounded: no call has its statement executed
\* more often than max_attempts, nor creates more pools than the square of it; a
\* health check executes one statement and retries the pool only.
Limit(c) == IF c \in HealthChecks THEN 1 ELSE MaxAttempts
AttemptsBounded ==
  \A c \in Calls : /\ sent[c].statements <= Limit(c)
                   /\ sent[c].pools <= Limit(c) * MaxAttempts
=============================================================================
