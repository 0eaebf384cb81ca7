----------------------------- MODULE MigrationRunner -----------------------------
(***************************************************************************)
(* scripts/apply_migrations.py: runners, of the same or of different       *)
(* releases, over one Postgres database.  Every statement a runner sends   *)
(* is a step.  A migration and the row that tracks it are one transaction: *)
(* neither is visible to others before its commit, and both vanish when    *)
(* the runner raises or is killed.                                         *)
(***************************************************************************)
EXTENDS Naturals, Sequences, Functions

CONSTANTS
  Runners,
  Texts,      \* what a migration file may hold; the checksum tells texts apart
  Releases,   \* the migrations directories a runner may be started with
  Locking,    \* the files whose statements lock a table until the commit
  MaxRuns     \* bound: how often a runner is started

ASSUME MigrationAssumption ==
  /\ \A d \in Releases :
       DOMAIN d \subseteq Nat /\ \A f \in DOMAIN d : d[f] \in Texts
  /\ MaxRuns \in Nat

VARIABLES
  release,   \* the directory a runner reads
  pc,        \* the statement it sends next
  file,      \* the file at hand
  passed,    \* the files its loop has left behind
  runs,      \* how often it was started
  tracked,   \* the committed rows of schema_migrations, file to checksum
  ledger     \* the migrations that were committed, in this order

vars == <<release, pc, file, passed, runs, tracked, ledger>>
database == <<tracked, ledger>>

InTransaction == {"execute", "insert", "commit"}
Running == {"select"} \cup InTransaction

Left(r) == DOMAIN release[r] \ passed[r]
Goto(r, where) == pc' = [pc EXCEPT ![r] = where]

-----------------------------------------------------------------------------
\* run: connect, and create the tracking table unless it is there.
Start(r) ==
  /\ pc[r] \notin Running /\ runs[r] < MaxRuns
  /\ \E d \in Releases : release' = [release EXCEPT ![r] = d]
  /\ Goto(r, "select")
  /\ passed' = [passed EXCEPT ![r] = {}]
  /\ runs' = [runs EXCEPT ![r] = @ + 1]
  /\ UNCHANGED <<file, database>>

SelectLenient(r) ==   \* mutant: a row is enough, its checksum is not compared
  /\ pc[r] = "select"
  /\ \E f \in Left(r) :
       /\ \A g \in Left(r) : f <= g
       /\ file' = [file EXCEPT ![r] = f]
       /\ IF f \notin DOMAIN tracked
          THEN Goto(r, "execute") /\ UNCHANGED passed
          ELSE passed' = [passed EXCEPT ![r] = @ \cup {f}] /\ UNCHANGED pc
  /\ UNCHANGED <<release, runs, database>>

SelectStays(r) ==   \* mutant: the loop does not move on from a file it skips
  /\ pc[r] = "select"
  /\ \E f \in Left(r) :
       /\ \A g \in Left(r) : f <= g
       /\ file' = [file EXCEPT ![r] = f]
       /\ IF f \notin DOMAIN tracked
          THEN Goto(r, "execute")
          ELSE IF tracked[f] = release[r][f] THEN UNCHANGED pc ELSE Goto(r, "failed")
  /\ UNCHANGED <<release, passed, runs, database>>

\* The next file in name order is looked up in the tracking table.
Select(r) ==
  /\ pc[r] = "select"
  /\ \E f \in Left(r) :
       /\ \A g \in Left(r) : f <= g
       /\ file' = [file EXCEPT ![r] = f]
       /\ IF f \notin DOMAIN tracked
          THEN Goto(r, "execute") /\ UNCHANGED passed
          ELSE IF tracked[f] = release[r][f]
          THEN passed' = [passed EXCEPT ![r] = @ \cup {f}] /\ UNCHANGED pc
          ELSE Goto(r, "failed") /\ UNCHANGED passed
  /\ UNCHANGED <<release, runs, database>>

Finish(r) ==
  /\ pc[r] = "select" /\ Left(r) = {}
  /\ Goto(r, "done")
  /\ UNCHANGED <<release, file, passed, runs, database>>

\* The file's statements; those that lock a table wait for its other user.
Execute(r) ==
  /\ pc[r] = "execute"
  /\ file[r] \in Locking =>
       \A o \in Runners : pc[o] \in {"insert", "commit"} => file[o] \notin Locking
  /\ Goto(r, "insert")
  /\ UNCHANGED <<release, file, passed, runs, database>>

InsertUpsert(r) ==   \* mutant: ON CONFLICT DO UPDATE
  /\ pc[r] = "insert"
  /\ \A o \in Runners : pc[o] = "commit" => file[o] # file[r]
  /\ Goto(r, "commit")
  /\ UNCHANGED <<release, file, passed, runs, database>>

\* The row's primary key is the file's name: an uncommitted row with the same
\* key is waited for, a committed one is a unique violation.
Insert(r) ==
  /\ pc[r] = "insert"
  /\ \A o \in Runners : pc[o] = "commit" => file[o] # file[r]
  /\ Goto(r, IF file[r] \in DOMAIN tracked THEN "failed" ELSE "commit")
  /\ UNCHANGED <<release, file, passed, runs, database>>

\* The commit; a connection that breaks on it leaves the runner with an
\* exception although the migration has taken effect.
Commit(r, acknowledged) ==
  /\ pc[r] = "commit"
  /\ tracked' = [f \in DOMAIN tracked \cup {file[r]} |->
                   IF f = file[r] THEN release[r][f] ELSE tracked[f]]
  /\ ledger' = Append(ledger, [file |-> file[r], text |-> release[r][file[r]]])
  /\ Goto(r, IF acknowledged THEN "select" ELSE "failed")
  /\ passed' = [passed EXCEPT ![r] = @ \cup {file[r]}]
  /\ UNCHANGED <<release, file, runs>>

\* A statement raises, or the runner is killed: its transaction is rolled back.
Fail(r) ==
  /\ pc[r] \in Running
  /\ Goto(r, "failed")
  /\ UNCHANGED <<release, file, passed, runs, database>>

Init ==
  /\ release \in [Runners -> Releases]
  /\ pc = [r \in Runners |-> "idle"]
  /\ file = [r \in Runners |-> 0]
  /\ passed = [r \in Runners |-> {}]
  /\ runs = [r \in Runners |-> 0]
  /\ tracked = <<>> /\ ledger = <<>>

Work(r) ==
  Select(r) \/ Finish(r) \/ Execute(r) \/ Insert(r) \/ \E a \in BOOLEAN : Commit(r, a)

Next == \E r \in Runners : Start(r) \/ Work(r) \/ Fail(r)

Spec == Init /\ [][Next]_vars

\* A runner sends its next statement, and Postgres answers once locks are free.
FairSpec == Spec /\ \A r \in Runners : WF_vars(Work(r))

-----------------------------------------------------------------------------
(* Properties *)

Entries == [file : Nat, text : Texts]

TypeOK ==
  /\ release \in [Runners -> Releases]
  /\ pc \in [Runners -> {"idle", "done", "failed"} \cup Running]
  /\ file \in [Runners -> Nat]
  /\ passed \in [Runners -> SUBSET Nat]
  /\ runs \in [Runners -> 0..MaxRuns]
  /\ DOMAIN tracked \subseteq Nat /\ \A f \in DOMAIN tracked : tracked[f] \in Texts
  /\ ledger \in Seq(Entries)

\* A run that reports success leaves every file of its directory in effect, in
\* the very text it has there, whoever applied it and whatever else has failed.
SuccessIsComplete ==
  \A r \in Runners : pc[r] = "done" =>
    \A f \in DOMAIN release[r] : [file |-> f, text |-> release[r][f]] \in Range(ledger)

\* No file takes effect twice or before its predecessors, although runners
\* race from the lookup of a row to its insertion, are killed in between and
\* are started again, from this release or another.
Ledger == INSTANCE MigrationLedger WITH Releases <- Releases, ledger <- ledger
LedgerSpec == Ledger!Spec

\* Every run ends: runners that wait for each other's locks and uncommitted
\* rows never wait forever.
RunsEnd == \A r \in Runners : pc[r] = "select" ~> pc[r] \in {"done", "failed"}
=============================================================================
