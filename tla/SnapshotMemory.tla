----------------------------- MODULE SnapshotMemory -----------------------------
(***************************************************************************)
(* What the session store promises the orchestrator's requests about a     *)
(* thread's memory.  The snapshot of a thread is the sequence of requests  *)
(* whose reasoning it contains; a snapshot written for a request extends   *)
(* one that the thread has had, not necessarily its latest, by exactly     *)
(* that request.  Nothing is promised about which earlier one it is:       *)
(* overlapping requests of a thread may erase each other.                  *)
(***************************************************************************)
EXTENDS Naturals, Sequences, Functions

CONSTANTS Threads, Requests, ThreadOf

VARIABLE history   \* every snapshot a thread has had, latest last

Init == history = [t \in Threads |-> << <<>> >>]

Write(r) ==
  LET h == history[ThreadOf[r]]
  IN  \E i \in DOMAIN h :
        /\ r \notin Range(h[i])
        /\ history' = [history EXCEPT ![ThreadOf[r]] = Append(@, Append(h[i], r))]

Next == \E r \in Requests : Write(r)

Spec == Init /\ [][Next]_history
=============================================================================
