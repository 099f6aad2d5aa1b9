-------------------------- MODULE PhasedExecution --------------------------
(***************************************************************************)
(* What the builders of the filters rely on when they use the task queue:  *)
(* a bulk-synchronous execution.  Work submitted between two barriers      *)
(* forms a phase.  Within a phase the tasks run concurrently and in any    *)
(* order; no task of a phase begins before every task of the earlier       *)
(* phases has ended; a call of execute_tasks returns only once every task  *)
(* has run, and has run once.  Threads, positions of the queue and the     *)
(* barrier do not appear here: module TaskQueue implements this one.       *)
(***************************************************************************)
EXTENDS Naturals

CONSTANTS
  TaskId,     \* names of submitted tasks
  Phase       \* phase numbers: a set of naturals, ordered as they are

VARIABLES
  plan,       \* the submitted tasks, each mapped to its phase
  executing,  \* is a call of execute_tasks in progress?
  begun,      \* how often each submitted task has begun
  ended       \* how often each submitted task has ended

vars == <<plan, executing, begun, ended>>

TypeOK ==
  /\ plan \in UNION {[S -> Phase] : S \in SUBSET TaskId}
  /\ executing \in BOOLEAN
  /\ begun \in [DOMAIN plan -> 0..1]
  /\ ended \in [DOMAIN plan -> 0..1]

Zero(S) == [i \in S |-> 0]

Init ==
  /\ plan = [i \in {} |-> 0]
  /\ executing = FALSE
  /\ begun = Zero({})
  /\ ended = Zero({})

(* A task is submitted to the phase being filled or to a later one. *)
Submit(i, k) ==
  /\ ~executing
  /\ i \notin DOMAIN plan
  /\ \A j \in DOMAIN plan : plan[j] <= k
  /\ plan' = [j \in DOMAIN plan \cup {i} |-> IF j = i THEN k ELSE plan[j]]
  /\ begun' = Zero(DOMAIN plan')
  /\ ended' = Zero(DOMAIN plan')
  /\ UNCHANGED executing

Execute ==
  /\ ~executing
  /\ executing' = TRUE
  /\ UNCHANGED <<plan, begun, ended>>

(* The tasks of the earlier phases are over. *)
PhaseReached(i) ==
  \A j \in DOMAIN plan : plan[j] < plan[i] => ended[j] = 1

Begin(i) ==
  /\ executing
  /\ begun[i] = 0
  /\ PhaseReached(i)
  /\ begun' = [begun EXCEPT ![i] = 1]
  /\ UNCHANGED <<plan, executing, ended>>

End(i) ==
  /\ executing
  /\ begun[i] = 1
  /\ ended[i] = 0
  /\ ended' = [ended EXCEPT ![i] = 1]
  /\ UNCHANGED <<plan, executing, begun>>

(* execute_tasks returns: everything ran, and the queue is empty again. *)
Return ==
  /\ executing
  /\ \A i \in DOMAIN plan : ended[i] = 1
  /\ executing' = FALSE
  /\ plan' = [i \in {} |-> 0]
  /\ begun' = Zero({})
  /\ ended' = Zero({})

Next ==
  \/ \E i \in TaskId, k \in Phase : Submit(i, k)
  \/ Execute
  \/ \E i \in DOMAIN plan : Begin(i) \/ End(i)
  \/ Return

Spec == Init /\ [][Next]_vars
=============================================================================
