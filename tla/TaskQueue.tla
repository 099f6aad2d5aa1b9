----------------------------- MODULE TaskQueue -----------------------------
(***************************************************************************)
(* filters::task::TaskQueue<Enabled> and its Barrier.                      *)
(*                                                                         *)
(* A client fills the queue with add_task and add_barrier and calls        *)
(* execute_tasks, which spawns the worker threads one after the other,     *)
(* joins them and resets the queue.  A worker claims the next position     *)
(* with pos++ and runs the task found there; a barrier is NThreads         *)
(* ordinary tasks, each of which calls Barrier::wait.                      *)
(*                                                                         *)
(* The body of Barrier::wait runs under its mutex, so arriving, testing    *)
(* and notifying are one step; waiting on the condition variable releases  *)
(* the mutex, so being woken and testing the predicate again are steps of  *)
(* their own, and the wake-up may be spurious.                             *)
(*                                                                         *)
(* The phase of a queue entry, begun and ended are history: no guard of    *)
(* an action that models code reads them.                                  *)
(***************************************************************************)
EXTENDS Naturals, Sequences, FiniteSets

CONSTANTS
  NThreads,   \* n_threads of the queue and of its barrier
  MaxTasks    \* bound: length of the task vector a client may build

ASSUME ThreadsAssumption == NThreads \in Nat \ {0}
ASSUME BoundAssumption == MaxTasks \in Nat

VARIABLES
  tasks,      \* the vector of tasks: work of the client or barrier.wait()
  pos,        \* the atomic position of the next task to claim
  counter,    \* Barrier::counter
  generation, \* Barrier::generation
  main,       \* where the thread that owns the queue is
  spawned,    \* number of worker threads it has started
  pc,         \* where each worker is
  claimed,    \* the position each worker claimed last (tasks[claimed] runs)
  lastGen,    \* last_generation, local to Barrier::wait
  begun,      \* history: how often the task at each position has begun
  ended       \* history: how often it has ended

barrierVars == <<counter, generation>>
vars == <<tasks, pos, counter, generation, main, spawned, pc, claimed,
          lastGen, begun, ended>>

Threads == 0 .. NThreads-1
Kind == {"work", "barrier"}
Location == {"none", "fetch", "work", "barrier", "blocked", "woken", "done"}

TypeOK ==
  /\ tasks \in Seq([kind : Kind, phase : Nat])
  /\ pos \in Nat
  /\ counter \in 1..NThreads
  /\ generation \in Nat
  /\ main \in {"submit", "spawn", "join"}
  /\ spawned \in 0..NThreads
  /\ pc \in [Threads -> Location]
  /\ claimed \in [Threads -> Nat]
  /\ lastGen \in [Threads -> Nat]
  /\ begun \in [DOMAIN tasks -> Nat]
  /\ ended \in [DOMAIN tasks -> Nat]

Init ==
  /\ tasks = <<>>
  /\ pos = 0
  /\ counter = NThreads
  /\ generation = 0
  /\ main = "submit"
  /\ spawned = 0
  /\ pc = [t \in Threads |-> "none"]
  /\ claimed = [t \in Threads |-> 0]
  /\ lastGen = [t \in Threads |-> 0]
  /\ begun = <<>>
  /\ ended = <<>>

-----------------------------------------------------------------------------
(* The client. *)

(* History: the phase of the entries added next. *)
NextPhase ==
  IF tasks = <<>> THEN 0
  ELSE LET last == tasks[Len(tasks)]
       IN  IF last.kind = "barrier" THEN last.phase + 1 ELSE last.phase

(* What n entries of one kind added to the vector look like. *)
Entries(n, kind) == [i \in 1..n |-> [kind |-> kind, phase |-> NextPhase]]

Push(entries) ==
  /\ main = "submit"
  /\ Len(tasks) + Len(entries) <= MaxTasks
  /\ tasks' = tasks \o entries
  /\ begun' = [i \in DOMAIN tasks' |-> 0]
  /\ ended' = [i \in DOMAIN tasks' |-> 0]
  /\ UNCHANGED <<pos, counter, generation, main, spawned, pc, claimed, lastGen>>

add_task == Push(Entries(1, "work"))

(* Faulty variant: one thread's entry is missing. *)
ShortBarrier == Push(Entries(NThreads - 1, "barrier"))

add_barrier == Push(Entries(NThreads, "barrier"))

execute_tasks ==
  /\ main = "submit"
  /\ main' = "spawn"
  /\ UNCHANGED <<tasks, pos, counter, generation, spawned, pc, claimed,
                 lastGen, begun, ended>>

(* The loop over threads.emplace_back: the worker runs at once, before the  *)
(* next one exists.                                                         *)
Spawn ==
  /\ main = "spawn"
  /\ spawned' = spawned + 1
  /\ pc' = [pc EXCEPT ![spawned] = "fetch"]
  /\ main' = IF spawned' = NThreads THEN "join" ELSE "spawn"
  /\ UNCHANGED <<tasks, pos, counter, generation, claimed, lastGen, begun, ended>>

(* join of every thread, then reset(). *)
JoinAndReset ==
  /\ main = "join"
  /\ \A t \in Threads : pc[t] = "done"
  /\ tasks' = <<>>
  /\ begun' = <<>>
  /\ ended' = <<>>
  /\ counter' = NThreads
  /\ generation' = 0
  /\ spawned' = 0
  /\ pc' = [t \in Threads |-> "none"]
  /\ claimed' = [t \in Threads |-> 0]
  /\ lastGen' = [t \in Threads |-> 0]
  /\ pos' = 0
  /\ main' = "submit"

-----------------------------------------------------------------------------
(* A worker: execute_next_task in a loop. *)

(* Faulty variant: the position is read but not advanced. *)
ClaimWithoutAdvance(t) ==
  /\ pc[t] = "fetch"
  /\ pos < Len(tasks)
  /\ claimed' = [claimed EXCEPT ![t] = pos + 1]
  /\ pc' = [pc EXCEPT ![t] = tasks[pos + 1].kind]
  /\ begun' = [begun EXCEPT ![pos + 1] = @ + 1]
  /\ pos' \in {pos, pos + 1}
  /\ UNCHANGED <<tasks, counter, generation, main, spawned, lastGen, ended>>

ClaimTask(t) ==
  /\ pc[t] = "fetch"
  /\ pos < Len(tasks)
  /\ pos' = pos + 1
  /\ claimed' = [claimed EXCEPT ![t] = pos + 1]
  /\ pc' = [pc EXCEPT ![t] = tasks[pos + 1].kind]
  /\ begun' = [begun EXCEPT ![pos + 1] = @ + 1]
  /\ UNCHANGED <<tasks, counter, generation, main, spawned, lastGen, ended>>

ClaimNothing(t) ==
  /\ pc[t] = "fetch"
  /\ pos >= Len(tasks)
  /\ pos' = pos + 1
  /\ pc' = [pc EXCEPT ![t] = "done"]
  /\ UNCHANGED <<tasks, counter, generation, main, spawned, claimed, lastGen,
                 begun, ended>>

FinishWork(t) ==
  /\ pc[t] = "work"
  /\ pc' = [pc EXCEPT ![t] = "fetch"]
  /\ ended' = [ended EXCEPT ![claimed[t]] = @ + 1]
  /\ UNCHANGED <<tasks, pos, counter, generation, main, spawned, claimed,
                 lastGen, begun>>

(* Barrier::wait up to its cond.wait. *)
ArriveEarly(t) ==
  /\ pc[t] = "barrier"
  /\ counter # 1
  /\ counter' = counter - 1
  /\ lastGen' = [lastGen EXCEPT ![t] = generation]
  /\ pc' = [pc EXCEPT ![t] = "blocked"]
  /\ UNCHANGED <<tasks, pos, generation, main, spawned, claimed, begun, ended>>

(* Faulty variant: the counter is not set back. *)
ArriveLastWithoutReset(t) ==
  /\ pc[t] = "barrier"
  /\ counter = 1
  /\ counter' = counter - 1
  /\ generation' = generation + 1
  /\ pc' = [u \in Threads |-> IF u = t THEN "fetch"
                              ELSE IF pc[u] = "blocked" THEN "woken" ELSE pc[u]]
  /\ UNCHANGED <<tasks, pos, main, spawned, claimed, lastGen, begun, ended>>

(* Faulty variant: the last to arrive notifies one thread only. *)
ArriveLastNotifyOne(t) ==
  /\ pc[t] = "barrier"
  /\ counter = 1
  /\ counter' = NThreads
  /\ generation' = generation + 1
  /\ LET blocked == {u \in Threads : pc[u] = "blocked"}
     IN  \/ \E u \in blocked : pc' = [pc EXCEPT ![t] = "fetch", ![u] = "woken"]
         \/ blocked = {} /\ pc' = [pc EXCEPT ![t] = "fetch"]
  /\ UNCHANGED <<tasks, pos, main, spawned, claimed, lastGen, begun, ended>>

(* Barrier::wait of the thread that completes the generation: notify_all   *)
(* wakes every thread blocked on the condition variable.                   *)
ArriveLast(t) ==
  /\ pc[t] = "barrier"
  /\ counter = 1
  /\ counter' = NThreads
  /\ generation' = generation + 1
  /\ pc' = [u \in Threads |-> IF u = t THEN "fetch"
                              ELSE IF pc[u] = "blocked" THEN "woken" ELSE pc[u]]
  /\ UNCHANGED <<tasks, pos, main, spawned, claimed, lastGen, begun, ended>>

SpuriousWakeup(t) ==
  /\ pc[t] = "blocked"
  /\ pc' = [pc EXCEPT ![t] = "woken"]
  /\ UNCHANGED <<tasks, pos, counter, generation, main, spawned, claimed,
                 lastGen, begun, ended>>

(* Faulty variant: wait without a predicate. *)
LeaveUntested(t) ==
  /\ pc[t] = "woken"
  /\ pc' = [pc EXCEPT ![t] = "fetch"]
  /\ UNCHANGED <<tasks, pos, counter, generation, main, spawned, claimed,
                 lastGen, begun, ended>>

(* A woken thread owns the mutex again and tests the predicate. *)
Leave(t) ==
  /\ pc[t] = "woken"
  /\ lastGen[t] # generation
  /\ pc' = [pc EXCEPT ![t] = "fetch"]
  /\ UNCHANGED <<tasks, pos, counter, generation, main, spawned, claimed,
                 lastGen, begun, ended>>

WaitAgain(t) ==
  /\ pc[t] = "woken"
  /\ lastGen[t] = generation
  /\ pc' = [pc EXCEPT ![t] = "blocked"]
  /\ UNCHANGED <<tasks, pos, counter, generation, main, spawned, claimed,
                 lastGen, begun, ended>>

-----------------------------------------------------------------------------
Worker(t) ==
  \/ ClaimTask(t) \/ ClaimNothing(t) \/ FinishWork(t)
  \/ ArriveEarly(t) \/ ArriveLast(t) \/ Leave(t) \/ WaitAgain(t)

Next ==
  \/ add_task \/ add_barrier \/ execute_tasks \/ Spawn \/ JoinAndReset
  \/ \E t \in Threads : Worker(t) \/ SpuriousWakeup(t)

Spec == Init /\ [][Next]_vars

(* Every thread the program started keeps being scheduled and the work of  *)
(* the client terminates; nothing makes the client call, and nothing       *)
(* makes a wake-up spurious.                                               *)
Fairness ==
  /\ WF_vars(Spawn) /\ WF_vars(JoinAndReset)
  /\ \A t \in Threads : WF_vars(Worker(t))

FairSpec == Spec /\ Fairness

-----------------------------------------------------------------------------
(* Properties. *)

WorkItems == {i \in DOMAIN tasks : tasks[i].kind = "work"}
BarrierItems(k) == {i \in DOMAIN tasks : tasks[i].kind = "barrier" /\ tasks[i].phase = k}

(* Workers inside the current generation of the barrier. *)
Waiting == {t \in Threads : pc[t] \in {"blocked", "woken"} /\ lastGen[t] = generation}

(* No task that follows a barrier begins before every task that precedes   *)
(* the barrier has ended, although a barrier is only NThreads entries of   *)
(* the queue that any worker may claim in any order.  The phases of        *)
(* PartitionSet::init and the filters' construct depend on it.             *)
PhaseSeparation ==
  \A i, j \in WorkItems :
    begun[i] > 0 /\ tasks[j].phase < tasks[i].phase => ended[j] = 1

(* No worker leaves execute_tasks while another one still waits in a       *)
(* barrier for it: otherwise the join would hang.                          *)
NoOneLeftBehind ==
  (\E t \in Threads : pc[t] = "done") =>
     Waiting = {} /\ \A t \in Threads : pc[t] # "barrier"

(* Every call of execute_tasks returns. *)
ExecuteReturns == main = "spawn" ~> main = "submit"

(* The queue implements a phased execution of the client's tasks. *)
Phased == INSTANCE PhasedExecution WITH
  TaskId    <- 1..MaxTasks,
  Phase     <- 0..MaxTasks,
  plan      <- [i \in WorkItems |-> tasks[i].phase],
  executing <- main # "submit",
  begun     <- [i \in WorkItems |-> begun[i]],
  ended     <- [i \in WorkItems |-> ended[i]]

(* Every behaviour of the queue is, seen through the tasks alone, a        *)
(* bulk-synchronous execution that runs each of them exactly once before   *)
(* execute_tasks returns.                                                  *)
ImplementsPhased == Phased!Spec
-----------------------------------------------------------------------------
(* The inductive invariant behind PhaseSeparation and NoOneLeftBehind. *)

(* The vector: phases do not decrease, the work of a phase precedes its    *)
(* barrier, and a barrier is one run of NThreads entries.                  *)
VectorInv ==
  /\ Len(tasks) <= MaxTasks
  /\ \A i \in DOMAIN tasks : tasks[i].phase < i
  /\ \A i, j \in DOMAIN tasks :
       i < j => /\ tasks[i].phase <= tasks[j].phase
                /\ tasks[i].kind = "barrier" /\ tasks[j].kind = "work"
                     => tasks[i].phase < tasks[j].phase
  /\ \A i \in DOMAIN tasks, k \in 0..MaxTasks :
       k < tasks[i].phase => BarrierItems(k) # {}
  /\ \A k \in 0..MaxTasks :
       BarrierItems(k) # {} =>
         \E s \in 0..MaxTasks : BarrierItems(k) = s+1 .. s+NThreads

(* Nothing runs outside execute_tasks. *)
MainInv ==
  /\ main = "submit" => pos = 0 /\ generation = 0 /\ spawned = 0
  /\ main = "spawn" => spawned < NThreads
  /\ main = "join" => spawned = NThreads
  /\ \A t \in Threads : pc[t] = "none" <=> t >= spawned

Active(t) == pc[t] \in {"work", "barrier", "blocked", "woken"}

(* Each active worker owns a claimed position of its own, of the kind its  *)
(* location says and of the current phase unless a completed generation    *)
(* of the barrier has released it.                                         *)
ClaimInv ==
  /\ \A t \in Threads : Active(t) =>
       /\ claimed[t] \in DOMAIN tasks
       /\ claimed[t] <= pos
       /\ tasks[claimed[t]].kind = (IF pc[t] = "work" THEN "work" ELSE "barrier")
       /\ tasks[claimed[t]].phase =
            (IF pc[t] \in {"work", "barrier"} THEN generation ELSE lastGen[t])
       /\ pc[t] \in {"blocked", "woken"} => lastGen[t] <= generation
  /\ \A t, u \in Threads :
       Active(t) /\ Active(u) /\ t # u => claimed[t] # claimed[u]

InBarrier == {t \in Threads : pc[t] = "barrier"} \cup Waiting

(* The generation of the barrier is the phase the queue has reached.       *)
GenerationInv ==
  /\ counter = NThreads - Cardinality(Waiting)
  /\ \A i \in DOMAIN tasks :
       /\ i <= pos => tasks[i].phase <= generation
       /\ tasks[i].phase < generation => i <= pos
  /\ \A i \in BarrierItems(generation) :
       i <= pos => \E t \in InBarrier : claimed[t] = i
  /\ (\E t \in Threads : pc[t] = "done") =>
       /\ Len(tasks) <= pos
       /\ \A i \in DOMAIN tasks :
            tasks[i].kind = "barrier" => tasks[i].phase < generation

(* What has begun and what has ended. *)
HistoryInv ==
  \A i \in WorkItems :
    /\ begun[i] = (IF i <= pos THEN 1 ELSE 0)
    /\ ended[i] \in 0..begun[i]
    /\ ended[i] = 0 /\ i <= pos => \E t \in Threads : pc[t] = "work" /\ claimed[t] = i
    /\ \A t \in Threads : pc[t] = "work" /\ claimed[t] = i => ended[i] = 0
    /\ tasks[i].phase < generation => ended[i] = 1

(* The barrier's generation is the phase the queue has reached, its counter  *)
(* the number of workers that have yet to arrive, and each active worker owns *)
(* a claimed entry of the vector of its own: what makes the entries of a      *)
(* barrier, claimed in any order, separate the phases.                        *)
IInv ==
  TypeOK /\ VectorInv /\ MainInv /\ ClaimInv /\ GenerationInv /\ HistoryInv
=============================================================================
