----------------------------- MODULE TaskProofs -----------------------------
(***************************************************************************)
(* Proofs about the tasks of the filters.                                  *)
(*                                                                         *)
(* TaskQueue, for every number of threads and every program: the inductive *)
(* invariant IInv, and from it type correctness, phase separation, the     *)
(* absence of a thread left behind in a barrier, and the refinement of     *)
(* PhasedExecution.                                                        *)
(*                                                                         *)
(* CountTasks, for every number of partitions, keys and tasks: however the *)
(* keys are dealt out, each is looked at by exactly one task, and the      *)
(* counter ends at the number of keys.                                     *)
(***************************************************************************)
EXTENDS TaskQueue, CountTasks, NaturalLemmas,
        FiniteSetTheorems, FunctionTheorems, SequenceTheorems, TLAPS

-----------------------------------------------------------------------------
(* The queue and its barrier. *)

(* The workers are a finite set of NThreads elements. *)
LEMMA ThreadsFinite ==
  /\ IsFiniteSet(Threads)
  /\ Cardinality(Threads) = NThreads
  /\ Threads # {}
  /\ \A S \in SUBSET Threads : IsFiniteSet(S) /\ Cardinality(S) \in 0..NThreads
<1>1. /\ IsFiniteSet(Threads)
      /\ Cardinality(Threads) = NThreads
  BY ThreadsAssumption, FS_Interval DEF Threads
<1>2. ASSUME NEW S \in SUBSET Threads
      PROVE  IsFiniteSet(S) /\ Cardinality(S) \in 0..NThreads
  BY <1>1, FS_Subset, FS_CardinalityType, ThreadsAssumption
<1>3. 0 \in Threads
  BY ThreadsAssumption DEF Threads
<1> QED
  BY <1>1, <1>2, <1>3

(* The vector as TypeOK describes it. *)
LEMMA VectorTyped ==
  ASSUME TypeOK
  PROVE  /\ Len(tasks) \in Nat
         /\ DOMAIN tasks = 1 .. Len(tasks)
         /\ \A i \in DOMAIN tasks : /\ tasks[i].kind \in {"work", "barrier"}
                                    /\ tasks[i].phase \in Nat
<1>1. /\ Len(tasks) \in Nat
      /\ DOMAIN tasks = 1 .. Len(tasks)
      /\ tasks \in [1 .. Len(tasks) -> [kind : Kind, phase : Nat]]
  BY LenProperties DEF TypeOK
<1>2. ASSUME NEW i \in DOMAIN tasks
      PROVE  tasks[i].kind \in {"work", "barrier"} /\ tasks[i].phase \in Nat
  <2>1. tasks[i] \in [kind : Kind, phase : Nat]
    BY <1>1
  <2> QED
    BY <2>1 DEF Kind
<1> QED
  BY <1>1, <1>2

(* What Push leaves in the vector. *)
LEMMA PushShape ==
  ASSUME TypeOK, NEW n \in Nat, NEW kind \in Kind, Push(Entries(n, kind))
  PROVE  /\ tasks' \in Seq([kind : Kind, phase : Nat])
         /\ Len(tasks') = Len(tasks) + n
         /\ DOMAIN tasks' = 1 .. Len(tasks) + n
         /\ \A i \in DOMAIN tasks' :
              tasks'[i] = IF i <= Len(tasks) THEN tasks[i]
                          ELSE [kind |-> kind, phase |-> NextPhase]
         /\ NextPhase \in Nat
<1> DEFINE E == Entries(n, kind)
<1>1. NextPhase \in Nat
  <2>1. CASE tasks = <<>>
    BY <2>1 DEF NextPhase
  <2>2. CASE tasks # <<>>
    <3>1. Len(tasks) \in DOMAIN tasks
      BY <2>2, EmptySeq, LenProperties DEF TypeOK
    <3>2. tasks[Len(tasks)] \in [kind : Kind, phase : Nat]
      BY <3>1, ElementOfSeq, LenProperties DEF TypeOK
    <3> QED
      BY <2>2, <3>2 DEF NextPhase
  <2> QED
    BY <2>1, <2>2
<1>2. /\ E \in Seq([kind : Kind, phase : Nat])
      /\ Len(E) = n
      /\ \A i \in 1..n : E[i] = [kind |-> kind, phase |-> NextPhase]
  BY <1>1, IsASeq, LenProperties DEF Entries
<1>3. tasks' = tasks \o E
  BY DEF Push
<1> HIDE DEF E
<1>4. /\ tasks \o E \in Seq([kind : Kind, phase : Nat])
      /\ Len(tasks \o E) = Len(tasks) + Len(E)
      /\ \A i \in 1 .. Len(tasks) + Len(E) :
           (tasks \o E)[i] = IF i <= Len(tasks) THEN tasks[i] ELSE E[i - Len(tasks)]
  BY <1>2, ConcatProperties DEF TypeOK
<1>5. Len(tasks) \in Nat
  BY LenProperties DEF TypeOK
<1>6. DOMAIN tasks' = 1 .. Len(tasks')
  BY <1>3, <1>4, LenProperties
<1> QED
  BY <1>1, <1>2, <1>3, <1>4, <1>5, <1>6

(* add_task and add_barrier are both a Push of entries of one kind. *)
LEMMA PushOfClient ==
  ASSUME IInv, add_task \/ add_barrier
  PROVE  \E n \in Nat \ {0}, kind \in Kind :
           /\ Push(Entries(n, kind))
           /\ kind = "work" => n = 1
           /\ kind = "barrier" => n = NThreads
<1>1. CASE add_task
  BY <1>1, 1 \in Nat \ {0} DEF add_task, Kind
<1>2. CASE add_barrier
  BY <1>2, ThreadsAssumption DEF add_barrier, Kind
<1> QED
  BY <1>1, <1>2

-----------------------------------------------------------------------------
(* IInv holds initially. *)

(* The invariant holds of a queue just constructed. *)
LEMMA InitIInv == Init => IInv
<1> SUFFICES ASSUME Init PROVE IInv
  OBVIOUS
<1> USE ThreadsAssumption, BoundAssumption, ThreadsFinite DEF Init
<1>1. TypeOK
  BY EmptySeq DEF TypeOK, Location, Kind, Threads
<1>2. DOMAIN tasks = {} /\ Len(tasks) = 0
  BY EmptySeq
<1>3. VectorInv
  BY <1>2 DEF VectorInv, BarrierItems
<1>4. MainInv
  BY DEF MainInv, Threads
<1>5. ClaimInv
  BY DEF ClaimInv, Active
<1>6. GenerationInv
  <2>1. Waiting = {}
    BY DEF Waiting
  <2> QED
    BY <1>2, <2>1, FS_EmptySet DEF GenerationInv, BarrierItems
<1>7. HistoryInv
  BY <1>2 DEF HistoryInv, WorkItems
<1> QED
  BY <1>1, <1>3, <1>4, <1>5, <1>6, <1>7 DEF IInv

-----------------------------------------------------------------------------
(* TypeOK is preserved. *)

(* Every step preserves the type of the state. *)
LEMMA TypeStep ==
  ASSUME IInv, [Next]_vars
  PROVE  TypeOK'
<1> USE ThreadsAssumption DEF IInv
<1>1. CASE add_task \/ add_barrier
  <2>1. PICK n \in Nat \ {0}, kind \in Kind : Push(Entries(n, kind))
    BY <1>1, PushOfClient
  <2>2. tasks' \in Seq([kind : Kind, phase : Nat])
    BY <2>1, PushShape
  <2> QED
    BY <2>1, <2>2 DEF Push, TypeOK
<1>2. CASE execute_tasks
  BY <1>2 DEF execute_tasks, TypeOK
<1>3. CASE Spawn
  BY <1>3 DEF Spawn, TypeOK, MainInv, Location, Threads
<1>4. CASE JoinAndReset
  BY <1>4, EmptySeq DEF JoinAndReset, TypeOK, Location
<1>5. ASSUME NEW t \in Threads, Worker(t) \/ SpuriousWakeup(t)
      PROVE  TypeOK'
  <2>1. CASE ClaimTask(t)
    <3>1. pos + 1 \in DOMAIN tasks
      BY <2>1, VectorTyped DEF ClaimTask, TypeOK
    <3>2. tasks[pos + 1].kind \in Location
      BY <3>1, VectorTyped DEF Location
    <3> QED
      BY <2>1, <3>1, <3>2 DEF ClaimTask, TypeOK
  <2>2. CASE ClaimNothing(t)
    BY <2>2 DEF ClaimNothing, TypeOK, Location
  <2>3. CASE FinishWork(t)
    <3>1. claimed[t] \in DOMAIN tasks
      BY <2>3 DEF FinishWork, ClaimInv, Active
    <3>2. ended[claimed[t]] + 1 \in Nat
      BY <3>1 DEF TypeOK
    <3> QED
      BY <2>3, <3>1, <3>2 DEF FinishWork, TypeOK, Location
  <2>4. CASE ArriveEarly(t)
    BY <2>4 DEF ArriveEarly, TypeOK, Location
  <2>5. CASE ArriveLast(t)
    BY <2>5 DEF ArriveLast, TypeOK, Location
  <2>6. CASE Leave(t)
    BY <2>6 DEF Leave, TypeOK, Location
  <2>7. CASE WaitAgain(t)
    BY <2>7 DEF WaitAgain, TypeOK, Location
  <2>8. CASE SpuriousWakeup(t)
    BY <2>8 DEF SpuriousWakeup, TypeOK, Location
  <2> QED
    BY <1>5, <2>1, <2>2, <2>3, <2>4, <2>5, <2>6, <2>7, <2>8 DEF Worker
<1>6. CASE UNCHANGED vars
  BY <1>6 DEF vars, TypeOK
<1> QED
  BY <1>1, <1>2, <1>3, <1>4, <1>5, <1>6 DEF Next

-----------------------------------------------------------------------------
(* The vector is well formed at every moment. *)

(* Every step preserves the shape of the vector: add_task and add_barrier extend it. *)
LEMMA VectorStep ==
  ASSUME IInv, [Next]_vars
  PROVE  VectorInv'
<1> USE ThreadsAssumption, BoundAssumption DEF IInv
<1>1. CASE add_task \/ add_barrier
  <2>1. PICK n \in Nat \ {0}, kind \in Kind :
          /\ Push(Entries(n, kind))
          /\ kind = "work" => n = 1
          /\ kind = "barrier" => n = NThreads
    BY <1>1, PushOfClient
  <2> DEFINE L == Len(tasks)
             P == NextPhase
  <2>2. /\ Len(tasks') = L + n
        /\ DOMAIN tasks' = 1 .. L + n
        /\ \A i \in DOMAIN tasks' :
             tasks'[i] = IF i <= L THEN tasks[i] ELSE [kind |-> kind, phase |-> P]
        /\ P \in Nat
    BY <2>1, PushShape
  <2>3. /\ L \in Nat
        /\ DOMAIN tasks = 1 .. L
        /\ \A i \in DOMAIN tasks : tasks[i].kind \in Kind /\ tasks[i].phase \in Nat
    BY VectorTyped DEF Kind
  <2>4. /\ tasks = <<>> => P = 0 /\ L = 0
        /\ tasks # <<>> => /\ L \in DOMAIN tasks
                           /\ tasks[L].kind = "barrier" => P = tasks[L].phase + 1
                           /\ tasks[L].kind # "barrier" => P = tasks[L].phase
    BY <2>3, EmptySeq DEF NextPhase, TypeOK
  <2>5. L + n <= MaxTasks
    BY <2>1, <2>2 DEF Push, Entries
  <2>6. /\ P <= L
        /\ \A i \in DOMAIN tasks : /\ tasks[i].phase <= P
                                   /\ tasks[i].kind = "barrier" => tasks[i].phase < P
    <3>1. CASE tasks = <<>>
      BY <3>1, <2>3, <2>4
    <3>2. CASE tasks # <<>>
      <4>1. P <= L
        BY <3>2, <2>3, <2>4 DEF VectorInv
      <4>2. ASSUME NEW i \in DOMAIN tasks
            PROVE  /\ tasks[i].phase <= P
                   /\ tasks[i].kind = "barrier" => tasks[i].phase < P
        <5>1. CASE i = L
          BY <5>1, <3>2, <2>3, <2>4
        <5>2. CASE i # L
          BY <5>2, <3>2, <2>3, <2>4 DEF VectorInv, Kind
        <5> QED
          BY <5>1, <5>2
      <4> QED
        BY <4>1, <4>2
    <3> QED
      BY <3>1, <3>2
  <2> HIDE DEF L, P
  <2>7. \A k \in 0..MaxTasks :
          BarrierItems(k)' = IF kind = "barrier" /\ k = P THEN L+1 .. L+n
                             ELSE BarrierItems(k)
    BY <2>2, <2>3, <2>6 DEF BarrierItems, Kind
  <2>8. \A k \in 0..MaxTasks : k < P => BarrierItems(k) # {}
    <3>1. CASE tasks = <<>>
      BY <3>1, <2>3, <2>4
    <3>2. CASE tasks # <<>>
      BY <3>2, <2>3, <2>4 DEF VectorInv, BarrierItems
    <3> QED
      BY <3>1, <3>2
  <2>9. (Len(tasks) <= MaxTasks)' /\ \A i \in DOMAIN tasks' : tasks'[i].phase < i
    BY <2>2, <2>3, <2>5, <2>6 DEF VectorInv
  <2>10. \A i, j \in DOMAIN tasks' :
           i < j => /\ tasks'[i].phase <= tasks'[j].phase
                    /\ tasks'[i].kind = "barrier" /\ tasks'[j].kind = "work"
                         => tasks'[i].phase < tasks'[j].phase
    BY <2>2, <2>3, <2>6 DEF VectorInv
  <2>11. \A i \in DOMAIN tasks', k \in 0..MaxTasks :
           k < tasks'[i].phase => BarrierItems(k)' # {}
    <3> SUFFICES ASSUME NEW i \in DOMAIN tasks', NEW k \in 0..MaxTasks,
                        k < tasks'[i].phase
                 PROVE  BarrierItems(k)' # {}
      OBVIOUS
    <3>1. BarrierItems(k) # {}
      BY <2>2, <2>3, <2>6, <2>8 DEF VectorInv
    <3>2. L + 1 \in L+1 .. L+n
      BY <2>3
    <3> QED
      BY <3>1, <3>2, <2>7
  <2>12. \A k \in 0..MaxTasks :
           BarrierItems(k)' # {} =>
             \E s \in 0..MaxTasks : BarrierItems(k)' = s+1 .. s+NThreads
    BY <2>1, <2>3, <2>5, <2>7 DEF VectorInv
  <2> QED
    BY <2>9, <2>10, <2>11, <2>12 DEF VectorInv
<1>2. CASE JoinAndReset
  <2>1. DOMAIN tasks' = {} /\ Len(tasks') = 0
    BY <1>2, EmptySeq DEF JoinAndReset
  <2> QED
    BY <2>1 DEF VectorInv, BarrierItems
<1>3. CASE UNCHANGED tasks
  BY <1>3 DEF VectorInv, BarrierItems
<1>4. CASE execute_tasks \/ Spawn \/ \E t \in Threads : Worker(t) \/ SpuriousWakeup(t)
  BY <1>3, <1>4 DEF execute_tasks, Spawn, Worker, ClaimTask, ClaimNothing, FinishWork,
       ArriveEarly, ArriveLast, Leave, WaitAgain, SpuriousWakeup
<1> QED
  BY <1>1, <1>2, <1>3, <1>4 DEF Next, vars


-----------------------------------------------------------------------------
(* reset() brings back the initial state, so IInv with it. *)

(* The join of all threads and reset() lead back to an empty queue. *)
LEMMA ResetStep == JoinAndReset => IInv'
<1>1. JoinAndReset => Init'
  BY DEF JoinAndReset, Init
<1>2. Init' => IInv'
  BY InitIInv, PTL
<1> QED
  BY <1>1, <1>2

-----------------------------------------------------------------------------
(* Two facts about the barrier, by counting threads. *)

(* No worker exists while the client fills the vector. *)
LEMMA IdleWhileSubmitting ==
  ASSUME IInv, main = "submit"
  PROVE  \A t \in Threads : pc[t] = "none"
BY ThreadsAssumption DEF IInv, MainInv, Threads

(* The workers waiting in the barrier are finitely many. *)
LEMMA WaitingSubset ==
  /\ Waiting \subseteq Threads
  /\ InBarrier \subseteq Threads
BY DEF Waiting, InBarrier

(* A barrier that has entries has NThreads of them. *)
LEMMA BarrierSize ==
  ASSUME IInv, BarrierItems(generation) # {}
  PROVE  /\ IsFiniteSet(BarrierItems(generation))
         /\ Cardinality(BarrierItems(generation)) = NThreads
<1>1. PICK i \in BarrierItems(generation) : TRUE
  OBVIOUS
<1>2. i \in DOMAIN tasks /\ tasks[i].phase = generation
  BY <1>1 DEF BarrierItems
<1>3. generation \in 0..MaxTasks
  BY <1>2, VectorTyped, BoundAssumption DEF IInv, VectorInv
<1>4. PICK s \in 0..MaxTasks : BarrierItems(generation) = s+1 .. s+NThreads
  BY <1>3 DEF IInv, VectorInv
<1> QED
  BY <1>4, FS_Interval, ThreadsAssumption

(* While a worker is outside the barrier, an entry of the current barrier  *)
(* is left in the vector: the others cannot have claimed them all.         *)
LEMMA BarrierNotExhausted ==
  ASSUME IInv, NEW t \in Threads, t \notin InBarrier,
         BarrierItems(generation) # {}
  PROVE  \E i \in BarrierItems(generation) : pos < i
<1> SUFFICES ASSUME \A i \in BarrierItems(generation) : ~ (pos < i)
             PROVE  FALSE
  OBVIOUS
<1> DEFINE B == BarrierItems(generation)
           f == [i \in B |-> CHOOSE u \in InBarrier : claimed[u] = i]
<1>1. \A i \in B : i <= pos
  <2>1. TypeOK
    BY DEF IInv
  <2>2. pos \in Nat /\ DOMAIN tasks = 1 .. Len(tasks)
    BY <2>1, VectorTyped DEF TypeOK
  <2>3. \A i \in B : i \in DOMAIN tasks
    BY DEF BarrierItems
  <2> QED
    BY <2>2, <2>3
<1>2. \A i \in B : \E u \in InBarrier : claimed[u] = i
  BY <1>1 DEF IInv, GenerationInv
<1>3. \A i \in B : f[i] \in InBarrier /\ claimed[f[i]] = i
  BY <1>2
<1>4. IsFiniteSet(B) /\ Cardinality(B) = NThreads
  BY BarrierSize
<1>5. /\ IsFiniteSet(Threads \ {t})
      /\ Cardinality(Threads \ {t}) = NThreads - 1
  BY ThreadsFinite, FS_RemoveElement
<1>6. InBarrier \in SUBSET (Threads \ {t})
  BY WaitingSubset
<1>7. IsFiniteSet(InBarrier) /\ Cardinality(InBarrier) <= NThreads - 1
  BY <1>5, <1>6, FS_Subset
<1>8. Cardinality(InBarrier) < Cardinality(B)
  BY <1>4, <1>7, ThreadsAssumption, FS_CardinalityType
<1>9. f \in [B -> InBarrier]
  BY <1>3
<1> HIDE DEF f, B
<1>10. \E x, y \in B : x # y /\ f[x] = f[y]
  BY <1>4, <1>7, <1>8, <1>9, FS_PigeonHole
<1> QED
  BY <1>3, <1>10

(* The thread that completes a generation finds every other one waiting,   *)
(* every entry of the phase claimed and its work ended.                    *)
LEMMA AllArrived ==
  ASSUME IInv, NEW t \in Threads, pc[t] = "barrier", counter = 1
  PROVE  /\ \A u \in Threads \ {t} : u \in Waiting
         /\ \A i \in DOMAIN tasks : tasks[i].phase <= generation => i <= pos
         /\ \A i \in WorkItems : i <= pos => ended[i] = 1
<1> USE DEF IInv
<1>1. /\ IsFiniteSet(Threads \ {t})
      /\ Cardinality(Threads \ {t}) = NThreads - 1
  BY ThreadsFinite, FS_RemoveElement
<1>2. Waiting \in SUBSET (Threads \ {t})
  BY WaitingSubset DEF Waiting
<1>3. Cardinality(Waiting) = NThreads - 1
  BY ThreadsFinite, ThreadsAssumption, WaitingSubset DEF GenerationInv
<1>4. Waiting = Threads \ {t}
  BY <1>1, <1>2, <1>3, FS_Subset
<1>5. \A u \in Threads : /\ u # t => pc[u] \in {"blocked", "woken"}
                         /\ claimed[u] \in BarrierItems(generation)
                         /\ claimed[u] <= pos
  BY <1>4 DEF Waiting, ClaimInv, Active, BarrierItems
<1>6. \A i \in BarrierItems(generation) : i <= pos
  <2> DEFINE B == BarrierItems(generation)
             f == [u \in Threads |-> claimed[u]]
  <2>1. IsFiniteSet(B) /\ Cardinality(B) = NThreads
    BY <1>5, BarrierSize
  <2>2. \A u, v \in Threads : f[u] = f[v] => u = v
    BY <1>5 DEF ClaimInv, Active
  <2>3. f \in [Threads -> B]
    BY <1>5
  <2>4. f \in Injection(Threads, B)
    BY <2>2, <2>3, Fun_IsInj
  <2>5. f \in Surjection(Threads, B)
    BY <2>1, <2>4, ThreadsFinite, FS_Injection
  <2>6. \A i \in B : \E u \in Threads : f[u] = i
    BY <2>5, Fun_SurjectionProperties
  <2> QED
    BY <2>6, <1>5
<1>7. ASSUME NEW i \in DOMAIN tasks, tasks[i].phase <= generation
      PROVE  i <= pos
  <2>1. CASE tasks[i].phase < generation
    BY <2>1 DEF GenerationInv
  <2>2. CASE tasks[i].phase = generation /\ tasks[i].kind = "barrier"
    BY <2>2, <1>6 DEF BarrierItems
  <2>3. CASE tasks[i].phase = generation /\ tasks[i].kind = "work"
    <3>1. /\ claimed[t] \in DOMAIN tasks
          /\ tasks[claimed[t]].kind = "barrier"
          /\ tasks[claimed[t]].phase = generation
      BY <1>5 DEF BarrierItems
    <3>2. ~ (claimed[t] < i)
      BY <2>3, <3>1, VectorTyped DEF VectorInv
    <3> QED
      BY <1>5, <3>1, <3>2, VectorTyped DEF TypeOK
  <2> QED
    BY <1>7, <2>1, <2>2, <2>3, VectorTyped DEF TypeOK
<1>8. ASSUME NEW i \in WorkItems, i <= pos
      PROVE  ended[i] = 1
  <2>1. \A u \in Threads : pc[u] # "work"
    BY <1>5
  <2>2. ended[i] # 0 /\ ended[i] \in 0..1
    BY <1>8, <2>1 DEF HistoryInv
  <2> QED
    BY <2>2
<1> QED
  BY <1>4, <1>7, <1>8

(* The entry a worker claims belongs to the current phase. *)
LEMMA ClaimedPhase ==
  ASSUME IInv, NEW t \in Threads, pc[t] = "fetch", pos < Len(tasks)
  PROVE  /\ pos + 1 \in DOMAIN tasks
         /\ tasks[pos + 1].phase = generation
<1> USE VectorTyped DEF IInv
<1>1. pos + 1 \in DOMAIN tasks
  BY DEF TypeOK
<1>2. ~ (tasks[pos + 1].phase < generation)
  BY <1>1 DEF GenerationInv, TypeOK
<1>3. ASSUME generation < tasks[pos + 1].phase
      PROVE  FALSE
  <2>1. generation \in 0..MaxTasks
    <3>1. /\ Len(tasks) <= MaxTasks /\ tasks[pos + 1].phase < pos + 1
      BY <1>1 DEF VectorInv
    <3>2. /\ generation \in Nat /\ pos \in Nat /\ Len(tasks) \in Nat
          /\ DOMAIN tasks = 1 .. Len(tasks) /\ tasks[pos + 1].phase \in Nat
      BY <1>1 DEF TypeOK
    <3> QED
      BY ONLY <1>1, <1>3, <3>1, <3>2, BoundAssumption
  <2>2. BarrierItems(generation) # {}
    BY <1>1, <1>3, <2>1 DEF VectorInv
  <2>3. PICK i \in BarrierItems(generation) : pos < i
    BY <2>2, BarrierNotExhausted DEF InBarrier, Waiting
  <2>4. i \in DOMAIN tasks /\ tasks[i].phase = generation
    BY <2>3 DEF BarrierItems
  <2>5. CASE i = pos + 1
    BY <2>4, <2>5, <1>3, <1>1
  <2>6. CASE pos + 1 < i
    <3>1. tasks[pos + 1].phase <= tasks[i].phase
      BY <2>4, <2>6, <1>1 DEF VectorInv
    <3>2. tasks[pos + 1].phase \in Nat /\ generation \in Nat
      BY <1>1 DEF TypeOK
    <3> QED
      BY <2>4, <3>1, <3>2, <1>3
  <2> QED
    BY <2>3, <2>4, <2>5, <2>6 DEF TypeOK
<1> QED
  BY <1>1, <1>2, <1>3 DEF TypeOK


-----------------------------------------------------------------------------
(* MainInv is preserved. *)

(* A worker that takes a step has been spawned by a running execute_tasks. *)
LEMMA WorkerRuns ==
  ASSUME IInv, NEW t \in Threads, pc[t] # "none"
  PROVE  main \in {"spawn", "join"} /\ t < spawned
<1>1. t < spawned
  BY DEF IInv, MainInv, TypeOK, Threads
<1>2. main # "submit"
  BY IdleWhileSubmitting
<1> QED
  BY <1>1, <1>2 DEF IInv, TypeOK

(* Every step preserves what relates the owner of the queue to its workers. *)
LEMMA MainStep ==
  ASSUME IInv, [Next]_vars
  PROVE  MainInv'
<1> USE ThreadsAssumption DEF IInv
<1>1. CASE add_task \/ add_barrier
  BY <1>1 DEF add_task, add_barrier, Push, MainInv
<1>2. CASE execute_tasks
  BY <1>2 DEF execute_tasks, MainInv
<1>3. CASE Spawn
  BY <1>3 DEF Spawn, MainInv, TypeOK, Threads
<1>4. CASE JoinAndReset
  BY <1>4, ResetStep
<1>5. ASSUME NEW t \in Threads, Worker(t) \/ SpuriousWakeup(t)
      PROVE  MainInv'
  <2>1. /\ UNCHANGED <<main, spawned>>
        /\ pc[t] # "none"
        /\ \A u \in Threads : pc'[u] = "none" <=> pc[u] = "none"
    <3>1. CASE ClaimTask(t)
      <4>1. tasks[pos + 1].kind # "none"
        BY <3>1, ClaimedPhase, VectorTyped DEF ClaimTask
      <4> QED
        BY <3>1, <4>1 DEF ClaimTask, TypeOK
    <3>2. CASE ClaimNothing(t) \/ FinishWork(t) \/ ArriveEarly(t)
      BY <3>2 DEF ClaimNothing, FinishWork, ArriveEarly, TypeOK
    <3>3. CASE ArriveLast(t)
      BY <3>3 DEF ArriveLast, TypeOK
    <3>4. CASE Leave(t) \/ WaitAgain(t) \/ SpuriousWakeup(t)
      BY <3>4 DEF Leave, WaitAgain, SpuriousWakeup, TypeOK
    <3> QED
      BY <1>5, <3>1, <3>2, <3>3, <3>4 DEF Worker
  <2>2. main # "submit"
    BY <2>1, WorkerRuns
  <2> QED
    BY <2>1, <2>2 DEF MainInv
<1>6. CASE UNCHANGED vars
  BY <1>6 DEF vars, MainInv
<1> QED
  BY <1>1, <1>2, <1>3, <1>4, <1>5, <1>6 DEF Next

-----------------------------------------------------------------------------
(* ClaimInv is preserved. *)

(* Every step preserves that active workers own distinct entries: pos++ is atomic. *)
LEMMA ClaimStep ==
  ASSUME IInv, [Next]_vars
  PROVE  ClaimInv'
<1> USE ThreadsAssumption DEF IInv
<1>1. CASE add_task \/ add_barrier
  <2>1. \A t \in Threads : ~ Active(t)'
    BY <1>1, IdleWhileSubmitting DEF add_task, add_barrier, Push, Active
  <2> QED
    BY <2>1 DEF ClaimInv
<1>2. CASE execute_tasks
  BY <1>2 DEF execute_tasks, ClaimInv, Active
<1>3. CASE Spawn
  BY <1>3 DEF Spawn, ClaimInv, Active, TypeOK
<1>4. CASE JoinAndReset
  BY <1>4, ResetStep
<1>5. ASSUME NEW t \in Threads, ClaimTask(t)
      PROVE  ClaimInv'
  <2>1. /\ pos + 1 \in DOMAIN tasks
        /\ tasks[pos + 1].phase = generation
        /\ tasks[pos + 1].kind \in {"work", "barrier"}
    BY <1>5, ClaimedPhase, VectorTyped DEF ClaimTask
  <2>2. /\ claimed' = [claimed EXCEPT ![t] = pos + 1]
        /\ pc' = [pc EXCEPT ![t] = tasks[pos + 1].kind]
        /\ pos' = pos + 1
        /\ UNCHANGED <<tasks, generation, lastGen>>
    BY <1>5 DEF ClaimTask
  <2>3. pos \in Nat /\ claimed \in [Threads -> Nat] /\ pc \in [Threads -> Location]
    BY DEF TypeOK
  <2>4. \A u \in Threads : u # t => /\ claimed'[u] = claimed[u]
                                    /\ pc'[u] = pc[u]
                                    /\ Active(u)' <=> Active(u)
    BY <2>2, <2>3 DEF Active
  <2>5. \A u \in Threads : u # t /\ Active(u) => claimed'[u] <= pos
    BY <2>4 DEF ClaimInv
  <2>6. claimed'[t] = pos + 1 /\ pc'[t] = tasks[pos + 1].kind
    BY <2>2, <2>3
  <2>7. ASSUME NEW u \in Threads, Active(u)'
        PROVE  /\ claimed'[u] \in DOMAIN tasks'
               /\ claimed'[u] <= pos'
               /\ tasks'[claimed'[u]].kind = (IF pc'[u] = "work" THEN "work" ELSE "barrier")
               /\ tasks'[claimed'[u]].phase =
                    (IF pc'[u] \in {"work", "barrier"} THEN generation' ELSE lastGen'[u])
               /\ pc'[u] \in {"blocked", "woken"} => lastGen'[u] <= generation'
    <3>1. CASE u = t
      BY <3>1, <2>1, <2>2, <2>3, <2>6
    <3>2. CASE u # t
      BY <3>2, <2>2, <2>3, <2>4, <2>7 DEF ClaimInv
    <3> QED
      BY <3>1, <3>2
  <2>8. \A u, v \in Threads :
          Active(u)' /\ Active(v)' /\ u # v => claimed'[u] # claimed'[v]
    BY <2>3, <2>4, <2>5, <2>6 DEF ClaimInv
  <2> QED
    BY <2>7, <2>8 DEF ClaimInv
<1>6. ASSUME NEW t \in Threads, ClaimNothing(t) \/ FinishWork(t) \/ Leave(t)
      PROVE  ClaimInv'
  <2>1. /\ UNCHANGED <<tasks, generation, claimed, lastGen>>
        /\ pos \in Nat /\ pos' \in {pos, pos + 1}
        /\ pc'[t] \in {"done", "fetch"}
        /\ \A u \in Threads \ {t} : pc'[u] = pc[u]
    BY <1>6 DEF ClaimNothing, FinishWork, Leave, TypeOK
  <2>2. \A u \in Threads : Active(u)' => Active(u) /\ pc'[u] = pc[u]
    BY <2>1 DEF Active
  <2>3. \A u \in Threads : Active(u) => claimed[u] \in Nat /\ claimed[u] <= pos'
    BY <2>1 DEF ClaimInv, TypeOK
  <2> QED
    BY <2>1, <2>2, <2>3 DEF ClaimInv
<1>7. ASSUME NEW t \in Threads, WaitAgain(t) \/ SpuriousWakeup(t)
      PROVE  ClaimInv'
  <2>1. /\ UNCHANGED <<tasks, pos, generation, claimed, lastGen>>
        /\ \A u \in Threads :
             /\ pc'[u] = "work" <=> pc[u] = "work"
             /\ pc'[u] = "barrier" <=> pc[u] = "barrier"
             /\ pc'[u] \in {"blocked", "woken"} <=> pc[u] \in {"blocked", "woken"}
    BY <1>7 DEF WaitAgain, SpuriousWakeup, TypeOK
  <2>2. \A u \in Threads : Active(u)' <=> Active(u)
    BY <2>1 DEF Active
  <2> QED
    BY <2>1, <2>2 DEF ClaimInv
<1>8. ASSUME NEW t \in Threads, ArriveEarly(t)
      PROVE  ClaimInv'
  <2>1. /\ pc[t] = "barrier" /\ pc'[t] = "blocked"
        /\ lastGen'[t] = generation
        /\ UNCHANGED <<tasks, pos, generation, claimed>>
        /\ generation \in Nat
        /\ \A u \in Threads \ {t} : pc'[u] = pc[u] /\ lastGen'[u] = lastGen[u]
    BY <1>8 DEF ArriveEarly, TypeOK
  <2>2. \A u \in Threads : Active(u)' <=> Active(u)
    BY <2>1 DEF Active
  <2>3. /\ claimed[t] \in DOMAIN tasks
        /\ claimed[t] <= pos
        /\ tasks[claimed[t]].kind = "barrier"
        /\ tasks[claimed[t]].phase = generation
    BY <2>1 DEF ClaimInv, Active
  <2> QED
    BY <2>1, <2>2, <2>3 DEF ClaimInv
<1>9. ASSUME NEW t \in Threads, ArriveLast(t)
      PROVE  ClaimInv'
  <2>1. \A u \in Threads \ {t} : pc[u] \in {"blocked", "woken"} /\ lastGen[u] = generation
    BY <1>9, AllArrived DEF ArriveLast, Waiting
  <2>2. \A u \in Threads : Active(u)' => u # t /\ Active(u) /\ pc'[u] = "woken"
    BY <1>9, <2>1 DEF ArriveLast, Active, TypeOK
  <2> QED
    BY <1>9, <2>1, <2>2 DEF ArriveLast, ClaimInv, TypeOK
<1>10. CASE UNCHANGED vars
  BY <1>10 DEF vars, ClaimInv, Active
<1> QED
  BY <1>1, <1>2, <1>3, <1>4, <1>5, <1>6, <1>7, <1>8, <1>9, <1>10 DEF Next, Worker


-----------------------------------------------------------------------------
(* GenerationInv is preserved. *)

(* Steps that neither claim a position nor touch the barrier. *)
LEMMA GenerationFrame ==
  ASSUME IInv, UNCHANGED <<tasks, pos, counter, generation, claimed>>,
         Waiting' = Waiting, InBarrier' = InBarrier,
         \A t \in Threads : pc'[t] = "done" => pc[t] = "done"
  PROVE  GenerationInv'
BY DEF IInv, GenerationInv, BarrierItems

(* Every step preserves that the barrier's generation is the phase reached. *)
LEMMA GenerationStep ==
  ASSUME IInv, [Next]_vars
  PROVE  GenerationInv'
<1> USE ThreadsAssumption DEF IInv
<1>1. CASE add_task \/ add_barrier
  <2>1. PICK n \in Nat \ {0}, kind \in Kind : Push(Entries(n, kind))
    BY <1>1, PushOfClient
  <2>2. \A i \in DOMAIN tasks' : i \in Nat \ {0} /\ tasks'[i].phase \in Nat
    <3>1. /\ DOMAIN tasks' = 1 .. Len(tasks) + n
          /\ \A i \in DOMAIN tasks' :
               tasks'[i] = IF i <= Len(tasks) THEN tasks[i]
                           ELSE [kind |-> kind, phase |-> NextPhase]
          /\ NextPhase \in Nat
      BY <2>1, PushShape
    <3> QED
      BY <3>1, VectorTyped
  <2>3. pos' = 0 /\ generation' = 0
    BY <2>1 DEF Push, MainInv
  <2>4. \A t \in Threads : pc'[t] = "none"
    BY <2>1, IdleWhileSubmitting DEF Push
  <2>5. Waiting = {} /\ Waiting' = {}
    BY <2>1, <2>4, IdleWhileSubmitting DEF Waiting, Push
  <2>6. counter' = counter
    BY <2>1 DEF Push
  <2>7. counter' = NThreads - Cardinality(Waiting')
    BY <2>5, <2>6 DEF GenerationInv
  <2>8. \A i \in DOMAIN tasks' : /\ i <= pos' => tasks'[i].phase <= generation'
                                 /\ tasks'[i].phase < generation' => i <= pos'
    BY <2>2, <2>3
  <2>9. \A i \in BarrierItems(generation)' : ~ (i <= pos')
    BY <2>2, <2>3 DEF BarrierItems
  <2>10. \A t \in Threads : pc'[t] # "done"
    BY <2>4
  <2> QED
    BY <2>7, <2>8, <2>9, <2>10 DEF GenerationInv
<1>2. CASE execute_tasks
  BY <1>2, GenerationFrame DEF execute_tasks, Waiting, InBarrier
<1>3. CASE Spawn
  <2>1. pc[spawned] = "none" /\ spawned \in Threads
    BY <1>3 DEF Spawn, MainInv, Threads, TypeOK
  <2>2. Waiting' = Waiting
    BY <1>3, <2>1 DEF Spawn, Waiting, TypeOK
  <2>3. InBarrier' = InBarrier
    BY <1>3, <2>1, <2>2 DEF Spawn, InBarrier, TypeOK
  <2> QED
    BY <1>3, <2>2, <2>3, GenerationFrame DEF Spawn, TypeOK
<1>4. CASE JoinAndReset
  BY <1>4, ResetStep
<1>5. ASSUME NEW t \in Threads, ClaimTask(t)
      PROVE  GenerationInv'
  <2>1. /\ pos + 1 \in DOMAIN tasks
        /\ tasks[pos + 1].phase = generation
        /\ tasks[pos + 1].kind \in {"work", "barrier"}
        /\ pos \in Nat
    BY <1>5, ClaimedPhase, VectorTyped DEF ClaimTask, TypeOK
  <2>2. /\ pc[t] = "fetch" /\ pc'[t] = tasks[pos + 1].kind
        /\ claimed'[t] = pos + 1
        /\ pos' = pos + 1
        /\ \A u \in Threads \ {t} : pc'[u] = pc[u] /\ claimed'[u] = claimed[u]
        /\ UNCHANGED <<tasks, counter, generation, lastGen>>
    BY <1>5 DEF ClaimTask, TypeOK
  <2>3. Waiting' = Waiting /\ t \notin InBarrier
    BY <2>1, <2>2 DEF Waiting, InBarrier
  <2>4. InBarrier \subseteq InBarrier'
    BY <2>2, <2>3 DEF InBarrier
  <2>5. \A i \in DOMAIN tasks : i \in Nat /\ tasks[i].phase \in Nat
    BY VectorTyped
  <2>6. \A i \in DOMAIN tasks : /\ i <= pos' => tasks[i].phase <= generation
                                /\ tasks[i].phase < generation => i <= pos'
    <3>1. generation \in Nat
      BY DEF TypeOK
    <3>2. \A i \in DOMAIN tasks : /\ i <= pos => tasks[i].phase <= generation
                                  /\ tasks[i].phase < generation => i <= pos
      BY DEF GenerationInv
    <3> QED
      BY ONLY <2>1, <2>2, <2>5, <3>1, <3>2
  <2>7. ASSUME NEW i \in BarrierItems(generation), i <= pos'
        PROVE  \E u \in InBarrier' : claimed'[u] = i
    <3>1. i \in DOMAIN tasks /\ tasks[i].kind = "barrier"
      BY DEF BarrierItems
    <3>2. CASE i = pos + 1
      <4>1. t \in InBarrier'
        BY <2>2, <3>1, <3>2 DEF InBarrier
      <4> QED
        BY <2>2, <3>2, <4>1
    <3>3. CASE i # pos + 1
      <4>1. i <= pos
        BY <2>1, <2>2, <2>5, <2>7, <3>1, <3>3
      <4>2. PICK u \in InBarrier : claimed[u] = i
        BY <4>1 DEF GenerationInv
      <4> QED
        BY <2>2, <2>3, <2>4, <4>2, WaitingSubset
    <3> QED
      BY <3>2, <3>3
  <2>8. ASSUME NEW u \in Threads, pc'[u] = "done"
        PROVE  FALSE
    BY <1>5, <2>1, <2>2, <2>8 DEF ClaimTask, GenerationInv, TypeOK
  <2>9. BarrierItems(generation)' = BarrierItems(generation)
    BY <2>2 DEF BarrierItems
  <2> QED
    BY <2>2, <2>3, <2>6, <2>7, <2>8, <2>9 DEF GenerationInv
<1>6. ASSUME NEW t \in Threads, ClaimNothing(t)
      PROVE  GenerationInv'
  <2>1. /\ Len(tasks) <= pos /\ pos \in Nat /\ pos' = pos + 1
        /\ pc[t] = "fetch"
        /\ pc' = [pc EXCEPT ![t] = "done"]
        /\ UNCHANGED <<tasks, counter, generation, claimed, lastGen>>
    BY <1>6, VectorTyped DEF ClaimNothing, TypeOK
  <2>2. \A i \in DOMAIN tasks : /\ i \in Nat /\ tasks[i].phase \in Nat
                                /\ i <= pos /\ i <= pos'
    BY <2>1, VectorTyped
  <2>3. Waiting' = Waiting /\ InBarrier' = InBarrier /\ t \notin InBarrier
    BY <2>1 DEF Waiting, InBarrier, TypeOK
  <2>4. BarrierItems(generation) = {}
    <3>1. ~ \E i \in BarrierItems(generation) : pos < i
      BY <2>1, <2>2 DEF BarrierItems
    <3> QED
      BY <2>3, <3>1, BarrierNotExhausted
  <2>5. \A i \in DOMAIN tasks : tasks[i].kind = "barrier" => tasks[i].phase < generation
    BY <2>2, <2>4 DEF GenerationInv, BarrierItems, TypeOK
  <2>6. BarrierItems(generation)' = {}
    BY <2>1, <2>4 DEF BarrierItems
  <2>7. Len(tasks) <= pos'
    BY <2>1, VectorTyped
  <2> QED
    BY <2>1, <2>2, <2>3, <2>5, <2>6, <2>7 DEF GenerationInv
<1>7. ASSUME NEW t \in Threads, FinishWork(t) \/ Leave(t) \/ WaitAgain(t) \/ SpuriousWakeup(t)
      PROVE  GenerationInv'
  <2>1. /\ UNCHANGED <<tasks, pos, counter, generation, claimed, lastGen>>
        /\ \A u \in Threads : /\ pc'[u] = "done" <=> pc[u] = "done"
                              /\ pc'[u] = "barrier" <=> pc[u] = "barrier"
                              /\ u \in Waiting' <=> u \in Waiting
    BY <1>7 DEF FinishWork, Leave, WaitAgain, SpuriousWakeup, Waiting, TypeOK
  <2>2. Waiting' = Waiting
    BY <2>1 DEF Waiting
  <2>3. InBarrier' = InBarrier
    BY <2>1, <2>2 DEF InBarrier
  <2> QED
    BY <2>1, <2>2, <2>3, GenerationFrame
<1>8. ASSUME NEW t \in Threads, ArriveEarly(t)
      PROVE  GenerationInv'
  <2>1. /\ pc[t] = "barrier" /\ pc'[t] = "blocked" /\ lastGen'[t] = generation
        /\ \A u \in Threads \ {t} : pc'[u] = pc[u] /\ lastGen'[u] = lastGen[u]
        /\ counter' = counter - 1
        /\ UNCHANGED <<tasks, pos, generation, claimed>>
    BY <1>8 DEF ArriveEarly, TypeOK
  <2>2. Waiting' = Waiting \cup {t} /\ t \notin Waiting
    BY <2>1 DEF Waiting
  <2>3. InBarrier' = InBarrier
    BY <2>1, <2>2 DEF InBarrier
  <2>4. counter' = NThreads - Cardinality(Waiting')
    <3>1. IsFiniteSet(Waiting) /\ Cardinality(Waiting) \in Nat
      BY WaitingSubset, ThreadsFinite
    <3>2. Cardinality(Waiting \cup {t}) = Cardinality(Waiting) + 1
      BY <2>2, <3>1, FS_AddElement
    <3> QED
      BY <2>1, <2>2, <3>1, <3>2 DEF GenerationInv
  <2>5. BarrierItems(generation)' = BarrierItems(generation)
    BY <2>1 DEF BarrierItems
  <2> QED
    BY <2>1, <2>3, <2>4, <2>5 DEF GenerationInv
<1>9. ASSUME NEW t \in Threads, ArriveLast(t)
      PROVE  GenerationInv'
  <2>1. /\ pc[t] = "barrier" /\ counter = 1
        /\ counter' = NThreads
        /\ generation' = generation + 1 /\ generation \in Nat
        /\ pc' = [u \in Threads |-> IF u = t THEN "fetch"
                                    ELSE IF pc[u] = "blocked" THEN "woken" ELSE pc[u]]
        /\ UNCHANGED <<tasks, pos, claimed, lastGen>>
    BY <1>9 DEF ArriveLast, TypeOK
  <2>2. /\ \A u \in Threads \ {t} : u \in Waiting
        /\ \A i \in DOMAIN tasks : tasks[i].phase <= generation => i <= pos
    BY <2>1, AllArrived
  <2>3. Waiting' = {}
    BY <2>1, <2>2 DEF Waiting
  <2>4. \A u \in Threads : pc'[u] # "done"
    BY <2>1, <2>2 DEF Waiting
  <2>5. \A i \in DOMAIN tasks : /\ tasks[i].phase \in Nat
                                /\ i <= pos => tasks[i].phase <= generation
    BY VectorTyped DEF GenerationInv
  <2>6. \A i \in DOMAIN tasks : /\ i <= pos => tasks[i].phase <= generation + 1
                                /\ tasks[i].phase < generation + 1 => i <= pos
    BY <2>1, <2>2, <2>5
  <2>7. \A i \in BarrierItems(generation)' : ~ (i <= pos)
    BY <2>1, <2>5 DEF BarrierItems
  <2>8. counter' = NThreads - Cardinality(Waiting')
    BY <2>1, <2>3, FS_EmptySet
  <2> QED
    BY <2>1, <2>4, <2>6, <2>7, <2>8 DEF GenerationInv
<1>10. CASE UNCHANGED vars
  BY <1>10, GenerationFrame DEF vars, Waiting, InBarrier
<1> QED
  BY <1>1, <1>2, <1>3, <1>4, <1>5, <1>6, <1>7, <1>8, <1>9, <1>10 DEF Next, Worker


-----------------------------------------------------------------------------
(* HistoryInv is preserved. *)

(* Steps that leave the work of the client alone. *)
LEMMA HistoryFrame ==
  ASSUME IInv, UNCHANGED <<tasks, generation, claimed, begun, ended>>,
         pos' = pos \/ (pos' = pos + 1 /\ Len(tasks) <= pos),
         \A t \in Threads : pc'[t] = "work" <=> pc[t] = "work"
  PROVE  HistoryInv'
<1>1. WorkItems' = WorkItems
  BY DEF WorkItems
<1>2. \A i \in WorkItems : i <= pos' <=> i <= pos
  BY VectorTyped DEF WorkItems, IInv, TypeOK
<1> QED
  BY <1>1, <1>2 DEF IInv, HistoryInv

(* Every step preserves the account of which tasks have begun and ended. *)
LEMMA HistoryStep ==
  ASSUME IInv, [Next]_vars
  PROVE  HistoryInv'
<1> USE ThreadsAssumption DEF IInv
<1>1. CASE add_task \/ add_barrier
  <2>1. PICK n \in Nat \ {0}, kind \in Kind : Push(Entries(n, kind))
    BY <1>1, PushOfClient
  <2>2. \A i \in DOMAIN tasks' : /\ i \in Nat \ {0} /\ tasks'[i].phase \in Nat
                                 /\ begun'[i] = 0 /\ ended'[i] = 0
    <3>1. /\ DOMAIN tasks' = 1 .. Len(tasks) + n
          /\ \A i \in DOMAIN tasks' :
               tasks'[i] = IF i <= Len(tasks) THEN tasks[i]
                           ELSE [kind |-> kind, phase |-> NextPhase]
          /\ NextPhase \in Nat
      BY <2>1, PushShape
    <3> QED
      BY <2>1, <3>1, VectorTyped DEF Push
  <2>3. pos' = 0 /\ generation' = 0
    BY <2>1 DEF Push, MainInv
  <2>4. \A t \in Threads : pc'[t] = "none"
    BY <2>1, IdleWhileSubmitting DEF Push
  <2> QED
    BY <2>2, <2>3, <2>4 DEF HistoryInv, WorkItems
<1>2. CASE execute_tasks
  BY <1>2, HistoryFrame DEF execute_tasks
<1>3. CASE Spawn
  <2>1. pc[spawned] = "none" /\ spawned \in Threads
    BY <1>3 DEF Spawn, MainInv, Threads, TypeOK
  <2> QED
    BY <1>3, <2>1, HistoryFrame DEF Spawn, TypeOK
<1>4. CASE JoinAndReset
  BY <1>4, ResetStep
<1>5. ASSUME NEW t \in Threads, ClaimTask(t)
      PROVE  HistoryInv'
  <2>1. /\ pos + 1 \in DOMAIN tasks
        /\ tasks[pos + 1].phase = generation
        /\ generation \in Nat
        /\ pos \in Nat
    BY <1>5, ClaimedPhase DEF ClaimTask, TypeOK
  <2>2. /\ pc[t] = "fetch" /\ pc'[t] = tasks[pos + 1].kind
        /\ claimed'[t] = pos + 1
        /\ pos' = pos + 1
        /\ \A u \in Threads \ {t} : pc'[u] = pc[u] /\ claimed'[u] = claimed[u]
        /\ begun' = [begun EXCEPT ![pos + 1] = @ + 1]
        /\ UNCHANGED <<tasks, generation, ended>>
    BY <1>5 DEF ClaimTask, TypeOK
  <2>3. WorkItems' = WorkItems
    BY <2>2 DEF WorkItems
  <2>4. ASSUME NEW i \in WorkItems
        PROVE  /\ begun'[i] = (IF i <= pos' THEN 1 ELSE 0)
               /\ ended'[i] \in 0..begun'[i]
               /\ ended'[i] = 0 /\ i <= pos' =>
                    \E u \in Threads : pc'[u] = "work" /\ claimed'[u] = i
               /\ \A u \in Threads : pc'[u] = "work" /\ claimed'[u] = i => ended'[i] = 0
               /\ tasks[i].phase < generation => ended'[i] = 1
    <3>1. /\ i \in DOMAIN tasks /\ i \in Nat
          /\ tasks[i].kind = "work"
          /\ begun[i] = IF i <= pos THEN 1 ELSE 0
          /\ ended[i] \in 0..begun[i]
          /\ ended[i] = 0 /\ i <= pos => \E u \in Threads : pc[u] = "work" /\ claimed[u] = i
          /\ \A u \in Threads : pc[u] = "work" /\ claimed[u] = i => ended[i] = 0
          /\ tasks[i].phase < generation => ended[i] = 1
      BY VectorTyped DEF WorkItems, HistoryInv
    <3>2. CASE i = pos + 1
      <4>1. begun[i] = 0 /\ ended[i] = 0
        BY <2>1, <3>1, <3>2
      <4>2. begun'[i] = 1 /\ ended'[i] = 0
        BY <2>1, <2>2, <3>1, <3>2, <4>1 DEF TypeOK
      <4> QED
        BY <2>1, <2>2, <3>1, <3>2, <4>1, <4>2
    <3>3. CASE i # pos + 1
      <4>1. begun'[i] = begun[i] /\ ended'[i] = ended[i] /\ (i <= pos' <=> i <= pos)
        BY <2>1, <2>2, <3>1, <3>3 DEF TypeOK
      <4>2. \A u \in Threads : pc'[u] = "work" /\ claimed'[u] = i
                                 <=> pc[u] = "work" /\ claimed[u] = i
        BY <2>2, <3>3
      <4> QED
        BY <3>1, <4>1, <4>2
    <3> QED
      BY <3>2, <3>3
  <2> QED
    BY <2>2, <2>3, <2>4 DEF HistoryInv
<1>6. ASSUME NEW t \in Threads, FinishWork(t)
      PROVE  HistoryInv'
  <2>1. /\ pc[t] = "work" /\ pc'[t] = "fetch"
        /\ \A u \in Threads \ {t} : pc'[u] = pc[u]
        /\ ended' = [ended EXCEPT ![claimed[t]] = @ + 1]
        /\ UNCHANGED <<tasks, pos, generation, claimed, begun>>
    BY <1>6 DEF FinishWork, TypeOK
  <2>2. /\ claimed[t] \in WorkItems
        /\ claimed[t] \in DOMAIN tasks
        /\ claimed[t] <= pos
        /\ tasks[claimed[t]].phase = generation
        /\ generation \in Nat
    BY <2>1 DEF ClaimInv, Active, WorkItems, TypeOK
  <2>3. \A u \in Threads \ {t} : pc[u] = "work" => claimed[u] # claimed[t]
    BY <2>1 DEF ClaimInv, Active
  <2>4. ended[claimed[t]] = 0 /\ begun[claimed[t]] = 1
    BY <2>1, <2>2 DEF HistoryInv
  <2>5. \A i \in WorkItems : ended'[i] = IF i = claimed[t] THEN 1 ELSE ended[i]
    BY <2>1, <2>4 DEF WorkItems, TypeOK
  <2>6. WorkItems' = WorkItems
    BY <2>1 DEF WorkItems
  <2>7. ASSUME NEW i \in WorkItems
        PROVE  /\ begun[i] = (IF i <= pos THEN 1 ELSE 0)
               /\ ended'[i] \in 0..begun[i]
               /\ ended'[i] = 0 /\ i <= pos =>
                    \E u \in Threads : pc'[u] = "work" /\ claimed[u] = i
               /\ \A u \in Threads : pc'[u] = "work" /\ claimed[u] = i => ended'[i] = 0
               /\ tasks[i].phase < generation => ended'[i] = 1
    <3>1. CASE i = claimed[t]
      BY <2>1, <2>2, <2>3, <2>4, <2>5, <3>1 DEF HistoryInv
    <3>2. CASE i # claimed[t]
      <4>1. \A u \in Threads : pc'[u] = "work" /\ claimed[u] = i
                                 <=> pc[u] = "work" /\ claimed[u] = i
        BY <2>1, <3>2
      <4> QED
        BY <2>5, <3>2, <4>1 DEF HistoryInv
    <3> QED
      BY <3>1, <3>2
  <2> QED
    BY <2>1, <2>6, <2>7 DEF HistoryInv
<1>7. ASSUME NEW t \in Threads, ClaimNothing(t) \/ ArriveEarly(t)
      PROVE  HistoryInv'
  BY <1>7, HistoryFrame DEF ClaimNothing, ArriveEarly, TypeOK
<1>8. ASSUME NEW t \in Threads, Leave(t) \/ WaitAgain(t) \/ SpuriousWakeup(t)
      PROVE  HistoryInv'
  BY <1>8, HistoryFrame DEF Leave, WaitAgain, SpuriousWakeup, TypeOK
<1>9. ASSUME NEW t \in Threads, ArriveLast(t)
      PROVE  HistoryInv'
  <2>1. /\ pc[t] = "barrier" /\ counter = 1
        /\ generation' = generation + 1 /\ generation \in Nat
        /\ pc' = [u \in Threads |-> IF u = t THEN "fetch"
                                    ELSE IF pc[u] = "blocked" THEN "woken" ELSE pc[u]]
        /\ UNCHANGED <<tasks, pos, claimed, begun, ended>>
    BY <1>9 DEF ArriveLast, TypeOK
  <2>2. /\ \A u \in Threads \ {t} : u \in Waiting
        /\ \A i \in DOMAIN tasks : tasks[i].phase <= generation => i <= pos
        /\ \A i \in WorkItems : i <= pos => ended[i] = 1
    BY <2>1, AllArrived
  <2>3. \A u \in Threads : pc'[u] # "work"
    BY <2>1, <2>2 DEF Waiting
  <2>4. WorkItems' = WorkItems
    BY <2>1 DEF WorkItems
  <2>5. \A i \in WorkItems : tasks[i].phase < generation + 1 => ended[i] = 1
    BY <2>1, <2>2, VectorTyped DEF WorkItems
  <2> QED
    BY <2>1, <2>2, <2>3, <2>4, <2>5 DEF HistoryInv
<1>10. CASE UNCHANGED vars
  BY <1>10, HistoryFrame DEF vars
<1> QED
  BY <1>1, <1>2, <1>3, <1>4, <1>5, <1>6, <1>7, <1>8, <1>9, <1>10 DEF Next, Worker

-----------------------------------------------------------------------------
(* The theorems. *)

(* The inductive invariant holds in every reachable state.                 *)
THEOREM Invariance == Spec => []IInv
<1>1. IInv /\ [Next]_vars => IInv'
  BY TypeStep, VectorStep, MainStep, ClaimStep, GenerationStep, HistoryStep
  DEF IInv
<1> QED
  BY InitIInv, <1>1, PTL DEF Spec

(* Type correctness.                                                       *)
THEOREM TypeCorrect == Spec => []TypeOK
<1>1. IInv => TypeOK
  BY DEF IInv
<1> QED
  BY <1>1, Invariance, PTL

(* No task begins before the tasks of the earlier phases have ended, for   *)
(* any number of threads and any program of tasks and barriers.            *)
THEOREM BarriersSeparatePhases == Spec => []PhaseSeparation
<1>1. IInv => PhaseSeparation
  <2> SUFFICES ASSUME IInv, NEW i \in WorkItems, NEW j \in WorkItems,
                      begun[i] > 0, tasks[j].phase < tasks[i].phase
               PROVE  ended[j] = 1
    BY DEF PhaseSeparation
  <2>1. i \in DOMAIN tasks /\ j \in DOMAIN tasks
    BY DEF WorkItems
  <2>2. i <= pos
    BY DEF IInv, HistoryInv
  <2>3. tasks[i].phase <= generation
    BY <2>1, <2>2 DEF IInv, GenerationInv
  <2>4. tasks[j].phase < generation
    <3>1. TypeOK
      BY DEF IInv
    <3>2. generation \in Nat /\ tasks[i].phase \in Nat /\ tasks[j].phase \in Nat
      BY <2>1, <3>1, VectorTyped DEF TypeOK
    <3> QED
      BY <2>3, <3>2
  <2> QED
    BY <2>4 DEF IInv, HistoryInv
<1> QED
  BY <1>1, Invariance, PTL

(* A worker that has found the vector exhausted leaves nobody behind in a  *)
(* barrier.                                                                *)
THEOREM NobodyIsLeftBehind == Spec => []NoOneLeftBehind
<1>1. IInv => NoOneLeftBehind
  <2> SUFFICES ASSUME IInv, NEW u \in Threads, pc[u] = "done",
                      NEW t \in Threads, t \in Waiting \/ pc[t] = "barrier"
               PROVE  FALSE
    BY WaitingSubset DEF NoOneLeftBehind
  <2>1. /\ claimed[t] \in DOMAIN tasks
        /\ tasks[claimed[t]].kind = "barrier"
        /\ tasks[claimed[t]].phase = generation
    BY DEF IInv, ClaimInv, Active, Waiting
  <2>2. tasks[claimed[t]].phase < generation
    BY <2>1 DEF IInv, GenerationInv
  <2> QED
    BY <2>1, <2>2 DEF IInv, TypeOK
<1> QED
  BY <1>1, Invariance, PTL


-----------------------------------------------------------------------------
(* The refinement of PhasedExecution. *)

(* A new queue is an empty phased execution. *)
LEMMA PhasedInit == Init => Phased!Init
<1> SUFFICES ASSUME Init PROVE Phased!Init
  OBVIOUS
<1>1. WorkItems = {}
  BY EmptySeq DEF Init, WorkItems
<1> QED
  BY <1>1 DEF Init, Phased!Init, Phased!Zero

(* Steps that no task of the client can see. *)
LEMMA PhasedStutter ==
  ASSUME UNCHANGED <<tasks, begun, ended>>, main' # "submit" <=> main # "submit"
  PROVE  UNCHANGED Phased!vars
BY DEF Phased!vars, WorkItems

(* A Push of the client submits a task, or is invisible when it adds a barrier. *)
LEMMA PhasedPush ==
  ASSUME IInv, add_task \/ add_barrier
  PROVE  [Phased!Next]_(Phased!vars)
<1> USE DEF IInv
<1>1. CASE add_task
  <2>1. Push(Entries(1, "work")) /\ "work" \in Kind
    BY <1>1 DEF add_task, Kind
  <2> DEFINE n == Len(tasks) + 1
  <2>2. /\ DOMAIN tasks' = 1 .. n
        /\ \A i \in DOMAIN tasks' :
             tasks'[i] = IF i <= Len(tasks) THEN tasks[i]
                         ELSE [kind |-> "work", phase |-> NextPhase]
        /\ NextPhase \in Nat
        /\ Len(tasks') = n
    BY <2>1, PushShape
  <2>3. Len(tasks) \in Nat /\ DOMAIN tasks = 1 .. Len(tasks)
    BY VectorTyped
  <2>4. WorkItems' = WorkItems \cup {n} /\ n \notin WorkItems
    BY <2>2, <2>3 DEF WorkItems
  <2>5. \A i \in WorkItems : tasks'[i] = tasks[i] /\ tasks[i].phase <= NextPhase
    <3>1. VectorInv'
      BY <1>1, VectorStep DEF Next
    <3>2. \A i \in WorkItems : i \in DOMAIN tasks' /\ n \in DOMAIN tasks' /\ i < n
      BY <2>2, <2>3 DEF WorkItems
    <3>3. \A i \in WorkItems : tasks'[i].phase <= tasks'[n].phase
      BY <3>1, <3>2 DEF VectorInv
    <3>4. tasks'[n].phase = NextPhase
      BY <2>2, <2>3
    <3>5. \A i \in WorkItems : tasks'[i] = tasks[i]
      BY <2>2, <2>3, <3>2
    <3> QED
      BY <3>3, <3>4, <3>5
  <2>6. tasks'[n].phase = NextPhase
    BY <2>2, <2>3
  <2>7. n \in 1..MaxTasks /\ NextPhase \in 0..MaxTasks
    <3>1. VectorInv'
      BY <1>1, VectorStep DEF Next
    <3>2. tasks'[n].phase < n
      BY <2>2, <2>3, <3>1 DEF VectorInv
    <3>3. n <= MaxTasks
      BY <2>2, <3>1 DEF VectorInv
    <3> QED
      BY <2>2, <2>3, <2>6, <3>2, <3>3, BoundAssumption
  <2>8. \A i \in WorkItems' : begun'[i] = 0 /\ ended'[i] = 0
    BY <2>1 DEF Push, WorkItems
  <2>9. main = "submit" /\ main' = "submit"
    BY <2>1 DEF Push
  <2> HIDE DEF n
  <2>10. PICK i \in 1..MaxTasks, k \in 0..MaxTasks : i = n /\ k = NextPhase
    BY <2>7
  <2>11. Phased!Submit(i, k)
    BY <2>4, <2>5, <2>6, <2>8, <2>9, <2>10 DEF Phased!Submit, Phased!Zero
  <2> QED
    BY <2>11 DEF Phased!Next
<1>2. CASE add_barrier
  <2>1. Push(Entries(NThreads, "barrier")) /\ "barrier" \in Kind /\ NThreads \in Nat
    BY <1>2, ThreadsAssumption DEF add_barrier, Kind
  <2>2. /\ DOMAIN tasks' = 1 .. Len(tasks) + NThreads
        /\ \A i \in DOMAIN tasks' :
             tasks'[i] = IF i <= Len(tasks) THEN tasks[i]
                         ELSE [kind |-> "barrier", phase |-> NextPhase]
    BY <2>1, PushShape
  <2>3. Len(tasks) \in Nat /\ DOMAIN tasks = 1 .. Len(tasks)
    BY VectorTyped
  <2>4. WorkItems' = WorkItems /\ \A i \in WorkItems : tasks'[i] = tasks[i]
    BY <2>1, <2>2, <2>3 DEF WorkItems
  <2>5. main = "submit" /\ main' = "submit"
    BY <2>1 DEF Push
  <2>6. \A i \in WorkItems : /\ begun[i] = 0 /\ ended[i] = 0
                             /\ begun'[i] = 0 /\ ended'[i] = 0
    <3>1. pos = 0
      BY <2>5 DEF MainInv
    <3>2. \A i \in WorkItems : ~ (i <= pos)
      BY <2>3, <3>1 DEF WorkItems
    <3>3. \A i \in WorkItems : begun[i] = 0 /\ ended[i] = 0
      BY <3>2 DEF HistoryInv
    <3>4. \A i \in WorkItems' : begun'[i] = 0 /\ ended'[i] = 0
      BY <2>1 DEF Push, WorkItems
    <3> QED
      BY <2>4, <3>3, <3>4
  <2> QED
    BY <2>4, <2>5, <2>6 DEF Phased!vars
<1> QED
  BY <1>1, <1>2

(* Every step of the queue is a step of the phased execution or a stutter. *)
LEMMA PhasedStep ==
  ASSUME IInv, [Next]_vars
  PROVE  [Phased!Next]_(Phased!vars)
<1> USE DEF IInv
<1>1. CASE add_task \/ add_barrier
  BY <1>1, PhasedPush
<1>2. CASE execute_tasks
  <2>1. Phased!Execute
    BY <1>2 DEF execute_tasks, Phased!Execute, WorkItems
  <2> QED
    BY <2>1 DEF Phased!Next
<1>3. CASE Spawn
  BY <1>3, PhasedStutter DEF Spawn
<1>4. CASE JoinAndReset
  <2>1. main # "submit" /\ main' = "submit"
    BY <1>4 DEF JoinAndReset
  <2>2. WorkItems' = {}
    BY <1>4, EmptySeq DEF JoinAndReset, WorkItems
  <2>3. \A i \in WorkItems : ended[i] = 1
    <3>1. \A t \in Threads : pc[t] = "done"
      BY <1>4 DEF JoinAndReset
    <3>2. Len(tasks) <= pos
      BY <3>1, ThreadsFinite DEF GenerationInv
    <3>3. \A i \in WorkItems : i <= pos
      BY <3>2, VectorTyped DEF WorkItems, TypeOK
    <3> QED
      BY <3>1, <3>3 DEF HistoryInv
  <2>4. Phased!Return
    BY <2>1, <2>2, <2>3 DEF Phased!Return, Phased!Zero
  <2> QED
    BY <2>4 DEF Phased!Next
<1>5. ASSUME NEW t \in Threads, ClaimTask(t)
      PROVE  [Phased!Next]_(Phased!vars)
  <2> DEFINE p == pos + 1
  <2>1. /\ p \in DOMAIN tasks
        /\ tasks[p].phase = generation
        /\ tasks[p].kind \in {"work", "barrier"}
        /\ pos \in Nat
    BY <1>5, ClaimedPhase, VectorTyped DEF ClaimTask, TypeOK
  <2>2. /\ begun' = [begun EXCEPT ![p] = @ + 1]
        /\ UNCHANGED <<tasks, ended, main>>
        /\ pc[t] = "fetch"
    BY <1>5 DEF ClaimTask
  <2>3. WorkItems' = WorkItems
    BY <2>2 DEF WorkItems
  <2>4. CASE tasks[p].kind = "barrier"
    <3>1. \A i \in WorkItems : begun'[i] = begun[i]
      BY <2>2, <2>4 DEF WorkItems, TypeOK
    <3> QED
      BY <2>2, <2>3, <3>1 DEF Phased!vars
  <2>5. CASE tasks[p].kind = "work"
    <3>1. p \in WorkItems
      BY <2>1, <2>5 DEF WorkItems
    <3>2. begun[p] = 0
      BY <2>1, <3>1 DEF HistoryInv
    <3>3. \A i \in WorkItems : begun'[i] = IF i = p THEN 1 ELSE begun[i]
      BY <2>2, <3>2 DEF WorkItems, TypeOK
    <3>4. \A j \in WorkItems : tasks[j].phase < tasks[p].phase => ended[j] = 1
      BY <2>1 DEF HistoryInv
    <3>5. main # "submit"
      BY <2>2, WorkerRuns
    <3> HIDE DEF p
    <3>6. PICK i \in WorkItems : i = p
      BY <3>1
    <3>7. Phased!Begin(i)
      BY <2>2, <2>3, <3>2, <3>3, <3>4, <3>5, <3>6
      DEF Phased!Begin, Phased!PhaseReached
    <3> QED
      BY <3>7 DEF Phased!Next
  <2> QED
    BY <2>1, <2>4, <2>5
<1>6. ASSUME NEW t \in Threads, FinishWork(t)
      PROVE  [Phased!Next]_(Phased!vars)
  <2> DEFINE p == claimed[t]
  <2>1. /\ pc[t] = "work"
        /\ ended' = [ended EXCEPT ![p] = @ + 1]
        /\ UNCHANGED <<tasks, begun, main>>
    BY <1>6 DEF FinishWork
  <2>2. p \in WorkItems
    BY <2>1 DEF ClaimInv, Active, WorkItems
  <2>3. p <= pos
    BY <2>1 DEF ClaimInv, Active
  <2>4. ended[p] = 0 /\ begun[p] = 1
    BY <2>1, <2>2, <2>3 DEF HistoryInv
  <2>5. WorkItems' = WorkItems
    BY <2>1 DEF WorkItems
  <2>6. \A i \in WorkItems : ended'[i] = IF i = p THEN 1 ELSE ended[i]
    BY <2>1, <2>4 DEF WorkItems, TypeOK
  <2>7. main # "submit"
    BY <2>1, WorkerRuns
  <2> HIDE DEF p
  <2>8. PICK i \in WorkItems : i = p
    BY <2>2
  <2>9. Phased!End(i)
    BY <2>1, <2>4, <2>5, <2>6, <2>7, <2>8 DEF Phased!End
  <2> QED
    BY <2>9 DEF Phased!Next
<1>7. ASSUME NEW t \in Threads,
             \/ ClaimNothing(t) \/ ArriveEarly(t) \/ ArriveLast(t)
             \/ Leave(t) \/ WaitAgain(t) \/ SpuriousWakeup(t)
      PROVE  [Phased!Next]_(Phased!vars)
  BY <1>7, PhasedStutter DEF ClaimNothing, ArriveEarly, ArriveLast, Leave,
     WaitAgain, SpuriousWakeup
<1>8. CASE UNCHANGED vars
  BY <1>8, PhasedStutter DEF vars
<1> QED
  BY <1>1, <1>2, <1>3, <1>4, <1>5, <1>6, <1>7, <1>8 DEF Next, Worker

(* The task queue with its barrier implements the phased execution: the    *)
(* tasks of the client run once each, phase after phase, before            *)
(* execute_tasks returns.                                                  *)
THEOREM QueueImplementsPhases == Spec => ImplementsPhased
<1>1. IInv /\ [Next]_vars => [Phased!Next]_(Phased!vars)
  BY PhasedStep
<1> QED
  BY PhasedInit, Invariance, <1>1, PTL DEF Spec, ImplementsPhased, Phased!Spec

-----------------------------------------------------------------------------
(* How a count is dealt out: arithmetic. *)

(* A product of naturals is a natural, and grows with its factors. *)
LEMMA Products ==
  ASSUME NEW a \in Nat, NEW b \in Nat, NEW c \in Nat
  PROVE  /\ a * b \in Nat
         /\ b <= c => a * b <= a * c
         /\ b < c => a * b + a <= a * c
<1>1. a * b \in Nat
  OBVIOUS
<1>2. ASSUME b <= c PROVE a * b <= a * c
  <2>1. PICK d \in Nat : c = b + d
    BY <1>2
  <2>2. a * c = a * b + a * d /\ a * d \in Nat
    BY <2>1
  <2> QED
    BY <2>2, <1>1
<1>3. ASSUME b < c PROVE a * b + a <= a * c
  <2>1. PICK d \in Nat : c = b + 1 + d
    <3>1. c - b - 1 \in Nat /\ c = b + 1 + (c - b - 1)
      BY <1>3
    <3> QED
      BY <3>1
  <2>2. a * c = a * b + a + a * d /\ a * d \in Nat
    BY <2>1
  <2> QED
    BY <2>2, <1>1
<1> QED
  BY <1>1, <1>2, <1>3

(* A quotient does not exceed its dividend. *)
LEMMA QuotientBelow ==
  ASSUME NEW a \in Nat, NEW b \in Nat \ {0}
  PROVE  a \div b \in Nat /\ a \div b <= a
<1> DEFINE r == a \div b
<1>1. r \in Nat /\ b * r <= a
  BY Division
<1> HIDE DEF r
<1>2. r * 1 <= r * b
  BY <1>1, Products
<1>3. r * 1 = r /\ r * b = b * r /\ b * r \in Nat
  BY <1>1
<1>4. r \in Nat /\ r <= a
  BY <1>1, <1>2, <1>3
<1> QED
  BY <1>4 DEF r

(* valign(n) is the least multiple of the alignment that is not below n. *)
LEMMA Rounding ==
  ASSUME NEW n \in Nat
  PROVE  \E q \in Nat : /\ valign(n) = Alignment * q
                        /\ n <= Alignment * q
                        /\ Alignment * q < n + Alignment
<1>1. /\ n \div Alignment \in Nat
      /\ Alignment * (n \div Alignment) <= n
      /\ n < Alignment * (n \div Alignment) + Alignment
      /\ n % Alignment = n - Alignment * (n \div Alignment)
  BY CountAssumption, Division
<1>2. CASE n % Alignment = 0
  <2>1. valign(n) = Alignment * (n \div Alignment)
    BY <1>1, <1>2, CountAssumption DEF valign
  <2>2. n <= Alignment * (n \div Alignment)
    BY <1>1, <1>2, CountAssumption
  <2>3. n < n + Alignment
    BY CountAssumption
  <2>4. n \div Alignment \in Nat
    BY <1>1
  <2> WITNESS n \div Alignment \in Nat
  <2> HIDE DEF valign
  <2> QED
    BY <1>1, <1>2, <2>1, <2>2, <2>3, CountAssumption, Products
<1>3. CASE n % Alignment # 0
  <2>1. valign(n) = (n \div Alignment + 1) * Alignment
    BY <1>3 DEF valign
  <2>2. (n \div Alignment + 1) * Alignment = Alignment * (n \div Alignment + 1)
    BY <1>1, CountAssumption
  <2>3. Alignment * (n \div Alignment + 1) = Alignment * (n \div Alignment) + Alignment
    BY <1>1, CountAssumption
  <2>4. Alignment * (n \div Alignment) # n
    BY <1>1, <1>3, CountAssumption
  <2>5. /\ n <= Alignment * (n \div Alignment + 1)
        /\ Alignment * (n \div Alignment + 1) < n + Alignment
    BY <1>1, <2>3, <2>4, Products, CountAssumption
  <2>6. n \div Alignment + 1 \in Nat
    BY <1>1
  <2> WITNESS n \div Alignment + 1 \in Nat
  <2> QED
    BY <2>1, <2>2, <2>5
<1> QED
  BY <1>2, <1>3

LEMMA RoundingMonotone ==
  ASSUME NEW m \in Nat, NEW n \in Nat, m <= n
  PROVE  valign(m) <= valign(n)
<1>1. PICK q \in Nat : valign(m) = Alignment * q /\ Alignment * q < m + Alignment
  BY Rounding
<1>2. PICK r \in Nat : valign(n) = Alignment * r /\ n <= Alignment * r
  BY Rounding
<1>3. ASSUME r < q PROVE FALSE
  <2>1. Alignment * r + Alignment <= Alignment * q
    BY <1>3, Products, CountAssumption
  <2> QED
    BY <1>1, <1>2, <2>1, CountAssumption, Products
<1>4. q <= r
  BY <1>3
<1> QED
  BY <1>1, <1>2, <1>4, Products, CountAssumption

-----------------------------------------------------------------------------
(* The chunks of one partition. *)

(* The keys of each task before rounding: more than a fair share. *)
LEMMA Quotient ==
  ASSUME NEW length \in Nat, NEW n \in Nat \ {0}
  PROVE  /\ length \div n + 1 \in Nat \ {0}
         /\ length < (length \div n + 1) * n
<1>1. length \div n \in Nat /\ length < n * (length \div n) + n
  BY Division
<1>2. (length \div n + 1) * n = n * (length \div n) + n
  BY <1>1
<1> QED
  BY <1>1, <1>2

(* A later chunk begins where the earlier one ends, or behind it. *)
LEMMA BoundsOrdered ==
  ASSUME NEW length \in Nat, NEW n \in Nat \ {0}, NEW j \in Nat, NEW l \in Nat, j <= l
  PROVE  /\ Bound(length, n, j) \in Nat
         /\ Bound(length, n, j) <= Bound(length, n, l)
<1> DEFINE q == length \div n + 1
<1>1. q \in Nat
  BY Quotient
<1>2. q * j \in Nat /\ q * l \in Nat /\ q * j <= q * l
  BY <1>1, Products
<1>3. valign(q * j) \in Nat /\ valign(q * j) <= valign(q * l)
  BY <1>2, Rounding, RoundingMonotone, Products, CountAssumption
<1> QED
  BY <1>3 DEF Bound

(* No two chunks of a partition share a key. *)
LEMMA ChunksDisjoint ==
  ASSUME NEW length \in Nat, NEW n \in Nat \ {0}, NEW p \in Nat,
         NEW j \in Nat, NEW l \in Nat,
         p \in Chunk(length, n, j), p \in Chunk(length, n, l)
  PROVE  j = l
<1>1. ASSUME NEW a \in Nat, NEW b \in Nat, a < b,
             p \in Chunk(length, n, a), p \in Chunk(length, n, b)
      PROVE  FALSE
  <2>1. Bound(length, n, a + 1) \in Nat /\ Bound(length, n, b) \in Nat
        /\ Bound(length, n, a + 1) <= Bound(length, n, b)
    <3>1. a + 1 \in Nat /\ a + 1 <= b /\ b <= b
      BY <1>1
    <3>2. Bound(length, n, b) \in Nat
      BY <1>1, <3>1, BoundsOrdered
    <3> QED
      BY <3>1, <3>2, BoundsOrdered
  <2>2. p < Bound(length, n, a + 1)
    <3>1. p <= ChunkEnd(length, n, a) - 1
      BY <1>1 DEF Chunk
    <3>2. ChunkEnd(length, n, a) \in Nat /\ ChunkEnd(length, n, a) <= Bound(length, n, a + 1)
      BY <2>1 DEF ChunkEnd
    <3> QED
      BY <3>1, <3>2, <2>1
  <2>3. Bound(length, n, b) <= p
    BY <1>1, <2>1 DEF Chunk, ChunkBegin
  <2> QED
    BY <2>1, <2>2, <2>3
<1> QED
  BY <1>1

(* Every key lies in a chunk: the one numbered by how many quotients fit   *)
(* before the aligned block of the key.                                    *)
LEMMA ChunksCover ==
  ASSUME NEW length \in Nat, NEW n \in Nat \ {0}, NEW p \in 0 .. length-1
  PROVE  \E j \in 0 .. n-1 : p \in Chunk(length, n, j)
<1> DEFINE q == length \div n + 1
           block == Alignment * (p \div Alignment)
           j == block \div q
<1>1. q \in Nat \ {0} /\ length < q * n
  BY Quotient
<1>2. /\ p \div Alignment \in Nat
      /\ block \in Nat /\ block <= p /\ p < block + Alignment
  BY Division, Products, CountAssumption
<1>3. j \in Nat /\ q * j <= block /\ block < q * j + q
  <2> HIDE DEF q, block
  <2> QED
    BY <1>1, <1>2, Division
<1>4. j < n
  <2>1. ASSUME n <= j PROVE FALSE
    <3>1. q * n <= q * j
      BY <1>1, <1>3, <2>1, Products
    <3> HIDE DEF q, block, j
    <3> QED
      BY <3>1, <1>1, <1>2, <1>3, Products
  <2> HIDE DEF q, block, j
  <2> QED
    BY <2>1, <1>3
<1>5. /\ q * j \in Nat /\ q * (j + 1) \in Nat
      /\ q * (j + 1) = q * j + q
  <2> HIDE DEF q, block, j
  <2> QED
    BY <1>1, <1>3, Products
<1>6. Bound(length, n, j) <= p
  <2>1. PICK r \in Nat : valign(q * j) = Alignment * r /\ Alignment * r < q * j + Alignment
    BY <1>5, Rounding
  <2>2. ASSUME p \div Alignment < r PROVE FALSE
    <3>1. block + Alignment <= Alignment * r
      BY <2>2, <1>2, Products, CountAssumption
    <3> HIDE DEF q, block, j
    <3> QED
      BY <3>1, <2>1, <1>2, <1>3, <1>5, CountAssumption, Products
  <2>3. r <= p \div Alignment
    BY <2>2, <1>2
  <2>4. Alignment * r <= block
    BY <2>3, <1>2, Products, CountAssumption
  <2>5. valign(q * j) \in Nat /\ valign(q * j) <= block
    BY <2>1, <2>4, Products, CountAssumption
  <2> QED
    BY <2>5, <1>2 DEF Bound
<1>7. p < Bound(length, n, j + 1)
  <2>1. PICK r \in Nat : valign(q * (j + 1)) = Alignment * r /\ q * (j + 1) <= Alignment * r
    BY <1>5, Rounding
  <2>2. ASSUME r <= p \div Alignment PROVE FALSE
    <3>1. Alignment * r <= block
      BY <2>2, <1>2, Products, CountAssumption
    <3> HIDE DEF q, block, j
    <3> QED
      BY <3>1, <2>1, <1>2, <1>3, <1>5, CountAssumption, Products
  <2>3. p \div Alignment < r
    BY <2>2, <1>2
  <2>4. block + Alignment <= Alignment * r
    BY <2>3, <1>2, Products, CountAssumption
  <2>5. p < valign(q * (j + 1))
    <3> HIDE DEF q, block, j
    <3> QED
      BY <2>1, <2>4, <1>2, Products, CountAssumption
  <2> QED
    BY <2>5 DEF Bound
<1>8. Bound(length, n, j) \in Nat /\ Bound(length, n, j + 1) \in Nat
  <2> HIDE DEF q, block, j
  <2>1. j + 1 \in Nat /\ j <= j /\ j + 1 <= j + 1
    BY <1>3
  <2> QED
    BY <1>3, <2>1, BoundsOrdered
<1>9. p \in Chunk(length, n, j)
  <2> HIDE DEF q, block, j
  <2> QED
    BY <1>6, <1>7, <1>8, <1>3 DEF Chunk, ChunkBegin, ChunkEnd
<1>10. j \in 0 .. n-1
  <2> HIDE DEF q, block, j
  <2> QED
    BY <1>3, <1>4
<1> HIDE DEF j
<1> QED
  BY <1>9, <1>10

-----------------------------------------------------------------------------
(* The tasks. *)

(* A partition gets a positive number of tasks, no more than remain unless *)
(* none does.                                                              *)
LEMMA Shares ==
  ASSUME NEW i \in Partitions, NEW left \in 0..MaxPerLevel
  PROVE  /\ TasksFor(i, left) \in 1..MaxPerLevel+1
         /\ left > 0 => TasksFor(i, left) <= left
<1>1. NPartitions - i \in Nat \ {0}
  BY CountAssumption DEF Partitions
<1>2. left \in Nat
  BY CountAssumption
<1>3. left \div (NPartitions - i) \in Nat /\ left \div (NPartitions - i) <= left
  <2> DEFINE d == NPartitions - i
  <2> HIDE DEF d
  <2>1. left \div d \in Nat /\ left \div d <= left
    BY <1>1, <1>2, QuotientBelow DEF d
  <2> QED
    BY <2>1 DEF d
<1>4. TasksFor(i, left) = IF left \div (NPartitions - i) > 1
                          THEN left \div (NPartitions - i) ELSE 1
  BY DEF TasksFor
<1> QED
  BY <1>3, <1>4, CountAssumption

(* The inductive invariant: the partitions before index have all their     *)
(* tasks, numbered from 0 and agreeing on how many they are, the others    *)
(* have none, and the call goes through its three stages.                  *)
TasksOf(i) == {t \in queued : t.i = i}

DealtInv ==
  /\ \A t \in queued : t.i < index
  /\ \A i \in Partitions : i < index =>
       \E n \in 1..MaxPerLevel+1 :
         /\ \A t \in TasksOf(i) : t.n = n /\ t.j \in 0..n-1
         /\ \A j \in 0..n-1 : [i |-> i, j |-> j, n |-> n] \in queued
  /\ caller = "add" => executed = {}
  /\ caller # "add" => index = NPartitions
  /\ caller = "returned" => executed = queued

(* What a task finds is a number of keys. *)
LEMMA FoundNatural ==
  ASSUME NEW length \in Nat, NEW n \in Nat \ {0}, NEW j \in Nat
  PROVE  Found(length, n, j) \in Nat
<1>1. j + 1 \in Nat /\ j <= j /\ j + 1 <= j + 1
  OBVIOUS
<1>2. Bound(length, n, j) \in Nat /\ Bound(length, n, j + 1) \in Nat
  BY <1>1, BoundsOrdered
<1>3. ChunkBegin(length, n, j) \in Nat /\ ChunkEnd(length, n, j) \in Nat
  BY <1>2 DEF ChunkBegin, ChunkEnd
<1> DEFINE keys == ChunkEnd(length, n, j) - ChunkBegin(length, n, j)
<1>4. keys \in Int
  BY <1>3
<1>5. ASSUME keys > 0 PROVE (keys \div Lanes) * Lanes + (keys % Lanes) \in Nat
  <2> HIDE DEF keys
  <2>1. keys \in Nat
    BY <1>4, <1>5
  <2>2. keys \div Lanes \in Nat /\ keys % Lanes \in Nat
    BY <2>1, CountAssumption
  <2> QED
    BY <2>2, Products, CountAssumption
<1>6. Found(length, n, j) = IF keys > 0 THEN (keys \div Lanes) * Lanes + (keys % Lanes) ELSE 0
  BY DEF Found
<1> HIDE DEF keys
<1> QED
  BY <1>5, <1>6

LEMMA CountTypeStep ==
  ASSUME CountTypeOK, DealtInv, [CountNext]_countVars
  PROVE  CountTypeOK'
<1> USE CountAssumption
<1>1. ASSUME AddTasks PROVE CountTypeOK'
  <2> DEFINE n == TasksFor(index, remaining)
  <2>1. index \in Partitions
    BY <1>1 DEF AddTasks, CountTypeOK, Partitions
  <2>2. n \in 1..MaxPerLevel+1 /\ (remaining > 0 => n <= remaining)
    BY <2>1, Shares DEF CountTypeOK
  <2>3. remaining' \in 0..MaxPerLevel
    <3> HIDE DEF n
    <3>1. remaining' = IF remaining > 0 THEN remaining - n ELSE 0
      BY <1>1 DEF AddTasks, n
    <3> QED
      BY <2>2, <3>1 DEF CountTypeOK
  <2>4. queued' \subseteq Tasks
    <3>1. queued' = queued \cup {[i |-> index, j |-> j, n |-> n] : j \in 0..n-1}
      BY <1>1 DEF AddTasks
    <3>2. ASSUME NEW j \in 0..n-1 PROVE [i |-> index, j |-> j, n |-> n] \in Tasks
      <4> HIDE DEF n
      <4>1. j \in 0..MaxPerLevel
        BY <2>2
      <4> QED
        BY <2>1, <2>2, <4>1 DEF Tasks
    <3> HIDE DEF n
    <3> QED
      BY <3>1, <3>2 DEF CountTypeOK
  <2>5. index' \in 0..NPartitions
    BY <1>1 DEF AddTasks, CountTypeOK
  <2>6. executed' \subseteq queued'
    BY <1>1 DEF AddTasks, CountTypeOK
  <2> QED
    BY <1>1, <2>3, <2>4, <2>5, <2>6 DEF AddTasks, CountTypeOK
<1>2. ASSUME ExecuteTasks PROVE CountTypeOK'
  BY <1>2 DEF ExecuteTasks, CountTypeOK
<1>3. ASSUME NEW t \in queued, RunTask(t) PROVE CountTypeOK'
  <2>1. t \in Tasks
    BY DEF CountTypeOK
  <2>2. histogram[t.i] \in Nat /\ t.n \in Nat \ {0} /\ t.j \in Nat
    BY <2>1 DEF CountTypeOK, Tasks
  <2>3. Found(histogram[t.i], t.n, t.j) \in Nat
    BY <2>2, FoundNatural
  <2>4. total' \in Nat
    BY <1>3, <2>3 DEF RunTask, CountTypeOK
  <2> QED
    BY <1>3, <2>4 DEF RunTask, CountTypeOK
<1>4. ASSUME Return PROVE CountTypeOK'
  BY <1>4 DEF Return, CountTypeOK
<1>5. ASSUME UNCHANGED countVars PROVE CountTypeOK'
  BY <1>5 DEF countVars, CountTypeOK
<1> QED
  BY <1>1, <1>2, <1>3, <1>4, <1>5 DEF CountNext, Finished

LEMMA DealtStep ==
  ASSUME CountTypeOK, DealtInv, [CountNext]_countVars
  PROVE  DealtInv'
<1> USE CountAssumption
<1>1. ASSUME AddTasks PROVE DealtInv'
  <2> DEFINE n == TasksFor(index, remaining)
             new == {[i |-> index, j |-> j, n |-> n] : j \in 0..n-1}
  <2>1. index \in Partitions /\ index \in Nat
    BY <1>1 DEF AddTasks, CountTypeOK, Partitions
  <2>2. n \in 1..MaxPerLevel+1
    BY <2>1, Shares DEF CountTypeOK
  <2>3. queued' = queued \cup new /\ index' = index + 1
    BY <1>1 DEF AddTasks
  <2> HIDE DEF n
  <2>4. \A t \in new : t.i = index /\ t.n = n /\ t.j \in 0..n-1
    OBVIOUS
  <2>5. \A t \in queued : t.i \in Nat /\ t.i < index
    BY DEF CountTypeOK, DealtInv, Tasks, Partitions
  <2>6. \A t \in queued' : t.i < index'
    <3> HIDE DEF new
    <3> QED
      BY <2>1, <2>3, <2>4, <2>5
  <2>7. ASSUME NEW i \in Partitions, i < index'
        PROVE  \E m \in 1..MaxPerLevel+1 :
                 /\ \A t \in TasksOf(i)' : t.n = m /\ t.j \in 0..m-1
                 /\ \A j \in 0..m-1 : [i |-> i, j |-> j, n |-> m] \in queued'
    <3>1. CASE i < index
      <4>1. TasksOf(i)' = TasksOf(i)
        <5> HIDE DEF new
        <5> QED
          BY <2>1, <2>3, <2>4, <3>1 DEF TasksOf, Partitions
      <4> HIDE DEF new
      <4> QED
        BY <4>1, <2>3, <3>1 DEF DealtInv
    <3>2. CASE i = index
      <4>1. TasksOf(i)' \subseteq new
        <5> HIDE DEF new
        <5> QED
          BY <2>1, <2>3, <2>5, <3>2 DEF TasksOf
      <4>2. \A j \in 0..n-1 : [i |-> i, j |-> j, n |-> n] \in queued'
        BY <2>3, <3>2
      <4> HIDE DEF new
      <4>3. /\ \A t \in TasksOf(i)' : t.n = n /\ t.j \in 0..n-1
            /\ \A j \in 0..n-1 : [i |-> i, j |-> j, n |-> n] \in queued'
        BY <2>4, <4>1, <4>2
      <4> QED
        BY <2>2, <4>3
    <3> QED
      BY <2>1, <2>3, <2>7, <3>1, <3>2 DEF Partitions
  <2>8. caller' = "add" /\ executed' = {}
    BY <1>1 DEF AddTasks, DealtInv
  <2> HIDE DEF new
  <2> QED
    BY <2>6, <2>7, <2>8 DEF DealtInv
<1>2. ASSUME ExecuteTasks PROVE DealtInv'
  BY <1>2 DEF ExecuteTasks, DealtInv, TasksOf
<1>3. ASSUME NEW t \in queued, RunTask(t) PROVE DealtInv'
  BY <1>3 DEF RunTask, DealtInv, TasksOf
<1>4. ASSUME Return PROVE DealtInv'
  BY <1>4 DEF Return, DealtInv, TasksOf
<1>5. ASSUME UNCHANGED countVars PROVE DealtInv'
  BY <1>5 DEF countVars, DealtInv, TasksOf
<1> QED
  BY <1>1, <1>2, <1>3, <1>4, <1>5 DEF CountNext, Finished

LEMMA Invariants == CountSpec => [](CountTypeOK /\ DealtInv)
<1>1. CountInit => CountTypeOK /\ DealtInv
  BY CountAssumption DEF CountInit, CountTypeOK, DealtInv, TasksOf, Partitions
<1>2. CountTypeOK /\ DealtInv /\ [CountNext]_countVars => (CountTypeOK /\ DealtInv)'
  BY CountTypeStep, DealtStep
<1> QED
  BY <1>1, <1>2, PTL DEF CountSpec

(* The variables of count keep their types: remaining_tasks, unsigned in   *)
(* the code, never goes below zero.                                        *)
THEOREM CountTypeCorrect == CountSpec => []CountTypeOK
BY Invariants, PTL

(* Two tasks that look at the same key are the same. *)
LEMMA OneTask ==
  ASSUME CountTypeOK, DealtInv, NEW t \in queued, NEW u \in queued, t.i = u.i,
         NEW p \in Nat, p \in Chunk(histogram[t.i], t.n, t.j),
         p \in Chunk(histogram[u.i], u.n, u.j)
  PROVE  t = u
<1>1. t \in Tasks /\ u \in Tasks
  BY DEF CountTypeOK
<1>2. t.i \in Partitions /\ histogram[t.i] \in Nat
  BY <1>1, CountAssumption DEF CountTypeOK, Tasks
<1>3. t \in TasksOf(t.i) /\ u \in TasksOf(t.i) /\ t.i < index
  BY DEF TasksOf, DealtInv
<1>4. t.n = u.n
  BY <1>2, <1>3 DEF DealtInv
<1>5. t.j \in Nat /\ u.j \in Nat /\ t.n \in Nat \ {0}
  BY <1>1, CountAssumption DEF Tasks
<1>6. t.j = u.j
  BY <1>2, <1>4, <1>5, ChunksDisjoint
<1> QED
  BY <1>1, <1>4, <1>6 DEF Tasks

(* NoneTwice: no key is counted twice. *)
THEOREM CountedOnce == CountSpec => []NoneTwice
<1>1. ASSUME CountTypeOK, DealtInv PROVE NoneTwice
  <2> SUFFICES ASSUME NEW i \in Partitions, NEW p \in 0 .. histogram[i]-1,
                      NEW t \in Lookups(i, p), NEW u \in Lookups(i, p)
               PROVE  t = u
    BY DEF NoneTwice
  <2>1. /\ t \in queued /\ u \in queued /\ t.i = i /\ u.i = i
        /\ p \in Chunk(histogram[t.i], t.n, t.j) /\ p \in Chunk(histogram[u.i], u.n, u.j)
    BY <1>1 DEF Lookups, CountTypeOK
  <2>2. histogram[i] \in Nat /\ p \in Nat
    BY <1>1, CountAssumption DEF CountTypeOK
  <2> QED
    BY <1>1, <2>1, <2>2, OneTask
<1> QED
  BY <1>1, Invariants, PTL

(* NoneMissed: no key is forgotten; when count returns every key has been looked at.   *)
THEOREM CountedAll == CountSpec => []NoneMissed
<1>1. ASSUME CountTypeOK, DealtInv PROVE NoneMissed
  <2> SUFFICES ASSUME caller = "returned", NEW i \in Partitions,
                      NEW p \in 0 .. histogram[i]-1
               PROVE  Lookups(i, p) # {}
    BY DEF NoneMissed
  <2>1. index = NPartitions /\ executed = queued
    BY <1>1 DEF DealtInv
  <2>2. i < index
    BY <2>1, CountAssumption DEF Partitions
  <2>3. PICK n \in 1..MaxPerLevel+1 : \A j \in 0..n-1 : [i |-> i, j |-> j, n |-> n] \in queued
    BY <1>1, <2>2 DEF DealtInv
  <2>4. n \in Nat \ {0} /\ histogram[i] \in Nat
    BY <1>1, CountAssumption DEF CountTypeOK
  <2>5. PICK j \in 0..n-1 : p \in Chunk(histogram[i], n, j)
    BY <2>4, ChunksCover
  <2>6. [i |-> i, j |-> j, n |-> n] \in Lookups(i, p)
    BY <2>1, <2>3, <2>5 DEF Lookups
  <2> QED
    BY <2>6
<1> QED
  BY <1>1, Invariants, PTL

-----------------------------------------------------------------------------
(* The counter. *)

(* The keys a task looks at, those looked at so far, and those of the      *)
(* partitions before n; a key is a partition and a position.               *)
KeysOf(t) == {t.i} \X Chunk(histogram[t.i], t.n, t.j)
Seen == {k \in Partitions \X Nat : Lookups(k[1], k[2]) # {}}
KeysBelow(n) == {k \in (0 .. n-1) \X Nat : k[2] < histogram[k[1]]}

CountedInv == IsFiniteSet(Seen) /\ total = Cardinality(Seen)

(* A chunk is made of positions of the partition. *)
LEMMA ChunkInside ==
  ASSUME NEW length \in Nat, NEW n \in Nat \ {0}, NEW j \in Nat
  PROVE  /\ ChunkBegin(length, n, j) \in Nat /\ ChunkEnd(length, n, j) \in Nat
         /\ ChunkEnd(length, n, j) <= length
         /\ Chunk(length, n, j) \subseteq 0 .. length-1
<1>1. j + 1 \in Nat /\ j <= j /\ j + 1 <= j + 1
  OBVIOUS
<1>2. Bound(length, n, j) \in Nat /\ Bound(length, n, j + 1) \in Nat
  BY <1>1, BoundsOrdered
<1>3. /\ ChunkBegin(length, n, j) \in Nat /\ ChunkEnd(length, n, j) \in Nat
      /\ ChunkEnd(length, n, j) <= length
  BY <1>2 DEF ChunkBegin, ChunkEnd
<1> QED
  BY <1>3 DEF Chunk

(* A task finds as many keys as its chunk has, in vectors and under the    *)
(* mask together.                                                          *)
LEMMA FoundIsChunk ==
  ASSUME NEW length \in Nat, NEW n \in Nat \ {0}, NEW j \in Nat
  PROVE  /\ IsFiniteSet(Chunk(length, n, j))
         /\ Cardinality(Chunk(length, n, j)) = Found(length, n, j)
<1> DEFINE b == ChunkBegin(length, n, j)
           e == ChunkEnd(length, n, j)
<1>1. b \in Nat /\ e \in Nat
  BY ChunkInside
<1>2. Chunk(length, n, j) = b .. e-1
  BY DEF Chunk
<1>3. Found(length, n, j) = IF e - b > 0 THEN ((e - b) \div Lanes) * Lanes + ((e - b) % Lanes)
                            ELSE 0
  BY DEF Found
<1> HIDE DEF b, e
<1>4. ASSUME e - b > 0 PROVE ((e - b) \div Lanes) * Lanes + ((e - b) % Lanes) = e - b
  <2>1. e - b \in Nat /\ Lanes \in Nat \ {0}
    BY <1>1, <1>4, CountAssumption
  <2>2. PICK q : q = (e - b) \div Lanes
    OBVIOUS
  <2>3. q \in Nat /\ (e - b) % Lanes = (e - b) - Lanes * q
    BY <2>1, <2>2, Division
  <2>4. q * Lanes = Lanes * q /\ Lanes * q \in Nat
    BY <2>1, <2>3
  <2> QED
    BY <2>1, <2>2, <2>3, <2>4
<1>5. IsFiniteSet(b .. e-1) /\ Cardinality(b .. e-1) = IF b > e-1 THEN 0 ELSE (e-1) - b + 1
  BY <1>1, FS_Interval
<1> QED
  BY <1>1, <1>2, <1>3, <1>4, <1>5

(* A task that runs looks at keys nobody has looked at. *)
LEMMA TaskSees ==
  ASSUME CountTypeOK, DealtInv, NEW t \in queued, RunTask(t)
  PROVE  /\ Seen' = Seen \cup KeysOf(t)
         /\ Seen \cap KeysOf(t) = {}
         /\ IsFiniteSet(KeysOf(t))
         /\ Cardinality(KeysOf(t)) = Found(histogram[t.i], t.n, t.j)
<1>1. t \in Tasks /\ t \notin executed /\ executed \subseteq queued
  BY DEF RunTask, CountTypeOK
<1>2. t.i \in Partitions /\ t.n \in Nat \ {0} /\ t.j \in Nat /\ histogram[t.i] \in Nat
  BY <1>1, CountAssumption DEF CountTypeOK, Tasks
<1>3. Chunk(histogram[t.i], t.n, t.j) \subseteq Nat
  <2>1. Chunk(histogram[t.i], t.n, t.j) \subseteq 0 .. histogram[t.i] - 1
    BY <1>2, ChunkInside
  <2> QED
    BY <1>2, <2>1
<1>4. executed' = executed \cup {t} /\ histogram' = histogram
  BY DEF RunTask
<1>5. Seen' = Seen \cup KeysOf(t)
  <2>1. ASSUME NEW k \in Partitions \X Nat
        PROVE  Lookups(k[1], k[2])' # {} <=> Lookups(k[1], k[2]) # {} \/ k \in KeysOf(t)
    <3>1. k \in KeysOf(t) <=> t.i = k[1] /\ k[2] \in Chunk(histogram[k[1]], t.n, t.j)
      BY DEF KeysOf
    <3>2. Lookups(k[1], k[2])' = Lookups(k[1], k[2]) \cup
            {u \in {t} : u.i = k[1] /\ k[2] \in Chunk(histogram[k[1]], u.n, u.j)}
      BY <1>4 DEF Lookups, Chunk, ChunkBegin, ChunkEnd, Bound, valign
    <3> QED
      BY <3>1, <3>2
  <2>2. KeysOf(t) \subseteq Partitions \X Nat
    BY <1>2, <1>3 DEF KeysOf
  <2>3. Seen' = {k \in Partitions \X Nat : Lookups(k[1], k[2])' # {}}
    BY DEF Seen
  <2> QED
    BY <2>1, <2>2, <2>3 DEF Seen
<1>6. Seen \cap KeysOf(t) = {}
  <2>1. SUFFICES ASSUME NEW k \in Seen, k \in KeysOf(t) PROVE FALSE
    OBVIOUS
  <2>2. k[2] \in Nat /\ k[1] = t.i /\ k[2] \in Chunk(histogram[t.i], t.n, t.j)
    BY <2>1, <1>3 DEF KeysOf
  <2>3. PICK u \in executed : u.i = k[1] /\ k[2] \in Chunk(histogram[k[1]], u.n, u.j)
    BY <2>1 DEF Seen, Lookups
  <2>4. u \in queued /\ u # t /\ u.i = t.i /\ k[2] \in Chunk(histogram[u.i], u.n, u.j)
    BY <1>1, <2>2, <2>3
  <2> QED
    BY <2>2, <2>4, OneTask
<1>7. IsFiniteSet(KeysOf(t)) /\ Cardinality(KeysOf(t)) = Found(histogram[t.i], t.n, t.j)
  <2>1. PICK C : C = Chunk(histogram[t.i], t.n, t.j)
    OBVIOUS
  <2>2. IsFiniteSet(C) /\ Cardinality(C) = Found(histogram[t.i], t.n, t.j) /\ Cardinality(C) \in Nat
    BY <1>2, <2>1, FoundIsChunk, FS_CardinalityType
  <2>3. IsFiniteSet({t.i}) /\ Cardinality({t.i}) = 1
    BY FS_Singleton
  <2>4. /\ IsFiniteSet({t.i} \X C)
        /\ Cardinality({t.i} \X C) = Cardinality({t.i}) * Cardinality(C)
    BY <2>2, <2>3, FS_Product
  <2> QED
    BY <2>1, <2>2, <2>3, <2>4 DEF KeysOf
<1> QED
  BY <1>5, <1>6, <1>7

(* The counter is the number of keys looked at. *)
LEMMA CountedStep ==
  ASSUME CountTypeOK, DealtInv, CountedInv, [CountNext]_countVars
  PROVE  CountedInv'
<1>1. ASSUME NEW t \in queued, RunTask(t) PROVE CountedInv'
  <2>1. /\ Seen' = Seen \cup KeysOf(t) /\ Seen \cap KeysOf(t) = {}
        /\ IsFiniteSet(KeysOf(t))
        /\ Cardinality(KeysOf(t)) = Found(histogram[t.i], t.n, t.j)
    BY <1>1, TaskSees
  <2>2. IsFiniteSet(Seen) /\ total = Cardinality(Seen)
    BY DEF CountedInv
  <2>3. /\ IsFiniteSet(Seen \cup KeysOf(t))
        /\ Cardinality(Seen \cup KeysOf(t)) =
             Cardinality(Seen) + Cardinality(KeysOf(t)) - Cardinality(Seen \cap KeysOf(t))
    BY <2>1, <2>2, FS_Union
  <2>4. Cardinality(Seen \cap KeysOf(t)) = 0
    BY <2>1, FS_EmptySet
  <2>5. Cardinality(Seen) \in Nat /\ Cardinality(KeysOf(t)) \in Nat
    BY <2>1, <2>2, FS_CardinalityType
  <2>6. total' = Cardinality(Seen \cup KeysOf(t))
    BY <1>1, <2>1, <2>2, <2>3, <2>4, <2>5 DEF RunTask
  <2> QED
    BY <2>1, <2>3, <2>6 DEF CountedInv
<1>2. ASSUME UNCHANGED <<histogram, executed, total>> PROVE CountedInv'
  <2>1. \A i \in Partitions, p \in Nat : Lookups(i, p)' = Lookups(i, p)
    BY <1>2 DEF Lookups, Chunk, ChunkBegin, ChunkEnd, Bound, valign
  <2>2. Seen' = Seen
    BY <2>1 DEF Seen
  <2> QED
    BY <1>2, <2>2 DEF CountedInv
<1> QED
  BY <1>1, <1>2 DEF CountNext, AddTasks, ExecuteTasks, Return, Finished, countVars

(* As many keys as the histogram says. *)
LEMMA KeysSumUp ==
  ASSUME CountTypeOK
  PROVE  /\ IsFiniteSet(KeysBelow(NPartitions))
         /\ Cardinality(KeysBelow(NPartitions)) = SumBelow(histogram, NPartitions)
<1> DEFINE Summed(n) == IsFiniteSet(KeysBelow(n)) /\ Cardinality(KeysBelow(n)) = SumBelow(histogram, n)
<1>1. NPartitions \in Nat /\ \A i \in 0 .. NPartitions-1 : histogram[i] \in Nat
  BY CountAssumption DEF CountTypeOK, Partitions
<1>2. /\ SumBelow(histogram, 0) = 0
      /\ \A n \in 0..NPartitions : SumBelow(histogram, n) \in Nat
      /\ \A n \in 0 .. NPartitions-1 : SumBelow(histogram, n+1) = SumBelow(histogram, n) + histogram[n]
  BY <1>1, SumSteps
<1>3. Summed(0)
  <2>1. KeysBelow(0) = {}
    BY DEF KeysBelow
  <2> QED
    BY <1>2, <2>1, FS_EmptySet
<1>4. ASSUME NEW n \in 0 .. NPartitions-1, Summed(n) PROVE Summed(n+1)
  <2>1. PICK S : S = 0 .. histogram[n]-1
    OBVIOUS
  <2>2. histogram[n] \in Nat
    BY <1>1
  <2>3. IsFiniteSet(S) /\ Cardinality(S) = histogram[n]
    <3>1. PICK l \in Nat : l = histogram[n]
      BY <2>2
    <3>2. IsFiniteSet(0 .. l-1) /\ Cardinality(0 .. l-1) = IF 0 > l-1 THEN 0 ELSE (l-1) - 0 + 1
      BY FS_Interval
    <3> QED
      BY <2>1, <3>1, <3>2
  <2>4. IsFiniteSet({n}) /\ Cardinality({n}) = 1
    BY FS_Singleton
  <2>5. IsFiniteSet({n} \X S) /\ Cardinality({n} \X S) = histogram[n]
    <3>1. IsFiniteSet({n} \X S) /\ Cardinality({n} \X S) = Cardinality({n}) * Cardinality(S)
      BY <2>3, <2>4, FS_Product
    <3> QED
      BY <2>2, <2>3, <2>4, <3>1
  <2>6. KeysBelow(n+1) = KeysBelow(n) \cup ({n} \X S)
    <3>1. n \in Nat /\ 0 .. (n+1)-1 = (0 .. n-1) \cup {n}
      BY <1>1
    <3>2. \A k \in {n} \X Nat : k[2] < histogram[k[1]] <=> k[2] \in S
      BY <2>1, <2>2
    <3>3. S \subseteq Nat
      BY <2>1, <2>2
    <3> QED
      BY <3>1, <3>2, <3>3 DEF KeysBelow
  <2>7. KeysBelow(n) \cap ({n} \X S) = {}
    BY <1>1 DEF KeysBelow
  <2>8. /\ IsFiniteSet(KeysBelow(n+1))
        /\ Cardinality(KeysBelow(n+1)) = Cardinality(KeysBelow(n)) + histogram[n] - 0
    BY <1>4, <2>5, <2>6, <2>7, FS_Union, FS_EmptySet
  <2> QED
    BY <1>2, <1>4, <2>2, <2>8
<1>5. \A n \in 0..NPartitions : Summed(n)
  <2>1. SUFFICES ASSUME NEW r \in 0..NPartitions, ~ Summed(r) PROVE FALSE
    OBVIOUS
  <2>2. PICK T : T = {n \in Nat : n \in 0..NPartitions /\ ~ Summed(n)}
    OBVIOUS
  <2>3. T \subseteq Nat /\ T # {}
    BY <1>1, <2>1, <2>2
  <2>4. PICK m \in T : \A n \in T : m <= n
    BY <2>3, LeastNat
  <2>5. m \in 1..NPartitions /\ ~ Summed(m)
    <3>1. m \in 0..NPartitions /\ ~ Summed(m)
      BY <2>2, <2>4
    <3>2. m # 0
      BY <1>3, <3>1
    <3> QED
      BY <1>1, <3>1, <3>2
  <2>6. m-1 \in 0 .. NPartitions-1 /\ m-1 \in Nat /\ m-1 \in 0..NPartitions
        /\ ~ (m <= m-1) /\ (m-1)+1 = m
    BY <1>1, <2>5
  <2>7. Summed(m-1)
    BY <2>2, <2>4, <2>6
  <2>8. Summed((m-1)+1)
    BY <1>4, <2>6, <2>7
  <2> QED
    BY <2>5, <2>6, <2>8
<1> QED
  BY <1>1, <1>5

(* CountExact: when count returns, the counter is the number of all keys,  *)
(* however they were dealt out and in whatever order the tasks added to    *)
(* it.                                                                     *)
THEOREM CountedExactly == CountSpec => []CountExact
<1>1. CountInit => CountedInv
  <2>1. ASSUME CountInit PROVE Seen = {} /\ total = 0
    BY <2>1 DEF CountInit, Seen, Lookups
  <2> QED
    BY <2>1, FS_EmptySet DEF CountedInv
<1>2. CountTypeOK /\ DealtInv /\ CountedInv /\ [CountNext]_countVars => CountedInv'
  BY CountedStep
<1>3. ASSUME CountTypeOK, DealtInv, NoneMissed, CountedInv PROVE CountExact
  <2>1. SUFFICES ASSUME caller = "returned" PROVE total = SumBelow(histogram, NPartitions)
    BY DEF CountExact
  <2>2. ASSUME NEW k \in KeysBelow(NPartitions) PROVE k \in Seen
    <3>1. /\ k \in Partitions \X Nat /\ k[1] \in Partitions
          /\ histogram[k[1]] \in Nat /\ k[2] \in 0 .. histogram[k[1]]-1
      BY <1>3, CountAssumption DEF KeysBelow, Partitions, CountTypeOK
    <3> QED
      BY <1>3, <2>1, <3>1 DEF NoneMissed, Seen
  <2>3. ASSUME NEW k \in Seen PROVE k \in KeysBelow(NPartitions)
    <3>1. k \in Partitions \X Nat /\ histogram[k[1]] \in Nat
      BY <1>3, CountAssumption DEF Seen, CountTypeOK
    <3>2. PICK t \in executed : t.i = k[1] /\ k[2] \in Chunk(histogram[k[1]], t.n, t.j)
      BY DEF Seen, Lookups
    <3>3. t.n \in Nat \ {0} /\ t.j \in Nat
      BY <1>3, CountAssumption DEF CountTypeOK, Tasks
    <3>4. k[2] \in 0 .. histogram[k[1]]-1
      BY <3>1, <3>2, <3>3, ChunkInside
    <3> QED
      BY <3>1, <3>4 DEF KeysBelow, Partitions
  <2>4. Seen = KeysBelow(NPartitions)
    BY <2>2, <2>3
  <2> QED
    BY <1>3, <2>4, KeysSumUp DEF CountedInv
<1> QED
  BY <1>1, <1>2, <1>3, Invariants, CountedAll, PTL DEF CountSpec
=============================================================================
