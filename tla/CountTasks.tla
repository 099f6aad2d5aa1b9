---------------------------- MODULE CountTasks ----------------------------
(***************************************************************************)
(* The multi-threaded count of Filter<FilterType::Xor>, ::Cuckoo and       *)
(* ::Bloom: how the keys of the partitions are dealt out to tasks.         *)
(*                                                                         *)
(* The partitions share n_tasks_per_level tasks, each getting at least     *)
(* one, and the tasks of a partition divide its keys by position: task j   *)
(* takes those from begin to end, both rounded up to the alignment.  The   *)
(* tasks then run in any order and add what they found to one atomic       *)
(* counter.  Keys are positions of their partition; here every key is      *)
(* found.                                                                  *)
(***************************************************************************)
EXTENDS Integers, FiniteSets, Arithmetic

CONSTANTS
  NPartitions,
  Alignment,   \* of valign, which is given a number of keys
  Lanes,       \* Vector::n_elements
  MaxLength,   \* bound: keys of a partition
  MaxPerLevel  \* bound: n_tasks_per_level

ASSUME CountAssumption ==
  /\ NPartitions \in Nat \ {0} /\ Alignment \in Nat \ {0} /\ Lanes \in Nat \ {0}
  /\ MaxLength \in Nat /\ MaxPerLevel \in Nat

VARIABLES
  histogram,  \* the keys of each partition
  index,      \* the partition whose tasks the loop adds next
  remaining,  \* remaining_tasks
  queued,     \* the tasks in the queue
  executed,   \* those that have run
  total,      \* counter
  caller      \* where the caller is

countVars == <<histogram, index, remaining, queued, executed, total, caller>>

Partitions == 0 .. NPartitions-1

(* What a task captures: its partition, its number and n_tasks. *)
Tasks == [i : Partitions, j : 0..MaxPerLevel, n : 1..MaxPerLevel+1]

-----------------------------------------------------------------------------
(* The share of a partition and of a task. *)

valign(n) ==
  IF n % Alignment # 0 THEN (n \div Alignment + 1) * Alignment ELSE n

(* Faulty variant: one task on top of the share instead of at least one.   *)
TasksForAndOne(i, left) == (left \div (NPartitions - i)) + 1

(* std::max(remaining_tasks / (n_partitions - i), 1), at least one task    *)
(* when none remains.                                                      *)
TasksFor(i, left) ==
  LET share == left \div (NPartitions - i)
  IN  IF share > 1 THEN share ELSE 1

(* Faulty variant: the remainder of the division is forgotten.             *)
BoundShort(length, n, j) == valign((length \div n) * j)

(* Where chunk j begins, and where chunk j-1 ends unless the keys end.     *)
Bound(length, n, j) == valign((length \div n + 1) * j)

(* Faulty variant: the begin is not rounded as the end is.                 *)
ChunkBeginUnaligned(length, n, j) == (length \div n + 1) * j

ChunkBegin(length, n, j) == Bound(length, n, j)
ChunkEnd(length, n, j) ==
  LET bound == Bound(length, n, j + 1) IN IF bound < length THEN bound ELSE length

(* The positions task j of n looks at; none if it begins beyond its end.   *)
Chunk(length, n, j) == ChunkBegin(length, n, j) .. ChunkEnd(length, n, j) - 1

(* Faulty variant: the keys that do not fill a vector are not looked up.   *)
FoundWithoutTail(length, n, j) ==
  IF ChunkBegin(length, n, j) < ChunkEnd(length, n, j)
  THEN ((ChunkEnd(length, n, j) - ChunkBegin(length, n, j)) \div Lanes) * Lanes ELSE 0

(* Container::count: whole vectors, then the rest under a mask.            *)
Found(length, n, j) ==
  LET keys == ChunkEnd(length, n, j) - ChunkBegin(length, n, j)
  IN  IF keys > 0 THEN (keys \div Lanes) * Lanes + (keys % Lanes) ELSE 0

-----------------------------------------------------------------------------
CountInit ==
  /\ histogram \in [Partitions -> 0..MaxLength]
  /\ remaining \in 0..MaxPerLevel
  /\ index = 0
  /\ queued = {} /\ executed = {}
  /\ total = 0
  /\ caller = "add"

(* One turn of the loop over the partitions. *)
AddTasks ==
  /\ caller = "add"
  /\ index < NPartitions
  /\ LET n == TasksFor(index, remaining)
     IN  /\ queued' = queued \cup {[i |-> index, j |-> j, n |-> n] : j \in 0..n-1}
         /\ remaining' = IF remaining > 0 THEN remaining - n ELSE 0
  /\ index' = index + 1
  /\ UNCHANGED <<histogram, executed, total, caller>>

ExecuteTasks ==
  /\ caller = "add"
  /\ index = NPartitions
  /\ caller' = "execute"
  /\ UNCHANGED <<histogram, index, remaining, queued, executed, total>>

(* A task looks its chunk up and adds the result to the atomic counter.    *)
RunTask(t) ==
  /\ caller = "execute"
  /\ t \in queued \ executed
  /\ total' = total + Found(histogram[t.i], t.n, t.j)
  /\ executed' = executed \cup {t}
  /\ UNCHANGED <<histogram, index, remaining, queued, caller>>

Return ==
  /\ caller = "execute"
  /\ executed = queued
  /\ caller' = "returned"
  /\ UNCHANGED <<histogram, index, remaining, queued, executed, total>>

Finished == caller = "returned" /\ UNCHANGED countVars

CountNext == AddTasks \/ ExecuteTasks \/ (\E t \in queued : RunTask(t)) \/ Return \/ Finished

CountSpec == CountInit /\ [][CountNext]_countVars

-----------------------------------------------------------------------------
(* Properties. *)

CountTypeOK ==
  /\ histogram \in [Partitions -> 0..MaxLength]
  /\ index \in 0..NPartitions
  /\ remaining \in 0..MaxPerLevel
  /\ queued \subseteq Tasks
  /\ executed \subseteq queued
  /\ total \in Nat
  /\ caller \in {"add", "execute", "returned"}

(* The tasks that look at one key. *)
Lookups(i, p) == {t \in executed : t.i = i /\ p \in Chunk(histogram[i], t.n, t.j)}

(* No key of a partition is looked at by two tasks. *)
NoneTwice ==
  \A i \in Partitions : \A p \in 0 .. histogram[i]-1 :
    \A t, u \in Lookups(i, p) : t = u

(* When count returns, each key of each partition has been looked at.      *)
NoneMissed ==
  caller = "returned" =>
    \A i \in Partitions : \A p \in 0 .. histogram[i]-1 : Lookups(i, p) # {}

(* What count returns: as many keys as were found, here all of them,       *)
(* however the tasks are dealt out and in whatever order they add up.      *)
CountExact ==
  caller = "returned" => total = SumBelow(histogram, NPartitions)
=============================================================================
