----------------------------- MODULE XorFilter -----------------------------
(***************************************************************************)
(* Filter<FilterType::Xor>: how the public operations build the partitions *)
(* of an xor filter.  construct submits its work to the task queue, here   *)
(* through the phased execution that module TaskQueue implements: scatter  *)
(* the keys (module PartitionSet), replace the container, build a group of *)
(* lanes partitions per task.  Where the filter is scalar the client may   *)
(* instead call init and then add_partition.                               *)
(*                                                                         *)
(* Whether the keys of one partition can be placed under a seed is decided *)
(* by module XorConstruct; here it is a choice, and all that is kept of a  *)
(* partition's fingerprints is the seed they were placed under.            *)
(***************************************************************************)
EXTENDS Naturals, FiniteSets, Sequences, SequencesExt

CONSTANTS
  NPartitions,
  LaneCounts,   \* the values Vector::n_elements may have
  MaxRetries,   \* max_n_retries
  MaxInits      \* bound: how often the container may be replaced

ASSUME SizesAssumption ==
  /\ NPartitions \in Nat \ {0}
  /\ \A l \in LaneCounts : l \in Nat \ {0} /\ NPartitions % l = 0
  /\ MaxRetries \in Nat \ {0} /\ MaxInits \in Nat

VARIABLES
  lanes,     \* Vector::n_elements: partitions built by one task; it never changes
  plan, executing, begun, ended, \* the task queue
  call,      \* the operation in progress
  result,    \* what the last construct or add_partition returned
  inits,     \* history: number of containers made
  seeds,     \* container.seeds: by partition
  filled,    \* the seed a partition's fingerprints were placed under
  n_retries,
  success,   \* the atomic result of construct
  at,        \* where the build of each group is
  mask,      \* the partitions of the group that are not built yet
  j,         \* the fallback loop's counter
  loaded,    \* n_retries as the increment in progress read it
  local,     \* the success of _construct
  attempts,  \* history: attempts of _construct_fallback
  given      \* history: partitions whose keys the container has been given

queueVars == <<plan, executing, begun, ended>>
buildVars == <<at, mask, j, loaded, local>>
vars == <<lanes, queueVars, call, result, inits, seeds, filled, n_retries, success,
          buildVars, attempts, given>>

Partitions == 0 .. NPartitions-1
Groups == {g \in Partitions : g % lanes = 0}
Members(g) == g .. g + lanes-1
Unfilled == MaxRetries + 1   \* no seed: the fingerprints are zero
NoResult == [of |-> "none", value |-> TRUE]

-----------------------------------------------------------------------------
(* The tasks of construct. *)

Scatter == <<"scatter", 0>>
CleanUp == <<"cleanup", 0>>
MakeContainer == <<"container", 0>>
BuildOf(g) == <<"build", g>>

Tasks == {Scatter, CleanUp, MakeContainer} \cup {BuildOf(g) : g \in Partitions}

(* In the order in which they are submitted. *)
Program == <<Scatter, CleanUp, MakeContainer>>
             \o [n \in 1 .. Cardinality(Groups) |-> BuildOf((n - 1) * lanes)]

(* Faulty variant: no barrier between making the container and using it.   *)
PhaseWithoutBarrier(task) == IF task = Scatter THEN 0 ELSE 1

(* A barrier follows the scatter, and one the making of the container;     *)
(* none separates the cleanup from the making of the container.            *)
PhaseOf(task) ==
  CASE task = Scatter -> 0
    [] task \in {CleanUp, MakeContainer} -> 1
    [] OTHER -> 2

Queue == INSTANCE PhasedExecution WITH TaskId <- Tasks, Phase <- 0..2

Init ==
  /\ lanes \in LaneCounts
  /\ Queue!Init
  /\ call = "none" /\ result = NoResult
  /\ inits = 0
  /\ seeds = [i \in Partitions |-> 0]            \* there is no container yet,
  /\ filled = [i \in Partitions |-> Unfilled]    \* and nothing reads these
  /\ n_retries = 0
  /\ success = TRUE
  /\ at = [g \in Groups |-> "idle"]
  /\ mask = [g \in Groups |-> {}]
  /\ j = [g \in Groups |-> 0]
  /\ loaded = [g \in Groups |-> 0]
  /\ local = [g \in Groups |-> TRUE]
  /\ attempts = 0
  /\ given = Partitions

(* A new container: seed 0 for every partition, fingerprints zero. *)
NewContainer ==
  /\ seeds' = [i \in Partitions |-> 0]
  /\ filled' = [i \in Partitions |-> Unfilled]
  /\ inits' = inits + 1

-----------------------------------------------------------------------------
(* construct *)

construct ==
  /\ call = "none"
  /\ inits < MaxInits
  /\ call' = "construct"
  /\ success' = TRUE
  /\ result' = NoResult
  /\ given' = Partitions
  /\ UNCHANGED <<lanes, queueVars, inits, seeds, filled, n_retries, buildVars, attempts>>

SubmitNext ==
  /\ call = "construct"
  /\ LET n == Cardinality(DOMAIN plan) + 1
     IN  n <= Len(Program) /\ Queue!Submit(Program[n], PhaseOf(Program[n]))
  /\ UNCHANGED <<lanes, call, result, inits, seeds, filled, n_retries, success,
                 buildVars, attempts, given>>

ExecuteTasks ==
  /\ call = "construct"
  /\ DOMAIN plan = ToSet(Program)
  /\ Queue!Execute
  /\ UNCHANGED <<lanes, call, result, inits, seeds, filled, n_retries, success,
                 buildVars, attempts, given>>

BeginTask(task) ==
  /\ task \in DOMAIN plan
  /\ Queue!Begin(task)
  /\ at' = [g \in Groups |-> IF task = BuildOf(g) THEN "lanes" ELSE at[g]]
  /\ UNCHANGED <<lanes, call, result, inits, seeds, filled, n_retries, success,
                 mask, j, loaded, local, attempts, given>>

(* The task that replaces the container by a new one. *)
EndMakeContainer ==
  /\ MakeContainer \in DOMAIN plan
  /\ Queue!End(MakeContainer)
  /\ NewContainer
  /\ UNCHANGED <<lanes, call, result, n_retries, success, buildVars, attempts, given>>

EndOther(task) ==
  /\ task \in DOMAIN plan \cap {Scatter, CleanUp}
  /\ Queue!End(task)
  /\ UNCHANGED <<lanes, call, result, inits, seeds, filled, n_retries, success,
                 buildVars, attempts, given>>

(* The build's variables are local to it. *)
Forget(g) ==
  /\ at' = [at EXCEPT ![g] = "idle"]
  /\ j' = [j EXCEPT ![g] = 0]
  /\ loaded' = [loaded EXCEPT ![g] = 0]
  /\ local' = [local EXCEPT ![g] = TRUE]
  /\ UNCHANGED mask

(* Faulty variant: success = _construct(...). *)
EndBuildOverwriting(g) ==
  /\ at[g] = "done"
  /\ BuildOf(g) \in DOMAIN plan
  /\ Queue!End(BuildOf(g))
  /\ success' = local[g]
  /\ Forget(g)
  /\ UNCHANGED <<lanes, call, result, inits, seeds, filled, n_retries, attempts, given>>

(* success &= _construct(...), one atomic operation. *)
EndBuild(g) ==
  /\ at[g] = "done"
  /\ BuildOf(g) \in DOMAIN plan
  /\ Queue!End(BuildOf(g))
  /\ success' = (success /\ local[g])
  /\ Forget(g)
  /\ UNCHANGED <<lanes, call, result, inits, seeds, filled, n_retries, attempts, given>>

ReturnFromConstruct ==
  /\ call = "construct"
  /\ Queue!Return
  /\ call' = "none"
  /\ result' = [of |-> "construct", value |-> success]
  /\ UNCHANGED <<lanes, inits, seeds, filled, n_retries, success, buildVars, attempts, given>>

-----------------------------------------------------------------------------
(* init and add_partition, for scalar filters only. *)

init ==
  /\ call = "none"
  /\ lanes = 1
  /\ inits < MaxInits
  /\ NewContainer
  /\ result' = NoResult
  /\ given' = {}
  /\ UNCHANGED <<lanes, queueVars, call, n_retries, success, buildVars, attempts>>

(* The client gives each partition once after an init. *)
add_partition(index) ==
  /\ call = "none"
  /\ lanes = 1
  /\ index \notin given
  /\ call' = "add_partition"
  /\ at' = [at EXCEPT ![index] = "lanes"]
  /\ given' = given \cup {index}
  /\ UNCHANGED <<lanes, queueVars, result, inits, seeds, filled, n_retries, success,
                 mask, j, loaded, local, attempts>>

(* return true, whatever _construct returned. *)
ReturnFromAdd(g) ==
  /\ call = "add_partition"
  /\ at[g] = "done"
  /\ call' = "none"
  /\ result' = [of |-> "add_partition", value |-> TRUE]
  /\ Forget(g)
  /\ UNCHANGED <<lanes, queueVars, inits, seeds, filled, n_retries, success, attempts, given>>

-----------------------------------------------------------------------------
(* _construct and _construct_fallback. *)

(* Every partition of the group is tried at once under seed 0; those that  *)
(* can be placed are filled.                                               *)
TryLanes(g) ==
  /\ at[g] = "lanes"
  /\ \E failed \in SUBSET Members(g) :
       /\ mask' = [mask EXCEPT ![g] = failed]
       /\ filled' = [i \in Partitions |->
            IF i \in Members(g) \ failed THEN 0 ELSE filled[i]]
       /\ at' = [at EXCEPT ![g] = IF failed = {} THEN "done" ELSE "load"]
  /\ UNCHANGED <<lanes, queueVars, call, result, inits, seeds, n_retries, success,
                 j, loaded, local, attempts, given>>

(* The partition in the fallback loop: __builtin_ctz(mask). *)
Current(g) == CHOOSE i \in mask[g] : \A l \in mask[g] : i <= l

(* n_retries++ is not atomic: tasks may load the same value. *)
LoadRetries(g) ==
  /\ at[g] = "load"
  /\ loaded' = [loaded EXCEPT ![g] = n_retries]
  /\ at' = [at EXCEPT ![g] = "store"]
  /\ UNCHANGED <<lanes, queueVars, call, result, inits, seeds, filled, n_retries,
                 success, mask, j, local, attempts, given>>

(* Faulty variant: the seed is set only once the keys are placed. *)
StoreWithoutSeed(g) ==
  /\ at[g] = "store"
  /\ n_retries' = loaded[g] + 1
  /\ attempts' = attempts + 1
  /\ at' = [at EXCEPT ![g] = "attempt"]
  /\ UNCHANGED <<lanes, queueVars, call, result, inits, seeds, filled, success, mask,
                 j, loaded, local, given>>

(* Faulty variant: only what went wrong before is counted. *)
StoreCountingFromZero(g) ==
  /\ at[g] = "store"
  /\ n_retries' = loaded[g] + j[g]
  /\ attempts' = attempts + 1
  /\ seeds' = [seeds EXCEPT ![Current(g)] = j[g] + 1]
  /\ at' = [at EXCEPT ![g] = "attempt"]
  /\ UNCHANGED <<lanes, queueVars, call, result, inits, filled, success, mask, j,
                 loaded, local, given>>

StoreRetries(g) ==
  /\ at[g] = "store"
  /\ n_retries' = loaded[g] + 1
  /\ attempts' = attempts + 1
  /\ seeds' = [seeds EXCEPT ![Current(g)] = j[g] + 1]
  /\ at' = [at EXCEPT ![g] = "attempt"]
  /\ UNCHANGED <<lanes, queueVars, call, result, inits, filled, success, mask, j,
                 loaded, local, given>>

(* Go on to the next partition of the mask, if there is one. *)
NextInMask(g) ==
  /\ mask' = [mask EXCEPT ![g] = @ \ {Current(g)}]
  /\ j' = [j EXCEPT ![g] = 0]
  /\ at' = [at EXCEPT ![g] = IF mask'[g] = {} THEN "done" ELSE "load"]

Placed(g) ==
  /\ at[g] = "attempt"
  /\ filled' = [filled EXCEPT ![Current(g)] = j[g] + 1]
  /\ NextInMask(g)
  /\ UNCHANGED <<lanes, queueVars, call, result, inits, seeds, n_retries, success,
                 loaded, local, attempts, given>>

NotPlaced(g) ==
  /\ at[g] = "attempt"
  /\ \/ /\ j[g] + 1 < MaxRetries
        /\ j' = [j EXCEPT ![g] = @ + 1]
        /\ at' = [at EXCEPT ![g] = "load"]
        /\ UNCHANGED <<mask, local>>
     \/ /\ j[g] + 1 = MaxRetries
        /\ local' = [local EXCEPT ![g] = FALSE]
        /\ NextInMask(g)
  /\ UNCHANGED <<lanes, queueVars, call, result, inits, seeds, filled, n_retries,
                 success, loaded, attempts, given>>

-----------------------------------------------------------------------------
Build(g) ==
  TryLanes(g) \/ LoadRetries(g) \/ StoreRetries(g) \/ Placed(g) \/ NotPlaced(g)

Construct ==
  \/ construct \/ SubmitNext \/ ExecuteTasks \/ ReturnFromConstruct
  \/ EndMakeContainer
  \/ \E task \in Tasks : BeginTask(task) \/ EndOther(task)
  \/ \E g \in Groups : EndBuild(g)

Add == init \/ \E g \in Groups : add_partition(g) \/ ReturnFromAdd(g)

(* The client has made all the calls it makes. *)
Finished ==
  /\ call = "none" /\ inits = MaxInits
  /\ UNCHANGED vars

Next == Construct \/ Add \/ (\E g \in Groups : Build(g)) \/ Finished

Spec == Init /\ [][Next]_vars

-----------------------------------------------------------------------------
(* Properties. *)

(* A lookup computes the slots from the stored seed: it finds the keys of  *)
(* the partition if the fingerprints were placed under that seed.          *)
Found(i) == filled[i] = seeds[i]

(* construct returns true exactly if every partition was built, although   *)
(* the tasks report into one shared flag, the container is replaced while  *)
(* other tasks run, and each partition may go through several seeds.       *)
ConstructReportsOutcome ==
  result.of = "construct" =>
    (result.value <=> \A i \in Partitions : Found(i))

(* add_partition returns true only if the partition was built: what the    *)
(* filter test asserts of the result ("Building filter has failed.").      *)
AddReportsOutcome ==
  result.of = "add_partition" /\ result.value /\ call = "none" =>
    \A i \in given : Found(i)

(* retries() may count too few attempts when tasks fall back at the same   *)
(* time, but never too many, and never none when there was one.            *)
RetriesReported ==
  call = "none" =>
    /\ n_retries <= attempts
    /\ n_retries = 0 => attempts = 0

GroupOf(i) == (i \div lanes) * lanes
Attempting(i) == at[GroupOf(i)] = "attempt" /\ Current(GroupOf(i)) = i

Partition(i) == INSTANCE PartitionBuild WITH
  status <- IF filled[i] # Unfilled THEN "built"
            ELSE IF seeds[i] = MaxRetries /\ ~Attempting(i) THEN "failed"
            ELSE "building",
  seed   <- seeds[i],
  found  <- Found(i)

(* With every new container the build of each partition starts, and goes   *)
(* through the seeds as module PartitionBuild says, whatever the tasks and *)
(* the lanes of its neighbours do: Init and [][Next]_vars of each.         *)
BuildsEach ==
  /\ \A i \in Partitions : Partition(i)!Init
  /\ [][\A i \in Partitions :
         IF inits' = inits THEN [Partition(i)!Next]_(Partition(i)!vars)
         ELSE Partition(i)!Init']_vars
=============================================================================
