-------------------------- MODULE XorFilterProofs --------------------------
(***************************************************************************)
(* Proofs about XorFilter for any number of partitions, of lanes that      *)
(* divide them, of retries and of containers: construct reports what it    *)
(* built, the retries are reported, and each partition is built as         *)
(* PartitionBuild says.                                                    *)
(*                                                                         *)
(* The invariant IInv follows a construct from the queue to its result:    *)
(* no build begins before the container is made, a group is being built    *)
(* while its task runs, the fallback loop knows whether it found a seed    *)
(* for all partitions it is done with, and the flag is the conjunction of  *)
(* what the tasks that have ended report.                                  *)
(***************************************************************************)
EXTENDS XorFilter, NaturalLemmas, FiniteSetTheorems, FunctionTheorems, SequenceTheorems, TLAPS

(* A partition that nothing has been done to in its container.             *)
Untouched(i) == filled[i] = Unfilled /\ seeds[i] = 0

(* What the variables hold.                                                *)
TypeInv ==
  /\ lanes \in LaneCounts
  /\ call \in {"none", "construct", "add_partition"}
  /\ result \in [of : {"none", "construct", "add_partition"}, value : BOOLEAN]
  /\ inits \in Nat
  /\ seeds \in [Partitions -> 0 .. MaxRetries]
  /\ filled \in [Partitions -> 0 .. Unfilled]
  /\ n_retries \in Nat /\ attempts \in Nat
  /\ success \in BOOLEAN
  /\ at \in [Groups -> {"idle", "lanes", "load", "store", "attempt", "done"}]
  /\ mask \in [Groups -> SUBSET Partitions]
  /\ j \in [Groups -> 0 .. MaxRetries-1]
  /\ loaded \in [Groups -> Nat]
  /\ local \in [Groups -> BOOLEAN]
  /\ given \in SUBSET Partitions

(* The queue: tasks run once, in the order of their phases, and only in a  *)
(* construct that has submitted all of them.                               *)
QueueInv ==
  /\ plan = [t \in DOMAIN plan |-> PhaseOf(t)]
  /\ executing \in BOOLEAN
  /\ begun \in [DOMAIN plan -> 0..1] /\ ended \in [DOMAIN plan -> 0..1]
  /\ \A t \in DOMAIN plan :
       /\ ended[t] = 1 => begun[t] = 1
       /\ begun[t] = 1 => executing
       /\ begun[t] = 1 => \A u \in DOMAIN plan : PhaseOf(u) < PhaseOf(t) => ended[u] = 1
  /\ executing => ToSet(Program) \subseteq DOMAIN plan
  /\ call # "construct" => ~executing /\ DOMAIN plan = {}

Begun(t) == t \in DOMAIN plan /\ begun[t] = 1
Ended(t) == t \in DOMAIN plan /\ ended[t] = 1

(* Who builds: in a construct the tasks that have begun and not ended, in  *)
(* an add_partition one group, and otherwise nobody.                       *)
WhoBuilds ==
  /\ call = "construct" =>
       \A g \in Groups : at[g] # "idle" <=> Begun(BuildOf(g)) /\ ~Ended(BuildOf(g))
  /\ call = "add_partition" => \A g, h \in Groups : at[g] # "idle" /\ at[h] # "idle" => g = h
  /\ call = "none" => \A g \in Groups : at[g] = "idle"

(* No build of the group has begun since the container was made.           *)
Waiting(g) ==
  IF call = "construct" THEN Ended(MakeContainer) /\ ~Begun(BuildOf(g)) ELSE g \notin given

Fresh(g) == \A i \in Members(g) : Untouched(i)

(* The partitions the fallback loop is done with, and those before it: the *)
(* current one has been tried with the seeds up to the one it stores.      *)
Fallback(g) ==
  /\ mask[g] # {} /\ mask[g] \subseteq Members(g)
  /\ local[g] <=> \A i \in Members(g) \ mask[g] : Found(i)
  /\ \A i \in mask[g] : filled[i] = Unfilled
  /\ \A i \in mask[g] \ {Current(g)} : seeds[i] = 0
  /\ seeds[Current(g)] = IF at[g] = "attempt" THEN j[g] + 1 ELSE j[g]

GroupInv(g) ==
  /\ Waiting(g) => at[g] = "idle" /\ Fresh(g)
  /\ at[g] \in {"idle", "lanes"} => j[g] = 0 /\ local[g]
  /\ at[g] = "lanes" => Fresh(g)
  /\ at[g] \in {"load", "store", "attempt"} => Fallback(g)
  /\ at[g] = "done" => (local[g] <=> \A i \in Members(g) : Found(i))

BuildInv == \A g \in Groups : GroupInv(g)

(* The flag says whether the tasks that have ended built their partitions. *)
ReportInv ==
  /\ call = "construct" =>
       /\ given = Partitions
       /\ success <=> \A g \in Groups : Ended(BuildOf(g)) => \A i \in Members(g) : Found(i)
  /\ result.of = "construct" =>
       /\ call = "none" /\ given = Partitions
       /\ result.value <=> \A i \in Partitions : Found(i)

CountInv ==
  /\ n_retries <= attempts
  /\ n_retries = 0 => attempts = 0
  /\ \A g \in Groups : loaded[g] <= attempts

IInv ==
  /\ TypeInv /\ QueueInv /\ WhoBuilds /\ BuildInv /\ ReportInv /\ CountInv

-----------------------------------------------------------------------------
(* Groups of lanes. *)

(* The groups cut the partitions into pieces of as many as there are lanes. *)
LEMMA GroupsCut ==
  ASSUME lanes \in LaneCounts
  PROVE  /\ lanes \in Nat \ {0} /\ Groups \subseteq Partitions /\ Partitions \subseteq Nat
         /\ \A g \in Groups : g \in Members(g) /\ Members(g) \subseteq Partitions
         /\ \A i \in Partitions : GroupOf(i) \in Groups /\ i \in Members(GroupOf(i))
         /\ \A g \in Groups : \A i \in Members(g) : GroupOf(i) = g
<1>1. NPartitions \in Nat \ {0} /\ lanes \in Nat \ {0} /\ NPartitions % lanes = 0
  BY SizesAssumption
<1>2. Groups \subseteq Partitions /\ Partitions \subseteq Nat
  BY <1>1 DEF Groups, Partitions
<1>3. PICK n \in Nat : NPartitions = lanes * n
  BY <1>1, Multiple
<1>4. ASSUME NEW g \in Groups
      PROVE  /\ g \in Members(g) /\ Members(g) \subseteq Partitions
             /\ \A i \in Members(g) : GroupOf(i) = g
  <2>1. g \in Nat /\ g < NPartitions /\ g % lanes = 0
    BY <1>1, <1>2 DEF Groups, Partitions
  <2>2. PICK q \in Nat : g = lanes * q
    BY <1>1, <2>1, Multiple
  <2>3. g + lanes <= NPartitions
    BY <1>1, <1>3, <2>1, <2>2, MultiplesApart
  <2>4. g \in Members(g) /\ Members(g) \subseteq Partitions
    BY <1>1, <2>1, <2>3 DEF Members, Partitions
  <2>5. ASSUME NEW i \in Members(g)
        PROVE  GroupOf(i) = g
    <3>1. i \in Nat /\ g <= i /\ i < g + lanes
      BY <1>1, <2>1 DEF Members
    <3>2. PICK d \in Nat : d = i \div lanes
      BY <1>1, <3>1, Division
    <3>3. lanes * d \in Nat /\ lanes * d <= i /\ i < lanes * d + lanes
      BY <1>1, <3>1, <3>2, Division, MultiplesApart
    <3>4. ~ (d < q)
      BY <1>1, <2>1, <2>2, <3>1, <3>3, MultiplesApart
    <3>5. ~ (q < d)
      BY <1>1, <2>1, <2>2, <3>1, <3>3, MultiplesApart
    <3>6. d = q
      BY <3>4, <3>5
    <3>7. GroupOf(i) = d * lanes /\ d * lanes = lanes * d
      BY <1>1, <3>2 DEF GroupOf
    <3>8. QED
      BY <2>2, <3>6, <3>7
  <2>6. QED
    BY <2>4, <2>5
<1>5. ASSUME NEW i \in Partitions
      PROVE  GroupOf(i) \in Groups /\ i \in Members(GroupOf(i))
  <2>1. i \in Nat /\ i < NPartitions
    BY <1>1 DEF Partitions
  <2>2. PICK d \in Nat : d = i \div lanes
    BY <1>1, <2>1, Division
  <2>3. PICK h \in Nat : h = lanes * d
    BY <1>1, MultiplesApart
  <2>4. h <= i /\ i < h + lanes
    BY <1>1, <2>1, <2>2, <2>3, Division
  <2>5. h % lanes = 0
    BY <1>1, <2>3, Multiple
  <2>6. GroupOf(i) = h
    BY <1>1, <2>2, <2>3 DEF GroupOf
  <2>7. h \in Groups
    BY <1>1, <2>1, <2>4, <2>5 DEF Groups, Partitions
  <2>8. i \in Members(h)
    BY <1>1, <2>1, <2>4 DEF Members
  <2>9. QED
    BY <2>6, <2>7, <2>8
<1>6. QED
  BY <1>1, <1>2, <1>4, <1>5

(* The tasks of a construct include the build of every group.              *)
LEMMA ProgramComplete ==
  ASSUME lanes \in LaneCounts
  PROVE  /\ MakeContainer \in ToSet(Program)
         /\ \A g \in Groups : BuildOf(g) \in ToSet(Program)
<1>1. NPartitions \in Nat \ {0} /\ lanes \in Nat \ {0} /\ NPartitions % lanes = 0
  BY SizesAssumption
<1>2. PICK n \in Nat : NPartitions = lanes * n
  BY <1>1, Multiple
<1>3. PICK c : c = Cardinality(Groups)
  OBVIOUS
<1>4. IsFiniteSet(Groups) /\ c \in Nat
  <2>1. IsFiniteSet(Partitions)
    BY <1>1, FS_Interval DEF Partitions
  <2>2. IsFiniteSet(Groups)
    BY <2>1, FS_Subset DEF Groups
  <2>3. QED
    BY <1>3, <2>2, FS_CardinalityType
<1>5. n <= c
  <2>1. PICK f : f = [k \in 1..n |-> lanes * (k-1)]
    OBVIOUS
  <2>2. ASSUME NEW k \in 1..n
        PROVE  f[k] \in Groups
    <3>1. k-1 \in Nat /\ k-1 < n
      OBVIOUS
    <3>2. PICK g \in Nat : g = lanes * (k-1)
      BY <1>1, <3>1, MultiplesApart
    <3>3. g + lanes <= NPartitions
      BY <1>1, <1>2, <3>1, <3>2, MultiplesApart
    <3>4. g % lanes = 0
      BY <1>1, <3>1, <3>2, Multiple
    <3>5. g \in Groups
      BY <1>1, <3>3, <3>4 DEF Groups, Partitions
    <3>6. QED
      BY <2>1, <3>2, <3>5
  <2>3. ASSUME NEW k \in 1..n, NEW m \in 1..n, f[k] = f[m]
        PROVE  k = m
    <3>1. k-1 \in Nat /\ m-1 \in Nat
      OBVIOUS
    <3>2. lanes * (k-1) = lanes * (m-1)
      BY <2>1, <2>3
    <3>3. lanes * (k-1) \in Nat /\ lanes * (m-1) \in Nat
      BY <1>1, <3>1, MultiplesApart
    <3>4. ~ (k-1 < m-1) /\ ~ (m-1 < k-1)
      BY <1>1, <3>1, <3>2, <3>3, MultiplesApart
    <3>5. QED
      BY <3>1, <3>4
  <2>4. f \in [1..n -> Groups]
    BY <2>1, <2>2
  <2>5. f \in Injection(1..n, Groups)
    BY <2>3, <2>4 DEF Injection, IsInjective
  <2>6. Cardinality(1..n) <= Cardinality(Groups)
    BY <1>4, <2>5, FS_Injection
  <2>7. Cardinality(1..n) = n
    BY FS_Interval
  <2>8. QED
    BY <1>3, <2>6, <2>7
<1>6. PICK builds : builds = [m \in 1..c |-> BuildOf((m - 1) * lanes)]
  OBVIOUS
<1>7. PICK T : T = {Scatter, CleanUp, MakeContainer} \cup {BuildOf((m - 1) * lanes) : m \in 1..c}
  OBVIOUS
<1>8. builds \in Seq(T) /\ Len(builds) = c
  <2>1. builds \in [1..c -> T] /\ DOMAIN builds = 1..c
    BY <1>6, <1>7
  <2>2. builds \in Seq(T)
    BY <1>4, <2>1, SeqDef
  <2>3. QED
    BY <1>4, <2>1, <2>2, LenProperties
<1>9. PICK before : before = <<Scatter, CleanUp, MakeContainer>>
  OBVIOUS
<1>10. /\ DOMAIN Program = 1 .. c+3
       /\ Program[3] = MakeContainer
       /\ \A m \in 1..c : Program[3+m] = builds[m]
  <2>1. before \in Seq(T) /\ Len(before) = 3 /\ before[3] = MakeContainer
    BY <1>7, <1>9
  <2>2. Program = before \o builds
    BY <1>3, <1>6, <1>9 DEF Program
  <2>3. /\ Program \in Seq(T) /\ Len(Program) = 3 + c
        /\ \A k \in 1 .. 3+c : Program[k] = IF k <= 3 THEN before[k] ELSE builds[k-3]
    <3>1. /\ before \o builds \in Seq(T)
          /\ Len(before \o builds) = Len(before) + Len(builds)
          /\ \A k \in 1 .. Len(before) + Len(builds) :
               (before \o builds)[k] = IF k <= Len(before) THEN before[k]
                                       ELSE builds[k - Len(before)]
      BY <1>8, <2>1, ConcatProperties
    <3>2. QED
      BY <1>8, <2>1, <2>2, <3>1
  <2>4. DOMAIN Program = 1 .. c+3
    BY <1>4, <2>3, LenProperties
  <2>5. QED
    BY <1>4, <2>1, <2>3, <2>4
<1>11. MakeContainer \in ToSet(Program)
  BY <1>4, <1>10 DEF ToSet
<1>12. ASSUME NEW g \in Groups
       PROVE  BuildOf(g) \in ToSet(Program)
  <2>1. g \in Nat /\ g < NPartitions /\ g % lanes = 0
    BY <1>1 DEF Groups, Partitions
  <2>2. PICK q \in Nat : g = lanes * q
    BY <1>1, <2>1, Multiple
  <2>3. q < n
    <3>1. ~ (n < q)
      BY <1>1, <1>2, <2>1, <2>2, MultiplesApart
    <3>2. n # q
      BY <1>1, <1>2, <2>1, <2>2
    <3>3. QED
      BY <3>1, <3>2
  <2>4. q+1 \in 1..c
    BY <1>4, <1>5, <2>3
  <2>5. builds[q+1] = BuildOf(g)
    <3>1. ((q+1) - 1) * lanes = lanes * q
      BY <1>1
    <3>2. QED
      BY <1>6, <2>2, <2>4, <3>1
  <2>6. 3 + (q+1) \in DOMAIN Program /\ Program[3 + (q+1)] = BuildOf(g)
    BY <1>4, <1>10, <2>4, <2>5
  <2>7. QED
    BY <2>6 DEF ToSet
<1>13. QED
  BY <1>11, <1>12

-----------------------------------------------------------------------------
(* What the actions leave alone. *)

(* The number of lanes never changes, nor do the groups.                   *)
LEMMA GroupsStay ==
  ASSUME Next
  PROVE  /\ lanes' = lanes /\ Groups' = Groups
         /\ \A g : Members(g)' = Members(g)
         /\ \A i : GroupOf(i)' = GroupOf(i)
<1>1. lanes' = lanes
  BY DEF Next, Construct, Add, Build, Finished, vars, construct, SubmitNext, ExecuteTasks,
         ReturnFromConstruct, EndMakeContainer, BeginTask, EndOther, EndBuild, init,
         add_partition, ReturnFromAdd, TryLanes, LoadRetries, StoreRetries, Placed, NotPlaced
<1>2. QED
  BY <1>1 DEF Groups, Members, GroupOf

(* The least number of a mask is in it.                                    *)
LEMMA LeastInMask ==
  ASSUME NEW S, S \subseteq Partitions, S # {}
  PROVE  (CHOOSE i \in S : \A l \in S : i <= l) \in S
<1>1. S \subseteq Nat
  BY SizesAssumption DEF Partitions
<1>2. \E i \in S : \A l \in S : i <= l
  BY <1>1, LeastNat
<1>3. QED
  BY <1>2

(* The fallback loop is at a partition of its mask.                        *)
LEMMA CurrentInMask ==
  ASSUME TypeInv, NEW g \in Groups, mask[g] # {}
  PROVE  Current(g) \in mask[g] /\ Current(g) \in Partitions
<1>1. mask[g] \subseteq Partitions
  BY DEF TypeInv
<1>2. QED
  BY <1>1, LeastInMask DEF Current

-----------------------------------------------------------------------------
(* Types. *)

(* While the fallback loop of a group runs, its mask is not empty.         *)
LEMMA TypeStep ==
  ASSUME TypeInv, BuildInv, Next
  PROVE  TypeInv'
<1>1. /\ Groups' = Groups /\ lanes' = lanes /\ Groups \subseteq Partitions
      /\ MaxRetries \in Nat \ {0} /\ Unfilled = MaxRetries + 1
      /\ Partitions \subseteq Nat /\ NPartitions \in Nat \ {0}
  BY GroupsStay, GroupsCut, SizesAssumption DEF TypeInv, Unfilled
<1>2. CASE construct
  BY <1>1, <1>2 DEF TypeInv, construct, NoResult, buildVars
<1>3. CASE SubmitNext \/ ExecuteTasks \/ \E task \in Tasks : EndOther(task)
  BY <1>1, <1>3 DEF TypeInv, SubmitNext, ExecuteTasks, EndOther, buildVars
<1>4. CASE ReturnFromConstruct
  BY <1>1, <1>4 DEF TypeInv, ReturnFromConstruct, buildVars
<1>5. CASE EndMakeContainer
  <2>1. seeds' \in [Partitions -> 0 .. MaxRetries] /\ filled' \in [Partitions -> 0 .. Unfilled]
    BY <1>1, <1>5 DEF EndMakeContainer, NewContainer
  <2>2. QED
    BY <1>1, <1>5, <2>1 DEF TypeInv, EndMakeContainer, NewContainer, buildVars
<1>6. CASE \E task \in Tasks : BeginTask(task)
  BY <1>1, <1>6 DEF TypeInv, BeginTask
<1>7. CASE \E g \in Groups : EndBuild(g)
  BY <1>1, <1>7 DEF TypeInv, EndBuild, Forget
<1>8. CASE init
  <2>1. seeds' \in [Partitions -> 0 .. MaxRetries] /\ filled' \in [Partitions -> 0 .. Unfilled]
    BY <1>1, <1>8 DEF init, NewContainer
  <2>2. QED
    BY <1>1, <1>8, <2>1 DEF TypeInv, init, NewContainer, buildVars, NoResult
<1>9. CASE \E g \in Groups : add_partition(g)
  BY <1>1, <1>9 DEF TypeInv, add_partition
<1>10. CASE \E g \in Groups : ReturnFromAdd(g)
  BY <1>1, <1>10 DEF TypeInv, ReturnFromAdd, Forget
<1>11. ASSUME NEW g \in Groups, Build(g)
       PROVE  TypeInv'
  <2>1. CASE TryLanes(g)
    <3>1. Members(g) \subseteq Partitions
      BY GroupsCut DEF TypeInv
    <3>2. PICK failed \in SUBSET Members(g) :
            /\ mask' = [mask EXCEPT ![g] = failed]
            /\ filled' = [i \in Partitions |-> IF i \in Members(g) \ failed THEN 0 ELSE filled[i]]
            /\ at' = [at EXCEPT ![g] = IF failed = {} THEN "done" ELSE "load"]
      BY <2>1 DEF TryLanes
    <3>3. filled' \in [Partitions -> 0 .. Unfilled]
      BY <1>1, <3>2 DEF TypeInv
    <3>4. /\ mask' \in [Groups -> SUBSET Partitions]
          /\ at' \in [Groups -> {"idle", "lanes", "load", "store", "attempt", "done"}]
      BY <1>1, <3>1, <3>2 DEF TypeInv
    <3>5. QED
      BY <1>1, <2>1, <3>3, <3>4 DEF TypeInv, TryLanes
  <2>2. CASE LoadRetries(g)
    BY <1>1, <2>2 DEF TypeInv, LoadRetries
  <2>3. ASSUME StoreRetries(g) \/ Placed(g) \/ NotPlaced(g)
        PROVE  Current(g) \in Partitions /\ Current(g) \in mask[g] /\ j[g] + 1 \in 1 .. MaxRetries
    <3>1. mask[g] # {}
      BY <2>3 DEF BuildInv, GroupInv, Fallback, StoreRetries, Placed, NotPlaced
    <3>2. j[g] \in 0 .. MaxRetries-1
      BY DEF TypeInv
    <3>3. QED
      BY <1>1, <3>1, <3>2, CurrentInMask
  <2>4. CASE StoreRetries(g)
    <3>1. seeds' \in [Partitions -> 0 .. MaxRetries]
      BY <1>1, <2>3, <2>4 DEF TypeInv, StoreRetries
    <3>2. n_retries' \in Nat /\ attempts' \in Nat
      BY <2>4 DEF TypeInv, StoreRetries
    <3>3. QED
      BY <1>1, <2>4, <3>1, <3>2 DEF TypeInv, StoreRetries
  <2>5. ASSUME NextInMask(g)
        PROVE  /\ mask' \in [Groups -> SUBSET Partitions]
               /\ j' \in [Groups -> 0 .. MaxRetries-1]
               /\ at' \in [Groups -> {"idle", "lanes", "load", "store", "attempt", "done"}]
    BY <1>1, <2>5 DEF TypeInv, NextInMask
  <2>6. CASE Placed(g)
    <3>1. filled' \in [Partitions -> 0 .. Unfilled]
      BY <1>1, <2>3, <2>6 DEF TypeInv, Placed
    <3>2. QED
      BY <1>1, <2>5, <2>6, <3>1 DEF TypeInv, Placed
  <2>7. CASE NotPlaced(g)
    <3>1. CASE j[g] + 1 < MaxRetries /\ NotPlaced(g)
      <4>1. j' \in [Groups -> 0 .. MaxRetries-1]
        BY <1>1, <2>3, <3>1 DEF TypeInv, NotPlaced
      <4>2. at' \in [Groups -> {"idle", "lanes", "load", "store", "attempt", "done"}]
        BY <1>1, <3>1, <2>3 DEF TypeInv, NotPlaced
      <4>3. mask' = mask /\ local' = local
        BY <1>1, <3>1, <2>3 DEF NotPlaced
      <4>4. QED
        BY <1>1, <3>1, <4>1, <4>2, <4>3 DEF TypeInv, NotPlaced
    <3>2. CASE j[g] + 1 = MaxRetries /\ NotPlaced(g)
      <4>1. NextInMask(g) /\ local' = [local EXCEPT ![g] = FALSE]
        BY <1>1, <2>3, <3>2 DEF NotPlaced
      <4>2. QED
        BY <1>1, <2>5, <3>2, <4>1 DEF TypeInv, NotPlaced
    <3>3. QED
      BY <2>7, <3>1, <3>2 DEF NotPlaced
  <2>8. QED
    BY <1>11, <2>1, <2>2, <2>4, <2>6, <2>7 DEF Build
<1>12. CASE Finished
  BY <1>1, <1>12 DEF Finished, vars, queueVars, buildVars, TypeInv
<1>13. QED
  BY <1>2, <1>3, <1>4, <1>5, <1>6, <1>7, <1>8, <1>9, <1>10, <1>11, <1>12 DEF Next, Construct, Add

-----------------------------------------------------------------------------
(* The queue. *)

(* The tasks of a construct stay what they are.                            *)
LEMMA ProgramStays ==
  ASSUME Next
  PROVE  Program' = Program
BY GroupsStay DEF Program, Scatter, CleanUp, MakeContainer, BuildOf

(* The steps that are steps of the queue, and those that leave it alone.   *)
LEMMA StepsOfQueue ==
  ASSUME QueueInv, Next
  PROVE  \/ UNCHANGED queueVars /\ (call = "construct" <=> call' = "construct")
         \/ UNCHANGED queueVars /\ construct
         \/ SubmitNext \/ ExecuteTasks \/ ReturnFromConstruct
         \/ /\ UNCHANGED <<plan, executing>> /\ executing /\ call' = call
            /\ \E t \in DOMAIN plan :
                 \/ BeginTask(t)
                 \/ Queue!End(t) /\ (EndMakeContainer \/ EndOther(t) \/ \E g \in Groups : EndBuild(g))
<1>1. CASE construct \/ SubmitNext \/ ExecuteTasks \/ ReturnFromConstruct
  BY <1>1 DEF construct, queueVars
<1>2. ASSUME NEW t \in Tasks, BeginTask(t)
      PROVE  t \in DOMAIN plan /\ UNCHANGED <<plan, executing>> /\ executing /\ call' = call
  BY <1>2 DEF BeginTask, Queue!Begin
<1>3. ASSUME NEW t, Queue!End(t)
      PROVE  UNCHANGED <<plan, executing>> /\ executing
  BY <1>3 DEF Queue!End
<1>4. CASE EndMakeContainer
  <2>1. MakeContainer \in DOMAIN plan /\ Queue!End(MakeContainer) /\ call' = call
    BY <1>4 DEF EndMakeContainer
  <2>2. QED
    BY <1>3, <1>4, <2>1
<1>5. ASSUME NEW t \in Tasks, EndOther(t)
      PROVE  t \in DOMAIN plan /\ Queue!End(t) /\ call' = call
  BY <1>5 DEF EndOther
<1>6. ASSUME NEW g \in Groups, EndBuild(g)
      PROVE  BuildOf(g) \in DOMAIN plan /\ Queue!End(BuildOf(g)) /\ call' = call
  BY <1>6 DEF EndBuild
<1>7. CASE Add \/ (\E g \in Groups : Build(g)) \/ Finished
  BY <1>7 DEF Add, init, add_partition, ReturnFromAdd, Build, TryLanes, LoadRetries, StoreRetries,
              Placed, NotPlaced, Finished, vars, queueVars
<1>8. QED
  BY <1>1, <1>2, <1>3, <1>4, <1>5, <1>6, <1>7 DEF Next, Construct

(* No step takes a task out of order, or runs it twice.                    *)
LEMMA QueueStep ==
  ASSUME QueueInv, Next
  PROVE  QueueInv'
<1>1. Program' = Program
  BY ProgramStays
<1>2. CASE UNCHANGED queueVars /\ ((call = "construct" <=> call' = "construct") \/ construct)
  BY <1>1, <1>2 DEF QueueInv, queueVars, construct
<1>3. CASE SubmitNext
  <2>1. PICK c : Queue!Submit(c, PhaseOf(c)) /\ call = "construct" /\ call' = call
    BY <1>3 DEF SubmitNext
  <2>2. PICK D : D = DOMAIN plan
    OBVIOUS
  <2>3. /\ ~executing /\ ~executing'
        /\ plan' = [t \in D \cup {c} |-> IF t = c THEN PhaseOf(c) ELSE plan[t]]
        /\ DOMAIN plan' = D \cup {c}
        /\ begun' = [t \in D \cup {c} |-> 0] /\ ended' = [t \in D \cup {c} |-> 0]
    BY <2>1, <2>2 DEF Queue!Submit, Queue!Zero, QueueInv
  <2>4. \A t \in D : plan[t] = PhaseOf(t)
    BY <2>2 DEF QueueInv
  <2>5. plan' = [t \in DOMAIN plan' |-> PhaseOf(t)]
    BY <2>3, <2>4
  <2>6. begun' \in [DOMAIN plan' -> 0..1] /\ ended' \in [DOMAIN plan' -> 0..1]
    BY <2>3
  <2>7. \A t \in DOMAIN plan' : begun'[t] = 0 /\ ended'[t] = 0
    BY <2>3
  <2>8. executing' \in BOOLEAN /\ ~executing'
    BY <2>1 DEF Queue!Submit, QueueInv
  <2>9. QED
    BY <2>1, <2>5, <2>6, <2>7, <2>8 DEF QueueInv
<1>4. CASE ExecuteTasks
  <2>1. /\ UNCHANGED <<plan, begun, ended>> /\ ~executing /\ executing' = TRUE
        /\ DOMAIN plan = ToSet(Program) /\ call = "construct" /\ call' = call
    BY <1>4 DEF ExecuteTasks, Queue!Execute
  <2>2. QED
    BY <1>1, <2>1 DEF QueueInv
<1>5. CASE ReturnFromConstruct
  <2>1. /\ ~executing' /\ executing' \in BOOLEAN /\ DOMAIN plan' = {}
        /\ plan' = [t \in {} |-> 0] /\ begun' = [t \in {} |-> 0] /\ ended' = [t \in {} |-> 0]
    BY <1>5 DEF ReturnFromConstruct, Queue!Return, Queue!Zero
  <2>2. plan' = [t \in DOMAIN plan' |-> PhaseOf(t)]
    BY <2>1
  <2>3. begun' \in [DOMAIN plan' -> 0..1] /\ ended' \in [DOMAIN plan' -> 0..1]
    BY <2>1
  <2>4. QED
    BY <2>1, <2>2, <2>3 DEF QueueInv
<1>6. ASSUME UNCHANGED <<plan, executing>>, executing, call' = call, NEW t \in DOMAIN plan,
             BeginTask(t) \/ Queue!End(t)
      PROVE  QueueInv'
  <2>1. \A u \in DOMAIN plan : plan[u] = PhaseOf(u)
    BY DEF QueueInv
  <2>2. CASE BeginTask(t)
    <3>1. /\ begun' = [begun EXCEPT ![t] = 1] /\ ended' = ended
          /\ \A u \in DOMAIN plan : PhaseOf(u) < PhaseOf(t) => ended[u] = 1
      BY <2>1, <2>2 DEF BeginTask, Queue!Begin, Queue!PhaseReached
    <3>2. QED
      BY <1>1, <1>6, <3>1 DEF QueueInv
  <2>3. CASE Queue!End(t)
    <3>1. ended' = [ended EXCEPT ![t] = 1] /\ begun' = begun /\ begun[t] = 1
      BY <2>3 DEF Queue!End
    <3>2. ended' \in [DOMAIN plan -> 0..1]
      BY <3>1 DEF QueueInv
    <3>3. \A u \in DOMAIN plan : /\ ended[u] = 1 => ended'[u] = 1
                                 /\ ended'[u] = 1 => ended[u] = 1 \/ u = t
      BY <3>1 DEF QueueInv
    <3>4. QED
      BY <1>1, <1>6, <3>1, <3>2, <3>3 DEF QueueInv
  <2>4. QED
    BY <1>6, <2>2, <2>3
<1>7. QED
  BY <1>2, <1>3, <1>4, <1>5, <1>6, StepsOfQueue

-----------------------------------------------------------------------------
(* Who builds. *)

(* A step of a build leaves everything alone but its own group.            *)
LEMMA BuildFrame ==
  ASSUME TypeInv, BuildInv, NEW g \in Groups, Build(g)
  PROVE  /\ UNCHANGED <<lanes, plan, executing, begun, ended, call, result, inits, success, given>>
         /\ at[g] \notin {"idle", "done"} /\ at'[g] \notin {"idle", "lanes"}
         /\ \A h \in Groups \ {g} : /\ at'[h] = at[h] /\ mask'[h] = mask[h]
                                    /\ j'[h] = j[h] /\ local'[h] = local[h]
         /\ \A i \in Partitions \ Members(g) : filled'[i] = filled[i] /\ seeds'[i] = seeds[i]
<1>1. /\ at \in [Groups -> {"idle", "lanes", "load", "store", "attempt", "done"}]
      /\ mask \in [Groups -> SUBSET Partitions]
      /\ j \in [Groups -> 0 .. MaxRetries-1] /\ local \in [Groups -> BOOLEAN]
      /\ seeds \in [Partitions -> 0 .. MaxRetries] /\ filled \in [Partitions -> 0 .. Unfilled]
  BY DEF TypeInv
<1>2. CASE TryLanes(g)
  BY <1>1, <1>2 DEF TryLanes, queueVars
<1>3. CASE LoadRetries(g)
  BY <1>1, <1>3 DEF LoadRetries, queueVars
<1>4. ASSUME at[g] \in {"store", "attempt"}
      PROVE  Current(g) \in Members(g)
  BY <1>4, CurrentInMask DEF BuildInv, GroupInv, Fallback
<1>5. CASE StoreRetries(g)
  BY <1>1, <1>4, <1>5 DEF StoreRetries, queueVars
<1>6. CASE Placed(g)
  BY <1>1, <1>4, <1>6 DEF Placed, NextInMask, queueVars
<1>7. CASE NotPlaced(g)
  BY <1>1, <1>7 DEF NotPlaced, NextInMask, queueVars
<1>8. QED
  BY <1>2, <1>3, <1>5, <1>6, <1>7 DEF Build

(* A group is being built exactly while its task runs, or its partition is *)
(* being added.                                                            *)
LEMMA WhoBuildsStep ==
  ASSUME IInv, Next
  PROVE  WhoBuilds'
<1>1. /\ TypeInv /\ QueueInv /\ WhoBuilds /\ BuildInv /\ Groups' = Groups
      /\ at \in [Groups -> {"idle", "lanes", "load", "store", "attempt", "done"}]
      /\ begun \in [DOMAIN plan -> 0..1] /\ ended \in [DOMAIN plan -> 0..1]
  BY GroupsStay DEF IInv, TypeInv, QueueInv
<1>2. CASE construct
  <2>1. /\ call = "none" /\ call' = "construct" /\ at' = at /\ UNCHANGED <<plan, begun, ended>>
    BY <1>2 DEF construct, queueVars, buildVars
  <2>2. DOMAIN plan = {}
    BY <1>1, <2>1 DEF QueueInv
  <2>3. QED
    BY <1>1, <2>1, <2>2 DEF WhoBuilds, Begun, Ended
<1>3. CASE SubmitNext
  <2>1. /\ call = "construct" /\ call' = "construct" /\ at' = at /\ ~executing
        /\ begun' = [t \in DOMAIN plan' |-> 0]
    BY <1>3 DEF SubmitNext, buildVars, Queue!Submit, Queue!Zero
  <2>2. \A t : ~Begun(t) /\ ~Begun(t)'
    BY <1>1, <2>1 DEF QueueInv, Begun
  <2>3. QED
    BY <1>1, <2>1, <2>2 DEF WhoBuilds
<1>4. CASE ExecuteTasks
  <2>1. UNCHANGED <<call, at, plan, begun, ended>>
    BY <1>4 DEF ExecuteTasks, buildVars, Queue!Execute
  <2>2. QED
    BY <1>1, <2>1 DEF WhoBuilds, Begun, Ended
<1>5. CASE ReturnFromConstruct
  <2>1. /\ call = "construct" /\ call' = "none" /\ at' = at
        /\ \A t \in DOMAIN plan : ended[t] = 1
    BY <1>5 DEF ReturnFromConstruct, buildVars, Queue!Return
  <2>2. QED
    BY <1>1, <2>1 DEF WhoBuilds, Begun, Ended
<1>6. ASSUME NEW t, BeginTask(t)
      PROVE  WhoBuilds'
  <2>1. /\ t \in DOMAIN plan /\ executing /\ begun[t] = 0
        /\ UNCHANGED <<call, plan, ended>> /\ begun' = [begun EXCEPT ![t] = 1]
        /\ at' = [g \in Groups |-> IF t = BuildOf(g) THEN "lanes" ELSE at[g]]
    BY <1>6 DEF BeginTask, Queue!Begin
  <2>2. call = "construct"
    BY <1>1, <2>1 DEF QueueInv
  <2>3. ended[t] = 0
    BY <1>1, <2>1 DEF QueueInv
  <2>4. ASSUME NEW g \in Groups
        PROVE  at'[g] # "idle" <=> Begun(BuildOf(g))' /\ ~Ended(BuildOf(g))'
    <3>1. at[g] # "idle" <=> Begun(BuildOf(g)) /\ ~Ended(BuildOf(g))
      BY <1>1, <2>2 DEF WhoBuilds
    <3>2. CASE t = BuildOf(g)
      <4>1. at'[g] = "lanes" /\ begun'[t] = 1 /\ ended'[t] = 0 /\ t \in DOMAIN plan'
        BY <1>1, <2>1, <2>3, <3>2
      <4>2. QED
        BY <3>2, <4>1 DEF Begun, Ended, BuildOf
    <3>3. CASE t # BuildOf(g)
      <4>1. at'[g] = at[g]
        BY <2>1, <3>3
      <4>2. BuildOf(g) \in DOMAIN plan => begun'[BuildOf(g)] = begun[BuildOf(g)]
        BY <1>1, <2>1, <3>3
      <4>3. QED
        BY <2>1, <3>1, <4>1, <4>2 DEF Begun, Ended, BuildOf
    <3>4. QED
      BY <3>2, <3>3
  <2>5. QED
    BY <1>1, <2>1, <2>2, <2>4 DEF WhoBuilds
<1>7. ASSUME NEW t \in DOMAIN plan, Queue!End(t), call' = call,
             EndMakeContainer \/ EndOther(t) \/ \E g \in Groups : EndBuild(g)
      PROVE  WhoBuilds'
  <2>1. /\ executing /\ UNCHANGED <<plan, begun>> /\ ended' = [ended EXCEPT ![t] = 1]
        /\ begun[t] = 1 /\ ended[t] = 0
    BY <1>7 DEF Queue!End
  <2>2. call = "construct"
    BY <1>1, <2>1 DEF QueueInv
  <2>3. /\ \A g \in Groups : t # BuildOf(g) => at'[g] = at[g]
        /\ \A g \in Groups : t = BuildOf(g) => at'[g] = "idle"
    <3>1. CASE EndMakeContainer
      <4>1. at' = at /\ ended' = [ended EXCEPT ![MakeContainer] = 1] /\ ended[MakeContainer] = 0
            /\ MakeContainer \in DOMAIN plan
        BY <3>1 DEF EndMakeContainer, buildVars, Queue!End
      <4>2. ended'[t] = 1 /\ ended'[MakeContainer] = 1 /\ (t # MakeContainer => ended'[t] = ended[t])
        BY <1>1, <2>1, <4>1
      <4>3. t = MakeContainer
        BY <2>1, <4>2
      <4>4. QED
        BY <4>1, <4>3 DEF MakeContainer, BuildOf
    <3>2. CASE EndOther(t)
      BY <3>2 DEF EndOther, buildVars, Scatter, CleanUp, BuildOf
    <3>3. ASSUME NEW h \in Groups, EndBuild(h)
          PROVE  \A g \in Groups : /\ t # BuildOf(g) => at'[g] = at[g]
                                   /\ t = BuildOf(g) => at'[g] = "idle"
      <4>1. /\ at' = [at EXCEPT ![h] = "idle"] /\ ended' = [ended EXCEPT ![BuildOf(h)] = 1]
            /\ BuildOf(h) \in DOMAIN plan
        BY <3>3 DEF EndBuild, Forget, Queue!End
      <4>2. /\ ended'[t] = 1 /\ ended'[BuildOf(h)] = 1
            /\ t # BuildOf(h) => ended'[t] = ended[t]
        BY <1>1, <2>1, <4>1
      <4>3. t = BuildOf(h)
        BY <2>1, <4>2
      <4>4. \A g \in Groups : t = BuildOf(g) <=> g = h
        BY <4>3 DEF BuildOf
      <4>5. QED
        BY <1>1, <4>1, <4>4
    <3>4. QED
      BY <1>7, <3>1, <3>2, <3>3
  <2>4. ASSUME NEW g \in Groups
        PROVE  at'[g] # "idle" <=> Begun(BuildOf(g))' /\ ~Ended(BuildOf(g))'
    <3>1. at[g] # "idle" <=> Begun(BuildOf(g)) /\ ~Ended(BuildOf(g))
      BY <1>1, <2>2 DEF WhoBuilds
    <3>2. CASE t = BuildOf(g)
      <4>1. at'[g] = "idle" /\ ended'[t] = 1 /\ t \in DOMAIN plan'
        BY <1>1, <2>1, <2>3, <3>2
      <4>2. QED
        BY <3>2, <4>1 DEF Ended, BuildOf
    <3>3. CASE t # BuildOf(g)
      <4>1. BuildOf(g) \in DOMAIN plan => ended'[BuildOf(g)] = ended[BuildOf(g)]
        BY <1>1, <2>1, <3>3
      <4>2. QED
        BY <2>1, <2>3, <3>1, <3>3, <4>1 DEF Begun, Ended, BuildOf
    <3>4. QED
      BY <3>2, <3>3
  <2>5. QED
    BY <1>1, <1>7, <2>2, <2>4 DEF WhoBuilds
<1>8. CASE init \/ Finished
  <2>1. call = "none" /\ call' = "none" /\ at' = at
    BY <1>8 DEF init, Finished, vars, buildVars
  <2>2. QED
    BY <1>1, <2>1 DEF WhoBuilds
<1>9. ASSUME NEW g \in Groups, add_partition(g)
      PROVE  WhoBuilds'
  <2>1. call = "none" /\ call' = "add_partition" /\ at' = [at EXCEPT ![g] = "lanes"]
    BY <1>9 DEF add_partition
  <2>2. \A h \in Groups : at'[h] # "idle" => h = g
    BY <1>1, <2>1 DEF WhoBuilds
  <2>3. QED
    BY <1>1, <2>1, <2>2 DEF WhoBuilds
<1>10. ASSUME NEW g \in Groups, ReturnFromAdd(g)
       PROVE  WhoBuilds'
  <2>1. /\ call = "add_partition" /\ call' = "none" /\ at' = [at EXCEPT ![g] = "idle"]
        /\ at[g] = "done"
    BY <1>10 DEF ReturnFromAdd, Forget
  <2>2. \A h \in Groups : at'[h] = "idle"
    BY <1>1, <2>1 DEF WhoBuilds
  <2>3. QED
    BY <1>1, <2>1, <2>2 DEF WhoBuilds
<1>11. ASSUME NEW g \in Groups, Build(g)
       PROVE  WhoBuilds'
  <2>1. /\ UNCHANGED <<call, plan, begun, ended>> /\ at[g] # "idle" /\ at'[g] # "idle"
        /\ \A h \in Groups \ {g} : at'[h] = at[h]
    BY <1>1, <1>11, BuildFrame
  <2>2. \A h \in Groups : at'[h] # "idle" <=> at[h] # "idle"
    BY <2>1
  <2>3. \A t : (Begun(t)' <=> Begun(t)) /\ (Ended(t)' <=> Ended(t))
    BY <2>1 DEF Begun, Ended
  <2>4. QED
    BY <1>1, <2>1, <2>2, <2>3 DEF WhoBuilds
<1>12. QED
  <2>1. CASE Construct
    BY <1>1, <1>2, <1>3, <1>4, <1>5, <1>6, <1>7, <2>1
       DEF Construct, EndMakeContainer, EndOther, EndBuild
  <2>2. QED
    BY <1>8, <1>9, <1>10, <1>11, <2>1 DEF Next, Add

-----------------------------------------------------------------------------
(* The builds. *)

(* A step that changes nothing of a group, nor starts it anew, keeps what  *)
(* is known of it.                                                         *)
LEMMA GroupKept ==
  ASSUME NEW h \in Groups, GroupInv(h), TypeInv, TypeInv', lanes' = lanes,
         at'[h] = at[h], mask'[h] = mask[h], j'[h] = j[h], local'[h] = local[h],
         \A i \in Members(h) : filled'[i] = filled[i] /\ seeds'[i] = seeds[i],
         Waiting(h)' => Waiting(h)
  PROVE  GroupInv(h)'
<1>1. Members(h)' = Members(h)
  BY DEF Members
<1>2. /\ Fresh(h)' <=> Fresh(h)
      /\ (\A i \in Members(h) : Found(i))' <=> (\A i \in Members(h) : Found(i))
  BY <1>1 DEF Fresh, Untouched, Found, Unfilled
<1>3. Current(h)' = Current(h)
  BY DEF Current
<1>4. ASSUME Fallback(h), mask[h] # {}
      PROVE  Fallback(h)'
  <2>1. Current(h) \in mask[h] /\ mask[h] \subseteq Members(h)
    BY <1>4, CurrentInMask DEF Fallback
  <2>2. \A i \in Members(h) : Found(i)' <=> Found(i)
    BY DEF Found
  <2>3. \A i \in mask[h] : filled'[i] = Unfilled
    BY <1>4, <2>1 DEF Fallback
  <2>4. \A i \in mask[h] \ {Current(h)} : seeds'[i] = 0
    BY <1>4, <2>1 DEF Fallback
  <2>5. seeds'[Current(h)] = IF at'[h] = "attempt" THEN j'[h] + 1 ELSE j'[h]
    BY <1>4, <2>1 DEF Fallback
  <2>6. local'[h] <=> \A i \in Members(h) \ mask[h] : Found(i)'
    BY <1>4, <2>2 DEF Fallback
  <2>7. QED
    BY <1>1, <1>3, <1>4, <2>1, <2>3, <2>4, <2>5, <2>6 DEF Fallback, Unfilled
<1>5. QED
  BY <1>1, <1>2, <1>4 DEF GroupInv, Fallback

(* Nothing is left of the partitions in a new container.                   *)
LEMMA GroupRenewed ==
  ASSUME NEW h \in Groups, GroupInv(h), TypeInv, lanes' = lanes, NewContainer,
         at[h] = "idle", UNCHANGED <<at, j, local>>
  PROVE  GroupInv(h)'
<1>1. Members(h)' = Members(h) /\ Members(h) \subseteq Partitions
  BY GroupsCut DEF Members, TypeInv
<1>2. \A i \in Partitions : Untouched(i)'
  BY DEF NewContainer, Untouched, Unfilled
<1>3. Fresh(h)'
  BY <1>1, <1>2 DEF Fresh
<1>4. QED
  BY <1>3 DEF GroupInv

(* A step of a build keeps what is known of its own group.                 *)
LEMMA BuildInvStep ==
  ASSUME IInv, Next, TypeInv', NEW g \in Groups, Build(g)
  PROVE  GroupInv(g)'
<1>1. /\ TypeInv /\ QueueInv /\ WhoBuilds /\ GroupInv(g) /\ Groups' = Groups /\ lanes' = lanes
      /\ Members(g)' = Members(g) /\ Members(g) \subseteq Partitions
      /\ MaxRetries \in Nat \ {0} /\ Unfilled = MaxRetries + 1 /\ Unfilled' = Unfilled
  BY GroupsStay, GroupsCut, SizesAssumption DEF IInv, BuildInv, Unfilled, TypeInv
<1>2. /\ UNCHANGED <<lanes, plan, executing, begun, ended, call, given>>
      /\ at[g] # "idle" /\ at'[g] \notin {"idle", "lanes"}
  BY BuildFrame DEF IInv
<1>3. ~Waiting(g)'
  <2>1. ~Waiting(g)
    BY <1>1, <1>2 DEF GroupInv
  <2>2. QED
    BY <1>2, <2>1 DEF Waiting, Begun, Ended
<1>4. /\ at \in [Groups -> {"idle", "lanes", "load", "store", "attempt", "done"}]
      /\ mask \in [Groups -> SUBSET Partitions]
      /\ j \in [Groups -> 0 .. MaxRetries-1] /\ local \in [Groups -> BOOLEAN]
      /\ seeds \in [Partitions -> 0 .. MaxRetries] /\ filled \in [Partitions -> 0 .. Unfilled]
  BY <1>1 DEF TypeInv
<1>5. ASSUME mask'[g] # {}, mask'[g] \subseteq Members(g)
      PROVE  Current(g)' \in mask'[g]
  <2>1. mask'[g] \subseteq Partitions
    BY <1>1, <1>5
  <2>2. QED
    BY <1>5, <2>1, LeastInMask DEF Current
<1>6. PICK c : c = Current(g)
  OBVIOUS
<1>7. CASE TryLanes(g)
  <2>1. PICK failed \in SUBSET Members(g) :
          /\ mask' = [mask EXCEPT ![g] = failed]
          /\ filled' = [i \in Partitions |-> IF i \in Members(g) \ failed THEN 0 ELSE filled[i]]
          /\ at' = [at EXCEPT ![g] = IF failed = {} THEN "done" ELSE "load"]
    BY <1>7 DEF TryLanes
  <2>2. at[g] = "lanes" /\ seeds' = seeds /\ j' = j /\ local' = local
    BY <1>7 DEF TryLanes
  <2>3. j[g] = 0 /\ local[g] /\ \A i \in Members(g) : filled[i] = Unfilled /\ seeds[i] = 0
    BY <1>1, <2>2 DEF GroupInv, Fresh, Untouched
  <2>4. /\ \A i \in Members(g) \ failed : filled'[i] = seeds'[i]
        /\ \A i \in failed : filled'[i] = Unfilled /\ seeds'[i] = 0
    BY <1>1, <1>4, <2>1, <2>2, <2>3
  <2>5. mask'[g] = failed /\ at'[g] = IF failed = {} THEN "done" ELSE "load"
    BY <1>4, <2>1
  <2>6. CASE failed = {}
    <3>1. \A i \in Members(g) : filled'[i] = seeds'[i]
      BY <2>4, <2>6
    <3>2. at'[g] = "done" /\ local'[g]
      BY <2>2, <2>3, <2>5, <2>6
    <3>3. QED
      BY <1>1, <1>3, <3>1, <3>2 DEF GroupInv, Found
  <2>7. CASE failed # {}
    <3>1. Current(g)' \in failed
      BY <1>5, <2>5, <2>7
    <3>2. at'[g] = "load" /\ local'[g] /\ j'[g] = 0
      BY <2>2, <2>3, <2>5, <2>7
    <3>3. Fallback(g)'
      BY <1>1, <2>4, <2>5, <2>7, <3>1, <3>2 DEF Fallback, Found
    <3>4. QED
      BY <1>3, <3>2, <3>3 DEF GroupInv
  <2>8. QED
    BY <2>6, <2>7
<1>8. ASSUME ~TryLanes(g)
      PROVE  /\ Fallback(g) /\ c \in mask[g] /\ c \in Members(g) /\ c \in Partitions
             /\ mask[g] \subseteq Members(g) /\ j[g] \in 0 .. MaxRetries-1
             /\ seeds[c] = IF at[g] = "attempt" THEN j[g] + 1 ELSE j[g]
             /\ \A i \in mask[g] : filled[i] = Unfilled
             /\ \A i \in mask[g] \ {c} : seeds[i] = 0
             /\ local[g] <=> \A i \in Members(g) \ mask[g] : filled[i] = seeds[i]
  <2>1. at[g] \in {"load", "store", "attempt"}
    BY <1>8 DEF Build, LoadRetries, StoreRetries, Placed, NotPlaced
  <2>2. Fallback(g)
    BY <1>1, <2>1 DEF GroupInv
  <2>3. c \in mask[g]
    BY <1>1, <1>6, <2>2, CurrentInMask DEF Fallback
  <2>4. QED
    BY <1>1, <1>4, <1>6, <2>2, <2>3 DEF Fallback, Found
(* A step that stays with the partition the loop is at.                    *)
<1>9. ASSUME ~TryLanes(g), mask'[g] = mask[g], at'[g] \in {"load", "store", "attempt"},
             filled' = filled, local'[g] = local[g],
             \A i \in Members(g) \ {c} : seeds'[i] = seeds[i],
             seeds'[c] = IF at'[g] = "attempt" THEN j'[g] + 1 ELSE j'[g]
      PROVE  GroupInv(g)'
  <2>1. Current(g)' = c
    BY <1>6, <1>9 DEF Current
  <2>2. local'[g] <=> \A i \in Members(g) \ mask[g] : filled'[i] = seeds'[i]
    BY <1>8, <1>9
  <2>3. Fallback(g)'
    BY <1>1, <1>8, <1>9, <2>1, <2>2 DEF Fallback, Found
  <2>4. QED
    BY <1>3, <1>9, <2>3 DEF GroupInv
(* A step that goes on to the next partition.                              *)
<1>10. ASSUME ~TryLanes(g), NextInMask(g), seeds' = seeds,
              \A i \in Members(g) \ {c} : filled'[i] = filled[i],
              local'[g] <=> local[g] /\ filled'[c] = seeds[c]
       PROVE  GroupInv(g)'
  <2>1. /\ mask'[g] = mask[g] \ {c} /\ j'[g] = 0
        /\ at'[g] = IF mask'[g] = {} THEN "done" ELSE "load"
    BY <1>4, <1>6, <1>10 DEF NextInMask
  <2>2. local'[g] <=> \A i \in Members(g) \ mask'[g] : filled'[i] = seeds'[i]
    BY <1>8, <1>10, <2>1
  <2>3. CASE mask'[g] = {}
    BY <1>1, <1>3, <2>1, <2>2, <2>3 DEF GroupInv, Found
  <2>4. CASE mask'[g] # {}
    <3>1. mask'[g] \subseteq Members(g)
      BY <1>8, <1>10, <2>1
    <3>2. Current(g)' \in mask[g] \ {c}
      BY <1>5, <2>1, <2>4, <3>1
    <3>3. \A i \in mask'[g] : filled'[i] = Unfilled /\ seeds'[i] = 0
      BY <1>8, <1>10, <2>1
    <3>4. Fallback(g)'
      BY <1>1, <2>1, <2>2, <2>4, <3>1, <3>2, <3>3 DEF Fallback, Found
    <3>5. QED
      BY <1>3, <2>1, <2>4, <3>4 DEF GroupInv
  <2>5. QED
    BY <2>3, <2>4
<1>11. CASE LoadRetries(g)
  <2>1. /\ at[g] = "load" /\ at'[g] = "store" /\ UNCHANGED <<seeds, filled, mask, j, local>>
        /\ ~TryLanes(g)
    BY <1>4, <1>11 DEF LoadRetries, TryLanes
  <2>2. QED
    BY <1>8, <1>9, <2>1
<1>12. CASE StoreRetries(g)
  <2>1. /\ at[g] = "store" /\ at'[g] = "attempt" /\ UNCHANGED <<filled, mask, j, local>>
        /\ seeds' = [seeds EXCEPT ![c] = j[g] + 1] /\ ~TryLanes(g)
    BY <1>4, <1>6, <1>12 DEF StoreRetries, TryLanes
  <2>2. seeds'[c] = j'[g] + 1 /\ \A i \in Members(g) \ {c} : seeds'[i] = seeds[i]
    BY <1>1, <1>4, <1>8, <2>1
  <2>3. QED
    BY <1>9, <2>1, <2>2
<1>13. CASE Placed(g)
  <2>1. /\ at[g] = "attempt" /\ UNCHANGED <<seeds, local>> /\ NextInMask(g)
        /\ filled' = [filled EXCEPT ![c] = j[g] + 1] /\ ~TryLanes(g)
    BY <1>4, <1>6, <1>13 DEF Placed, TryLanes
  <2>2. filled'[c] = seeds[c] /\ \A i \in Members(g) \ {c} : filled'[i] = filled[i]
    BY <1>1, <1>4, <1>8, <2>1
  <2>3. QED
    BY <1>10, <2>1, <2>2
<1>14. CASE NotPlaced(g)
  <2>1. at[g] = "attempt" /\ UNCHANGED <<seeds, filled>> /\ ~TryLanes(g)
    BY <1>14 DEF NotPlaced, TryLanes
  <2>2. CASE j[g] + 1 < MaxRetries
    <3>1. at'[g] = "load" /\ j'[g] = j[g] + 1 /\ UNCHANGED <<mask, local>>
      BY <1>4, <1>8, <1>1, <1>14, <2>1, <2>2 DEF NotPlaced
    <3>2. seeds'[c] = j'[g]
      BY <1>8, <2>1, <3>1
    <3>3. QED
      BY <1>9, <2>1, <3>1, <3>2
  <2>3. CASE ~ (j[g] + 1 < MaxRetries)
    <3>1. NextInMask(g) /\ local'[g] = FALSE
      BY <1>4, <1>14, <2>3 DEF NotPlaced
    <3>2. filled[c] # seeds[c]
      BY <1>1, <1>4, <1>8, <2>1
    <3>3. QED
      BY <1>10, <2>1, <3>1, <3>2
  <2>4. QED
    BY <2>2, <2>3
<1>15. QED
  BY <1>7, <1>11, <1>12, <1>13, <1>14 DEF Build

(* The builds of a construct begin after the container has been made.      *)
LEMMA BuildsFollowContainer ==
  ASSUME QueueInv, TypeInv, NEW g \in Groups, Begun(BuildOf(g))
  PROVE  Ended(MakeContainer)
<1>1. PhaseOf(MakeContainer) < PhaseOf(BuildOf(g))
  BY DEF PhaseOf, MakeContainer, BuildOf, Scatter, CleanUp
<1>2. executing
  BY DEF QueueInv, Begun
<1>3. MakeContainer \in DOMAIN plan
  BY <1>2, ProgramComplete DEF QueueInv, TypeInv
<1>4. QED
  BY <1>1, <1>3 DEF QueueInv, Begun, Ended

(* Of tasks that have not begun none has ended.                            *)
LEMMA EndedHasBegun ==
  ASSUME QueueInv, NEW t, Ended(t)
  PROVE  Begun(t) /\ executing
BY DEF QueueInv, Begun, Ended

(* Every step keeps what is known of every group.                          *)
LEMMA BuildStep ==
  ASSUME IInv, Next, TypeInv', QueueInv'
  PROVE  BuildInv'
<1>1. /\ TypeInv /\ QueueInv /\ WhoBuilds /\ Groups' = Groups /\ lanes' = lanes
      /\ \A g \in Groups : GroupInv(g)
      /\ at \in [Groups -> {"idle", "lanes", "load", "store", "attempt", "done"}]
      /\ j \in [Groups -> 0 .. MaxRetries-1] /\ local \in [Groups -> BOOLEAN]
      /\ mask \in [Groups -> SUBSET Partitions]
      /\ begun \in [DOMAIN plan -> 0..1] /\ ended \in [DOMAIN plan -> 0..1]
  BY GroupsStay DEF IInv, BuildInv, TypeInv, QueueInv
<1>2. SUFFICES ASSUME NEW h \in Groups PROVE GroupInv(h)'
  BY <1>1 DEF BuildInv
<1>3. ASSUME UNCHANGED <<at, mask, j, local, filled, seeds>>, Waiting(h)' => Waiting(h)
      PROVE  GroupInv(h)'
  BY <1>1, <1>3, GroupKept
<1>4. CASE construct
  <2>1. call' = "construct" /\ call = "none" /\ UNCHANGED plan
    BY <1>4 DEF construct, queueVars
  <2>2. ~Waiting(h)'
    BY <1>1, <2>1 DEF QueueInv, Waiting, Ended
  <2>3. QED
    BY <1>3, <1>4, <2>2 DEF construct, buildVars
<1>5. CASE SubmitNext
  <2>1. call' = "construct" /\ ~executing'
    BY <1>5 DEF SubmitNext, Queue!Submit
  <2>2. ~Ended(MakeContainer)'
    BY <2>1 DEF QueueInv, Ended
  <2>3. ~Waiting(h)'
    BY <2>1, <2>2 DEF Waiting
  <2>4. QED
    BY <1>3, <1>5, <2>3 DEF SubmitNext, buildVars
<1>6. CASE ExecuteTasks
  <2>1. UNCHANGED <<call, plan, begun, ended, given>>
    BY <1>6 DEF ExecuteTasks, Queue!Execute
  <2>2. Waiting(h)' => Waiting(h)
    BY <2>1 DEF Waiting, Begun, Ended
  <2>3. QED
    BY <1>3, <1>6, <2>2 DEF ExecuteTasks, buildVars
<1>7. CASE ReturnFromConstruct
  <2>1. call = "construct" /\ call' = "none" /\ given' = given
    BY <1>7 DEF ReturnFromConstruct
  <2>2. given = Partitions /\ h \in Partitions
    BY <1>1, <2>1, GroupsCut DEF IInv, ReportInv, TypeInv
  <2>3. ~Waiting(h)'
    BY <2>1, <2>2 DEF Waiting
  <2>4. QED
    BY <1>3, <1>7, <2>3 DEF ReturnFromConstruct, buildVars
<1>8. ASSUME NEW t, BeginTask(t)
      PROVE  GroupInv(h)'
  <2>1. /\ t \in DOMAIN plan /\ executing /\ begun[t] = 0
        /\ UNCHANGED <<call, plan, ended, mask, j, local, filled, seeds>>
        /\ begun' = [begun EXCEPT ![t] = 1]
        /\ at' = [g \in Groups |-> IF t = BuildOf(g) THEN "lanes" ELSE at[g]]
    BY <1>8 DEF BeginTask, Queue!Begin
  <2>2. call = "construct"
    BY <1>1, <2>1 DEF QueueInv
  <2>3. Waiting(h)' => Waiting(h)
    <3>1. begun[BuildOf(h)] = 1 /\ BuildOf(h) \in DOMAIN plan => begun'[BuildOf(h)] = 1
      BY <1>1, <2>1
    <3>2. QED
      BY <2>1, <2>2, <3>1 DEF Waiting, Begun, Ended, BuildOf, MakeContainer
  <2>4. CASE t # BuildOf(h)
    <3>1. at'[h] = at[h]
      BY <2>1, <2>4
    <3>2. QED
      BY <1>1, <2>1, <2>3, <3>1, GroupKept
  <2>5. CASE t = BuildOf(h)
    <3>1. Begun(BuildOf(h))' /\ at'[h] = "lanes"
      <4>1. begun'[t] = 1 /\ t \in DOMAIN plan' /\ at'[h] = "lanes"
        BY <1>1, <2>1, <2>5
      <4>2. QED
        BY <2>5, <4>1 DEF Begun, BuildOf
    <3>2. PhaseOf(MakeContainer) < PhaseOf(t)
      BY <2>5 DEF PhaseOf, MakeContainer, BuildOf, Scatter, CleanUp
    <3>3. Waiting(h)
      <4>1. Ended(MakeContainer)
        <5>1. \A u \in DOMAIN plan : plan[u] < plan[t] => ended[u] = 1
          BY <1>8 DEF BeginTask, Queue!Begin, Queue!PhaseReached
        <5>2. MakeContainer \in DOMAIN plan
          BY <1>1, <2>1, ProgramComplete DEF QueueInv, TypeInv
        <5>3. plan[t] = PhaseOf(t) /\ plan[MakeContainer] = PhaseOf(MakeContainer)
          BY <1>1, <2>1, <5>2 DEF QueueInv
        <5>4. QED
          BY <3>2, <5>1, <5>2, <5>3 DEF Ended
      <4>2. ~Begun(BuildOf(h))
        BY <2>1, <2>5 DEF Begun
      <4>3. QED
        BY <2>2, <4>1, <4>2 DEF Waiting
    <3>4. Fresh(h) /\ j[h] = 0 /\ local[h]
      BY <1>1, <3>3 DEF GroupInv
    <3>5. Fresh(h)' /\ j'[h] = 0 /\ local'[h]
      BY <1>1, <2>1, <3>4 DEF Fresh, Members, Untouched, Unfilled
    <3>6. ~Waiting(h)'
      BY <2>1, <2>2, <3>1 DEF Waiting
    <3>7. QED
      BY <3>1, <3>5, <3>6 DEF GroupInv
  <2>6. QED
    BY <2>4, <2>5
<1>9. CASE EndMakeContainer
  <2>1. /\ executing /\ ended[MakeContainer] = 0 /\ NewContainer /\ UNCHANGED <<at, j, local>>
    BY <1>9 DEF EndMakeContainer, Queue!End, buildVars
  <2>2. call = "construct"
    BY <1>1, <2>1 DEF QueueInv
  <2>3. ~Begun(BuildOf(h))
    BY <1>1, <2>1, BuildsFollowContainer DEF Ended
  <2>4. at[h] = "idle"
    BY <1>1, <2>2, <2>3 DEF WhoBuilds
  <2>5. QED
    BY <1>1, <2>1, <2>4, GroupRenewed
<1>10. ASSUME NEW t, EndOther(t)
       PROVE  GroupInv(h)'
  <2>1. /\ t \in {Scatter, CleanUp} /\ t \in DOMAIN plan
        /\ UNCHANGED <<call, given, plan, begun>> /\ ended' = [ended EXCEPT ![t] = 1]
    BY <1>10 DEF EndOther, Queue!End
  <2>2. ended'[MakeContainer] = ended[MakeContainer]
    BY <1>1, <2>1 DEF Scatter, CleanUp, MakeContainer
  <2>3. Waiting(h)' => Waiting(h)
    BY <2>1, <2>2 DEF Waiting, Begun, Ended, BuildOf, MakeContainer
  <2>4. QED
    BY <1>3, <1>10, <2>3 DEF EndOther, buildVars
<1>11. ASSUME NEW g \in Groups, EndBuild(g)
       PROVE  GroupInv(h)'
  <2>1. /\ at[g] = "done" /\ BuildOf(g) \in DOMAIN plan /\ executing /\ begun[BuildOf(g)] = 1
        /\ UNCHANGED <<call, given, plan, begun, seeds, filled, mask>>
        /\ ended' = [ended EXCEPT ![BuildOf(g)] = 1]
        /\ at' = [at EXCEPT ![g] = "idle"] /\ j' = [j EXCEPT ![g] = 0]
        /\ local' = [local EXCEPT ![g] = TRUE]
    BY <1>11 DEF EndBuild, Queue!End, Forget
  <2>2. call = "construct"
    BY <1>1, <2>1 DEF QueueInv
  <2>3. CASE h = g
    <3>1. Begun(BuildOf(h))'
      BY <2>1, <2>3 DEF Begun, BuildOf
    <3>2. ~Waiting(h)'
      BY <2>1, <2>2, <3>1 DEF Waiting
    <3>3. at'[h] = "idle" /\ j'[h] = 0 /\ local'[h]
      BY <1>1, <2>1, <2>3
    <3>4. QED
      BY <3>2, <3>3 DEF GroupInv
  <2>4. CASE h # g
    <3>1. at'[h] = at[h] /\ j'[h] = j[h] /\ local'[h] = local[h]
      BY <1>1, <2>1, <2>4
    <3>2. ended'[MakeContainer] = ended[MakeContainer]
      BY <1>1, <2>1 DEF BuildOf, MakeContainer
    <3>3. Waiting(h)' => Waiting(h)
      BY <2>1, <2>2, <3>2 DEF Waiting, Begun, Ended, BuildOf, MakeContainer
    <3>4. QED
      BY <1>1, <2>1, <3>1, <3>3, GroupKept
  <2>5. QED
    BY <2>3, <2>4
<1>12. CASE init
  <2>1. call = "none" /\ NewContainer /\ UNCHANGED <<at, j, local>>
    BY <1>12 DEF init, buildVars
  <2>2. at[h] = "idle"
    BY <1>1, <2>1 DEF WhoBuilds
  <2>3. QED
    BY <1>1, <2>1, <2>2, GroupRenewed
<1>13. ASSUME NEW g \in Groups, add_partition(g)
       PROVE  GroupInv(h)'
  <2>1. /\ call = "none" /\ call' = "add_partition" /\ at' = [at EXCEPT ![g] = "lanes"]
        /\ g \notin given /\ given' = given \cup {g}
        /\ UNCHANGED <<seeds, filled, mask, j, local>>
    BY <1>13 DEF add_partition
  <2>2. CASE h = g
    <3>1. Waiting(h)
      BY <2>1, <2>2 DEF Waiting
    <3>2. Fresh(h) /\ j[h] = 0 /\ local[h]
      BY <1>1, <3>1 DEF GroupInv
    <3>3. Fresh(h)' /\ j'[h] = 0 /\ local'[h]
      BY <1>1, <2>1, <3>2 DEF Fresh, Members, Untouched, Unfilled
    <3>4. ~Waiting(h)' /\ at'[h] = "lanes"
      BY <1>1, <2>1, <2>2 DEF Waiting
    <3>5. QED
      BY <3>3, <3>4 DEF GroupInv
  <2>3. CASE h # g
    <3>1. at'[h] = at[h] /\ (Waiting(h)' => Waiting(h))
      BY <1>1, <2>1, <2>3 DEF Waiting
    <3>2. QED
      BY <1>1, <2>1, <3>1, GroupKept
  <2>4. QED
    BY <2>2, <2>3
<1>14. ASSUME NEW g \in Groups, ReturnFromAdd(g)
       PROVE  GroupInv(h)'
  <2>1. /\ call = "add_partition" /\ call' = "none" /\ at[g] = "done" /\ given' = given
        /\ UNCHANGED <<seeds, filled, mask>>
        /\ at' = [at EXCEPT ![g] = "idle"] /\ j' = [j EXCEPT ![g] = 0]
        /\ local' = [local EXCEPT ![g] = TRUE]
    BY <1>14 DEF ReturnFromAdd, Forget
  <2>2. Waiting(h)' => Waiting(h)
    BY <2>1 DEF Waiting
  <2>3. CASE h = g
    <3>1. ~Waiting(h)'
      BY <1>1, <2>1, <2>2, <2>3 DEF GroupInv
    <3>2. at'[h] = "idle" /\ j'[h] = 0 /\ local'[h]
      BY <1>1, <2>1, <2>3
    <3>3. QED
      BY <3>1, <3>2 DEF GroupInv
  <2>4. CASE h # g
    <3>1. at'[h] = at[h] /\ j'[h] = j[h] /\ local'[h] = local[h]
      BY <1>1, <2>1, <2>4
    <3>2. QED
      BY <1>1, <2>1, <2>2, <3>1, GroupKept
  <2>5. QED
    BY <2>3, <2>4
<1>15. ASSUME NEW g \in Groups, Build(g)
       PROVE  GroupInv(h)'
  <2>1. CASE h = g
    BY <1>15, <2>1, BuildInvStep
  <2>2. CASE h # g
    <3>1. /\ UNCHANGED <<plan, begun, ended, call, given>>
          /\ at'[h] = at[h] /\ mask'[h] = mask[h] /\ j'[h] = j[h] /\ local'[h] = local[h]
          /\ \A i \in Partitions \ Members(g) : filled'[i] = filled[i] /\ seeds'[i] = seeds[i]
      BY <1>15, <2>2, BuildFrame DEF IInv
    <3>2. \A i \in Members(h) : i \in Partitions \ Members(g)
      BY <1>1, <2>2, GroupsCut DEF TypeInv
    <3>3. Waiting(h)' => Waiting(h)
      BY <3>1 DEF Waiting, Begun, Ended
    <3>4. QED
      BY <1>1, <3>1, <3>2, <3>3, GroupKept
  <2>3. QED
    BY <2>1, <2>2
<1>16. CASE Finished
  <2>1. UNCHANGED vars
    BY <1>16 DEF Finished
  <2>2. Waiting(h)' => Waiting(h)
    BY <2>1 DEF vars, queueVars, Waiting, Begun, Ended
  <2>3. QED
    BY <1>3, <2>1, <2>2 DEF vars, buildVars
<1>17. QED
  BY <1>4, <1>5, <1>6, <1>7, <1>8, <1>9, <1>10, <1>11, <1>12, <1>13, <1>14, <1>15, <1>16
     DEF Next, Construct, Add

-----------------------------------------------------------------------------
(* Reports and counters. *)

(* Every step keeps what the flag and the result say.                      *)
LEMMA ReportStep ==
  ASSUME IInv, Next, TypeInv', QueueInv'
  PROVE  ReportInv'
<1>1. /\ TypeInv /\ QueueInv /\ WhoBuilds /\ ReportInv /\ Groups' = Groups /\ lanes' = lanes
      /\ \A g \in Groups : GroupInv(g) /\ Members(g)' = Members(g)
      /\ begun \in [DOMAIN plan -> 0..1] /\ ended \in [DOMAIN plan -> 0..1]
      /\ success \in BOOLEAN
  BY GroupsStay DEF IInv, BuildInv, TypeInv, QueueInv
<1>2. /\ \A i \in Partitions : \E g \in Groups : i \in Members(g)
      /\ \A g \in Groups : Members(g) \subseteq Partitions
      /\ Groups \subseteq Partitions
  BY <1>1, GroupsCut DEF TypeInv
<1>3. CASE construct
  <2>1. /\ call = "none" /\ call' = "construct" /\ success' = TRUE /\ given' = Partitions
        /\ result' = NoResult /\ plan' = plan
    BY <1>3 DEF construct, queueVars
  <2>2. \A g \in Groups : ~Ended(BuildOf(g))'
    BY <1>1, <2>1 DEF QueueInv, Ended, BuildOf
  <2>3. QED
    BY <1>1, <2>1, <2>2 DEF ReportInv, NoResult
(* Within a construct it is enough to look at the tasks that have ended.   *)
<1>4. ASSUME call = "construct", call' = call, given' = given, result' = result,
             success' <=> \A g \in Groups : Ended(BuildOf(g))' =>
                                              \A i \in Members(g) : Found(i)'
      PROVE  ReportInv'
  BY <1>1, <1>4 DEF ReportInv
<1>5. CASE SubmitNext
  <2>1. /\ call = "construct" /\ ~executing /\ ~executing'
        /\ UNCHANGED <<call, given, result, success>>
    BY <1>5 DEF SubmitNext, Queue!Submit
  <2>2. \A g \in Groups : ~Ended(BuildOf(g)) /\ ~Ended(BuildOf(g))'
    BY <1>1, <2>1 DEF QueueInv, Ended
  <2>3. QED
    BY <1>1, <1>4, <2>1, <2>2 DEF ReportInv
<1>6. ASSUME call = "construct", UNCHANGED <<call, given, result, success, filled, seeds>>,
             \A g \in Groups : Ended(BuildOf(g))' <=> Ended(BuildOf(g))
      PROVE  ReportInv'
  <2>1. \A i : Found(i)' <=> Found(i)
    BY <1>6 DEF Found
  <2>2. QED
    BY <1>1, <1>4, <1>6, <2>1 DEF ReportInv
<1>7. CASE ExecuteTasks
  <2>1. call = "construct" /\ UNCHANGED <<call, given, result, success, filled, seeds, plan, ended>>
    BY <1>7 DEF ExecuteTasks, Queue!Execute
  <2>2. QED
    BY <1>6, <2>1 DEF Ended, BuildOf
<1>8. CASE ReturnFromConstruct
  <2>1. /\ call = "construct" /\ call' = "none" /\ given' = given /\ executing
        /\ result' = [of |-> "construct", value |-> success]
        /\ UNCHANGED <<filled, seeds>>
        /\ \A t \in DOMAIN plan : ended[t] = 1
    BY <1>8 DEF ReturnFromConstruct, Queue!Return
  <2>2. \A g \in Groups : Ended(BuildOf(g))
    BY <1>1, <2>1, ProgramComplete DEF QueueInv, TypeInv, Ended
  <2>3. success <=> \A i \in Partitions : Found(i)
    <3>1. success <=> \A g \in Groups : \A i \in Members(g) : Found(i)
      BY <1>1, <2>1, <2>2 DEF ReportInv
    <3>2. QED
      BY <1>2, <3>1
  <2>4. \A i \in Partitions : Found(i)' <=> Found(i)
    BY <2>1 DEF Found
  <2>5. result'.value <=> \A i \in Partitions : Found(i)'
    BY <2>1, <2>3, <2>4
  <2>6. given' = Partitions
    BY <1>1, <2>1 DEF ReportInv
  <2>7. QED
    BY <2>1, <2>5, <2>6 DEF ReportInv
<1>9. ASSUME NEW t, BeginTask(t)
      PROVE  ReportInv'
  <2>1. executing /\ UNCHANGED <<call, given, result, success, filled, seeds, plan, ended>>
    BY <1>9 DEF BeginTask, Queue!Begin
  <2>2. call = "construct"
    BY <1>1, <2>1 DEF QueueInv
  <2>3. QED
    BY <1>6, <2>1, <2>2 DEF Ended, BuildOf
<1>10. CASE EndMakeContainer
  <2>1. /\ executing /\ ended[MakeContainer] = 0 /\ MakeContainer \in DOMAIN plan
        /\ UNCHANGED <<call, given, result, success, plan>>
        /\ ended' = [ended EXCEPT ![MakeContainer] = 1]
    BY <1>10 DEF EndMakeContainer, Queue!End
  <2>2. call = "construct"
    BY <1>1, <2>1 DEF QueueInv
  <2>3. ASSUME NEW g \in Groups
        PROVE  ~Ended(BuildOf(g)) /\ ~Ended(BuildOf(g))'
    <3>1. ~Ended(BuildOf(g))
      <4>1. ~Ended(MakeContainer)
        BY <2>1 DEF Ended
      <4>2. ~Begun(BuildOf(g))
        BY <1>1, <4>1, BuildsFollowContainer
      <4>3. QED
        BY <1>1, <4>2, EndedHasBegun
    <3>2. BuildOf(g) \in DOMAIN plan => ended'[BuildOf(g)] = ended[BuildOf(g)]
      BY <1>1, <2>1 DEF BuildOf, MakeContainer
    <3>3. QED
      BY <2>1, <3>1, <3>2 DEF Ended, BuildOf
  <2>4. QED
    BY <1>1, <1>4, <2>1, <2>2, <2>3 DEF ReportInv
<1>11. ASSUME NEW t, EndOther(t)
       PROVE  ReportInv'
  <2>1. /\ executing /\ t \in {Scatter, CleanUp}
        /\ UNCHANGED <<call, given, result, success, filled, seeds, plan>>
        /\ ended' = [ended EXCEPT ![t] = 1]
    BY <1>11 DEF EndOther, Queue!End
  <2>2. call = "construct"
    BY <1>1, <2>1 DEF QueueInv
  <2>3. ASSUME NEW g \in Groups
        PROVE  Ended(BuildOf(g))' <=> Ended(BuildOf(g))
    <3>1. BuildOf(g) \in DOMAIN plan => ended'[BuildOf(g)] = ended[BuildOf(g)]
      BY <1>1, <2>1 DEF BuildOf, Scatter, CleanUp
    <3>2. QED
      BY <2>1, <3>1 DEF Ended, BuildOf
  <2>4. QED
    BY <1>6, <2>1, <2>2, <2>3
<1>12. ASSUME NEW g \in Groups, EndBuild(g)
       PROVE  ReportInv'
  <2>1. /\ at[g] = "done" /\ executing /\ BuildOf(g) \in DOMAIN plan
        /\ UNCHANGED <<call, given, result, filled, seeds, plan>>
        /\ ended' = [ended EXCEPT ![BuildOf(g)] = 1] /\ ended[BuildOf(g)] = 0
        /\ success' = (success /\ local[g])
    BY <1>12 DEF EndBuild, Queue!End
  <2>2. call = "construct"
    BY <1>1, <2>1 DEF QueueInv
  <2>3. ASSUME NEW h \in Groups
        PROVE  Ended(BuildOf(h))' <=> Ended(BuildOf(h)) \/ h = g
    <3>1. h # g /\ BuildOf(h) \in DOMAIN plan => ended'[BuildOf(h)] = ended[BuildOf(h)]
      BY <1>1, <2>1 DEF BuildOf
    <3>2. ended'[BuildOf(g)] = 1
      BY <1>1, <2>1
    <3>3. QED
      BY <2>1, <3>1, <3>2 DEF Ended, BuildOf
  <2>4. local[g] <=> \A i \in Members(g) : Found(i)
    BY <1>1, <2>1 DEF GroupInv
  <2>5. success <=> \A h \in Groups : Ended(BuildOf(h)) => \A i \in Members(h) : Found(i)
    BY <1>1, <2>2 DEF ReportInv
  <2>6. \A i : Found(i)' <=> Found(i)
    BY <2>1 DEF Found
  <2>7. success' <=> \A h \in Groups : Ended(BuildOf(h))' => \A i \in Members(h) : Found(i)'
    BY <2>1, <2>3, <2>4, <2>5, <2>6
  <2>8. QED
    BY <1>4, <2>1, <2>2, <2>7
<1>13. CASE init
  BY <1>13 DEF init, NoResult, ReportInv
<1>14. ASSUME NEW g \in Groups, add_partition(g)
       PROVE  ReportInv'
  <2>1. call' = "add_partition" /\ g \notin given /\ result' = result
    BY <1>14 DEF add_partition
  <2>2. result.of # "construct"
    BY <1>1, <1>2, <2>1 DEF ReportInv
  <2>3. QED
    BY <2>1, <2>2 DEF ReportInv
<1>15. CASE \E g \in Groups : ReturnFromAdd(g)
  BY <1>15 DEF ReturnFromAdd, ReportInv
<1>16. ASSUME NEW g \in Groups, Build(g)
       PROVE  ReportInv'
  <2>1. /\ UNCHANGED <<plan, begun, ended, call, given, result, success>> /\ at[g] # "idle"
        /\ \A i \in Partitions \ Members(g) : filled'[i] = filled[i] /\ seeds'[i] = seeds[i]
    BY <1>16, BuildFrame DEF IInv
  <2>2. call # "none"
    BY <1>1, <2>1 DEF WhoBuilds
  <2>3. CASE call # "construct"
    BY <1>1, <2>1, <2>2, <2>3 DEF ReportInv
  <2>4. CASE call = "construct"
    <3>1. ~Ended(BuildOf(g))
      BY <1>1, <2>1, <2>4 DEF WhoBuilds
    <3>2. ASSUME NEW h \in Groups, h # g, NEW i \in Members(h)
          PROVE  Found(i)' <=> Found(i)
      <4>1. i \in Partitions \ Members(g)
        BY <1>1, <1>2, <3>2, GroupsCut DEF TypeInv
      <4>2. QED
        BY <2>1, <4>1 DEF Found
    <3>3. \A h \in Groups : Ended(BuildOf(h))' <=> Ended(BuildOf(h))
      BY <2>1 DEF Ended, BuildOf
    <3>4. success <=> \A h \in Groups : Ended(BuildOf(h)) => \A i \in Members(h) : Found(i)
      BY <1>1, <2>4 DEF ReportInv
    <3>5. success' <=> \A h \in Groups : Ended(BuildOf(h))' => \A i \in Members(h) : Found(i)'
      BY <2>1, <3>1, <3>2, <3>3, <3>4
    <3>6. QED
      BY <1>4, <2>1, <2>4, <3>5
  <2>5. QED
    BY <2>3, <2>4
<1>17. CASE Finished
  <2>1. UNCHANGED <<call, given, result, success, filled, seeds, plan, ended>>
    BY <1>17 DEF Finished, vars, queueVars
  <2>2. call = "none"
    BY <1>17 DEF Finished
  <2>3. \A i \in Partitions : Found(i)' <=> Found(i)
    BY <2>1 DEF Found
  <2>4. QED
    BY <1>1, <2>1, <2>2, <2>3 DEF ReportInv
<1>18. QED
  BY <1>3, <1>5, <1>7, <1>8, <1>9, <1>10, <1>11, <1>12, <1>13, <1>14, <1>15, <1>16, <1>17
     DEF Next, Construct, Add

(* An increment may be lost, but never one too many counted.               *)
LEMMA CountStep ==
  ASSUME TypeInv, CountInv, Next
  PROVE  CountInv'
<1>1. /\ Groups' = Groups /\ loaded \in [Groups -> Nat] /\ n_retries \in Nat /\ attempts \in Nat
      /\ n_retries <= attempts /\ (n_retries = 0 => attempts = 0)
      /\ \A g \in Groups : loaded[g] <= attempts
  BY GroupsStay DEF TypeInv, CountInv
<1>2. CASE UNCHANGED <<n_retries, attempts, loaded>>
  BY <1>1, <1>2 DEF CountInv
<1>3. ASSUME NEW g \in Groups, Forget(g), UNCHANGED <<n_retries, attempts>>
      PROVE  CountInv'
  BY <1>1, <1>3 DEF CountInv, Forget
<1>4. ASSUME NEW g \in Groups, LoadRetries(g)
      PROVE  CountInv'
  BY <1>1, <1>4 DEF CountInv, LoadRetries
<1>5. ASSUME NEW g \in Groups, StoreRetries(g)
      PROVE  CountInv'
  BY <1>1, <1>5 DEF CountInv, StoreRetries
<1>6. CASE Construct
  BY <1>2, <1>3, <1>6 DEF Construct, construct, SubmitNext, ExecuteTasks, ReturnFromConstruct,
     EndMakeContainer, BeginTask, EndOther, EndBuild, buildVars
<1>7. CASE Add \/ Finished
  BY <1>2, <1>3, <1>7 DEF Add, init, add_partition, ReturnFromAdd, Finished, vars, buildVars
<1>8. ASSUME NEW g \in Groups, Build(g)
      PROVE  CountInv'
  BY <1>2, <1>4, <1>5, <1>8 DEF Build, TryLanes, Placed, NotPlaced
<1>9. QED
  BY <1>6, <1>7, <1>8 DEF Next

-----------------------------------------------------------------------------
(* The invariant holds of every reachable state. *)

(* Nothing runs at first, and nothing has been built.                      *)
LEMMA Initially ==
  ASSUME Init
  PROVE  IInv
<1>1. /\ lanes \in LaneCounts /\ call = "none" /\ result = NoResult /\ inits = 0
      /\ n_retries = 0 /\ attempts = 0 /\ success = TRUE /\ given = Partitions
      /\ seeds = [i \in Partitions |-> 0] /\ filled = [i \in Partitions |-> Unfilled]
      /\ at = [g \in Groups |-> "idle"] /\ mask = [g \in Groups |-> {}]
      /\ j = [g \in Groups |-> 0] /\ loaded = [g \in Groups |-> 0]
      /\ local = [g \in Groups |-> TRUE]
      /\ MaxRetries \in Nat \ {0} /\ Unfilled = MaxRetries + 1
  BY SizesAssumption DEF Init, Unfilled
<1>2. /\ plan = [t \in {} |-> 0] /\ executing = FALSE
      /\ begun = [t \in {} |-> 0] /\ ended = [t \in {} |-> 0]
  BY DEF Init, Queue!Init, Queue!Zero
<1>3. TypeInv
  <2>1. seeds \in [Partitions -> 0 .. MaxRetries] /\ filled \in [Partitions -> 0 .. Unfilled]
    BY <1>1
  <2>2. result \in [of : {"none", "construct", "add_partition"}, value : BOOLEAN]
    BY <1>1 DEF NoResult
  <2>3. j \in [Groups -> 0 .. MaxRetries-1] /\ mask \in [Groups -> SUBSET Partitions]
    BY <1>1
  <2>4. QED
    BY <1>1, <2>1, <2>2, <2>3 DEF TypeInv
<1>4. QueueInv
  <2>1. DOMAIN plan = {} /\ plan = [t \in DOMAIN plan |-> PhaseOf(t)]
    BY <1>2
  <2>2. begun \in [DOMAIN plan -> 0..1] /\ ended \in [DOMAIN plan -> 0..1]
    BY <1>2
  <2>3. QED
    BY <1>1, <1>2, <2>1, <2>2 DEF QueueInv
<1>5. WhoBuilds
  BY <1>1 DEF WhoBuilds
<1>6. BuildInv
  <2>1. \A g \in Groups : g \in given
    BY <1>1, GroupsCut
  <2>2. QED
    BY <1>1, <2>1 DEF BuildInv, GroupInv, Waiting
<1>7. ReportInv
  BY <1>1 DEF ReportInv, NoResult
<1>8. CountInv
  BY <1>1 DEF CountInv
<1>9. QED
  BY <1>3, <1>4, <1>5, <1>6, <1>7, <1>8 DEF IInv

(* No step leaves the invariant.                                           *)
LEMMA NextKeeps ==
  ASSUME IInv, [Next]_vars
  PROVE  IInv'
<1>1. CASE Next
  <2>1. TypeInv' /\ QueueInv' /\ WhoBuilds' /\ CountInv'
    BY <1>1, TypeStep, QueueStep, WhoBuildsStep, CountStep DEF IInv
  <2>2. BuildInv' /\ ReportInv'
    BY <1>1, <2>1, BuildStep, ReportStep
  <2>3. QED
    BY <2>1, <2>2 DEF IInv
<1>2. CASE UNCHANGED vars
  <2>1. Groups' = Groups /\ Program' = Program
    BY <1>2 DEF vars, Groups, Program, Scatter, CleanUp, MakeContainer, BuildOf
  <2>2. /\ UNCHANGED <<lanes, plan, executing, begun, ended, call, result, inits, seeds, filled,
                       n_retries, success, at, mask, j, loaded, local, attempts, given>>
    BY <1>2 DEF vars, queueVars, buildVars
  <2>3. TypeInv' /\ QueueInv' /\ CountInv'
    BY <2>1, <2>2 DEF IInv, TypeInv, QueueInv, CountInv, Unfilled
  <2>4. \A t : (Begun(t)' <=> Begun(t)) /\ (Ended(t)' <=> Ended(t))
    BY <2>2 DEF Begun, Ended
  <2>5. WhoBuilds'
    BY <2>1, <2>2, <2>4 DEF IInv, WhoBuilds
  <2>6. BuildInv'
    <3>1. ASSUME NEW h \in Groups PROVE GroupInv(h)'
      <4>1. Waiting(h)' => Waiting(h)
        BY <2>2 DEF Waiting, Begun, Ended
      <4>2. QED
        BY <2>2, <2>3, <4>1, GroupKept DEF IInv, BuildInv
    <3>2. QED
      BY <2>1, <3>1 DEF BuildInv
  <2>7. ReportInv'
    <3>1. /\ \A g : Members(g)' = Members(g)
          /\ \A i : Found(i)' <=> Found(i)
      BY <2>2 DEF Members, Found
    <3>2. QED
      BY <2>1, <2>2, <2>4, <3>1 DEF IInv, ReportInv
  <2>8. QED
    BY <2>3, <2>5, <2>6, <2>7 DEF IInv
<1>3. QED
  BY <1>1, <1>2

(* The inductive invariant: types, the order of the tasks, who builds, how *)
(* far each build is and what it has done, and what the reports say of it. *)
THEOREM FilterInvariance == Spec => []IInv
<1>1. Init => IInv
  BY Initially
<1>2. IInv /\ [Next]_vars => IInv'
  BY NextKeeps
<1>3. QED
  BY <1>1, <1>2, PTL DEF Spec

(* ConstructReportsOutcome: construct returns true exactly if every        *)
(* partition can be looked up under the seed it was built with, whatever   *)
(* the order in which the tasks report into the one flag of construct.     *)
THEOREM ConstructReports == Spec => []ConstructReportsOutcome
<1>1. IInv => ConstructReportsOutcome
  BY DEF IInv, ReportInv, ConstructReportsOutcome
<1>2. QED
  BY <1>1, FilterInvariance, PTL

(* RetriesReported: the plain counter n_retries, incremented by several    *)
(* tasks at once, never exceeds the number of attempts, and is not 0 when  *)
(* there was one.                                                          *)
THEOREM RetriesAreReported == Spec => []RetriesReported
<1>1. IInv => RetriesReported
  BY DEF IInv, CountInv, RetriesReported
<1>2. QED
  BY <1>1, FilterInvariance, PTL

-----------------------------------------------------------------------------
(* Each partition is built as PartitionBuild says. *)

(* What the abstract build of a partition sees of the filter.              *)
StatusOf(i) ==
  IF filled[i] # Unfilled THEN "built"
  ELSE IF seeds[i] = MaxRetries /\ ~Attempting(i) THEN "failed"
  ELSE "building"

(* Only a step of the partition's own group changes what is seen of it.    *)
LEMMA UnseenStep ==
  ASSUME NEW i, filled'[i] = filled[i], seeds'[i] = seeds[i],
         Attempting(i)' <=> Attempting(i)
  PROVE  UNCHANGED Partition(i)!vars
<1>1. Unfilled' = Unfilled
  BY DEF Unfilled
<1>2. QED
  BY <1>1 DEF Partition!vars, Found

(* In a new container the build of a partition starts.                     *)
LEMMA NewPartition ==
  ASSUME NEW i \in Partitions, NewContainer
  PROVE  Partition(i)!Init'
<1>1. MaxRetries \in Nat \ {0} /\ Unfilled = MaxRetries + 1 /\ Unfilled' = Unfilled
  BY SizesAssumption DEF Unfilled
<1>2. filled'[i] = Unfilled /\ seeds'[i] = 0
  BY DEF NewContainer
<1>3. filled'[i] # seeds'[i] /\ seeds'[i] # MaxRetries
  BY <1>1, <1>2
<1>4. QED
  BY <1>1, <1>2, <1>3 DEF Partition!Init, Found

(* A step is for each partition one of PartitionBuild, or none.            *)
LEMMA PartitionStep ==
  ASSUME IInv, Next, NEW i \in Partitions
  PROVE  IF inits' = inits THEN [Partition(i)!Next]_(Partition(i)!vars)
         ELSE Partition(i)!Init'
<1>1. /\ TypeInv /\ WhoBuilds /\ Groups' = Groups /\ lanes' = lanes
      /\ \A g \in Groups : GroupInv(g)
      /\ GroupOf(i)' = GroupOf(i) /\ GroupOf(i) \in Groups /\ i \in Members(GroupOf(i))
      /\ MaxRetries \in Nat \ {0} /\ Unfilled = MaxRetries + 1 /\ Unfilled' = Unfilled
  BY GroupsStay, GroupsCut, SizesAssumption DEF IInv, BuildInv, TypeInv, Unfilled
<1>2. PICK g \in Groups : g = GroupOf(i) /\ i \in Members(g)
  BY <1>1
<1>3. /\ at \in [Groups -> {"idle", "lanes", "load", "store", "attempt", "done"}]
      /\ mask \in [Groups -> SUBSET Partitions]
      /\ j \in [Groups -> 0 .. MaxRetries-1]
      /\ seeds \in [Partitions -> 0 .. MaxRetries] /\ filled \in [Partitions -> 0 .. Unfilled]
      /\ inits \in Nat
  BY <1>1 DEF TypeInv
<1>4. /\ Attempting(i) <=> at[g] = "attempt" /\ Current(g) = i
      /\ Attempting(i)' <=> at'[g] = "attempt" /\ Current(g)' = i
  BY <1>1, <1>2 DEF Attempting
<1>5. CASE init \/ EndMakeContainer
  <2>1. NewContainer /\ inits' # inits
    BY <1>3, <1>5 DEF init, EndMakeContainer, NewContainer
  <2>2. QED
    BY <2>1, NewPartition
<1>6. ASSUME UNCHANGED <<inits, seeds, filled, mask>>,
             at'[g] = "attempt" <=> at[g] = "attempt"
      PROVE  inits' = inits /\ UNCHANGED Partition(i)!vars
  <2>1. Current(g)' = Current(g)
    BY <1>6 DEF Current
  <2>2. QED
    BY <1>4, <1>6, <2>1, UnseenStep
<1>7. CASE construct \/ SubmitNext \/ ExecuteTasks \/ ReturnFromConstruct \/ Finished
           \/ \E task \in Tasks : EndOther(task)
  BY <1>6, <1>7 DEF construct, SubmitNext, ExecuteTasks, ReturnFromConstruct, Finished, EndOther,
                    vars, buildVars
<1>8. ASSUME NEW task, BeginTask(task)
      PROVE  inits' = inits /\ UNCHANGED Partition(i)!vars
  <2>1. /\ task \in DOMAIN plan /\ executing /\ begun[task] = 0
        /\ at' = [h \in Groups |-> IF task = BuildOf(h) THEN "lanes" ELSE at[h]]
        /\ UNCHANGED <<inits, seeds, filled, mask>>
    BY <1>8 DEF BeginTask, Queue!Begin
  <2>2. call = "construct"
    BY <2>1 DEF IInv, QueueInv
  <2>3. task = BuildOf(g) => at[g] = "idle"
    BY <1>1, <2>1, <2>2 DEF WhoBuilds, Begun
  <2>4. at'[g] = "attempt" <=> at[g] = "attempt"
    BY <2>1, <2>3
  <2>5. QED
    BY <1>6, <2>1, <2>4
<1>9. ASSUME NEW h \in Groups, EndBuild(h) \/ ReturnFromAdd(h) \/ add_partition(h)
      PROVE  inits' = inits /\ UNCHANGED Partition(i)!vars
  <2>1. /\ at[h] \in {"done", "idle"} /\ UNCHANGED <<inits, seeds, filled, mask>>
        /\ at' = [at EXCEPT ![h] = "idle"] \/ at' = [at EXCEPT ![h] = "lanes"]
    <3>1. add_partition(h) => at[h] = "idle"
      BY <1>1 DEF add_partition, WhoBuilds
    <3>2. QED
      BY <1>9, <3>1 DEF EndBuild, ReturnFromAdd, add_partition, Forget
  <2>2. at'[g] = "attempt" <=> at[g] = "attempt"
    BY <1>3, <2>1
  <2>3. QED
    BY <1>6, <2>1, <2>2
<1>10. ASSUME NEW h \in Groups, Build(h)
       PROVE  inits' = inits /\ [Partition(i)!Next]_(Partition(i)!vars)
  <2>1. /\ inits' = inits
        /\ \A f \in Groups \ {h} : at'[f] = at[f] /\ mask'[f] = mask[f]
        /\ \A l \in Partitions \ Members(h) : filled'[l] = filled[l] /\ seeds'[l] = seeds[l]
    BY <1>10, BuildFrame DEF IInv
  <2>2. CASE h # g
    <3>1. i \in Partitions \ Members(h)
      BY <1>1, <1>2, <2>2, GroupsCut DEF TypeInv
    <3>2. at'[g] = at[g] /\ mask'[g] = mask[g]
      BY <2>1, <2>2
    <3>3. Current(g)' = Current(g)
      BY <3>2 DEF Current
    <3>4. UNCHANGED Partition(i)!vars
      BY <1>4, <2>1, <3>1, <3>2, <3>3, UnseenStep
    <3>5. QED
      BY <2>1, <3>4
  <2>3. CASE h = g /\ TryLanes(g)
    <3>1. PICK failed \in SUBSET Members(g) :
            /\ filled' = [l \in Partitions |-> IF l \in Members(g) \ failed THEN 0 ELSE filled[l]]
            /\ at' = [at EXCEPT ![g] = IF failed = {} THEN "done" ELSE "load"]
      BY <2>3 DEF TryLanes
    <3>2. at[g] = "lanes" /\ seeds' = seeds
      BY <2>3 DEF TryLanes
    <3>3. at'[g] # "attempt"
      BY <1>3, <3>1
    <3>4. ~Attempting(i) /\ ~Attempting(i)'
      BY <1>4, <3>2, <3>3
    <3>5. filled[i] = Unfilled /\ seeds[i] = 0
      BY <1>1, <1>2, <3>2 DEF GroupInv, Fresh, Untouched
    <3>6. CASE i \in failed
      <4>1. filled'[i] = filled[i]
        BY <3>1, <3>6
      <4>2. UNCHANGED Partition(i)!vars
        BY <3>2, <3>4, <4>1, UnseenStep
      <4>3. QED
        BY <2>1, <4>2
    <3>7. CASE i \notin failed
      <4>1. filled'[i] = 0 /\ seeds'[i] = 0
        BY <1>2, <3>1, <3>2, <3>5, <3>7
      <4>2. 0 # Unfilled /\ 0 # MaxRetries
        BY <1>1
      <4>3. Partition(i)!Succeed
        BY <1>1, <3>5, <4>1, <4>2 DEF Partition!Succeed, Found
      <4>4. QED
        BY <2>1, <4>3 DEF Partition!Next
    <3>8. QED
      BY <3>6, <3>7
  <2>4. CASE h = g /\ LoadRetries(g)
    <3>1. /\ at[g] = "load" /\ at'[g] = "store" /\ UNCHANGED <<seeds, filled, mask>>
      BY <1>3, <2>4 DEF LoadRetries
    <3>2. QED
      BY <1>6, <2>1, <3>1
  <2>5. PICK c : c = Current(g)
    OBVIOUS
  <2>6. ASSUME at[g] \in {"store", "attempt"}
        PROVE  /\ c \in mask[g] /\ c \in Partitions /\ filled[c] = Unfilled
               /\ j[g] \in 0 .. MaxRetries-1
               /\ seeds[c] = IF at[g] = "attempt" THEN j[g] + 1 ELSE j[g]
    <3>1. Fallback(g)
      BY <1>1, <2>6 DEF GroupInv
    <3>2. c \in mask[g] /\ c \in Partitions
      BY <1>1, <2>5, <3>1, CurrentInMask DEF Fallback
    <3>3. QED
      BY <1>3, <2>5, <3>1, <3>2 DEF Fallback
  <2>7. CASE h = g /\ StoreRetries(g)
    <3>1. /\ at[g] = "store" /\ at'[g] = "attempt" /\ UNCHANGED <<filled, mask>>
          /\ seeds' = [seeds EXCEPT ![c] = j[g] + 1]
      BY <1>3, <2>5, <2>7 DEF StoreRetries
    <3>2. Current(g)' = c
      BY <2>5, <3>1 DEF Current
    <3>3. CASE i # c
      <4>1. ~Attempting(i) /\ ~Attempting(i)'
        BY <1>4, <3>1, <3>2, <3>3
      <4>2. seeds'[i] = seeds[i] /\ filled'[i] = filled[i]
        BY <1>3, <3>1, <3>3
      <4>3. UNCHANGED Partition(i)!vars
        BY <4>1, <4>2, UnseenStep
      <4>4. QED
        BY <2>1, <4>3
    <3>4. CASE i = c
      <4>1. /\ filled[i] = Unfilled /\ filled'[i] = Unfilled
            /\ seeds[i] < MaxRetries /\ seeds'[i] = seeds[i] + 1
            /\ seeds[i] # MaxRetries
        BY <1>1, <1>3, <2>6, <3>1, <3>4
      <4>2. Attempting(i)'
        BY <1>4, <3>1, <3>2, <3>4
      <4>3. filled[i] # seeds[i] /\ filled'[i] # seeds'[i]
        BY <1>1, <1>3, <4>1
      <4>4. Partition(i)!Retry
        BY <1>1, <4>1, <4>2, <4>3 DEF Partition!Retry, Found
      <4>5. QED
        BY <2>1, <4>4 DEF Partition!Next
    <3>5. QED
      BY <3>3, <3>4
  <2>8. CASE h = g /\ Placed(g)
    <3>1. /\ at[g] = "attempt" /\ seeds' = seeds /\ NextInMask(g)
          /\ filled' = [filled EXCEPT ![c] = j[g] + 1]
      BY <2>5, <2>8 DEF Placed
    <3>2. at'[g] # "attempt"
      BY <1>3, <3>1 DEF NextInMask
    <3>3. ~Attempting(i)'
      BY <1>4, <3>2
    <3>4. CASE i # c
      <4>1. ~Attempting(i)
        BY <1>4, <2>5, <3>4
      <4>2. seeds'[i] = seeds[i] /\ filled'[i] = filled[i]
        BY <1>3, <3>1, <3>4
      <4>3. UNCHANGED Partition(i)!vars
        BY <3>3, <4>1, <4>2, UnseenStep
      <4>4. QED
        BY <2>1, <4>3
    <3>5. CASE i = c
      <4>1. filled[i] = Unfilled /\ filled'[i] = seeds'[i] /\ filled'[i] # Unfilled
        BY <1>1, <1>3, <2>6, <3>1, <3>5
      <4>2. Attempting(i)
        BY <1>4, <2>5, <3>1, <3>5
      <4>3. filled[i] # seeds[i] /\ seeds'[i] = seeds[i]
        BY <1>1, <1>3, <3>1, <4>1
      <4>4. Partition(i)!Succeed
        BY <1>1, <4>1, <4>2, <4>3 DEF Partition!Succeed, Found
      <4>5. QED
        BY <2>1, <4>4 DEF Partition!Next
    <3>6. QED
      BY <3>4, <3>5
  <2>9. CASE h = g /\ NotPlaced(g)
    <3>1. at[g] = "attempt" /\ UNCHANGED <<seeds, filled>>
      BY <2>9 DEF NotPlaced
    <3>2. at'[g] # "attempt"
      BY <1>3, <2>9 DEF NotPlaced, NextInMask
    <3>3. ~Attempting(i)'
      BY <1>4, <3>2
    <3>4. CASE i # c
      <4>1. ~Attempting(i)
        BY <1>4, <2>5, <3>4
      <4>2. UNCHANGED Partition(i)!vars
        BY <3>1, <3>3, <4>1, UnseenStep
      <4>3. QED
        BY <2>1, <4>2
    <3>5. CASE i = c
      <4>1. /\ filled[i] = Unfilled /\ filled'[i] = Unfilled
            /\ seeds[i] = j[g] + 1 /\ seeds'[i] = seeds[i] /\ seeds[i] # Unfilled
        BY <1>1, <1>3, <2>6, <3>1, <3>5
      <4>2. Attempting(i)
        BY <1>4, <2>5, <3>1, <3>5
      <4>3. CASE seeds[i] = MaxRetries
        <5>1. Partition(i)!GiveUp
          BY <1>1, <3>3, <4>1, <4>2, <4>3 DEF Partition!GiveUp, Found
        <5>2. QED
          BY <2>1, <5>1 DEF Partition!Next
      <4>4. CASE seeds[i] # MaxRetries
        <5>1. UNCHANGED Partition(i)!vars
          BY <1>1, <3>3, <4>1, <4>2, <4>4 DEF Partition!vars, Found
        <5>2. QED
          BY <2>1, <5>1
      <4>5. QED
        BY <4>3, <4>4
    <3>6. QED
      BY <3>4, <3>5
  <2>10. QED
    BY <1>10, <2>2, <2>3, <2>4, <2>7, <2>8, <2>9 DEF Build
<1>11. CASE Construct
  BY <1>5, <1>7, <1>8, <1>9, <1>11 DEF Construct
<1>12. CASE Add
  BY <1>5, <1>9, <1>12 DEF Add
<1>13. QED
  BY <1>7, <1>10, <1>11, <1>12 DEF Next

(* BuildsEach: for each partition the filter goes through the steps of     *)
(* PartitionBuild and no others, however the builds of the groups          *)
(* interleave, and starts anew with every container.                       *)
THEOREM FilterBuildsEach == Spec => BuildsEach
<1>1. Init => \A i \in Partitions : Partition(i)!Init
  <2>1. SUFFICES ASSUME Init, NEW i \in Partitions
                 PROVE  Partition(i)!Init
    OBVIOUS
  <2>2. MaxRetries \in Nat \ {0} /\ Unfilled = MaxRetries + 1
    BY SizesAssumption DEF Unfilled
  <2>3. filled[i] = Unfilled /\ seeds[i] = 0
    BY <2>1 DEF Init
  <2>4. filled[i] # seeds[i] /\ seeds[i] # MaxRetries
    BY <2>2, <2>3
  <2>5. QED
    BY <2>3, <2>4 DEF Partition!Init, Found
<1>2. IInv /\ [Next]_vars =>
        [\A i \in Partitions :
           IF inits' = inits THEN [Partition(i)!Next]_(Partition(i)!vars)
           ELSE Partition(i)!Init']_vars
  BY PartitionStep
<1>3. QED
  BY <1>1, <1>2, FilterInvariance, PTL DEF Spec, BuildsEach
=============================================================================
