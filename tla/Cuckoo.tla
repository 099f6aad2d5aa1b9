------------------------------- MODULE Cuckoo -------------------------------
(***************************************************************************)
(* A cuckoo filter: CuckooContainer with standard buckets, alone or inside *)
(* the CuckooContainer that retries, and Filter<Cuckoo>::construct, add    *)
(* and add_partition on top of them.                                       *)
(*                                                                         *)
(* A key has two buckets, each of which follows from the other and the     *)
(* fingerprint alone.  An insertion into two full buckets evicts a random  *)
(* fingerprint, which moves to its other bucket, and so on; after          *)
(* MAX_ITERATION evictions the fingerprint evicted last is lost and the    *)
(* insertion has failed.  With retries, the bytes of a partition that      *)
(* failed are cleared and its keys inserted under another seed.            *)
(*                                                                         *)
(* The hash of a key under a seed is chosen when it is first inserted; the *)
(* random generator may return anything.  The lanes of a vector share      *)
(* nothing until all of them have stopped, so one is followed after        *)
(* another.  The partitions lie one behind the other in one array.         *)
(***************************************************************************)
EXTENDS Integers, FiniteSets, FiniteSetsExt, Arithmetic

CONSTANTS
  Configs,         \* template and constructor arguments
  HashValues,      \* [address, fingerprint]: address bits, and k bits that may be 0
  Size(_, _),      \* Size(mode, n): buckets for n asked for
  Address(_, _, _),         \* Address(mode, n, bits)
  Alternative(_, _, _, _),  \* Alternative(mode, n, address, fingerprint)
  BucketCounts,    \* numbers of buckets an addresser may be asked for, for keys
  RegisterBuckets, \* buckets in a register, to which partitions are aligned
  MAX_ITERATION,   \* evictions of an insertion before it gives up
  NSeeds,          \* hash::n_seeds()
  Null             \* no value

ASSUME IterationAssumption == MAX_ITERATION \in Nat \ {0}
ASSUME SeedsAssumption == NSeeds \in Nat
ASSUME RegisterAssumption == RegisterBuckets \in Nat \ {0}
ASSUME HashAssumption == \A h \in HashValues : h.fingerprint \in Nat

(* The buckets asked for, for n keys: one slot for each key scaled by s    *)
(* per cent, in whole buckets.                                             *)
Asked(c, n) == ((n * c.s) \div 100 + c.associativity - 1) \div c.associativity

(* supports_add: one key at a time, and no retries.                        *)
ASSUME ConfigAssumption ==
  \A c \in Configs :
    /\ Cardinality(DOMAIN c.histogram) \in Nat \ {0}
    /\ c.histogram \in [0 .. Cardinality(DOMAIN c.histogram) - 1 -> Nat]
    /\ c.associativity \in Nat \ {0} /\ c.s \in Nat /\ c.lanes \in Nat \ {0}
    /\ {c.optimal, c.add, c.retry, c.multiThreading} \subseteq BOOLEAN
    /\ c.add => ~c.retry /\ c.lanes = 1

(* What an addresser may be asked for; its addresses lie in the buckets it *)
(* gives.                                                                  *)
ASSUME AddresserAssumption ==
  \A c \in Configs :
    /\ \A p \in DOMAIN c.histogram :
         /\ Size(c.mode, Asked(c, c.histogram[p])) \in Nat
         /\ c.histogram[p] > 0 => Asked(c, c.histogram[p]) \in BucketCounts
    /\ \A n \in BucketCounts, h \in HashValues :
         Address(c.mode, n, h.address) \in 0 .. Size(c.mode, n) - 1

ASSUME NullAssumption ==
  /\ Null \notin [fingerprint : Nat, address : Nat]
  /\ Null \notin [fingerprint : Nat, address : Nat, seed : Nat]

VARIABLES
  config,     \* the configuration of this filter
  pc,         \* where construct is; "idle" between calls of add
  todo,       \* first partitions of the groups that wait for their task
  group,      \* first partition of the group, one partition for each lane
  index,      \* the partition that is being filled
  begin,      \* how many of its keys were inserted
  failed,     \* the lanes of the group that failed
  attempt,    \* seeds tried by _construct_fallback
  hand,       \* the fingerprint on its way, and the bucket it goes to
  tries,      \* 0 for the first bucket, then one more for every eviction
  hash,       \* fingerprint, first bucket and seed of each key inserted
  filter,     \* the buckets of all partitions; 0 is an empty slot
  seeds,      \* seeds[p]: 0, or j+1 for single_seed(j)
  n_retries,  \* as counted by the container
  success,    \* what construct returns
  dropped     \* history: fingerprints lost by failed insertions

loopVars == <<todo, group, success>>
insertVars == <<hand, tries, hash, filter, dropped>>
retryVars == <<attempt, seeds, n_retries>>
vars == <<config, pc, loopVars, index, begin, failed, insertVars, retryVars>>

Partitions == DOMAIN config.histogram
KeysOf(p) == {<<p, i>> : i \in 0 .. config.histogram[p] - 1}
AllKeys == UNION {KeysOf(p) : p \in Partitions}
Slots == 0 .. config.associativity - 1

(* The buckets asked for and given to a partition.                         *)
buckets(p) == Asked(config, config.histogram[p])
size(p) == Size(config.mode, buckets(p))

(* The space of a partition: whole registers, and one more to keep writes  *)
(* of two registers apart, unless fingerprints have an optimal size.       *)
Aligned(n) == ((n + RegisterBuckets - 1) \div RegisterBuckets) * RegisterBuckets
Space(p) == Aligned(size(p)) + (IF config.optimal THEN 0 ELSE RegisterBuckets)

offset(p) == SumBelow([q \in Partitions |-> Space(q)], p)
n_bytes == SumBelow([q \in Partitions |-> Space(q)], Cardinality(Partitions))

Empty == [b \in 0 .. n_bytes - 1 |-> [i \in Slots |-> 0]]

Init ==
  /\ config \in Configs
  /\ pc = (IF config.add THEN "idle" ELSE "next")
  /\ todo = {p \in Partitions : p % config.lanes = 0}
  /\ group = 0 /\ index = 0 /\ begin = 0
  /\ failed = {}
  /\ attempt = 0
  /\ hand = Null
  /\ tries = 0
  /\ hash = [x \in AllKeys |-> Null]
  /\ filter = Empty
  /\ seeds = [p \in Partitions |-> 0]
  /\ n_retries = 0
  /\ success = TRUE
  /\ dropped = [p \in Partitions |-> 0]

-----------------------------------------------------------------------------
(* insert *)

address(p, bits) == Address(config.mode, buckets(p), bits)
alternative(p, a, f) == Alternative(config.mode, buckets(p), a, f)
bucket(p, a) == filter[offset(p) + a]
Free(p, a) == {i \in Slots : bucket(p, a)[i] = 0}

(* Faulty variant: the fingerprint 0 is stored as it is.                   *)
cuckoo_fingerprint_plain(f) == f

(* 0 marks a free slot.                                                    *)
cuckoo_fingerprint(f) == IF f = 0 THEN 1 ELSE f

(* The key of hash value h is about to enter its first bucket.             *)
StartInsert(x, h, seed) ==
  LET f == cuckoo_fingerprint(h.fingerprint)
      a == address(x[1], h.address)
  IN  /\ hash' = [hash EXCEPT ![x] = [fingerprint |-> f, address |-> a, seed |-> seed]]
      /\ hand' = [fingerprint |-> f, address |-> a]
      /\ tries' = 0

Filling == pc \in {"first", "again", "adding"}

(* bucket_insert finds a free slot: the first one.                         *)
Place ==
  /\ Filling /\ hand # Null
  /\ tries <= MAX_ITERATION
  /\ Free(index, hand.address) # {}
  /\ filter' = [filter EXCEPT ![offset(index) + hand.address]
                              [Min(Free(index, hand.address))] = hand.fingerprint]
  /\ hand' = Null
  /\ begin' = begin + 1
  /\ pc' = IF pc = "adding" THEN "idle" ELSE pc
  /\ UNCHANGED <<config, loopVars, index, failed, tries, hash, dropped, retryVars>>

(* The first bucket is full.                                               *)
SecondBucket ==
  /\ Filling /\ hand # Null
  /\ tries = 0
  /\ Free(index, hand.address) = {}
  /\ hand' = [hand EXCEPT !.address = alternative(index, @, hand.fingerprint)]
  /\ tries' = 1
  /\ UNCHANGED <<config, pc, loopVars, index, begin, failed, hash, filter, dropped, retryVars>>

(* Faulty variant: the other bucket is that of the new fingerprint.        *)
EvictedToOwn(victim) ==
  [fingerprint |-> victim, address |-> alternative(index, hand.address, hand.fingerprint)]

(* Faulty variant: the fingerprint stays in hand, not the victim.          *)
EvictedStays(victim) ==
  [fingerprint |-> hand.fingerprint,
   address     |-> alternative(index, hand.address, hand.fingerprint)]

(* The fingerprint that had to leave, on its way to its other bucket.      *)
Evicted(victim) ==
  [fingerprint |-> victim, address |-> alternative(index, hand.address, victim)]

Evict ==
  /\ Filling /\ hand # Null
  /\ tries \in 1..MAX_ITERATION
  /\ Free(index, hand.address) = {}
  /\ \E i \in Slots :
       /\ filter' = [filter EXCEPT ![offset(index) + hand.address][i] = hand.fingerprint]
       /\ hand' = Evicted(bucket(index, hand.address)[i])
  /\ UNCHANGED <<config, pc, loopVars, index, begin, failed, hash, dropped, retryVars>>

(* Faulty variant: the loop does not count.                                *)
evict_uncounted == Evict /\ UNCHANGED tries

(* A random fingerprint makes room.                                        *)
evict_victim == Evict /\ tries' = tries + 1

(* insert returns false; what was evicted last is nowhere any more.        *)
Lose ==
  /\ Filling /\ hand # Null
  /\ tries = MAX_ITERATION + 1
  /\ hand' = Null
  /\ dropped' = [dropped EXCEPT ![index] = @ + 1]
  /\ UNCHANGED <<config, todo, group, index, begin, tries, hash, filter, seeds, n_retries>>

-----------------------------------------------------------------------------
(* CuckooContainer::construct: the keys of each lane, until one fails.     *)

Lanes == {p \in Partitions : group <= p /\ p < group + config.lanes}

StartGroup(g) ==
  /\ todo' = todo \ {g}
  /\ group' = g
  /\ index' = g
  /\ begin' = 0
  /\ failed' = {}
  /\ pc' = "first"

(* The loop over the groups: one after another until one fails, or each by *)
(* a task, whatever becomes of the others.                                 *)
NextGroup ==
  /\ pc = "next"
  /\ \E g \in todo :
       /\ config.multiThreading \/ (success /\ g = Min(todo))
       /\ StartGroup(g)
  /\ UNCHANGED <<config, success, insertVars, retryVars>>

Finished ==
  /\ pc = "next"
  /\ todo = {} \/ (~config.multiThreading /\ ~success)
  /\ pc' = "done"
  /\ UNCHANGED <<config, loopVars, index, begin, failed, insertVars, retryVars>>

NextKey ==
  /\ pc = "first" /\ hand = Null
  /\ index \notin failed
  /\ begin < config.histogram[index]
  /\ \E h \in HashValues : StartInsert(<<index, begin>>, h, 0)
  /\ UNCHANGED <<config, pc, loopVars, index, begin, failed, filter, dropped, retryVars>>

LaneFails ==
  /\ pc = "first"
  /\ Lose
  /\ failed' = failed \cup {index}
  /\ UNCHANGED <<pc, success, attempt>>

LaneEnds == index \in failed \/ (hand = Null /\ begin = config.histogram[index])

NextLane ==
  /\ pc = "first" /\ LaneEnds
  /\ index + 1 \in Lanes
  /\ index' = index + 1
  /\ begin' = 0
  /\ UNCHANGED <<config, pc, loopVars, failed, insertVars, retryVars>>

(* Where a group returns to: the loop of construct, or the caller.         *)
Return == pc' = IF config.add THEN "idle" ELSE "next"

(* All lanes have stopped: the group is done, or the retries begin.        *)
AllLanes ==
  /\ pc = "first" /\ LaneEnds
  /\ index + 1 \notin Lanes
  /\ IF failed # {} /\ config.retry
     THEN /\ pc' = "retry"
          /\ index' = Min(failed)
          /\ attempt' = 0
          /\ UNCHANGED success
     ELSE /\ Return
          /\ success' = (success /\ failed = {})
          /\ UNCHANGED <<index, attempt>>
  /\ UNCHANGED <<config, todo, group, begin, failed, insertVars, seeds, n_retries>>

-----------------------------------------------------------------------------
(* _construct_fallback *)

(* Faulty variant: the bytes up to the end of the filter.                  *)
ClearedToEnd == {b \in DOMAIN filter : b >= offset(index)}

(* The bytes from this partition up to the next.                           *)
Cleared == {b \in DOMAIN filter : offset(index) <= b /\ b < offset(index) + Space(index)}

NextSeed ==
  /\ pc = "retry"
  /\ attempt < NSeeds
  /\ n_retries' = n_retries + 1
  /\ filter' = [b \in DOMAIN filter |-> IF b \in Cleared THEN Empty[b] ELSE filter[b]]
  /\ hash' = [x \in AllKeys |-> IF x[1] = index THEN Null ELSE hash[x]]
  /\ dropped' = [dropped EXCEPT ![index] = 0]
  /\ attempt' = attempt + 1
  /\ begin' = 0
  /\ pc' = "again"
  /\ UNCHANGED <<config, loopVars, index, failed, hand, tries, seeds>>

NextKeyAgain ==
  /\ pc = "again" /\ hand = Null
  /\ begin < config.histogram[index]
  /\ \E h \in HashValues : StartInsert(<<index, begin>>, h, attempt)
  /\ UNCHANGED <<config, pc, loopVars, index, begin, failed, filter, dropped, retryVars>>

(* All keys have found a place under the new seed; the next failed lane.   *)
Built ==
  /\ pc = "again" /\ hand = Null
  /\ begin = config.histogram[index]
  /\ seeds' = [seeds EXCEPT ![index] = attempt]
  /\ failed' = failed \ {index}
  /\ IF failed' = {}
     THEN Return /\ UNCHANGED <<index, attempt>>
     ELSE pc' = "retry" /\ index' = Min(failed') /\ attempt' = 0
  /\ UNCHANGED <<config, loopVars, begin, insertVars, n_retries>>

AttemptFails ==
  /\ pc = "again"
  /\ tries = MAX_ITERATION + 1 /\ hand # Null
  /\ hand' = Null
  /\ dropped' = [dropped EXCEPT ![index] = @ + 1]
  /\ seeds' = [seeds EXCEPT ![index] = attempt]
  /\ pc' = "retry"
  /\ UNCHANGED <<config, loopVars, index, begin, failed, tries, hash, filter, attempt, n_retries>>

(* Faulty variant: the last seed is not tried.                             *)
GiveUpEarly ==
  /\ pc = "retry"
  /\ success' = FALSE
  /\ Return
  /\ UNCHANGED <<config, todo, group, index, begin, failed, insertVars, retryVars>>

(* No seed worked: construct returns 0 at once, whatever else has failed.  *)
GiveUp ==
  /\ pc = "retry"
  /\ attempt = NSeeds
  /\ success' = FALSE
  /\ Return
  /\ UNCHANGED <<config, todo, group, index, begin, failed, insertVars, retryVars>>

-----------------------------------------------------------------------------
(* After init: keys and partitions one by one, by the caller.              *)

add(x) ==
  /\ pc = "idle"
  /\ hash[x] = Null
  /\ index' = x[1]
  /\ \E h \in HashValues : StartInsert(x, h, 0)
  /\ pc' = "adding"
  /\ UNCHANGED <<config, loopVars, begin, failed, filter, dropped, retryVars>>

(* add returns false.                                                      *)
AddFails ==
  /\ pc = "adding"
  /\ Lose
  /\ pc' = "idle"
  /\ UNCHANGED <<failed, success, attempt>>

(* A partition is added at once, if none of its keys was added before.     *)
add_partition(p) ==
  /\ pc = "idle"
  /\ p \in todo
  /\ \A x \in KeysOf(p) : hash[x] = Null
  /\ StartGroup(p)
  /\ UNCHANGED <<config, success, insertVars, retryVars>>

-----------------------------------------------------------------------------
Insert == Place \/ SecondBucket \/ evict_victim

Work ==
  \/ Insert
  \/ NextGroup \/ Finished
  \/ NextKey \/ LaneFails \/ NextLane \/ AllLanes
  \/ NextSeed \/ NextKeyAgain \/ Built \/ AttemptFails \/ GiveUp
  \/ AddFails

Client == \E p \in Partitions : add_partition(p) \/ \E x \in KeysOf(p) : add(x)

Next == Work \/ Client

Spec == Init /\ [][Next]_vars

(* The thread that builds goes on; nobody has to add anything.             *)
FairSpec == Spec /\ WF_vars(Work)

-----------------------------------------------------------------------------
(* Properties. *)

Begun(p) == {x \in KeysOf(p) : hash[x] # Null}
Fingerprints == {cuckoo_fingerprint(h.fingerprint) : h \in HashValues}

(* The kinds of values; 0 is no fingerprint of a key, and every address    *)
(* lies in its partition.                                                  *)
TypeOK ==
  /\ config \in Configs
  /\ pc \in {"next", "first", "retry", "again", "idle", "adding", "done"}
  /\ todo \subseteq Partitions /\ group \in Partitions /\ index \in Partitions
  /\ begin \in Nat /\ tries \in 0 .. MAX_ITERATION + 1
  /\ failed \subseteq Partitions
  /\ attempt \in 0..NSeeds
  /\ hand = Null \/ /\ hand.fingerprint \in Fingerprints \ {0}
                    /\ hand.address \in 0 .. size(index) - 1
  /\ \A x \in AllKeys : hash[x] # Null =>
       /\ hash[x].fingerprint \in Fingerprints \ {0}
       /\ hash[x].address \in 0 .. size(x[1]) - 1
       /\ hash[x].seed \in 0..NSeeds
  /\ filter \in [0 .. n_bytes - 1 -> [Slots -> Fingerprints \cup {0}]]
  /\ seeds \in [Partitions -> 0..NSeeds]
  /\ n_retries \in Nat
  /\ success \in BOOLEAN
  /\ dropped \in [Partitions -> Nat]

(* From either bucket of a fingerprint the other is computed.              *)
LeadsBack(mode, n, f) ==
  \A a \in 0 .. Size(mode, n) - 1 :
    LET b == Alternative(mode, n, a, f)
    IN  b \in 0 .. Size(mode, n) - 1 /\ Alternative(mode, n, b, f) = a

(* Addressing: the alternatives lead back for every fingerprint and any    *)
(* number of buckets asked for.  Lookups and evictions rely on it.  It     *)
(* does not depend on what is inserted: it is looked at before that.       *)
AlternativesLeadBack ==
  Begun(0) = {} => \A n \in BucketCounts, f \in Fingerprints : LeadsBack(config.mode, n, f)

(* A fingerprint and the two buckets in which it may lie.                  *)
Class(p, f, a) == <<p, f, {a, alternative(p, a, f)}>>

ClassOf(x) == Class(x[1], hash[x].fingerprint, hash[x].address)

(* The slots of a partition that are taken, and the class of each.         *)
Taken(p) == {t \in (0 .. size(p) - 1) \X Slots : bucket(p, t[1])[t[2]] # 0}
ClassIn(p, t) == Class(p, bucket(p, t[1])[t[2]], t[1])

InHand(p) == hand # Null /\ p = index

(* Insertion neither invents nor loses fingerprints, but for the one lost  *)
(* by every insertion that fails: of each class there are at most as many  *)
(* as keys, and all of them together are as many.                          *)
Conserved ==
  \A p \in Partitions :
    /\ Cardinality(Taken(p)) + (IF InHand(p) THEN 1 ELSE 0) + dropped[p]
         = Cardinality(Begun(p))
    /\ \A x \in Begun(p) :
         Cardinality({t \in Taken(p) : ClassIn(p, t) = ClassOf(x)})
           + (IF InHand(p) /\ Class(p, hand.fingerprint, hand.address) = ClassOf(x)
              THEN 1 ELSE 0)
         <= Cardinality({y \in Begun(p) : ClassOf(y) = ClassOf(x)})
    /\ \A t \in Taken(p) : \E x \in Begun(p) : ClassIn(p, t) = ClassOf(x)

(* CuckooContainer::contains                                               *)
contains(x) ==
  /\ hash[x] # Null
  /\ hash[x].seed = seeds[x[1]]
  /\ \E a \in {hash[x].address,
               alternative(x[1], hash[x].address, hash[x].fingerprint)} :
       \E i \in Slots : bucket(x[1], a)[i] = hash[x].fingerprint

(* An insertion that fails may cost an earlier key, but only one: between  *)
(* calls no more of the keys that were inserted are missing than           *)
(* insertions have failed.                                                 *)
LossesReported ==
  pc \in {"idle", "next", "done"} =>
    \A p \in Partitions :
      Cardinality({x \in Begun(p) : ~contains(x)}) <= dropped[p]

(* A construct that reports success leaves no false negative: every key of *)
(* every partition is in the filter, under the seed of its partition, and  *)
(* nothing of it was cleared by the retries of a neighbour.                *)
NoFalseNegatives ==
  pc = "done" /\ success => \A x \in AllKeys : contains(x)

(* construct fails only for a reason: without retries, a partition that    *)
(* has lost a fingerprint, with retries one that has tried every seed.     *)
FailureHasReason ==
  pc = "done" /\ ~success =>
    \E p \in Partitions : dropped[p] = 1 /\ (config.retry => seeds[p] = NSeeds)

(* Every insertion ends, in spite of evictions, and so does construct.     *)
Terminates == []<>(pc \in {"done", "idle"})
=============================================================================
