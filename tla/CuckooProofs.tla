---------------------------- MODULE CuckooProofs ----------------------------
(***************************************************************************)
(* Proofs about Cuckoo for every number of keys, partitions, lanes, slots, *)
(* evictions and seeds, and every addresser whose alternatives lead back:  *)
(* insertions neither invent nor lose fingerprints unless they report it.  *)
(***************************************************************************)
EXTENDS Cuckoo, NaturalLemmas, FiniteSetTheorems, TLAPS

-----------------------------------------------------------------------------
(* The invariant. *)

NPartitions == Cardinality(Partitions)

(* The addresser: what the theorems take for granted. *)
Invertible == \A n \in BucketCounts, f \in Fingerprints : LeadsBack(config.mode, n, f)

Shape ==
  /\ hand \in {Null} \cup [fingerprint : Nat, address : Nat]
  /\ hash \in [AllKeys -> {Null} \cup [fingerprint : Nat, address : Nat, seed : Nat]]

(* The partitions of a group, and those of the group that is being filled. *)
GroupOf(g) == {p \in Partitions : g <= p /\ p < g + config.lanes}
Active == pc \in {"first", "retry", "again"}
Current == IF Active THEN Lanes ELSE {}

(* Partitions whose group waits. *)
Waiting == {p \in Partitions : \E g \in todo : p \in GroupOf(g)}

Untouched(p) == Begun(p) = {} /\ dropped[p] = 0 /\ seeds[p] = 0
Complete(p) == Begun(p) = KeysOf(p) /\ dropped[p] = 0
Failed(p) == dropped[p] = 1 /\ seeds[p] = 0
Hopeless(p) == dropped[p] = 1 /\ (config.retry => seeds[p] = NSeeds)

(* The first keys of the partition have been inserted under the seed, the  *)
(* next one too if a fingerprint is on its way.                            *)
Filled(p, seed) ==
  /\ begin <= config.histogram[p]
  /\ hand # Null => begin < config.histogram[p]
  /\ \A x \in KeysOf(p) : hash[x] # Null <=> x[2] < begin \/ (hand # Null /\ x[2] = begin)
  /\ \A x \in Begun(p) : hash[x].seed = seed

ModeInv ==
  /\ pc \in {"idle", "adding"} => config.add
  /\ pc \in {"next", "done"} => ~config.add
  /\ pc \in {"retry", "again"} => config.retry
  /\ hand # Null => pc \in {"first", "again", "adding"}
  /\ pc = "adding" => hand # Null
  /\ pc = "done" => todo = {} \/ ~success
  /\ group % config.lanes = 0 /\ \A g \in todo : g % config.lanes = 0

(* Where the loops over lanes, keys and seeds are. *)
FillInv ==
  /\ Active => index \in Lanes /\ failed \subseteq Lanes
  /\ pc = "first" =>
       /\ \A p \in failed : p <= index
       /\ \A p \in Lanes : index < p => Untouched(p)
       /\ index \in failed => hand = Null
       /\ index \notin failed => Filled(index, 0) /\ seeds[index] = 0
  /\ pc \in {"retry", "again"} => index \in failed
  /\ pc = "again" => Filled(index, attempt)

(* Every key lies under the seed of its partition, but for the partition   *)
(* that is being filled under a new one.                                   *)
SeedInv ==
  /\ ~config.retry => \A p \in Partitions : seeds[p] = 0
  /\ \A p \in Partitions : ~ (pc = "again" /\ p = index) =>
       \A x \in Begun(p) : hash[x].seed = seeds[p]

(* How far construct is with the groups: those that wait are untouched,    *)
(* those that were built are complete, or one of them is a reason to fail. *)
GroupInv ==
  ~config.add =>
    /\ Active => group \notin todo
    /\ \A p \in Waiting : Untouched(p)
    /\ success => \A p \in Partitions \ (Waiting \cup Current) : Complete(p)
    /\ ~success => \E p \in Partitions \ (Waiting \cup Current) : Hopeless(p)

(* How far it is within a group. *)
LaneInv ==
  ~config.add =>
    /\ pc = "first" =>
         /\ \A p \in Lanes : p < index /\ p \notin failed => Complete(p)
         /\ \A p \in failed : Failed(p)
         /\ index \notin failed => dropped[index] = 0
    /\ pc \in {"retry", "again"} =>
         /\ \A p \in Lanes \ failed : Complete(p)
         /\ \A p \in failed \ {index} : Failed(p)
    /\ pc = "retry" => dropped[index] = 1 /\ seeds[index] = attempt
    /\ pc = "again" => dropped[index] = 0

(* The classes of the slots taken, of the keys begun, and of the           *)
(* fingerprint on its way.                                                 *)
SlotClasses(p) == [t \in Taken(p) |-> ClassIn(p, t)]
KeyClasses(p) == [x \in Begun(p) |-> ClassOf(x)]
HandClasses(p) == IF InHand(p) THEN {Class(p, hand.fingerprint, hand.address)} ELSE {}

Matched(p) == OneEach(SlotClasses(p), KeyClasses(p), HandClasses(p))

Counted(p) ==
  Cardinality(Taken(p)) + Cardinality(HandClasses(p)) + dropped[p] = Cardinality(Begun(p))

MatchInv == \A p \in Partitions : Matched(p) /\ Counted(p)

(* Where construct is, and what it has done so far. *)
LoopInv == ModeInv /\ FillInv /\ SeedInv /\ GroupInv /\ LaneInv

(* All of it. *)
IInv == TypeOK /\ Shape /\ LoopInv /\ MatchInv

-----------------------------------------------------------------------------
(* The configuration and the layout. *)

(* What the configurations have in common. *)
LEMMA ConfigFacts ==
  ASSUME config \in Configs
  PROVE  /\ NPartitions \in Nat \ {0} /\ Partitions = 0 .. NPartitions-1
         /\ config.histogram \in [Partitions -> Nat]
         /\ config.associativity \in Nat \ {0} /\ config.s \in Nat /\ config.lanes \in Nat \ {0}
         /\ config.add \in BOOLEAN /\ config.retry \in BOOLEAN
         /\ config.optimal \in BOOLEAN /\ config.multiThreading \in BOOLEAN
         /\ config.add => ~config.retry /\ config.lanes = 1
<1>1. /\ Cardinality(DOMAIN config.histogram) \in Nat \ {0}
      /\ config.histogram \in [0 .. Cardinality(DOMAIN config.histogram) - 1 -> Nat]
      /\ config.associativity \in Nat \ {0} /\ config.s \in Nat /\ config.lanes \in Nat \ {0}
      /\ {config.optimal, config.add, config.retry, config.multiThreading} \subseteq BOOLEAN
      /\ config.add => ~config.retry /\ config.lanes = 1
  BY ConfigAssumption
<1>2. /\ config.add \in BOOLEAN /\ config.retry \in BOOLEAN
      /\ config.optimal \in BOOLEAN /\ config.multiThreading \in BOOLEAN
  <2>1. PICK S : S = BOOLEAN
    OBVIOUS
  <2>2. {config.optimal, config.add, config.retry, config.multiThreading} \subseteq S
    BY <1>1, <2>1
  <2> QED
    BY <2>1, <2>2, Zenon
<1>3. DOMAIN config.histogram = 0 .. Cardinality(DOMAIN config.histogram) - 1
  BY <1>1
<1> QED
  BY <1>1, <1>2, <1>3 DEF NPartitions, Partitions

(* The space of a partition holds its buckets. *)
LEMMA SizeFacts ==
  ASSUME config \in Configs, NEW p \in Partitions
  PROVE  /\ size(p) \in Nat /\ Space(p) \in Nat /\ size(p) <= Space(p)
         /\ config.histogram[p] \in Nat
         /\ config.histogram[p] > 0 => buckets(p) \in BucketCounts
<1>1. size(p) \in Nat /\ (config.histogram[p] > 0 => buckets(p) \in BucketCounts)
  BY AddresserAssumption DEF size, buckets, Partitions
<1>2. config.histogram[p] \in Nat
  BY ConfigFacts
<1>3. RegisterBuckets \in Nat \ {0}
  BY RegisterAssumption
<1>4. Aligned(size(p)) \in Nat /\ size(p) <= Aligned(size(p))
  <2>1. PICK n \in Nat : n = size(p)
    BY <1>1
  <2>2. n + RegisterBuckets - 1 \in Nat
    BY <1>3
  <2>3. PICK d : d = (n + RegisterBuckets - 1) \div RegisterBuckets
    OBVIOUS
  <2>4. d \in Nat /\ n + RegisterBuckets - 1 < RegisterBuckets * d + RegisterBuckets
    BY <1>3, <2>2, <2>3, Division
  <2>5. RegisterBuckets * d \in Nat /\ d * RegisterBuckets = RegisterBuckets * d
    BY <1>3, <2>4, MultiplesApart
  <2>6. Aligned(n) = d * RegisterBuckets
    BY <2>3 DEF Aligned
  <2> QED
    BY <1>3, <2>1, <2>4, <2>5, <2>6
<1>5. Space(p) \in Nat /\ Aligned(size(p)) <= Space(p)
  BY <1>3, <1>4 DEF Space
<1> QED
  BY <1>1, <1>2, <1>4, <1>5

(* The partitions lie one behind the other. *)
LEMMA Layout ==
  ASSUME config \in Configs
  PROVE  /\ n_bytes \in Nat
         /\ \A p \in Partitions : offset(p) \in Nat /\ offset(p) + Space(p) <= n_bytes
         /\ \A p, q \in Partitions : p < q => offset(p) + Space(p) <= offset(q)
<1>1. PICK f : f = [q \in Partitions |-> Space(q)]
  OBVIOUS
<1>2. NPartitions \in Nat /\ Partitions = 0 .. NPartitions-1
  BY ConfigFacts
<1>3. \A i \in 0 .. NPartitions-1 : f[i] = Space(i) /\ f[i] \in Nat
  BY <1>1, <1>2, SizeFacts
<1>4. /\ \A k \in 0..NPartitions : SumBelow(f, k) \in Nat
      /\ \A j \in 0..NPartitions, k \in 0..NPartitions :
           j < k => SumBelow(f, j) + f[j] <= SumBelow(f, k)
  <2>1. \A k \in 0..NPartitions : SumBelow(f, k) \in Nat
    BY <1>2, <1>3, SumSteps
  <2>2. ASSUME NEW j \in 0..NPartitions, NEW k \in 0..NPartitions, j < k
        PROVE  SumBelow(f, j) + f[j] <= SumBelow(f, k)
    <3>1. k \in j..NPartitions
      BY <1>2, <2>2
    <3> QED
      BY <1>2, <1>3, <2>2, <3>1, SumGrows
  <2> QED
    BY <2>1, <2>2
<1>5. /\ \A p \in Partitions : offset(p) = SumBelow(f, p)
      /\ n_bytes = SumBelow(f, NPartitions)
  BY <1>1 DEF offset, n_bytes, NPartitions
<1>6. \A p \in Partitions : p \in 0..NPartitions /\ p < NPartitions /\ f[p] = Space(p)
  BY <1>2, <1>3
<1>7. NPartitions \in 0..NPartitions
  BY <1>2
<1> QED
  BY <1>4, <1>5, <1>6, <1>7

(* The configuration never changes, and neither does what follows from it. *)
LEMMA ConfigKept ==
  ASSUME config' = config
  PROVE  /\ Partitions' = Partitions /\ AllKeys' = AllKeys /\ Slots' = Slots
         /\ n_bytes' = n_bytes /\ Empty' = Empty
         /\ \A p : /\ KeysOf(p)' = KeysOf(p) /\ buckets(p)' = buckets(p)
                  /\ size(p)' = size(p) /\ Space(p)' = Space(p) /\ offset(p)' = offset(p)
         /\ \A p, a, f : alternative(p, a, f)' = alternative(p, a, f)
         /\ \A p, a, f : Class(p, f, a)' = Class(p, f, a)
<1>1. Partitions' = Partitions /\ Slots' = Slots /\ \A p : KeysOf(p)' = KeysOf(p)
  BY DEF Partitions, Slots, KeysOf
<1>2. AllKeys' = AllKeys
  BY <1>1 DEF AllKeys
<1>3. \A p : buckets(p)' = buckets(p)
  BY DEF buckets
<1>4. \A p : size(p)' = size(p)
  BY <1>3 DEF size
<1>5. \A p : Space(p)' = Space(p)
  BY <1>4 DEF Space
<1>6. [q \in Partitions |-> Space(q)]' = [q \in Partitions |-> Space(q)]
  BY <1>1, <1>5
<1>7. n_bytes' = n_bytes /\ \A p : offset(p)' = offset(p)
  BY <1>1, <1>6 DEF n_bytes, offset
<1>8. Empty' = Empty
  BY <1>1, <1>7 DEF Empty
<1>9. \A p, a, f : alternative(p, a, f)' = alternative(p, a, f)
  BY <1>3 DEF alternative
<1>10. \A p, a, f : Class(p, f, a)' = Class(p, f, a)
  BY <1>9 DEF Class
<1> QED
  BY <1>1, <1>2, <1>3, <1>4, <1>5, <1>7, <1>8, <1>9, <1>10

-----------------------------------------------------------------------------
(* The contents of a partition. *)

Cells(p) == (0 .. size(p) - 1) \X Slots
In(p, t) == bucket(p, t[1])[t[2]]

(* Every slot of a partition lies in the filter and holds a fingerprint or *)
(* 0.                                                                      *)
LEMMA CellFacts ==
  ASSUME TypeOK, NEW p \in Partitions, NEW t \in Cells(p)
  PROVE  /\ t[1] \in 0 .. size(p) - 1 /\ t[1] \in Nat /\ t[2] \in Slots /\ t = <<t[1], t[2]>>
         /\ offset(p) + t[1] \in 0 .. n_bytes - 1
         /\ In(p, t) = filter[offset(p) + t[1]][t[2]]
         /\ In(p, t) \in Fingerprints \cup {0}
<1>1. config \in Configs /\ filter \in [0 .. n_bytes - 1 -> [Slots -> Fingerprints \cup {0}]]
  BY DEF TypeOK
<1>2. /\ size(p) \in Nat /\ Space(p) \in Nat /\ size(p) <= Space(p)
      /\ n_bytes \in Nat /\ offset(p) \in Nat /\ offset(p) + Space(p) <= n_bytes
  BY <1>1, SizeFacts, Layout
<1>3. t[1] \in 0 .. size(p) - 1 /\ t[2] \in Slots /\ t = <<t[1], t[2]>>
  BY DEF Cells
<1>4. offset(p) + t[1] \in 0 .. n_bytes - 1 /\ t[1] \in Nat
  BY <1>2, <1>3
<1>5. In(p, t) = filter[offset(p) + t[1]][t[2]]
  BY DEF In, bucket
<1>6. filter[offset(p) + t[1]] \in [Slots -> Fingerprints \cup {0}]
  BY <1>1, <1>4
<1> QED
  BY <1>3, <1>4, <1>5, <1>6

(* Slots of different partitions lie apart, and so do those of one. *)
LEMMA CellsApart ==
  ASSUME TypeOK, NEW p \in Partitions, NEW t \in Cells(p),
         NEW q \in Partitions, NEW u \in Cells(q)
  PROVE  offset(p) + t[1] = offset(q) + u[1] => p = q /\ t[1] = u[1]
<1>1. config \in Configs
  BY DEF TypeOK
<1>2. /\ t[1] \in 0 .. size(p) - 1 /\ u[1] \in 0 .. size(q) - 1
  BY CellFacts
<1>3. /\ size(p) \in Nat /\ Space(p) \in Nat /\ size(p) <= Space(p)
      /\ size(q) \in Nat /\ Space(q) \in Nat /\ size(q) <= Space(q)
  BY <1>1, SizeFacts
<1>4. /\ offset(p) \in Nat /\ offset(q) \in Nat
      /\ p < q => offset(p) + Space(p) <= offset(q)
      /\ q < p => offset(q) + Space(q) <= offset(p)
  BY <1>1, Layout
<1>5. p \in Int /\ q \in Int
  BY <1>1, ConfigFacts
<1>6. p < q \/ q < p \/ p = q
  BY <1>5
<1>7. CASE p < q
  BY <1>2, <1>3, <1>4, <1>5, <1>7
<1>8. CASE q < p
  BY <1>2, <1>3, <1>4, <1>5, <1>8
<1>9. CASE p = q
  BY <1>2, <1>4, <1>9
<1> QED
  BY <1>6, <1>7, <1>8, <1>9

(* A bucket that is written: one slot of one partition changes. *)
LEMMA SlotWritten ==
  ASSUME TypeOK, config' = config, NEW p \in Partitions, NEW a \in 0 .. size(p) - 1,
         NEW i \in Slots, NEW f \in Fingerprints \ {0},
         filter' = [filter EXCEPT ![offset(p) + a][i] = f]
  PROVE  /\ \A q \in Partitions : Cells(q)' = Cells(q)
         /\ \A q \in Partitions : \A t \in Cells(q) :
              In(q, t)' = IF q = p /\ t = <<a, i>> THEN f ELSE In(q, t)
         /\ filter' \in [0 .. n_bytes - 1 -> [Slots -> Fingerprints \cup {0}]]
<1>1. \A q : size(q)' = size(q) /\ offset(q)' = offset(q)
  BY ConfigKept
<1>2. \A q \in Partitions : Cells(q)' = Cells(q)
  BY <1>1, ConfigKept DEF Cells
<1>3. <<a, i>> \in Cells(p) /\ <<a, i>>[1] = a /\ <<a, i>>[2] = i
  BY DEF Cells
<1>4. PICK b : b = offset(p) + a
  OBVIOUS
<1>5. b \in 0 .. n_bytes - 1
  BY <1>3, <1>4, CellFacts
<1>6. filter \in [0 .. n_bytes - 1 -> [Slots -> Fingerprints \cup {0}]]
  BY DEF TypeOK
<1>7. PICK new : new = [filter[b] EXCEPT ![i] = f]
  OBVIOUS
<1>8. new \in [Slots -> Fingerprints \cup {0}] /\ filter' = [filter EXCEPT ![b] = new]
  BY <1>4, <1>5, <1>6, <1>7
<1>9. ASSUME NEW q \in Partitions, NEW t \in Cells(q)
      PROVE  In(q, t)' = IF q = p /\ t = <<a, i>> THEN f ELSE In(q, t)
  <2>1. /\ t[2] \in Slots /\ t = <<t[1], t[2]>>
        /\ offset(q) + t[1] \in 0 .. n_bytes - 1
        /\ In(q, t) = filter[offset(q) + t[1]][t[2]]
    BY <1>9, CellFacts
  <2>2. In(q, t)' = filter'[offset(q) + t[1]][t[2]]
    BY <1>1 DEF In, bucket
  <2>3. offset(q) + t[1] = b => q = p /\ t[1] = a
    BY <1>3, <1>4, <1>9, CellsApart
  <2>4. CASE offset(q) + t[1] = b
    <3>1. q = p /\ t[1] = a
      BY <2>3, <2>4
    <3>2. In(q, t)' = new[t[2]]
      BY <1>5, <1>6, <1>8, <2>2, <2>4
    <3>3. new[t[2]] = IF t[2] = i THEN f ELSE filter[b][t[2]]
      BY <1>5, <1>6, <1>7, <2>1
    <3>4. t = <<a, i>> <=> t[2] = i
      BY <2>1, <3>1
    <3> QED
      BY <2>1, <2>4, <3>1, <3>2, <3>3, <3>4
  <2>5. CASE offset(q) + t[1] # b
    <3>1. In(q, t)' = In(q, t)
      BY <1>6, <1>8, <2>1, <2>2, <2>5
    <3>2. ~ (q = p /\ t = <<a, i>>)
      BY <1>3, <1>4, <2>5
    <3> QED
      BY <3>1, <3>2
  <2> QED
    BY <2>4, <2>5
<1>10. filter' \in [0 .. n_bytes - 1 -> [Slots -> Fingerprints \cup {0}]]
  BY <1>6, <1>8
<1> QED
  BY <1>2, <1>9, <1>10

(* A partition that is cleared: its slots are free, the others as before. *)
LEMMA PartitionCleared ==
  ASSUME TypeOK, config' = config, index \in Partitions,
         filter' = [b \in DOMAIN filter |-> IF b \in Cleared THEN Empty[b] ELSE filter[b]]
  PROVE  /\ \A q \in Partitions : Cells(q)' = Cells(q)
         /\ \A q \in Partitions : \A t \in Cells(q) :
              In(q, t)' = IF q = index THEN 0 ELSE In(q, t)
         /\ filter' \in [0 .. n_bytes - 1 -> [Slots -> Fingerprints \cup {0}]]
<1>1. \A q : size(q)' = size(q) /\ offset(q)' = offset(q)
  BY ConfigKept
<1>2. \A q \in Partitions : Cells(q)' = Cells(q)
  BY <1>1, ConfigKept DEF Cells
<1>3. filter \in [0 .. n_bytes - 1 -> [Slots -> Fingerprints \cup {0}]] /\ config \in Configs
  BY DEF TypeOK
<1>4. Empty \in [0 .. n_bytes - 1 -> [Slots -> Fingerprints \cup {0}]]
      /\ \A b \in 0 .. n_bytes - 1, i \in Slots : Empty[b][i] = 0
  BY DEF Empty
<1>5. filter' \in [0 .. n_bytes - 1 -> [Slots -> Fingerprints \cup {0}]]
  BY <1>3, <1>4
<1>6. ASSUME NEW q \in Partitions, NEW t \in Cells(q)
      PROVE  In(q, t)' = IF q = index THEN 0 ELSE In(q, t)
  <2>1. /\ t[1] \in 0 .. size(q) - 1 /\ t[2] \in Slots
        /\ offset(q) + t[1] \in 0 .. n_bytes - 1
        /\ In(q, t) = filter[offset(q) + t[1]][t[2]]
    BY <1>6, CellFacts
  <2>2. In(q, t)' = filter'[offset(q) + t[1]][t[2]]
    BY <1>1 DEF In, bucket
  <2>3. /\ size(q) \in Nat /\ Space(q) \in Nat /\ size(q) <= Space(q)
        /\ offset(q) \in Nat /\ offset(index) \in Nat /\ Space(index) \in Nat
    BY <1>3, SizeFacts, Layout
  <2>4. offset(q) + t[1] \in Cleared <=> q = index
    <3>1. ASSUME q = index PROVE offset(q) + t[1] \in Cleared
      BY <1>3, <2>1, <2>3, <3>1 DEF Cleared
    <3>2. ASSUME offset(q) + t[1] \in Cleared, q # index PROVE FALSE
      <4>1. offset(index) <= offset(q) + t[1] /\ offset(q) + t[1] < offset(index) + Space(index)
        BY <3>2 DEF Cleared
      <4>2. offset(q) <= offset(q) + t[1] /\ offset(q) + t[1] < offset(q) + Space(q)
        BY <2>1, <2>3
      <4>3. q \in Int /\ index \in Int
        BY <1>3, ConfigFacts
      <4>4. /\ q < index => offset(q) + Space(q) <= offset(index)
            /\ index < q => offset(index) + Space(index) <= offset(q)
        BY <1>3, Layout
      <4> QED
        BY <2>1, <2>3, <3>2, <4>1, <4>2, <4>3, <4>4
    <3> QED
      BY <3>1, <3>2
  <2> QED
    BY <1>3, <1>4, <2>1, <2>2, <2>4
<1> QED
  BY <1>2, <1>5, <1>6

-----------------------------------------------------------------------------
(* What changes the filter keeps every fingerprint matched. *)

(* The keys of a partition and its slots are finitely many. *)
LEMMA FiniteParts ==
  ASSUME config \in Configs, NEW p \in Partitions
  PROVE  /\ IsFiniteSet(KeysOf(p)) /\ IsFiniteSet(Begun(p))
         /\ IsFiniteSet(Cells(p)) /\ IsFiniteSet(Taken(p))
<1>1. PICK n \in Nat : n = config.histogram[p]
  BY SizeFacts
<1>2. KeysOf(p) = {p} \X (0 .. n-1)
  BY <1>1 DEF KeysOf
<1>3. IsFiniteSet(0 .. n-1) /\ IsFiniteSet({p})
  <2>1. IsFiniteSet(0 .. n-1)
    BY FS_Interval
  <2> QED
    BY <2>1, FS_Singleton
<1>4. IsFiniteSet(KeysOf(p))
  BY <1>2, <1>3, FS_Product
<1>5. PICK m \in Nat : m = size(p)
  BY SizeFacts
<1>6. PICK a \in Nat : a = config.associativity
  BY ConfigFacts
<1>7. IsFiniteSet(0 .. m-1) /\ IsFiniteSet(0 .. a-1)
  BY FS_Interval
<1>8. IsFiniteSet(Cells(p))
  BY <1>5, <1>6, <1>7, FS_Product DEF Cells, Slots
<1>9. Begun(p) \in SUBSET KeysOf(p) /\ Taken(p) \in SUBSET Cells(p)
  BY DEF Begun, Taken, Cells
<1> QED
  BY <1>4, <1>8, <1>9, FS_Subset

(* The keys of a partition are pairs with the partition. *)
LEMMA KeyFacts ==
  ASSUME NEW p, NEW x \in KeysOf(p)
  PROVE  x[1] = p /\ x[2] \in 0 .. config.histogram[p] - 1 /\ x = <<p, x[2]>>
BY DEF KeysOf

(* Taken slots, read slot by slot. *)
LEMMA TakenSlots ==
  ASSUME NEW p
  PROVE  /\ Taken(p) = {t \in Cells(p) : In(p, t) # 0}
         /\ DOMAIN SlotClasses(p) = Taken(p) /\ DOMAIN KeyClasses(p) = Begun(p)
         /\ \A t \in Taken(p) : SlotClasses(p)[t] = Class(p, In(p, t), t[1])
         /\ \A x \in Begun(p) :
              KeyClasses(p)[x] = Class(p, hash[x].fingerprint, hash[x].address)
<1>1. \A x \in Begun(p) : x[1] = p
  BY KeyFacts DEF Begun
<1> QED
  BY <1>1 DEF Taken, Cells, In, SlotClasses, KeyClasses, ClassIn, ClassOf

(* A partition whose slots and keys nobody touches. *)
LEMMA SlotsKept ==
  ASSUME config' = config, NEW p, Cells(p)' = Cells(p),
         \A t \in Cells(p) : In(p, t)' = In(p, t)
  PROVE  SlotClasses(p)' = SlotClasses(p)
<1>1. Taken(p)' = Taken(p)
  <2>1. Taken(p)' = {t \in Cells(p)' : In(p, t)' # 0}
    BY TakenSlots, Zenon DEF Taken, Cells, In
  <2> QED
    BY <2>1, TakenSlots
<1>2. \A t \in Taken(p) : ClassIn(p, t)' = ClassIn(p, t)
  <2>1. buckets(p)' = buckets(p)
    BY ConfigKept
  <2>2. \A t \in Taken(p) : In(p, t)' = In(p, t)
    BY TakenSlots
  <2> QED
    BY <2>1, <2>2 DEF ClassIn, Class, alternative, In
<1> QED
  BY <1>1, <1>2 DEF SlotClasses

(* A partition whose keys are what they were. *)
LEMMA KeysKept ==
  ASSUME config' = config, NEW p, \A x \in KeysOf(p) : hash'[x] = hash[x]
  PROVE  KeyClasses(p)' = KeyClasses(p) /\ Begun(p)' = Begun(p)
<1>1. KeysOf(p)' = KeysOf(p)
  BY ConfigKept
<1>2. Begun(p)' = Begun(p)
  BY <1>1 DEF Begun
<1>3. \A x \in Begun(p) : ClassOf(x)' = ClassOf(x)
  BY ConfigKept DEF ClassOf, Begun
<1> QED
  BY <1>2, <1>3 DEF KeyClasses

(* Then its fingerprints match its keys as before. *)
LEMMA MatchKept ==
  ASSUME NEW p, Matched(p), Counted(p), SlotClasses(p)' = SlotClasses(p),
         KeyClasses(p)' = KeyClasses(p), HandClasses(p)' = HandClasses(p),
         dropped'[p] = dropped[p]
  PROVE  Matched(p)' /\ Counted(p)'
<1>1. /\ Taken(p) = DOMAIN SlotClasses(p) /\ Begun(p) = DOMAIN KeyClasses(p)
      /\ Taken(p)' = DOMAIN (SlotClasses(p)') /\ Begun(p)' = DOMAIN (KeyClasses(p)')
  BY DEF SlotClasses, KeyClasses
<1> QED
  BY <1>1 DEF Matched, Counted

(* Nothing is in hand. *)
LEMMA NothingInHand ==
  ASSUME hand = Null, NEW p
  PROVE  HandClasses(p) = {}
BY DEF HandClasses, InHand

(* Steps of the loops. *)
LEMMA LoopsKeepMatch ==
  ASSUME MatchInv, config' = config, UNCHANGED <<filter, hash, dropped, hand>>,
         hand = Null \/ index' = index
  PROVE  MatchInv'
<1>1. Partitions' = Partitions
  BY ConfigKept
<1>2. ASSUME NEW p \in Partitions PROVE Matched(p)' /\ Counted(p)'
  <2>1. Cells(p)' = Cells(p) /\ \A t \in Cells(p) : In(p, t)' = In(p, t)
    BY ConfigKept DEF Cells, In, bucket
  <2>2. SlotClasses(p)' = SlotClasses(p)
    BY <2>1, SlotsKept
  <2>3. KeyClasses(p)' = KeyClasses(p)
    BY KeysKept
  <2>4. HandClasses(p)' = HandClasses(p)
    <3>1. CASE hand = Null
      BY <3>1 DEF HandClasses, InHand
    <3>2. CASE index' = index
      <4>1. Class(p, hand.fingerprint, hand.address)' = Class(p, hand.fingerprint, hand.address)
        BY ConfigKept
      <4> QED
        BY <3>2, <4>1 DEF HandClasses, InHand
    <3> QED
      BY <3>1, <3>2
  <2> QED
    BY <1>2, <2>2, <2>3, <2>4, MatchKept DEF MatchInv
<1> QED
  BY <1>1, <1>2 DEF MatchInv

(* A key that enters: its fingerprint is in hand. *)
LEMMA StartKeepsMatch ==
  ASSUME MatchInv, TypeOK, Shape, config' = config, UNCHANGED <<filter, dropped>>, hand = Null,
         NEW x \in AllKeys, hash[x] = Null, index' = x[1],
         NEW h \in HashValues, NEW seed \in Nat, StartInsert(x, h, seed),
         hand' # Null, hash'[x] # Null
  PROVE  MatchInv'
<1>1. /\ config \in Configs /\ Partitions' = Partitions
      /\ \A q : KeysOf(q)' = KeysOf(q)
  BY ConfigKept DEF TypeOK
<1>2. PICK p \in Partitions : x \in KeysOf(p)
  BY DEF AllKeys
<1>3. x[1] = p
  BY <1>2, KeyFacts
<1>4. ASSUME NEW q \in Partitions
      PROVE  /\ SlotClasses(q)' = SlotClasses(q) /\ Taken(q)' = Taken(q)
             /\ Matched(q) /\ Counted(q)
  <2>1. Cells(q)' = Cells(q) /\ \A t \in Cells(q) : In(q, t)' = In(q, t)
    BY ConfigKept DEF Cells, In, bucket
  <2>2. SlotClasses(q)' = SlotClasses(q)
    BY <2>1, SlotsKept
  <2>3. Taken(q) = DOMAIN SlotClasses(q) /\ Taken(q)' = DOMAIN (SlotClasses(q)')
    BY DEF SlotClasses
  <2> QED
    BY <1>4, <2>2, <2>3 DEF MatchInv
<1>5. \A y \in AllKeys : y # x => hash'[y] = hash[y]
  BY DEF StartInsert, Shape
<1>6. ASSUME NEW q \in Partitions, q # p PROVE Matched(q)' /\ Counted(q)'
  <2>1. \A y \in KeysOf(q) : hash'[y] = hash[y]
    BY <1>3, <1>5, <1>6, KeyFacts DEF AllKeys
  <2>2. KeyClasses(q)' = KeyClasses(q)
    BY <2>1, KeysKept
  <2>3. HandClasses(q)' = {} /\ HandClasses(q) = {}
    BY <1>3, <1>6 DEF HandClasses, InHand
  <2> QED
    BY <1>4, <1>6, <2>2, <2>3, MatchKept
<1>7. /\ Begun(p)' = Begun(p) \cup {x} /\ x \notin Begun(p)
  <2>1. \A y \in KeysOf(p) : hash'[y] # Null <=> hash[y] # Null \/ y = x
    BY <1>5 DEF AllKeys
  <2> QED
    BY <1>1, <1>2, <2>1 DEF Begun
<1>8. \A y \in Begun(p) : KeyClasses(p)'[y] = KeyClasses(p)[y]
  <2>1. ASSUME NEW y \in Begun(p) PROVE KeyClasses(p)'[y] = KeyClasses(p)[y]
    <3>1. hash'[y] = hash[y] /\ y \in Begun(p)'
      BY <1>5, <1>7, <2>1 DEF Begun, AllKeys
    <3>2. KeyClasses(p)[y] = ClassOf(y) /\ KeyClasses(p)'[y] = ClassOf(y)'
      BY <2>1, <3>1 DEF KeyClasses
    <3>3. ClassOf(y)' = ClassOf(y)
      BY <3>1, ConfigKept DEF ClassOf
    <3> QED
      BY <3>2, <3>3
  <2> QED
    BY <2>1
<1>9. HandClasses(p)' = {KeyClasses(p)'[x]} /\ HandClasses(p) = {}
  <2>1. KeyClasses(p)'[x] = ClassOf(x)'
    BY <1>7 DEF KeyClasses
  <2>2. hash'[x].fingerprint = hand'.fingerprint /\ hash'[x].address = hand'.address
    BY DEF StartInsert, Shape
  <2>3. HandClasses(p)' = {Class(p, hand.fingerprint, hand.address)'}
    BY <1>3 DEF HandClasses, InHand
  <2>4. ClassOf(x)' = Class(p, hand.fingerprint, hand.address)'
    BY <1>3, <2>2 DEF ClassOf, Class, alternative
  <2> QED
    BY <2>1, <2>3, <2>4 DEF HandClasses, InHand
<1>10. Matched(p)'
  <2>1. OneEach(SlotClasses(p), KeyClasses(p), {})
    BY <1>4, <1>9 DEF Matched
  <2>2. /\ DOMAIN KeyClasses(p) = Begun(p)
        /\ DOMAIN (KeyClasses(p)') = Begun(p) \cup {x}
    BY <1>7 DEF KeyClasses
  <2>3. OneEach(SlotClasses(p), KeyClasses(p)', {KeyClasses(p)'[x]})
    BY <1>7, <1>8, <2>1, <2>2, MatchInsert
  <2> QED
    BY <1>4, <1>9, <2>3 DEF Matched
<1>11. Counted(p)'
  <2>1. IsFiniteSet(Begun(p)) /\ IsFiniteSet(Taken(p))
    BY <1>1, FiniteParts
  <2>2. Cardinality(Begun(p)') = Cardinality(Begun(p)) + 1
    BY <1>7, <2>1, FS_AddElement
  <2>3. Cardinality(HandClasses(p)') = 1 /\ Cardinality(HandClasses(p)) = 0
    BY <1>9, FS_Singleton, FS_EmptySet
  <2>4. Cardinality(Taken(p)) \in Nat /\ Cardinality(Begun(p)) \in Nat /\ dropped[p] \in Nat
    BY <2>1, FS_CardinalityType DEF TypeOK
  <2> QED
    BY <1>4, <2>2, <2>3, <2>4 DEF Counted
<1> QED
  BY <1>1, <1>6, <1>10, <1>11 DEF MatchInv

(* The least element of a set of naturals. *)
LEMMA MinIsLeast ==
  ASSUME NEW S, S \subseteq Nat, S # {}
  PROVE  Min(S) \in S /\ \A n \in S : Min(S) <= n
BY LeastNat DEF Min

(* What is in hand is a fingerprint on its way to a bucket of the          *)
(* partition, which has buckets then.                                      *)
LEMMA HandFacts ==
  ASSUME TypeOK, Shape, hand # Null
  PROVE  /\ hand \in [fingerprint : Nat, address : Nat]
         /\ hand.fingerprint \in Fingerprints \ {0}
         /\ hand.address \in 0 .. size(index) - 1
         /\ index \in Partitions /\ config \in Configs
BY DEF TypeOK, Shape

(* Partitions that a step does not concern. *)
LEMMA OthersKeepMatch ==
  ASSUME MatchInv, config' = config, NEW p, NEW q \in Partitions, p # q,
         index = p, index' = p, \A x \in KeysOf(q) : hash'[x] = hash[x],
         Cells(q)' = Cells(q), \A t \in Cells(q) : In(q, t)' = In(q, t),
         dropped'[q] = dropped[q]
  PROVE  Matched(q)' /\ Counted(q)'
<1>1. SlotClasses(q)' = SlotClasses(q)
  BY SlotsKept
<1>2. KeyClasses(q)' = KeyClasses(q)
  BY KeysKept
<1>3. HandClasses(q)' = {} /\ HandClasses(q) = {}
  BY DEF HandClasses, InHand
<1> QED
  BY <1>1, <1>2, <1>3, MatchKept DEF MatchInv

(* A free slot takes what is in hand. *)
LEMMA PlaceKeepsMatch ==
  ASSUME MatchInv, TypeOK, Shape, Place
  PROVE  MatchInv' /\ filter' \in [0 .. n_bytes - 1 -> [Slots -> Fingerprints \cup {0}]]
<1>1. PICK p, a, f, i : p = index /\ a = hand.address /\ f = hand.fingerprint
                        /\ i = Min(Free(index, hand.address))
  OBVIOUS
<1>2. /\ p \in Partitions /\ a \in 0 .. size(p) - 1 /\ f \in Fingerprints \ {0}
      /\ config \in Configs /\ config' = config /\ Partitions' = Partitions
      /\ index' = index /\ hash' = hash /\ dropped' = dropped /\ hand # Null /\ hand' = Null
      /\ filter' = [filter EXCEPT ![offset(p) + a][i] = f]
  BY <1>1, HandFacts, ConfigKept DEF Place
<1>3. i \in Slots /\ bucket(p, a)[i] = 0
  <2>1. Free(p, a) \subseteq Nat /\ Free(p, a) # {}
    BY <1>1, <1>2, ConfigFacts DEF Free, Slots, Place
  <2> QED
    BY <1>1, <2>1, MinIsLeast DEF Free
<1>4. PICK t : t = <<a, i>>
  OBVIOUS
<1>5. t \in Cells(p) /\ In(p, t) = 0 /\ t[1] = a
  BY <1>2, <1>3, <1>4 DEF Cells, In
<1>6. /\ \A q \in Partitions : Cells(q)' = Cells(q)
      /\ \A q \in Partitions : \A u \in Cells(q) :
           In(q, u)' = IF q = p /\ u = t THEN f ELSE In(q, u)
      /\ filter' \in [0 .. n_bytes - 1 -> [Slots -> Fingerprints \cup {0}]]
  <2>1. /\ \A q \in Partitions : Cells(q)' = Cells(q)
        /\ \A q \in Partitions : \A u \in Cells(q) :
             In(q, u)' = IF q = p /\ u = <<a, i>> THEN f ELSE In(q, u)
        /\ filter' \in [0 .. n_bytes - 1 -> [Slots -> Fingerprints \cup {0}]]
    BY <1>2, <1>3, SlotWritten
  <2> QED
    BY <1>4, <2>1
<1>7. ASSUME NEW q \in Partitions, q # p PROVE Matched(q)' /\ Counted(q)'
  BY <1>1, <1>2, <1>6, <1>7, OthersKeepMatch
<1>8. Taken(p)' = Taken(p) \cup {t} /\ t \notin Taken(p)
  <2>1. Taken(p)' = {u \in Cells(p)' : In(p, u)' # 0}
    BY DEF Taken, Cells, In
  <2>2. f # 0
    BY <1>2
  <2> QED
    BY <1>2, <1>5, <1>6, <2>1, <2>2, TakenSlots
<1>9. /\ SlotClasses(p)'[t] = Class(p, f, a)
      /\ \A u \in Taken(p) : SlotClasses(p)'[u] = SlotClasses(p)[u]
  <2>1. ASSUME NEW u \in Taken(p)'
        PROVE  SlotClasses(p)'[u] = <<p, In(p, u)', {u[1], alternative(p, u[1], In(p, u)')}>>
    <3>1. buckets(p)' = buckets(p)
      BY <1>2, ConfigKept
    <3> QED
      BY <1>2, <3>1 DEF SlotClasses, ClassIn, Class, alternative, In
  <2>2. In(p, t)' = f
    BY <1>2, <1>5, <1>6
  <2>3. ASSUME NEW u \in Taken(p) PROVE SlotClasses(p)'[u] = SlotClasses(p)[u]
    <3>1. In(p, u)' = In(p, u) /\ u \in Taken(p)'
      BY <1>2, <1>6, <1>8, <2>3, TakenSlots
    <3> QED
      BY <2>1, <3>1, TakenSlots DEF Class
  <2> QED
    BY <1>5, <1>8, <2>1, <2>2, <2>3 DEF Class
<1>10. HandClasses(p) = {Class(p, f, a)} /\ HandClasses(p)' = {}
  BY <1>1, <1>2 DEF HandClasses, InHand
<1>11. KeyClasses(p)' = KeyClasses(p) /\ Begun(p)' = Begun(p)
  BY <1>2, KeysKept
<1>12. Matched(p)'
  <2>1. OneEach(SlotClasses(p), KeyClasses(p), {Class(p, f, a)})
    BY <1>2, <1>10 DEF Matched, MatchInv
  <2>2. DOMAIN SlotClasses(p) = Taken(p) /\ DOMAIN (SlotClasses(p)') = Taken(p) \cup {t}
    BY <1>8 DEF SlotClasses
  <2>3. OneEach(SlotClasses(p)', KeyClasses(p), {})
    BY <1>8, <1>9, <2>1, <2>2, MatchPlace
  <2> QED
    BY <1>10, <1>11, <2>3 DEF Matched
<1>13. Counted(p)'
  <2>1. IsFiniteSet(Begun(p)) /\ IsFiniteSet(Taken(p))
    BY <1>2, FiniteParts
  <2>2. Cardinality(Taken(p)') = Cardinality(Taken(p)) + 1
    BY <1>8, <2>1, FS_AddElement
  <2>3. Cardinality(HandClasses(p)) = 1 /\ Cardinality(HandClasses(p)') = 0
    BY <1>10, FS_Singleton, FS_EmptySet
  <2>4. Cardinality(Taken(p)) \in Nat /\ Cardinality(Begun(p)) \in Nat /\ dropped[p] \in Nat
    BY <1>2, <2>1, FS_CardinalityType DEF TypeOK
  <2>5. Counted(p)
    BY <1>2 DEF MatchInv
  <2> QED
    BY <1>2, <1>11, <2>2, <2>3, <2>4, <2>5 DEF Counted
<1> QED
  BY <1>2, <1>6, <1>7, <1>12, <1>13 DEF MatchInv

(* The other bucket of a fingerprint is of the same class. *)
LEMMA OtherBucket ==
  ASSUME Invertible, config \in Configs, NEW p \in Partitions, buckets(p) \in BucketCounts,
         NEW f \in Fingerprints, NEW a \in 0 .. size(p) - 1
  PROVE  /\ alternative(p, a, f) \in 0 .. size(p) - 1
         /\ Class(p, f, alternative(p, a, f)) = Class(p, f, a)
<1>1. LeadsBack(config.mode, buckets(p), f)
  BY DEF Invertible
<1>2. /\ alternative(p, a, f) \in 0 .. size(p) - 1
      /\ alternative(p, alternative(p, a, f), f) = a
  BY <1>1 DEF LeadsBack, alternative, size
<1> QED
  BY <1>2 DEF Class

(* The second bucket of the fingerprint in hand. *)
LEMMA SecondKeepsMatch ==
  ASSUME MatchInv, TypeOK, Shape, Invertible, SecondBucket, buckets(index) \in BucketCounts
  PROVE  /\ MatchInv'
         /\ hand' \in [fingerprint : Nat, address : Nat]
         /\ hand'.fingerprint \in Fingerprints \ {0} /\ hand'.address \in 0 .. size(index) - 1
<1>1. PICK p, a, f : p = index /\ a = hand.address /\ f = hand.fingerprint
  OBVIOUS
<1>2. /\ p \in Partitions /\ a \in 0 .. size(p) - 1 /\ f \in Fingerprints \ {0}
      /\ config \in Configs /\ config' = config /\ Partitions' = Partitions
      /\ index' = index /\ hash' = hash /\ dropped' = dropped /\ filter' = filter
      /\ hand # Null /\ hand \in [fingerprint : Nat, address : Nat]
      /\ hand' = [hand EXCEPT !.address = alternative(p, a, f)]
  BY <1>1, HandFacts, ConfigKept DEF SecondBucket
<1>3. \A q \in Partitions : Cells(q)' = Cells(q) /\ \A t \in Cells(q) : In(q, t)' = In(q, t)
  BY <1>2, ConfigKept DEF Cells, In, bucket
<1>4. ASSUME NEW q \in Partitions, q # p PROVE Matched(q)' /\ Counted(q)'
  BY <1>1, <1>2, <1>3, <1>4, OthersKeepMatch
<1>5. /\ SlotClasses(p)' = SlotClasses(p) /\ KeyClasses(p)' = KeyClasses(p)
  BY <1>2, <1>3, SlotsKept, KeysKept
<1>6. /\ alternative(p, a, f) \in 0 .. size(p) - 1 /\ size(p) \in Nat
      /\ Class(p, f, alternative(p, a, f)) = Class(p, f, a)
  BY <1>1, <1>2, OtherBucket, SizeFacts
<1>7. hand' \in [fingerprint : Nat, address : Nat] /\ hand'.fingerprint = f
      /\ hand'.address = alternative(p, a, f)
  BY <1>1, <1>2, <1>6
<1>8. hand' # Null
  BY <1>7, NullAssumption
<1>9. HandClasses(p)' = HandClasses(p)
  <2>1. HandClasses(p) = {Class(p, f, a)}
    BY <1>1, <1>2 DEF HandClasses, InHand
  <2>2. buckets(p)' = buckets(p)
    BY <1>2, ConfigKept
  <2>3. HandClasses(p)'
          = {<<p, hand'.fingerprint,
               {hand'.address, alternative(p, hand'.address, hand'.fingerprint)}>>}
    BY <1>1, <1>2, <1>8, <2>2 DEF HandClasses, InHand, Class, alternative
  <2>4. HandClasses(p)' = {Class(p, f, alternative(p, a, f))}
    BY <1>7, <2>3 DEF Class
  <2> QED
    BY <1>6, <2>1, <2>4
<1>10. Matched(p)' /\ Counted(p)'
  BY <1>2, <1>5, <1>9, MatchKept DEF MatchInv
<1> QED
  BY <1>1, <1>2, <1>4, <1>6, <1>7, <1>10 DEF MatchInv

(* A fingerprint that is evicted takes its owner along. *)
LEMMA EvictKeepsMatch ==
  ASSUME MatchInv, TypeOK, Shape, Invertible, Evict, buckets(index) \in BucketCounts
  PROVE  /\ MatchInv'
         /\ hand' \in [fingerprint : Nat, address : Nat]
         /\ hand'.fingerprint \in Fingerprints \ {0} /\ hand'.address \in 0 .. size(index) - 1
         /\ filter' \in [0 .. n_bytes - 1 -> [Slots -> Fingerprints \cup {0}]]
<1>1. PICK p, a, f : p = index /\ a = hand.address /\ f = hand.fingerprint
  OBVIOUS
<1>2. PICK i \in Slots :
        /\ filter' = [filter EXCEPT ![offset(p) + a][i] = f]
        /\ hand' = Evicted(bucket(p, a)[i])
  BY <1>1 DEF Evict
<1>3. /\ p \in Partitions /\ a \in 0 .. size(p) - 1 /\ f \in Fingerprints \ {0}
      /\ config \in Configs /\ config' = config /\ Partitions' = Partitions
      /\ index' = index /\ hash' = hash /\ dropped' = dropped /\ hand # Null
      /\ bucket(p, a)[i] # 0
  BY <1>1, HandFacts, ConfigKept DEF Evict, Free
<1>4. PICK t : t = <<a, i>>
  OBVIOUS
<1>5. PICK v : v = bucket(p, a)[i]
  OBVIOUS
<1>6. t \in Cells(p) /\ In(p, t) = v /\ t[1] = a /\ t \in Taken(p) /\ v \in Fingerprints \ {0}
  <2>1. t \in Cells(p) /\ In(p, t) = v /\ t[1] = a
    BY <1>3, <1>4, <1>5 DEF Cells, In
  <2> QED
    BY <1>3, <1>5, <2>1, CellFacts, TakenSlots
<1>7. /\ \A q \in Partitions : Cells(q)' = Cells(q)
      /\ \A q \in Partitions : \A u \in Cells(q) :
           In(q, u)' = IF q = p /\ u = t THEN f ELSE In(q, u)
      /\ filter' \in [0 .. n_bytes - 1 -> [Slots -> Fingerprints \cup {0}]]
  <2>1. /\ \A q \in Partitions : Cells(q)' = Cells(q)
        /\ \A q \in Partitions : \A u \in Cells(q) :
             In(q, u)' = IF q = p /\ u = <<a, i>> THEN f ELSE In(q, u)
        /\ filter' \in [0 .. n_bytes - 1 -> [Slots -> Fingerprints \cup {0}]]
    BY <1>2, <1>3, SlotWritten
  <2> QED
    BY <1>4, <2>1
<1>8. ASSUME NEW q \in Partitions, q # p PROVE Matched(q)' /\ Counted(q)'
  BY <1>1, <1>3, <1>7, <1>8, OthersKeepMatch
<1>9. Taken(p)' = Taken(p)
  <2>1. Taken(p)' = {u \in Cells(p)' : In(p, u)' # 0}
    BY DEF Taken, Cells, In
  <2>2. f # 0
    BY <1>3
  <2> QED
    BY <1>3, <1>6, <1>7, <2>1, <2>2, TakenSlots
<1>10. /\ SlotClasses(p)'[t] = Class(p, f, a)
       /\ \A u \in Taken(p) \ {t} : SlotClasses(p)'[u] = SlotClasses(p)[u]
  <2>1. ASSUME NEW u \in Taken(p)'
        PROVE  SlotClasses(p)'[u] = <<p, In(p, u)', {u[1], alternative(p, u[1], In(p, u)')}>>
    <3>1. buckets(p)' = buckets(p)
      BY <1>3, ConfigKept
    <3> QED
      BY <1>3, <3>1 DEF SlotClasses, ClassIn, Class, alternative, In
  <2>2. In(p, t)' = f
    BY <1>3, <1>6, <1>7
  <2>3. ASSUME NEW u \in Taken(p) \ {t} PROVE SlotClasses(p)'[u] = SlotClasses(p)[u]
    <3>1. In(p, u)' = In(p, u) /\ u \in Taken(p)'
      BY <1>3, <1>7, <1>9, <2>3, TakenSlots
    <3> QED
      BY <2>1, <2>3, <3>1, TakenSlots DEF Class
  <2> QED
    BY <1>6, <1>9, <2>1, <2>2, <2>3 DEF Class
<1>11. /\ alternative(p, a, v) \in 0 .. size(p) - 1 /\ size(p) \in Nat
       /\ Class(p, v, alternative(p, a, v)) = Class(p, v, a)
  BY <1>1, <1>3, <1>6, OtherBucket, SizeFacts
<1>12. hand' = [fingerprint |-> v, address |-> alternative(p, a, v)]
  BY <1>1, <1>2, <1>5 DEF Evicted
<1>13. /\ hand' \in [fingerprint : Nat, address : Nat] /\ hand' # Null
       /\ hand'.fingerprint = v /\ hand'.address = alternative(p, a, v)
  <2>1. v \in Nat
    BY <1>6, HashAssumption DEF Fingerprints, cuckoo_fingerprint
  <2>2. hand' \in [fingerprint : Nat, address : Nat]
    BY <1>11, <1>12, <2>1
  <2> QED
    BY <1>12, <2>2, NullAssumption
<1>14. HandClasses(p) = {Class(p, f, a)} /\ HandClasses(p)' = {SlotClasses(p)[t]}
  <2>1. HandClasses(p) = {Class(p, f, a)}
    BY <1>1, <1>3 DEF HandClasses, InHand
  <2>2. buckets(p)' = buckets(p)
    BY <1>3, ConfigKept
  <2>3. HandClasses(p)'
          = {<<p, hand'.fingerprint,
               {hand'.address, alternative(p, hand'.address, hand'.fingerprint)}>>}
    BY <1>1, <1>3, <1>13, <2>2 DEF HandClasses, InHand, Class, alternative
  <2>4. HandClasses(p)' = {Class(p, v, alternative(p, a, v))}
    BY <1>13, <2>3 DEF Class
  <2>5. SlotClasses(p)[t] = Class(p, v, a)
    BY <1>6, TakenSlots
  <2> QED
    BY <1>11, <2>1, <2>4, <2>5
<1>15. KeyClasses(p)' = KeyClasses(p) /\ Begun(p)' = Begun(p)
  BY <1>3, KeysKept
<1>16. Matched(p)'
  <2>1. OneEach(SlotClasses(p), KeyClasses(p), {Class(p, f, a)})
    BY <1>3, <1>14 DEF Matched, MatchInv
  <2>2. DOMAIN SlotClasses(p) = Taken(p) /\ DOMAIN (SlotClasses(p)') = Taken(p)
    BY <1>9 DEF SlotClasses
  <2>3. OneEach(SlotClasses(p)', KeyClasses(p), {SlotClasses(p)[t]})
    BY <1>6, <1>10, <2>1, <2>2, MatchEvict
  <2> QED
    BY <1>14, <1>15, <2>3 DEF Matched
<1>17. Counted(p)'
  <2>1. Cardinality(HandClasses(p)) = 1 /\ Cardinality(HandClasses(p)') = 1
    BY <1>14, FS_Singleton
  <2>2. Counted(p)
    BY <1>3 DEF MatchInv
  <2> QED
    BY <1>3, <1>9, <1>15, <2>1, <2>2 DEF Counted
<1> QED
  BY <1>1, <1>3, <1>6, <1>7, <1>8, <1>11, <1>13, <1>16, <1>17 DEF MatchInv

(* An insertion that fails: what was in hand is lost, and it is counted. *)
LEMMA LoseKeepsMatch ==
  ASSUME MatchInv, TypeOK, Shape, hand # Null, hand' = Null, config' = config,
         UNCHANGED <<index, hash, filter>>, dropped' = [dropped EXCEPT ![index] = @ + 1]
  PROVE  MatchInv'
<1>1. PICK p : p = index
  OBVIOUS
<1>2. p \in Partitions /\ config \in Configs /\ Partitions' = Partitions
  BY <1>1, HandFacts, ConfigKept
<1>3. \A q \in Partitions : Cells(q)' = Cells(q) /\ \A t \in Cells(q) : In(q, t)' = In(q, t)
  BY ConfigKept DEF Cells, In, bucket
<1>4. dropped \in [Partitions -> Nat]
  BY DEF TypeOK
<1>5. ASSUME NEW q \in Partitions, q # p PROVE Matched(q)' /\ Counted(q)'
  <2>1. dropped'[q] = dropped[q]
    BY <1>1, <1>4, <1>5
  <2> QED
    BY <1>1, <1>3, <1>5, <2>1, OthersKeepMatch
<1>6. /\ SlotClasses(p)' = SlotClasses(p) /\ KeyClasses(p)' = KeyClasses(p)
      /\ Begun(p)' = Begun(p)
  BY <1>2, <1>3, SlotsKept, KeysKept
<1>7. Taken(p)' = Taken(p)
  <2>1. Taken(p) = DOMAIN SlotClasses(p) /\ Taken(p)' = DOMAIN (SlotClasses(p)')
    BY DEF SlotClasses
  <2> QED
    BY <1>6, <2>1
<1>8. /\ HandClasses(p) = {Class(p, hand.fingerprint, hand.address)}
      /\ HandClasses(p)' = {}
  BY <1>1 DEF HandClasses, InHand
<1>9. Matched(p)'
  <2>1. OneEach(SlotClasses(p), KeyClasses(p), HandClasses(p))
    BY <1>2 DEF Matched, MatchInv
  <2>2. OneEach(SlotClasses(p), KeyClasses(p), {})
    BY <2>1, MatchLose
  <2> QED
    BY <1>6, <1>8, <2>2 DEF Matched
<1>10. Counted(p)'
  <2>1. Cardinality(HandClasses(p)) = 1 /\ Cardinality(HandClasses(p)') = 0
    BY <1>8, FS_Singleton, FS_EmptySet
  <2>2. dropped'[p] = dropped[p] + 1 /\ dropped[p] \in Nat
    BY <1>1, <1>2, <1>4
  <2>3. Counted(p)
    BY <1>2 DEF MatchInv
  <2>4. Cardinality(Taken(p)) \in Nat
    BY <1>2, FiniteParts, FS_CardinalityType
  <2> QED
    BY <1>6, <1>7, <2>1, <2>2, <2>3, <2>4 DEF Counted
<1> QED
  BY <1>2, <1>5, <1>9, <1>10 DEF MatchInv

(* A partition that is cleared for another seed. *)
LEMMA ClearKeepsMatch ==
  ASSUME MatchInv, TypeOK, Shape, NextSeed, hand = Null
  PROVE  MatchInv'
<1>1. PICK p : p = index
  OBVIOUS
<1>2. /\ p \in Partitions /\ config \in Configs /\ config' = config /\ Partitions' = Partitions
      /\ index' = p /\ hand' = Null
  BY <1>1, ConfigKept DEF TypeOK, NextSeed
<1>3. /\ \A q \in Partitions : Cells(q)' = Cells(q)
      /\ \A q \in Partitions : \A t \in Cells(q) :
           In(q, t)' = IF q = p THEN 0 ELSE In(q, t)
  <2>1. filter' = [b \in DOMAIN filter |-> IF b \in Cleared THEN Empty[b] ELSE filter[b]]
    BY DEF NextSeed
  <2> QED
    BY <1>1, <1>2, <2>1, PartitionCleared
<1>4. \A q \in Partitions : \A x \in KeysOf(q) :
        hash'[x] = IF q = p THEN Null ELSE hash[x]
  <2>1. ASSUME NEW q \in Partitions, NEW x \in KeysOf(q)
        PROVE  hash'[x] = IF q = p THEN Null ELSE hash[x]
    <3>1. x \in AllKeys /\ x[1] = q
      BY <2>1, KeyFacts DEF AllKeys
    <3> QED
      BY <1>1, <3>1 DEF NextSeed
  <2> QED
    BY <2>1
<1>5. ASSUME NEW q \in Partitions, q # p PROVE Matched(q)' /\ Counted(q)'
  <2>1. dropped'[q] = dropped[q]
    BY <1>1, <1>5 DEF TypeOK, NextSeed
  <2> QED
    BY <1>1, <1>2, <1>3, <1>4, <1>5, <2>1, OthersKeepMatch
<1>6. Taken(p)' = {} /\ Begun(p)' = {} /\ HandClasses(p)' = {} /\ dropped'[p] = 0
  <2>1. Taken(p)' = {t \in Cells(p)' : In(p, t)' # 0}
    BY DEF Taken, Cells, In
  <2>2. KeysOf(p)' = KeysOf(p)
    BY <1>2, ConfigKept
  <2>3. dropped \in [Partitions -> Nat]
    BY DEF TypeOK
  <2> QED
    BY <1>1, <1>2, <1>3, <1>4, <2>1, <2>2, <2>3 DEF Begun, HandClasses, InHand, NextSeed
<1>7. Matched(p)'
  <2>1. DOMAIN (SlotClasses(p)') = {} /\ DOMAIN (KeyClasses(p)') = {}
    BY <1>6 DEF SlotClasses, KeyClasses
  <2>2. PICK none : none = [t \in {} |-> 0]
    OBVIOUS
  <2>3. none \in [{} -> {}]
    BY <2>2
  <2>4. OneEach(SlotClasses(p)', KeyClasses(p)', {})
    BY <2>1, <2>3 DEF OneEach
  <2> QED
    BY <1>6, <2>4 DEF Matched
<1>8. Counted(p)'
  BY <1>6, FS_EmptySet DEF Counted
<1> QED
  BY <1>2, <1>5, <1>7, <1>8 DEF MatchInv

-----------------------------------------------------------------------------
(* Types. *)

(* The partition of what is in hand has a key, and so it has buckets. *)
LEMMA HandBuckets ==
  ASSUME MatchInv, TypeOK, Shape, hand # Null
  PROVE  buckets(index) \in BucketCounts
<1>1. PICK p : p = index
  OBVIOUS
<1>2. p \in Partitions /\ config \in Configs
  BY <1>1, HandFacts
<1>3. Begun(p) # {}
  <2>1. Counted(p)
    BY <1>2 DEF MatchInv
  <2>2. Cardinality(HandClasses(p)) = 1
    <3>1. HandClasses(p) = {Class(p, hand.fingerprint, hand.address)}
      BY <1>1 DEF HandClasses, InHand
    <3> QED
      BY <3>1, FS_Singleton
  <2>3. Cardinality(Taken(p)) \in Nat /\ dropped[p] \in Nat
    BY <1>2, FiniteParts, FS_CardinalityType DEF TypeOK
  <2>4. Cardinality(Begun(p)) # 0
    BY <2>1, <2>2, <2>3 DEF Counted
  <2> QED
    BY <2>4, FS_EmptySet
<1>4. PICK x \in KeysOf(p) : TRUE
  BY <1>3 DEF Begun
<1>5. config.histogram[p] \in Nat /\ x[2] \in 0 .. config.histogram[p] - 1
  BY <1>2, <1>4, KeyFacts, SizeFacts
<1> QED
  BY <1>1, <1>2, <1>5, SizeFacts

(* A key whose insertion begins. *)
LEMMA StartFacts ==
  ASSUME TypeOK, Shape, NEW p \in Partitions, NEW x \in KeysOf(p),
         NEW h \in HashValues, NEW seed \in 0..NSeeds, StartInsert(x, h, seed)
  PROVE  /\ hand' \in [fingerprint : Nat, address : Nat] /\ hand' # Null
         /\ hand'.fingerprint \in Fingerprints \ {0} /\ hand'.address \in 0 .. size(p) - 1
         /\ hash' \in [AllKeys -> {Null} \cup [fingerprint : Nat, address : Nat, seed : Nat]]
         /\ \A y \in AllKeys : y # x => hash'[y] = hash[y]
         /\ hash'[x] # Null /\ hash'[x].fingerprint \in Fingerprints \ {0}
         /\ hash'[x].address \in 0 .. size(p) - 1 /\ hash'[x].seed = seed
         /\ tries' = 0
<1>1. PICK f, a : f = cuckoo_fingerprint(h.fingerprint) /\ a = address(x[1], h.address)
  OBVIOUS
<1>2. f \in Nat /\ f \in Fingerprints \ {0}
  BY <1>1, HashAssumption DEF Fingerprints, cuckoo_fingerprint
<1>3. config \in Configs
  BY DEF TypeOK
<1>4. x[1] = p /\ x \in AllKeys /\ buckets(p) \in BucketCounts /\ size(p) \in Nat
  <2>1. x[2] \in 0 .. config.histogram[p] - 1 /\ config.histogram[p] \in Nat
    BY <1>3, KeyFacts, SizeFacts
  <2> QED
    BY <1>3, <2>1, KeyFacts, SizeFacts DEF AllKeys
<1>5. a \in 0 .. size(p) - 1 /\ a \in Nat
  BY <1>1, <1>3, <1>4, AddresserAssumption DEF address, size
<1>6. seed \in Nat
  BY SeedsAssumption
<1>7. /\ hash' = [hash EXCEPT ![x] = [fingerprint |-> f, address |-> a, seed |-> seed]]
      /\ hand' = [fingerprint |-> f, address |-> a]
      /\ tries' = 0
  BY <1>1 DEF StartInsert
<1>8. hand' \in [fingerprint : Nat, address : Nat] /\ hand'.fingerprint = f /\ hand'.address = a
  BY <1>2, <1>5, <1>7
<1>9. PICK e : e = [fingerprint |-> f, address |-> a, seed |-> seed]
  OBVIOUS
<1>10. e \in [fingerprint : Nat, address : Nat, seed : Nat]
       /\ e.fingerprint = f /\ e.address = a /\ e.seed = seed
  BY <1>2, <1>5, <1>6, <1>9
<1>11. e # Null /\ hand' # Null
  BY <1>8, <1>10, NullAssumption
<1>12. hash' = [hash EXCEPT ![x] = e]
  BY <1>7, <1>9
<1>13. hash \in [AllKeys -> {Null} \cup [fingerprint : Nat, address : Nat, seed : Nat]]
  BY DEF Shape
<1>14. hash'[x] = e /\ \A y \in AllKeys : y # x => hash'[y] = hash[y]
  BY <1>4, <1>12, <1>13
<1>15. hash' \in [AllKeys -> {Null} \cup [fingerprint : Nat, address : Nat, seed : Nat]]
  BY <1>4, <1>10, <1>12, <1>13
<1> QED
  BY <1>2, <1>5, <1>7, <1>8, <1>10, <1>11, <1>14, <1>15

(* The types of the loops' variables. *)
LoopType ==
  /\ config \in Configs
  /\ pc \in {"next", "first", "retry", "again", "idle", "adding", "done"}
  /\ todo \subseteq Partitions /\ group \in Partitions /\ index \in Partitions
  /\ begin \in Nat /\ tries \in 0 .. MAX_ITERATION + 1
  /\ failed \subseteq Partitions
  /\ attempt \in 0..NSeeds
  /\ seeds \in [Partitions -> 0..NSeeds]
  /\ n_retries \in Nat
  /\ success \in BOOLEAN
  /\ dropped \in [Partitions -> Nat]

HashType ==
  \A x \in AllKeys : hash[x] # Null =>
    /\ hash[x].fingerprint \in Fingerprints \ {0}
    /\ hash[x].address \in 0 .. size(x[1]) - 1
    /\ hash[x].seed \in 0..NSeeds

HandType ==
  hand = Null \/ /\ hand.fingerprint \in Fingerprints \ {0}
                 /\ hand.address \in 0 .. size(index) - 1

FilterType == filter \in [0 .. n_bytes - 1 -> [Slots -> Fingerprints \cup {0}]]

(* The type invariant in parts. *)
LEMMA TypeParts == TypeOK <=> LoopType /\ HashType /\ HandType /\ FilterType
BY DEF TypeOK, LoopType, HashType, HandType, FilterType

(* After a step the parts are the whole. *)
LEMMA TypePartsNext == LoopType' /\ HashType' /\ HandType' /\ FilterType' => TypeOK'
BY DEF TypeOK, LoopType, HashType, HandType, FilterType

(* What the step leaves alone keeps its type. *)
LEMMA TypeKept ==
  ASSUME TypeOK, Shape, config' = config
  PROVE  /\ hash' = hash =>
              /\ HashType'
              /\ hash' \in [AllKeys -> {Null} \cup [fingerprint : Nat, address : Nat, seed : Nat]]'
         /\ filter' = filter => FilterType'
         /\ filter' \in [0 .. n_bytes - 1 -> [Slots -> Fingerprints \cup {0}]] => FilterType'
         /\ hand' = Null => HandType' /\ hand' \in {Null} \cup [fingerprint : Nat, address : Nat]
         /\ \A q : /\ q = index' /\ hand' \in [fingerprint : Nat, address : Nat]
                   /\ hand'.fingerprint \in Fingerprints \ {0} /\ hand'.address \in 0 .. size(q) - 1
                   => HandType' /\ hand' \in {Null} \cup [fingerprint : Nat, address : Nat]
<1>1. /\ Partitions' = Partitions /\ AllKeys' = AllKeys /\ Slots' = Slots /\ n_bytes' = n_bytes
      /\ \A p : size(p)' = size(p)
  BY ConfigKept
<1>2. \A q : q = index' => size(index)' = size(q)
  BY DEF size, buckets
<1>3. HashType /\ FilterType
  BY TypeParts
<1>4. ASSUME hash' = hash
      PROVE  /\ HashType'
             /\ hash' \in [AllKeys -> {Null} \cup [fingerprint : Nat, address : Nat, seed : Nat]]'
  BY <1>1, <1>3, <1>4 DEF HashType, Shape
<1>5. filter' \in [0 .. n_bytes - 1 -> [Slots -> Fingerprints \cup {0}]] => FilterType'
  BY <1>1 DEF FilterType, Fingerprints
<1>6. filter' = filter => FilterType'
  BY <1>3, <1>5 DEF FilterType
<1>7. hand' = Null => HandType' /\ hand' \in {Null} \cup [fingerprint : Nat, address : Nat]
  BY DEF HandType
<1>8. ASSUME NEW q, q = index', hand' \in [fingerprint : Nat, address : Nat],
             hand'.fingerprint \in Fingerprints \ {0}, hand'.address \in 0 .. size(q) - 1
      PROVE  HandType' /\ hand' \in {Null} \cup [fingerprint : Nat, address : Nat]
  BY <1>2, <1>8 DEF HandType, Fingerprints
<1> QED
  BY <1>4, <1>5, <1>6, <1>7, <1>8

(* An insertion begins: what the loops' types leave to show. *)
LEMMA StartType ==
  ASSUME TypeOK, Shape, config' = config, NEW p \in Partitions, NEW x \in KeysOf(p), index' = p,
         NEW h \in HashValues, NEW seed \in 0..NSeeds, StartInsert(x, h, seed)
  PROVE  HandType' /\ HashType' /\ Shape'
<1>1. /\ hand' \in [fingerprint : Nat, address : Nat]
      /\ hand'.fingerprint \in Fingerprints \ {0} /\ hand'.address \in 0 .. size(p) - 1
      /\ hash' \in [AllKeys -> {Null} \cup [fingerprint : Nat, address : Nat, seed : Nat]]
      /\ \A y \in AllKeys : y # x => hash'[y] = hash[y]
      /\ hash'[x].fingerprint \in Fingerprints \ {0}
      /\ hash'[x].address \in 0 .. size(p) - 1 /\ hash'[x].seed = seed
  BY StartFacts
<1>2. HandType' /\ hand' \in {Null} \cup [fingerprint : Nat, address : Nat]
  BY <1>1, TypeKept
<1>3. AllKeys' = AllKeys /\ \A q : size(q)' = size(q)
  BY ConfigKept
<1>4. HashType'
  <2>1. SUFFICES ASSUME NEW y \in AllKeys, hash'[y] # Null
                 PROVE  /\ hash'[y].fingerprint \in Fingerprints \ {0}
                        /\ hash'[y].address \in 0 .. size(y[1]) - 1
                        /\ hash'[y].seed \in 0..NSeeds
    BY <1>3 DEF HashType, Fingerprints
  <2>2. CASE y = x
    <3>1. y[1] = p
      BY <2>2, KeyFacts
    <3> QED
      BY <1>1, <2>2, <3>1
  <2>3. CASE y # x
    <3>1. HashType
      BY TypeParts
    <3> QED
      BY <1>1, <2>1, <2>3, <3>1 DEF HashType
  <2> QED
    BY <2>2, <2>3
<1> QED
  BY <1>1, <1>2, <1>3, <1>4 DEF Shape

(* A step that neither starts an insertion nor moves what is in hand. *)
LEMMA DataKept ==
  ASSUME TypeOK, Shape, config' = config, hash' = hash, LoopType',
         filter' \in [0 .. n_bytes - 1 -> [Slots -> Fingerprints \cup {0}]],
         hand' = Null \/ (hand' = hand /\ index' = index)
  PROVE  TypeOK' /\ Shape'
<1>1. /\ HashType'
      /\ hash' \in [AllKeys -> {Null} \cup [fingerprint : Nat, address : Nat, seed : Nat]]'
  BY TypeKept
<1>2. FilterType'
  BY TypeKept
<1>3. HandType' /\ hand' \in {Null} \cup [fingerprint : Nat, address : Nat]
  <2>1. CASE hand' = Null
    BY <2>1, TypeKept
  <2>2. CASE hand' = hand /\ hand # Null /\ index' = index
    BY <2>2, HandFacts, TypeKept
  <2> QED
    BY <2>1, <2>2
<1> QED
  BY <1>1, <1>2, <1>3, TypePartsNext DEF Shape

(* The least lane that failed. *)
LEMMA MinFailed ==
  ASSUME TypeOK, NEW S, S \subseteq failed, S # {}
  PROVE  Min(S) \in S /\ Min(S) \in Partitions
<1>1. S \subseteq Partitions /\ config \in Configs
  BY DEF TypeOK
<1>2. S \subseteq Nat
  BY <1>1, ConfigFacts
<1> QED
  BY <1>1, <1>2, MinIsLeast

(* A lane ends with nothing in hand. *)
LEMMA LaneEndsEmpty ==
  ASSUME LoopInv, pc = "first", LaneEnds
  PROVE  hand = Null
BY DEF LoopInv, FillInv, LaneEnds

(* Every step keeps the types. *)
LEMMA TypeStep ==
  ASSUME Invertible, TypeOK, Shape, LoopInv, MatchInv, [Next]_vars
  PROVE  TypeOK' /\ Shape'
<1>1. LoopType /\ FilterType
  BY TypeParts
<1>2. config' = config
  BY DEF Next, Work, Client, Insert, vars, Place, SecondBucket, evict_victim, Evict, NextGroup,
         Finished, NextKey, LaneFails, Lose, NextLane, AllLanes, NextSeed, NextKeyAgain, Built,
         AttemptFails, GiveUp, AddFails, add_partition, add
<1>3. Partitions' = Partitions /\ n_bytes' = n_bytes /\ config \in Configs
  BY <1>1, <1>2, ConfigKept DEF LoopType
<1>4. /\ Partitions \subseteq Nat /\ config.histogram \in [Partitions -> Nat]
      /\ MAX_ITERATION \in Nat \ {0} /\ NSeeds \in Nat
  BY <1>3, ConfigFacts, IterationAssumption, SeedsAssumption
<1>5. hand # Null => pc \in {"first", "again", "adding"}
  BY DEF LoopInv, ModeInv
<1>6. CASE Place
  <2>1. filter' \in [0 .. n_bytes - 1 -> [Slots -> Fingerprints \cup {0}]]
    BY <1>6, PlaceKeepsMatch
  <2>2. LoopType'
    BY <1>1, <1>3, <1>6 DEF Place, LoopType, loopVars, retryVars
  <2> QED
    BY <1>2, <1>6, <2>1, <2>2, DataKept DEF Place
<1>7. CASE SecondBucket
  <2>4. /\ hand' \in [fingerprint : Nat, address : Nat]
        /\ hand'.fingerprint \in Fingerprints \ {0} /\ hand'.address \in 0 .. size(index) - 1
    BY <1>7, HandBuckets, SecondKeepsMatch DEF SecondBucket
  <2>5. HandType' /\ hand' \in {Null} \cup [fingerprint : Nat, address : Nat]
    BY <1>2, <1>7, <2>4, TypeKept DEF SecondBucket
  <2>6. /\ HashType' /\ FilterType'
        /\ hash' \in [AllKeys -> {Null} \cup [fingerprint : Nat, address : Nat, seed : Nat]]'
    BY <1>2, <1>7, TypeKept DEF SecondBucket
  <2>7. LoopType'
    BY <1>1, <1>3, <1>4, <1>7 DEF SecondBucket, LoopType, loopVars, retryVars
  <2> QED
    BY <2>5, <2>6, <2>7, TypePartsNext DEF Shape
<1>8. CASE evict_victim
  <2>1. Evict /\ hand # Null /\ index' = index
    BY <1>8 DEF evict_victim, Evict
  <2>2. /\ hand' \in [fingerprint : Nat, address : Nat]
        /\ hand'.fingerprint \in Fingerprints \ {0} /\ hand'.address \in 0 .. size(index) - 1
        /\ filter' \in [0 .. n_bytes - 1 -> [Slots -> Fingerprints \cup {0}]]
    BY <2>1, HandBuckets, EvictKeepsMatch
  <2>3. HandType' /\ hand' \in {Null} \cup [fingerprint : Nat, address : Nat]
    BY <1>2, <2>1, <2>2, TypeKept
  <2>4. /\ HashType' /\ FilterType'
        /\ hash' \in [AllKeys -> {Null} \cup [fingerprint : Nat, address : Nat, seed : Nat]]'
    BY <1>2, <2>1, <2>2, TypeKept DEF Evict
  <2>5. LoopType'
    BY <1>1, <1>3, <1>4, <1>8 DEF evict_victim, Evict, LoopType, loopVars, retryVars
  <2> QED
    BY <2>3, <2>4, <2>5, TypePartsNext DEF Shape
<1>9. ASSUME NEW g \in todo, StartGroup(g), UNCHANGED <<config, success, insertVars, retryVars>>,
             hand = Null
      PROVE  TypeOK' /\ Shape'
  <2>1. LoopType'
    BY <1>1, <1>3, <1>4, <1>9 DEF StartGroup, LoopType, insertVars, retryVars
  <2> QED
    BY <1>1, <1>2, <1>9, <2>1, DataKept DEF insertVars, FilterType
<1>10. CASE NextGroup
  BY <1>5, <1>9, <1>10 DEF NextGroup
<1>11. CASE Finished
  <2>1. LoopType'
    BY <1>1, <1>3, <1>11 DEF Finished, LoopType, loopVars, insertVars, retryVars
  <2> QED
    BY <1>1, <1>2, <1>11, <2>1, DataKept DEF Finished, insertVars, FilterType
<1>12. ASSUME NEW seed \in 0..NSeeds, NEW h \in HashValues, begin < config.histogram[index],
              StartInsert(<<index, begin>>, h, seed),
              UNCHANGED <<pc, loopVars, index, begin, failed, filter, dropped, retryVars>>
       PROVE  TypeOK' /\ Shape'
  <2>1. PICK p, x : p = index /\ x = <<index, begin>>
    OBVIOUS
  <2>2. p \in Partitions /\ x \in KeysOf(p) /\ index' = p
    <3>1. p \in Partitions /\ config.histogram[p] \in Nat /\ begin \in Nat /\ index' = p
      BY <1>1, <1>4, <1>12, <2>1 DEF LoopType
    <3>2. begin \in 0 .. config.histogram[p] - 1
      BY <1>12, <2>1, <3>1
    <3> QED
      BY <2>1, <3>1, <3>2 DEF KeysOf
  <2>3. HandType' /\ HashType' /\ Shape'
    BY <1>2, <1>12, <2>1, <2>2, StartType
  <2>4. tries' = 0
    BY <1>12 DEF StartInsert
  <2>5. LoopType'
    BY <1>1, <1>2, <1>3, <1>4, <1>12, <2>4 DEF LoopType, loopVars, retryVars
  <2>6. FilterType'
    BY <1>2, <1>12, TypeKept
  <2> QED
    BY <2>3, <2>5, <2>6, TypePartsNext
<1>13. CASE NextKey
  <2>1. 0 \in 0..NSeeds
    BY <1>4
  <2> QED
    BY <1>12, <1>13, <2>1 DEF NextKey
<1>14. CASE NextKeyAgain
  BY <1>1, <1>12, <1>14 DEF NextKeyAgain, LoopType
<1>15. CASE LaneFails \/ AddFails
  <2>1. LoopType'
    <3>1. [dropped EXCEPT ![index] = @ + 1] \in [Partitions -> Nat]
      BY <1>1 DEF LoopType
    <3> QED
      BY <1>1, <1>3, <1>15, <3>1 DEF LaneFails, AddFails, Lose, LoopType
  <2> QED
    BY <1>1, <1>2, <1>15, <2>1, DataKept DEF LaneFails, AddFails, Lose, FilterType
<1>16. CASE NextLane
  <2>1. hand = Null
    BY <1>16, LaneEndsEmpty DEF NextLane
  <2>2. LoopType'
    BY <1>1, <1>3, <1>4, <1>16 DEF NextLane, Lanes, LoopType, loopVars, insertVars, retryVars
  <2> QED
    BY <1>1, <1>2, <1>16, <2>1, <2>2, DataKept DEF NextLane, insertVars, FilterType
<1>17. CASE AllLanes
  <2>1. hand = Null
    BY <1>17, LaneEndsEmpty DEF AllLanes
  <2>2. LoopType'
    <3>1. failed # {} => Min(failed) \in Partitions
      BY MinFailed
    <3>2. /\ pc' \in {"next", "idle", "retry"} /\ index' \in Partitions
          /\ attempt' \in 0..NSeeds
      BY <1>1, <1>4, <1>17, <3>1 DEF AllLanes, Return, LoopType
    <3>3. success' \in BOOLEAN
      <4>1. success' = success \/ success' = (success /\ failed = {})
        BY <1>17 DEF AllLanes
      <4> QED
        BY <1>1, <4>1 DEF LoopType
    <3> QED
      BY <1>1, <1>3, <1>17, <3>2, <3>3 DEF AllLanes, LoopType, insertVars
  <2> QED
    BY <1>1, <1>2, <1>17, <2>1, <2>2, DataKept DEF AllLanes, insertVars, FilterType
<1>18. CASE NextSeed
  <2>1. hand = Null /\ index \in Partitions
    BY <1>1, <1>5, <1>18 DEF NextSeed, LoopType
  <2>2. filter' = [b \in DOMAIN filter |-> IF b \in Cleared THEN Empty[b] ELSE filter[b]]
    BY <1>18 DEF NextSeed
  <2>3. filter' \in [0 .. n_bytes - 1 -> [Slots -> Fingerprints \cup {0}]]
    BY <1>2, <2>1, <2>2, PartitionCleared
  <2>4. hash' = [x \in AllKeys |-> IF x[1] = index THEN Null ELSE hash[x]]
    BY <1>18 DEF NextSeed
  <2>5. AllKeys' = AllKeys /\ \A p : size(p)' = size(p)
    BY <1>2, ConfigKept
  <2>6. /\ HashType'
        /\ hash' \in [AllKeys -> {Null} \cup [fingerprint : Nat, address : Nat, seed : Nat]]'
    <3>1. HashType
      BY TypeParts
    <3>2. \A x \in AllKeys : hash'[x] # Null => hash'[x] = hash[x]
      BY <2>4
    <3>3. HashType'
      BY <2>5, <3>1, <3>2 DEF HashType, Fingerprints
    <3> QED
      BY <2>4, <2>5, <3>3 DEF Shape
  <2>7. FilterType' /\ HandType' /\ hand' \in {Null} \cup [fingerprint : Nat, address : Nat]
    BY <1>2, <1>18, <2>1, <2>3, TypeKept DEF NextSeed
  <2>8. LoopType'
    BY <1>1, <1>3, <1>4, <1>18 DEF NextSeed, LoopType, loopVars
  <2> QED
    BY <2>6, <2>7, <2>8, TypePartsNext DEF Shape
<1>19. CASE Built
  <2>1. LoopType'
    <3>1. failed \ {index} # {} => Min(failed \ {index}) \in Partitions
      BY MinFailed
    <3> QED
      BY <1>1, <1>3, <1>4, <1>19, <3>1 DEF Built, Return, LoopType, loopVars, insertVars
  <2> QED
    BY <1>1, <1>2, <1>19, <2>1, DataKept DEF Built, insertVars, FilterType
<1>20. CASE AttemptFails
  <2>1. LoopType'
    BY <1>1, <1>3, <1>4, <1>20 DEF AttemptFails, LoopType, loopVars
  <2> QED
    BY <1>1, <1>2, <1>20, <2>1, DataKept DEF AttemptFails, FilterType
<1>21. CASE GiveUp
  <2>1. LoopType'
    BY <1>1, <1>3, <1>21 DEF GiveUp, Return, LoopType, insertVars, retryVars
  <2> QED
    BY <1>1, <1>2, <1>21, <2>1, DataKept DEF GiveUp, insertVars, FilterType
<1>22. ASSUME NEW p \in Partitions, NEW x \in KeysOf(p), add(x) PROVE TypeOK' /\ Shape'
  <2>1. x[1] = p
    BY <1>22, KeyFacts
  <2>2. PICK h \in HashValues : StartInsert(x, h, 0)
    BY <1>22 DEF add
  <2>3. 0 \in 0..NSeeds /\ index' = p
    BY <1>4, <1>22, <2>1 DEF add
  <2>4. HandType' /\ HashType' /\ Shape'
    BY <1>2, <1>22, <2>2, <2>3, StartType
  <2>5. tries' = 0
    BY <2>2 DEF StartInsert
  <2>6. LoopType'
    BY <1>1, <1>3, <1>4, <1>22, <2>3, <2>5 DEF add, LoopType, loopVars, retryVars
  <2>7. FilterType'
    BY <1>2, <1>22, TypeKept DEF add
  <2> QED
    BY <2>4, <2>6, <2>7, TypePartsNext
<1>23. ASSUME NEW p \in Partitions, add_partition(p) PROVE TypeOK' /\ Shape'
  BY <1>5, <1>9, <1>23 DEF add_partition
<1>24. CASE UNCHANGED vars
  <2>1. LoopType'
    BY <1>1, <1>3, <1>24 DEF LoopType, vars, loopVars, insertVars, retryVars
  <2> QED
    BY <1>1, <1>2, <1>24, <2>1, DataKept DEF vars, insertVars, FilterType
<1> QED
  BY <1>6, <1>7, <1>8, <1>10, <1>11, <1>13, <1>14, <1>15, <1>16, <1>17, <1>18, <1>19, <1>20,
     <1>21, <1>22, <1>23, <1>24 DEF Next, Work, Client, Insert

-----------------------------------------------------------------------------
(* The loops over groups, lanes, keys and seeds. *)

(* Groups begin at multiples of the number of lanes: no two share a        *)
(* partition.                                                              *)
LEMMA GroupsApart ==
  ASSUME config \in Configs, NEW g \in Partitions, NEW h \in Partitions, g # h,
         g % config.lanes = 0, h % config.lanes = 0
  PROVE  GroupOf(g) \cap GroupOf(h) = {}
<1>1. PICK l \in Nat \ {0} : l = config.lanes
  BY ConfigFacts
<1>2. Partitions \subseteq Nat /\ g \in Nat /\ h \in Nat
  BY ConfigFacts
<1>3. PICK m \in Nat, n \in Nat : g = l * m /\ h = l * n
  BY <1>1, <1>2, Multiple
<1>4. (g < h => g + l <= h) /\ (h < g => h + l <= g)
  BY <1>3, MultiplesApart
<1>5. ASSUME NEW p \in GroupOf(g), p \in GroupOf(h) PROVE FALSE
  <2>1. p \in Nat /\ g <= p /\ p < g + l /\ h <= p /\ p < h + l
    BY <1>1, <1>2, <1>5 DEF GroupOf
  <2> QED
    BY <1>2, <1>4, <2>1
<1> QED
  BY <1>5

(* The group being built does not wait. *)
LEMMA LaneFacts ==
  ASSUME TypeOK, LoopInv, Active
  PROVE  /\ config \in Configs /\ Partitions \subseteq Nat
         /\ index \in Lanes /\ index \in Partitions /\ failed \subseteq Lanes
         /\ Lanes \subseteq Partitions /\ Current = Lanes
         /\ ~config.add => Lanes \cap Waiting = {}
<1>1. config \in Configs /\ group \in Partitions /\ todo \subseteq Partitions
  BY DEF TypeOK
<1>2. Lanes = GroupOf(group) /\ Lanes \subseteq Partitions /\ Current = Lanes
  BY DEF Lanes, GroupOf, Current
<1>3. index \in Lanes /\ failed \subseteq Lanes
  BY DEF LoopInv, FillInv
<1>4. Partitions \subseteq Nat
  BY <1>1, ConfigFacts
<1>5. ASSUME ~config.add, NEW g \in todo PROVE Lanes \cap GroupOf(g) = {}
  <2>1. group \notin todo
    BY <1>5 DEF LoopInv, GroupInv
  <2>2. group % config.lanes = 0 /\ g % config.lanes = 0
    BY <1>5 DEF LoopInv, ModeInv
  <2>3. GroupOf(group) \cap GroupOf(g) = {}
    BY <1>1, <1>5, <2>1, <2>2, GroupsApart
  <2> QED
    BY <1>2, <2>3
<1> QED
  BY <1>1, <1>2, <1>3, <1>4, <1>5 DEF Waiting

(* What the groups are depends on the configuration. *)
LEMMA GroupsKept ==
  ASSUME config' = config
  PROVE  /\ Partitions' = Partitions /\ \A g : GroupOf(g)' = GroupOf(g)
         /\ todo' = todo => Waiting' = Waiting
         /\ group' = group => Lanes' = Lanes
<1>1. Partitions' = Partitions
  BY ConfigKept
<1>2. \A g : GroupOf(g)' = GroupOf(g)
  BY <1>1 DEF GroupOf
<1> QED
  BY <1>1, <1>2 DEF Waiting, Lanes

(* Partitions that a step does not concern. *)
LEMMA PartKept ==
  ASSUME config' = config, NEW p, \A x \in KeysOf(p) : hash'[x] = hash[x]
  PROVE  /\ KeysOf(p)' = KeysOf(p) /\ Begun(p)' = Begun(p)
         /\ dropped'[p] = dropped[p] => (Complete(p)' <=> Complete(p))
         /\ dropped'[p] = dropped[p] /\ seeds'[p] = seeds[p] =>
              /\ Untouched(p)' <=> Untouched(p)
              /\ Failed(p)' <=> Failed(p)
              /\ Hopeless(p)' <=> Hopeless(p)
<1>1. KeysOf(p)' = KeysOf(p) /\ Begun(p)' = Begun(p)
  BY ConfigKept, KeysKept
<1> QED
  BY <1>1 DEF Complete, Untouched, Failed, Hopeless

(* Whatever happens to the partition in work, the groups that wait and     *)
(* those that were built do not change.                                    *)
LEMMA GroupsUnmoved ==
  ASSUME TypeOK, LoopInv, Active, Active', config' = config, UNCHANGED <<todo, group, success>>,
         \A p \in Partitions : p # index =>
           /\ \A x \in KeysOf(p) : hash'[x] = hash[x]
           /\ dropped'[p] = dropped[p] /\ seeds'[p] = seeds[p]
  PROVE  GroupInv'
<1>1. SUFFICES ASSUME ~config.add
      PROVE  /\ group' \notin todo'
             /\ \A p \in Waiting' : Untouched(p)'
             /\ success' => \A p \in Partitions' \ (Waiting' \cup Current') : Complete(p)'
             /\ ~success' => \E p \in Partitions' \ (Waiting' \cup Current') : Hopeless(p)'
  BY DEF GroupInv
<1>2. /\ Current = Lanes /\ index \in Lanes /\ Lanes \cap Waiting = {}
  BY <1>1, LaneFacts
<1>3. /\ Partitions' = Partitions /\ Waiting' = Waiting /\ Current' = Lanes
      /\ Waiting \subseteq Partitions
  BY GroupsKept DEF Current, Waiting
<1>4. ASSUME NEW p \in Partitions, p # index
      PROVE  /\ Untouched(p)' <=> Untouched(p)
             /\ Complete(p)' <=> Complete(p)
             /\ Hopeless(p)' <=> Hopeless(p)
  BY <1>4, PartKept
<1>5. /\ group \notin todo
      /\ \A p \in Waiting : Untouched(p)
      /\ success => \A p \in Partitions \ (Waiting \cup Lanes) : Complete(p)
      /\ ~success => \E p \in Partitions \ (Waiting \cup Lanes) : Hopeless(p)
  BY <1>1, <1>2 DEF LoopInv, GroupInv
<1>6. ASSUME NEW p \in Waiting PROVE Untouched(p)'
  BY <1>2, <1>3, <1>4, <1>5, <1>6
<1>7. ASSUME success, NEW p \in Partitions \ (Waiting \cup Lanes) PROVE Complete(p)'
  BY <1>2, <1>4, <1>5, <1>7
<1>8. ASSUME ~success PROVE \E p \in Partitions \ (Waiting \cup Lanes) : Hopeless(p)'
  <2>1. PICK p \in Partitions \ (Waiting \cup Lanes) : Hopeless(p)
    BY <1>5, <1>8
  <2> QED
    BY <1>2, <1>4, <2>1
<1> QED
  BY <1>3, <1>5, <1>6, <1>7, <1>8

(* The keys of a partition one after another: the next one enters, *)
LEMMA FilledStart ==
  ASSUME config' = config, NEW p \in Partitions, NEW seed, Filled(p, seed), hand = Null,
         begin < config.histogram[p], begin' = begin, hand' # Null,
         hash'[<<p, begin>>] # Null, hash'[<<p, begin>>].seed = seed,
         \A y \in AllKeys : y # <<p, begin>> => hash'[y] = hash[y]
  PROVE  Filled(p, seed)'
<1>1. KeysOf(p)' = KeysOf(p) /\ KeysOf(p) \subseteq AllKeys
  BY ConfigKept DEF AllKeys
<1>2. \A x \in KeysOf(p) : x = <<p, begin>> <=> x[2] = begin
  BY KeyFacts
<1>3. \A x \in KeysOf(p) : hash'[x] # Null <=> x[2] < begin \/ x[2] = begin
  BY <1>1, <1>2 DEF Filled
<1>4. \A x \in KeysOf(p) : hash'[x] # Null => hash'[x].seed = seed
  BY <1>1 DEF Filled, Begun
<1> QED
  BY <1>1, <1>3, <1>4 DEF Filled, Begun

(* it is placed, *)
LEMMA FilledPlaced ==
  ASSUME config \in Configs, config' = config, NEW p \in Partitions, NEW seed, Filled(p, seed),
         begin \in Nat, hand # Null, begin' = begin + 1, hand' = Null, hash' = hash
  PROVE  Filled(p, seed)'
<1>1. KeysOf(p)' = KeysOf(p) /\ Begun(p)' = Begun(p) /\ config.histogram[p] \in Nat
  BY PartKept, SizeFacts
<1>2. \A x \in KeysOf(p) : x[2] \in Nat
  BY <1>1, KeyFacts
<1>3. \A x \in KeysOf(p) : hash'[x] # Null <=> x[2] < begin + 1
  BY <1>2 DEF Filled
<1> QED
  BY <1>1, <1>3 DEF Filled

(* and in the end they all are. *)
LEMMA FilledAll ==
  ASSUME config \in Configs, NEW p \in Partitions, NEW seed, Filled(p, seed), hand = Null,
         begin = config.histogram[p]
  PROVE  Begun(p) = KeysOf(p)
<1>1. \A x \in KeysOf(p) : x[2] < begin
  BY KeyFacts, SizeFacts
<1> QED
  BY <1>1 DEF Filled, Begun

(* At first there are none. *)
LEMMA FilledNone ==
  ASSUME config \in Configs, config' = config, NEW p \in Partitions, NEW seed,
         begin' = 0, hand' = Null, \A x \in KeysOf(p) : hash'[x] = Null
  PROVE  Filled(p, seed)'
<1>1. KeysOf(p)' = KeysOf(p) /\ config.histogram[p] \in Nat
  BY ConfigKept, SizeFacts
<1>2. \A x \in KeysOf(p) : x[2] \in Nat
  BY <1>1, KeyFacts
<1> QED
  BY <1>1, <1>2 DEF Filled, Begun

(* How far the partition in work is filled. *)
LEMMA FilledHere ==
  ASSUME NEW p, NEW seed, index' = p, Filled(p, seed)'
  PROVE  Filled(index, seed)' /\ (attempt' = seed => Filled(index, attempt)')
BY DEF Filled, Begun, KeysOf

(* What is in hand moves on, or nothing happens. *)
LEMMA MoveLoops ==
  ASSUME LoopInv, config' = config, hand = Null <=> hand' = Null,
         UNCHANGED <<pc, todo, group, success, index, begin, failed, attempt, seeds, hash, dropped>>
  PROVE  LoopInv'
<1>1. /\ Partitions' = Partitions /\ Lanes' = Lanes /\ Waiting' = Waiting
      /\ Active' = Active /\ Current' = Current
  BY GroupsKept DEF Active, Current
<1>2. ASSUME NEW p
      PROVE  /\ KeysOf(p)' = KeysOf(p) /\ Begun(p)' = Begun(p)
             /\ Complete(p)' <=> Complete(p)
             /\ Untouched(p)' <=> Untouched(p)
             /\ Failed(p)' <=> Failed(p)
             /\ Hopeless(p)' <=> Hopeless(p)
  BY PartKept
<1>3. ASSUME NEW p, NEW seed, Filled(p, seed) PROVE Filled(p, seed)'
  BY <1>2, <1>3 DEF Filled
<1>4. ModeInv'
  BY DEF LoopInv, ModeInv
<1>5. FillInv'
  <2>1. PICK p, s : p = index /\ s = attempt
    OBVIOUS
  <2>2. (Filled(p, 0) => Filled(index, 0)') /\ (Filled(p, s) => Filled(index, attempt)')
    BY <1>3, <2>1, FilledHere
  <2> QED
    BY <1>1, <1>2, <2>1, <2>2 DEF LoopInv, FillInv
<1>6. SeedInv'
  BY <1>1, <1>2 DEF LoopInv, SeedInv
<1>7. GroupInv'
  BY <1>1, <1>2 DEF LoopInv, GroupInv
<1>8. LaneInv'
  BY <1>1, <1>2 DEF LoopInv, LaneInv
<1> QED
  BY <1>4, <1>5, <1>6, <1>7, <1>8 DEF LoopInv

(* What is in hand finds its place. *)
LEMMA PlaceLoops ==
  ASSUME TypeOK, Shape, LoopInv, Place
  PROVE  LoopInv'
<1>1. /\ config' = config /\ config \in Configs /\ index \in Partitions /\ begin \in Nat
      /\ UNCHANGED <<todo, group, success, index, failed, attempt, seeds, hash, dropped>>
      /\ hand # Null /\ hand' = Null /\ begin' = begin + 1
      /\ pc \in {"first", "again", "adding"} /\ pc' = (IF pc = "adding" THEN "idle" ELSE pc)
  BY DEF TypeOK, Place, Filling, loopVars, retryVars
<1>2. Partitions' = Partitions /\ Lanes' = Lanes
  BY <1>1, GroupsKept
<1>3. ASSUME NEW p
      PROVE  /\ KeysOf(p)' = KeysOf(p) /\ Begun(p)' = Begun(p)
             /\ Complete(p)' <=> Complete(p)
             /\ Untouched(p)' <=> Untouched(p)
             /\ Failed(p)' <=> Failed(p)
  BY <1>1, PartKept
<1>4. ModeInv'
  BY <1>1 DEF LoopInv, ModeInv
<1>5. FillInv'
  <2>1. PICK p, s : p = index /\ s = attempt
    OBVIOUS
  <2>2. pc = "first" => index \notin failed /\ Filled(p, 0) /\ seeds[index] = 0
    BY <1>1, <2>1 DEF LoopInv, FillInv
  <2>3. pc = "again" => Filled(p, s)
    BY <2>1 DEF LoopInv, FillInv
  <2>4. (pc = "first" => Filled(p, 0)') /\ (pc = "again" => Filled(p, s)')
    BY <1>1, <2>1, <2>2, <2>3, FilledPlaced
  <2>5. (pc = "first" => Filled(index, 0)') /\ (pc = "again" => Filled(index, attempt)')
    BY <1>1, <2>1, <2>4, FilledHere
  <2> QED
    BY <1>1, <1>2, <1>3, <2>2, <2>5 DEF LoopInv, FillInv, Active
<1>6. SeedInv'
  BY <1>1, <1>2, <1>3 DEF LoopInv, SeedInv
<1>7. GroupInv'
  <2>1. CASE pc = "adding"
    BY <1>1, <2>1 DEF LoopInv, ModeInv, GroupInv
  <2>2. CASE pc # "adding"
    BY <1>1, <2>2, GroupsUnmoved DEF Active
  <2> QED
    BY <2>1, <2>2
<1>8. LaneInv'
  BY <1>1, <1>2, <1>3 DEF LoopInv, LaneInv
<1> QED
  BY <1>4, <1>5, <1>6, <1>7, <1>8 DEF LoopInv

(* A key of the partition in work enters. *)
LEMMA StartLoops ==
  ASSUME TypeOK, Shape, LoopInv, pc \in {"first", "again"}, hand = Null,
         NEW h \in HashValues, NEW seed \in 0..NSeeds, StartInsert(<<index, begin>>, h, seed),
         begin < config.histogram[index],
         pc = "first" => index \notin failed /\ seed = 0, pc = "again" => seed = attempt,
         UNCHANGED <<config, pc, loopVars, index, begin, failed, dropped, retryVars>>
  PROVE  LoopInv'
<1>1. PICK p, x : p = index /\ x = <<p, begin>>
  OBVIOUS
<1>2. /\ config \in Configs /\ p \in Partitions /\ begin \in Nat /\ config.histogram[p] \in Nat
      /\ Partitions' = Partitions /\ Lanes' = Lanes /\ config' = config
  BY <1>1, GroupsKept, SizeFacts DEF TypeOK, loopVars
<1>3. x \in KeysOf(p) /\ x[1] = p
  <2>1. begin \in 0 .. config.histogram[p] - 1
    BY <1>1, <1>2
  <2> QED
    BY <1>1, <2>1 DEF KeysOf
<1>4. /\ hand' # Null /\ hash'[x] # Null /\ hash'[x].seed = seed
      /\ \A y \in AllKeys : y # x => hash'[y] = hash[y]
  BY <1>1, <1>2, <1>3, StartFacts
<1>5. ASSUME NEW q \in Partitions, q # p PROVE \A y \in KeysOf(q) : hash'[y] = hash[y]
  BY <1>3, <1>4, <1>5, KeyFacts DEF AllKeys
<1>6. ASSUME NEW q \in Partitions, q # p
      PROVE  /\ KeysOf(q)' = KeysOf(q) /\ Begun(q)' = Begun(q)
             /\ Complete(q)' <=> Complete(q)
             /\ Untouched(q)' <=> Untouched(q)
             /\ Failed(q)' <=> Failed(q)
  BY <1>2, <1>5, <1>6, PartKept DEF retryVars
<1>7. ModeInv'
  BY <1>4 DEF LoopInv, ModeInv, loopVars
<1>8. Lanes \subseteq Partitions /\ Partitions \subseteq Nat /\ failed \subseteq Lanes
      /\ UNCHANGED <<todo, group, success, attempt, seeds>>
  BY LaneFacts DEF Active, loopVars, retryVars
<1>9. FillInv'
  <2>1. Filled(p, seed) /\ (pc = "first" => seeds[index] = 0)
    BY <1>1 DEF LoopInv, FillInv
  <2>2. Filled(p, seed)'
    BY <1>1, <1>2, <1>4, <2>1, FilledStart
  <2>3. Filled(index, seed)' /\ (attempt' = seed => Filled(index, attempt)')
    BY <1>1, <2>2, FilledHere
  <2>4. (pc = "first" => Filled(index, 0)') /\ (pc = "again" => Filled(index, attempt)')
    BY <1>8, <2>3
  <2>5. ASSUME NEW q \in Lanes, index < q, Untouched(q) PROVE Untouched(q)'
    BY <1>1, <1>2, <1>6, <1>8, <2>5
  <2> QED
    BY <1>2, <1>8, <2>1, <2>4, <2>5 DEF LoopInv, FillInv, Active
<1>10. SeedInv'
  <2>1. ASSUME pc = "first" PROVE \A y \in Begun(p)' : hash'[y].seed = seeds[p]
    <3>1. seeds[p] = 0 /\ \A y \in Begun(p) : hash[y].seed = 0
      BY <1>1, <2>1 DEF LoopInv, FillInv, Filled
    <3>2. KeysOf(p)' = KeysOf(p)
      BY <1>2, ConfigKept
    <3> QED
      BY <1>2, <1>4, <2>1, <3>1, <3>2 DEF Begun, AllKeys
  <2>2. ASSUME NEW q \in Partitions, q # p PROVE \A y \in Begun(q)' : hash'[y].seed = seeds[q]
    <3>1. \A y \in Begun(q) : hash[y].seed = seeds[q]
      BY <1>1, <2>2 DEF LoopInv, SeedInv
    <3> QED
      BY <1>5, <1>6, <2>2, <3>1 DEF Begun
  <2> QED
    BY <1>1, <1>2, <1>8, <2>1, <2>2 DEF LoopInv, SeedInv
<1>11. GroupInv'
  BY <1>1, <1>2, <1>5, <1>8, GroupsUnmoved DEF Active
<1>12. LaneInv'
  <2>1. index \in Nat /\ (pc = "again" => index \in failed)
    BY <1>1, <1>2, <1>8 DEF LoopInv, FillInv
  <2>2. ASSUME ~config.add, NEW q \in Lanes, q < index \/ q \notin failed, q # p, Complete(q)
        PROVE  Complete(q)'
    BY <1>6, <1>8, <2>2
  <2>3. ASSUME NEW q \in failed, q # p, Failed(q) PROVE Failed(q)'
    BY <1>6, <1>8, <2>3
  <2> QED
    BY <1>1, <1>2, <1>8, <2>1, <2>2, <2>3 DEF LoopInv, LaneInv
<1> QED
  BY <1>7, <1>9, <1>10, <1>11, <1>12 DEF LoopInv

(* An insertion fails: the lane has failed, *)
LEMMA LaneFailsLoops ==
  ASSUME TypeOK, Shape, LoopInv, LaneFails
  PROVE  LoopInv'
<1>1. /\ pc = "first" /\ hand # Null /\ hand' = Null /\ config' = config
      /\ dropped' = [dropped EXCEPT ![index] = @ + 1] /\ failed' = failed \cup {index}
      /\ UNCHANGED <<pc, todo, group, success, index, begin, attempt, seeds, hash>>
  BY DEF LaneFails, Lose
<1>2. /\ index \in Lanes /\ index \in Partitions /\ failed \subseteq Lanes
      /\ Lanes \subseteq Partitions /\ Partitions \subseteq Nat
      /\ Partitions' = Partitions /\ Lanes' = Lanes /\ dropped \in [Partitions -> Nat]
      /\ index \notin failed
  BY <1>1, LaneFacts, GroupsKept DEF Active, LoopInv, FillInv, TypeOK
<1>3. ASSUME NEW q \in Partitions
      PROVE  /\ Begun(q)' = Begun(q)
             /\ q # index => /\ dropped'[q] = dropped[q]
                             /\ Complete(q)' <=> Complete(q)
                             /\ Untouched(q)' <=> Untouched(q)
                             /\ Failed(q)' <=> Failed(q)
  BY <1>1, <1>2, <1>3, PartKept
<1>4. ModeInv'
  BY <1>1 DEF LoopInv, ModeInv
<1>5. FillInv'
  BY <1>1, <1>2, <1>3 DEF LoopInv, FillInv, Active
<1>6. SeedInv'
  BY <1>1, <1>2, <1>3 DEF LoopInv, SeedInv
<1>7. GroupInv'
  BY <1>1, <1>3, GroupsUnmoved DEF Active
<1>8. LaneInv'
  <2>1. PICK p : p = index
    OBVIOUS
  <2>2. ~config.add => dropped'[p] = 1 /\ seeds'[p] = 0
    BY <1>1, <1>2, <2>1 DEF LoopInv, LaneInv, FillInv
  <2>3. ~config.add => Failed(p)'
    BY <2>2 DEF Failed
  <2> QED
    BY <1>1, <1>2, <1>3, <2>1, <2>3 DEF LoopInv, LaneInv
<1> QED
  BY <1>4, <1>5, <1>6, <1>7, <1>8 DEF LoopInv

(* the attempt has, *)
LEMMA AttemptFailsLoops ==
  ASSUME TypeOK, Shape, LoopInv, AttemptFails
  PROVE  LoopInv'
<1>1. /\ pc = "again" /\ pc' = "retry" /\ hand # Null /\ hand' = Null /\ config' = config
      /\ dropped' = [dropped EXCEPT ![index] = @ + 1]
      /\ seeds' = [seeds EXCEPT ![index] = attempt]
      /\ UNCHANGED <<todo, group, success, index, begin, failed, attempt, hash>>
  BY DEF AttemptFails, loopVars
<1>2. /\ index \in Lanes /\ index \in Partitions /\ failed \subseteq Lanes
      /\ Lanes \subseteq Partitions /\ index \in failed
      /\ Partitions' = Partitions /\ Lanes' = Lanes
      /\ dropped \in [Partitions -> Nat] /\ seeds \in [Partitions -> 0..NSeeds]
  BY <1>1, LaneFacts, GroupsKept DEF Active, LoopInv, FillInv, TypeOK
<1>3. ASSUME NEW q \in Partitions
      PROVE  /\ Begun(q)' = Begun(q)
             /\ q # index => /\ dropped'[q] = dropped[q] /\ seeds'[q] = seeds[q]
                             /\ Complete(q)' <=> Complete(q)
                             /\ Failed(q)' <=> Failed(q)
  BY <1>1, <1>2, <1>3, PartKept
<1>4. ModeInv'
  BY <1>1 DEF LoopInv, ModeInv
<1>5. FillInv'
  BY <1>1, <1>2 DEF FillInv, Active
<1>6. SeedInv'
  <2>1. PICK p : p = index
    OBVIOUS
  <2>2. \A x \in Begun(p) : hash[x].seed = attempt
    BY <1>1, <2>1 DEF LoopInv, FillInv, Filled
  <2>3. config.retry
    BY <1>1 DEF LoopInv, ModeInv
  <2> QED
    BY <1>1, <1>2, <1>3, <2>1, <2>2, <2>3 DEF LoopInv, SeedInv
<1>7. GroupInv'
  BY <1>1, <1>3, GroupsUnmoved DEF Active
<1>8. LaneInv'
  BY <1>1, <1>2, <1>3 DEF LoopInv, LaneInv
<1> QED
  BY <1>4, <1>5, <1>6, <1>7, <1>8 DEF LoopInv

(* or add returns false. *)
LEMMA AddFailsLoops ==
  ASSUME LoopInv, AddFails
  PROVE  LoopInv'
<1>1. /\ pc = "adding" /\ pc' = "idle" /\ hand' = Null /\ config' = config /\ config.add
      /\ UNCHANGED <<todo, group, seeds, hash>>
  BY DEF AddFails, Lose, LoopInv, ModeInv
<1>2. Partitions' = Partitions /\ \A q : Begun(q)' = Begun(q)
  BY <1>1, PartKept, GroupsKept
<1>3. ModeInv' /\ FillInv' /\ GroupInv' /\ LaneInv'
  BY <1>1 DEF LoopInv, ModeInv, FillInv, Active, GroupInv, LaneInv
<1>4. SeedInv'
  BY <1>1, <1>2 DEF LoopInv, SeedInv
<1> QED
  BY <1>3, <1>4 DEF LoopInv

(* A group begins: none of its keys was inserted before. *)
LEMMA GroupLoops ==
  ASSUME TypeOK, LoopInv, pc \in {"next", "idle"}, NEW g \in todo, StartGroup(g),
         pc = "idle" => \A x \in KeysOf(g) : hash[x] = Null,
         UNCHANGED <<config, success, insertVars, retryVars>>
  PROVE  LoopInv'
<1>1. /\ config' = config /\ hand = Null /\ pc' = "first" /\ todo' = todo \ {g} /\ group' = g
      /\ index' = g /\ begin' = 0 /\ failed' = {}
      /\ UNCHANGED <<success, attempt, seeds, hash, dropped, hand>>
  BY DEF StartGroup, LoopInv, ModeInv, insertVars, retryVars
<1>2. /\ config \in Configs /\ g \in Partitions /\ todo \subseteq Partitions
      /\ Partitions \subseteq Nat /\ config.lanes \in Nat \ {0}
      /\ config.add => ~config.retry /\ config.lanes = 1
  BY ConfigFacts DEF TypeOK
<1>3. /\ Partitions' = Partitions /\ \A h : GroupOf(h)' = GroupOf(h)
      /\ Lanes' = GroupOf(g) /\ g \in Lanes' /\ GroupOf(g) \subseteq Partitions
  <2>1. Lanes' = {p \in Partitions' : g <= p /\ p < g + config.lanes}
    BY <1>1 DEF Lanes
  <2> QED
    BY <1>1, <1>2, <2>1, GroupsKept DEF GroupOf
<1>4. ASSUME NEW p
      PROVE  /\ KeysOf(p)' = KeysOf(p)
             /\ Begun(p)' = Begun(p)
             /\ Complete(p)' <=> Complete(p)
             /\ Untouched(p)' <=> Untouched(p)
             /\ Hopeless(p)' <=> Hopeless(p)
  BY <1>1, PartKept
<1>5. /\ Waiting' \subseteq Waiting /\ GroupOf(g) \subseteq Waiting
      /\ Waiting \subseteq Waiting' \cup GroupOf(g)
  <2>1. Waiting' = {p \in Partitions : \E h \in todo \ {g} : p \in GroupOf(h)}
    BY <1>1, <1>3 DEF Waiting
  <2> QED
    BY <1>3, <2>1 DEF Waiting
<1>6. pc = "idle" => config.add
  BY DEF LoopInv, ModeInv
<1>7. ~config.add => /\ \A p \in GroupOf(g) : Untouched(p)
                     /\ \A p \in Waiting' : Untouched(p)
  BY <1>5 DEF LoopInv, GroupInv
<1>8. Begun(g) = {} /\ seeds[g] = 0
  <2>1. CASE config.add
    <3>1. pc = "idle"
      BY <2>1 DEF LoopInv, ModeInv
    <3> QED
      BY <1>2, <2>1, <3>1 DEF LoopInv, SeedInv, Begun
  <2>2. CASE ~config.add
    BY <1>3, <1>7, <2>2 DEF Untouched
  <2> QED
    BY <2>1, <2>2
<1>9. ModeInv'
  BY <1>1 DEF LoopInv, ModeInv
<1>10. FillInv'
  <2>1. Filled(g, 0)'
    BY <1>1, <1>2, <1>8, FilledNone DEF Begun
  <2>2. Filled(index, 0)'
    BY <1>1, <2>1, FilledHere
  <2>3. ASSUME NEW p \in GroupOf(g), g < p PROVE Untouched(p)'
    <3>1. CASE config.add
      <4>1. p \in Nat /\ g \in Nat /\ p < g + 1
        BY <1>2, <1>3, <2>3, <3>1 DEF GroupOf
      <4> QED
        BY <2>3, <4>1
    <3>2. CASE ~config.add
      BY <1>4, <1>7, <2>3, <3>2
    <3> QED
      BY <3>1, <3>2
  <2> QED
    BY <1>1, <1>3, <1>8, <2>2, <2>3 DEF FillInv, Active
<1>11. SeedInv'
  BY <1>1, <1>3, <1>4 DEF LoopInv, SeedInv
<1>12. GroupInv'
  <2>1. SUFFICES ASSUME ~config.add
        PROVE  /\ \A p \in Waiting' : Untouched(p)'
               /\ success => \A p \in Partitions \ (Waiting' \cup Lanes') : Complete(p)'
               /\ ~success => \E p \in Partitions \ (Waiting' \cup Lanes') : Hopeless(p)'
    BY <1>1, <1>3 DEF GroupInv, Active, Current
  <2>2. Current = {}
    BY DEF Current, Active
  <2>3. /\ success => \A p \in Partitions \ Waiting : Complete(p)
        /\ ~success => \E p \in Partitions \ Waiting : Hopeless(p)
    BY <2>1, <2>2 DEF LoopInv, GroupInv
  <2> QED
    BY <1>3, <1>4, <1>5, <1>7, <2>1, <2>3
<1>13. LaneInv'
  <2>1. SUFFICES ASSUME ~config.add
        PROVE  /\ \A p \in GroupOf(g) : p < g => Complete(p)'
               /\ dropped'[g] = 0
    BY <1>1, <1>3 DEF LaneInv
  <2>2. dropped'[g] = 0
    BY <1>1, <1>3, <1>7, <2>1 DEF Untouched
  <2>3. \A p \in GroupOf(g) : ~ p < g
    BY <1>2, <1>3 DEF GroupOf
  <2> QED
    BY <2>2, <2>3
<1> QED
  BY <1>9, <1>10, <1>11, <1>12, <1>13 DEF LoopInv

(* There are no more groups. *)
LEMMA FinishedLoops ==
  ASSUME LoopInv, Finished
  PROVE  LoopInv'
<1>1. /\ pc = "next" /\ pc' = "done" /\ config' = config /\ hand = Null /\ ~config.add
      /\ todo = {} \/ ~success
      /\ UNCHANGED <<todo, group, success, hand, seeds, hash, dropped>>
  BY DEF Finished, LoopInv, ModeInv, loopVars, insertVars, retryVars
<1>2. /\ Partitions' = Partitions /\ Waiting' = Waiting /\ Current = {} /\ Current' = {}
  BY <1>1, GroupsKept DEF Current, Active
<1>3. ASSUME NEW p
      PROVE  /\ Begun(p)' = Begun(p)
             /\ Complete(p)' <=> Complete(p)
             /\ Untouched(p)' <=> Untouched(p)
             /\ Hopeless(p)' <=> Hopeless(p)
  BY <1>1, PartKept
<1>4. ModeInv' /\ FillInv' /\ LaneInv'
  BY <1>1 DEF LoopInv, ModeInv, FillInv, LaneInv, Active
<1>5. SeedInv' /\ GroupInv'
  BY <1>1, <1>2, <1>3 DEF LoopInv, SeedInv, GroupInv, Active
<1> QED
  BY <1>4, <1>5 DEF LoopInv

(* The next lane of the group. *)
LEMMA NextLaneLoops ==
  ASSUME TypeOK, LoopInv, NextLane
  PROVE  LoopInv'
<1>1. /\ pc = "first" /\ config' = config /\ hand = Null /\ hand' = Null
      /\ index + 1 \in Lanes /\ index' = index + 1 /\ begin' = 0
      /\ index \in failed \/ begin = config.histogram[index]
      /\ UNCHANGED <<pc, todo, group, success, failed, attempt, seeds, hash, dropped>>
  BY LaneEndsEmpty DEF NextLane, LaneEnds, loopVars, insertVars, retryVars
<1>2. /\ config \in Configs /\ index \in Lanes /\ index \in Partitions /\ failed \subseteq Lanes
      /\ Lanes \subseteq Partitions /\ Partitions \subseteq Nat
      /\ Partitions' = Partitions /\ Lanes' = Lanes
  BY <1>1, LaneFacts, GroupsKept DEF Active
<1>3. ASSUME NEW p
      PROVE  /\ KeysOf(p)' = KeysOf(p)
             /\ Begun(p)' = Begun(p)
             /\ Complete(p)' <=> Complete(p)
             /\ Untouched(p)' <=> Untouched(p)
             /\ Failed(p)' <=> Failed(p)
  BY <1>1, PartKept
<1>4. PICK p : p = index + 1
  OBVIOUS
<1>5. Untouched(p) /\ p \notin failed /\ p \in Partitions
  BY <1>1, <1>2, <1>4 DEF LoopInv, FillInv
<1>6. ModeInv'
  BY <1>1 DEF LoopInv, ModeInv
<1>7. FillInv'
  <2>1. Filled(p, 0)'
    BY <1>1, <1>2, <1>5, FilledNone DEF Untouched, Begun
  <2>2. Filled(index, 0)'
    BY <1>1, <1>4, <2>1, FilledHere
  <2> QED
    BY <1>1, <1>2, <1>3, <1>4, <1>5, <2>2 DEF LoopInv, FillInv, Active, Untouched
<1>8. SeedInv'
  <2>1. pc # "again" /\ pc' # "again"
    BY <1>1
  <2>2. \A q \in Partitions : \A x \in Begun(q) : hash[x].seed = seeds[q]
    BY <2>1 DEF LoopInv, SeedInv
  <2> QED
    BY <1>1, <1>2, <1>3, <2>1, <2>2 DEF LoopInv, SeedInv
<1>9. GroupInv'
  BY <1>1, GroupsUnmoved DEF Active
<1>10. LaneInv'
  <2>1. ASSUME ~config.add, index \notin failed PROVE Complete(index)
    <3>1. Filled(index, 0) /\ dropped[index] = 0
      BY <1>1, <2>1 DEF LoopInv, FillInv, LaneInv
    <3> QED
      BY <1>1, <1>2, <2>1, <3>1, FilledAll DEF Complete
  <2>2. ASSUME ~config.add, NEW q \in Lanes, q < index + 1, q \notin failed PROVE Complete(q)
    <3>1. q < index \/ q = index
      BY <1>2, <2>2
    <3> QED
      BY <1>1, <2>1, <2>2, <3>1 DEF LoopInv, LaneInv
  <2>3. dropped[p] = 0
    BY <1>5 DEF Untouched
  <2> QED
    BY <1>1, <1>2, <1>3, <1>4, <2>2, <2>3 DEF LoopInv, LaneInv
<1> QED
  BY <1>6, <1>7, <1>8, <1>9, <1>10 DEF LoopInv

(* All lanes have stopped. *)
LEMMA AllLanesLoops ==
  ASSUME TypeOK, LoopInv, AllLanes
  PROVE  LoopInv'
<1>1. /\ pc = "first" /\ config' = config /\ hand = Null /\ hand' = Null
      /\ index + 1 \notin Lanes
      /\ index \in failed \/ begin = config.histogram[index]
      /\ UNCHANGED <<todo, group, begin, failed, seeds, hash, dropped>>
  BY LaneEndsEmpty DEF AllLanes, LaneEnds, insertVars
<1>2. /\ config \in Configs /\ index \in Lanes /\ index \in Partitions /\ failed \subseteq Lanes
      /\ Lanes \subseteq Partitions /\ Partitions \subseteq Nat /\ Current = Lanes
      /\ Partitions' = Partitions /\ Lanes' = Lanes /\ Waiting' = Waiting
      /\ ~config.add => Lanes \cap Waiting = {}
  BY <1>1, LaneFacts, GroupsKept DEF Active
<1>3. ASSUME NEW p
      PROVE  /\ Begun(p)' = Begun(p)
             /\ Complete(p)' <=> Complete(p)
             /\ Untouched(p)' <=> Untouched(p)
             /\ Failed(p)' <=> Failed(p)
             /\ Hopeless(p)' <=> Hopeless(p)
  BY <1>1, PartKept
<1>4. ASSUME NEW q \in Lanes, index < q PROVE FALSE
  <2>1. NPartitions \in Nat /\ Partitions = 0 .. NPartitions-1 /\ config.lanes \in Nat
    BY <1>2, ConfigFacts
  <2>2. group \in Nat /\ index \in Nat /\ q \in Nat /\ group <= index /\ q < group + config.lanes
        /\ q \in Partitions
    BY <1>2, <1>4 DEF Lanes, TypeOK
  <2>3. index + 1 \in Partitions /\ group <= index + 1 /\ index + 1 < group + config.lanes
    BY <1>4, <2>1, <2>2
  <2> QED
    BY <1>1, <2>3 DEF Lanes
<1>5. ASSUME ~config.add, NEW q \in Lanes, q \notin failed PROVE Complete(q)
  <2>1. q < index \/ q = index
    BY <1>2, <1>4, <1>5
  <2>2. CASE q < index
    BY <1>1, <1>5, <2>2 DEF LoopInv, LaneInv
  <2>3. CASE q = index
    <3>1. Filled(index, 0) /\ dropped[index] = 0
      BY <1>1, <1>5, <2>3 DEF LoopInv, FillInv, LaneInv
    <3> QED
      BY <1>1, <1>2, <1>5, <2>3, <3>1, FilledAll DEF Complete
  <2> QED
    BY <2>1, <2>2, <2>3
<1>6. SeedInv'
  <2>1. pc' # "again"
    BY DEF AllLanes, Return
  <2> QED
    BY <1>1, <1>2, <1>3, <2>1 DEF LoopInv, SeedInv
<1>7. CASE failed # {} /\ config.retry
  <2>1. /\ pc' = "retry" /\ index' = Min(failed) /\ attempt' = 0 /\ success' = success
    BY <1>7 DEF AllLanes
  <2>2. Min(failed) \in failed
    BY <1>7, MinFailed
  <2>3. ModeInv' /\ FillInv'
    BY <1>1, <1>2, <1>7, <2>1, <2>2 DEF LoopInv, ModeInv, FillInv, Active
  <2>4. GroupInv'
    BY <1>1, <2>1, GroupsUnmoved DEF Active
  <2>5. LaneInv'
    <3>1. ~config.add => \A q \in failed : Failed(q)
      BY <1>1 DEF LoopInv, LaneInv
    <3>2. ~config.add => dropped[Min(failed)] = 1 /\ seeds[Min(failed)] = 0
      BY <2>2, <3>1 DEF Failed
    <3> QED
      BY <1>1, <1>2, <1>3, <1>5, <2>1, <3>1, <3>2 DEF LaneInv
  <2> QED
    BY <1>6, <2>3, <2>4, <2>5 DEF LoopInv
<1>8. CASE ~ (failed # {} /\ config.retry)
  <2>1. /\ pc' = (IF config.add THEN "idle" ELSE "next")
        /\ success' = (success /\ failed = {}) /\ attempt' = attempt
    BY <1>8 DEF AllLanes, Return
  <2>2. ModeInv' /\ FillInv' /\ LaneInv' /\ Current' = {}
    BY <1>1, <2>1 DEF LoopInv, ModeInv, FillInv, LaneInv, Active, Current
  <2>3. GroupInv'
    <3>1. SUFFICES ASSUME ~config.add
          PROVE  /\ \A p \in Waiting : Untouched(p)
                 /\ success /\ failed = {} => \A p \in Partitions \ Waiting : Complete(p)
                 /\ ~ (success /\ failed = {}) => \E p \in Partitions \ Waiting : Hopeless(p)
      BY <1>1, <1>2, <1>3, <2>1, <2>2 DEF GroupInv, Active
    <3>2. /\ \A p \in Waiting : Untouched(p)
          /\ success => \A p \in Partitions \ (Waiting \cup Lanes) : Complete(p)
          /\ ~success => \E p \in Partitions \ (Waiting \cup Lanes) : Hopeless(p)
      BY <1>2, <3>1 DEF LoopInv, GroupInv
    <3>3. success /\ failed = {} => \A p \in Partitions \ Waiting : Complete(p)
      BY <1>5, <3>1, <3>2
    <3>4. ASSUME failed # {} PROVE \E p \in Partitions \ Waiting : Hopeless(p)
      <4>1. PICK p \in failed : TRUE
        BY <3>4
      <4>2. Failed(p)
        BY <1>1, <3>1, <4>1 DEF LoopInv, LaneInv
      <4>3. Hopeless(p)
        BY <1>8, <3>4, <4>2 DEF Failed, Hopeless
      <4> QED
        BY <1>2, <3>1, <4>1, <4>3
    <3> QED
      BY <3>2, <3>3, <3>4
  <2> QED
    BY <1>6, <2>2, <2>3 DEF LoopInv
<1> QED
  BY <1>7, <1>8

(* The partition is cleared for the next seed. *)
LEMMA NextSeedLoops ==
  ASSUME TypeOK, LoopInv, NextSeed
  PROVE  LoopInv'
<1>1. /\ pc = "retry" /\ pc' = "again" /\ config' = config /\ hand = Null /\ hand' = Null
      /\ hash' = [x \in AllKeys |-> IF x[1] = index THEN Null ELSE hash[x]]
      /\ dropped' = [dropped EXCEPT ![index] = 0]
      /\ attempt' = attempt + 1 /\ begin' = 0
      /\ UNCHANGED <<todo, group, success, index, failed, seeds>>
  BY DEF NextSeed, LoopInv, ModeInv, loopVars
<1>2. /\ config \in Configs /\ index \in Lanes /\ index \in Partitions /\ failed \subseteq Lanes
      /\ Lanes \subseteq Partitions /\ index \in failed
      /\ Partitions' = Partitions /\ Lanes' = Lanes /\ dropped \in [Partitions -> Nat]
  BY <1>1, LaneFacts, GroupsKept DEF Active, LoopInv, FillInv, TypeOK
<1>3. ASSUME NEW q \in Partitions
      PROVE  \A x \in KeysOf(q) : hash'[x] = IF q = index THEN Null ELSE hash[x]
  <2>1. \A x \in KeysOf(q) : x \in AllKeys /\ x[1] = q
    BY <1>3, KeyFacts DEF AllKeys
  <2> QED
    BY <1>1, <2>1
<1>4. ASSUME NEW q \in Partitions, q # index
      PROVE  /\ \A x \in KeysOf(q) : hash'[x] = hash[x]
             /\ Begun(q)' = Begun(q) /\ dropped'[q] = dropped[q]
             /\ Complete(q)' <=> Complete(q)
             /\ Failed(q)' <=> Failed(q)
  BY <1>1, <1>2, <1>3, <1>4, PartKept
<1>5. ModeInv'
  BY <1>1 DEF LoopInv, ModeInv
<1>6. FillInv'
  <2>1. PICK p, s : p = index /\ s = attempt + 1
    OBVIOUS
  <2>2. Filled(p, s)'
    BY <1>1, <1>2, <1>3, <2>1, FilledNone
  <2>3. Filled(index, attempt)'
    BY <1>1, <2>1, <2>2, FilledHere
  <2> QED
    BY <1>1, <1>2, <2>3 DEF FillInv, Active
<1>7. SeedInv'
  BY <1>1, <1>2, <1>4 DEF LoopInv, SeedInv, Begun
<1>8. GroupInv'
  BY <1>1, <1>4, GroupsUnmoved DEF Active
<1>9. LaneInv'
  BY <1>1, <1>2, <1>4 DEF LoopInv, LaneInv
<1> QED
  BY <1>5, <1>6, <1>7, <1>8, <1>9 DEF LoopInv

(* The keys of a partition have all found a place under another seed. *)
LEMMA BuiltLoops ==
  ASSUME TypeOK, LoopInv, Built
  PROVE  LoopInv'
<1>1. /\ pc = "again" /\ config' = config /\ hand = Null /\ hand' = Null
      /\ begin = config.histogram[index]
      /\ seeds' = [seeds EXCEPT ![index] = attempt] /\ failed' = failed \ {index}
      /\ UNCHANGED <<todo, group, success, begin, hash, dropped>>
  BY DEF Built, loopVars, insertVars
<1>2. /\ config \in Configs /\ index \in Lanes /\ index \in Partitions /\ failed \subseteq Lanes
      /\ Lanes \subseteq Partitions /\ index \in failed /\ Current = Lanes
      /\ Partitions' = Partitions /\ Lanes' = Lanes /\ Waiting' = Waiting
      /\ seeds \in [Partitions -> 0..NSeeds]
      /\ ~config.add => Lanes \cap Waiting = {}
  BY <1>1, LaneFacts, GroupsKept DEF Active, LoopInv, FillInv, TypeOK
<1>3. ASSUME NEW q \in Partitions
      PROVE  /\ Begun(q)' = Begun(q)
             /\ Complete(q)' <=> Complete(q)
             /\ q # index => /\ seeds'[q] = seeds[q]
                             /\ Untouched(q)' <=> Untouched(q)
                             /\ Failed(q)' <=> Failed(q)
                             /\ Hopeless(q)' <=> Hopeless(q)
  BY <1>1, <1>2, <1>3, PartKept
<1>4. config.retry /\ ~config.add
  <2>1. config.add => ~config.retry
    BY <1>2, ConfigFacts
  <2> QED
    BY <1>1, <2>1 DEF LoopInv, ModeInv
<1>5. PICK p, s : p = index /\ s = attempt
  OBVIOUS
<1>6. Filled(p, s)
  BY <1>1, <1>5 DEF LoopInv, FillInv
<1>7. Complete(p)
  <2>1. dropped[p] = 0
    BY <1>1, <1>4, <1>5 DEF LoopInv, LaneInv
  <2> QED
    BY <1>1, <1>2, <1>5, <1>6, <2>1, FilledAll DEF Complete
<1>8. /\ \A q \in Lanes \ failed : Complete(q)
      /\ \A q \in failed \ {p} : Failed(q)
  BY <1>1, <1>4, <1>5 DEF LoopInv, LaneInv
<1>9. SeedInv'
  <2>1. pc' # "again"
    BY DEF Built, Return
  <2>2. \A x \in Begun(p) : hash[x].seed = s
    BY <1>6 DEF Filled
  <2>3. seeds'[p] = s
    BY <1>1, <1>2, <1>5
  <2>4. \A q \in Partitions : q # p => \A x \in Begun(q) : hash[x].seed = seeds[q]
    BY <1>5 DEF LoopInv, SeedInv
  <2> QED
    BY <1>1, <1>2, <1>3, <1>4, <1>5, <2>1, <2>2, <2>3, <2>4 DEF SeedInv
<1>10. CASE failed' # {}
  <2>1. pc' = "retry" /\ index' = Min(failed \ {p}) /\ attempt' = 0
    BY <1>1, <1>5, <1>10 DEF Built
  <2>2. PICK q : q = Min(failed \ {p})
    OBVIOUS
  <2>3. q \in failed \ {p}
    BY <1>1, <1>5, <1>10, <2>2, MinFailed
  <2>4. ModeInv' /\ FillInv'
    BY <1>1, <1>2, <1>4, <1>5, <2>1, <2>2, <2>3 DEF LoopInv, ModeInv, FillInv, Active
  <2>5. GroupInv'
    BY <1>1, <1>3, <2>1, GroupsUnmoved DEF Active
  <2>6. LaneInv'
    <3>1. Failed(q)'
      BY <1>2, <1>3, <1>5, <1>8, <2>3
    <3>2. dropped'[q] = 1 /\ seeds'[q] = 0
      BY <3>1 DEF Failed
    <3>3. \A r \in Lanes \ failed' : Complete(r)'
      BY <1>1, <1>2, <1>3, <1>5, <1>7, <1>8
    <3>4. \A r \in failed' \ {q} : Failed(r)'
      BY <1>1, <1>2, <1>3, <1>5, <1>8
    <3> QED
      BY <1>2, <2>1, <2>2, <3>2, <3>3, <3>4 DEF LaneInv
  <2> QED
    BY <1>9, <2>4, <2>5, <2>6 DEF LoopInv
<1>11. CASE failed' = {}
  <2>1. pc' = "next"
    BY <1>1, <1>4, <1>11 DEF Built, Return
  <2>2. ModeInv' /\ FillInv' /\ LaneInv' /\ Current' = {}
    BY <1>1, <1>4, <2>1 DEF LoopInv, ModeInv, FillInv, LaneInv, Active, Current
  <2>3. GroupInv'
    <3>1. /\ \A q \in Waiting : Untouched(q)
          /\ success => \A q \in Partitions \ (Waiting \cup Lanes) : Complete(q)
          /\ ~success => \E q \in Partitions \ (Waiting \cup Lanes) : Hopeless(q)
      BY <1>2, <1>4 DEF LoopInv, GroupInv
    <3>2. \A q \in Lanes : Complete(q)
      BY <1>1, <1>5, <1>7, <1>8, <1>11
    <3>3. success => \A q \in Partitions \ Waiting : Complete(q)'
      BY <1>2, <1>3, <3>1, <3>2
    <3>4. \A q \in Waiting : Untouched(q)'
      BY <1>2, <1>3, <1>4, <3>1 DEF Waiting
    <3>5. ~success => \E q \in Partitions \ Waiting : Hopeless(q)'
      BY <1>2, <1>3, <3>1
    <3> QED
      BY <1>1, <1>2, <2>1, <2>2, <3>3, <3>4, <3>5 DEF GroupInv, Active
  <2> QED
    BY <1>9, <2>2, <2>3 DEF LoopInv
<1> QED
  BY <1>10, <1>11

(* No seed worked. *)
LEMMA GiveUpLoops ==
  ASSUME TypeOK, LoopInv, GiveUp
  PROVE  LoopInv'
<1>1. /\ pc = "retry" /\ attempt = NSeeds /\ config' = config /\ hand = Null /\ hand' = Null
      /\ success' = FALSE
      /\ UNCHANGED <<todo, group, index, failed, begin, seeds, hash, dropped>>
  BY DEF GiveUp, LoopInv, ModeInv, insertVars, retryVars
<1>2. /\ config \in Configs /\ index \in Lanes /\ index \in Partitions
      /\ Partitions' = Partitions /\ Waiting' = Waiting
      /\ ~config.add => Lanes \cap Waiting = {}
  BY <1>1, LaneFacts, GroupsKept DEF Active
<1>3. ASSUME NEW p
      PROVE  /\ Begun(p)' = Begun(p)
             /\ Untouched(p)' <=> Untouched(p)
             /\ Hopeless(p)' <=> Hopeless(p)
  BY <1>1, PartKept
<1>4. config.retry /\ ~config.add
  <2>1. config.add => ~config.retry
    BY <1>2, ConfigFacts
  <2> QED
    BY <1>1, <2>1 DEF LoopInv, ModeInv
<1>5. pc' = "next"
  BY <1>4 DEF GiveUp, Return
<1>6. ModeInv' /\ FillInv' /\ LaneInv' /\ Current' = {}
  BY <1>1, <1>4, <1>5 DEF LoopInv, ModeInv, FillInv, LaneInv, Active, Current
<1>7. SeedInv'
  BY <1>1, <1>2, <1>3, <1>5 DEF LoopInv, SeedInv
<1>8. GroupInv'
  <2>1. Hopeless(index)
    BY <1>1, <1>4 DEF LoopInv, LaneInv, Hopeless
  <2>2. \A p \in Waiting : Untouched(p)
    BY <1>4 DEF LoopInv, GroupInv
  <2>3. \E p \in Partitions \ Waiting : Hopeless(p)'
    BY <1>2, <1>3, <1>4, <2>1
  <2> QED
    BY <1>1, <1>2, <1>3, <1>5, <1>6, <2>2, <2>3 DEF GroupInv, Active
<1> QED
  BY <1>6, <1>7, <1>8 DEF LoopInv

(* A key is added. *)
LEMMA AddLoops ==
  ASSUME TypeOK, Shape, LoopInv, NEW p \in Partitions, NEW x \in KeysOf(p), add(x)
  PROVE  LoopInv'
<1>1. /\ pc = "idle" /\ pc' = "adding" /\ config' = config /\ config.add /\ x[1] = p
      /\ UNCHANGED <<todo, group, seeds>>
  BY KeyFacts DEF add, LoopInv, ModeInv, loopVars, retryVars
<1>2. PICK h \in HashValues : StartInsert(x, h, 0)
  BY DEF add
<1>3. /\ hand' # Null /\ hash'[x].seed = 0
      /\ \A y \in AllKeys : y # x => hash'[y] = hash[y]
  <2>1. 0 \in 0..NSeeds
    BY SeedsAssumption
  <2> QED
    BY <1>2, <2>1, StartFacts
<1>4. ModeInv' /\ FillInv' /\ GroupInv' /\ LaneInv'
  BY <1>1, <1>3 DEF LoopInv, ModeInv, FillInv, Active, GroupInv, LaneInv
<1>5. SeedInv'
  <2>1. ~config.retry /\ Partitions' = Partitions /\ \A q : KeysOf(q)' = KeysOf(q)
    BY <1>1, ConfigFacts, ConfigKept DEF TypeOK
  <2>2. /\ \A q \in Partitions : seeds[q] = 0
        /\ \A q \in Partitions : \A y \in Begun(q) : hash[y].seed = 0
    BY <1>1, <2>1 DEF LoopInv, SeedInv
  <2>3. ASSUME NEW q \in Partitions, NEW y \in KeysOf(q), hash'[y] # Null PROVE hash'[y].seed = 0
    BY <1>3, <2>2, <2>3 DEF Begun, AllKeys
  <2> QED
    BY <1>1, <2>1, <2>2, <2>3 DEF SeedInv, Begun
<1> QED
  BY <1>4, <1>5 DEF LoopInv

(* Every step keeps construct on its way. *)
LEMMA LoopStep ==
  ASSUME Invertible, TypeOK, Shape, LoopInv, MatchInv, [Next]_vars
  PROVE  LoopInv'
<1>1. hand # Null => pc \in {"first", "again", "adding"}
  BY DEF LoopInv, ModeInv
<1>2. CASE SecondBucket
  <2>1. hand # Null /\ hand' \in [fingerprint : Nat, address : Nat]
    BY <1>2, HandBuckets, SecondKeepsMatch DEF SecondBucket
  <2>2. hand' # Null
    BY <2>1, NullAssumption
  <2> QED
    BY <1>2, <2>1, <2>2, MoveLoops DEF SecondBucket, loopVars, retryVars
<1>3. CASE evict_victim
  <2>1. hand # Null /\ hand' \in [fingerprint : Nat, address : Nat]
    BY <1>3, HandBuckets, EvictKeepsMatch DEF evict_victim, Evict
  <2>2. hand' # Null
    BY <2>1, NullAssumption
  <2> QED
    BY <1>3, <2>1, <2>2, MoveLoops DEF evict_victim, Evict, loopVars, retryVars
<1>4. CASE UNCHANGED vars
  BY <1>4, MoveLoops DEF vars, loopVars, insertVars, retryVars
<1>5. CASE NextKey
  <2>1. 0 \in 0..NSeeds
    BY SeedsAssumption
  <2> QED
    BY <1>5, <2>1, StartLoops DEF NextKey
<1>6. CASE NextKeyAgain
  <2>1. attempt \in 0..NSeeds
    BY DEF TypeOK
  <2> QED
    BY <1>6, <2>1, StartLoops DEF NextKeyAgain
<1>7. CASE NextGroup
  BY <1>7, GroupLoops DEF NextGroup
<1>8. ASSUME NEW p \in Partitions, add_partition(p) PROVE LoopInv'
  BY <1>8, GroupLoops DEF add_partition
<1>9. ASSUME NEW p \in Partitions, NEW x \in KeysOf(p), add(x) PROVE LoopInv'
  BY <1>9, AddLoops
<1> QED
  BY <1>2, <1>3, <1>4, <1>5, <1>6, <1>7, <1>8, <1>9, PlaceLoops, FinishedLoops, LaneFailsLoops,
     NextLaneLoops, AllLanesLoops, NextSeedLoops, BuiltLoops, AttemptFailsLoops, GiveUpLoops,
     AddFailsLoops DEF Next, Work, Client, Insert

-----------------------------------------------------------------------------
(* The invariant holds. *)

(* Every step keeps every fingerprint matched with a key. *)
LEMMA MatchStep ==
  ASSUME Invertible, TypeOK, Shape, LoopInv, MatchInv, [Next]_vars
  PROVE  MatchInv'
<1>1. hand # Null => pc \in {"first", "again", "adding"}
  BY DEF LoopInv, ModeInv
<1>2. CASE Place
  BY <1>2, PlaceKeepsMatch
<1>3. CASE SecondBucket
  BY <1>3, HandBuckets, SecondKeepsMatch DEF SecondBucket
<1>4. CASE evict_victim
  <2>1. Evict /\ hand # Null
    BY <1>4 DEF evict_victim, Evict
  <2> QED
    BY <2>1, HandBuckets, EvictKeepsMatch
<1>5. CASE LaneFails \/ AddFails
  BY <1>5, LoseKeepsMatch DEF LaneFails, AddFails, Lose
<1>6. CASE AttemptFails
  BY <1>6, LoseKeepsMatch DEF AttemptFails
<1>7. CASE NextSeed
  BY <1>1, <1>7, ClearKeepsMatch DEF NextSeed
<1>8. CASE NextGroup \/ (\E p \in Partitions : add_partition(p))
  BY <1>1, <1>8, LoopsKeepMatch DEF NextGroup, add_partition, insertVars
<1>9. CASE NextLane \/ AllLanes
  BY <1>9, LaneEndsEmpty, LoopsKeepMatch DEF NextLane, AllLanes, insertVars
<1>10. CASE Finished \/ Built \/ GiveUp \/ UNCHANGED vars
  BY <1>1, <1>10, LoopsKeepMatch DEF Finished, Built, GiveUp, vars, insertVars
<1>11. ASSUME NEW p \in Partitions, NEW x \in KeysOf(p), hash[x] = Null, index' = p, hand = Null,
              NEW h \in HashValues, NEW seed \in 0..NSeeds, StartInsert(x, h, seed),
              UNCHANGED <<config, filter, dropped>>
       PROVE  MatchInv'
  <2>1. hand' # Null /\ hash'[x] # Null
    BY <1>11, StartFacts
  <2>2. x \in AllKeys /\ x[1] = p /\ seed \in Nat
    BY <1>11, KeyFacts, SeedsAssumption DEF AllKeys
  <2> QED
    BY <1>11, <2>1, <2>2, StartKeepsMatch
<1>12. CASE NextKey \/ NextKeyAgain
  <2>1. PICK p, x, s : p = index /\ x = <<p, begin>> /\ s = (IF pc = "first" THEN 0 ELSE attempt)
    OBVIOUS
  <2>2. s \in 0..NSeeds
    BY <2>1, SeedsAssumption DEF TypeOK
  <2>3. p \in Partitions /\ begin \in 0 .. config.histogram[p] - 1 /\ Filled(p, s)
    <3>1. config.histogram[p] \in Nat
      BY <2>1, SizeFacts DEF TypeOK
    <3> QED
      BY <1>12, <2>1, <3>1 DEF TypeOK, NextKey, NextKeyAgain, LoopInv, FillInv
  <2>4. x \in KeysOf(p) /\ x[2] = begin
    BY <2>1, <2>3 DEF KeysOf
  <2>5. hand = Null
    BY <1>12 DEF NextKey, NextKeyAgain
  <2>6. hash[x] = Null
    BY <2>3, <2>4, <2>5 DEF Filled, TypeOK
  <2>7. PICK h \in HashValues : StartInsert(x, h, s)
    BY <1>12, <2>1 DEF NextKey, NextKeyAgain
  <2>8. index' = p /\ UNCHANGED <<config, filter, dropped>>
    BY <1>12, <2>1 DEF NextKey, NextKeyAgain
  <2> QED
    BY <1>11, <2>2, <2>3, <2>4, <2>5, <2>6, <2>7, <2>8
<1>13. ASSUME NEW p \in Partitions, NEW x \in KeysOf(p), add(x) PROVE MatchInv'
  <2>1. PICK h \in HashValues : StartInsert(x, h, 0)
    BY <1>13 DEF add
  <2>2. /\ hash[x] = Null /\ hand = Null /\ index' = p /\ 0 \in 0..NSeeds
        /\ UNCHANGED <<config, filter, dropped>>
    BY <1>1, <1>13, KeyFacts, SeedsAssumption DEF add
  <2> QED
    BY <1>11, <1>13, <2>1, <2>2
<1> QED
  BY <1>2, <1>3, <1>4, <1>5, <1>6, <1>7, <1>8, <1>9, <1>10, <1>12, <1>13
  DEF Next, Work, Client, Insert

(* Before the first step. *)
LEMMA InitInv ==
  ASSUME Init, AlternativesLeadBack
  PROVE  Invertible /\ IInv
<1>1. /\ config \in Configs /\ Partitions \subseteq Nat /\ 0 \in Partitions
      /\ Partitions = 0 .. NPartitions-1 /\ NPartitions \in Nat
      /\ config.lanes \in Nat \ {0} /\ config.add \in BOOLEAN
  BY ConfigFacts DEF Init
<1>2. NSeeds \in Nat /\ MAX_ITERATION \in Nat
  BY SeedsAssumption, IterationAssumption
<1>3. ASSUME NEW p \in Partitions PROVE Begun(p) = {} /\ dropped[p] = 0 /\ seeds[p] = 0
  BY <1>3 DEF Init, AllKeys, Begun
<1>4. Invertible
  <2>1. Begun(0) = {}
    BY <1>1, <1>3
  <2> QED
    BY <2>1 DEF AlternativesLeadBack, Invertible
<1>5. TypeOK
  <2>1. LoopType
    BY <1>1, <1>2 DEF Init, LoopType
  <2>2. HashType /\ HandType
    BY DEF Init, HashType, HandType
  <2>3. FilterType
    BY DEF Init, Empty, FilterType
  <2> QED
    BY <2>1, <2>2, <2>3, TypeParts
<1>6. Shape
  BY DEF Init, Shape
<1>7. Waiting = Partitions
  <2>1. ASSUME NEW p \in Partitions PROVE p \in Waiting
    <3>1. PICK l \in Nat \ {0} : l = config.lanes
      BY <1>1
    <3>2. PICK q : q = p \div l
      OBVIOUS
    <3>3. q \in Nat /\ l * q <= p /\ p < l * q + l /\ p \in Nat
      BY <1>1, <2>1, <3>1, <3>2, Division
    <3>4. l * q \in Nat /\ (l * q) % l = 0
      BY <3>1, <3>3, Multiple, MultiplesApart
    <3>5. l * q \in Partitions /\ p \in GroupOf(l * q)
      BY <1>1, <2>1, <3>1, <3>3, <3>4 DEF GroupOf
    <3>6. l * q \in todo
      BY <3>1, <3>4, <3>5 DEF Init
    <3> QED
      BY <2>1, <3>5, <3>6 DEF Waiting
  <2> QED
    BY <2>1 DEF Waiting
<1>8. LoopInv
  <2>1. ModeInv
    <3>1. 0 % config.lanes = 0
      BY <1>1
    <3> QED
      BY <1>1, <3>1 DEF Init, ModeInv
  <2>2. FillInv /\ LaneInv
    BY DEF Init, FillInv, LaneInv, Active
  <2>3. SeedInv
    BY <1>3 DEF SeedInv
  <2>4. GroupInv
    BY <1>3, <1>7 DEF Init, GroupInv, Active, Untouched
  <2> QED
    BY <2>1, <2>2, <2>3, <2>4 DEF LoopInv
<1>9. MatchInv
  <2>1. SUFFICES ASSUME NEW p \in Partitions PROVE Matched(p) /\ Counted(p)
    BY DEF MatchInv
  <2>2. Taken(p) = {}
    <3>1. ASSUME NEW t \in Cells(p) PROVE In(p, t) = 0
      <4>1. /\ offset(p) + t[1] \in 0 .. n_bytes - 1 /\ t[2] \in Slots
            /\ In(p, t) = filter[offset(p) + t[1]][t[2]]
        BY <1>5, <3>1, CellFacts
      <4>2. filter = Empty
        BY DEF Init
      <4> QED
        BY <4>1, <4>2 DEF Empty
    <3> QED
      BY <3>1, TakenSlots
  <2>3. Begun(p) = {} /\ dropped[p] = 0 /\ HandClasses(p) = {}
    BY <1>3 DEF Init, HandClasses, InHand
  <2>4. Matched(p)
    <3>1. DOMAIN SlotClasses(p) = {} /\ DOMAIN KeyClasses(p) = {}
      BY <2>2, <2>3 DEF SlotClasses, KeyClasses
    <3>2. PICK none : none = [t \in {} |-> 0]
      OBVIOUS
    <3>3. none \in [{} -> {}]
      BY <3>2
    <3>4. OneEach(SlotClasses(p), KeyClasses(p), {})
      BY <3>1, <3>3 DEF OneEach
    <3> QED
      BY <2>3, <3>4 DEF Matched
  <2>5. Counted(p)
    BY <2>2, <2>3, FS_EmptySet DEF Counted
  <2> QED
    BY <2>4, <2>5
<1> QED
  BY <1>4, <1>5, <1>6, <1>8, <1>9 DEF IInv

(* The inductive invariant: where the loops are, and a key for every       *)
(* fingerprint that lies in a slot or is on its way.                       *)
THEOREM CuckooInvariance == Spec /\ AlternativesLeadBack => [](Invertible /\ IInv)
<1>1. Init /\ AlternativesLeadBack => Invertible /\ IInv
  BY InitInv
<1>2. Invertible /\ IInv /\ [Next]_vars => (Invertible /\ IInv)'
  <2>1. SUFFICES ASSUME Invertible, IInv, [Next]_vars PROVE Invertible' /\ IInv'
    OBVIOUS
  <2>2. TypeOK /\ Shape /\ LoopInv /\ MatchInv
    BY <2>1 DEF IInv
  <2>3. config' = config
    BY <2>1 DEF Next, Work, Client, Insert, vars, Place, SecondBucket, evict_victim, Evict,
         NextGroup, Finished, NextKey, LaneFails, Lose, NextLane, AllLanes, NextSeed,
         NextKeyAgain, Built, AttemptFails, GiveUp, AddFails, add_partition, add
  <2>4. Invertible'
    BY <2>1, <2>3 DEF Invertible
  <2>5. TypeOK' /\ Shape' /\ LoopInv' /\ MatchInv'
    BY <2>1, <2>2, TypeStep, LoopStep, MatchStep
  <2> QED
    BY <2>4, <2>5 DEF IInv
<1> QED
  BY <1>1, <1>2, PTL DEF Spec

-----------------------------------------------------------------------------
(* What the cuckoo filter promises, for every addresser from whose buckets *)
(* the alternatives lead back.                                             *)

(* The types of the variables: 0 is no fingerprint of a key, and every     *)
(* address lies in its partition.                                          *)
THEOREM TypeCorrect == Spec /\ AlternativesLeadBack => []TypeOK
<1>1. IInv => TypeOK
  BY DEF IInv
<1> QED
  BY <1>1, CuckooInvariance, PTL

(* Insertion neither invents nor loses fingerprints, but for the one that  *)
(* every failed insertion reports as lost: bucket_insert, the evictions    *)
(* and the clearing of a partition keep the counts of every class.         *)
THEOREM FingerprintsConserved == Spec /\ AlternativesLeadBack => []Conserved
<1>1. IInv => Conserved
  <2>1. SUFFICES ASSUME IInv, NEW p \in Partitions
        PROVE  /\ Cardinality(Taken(p)) + (IF InHand(p) THEN 1 ELSE 0) + dropped[p]
                    = Cardinality(Begun(p))
               /\ \A x \in Begun(p) :
                    Cardinality({t \in Taken(p) : ClassIn(p, t) = ClassOf(x)})
                      + (IF InHand(p) /\ Class(p, hand.fingerprint, hand.address) = ClassOf(x)
                         THEN 1 ELSE 0)
                    <= Cardinality({y \in Begun(p) : ClassOf(y) = ClassOf(x)})
               /\ \A t \in Taken(p) : \E x \in Begun(p) : ClassIn(p, t) = ClassOf(x)
    BY DEF Conserved
  <2>2. /\ Matched(p) /\ Counted(p)
        /\ IsFiniteSet(Begun(p)) /\ IsFiniteSet(Taken(p))
    BY <2>1, FiniteParts DEF IInv, MatchInv, TypeOK
  <2>3. PICK slots, keys, inHand :
          slots = SlotClasses(p) /\ keys = KeyClasses(p) /\ inHand = HandClasses(p)
    OBVIOUS
  <2>4. /\ DOMAIN slots = Taken(p) /\ \A t \in Taken(p) : slots[t] = ClassIn(p, t)
        /\ DOMAIN keys = Begun(p) /\ \A x \in Begun(p) : keys[x] = ClassOf(x)
    BY <2>3 DEF SlotClasses, KeyClasses
  <2>5. OneEach(slots, keys, inHand)
    BY <2>2, <2>3 DEF Matched
  <2>6. Cardinality(inHand) = IF InHand(p) THEN 1 ELSE 0
    BY <2>3, FS_Singleton, FS_EmptySet DEF HandClasses
  <2>7. Cardinality(Taken(p)) + (IF InHand(p) THEN 1 ELSE 0) + dropped[p]
          = Cardinality(Begun(p))
    BY <2>2, <2>3, <2>6 DEF Counted
  <2>8. ASSUME NEW x \in Begun(p)
        PROVE  Cardinality({t \in Taken(p) : ClassIn(p, t) = ClassOf(x)})
                 + (IF InHand(p) /\ Class(p, hand.fingerprint, hand.address) = ClassOf(x)
                    THEN 1 ELSE 0)
               <= Cardinality({y \in Begun(p) : ClassOf(y) = ClassOf(x)})
    <3>1. PICK k : k = ClassOf(x)
      OBVIOUS
    <3>2. Cardinality({t \in DOMAIN slots : slots[t] = k}) + (IF k \in inHand THEN 1 ELSE 0)
            <= Cardinality({y \in DOMAIN keys : keys[y] = k})
      BY <2>2, <2>4, <2>5, MatchCounts
    <3>3. /\ {t \in DOMAIN slots : slots[t] = k} = {t \in Taken(p) : ClassIn(p, t) = k}
          /\ {y \in DOMAIN keys : keys[y] = k} = {y \in Begun(p) : ClassOf(y) = k}
      BY <2>4
    <3>4. k \in inHand <=> InHand(p) /\ Class(p, hand.fingerprint, hand.address) = k
      BY <2>3 DEF HandClasses
    <3> QED
      BY <3>1, <3>2, <3>3, <3>4
  <2>9. ASSUME NEW t \in Taken(p) PROVE \E x \in Begun(p) : ClassIn(p, t) = ClassOf(x)
    BY <2>4, <2>5, <2>9 DEF OneEach
  <2> QED
    BY <2>7, <2>8, <2>9
<1> QED
  BY <1>1, CuckooInvariance, PTL

(* Between insertions a key whose class a taken slot has is found there. *)
LEMMA FoundInClass ==
  ASSUME IInv, hand = Null, pc # "again", NEW p \in Partitions, NEW x \in Begun(p),
         NEW t \in Taken(p), ClassIn(p, t) = ClassOf(x)
  PROVE  contains(x)
<1>1. x[1] = p /\ hash[x] # Null
  BY KeyFacts DEF Begun
<1>2. hash[x].seed = seeds[p]
  BY DEF IInv, LoopInv, SeedInv
<1>3. t[1] \in 0 .. size(p) - 1 /\ t[2] \in Slots
  BY DEF Taken
<1>4. PICK a, b, f, i : /\ a = t[1] /\ i = t[2] /\ f = bucket(p, t[1])[t[2]]
                        /\ b = hash[x].address
  OBVIOUS
<1>5. <<p, f, {a, alternative(p, a, f)}>>
        = <<p, hash[x].fingerprint, {b, alternative(p, b, hash[x].fingerprint)}>>
  BY <1>1, <1>4 DEF ClassIn, ClassOf, Class
<1>6. f = hash[x].fingerprint /\ a \in {b, alternative(p, b, f)}
  BY <1>5
<1> QED
  BY <1>1, <1>2, <1>3, <1>4, <1>6 DEF contains

(* Between insertions the keys that are not found are at most as many as   *)
(* insertions have failed.                                                 *)
LEMMA FewMissing ==
  ASSUME IInv, hand = Null, pc # "again", NEW p \in Partitions
  PROVE  /\ IsFiniteSet({x \in Begun(p) : ~contains(x)})
         /\ Cardinality({x \in Begun(p) : ~contains(x)}) <= dropped[p]
<1>1. /\ Matched(p) /\ Counted(p) /\ dropped[p] \in Nat
      /\ IsFiniteSet(Begun(p)) /\ IsFiniteSet(Taken(p))
  BY FiniteParts DEF IInv, MatchInv, TypeOK
<1>2. PICK slots, keys : slots = SlotClasses(p) /\ keys = KeyClasses(p)
  OBVIOUS
<1>3. /\ DOMAIN slots = Taken(p) /\ \A t \in Taken(p) : slots[t] = ClassIn(p, t)
      /\ DOMAIN keys = Begun(p) /\ \A x \in Begun(p) : keys[x] = ClassOf(x)
  BY <1>2 DEF SlotClasses, KeyClasses
<1>4. OneEach(slots, keys, HandClasses(p))
  BY <1>1, <1>2 DEF Matched
<1>5. PICK M : M = {x \in DOMAIN keys : \A t \in DOMAIN slots : slots[t] # keys[x]}
  OBVIOUS
<1>6. /\ Cardinality(M) <= Cardinality(Begun(p)) - Cardinality(Taken(p))
      /\ IsFiniteSet(M)
  <2>1. IsFiniteSet(DOMAIN slots) /\ IsFiniteSet(DOMAIN keys)
    BY <1>1, <1>3
  <2>2. /\ Cardinality({x \in DOMAIN keys : \A t \in DOMAIN slots : slots[t] # keys[x]})
             <= Cardinality(DOMAIN keys) - Cardinality(DOMAIN slots)
        /\ IsFiniteSet({x \in DOMAIN keys : \A t \in DOMAIN slots : slots[t] # keys[x]})
    BY <1>4, <2>1, MatchMissing
  <2> QED
    BY <1>3, <1>5, <2>2
<1>7. {x \in Begun(p) : ~contains(x)} \in SUBSET M
  BY <1>3, <1>5, FoundInClass
<1>8. /\ IsFiniteSet({x \in Begun(p) : ~contains(x)})
      /\ Cardinality({x \in Begun(p) : ~contains(x)}) <= Cardinality(M)
  BY <1>6, <1>7, FS_Subset
<1>9. Cardinality(HandClasses(p)) = 0
  BY NothingInHand, FS_EmptySet
<1>10. /\ Cardinality(Begun(p)) \in Nat /\ Cardinality(Taken(p)) \in Nat /\ Cardinality(M) \in Nat
       /\ Cardinality({x \in Begun(p) : ~contains(x)}) \in Nat
  BY <1>1, <1>6, <1>8, FS_CardinalityType
<1> QED
  BY <1>1, <1>6, <1>8, <1>9, <1>10 DEF Counted

(* A failed insertion may cost an earlier key, but only one: between calls *)
(* of insert no more keys are missing than insertions have failed.         *)
THEOREM LossesAreReported == Spec /\ AlternativesLeadBack => []LossesReported
<1>1. IInv => LossesReported
  <2>1. SUFFICES ASSUME IInv, pc \in {"idle", "next", "done"}, NEW p \in Partitions
        PROVE  Cardinality({x \in Begun(p) : ~contains(x)}) <= dropped[p]
    BY DEF LossesReported
  <2>2. hand = Null /\ pc # "again"
    BY <2>1 DEF IInv, LoopInv, ModeInv
  <2> QED
    BY <2>1, <2>2, FewMissing
<1> QED
  BY <1>1, CuckooInvariance, PTL

(* A construct that reports success leaves no false negative. *)
THEOREM MembersFound == Spec /\ AlternativesLeadBack => []NoFalseNegatives
<1>1. IInv => NoFalseNegatives
  <2>1. SUFFICES ASSUME IInv, pc = "done", success, NEW x \in AllKeys PROVE contains(x)
    BY DEF NoFalseNegatives
  <2>2. PICK p \in Partitions : x \in KeysOf(p)
    BY DEF AllKeys
  <2>3. todo = {} /\ hand = Null /\ ~config.add
    BY <2>1 DEF IInv, LoopInv, ModeInv
  <2>4. Complete(p)
    <3>1. Waiting = {} /\ Current = {}
      BY <2>1, <2>3 DEF Waiting, Current, Active
    <3> QED
      BY <2>1, <2>3, <3>1 DEF IInv, LoopInv, GroupInv
  <2>5. PICK M : M = {y \in Begun(p) : ~contains(y)}
    OBVIOUS
  <2>6. IsFiniteSet(M) /\ Cardinality(M) <= 0
    BY <2>1, <2>3, <2>4, <2>5, FewMissing DEF Complete
  <2>7. M = {}
    BY <2>6, FS_CardinalityType, FS_EmptySet
  <2> QED
    BY <2>2, <2>4, <2>5, <2>7 DEF Complete
<1> QED
  BY <1>1, CuckooInvariance, PTL

(* construct fails only for a reason: a partition has lost a fingerprint,  *)
(* and with retries every seed was tried.                                  *)
THEOREM FailuresHaveReason == Spec /\ AlternativesLeadBack => []FailureHasReason
<1>1. IInv => FailureHasReason
  <2>1. SUFFICES ASSUME IInv, pc = "done", ~success
        PROVE  \E p \in Partitions : dropped[p] = 1 /\ (config.retry => seeds[p] = NSeeds)
    BY DEF FailureHasReason
  <2>2. ~config.add
    BY <2>1 DEF IInv, LoopInv, ModeInv
  <2> QED
    BY <2>1, <2>2 DEF IInv, LoopInv, GroupInv, Hopeless
<1> QED
  BY <1>1, CuckooInvariance, PTL
=============================================================================
