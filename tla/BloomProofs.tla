---------------------------- MODULE BloomProofs ----------------------------
(***************************************************************************)
(* Proofs about Bloom for every number of keys, partitions, lanes and      *)
(* threads, every variant and any addresser: what has been inserted is     *)
(* found, and no bit is set that belongs to nobody.                        *)
(*                                                                         *)
(* A word is written back as a whole after other lanes, other elements of  *)
(* the same vector or other threads may have written.  The invariant says  *)
(* why nothing is lost: a word is only ever shared by the keys of one      *)
(* partition, no two threads have a partition in common, and what a thread *)
(* holds of a word has all the bits that the word has.                     *)
(***************************************************************************)
EXTENDS Bloom, NaturalLemmas, FiniteSetTheorems, SequenceTheorems, TLAPS

-----------------------------------------------------------------------------
(* The inductive invariant. *)

(* A lane of a vector: a partition and one of its keys. *)
KeyPairs == {l \in Partitions \X Keys : l[2] \in KeysOf(l[1])}

(* Lanes of a horizontal vector take their keys from different partitions. *)
Distinct(lanes) == Vertical \/ \A a, b \in lanes : a[1] = b[1] => a = b

(* The keys a thread has still to insert. *)
Held(w) ==
  worker[w].keys \cup UNION {worker[w].vectors[v] : v \in DOMAIN worker[w].vectors}

(* The partitions of a task, which begins with the first of them. *)
Firsts == {p \in Partitions : Vertical \/ p % config.lanes = 0}
Group(first) ==
  IF Vertical THEN {first}
  ELSE {p \in Partitions : first <= p /\ p < first + config.lanes}

(* The bits of a word that some key asks for. *)
Claimed(i) ==
  {bit \in 0 .. WordSize - 1 :
     \E x \in Keys, t \in Iterations :
       /\ hash[x] # Null
       /\ word(PartitionOf(x), hash[x][t]) = i
       /\ bit \in hash[x][t].bits}

IsSet(e) == BitsOf(e) \subseteq filter[WordOf(e)]

TypesOK ==
  /\ config \in Configs
  /\ todo \subseteq Firsts
  /\ worker = [w \in Workers |-> worker[w]]
  /\ filter \in [Words -> SUBSET (0 .. WordSize - 1)]
  /\ hash \in [Keys -> Masks \cup {Null}]
  /\ \A x \in inserted : hash[x] # Null /\ \E p \in Partitions : x \in KeysOf(p)

(* A thread between two vectors, or with a vector in hand. *)
WorkerTypes(r) ==
  /\ r = [vectors |-> r.vectors, keys |-> r.keys, step |-> r.step,
          register |-> r.register, element |-> r.element]
  /\ r.vectors \in Seq(SUBSET KeyPairs)
  /\ \A v \in DOMAIN r.vectors : Distinct(r.vectors[v])
  /\ r.keys \subseteq KeyPairs /\ Distinct(r.keys)
  /\ r.step \in 0 .. Cardinality(Iterations)
  /\ r.step = 0 => r.register = Null /\ r.keys = {}
  /\ r.register = Null => r.element = Null
  /\ \A l \in r.keys : hash[l[2]] # Null

(* What is in the registers: nothing that was set in the words is missing, *)
(* nothing is there that no key asks for.                                  *)
Register(w) ==
  LET r == worker[w]
  IN  r.register # Null =>
        /\ DOMAIN r.register \subseteq Elements(w)
        /\ \A e \in DOMAIN r.register :
             /\ BitsOf(e) \subseteq r.register[e]
             /\ r.register[e] \subseteq Claimed(WordOf(e))
        /\ IF Vertical
           THEN \A e \in Elements(w) \ DOMAIN r.register : IsSet(e)
           ELSE /\ DOMAIN r.register = Elements(w)
                /\ \A e \in Elements(w) : filter[WordOf(e)] \subseteq r.register[e]

Element(w) ==
  LET r == worker[w]
  IN  r.element # Null =>
        /\ Vertical
        /\ r.element.at \in DOMAIN r.register
        /\ filter[WordOf(r.element.at)] \subseteq r.element.bits
        /\ BitsOf(r.element.at) \subseteq r.element.bits
        /\ r.element.bits \subseteq Claimed(WordOf(r.element.at))

(* The iterations that are over. *)
Over(w) ==
  ~Vertical => \A l \in worker[w].keys : \A t \in 1 .. worker[w].step - 1 : IsSet(<<l, t>>)

WorkerOK(w) ==
  Busy(w) => WorkerTypes(worker[w]) /\ Register(w) /\ Element(w) /\ Over(w)

(* No two threads have a partition in common, none has one that waits. *)
Apart ==
  /\ \A v, w \in Workers : v # w /\ Busy(v) /\ Busy(w) =>
       \A a \in Held(v), b \in Held(w) : a[1] # b[1]
  /\ pc = "construct" =>
       \A w \in Workers : Busy(w) =>
         \A a \in Held(w), first \in todo : a[1] \notin Group(first)
  /\ pc # "construct" => \A v, w \in Workers : Busy(v) /\ Busy(w) => v = w

BloomInv ==
  /\ TypesOK
  /\ \A w \in Workers : WorkerOK(w)
  /\ Apart
  /\ NoFalseNegatives
  /\ OnlyBitsOfKeys

-----------------------------------------------------------------------------
(* The layout: keys, blocks and words of a configuration. *)

(* What the parameters of a filter are. *)
LEMMA ConfigFacts ==
  ASSUME config \in Configs
  PROVE  /\ Cardinality(Partitions) \in Nat
         /\ Partitions = 0 .. Cardinality(Partitions) - 1
         /\ \A p \in Partitions : config.histogram[p] \in Nat
         /\ config.lanes \in Nat \ {0}
         /\ n_sectors \in Nat \ {0}
         /\ Cardinality(Iterations) \in Nat \ {0}
         /\ Iterations = 1 .. Cardinality(Iterations)
<1>1. /\ config.variant \in {"Sectorized", "Grouped", "Blocked", "Naive"}
      /\ config.histogram \in [0 .. Cardinality(DOMAIN config.histogram) - 1 -> Nat]
      /\ config.k \in Nat \ {0} /\ config.lanes \in Nat \ {0} /\ n_sectors \in Nat \ {0}
      /\ config.variant = "Grouped" => config.groups \in 1 .. n_sectors
  BY ConfigAssumption DEF n_sectors
<1>2. PICK n \in Nat \ {0} : Iterations = 1..n
  <2>1. CASE config.variant = "Sectorized"
    BY <1>1, <2>1 DEF Iterations
  <2>2. CASE config.variant = "Grouped"
    BY <1>1, <2>2 DEF Iterations
  <2>3. CASE config.variant = "Blocked"
    BY <1>1, <2>3 DEF Iterations
  <2>4. CASE config.variant = "Naive"
    BY <1>1, <2>4 DEF Iterations
  <2> QED
    BY <1>1, <2>1, <2>2, <2>3, <2>4
<1>3. Cardinality(1..n) = n
  BY FS_Interval
<1>4. Partitions = 0 .. Cardinality(Partitions) - 1
  BY <1>1 DEF Partitions
<1>5. Cardinality(Partitions) \in Nat
  BY ConfigAssumption DEF Partitions
<1> QED
  BY <1>1, <1>2, <1>3, <1>4, <1>5 DEF Partitions

(* A key lies in one partition. *)
LEMMA KeyFacts ==
  ASSUME config \in Configs, NEW p \in Partitions
  PROVE  /\ KeysBefore(p) \in Nat
         /\ KeysOf(p) = KeysBefore(p) .. KeysBefore(p) + config.histogram[p] - 1
         /\ \A x \in KeysOf(p) : x \in Keys /\ PartitionOf(x) = p
<1> DEFINE n == Cardinality(Partitions)
<1>1. /\ n \in Nat /\ Partitions = 0 .. n-1
      /\ \A q \in 0 .. n-1 : config.histogram[q] \in Nat
  BY ConfigFacts
<1>2. \A q \in 0..n : KeysBefore(q) \in Nat
  BY <1>1, SumSteps DEF KeysBefore
<1>3. \A q \in 0..n : \A r \in q..n :
        q < r => KeysBefore(q) + config.histogram[q] <= KeysBefore(r)
  BY <1>1, SumGrows DEF KeysBefore
<1> HIDE DEF n
<1>4. ASSUME NEW x \in KeysOf(p)
      PROVE  x \in Keys
  <2>1. KeysBefore(p) + config.histogram[p] <= KeysBefore(n)
    BY <1>1, <1>3
  <2>2. KeysBefore(p) \in Nat /\ KeysBefore(n) \in Nat /\ config.histogram[p] \in Nat
    BY <1>1, <1>2
  <2>3. Keys = 0 .. KeysBefore(n) - 1
    BY DEF Keys, n
  <2> QED
    BY <2>1, <2>2, <2>3 DEF KeysOf
<1>5. ASSUME NEW q \in Partitions, NEW x \in KeysOf(p), x \in KeysOf(q)
      PROVE  q = p
  <2>1. /\ KeysBefore(p) \in Nat /\ config.histogram[p] \in Nat
        /\ KeysBefore(q) \in Nat /\ config.histogram[q] \in Nat
    BY <1>1, <1>2
  <2>2. /\ KeysBefore(p) <= x /\ x < KeysBefore(p) + config.histogram[p]
        /\ KeysBefore(q) <= x /\ x < KeysBefore(q) + config.histogram[q]
        /\ x \in Int
    BY <1>5, <2>1 DEF KeysOf
  <2>3. /\ p < q => KeysBefore(p) + config.histogram[p] <= KeysBefore(q)
        /\ q < p => KeysBefore(q) + config.histogram[q] <= KeysBefore(p)
    BY <1>1, <1>3
  <2>4. p \in Int /\ q \in Int
    BY <1>1
  <2> QED
    BY <2>1, <2>2, <2>3, <2>4
<1>6. ASSUME NEW x \in KeysOf(p) PROVE PartitionOf(x) = p
  BY <1>5 DEF PartitionOf
<1>7. KeysBefore(p) \in Nat
  BY <1>1, <1>2
<1> QED
  BY <1>4, <1>6, <1>7 DEF KeysOf

(* The iterations of a mask stay within the block. *)
LEMMA MaskFacts ==
  ASSUME config \in Configs
  PROVE  /\ Null \notin Masks
         /\ \A m \in Masks, t \in Iterations :
              /\ m[t].address \in AddressValues
              /\ m[t].sector \in 0 .. n_sectors - 1
              /\ m[t].bits \subseteq 0 .. WordSize - 1
<1>1. /\ n_sectors \in Nat \ {0}
      /\ \A t \in Iterations : t \in Nat \ {0}
  BY ConfigFacts
<1>2. ASSUME NEW t \in Iterations
      PROVE  SectorsOf(t) \subseteq 0 .. n_sectors - 1
  <2>1. t \in Nat \ {0}
    BY <1>1
  <2>2. config.variant \in {"Sectorized", "Grouped", "Blocked", "Naive"}
        /\ (config.variant = "Grouped" => config.groups \in 1 .. n_sectors)
    BY ConfigAssumption DEF n_sectors
  <2>3. CASE config.variant = "Sectorized"
    BY <1>1, <2>1, <2>3 DEF SectorsOf, Iterations
  <2>4. CASE config.variant = "Grouped"
    <3>1. config.groups \in Nat \ {0} /\ t <= config.groups
      BY <1>1, <2>2, <2>4, <2>1 DEF Iterations
    <3>2. PICK n : n = n_sectors \div config.groups
      OBVIOUS
    <3>3. n \in Nat /\ config.groups * n <= n_sectors
      BY <1>1, <3>1, <3>2, Division
    <3>4. SectorsOf(t) = n * (t - 1) .. n * t - 1
      BY <2>4, <3>2 DEF SectorsOf
    <3>5. PICK d \in Nat : config.groups = t + d
      <4>1. config.groups - t \in Nat /\ config.groups = t + (config.groups - t)
        BY <2>1, <3>1
      <4> QED
        BY <4>1
    <3>6. config.groups * n = n * t + n * d /\ n * d \in Nat /\ n * t \in Nat
      BY <2>1, <3>3, <3>5
    <3>7. t - 1 \in Nat
      BY <2>1
    <3>8. n * (t - 1) \in Nat
      BY <3>3, <3>7
    <3> QED
      BY <1>1, <3>3, <3>4, <3>6, <3>8
  <2>5. CASE config.variant \in {"Blocked", "Naive"}
    BY <2>5 DEF SectorsOf
  <2> QED
    BY <2>2, <2>3, <2>4, <2>5
<1>3. ASSUME NEW m \in Masks, NEW t \in Iterations
      PROVE  /\ m[t] \in [address : AddressValues, sector : 0 .. n_sectors - 1,
                          bits : SUBSET (0 .. WordSize - 1)]
             /\ m[t].address \in AddressValues
             /\ m[t].sector \in 0 .. n_sectors - 1
             /\ m[t].bits \subseteq 0 .. WordSize - 1
  <2>1. m[t] \in Parts /\ m[t].sector \in SectorsOf(t)
    BY <1>3 DEF Masks
  <2>2. PICK u \in Iterations :
          m[t] \in [address : AddressValues, sector : SectorsOf(u), bits : BitSets]
    BY <2>1 DEF Parts
  <2>3. BitSets \subseteq SUBSET (0 .. WordSize - 1)
    BY DEF BitSets
  <2>4. SectorsOf(u) \subseteq 0 .. n_sectors - 1
    BY <1>2
  <2>5. m[t] \in [address : AddressValues, sector : 0 .. n_sectors - 1,
                  bits : SUBSET (0 .. WordSize - 1)]
    BY <2>2, <2>3, <2>4
  <2> QED
    BY <2>5
<1>4. Null \notin Masks
  <2>1. SUFFICES ASSUME Null \in Masks PROVE FALSE
    OBVIOUS
  <2>2. PICK n \in {n_sectors, config.groups, config.k} : Iterations = 1..n
    <3>1. config.variant \in {"Sectorized", "Grouped", "Blocked", "Naive"}
      BY ConfigAssumption
    <3> QED
      BY <3>1 DEF Iterations
  <2>3. Null \in [Iterations -> Parts]
    BY <2>1 DEF Masks
  <2>4. \A t \in Iterations :
          Null[t] \in [address : AddressValues, sector : Nat, bits : SUBSET (0 .. WordSize - 1)]
    <3> TAKE t \in Iterations
    <3>1. Null[t] \in [address : AddressValues, sector : 0 .. n_sectors - 1,
                       bits : SUBSET (0 .. WordSize - 1)]
      BY <1>3, <2>1
    <3>2. 0 .. n_sectors - 1 \subseteq Nat
      BY <1>1
    <3> QED
      BY <3>1, <3>2
  <2>5. Null \in [1..n -> [address : AddressValues, sector : Nat,
                           bits : SUBSET (0 .. WordSize - 1)]]
    BY <2>2, <2>3, <2>4
  <2> QED
    BY <2>2, <2>5, NullAssumption DEF n_sectors
<1> QED
  BY <1>3, <1>4

(* The words of a partition. *)
WordsOf(p) == offsets(p) * n_sectors .. (offsets(p) + size(p)) * n_sectors - 1

LEMMA WordsOfFacts ==
  ASSUME config \in Configs, NEW p \in Partitions
  PROVE  /\ offsets(p) \in Nat /\ size(p) \in Nat
         /\ WordsOf(p) \subseteq Words
         /\ \A q \in Partitions : q # p => WordsOf(p) \cap WordsOf(q) = {}
<1> DEFINE n == Cardinality(Partitions)
           sizes == [q \in Partitions |-> size(q)]
<1>1. /\ n \in Nat /\ Partitions = 0 .. n-1
      /\ n_sectors \in Nat \ {0}
  BY ConfigFacts
<1>2. \A q \in Partitions : size(q) \in Nat
  BY AddresserAssumption DEF Partitions, size, n_blocks
<1>3. \A q \in 0 .. n-1 : sizes[q] \in Nat
  BY <1>1, <1>2
<1> HIDE DEF sizes
<1>4. \A q \in 0..n : offsets(q) \in Nat
  BY <1>1, <1>3, SumSteps DEF offsets, sizes
<1>5. \A q \in 0..n : \A r \in q..n : q < r => offsets(q) + sizes[q] <= offsets(r)
  BY <1>1, <1>3, SumGrows DEF offsets, sizes
<1> HIDE DEF n
<1>6. \A q \in 0..n : \A r \in q..n : q < r => offsets(q) + size(q) <= offsets(r)
  <2>1. \A q \in Partitions : sizes[q] = size(q)
    BY DEF sizes
  <2>2. \A q \in 0..n : \A r \in q..n : q < r => q \in Partitions
    BY <1>1
  <2> QED
    BY <1>5, <2>1, <2>2
<1>7. ASSUME NEW q \in 0..n, NEW r \in 0..n, q < r
      PROVE  (offsets(q) + size(q)) * n_sectors <= offsets(r) * n_sectors
  <2>1. PICK a \in Nat : a = offsets(q) + size(q)
    BY <1>1, <1>2, <1>4, <1>7
  <2>2. PICK b \in Nat : b = offsets(r)
    BY <1>4
  <2>3. a <= b
    BY <1>1, <1>6, <1>7, <2>1, <2>2
  <2>4. PICK d \in Nat : b = a + d
    <3>1. b - a \in Nat /\ b = a + (b - a)
      BY <2>3
    <3> QED
      BY <3>1
  <2>5. b * n_sectors = a * n_sectors + d * n_sectors /\ d * n_sectors \in Nat
        /\ a * n_sectors \in Nat
    BY <1>1, <2>4
  <2> QED
    BY <2>1, <2>2, <2>5
<1>8. ASSUME NEW q \in 0..n
      PROVE  offsets(q) * n_sectors \in Nat
  BY <1>1, <1>4
<1>9. \A q \in Partitions : (offsets(q) + size(q)) * n_sectors \in Nat
  BY <1>1, <1>2, <1>4
<1>10. WordsOf(p) \subseteq Words
  <2>1. (offsets(p) + size(p)) * n_sectors <= offsets(n) * n_sectors
    BY <1>1, <1>7
  <2>2. Words = 0 .. offsets(n) * n_sectors - 1
    BY DEF Words, n
  <2>3. /\ offsets(p) * n_sectors \in Nat
        /\ (offsets(p) + size(p)) * n_sectors \in Nat
        /\ offsets(n) * n_sectors \in Nat
    BY <1>1, <1>8, <1>9
  <2> QED
    BY <2>1, <2>2, <2>3 DEF WordsOf
<1>11. ASSUME NEW q \in Partitions, q # p, NEW i, i \in WordsOf(p), i \in WordsOf(q)
       PROVE  FALSE
  <2>1. p < q \/ q < p
    BY <1>1, <1>11
  <2>2. /\ offsets(p) * n_sectors \in Nat /\ offsets(q) * n_sectors \in Nat
        /\ (offsets(p) + size(p)) * n_sectors \in Nat
        /\ (offsets(q) + size(q)) * n_sectors \in Nat
    BY <1>1, <1>8, <1>9
  <2>3. /\ p < q => (offsets(p) + size(p)) * n_sectors <= offsets(q) * n_sectors
        /\ q < p => (offsets(q) + size(q)) * n_sectors <= offsets(p) * n_sectors
    BY <1>1, <1>7
  <2> QED
    BY <1>11, <2>1, <2>2, <2>3 DEF WordsOf
<1> QED
  BY <1>1, <1>2, <1>4, <1>10, <1>11

(* A hash names a word of the partition. *)
LEMMA WordFacts ==
  ASSUME config \in Configs, NEW p \in Partitions, NEW m \in Masks, NEW t \in Iterations
  PROVE  word(p, m[t]) \in WordsOf(p)
<1>1. /\ m[t].address \in AddressValues
      /\ m[t].sector \in 0 .. n_sectors - 1
      /\ n_sectors \in Nat \ {0}
  BY MaskFacts, ConfigFacts
<1>2. offsets(p) \in Nat /\ size(p) \in Nat
  BY WordsOfFacts
<1>3. Address(config.mode, n_blocks(p), m[t].address) \in 0 .. size(p) - 1
  BY <1>1, AddresserAssumption DEF Partitions, size, n_blocks
<1>4. PICK a \in Nat : a = Address(config.mode, n_blocks(p), m[t].address) /\ a < size(p)
  BY <1>2, <1>3
<1>5. PICK s \in Nat : s = m[t].sector /\ s < n_sectors
  BY <1>1
<1>6. PICK d \in Nat : size(p) = a + 1 + d
  <2>1. size(p) - a - 1 \in Nat /\ size(p) = a + 1 + (size(p) - a - 1)
    BY <1>2, <1>4
  <2> QED
    BY <2>1
<1>7. PICK o \in Nat : o = offsets(p)
  BY <1>2
<1>8. PICK n \in Nat \ {0} : n = n_sectors
  BY <1>1
<1>9. /\ (o + a) * n = o * n + a * n
      /\ (o + (a + 1 + d)) * n = o * n + a * n + n + d * n
      /\ o * n \in Nat /\ a * n \in Nat /\ d * n \in Nat
  OBVIOUS
<1>10. (o + a) * n + s \in o * n .. (o + (a + 1 + d)) * n - 1
  BY <1>5, <1>8, <1>9
<1>11. word(p, m[t]) = (o + a) * n + s
  BY <1>4, <1>5, <1>7, <1>8 DEF word
<1> QED
  BY <1>6, <1>7, <1>8, <1>10, <1>11 DEF WordsOf

(* Words that are named for one partition are not named for another. *)
LEMMA WordsApart ==
  ASSUME config \in Configs, NEW p \in Partitions, NEW q \in Partitions,
         NEW i \in WordsOf(p), i \in WordsOf(q)
  PROVE  p = q
BY WordsOfFacts

-----------------------------------------------------------------------------
(* The tasks. *)

(* A set of natural numbers below a bound has a greatest element. *)
LEMMA Greatest ==
  ASSUME NEW n \in Nat, NEW S, S \subseteq 0..n, S # {}
  PROVE  Max(S) \in S
<1> DEFINE T == {n - s : s \in S}
<1>1. T \subseteq Nat /\ T # {}
  <2>1. \A s \in S : s \in Nat /\ n - s \in Nat
    OBVIOUS
  <2> QED
    BY <2>1
<1>2. PICK m \in T : \A t \in T : m <= t
  BY <1>1, LeastNat
<1>3. PICK s \in S : m = n - s
  BY <1>2
<1>4. ASSUME NEW t \in S PROVE s >= t
  <2>1. n - t \in T /\ s \in Nat /\ t \in Nat
    OBVIOUS
  <2>2. n - s <= n - t
    BY <1>2, <1>3, <2>1
  <2> QED
    BY <2>1, <2>2
<1> QED
  BY <1>4 DEF Max

(* The vectors of a task take their keys from its partitions, horizontal   *)
(* ones from different partitions.                                         *)
LEMMA VectorFacts ==
  ASSUME config \in Configs, NEW first \in Partitions
  PROVE  /\ Vectors(first) \in Seq(SUBSET KeyPairs)
         /\ \A v \in DOMAIN Vectors(first) :
              /\ Distinct(Vectors(first)[v])
              /\ \A l \in Vectors(first)[v] : l[1] \in Group(first)
<1>1. /\ \A p \in Partitions : config.histogram[p] \in Nat /\ p \in Nat
      /\ config.lanes \in Nat \ {0}
      /\ Cardinality(Partitions) \in Nat
      /\ Partitions = 0 .. Cardinality(Partitions) - 1
  BY ConfigFacts
<1>2. /\ \A p \in Partitions : \A x \in KeysOf(p) : <<p, x>> \in KeyPairs
      /\ \A p \in Partitions :
           /\ KeysBefore(p) \in Nat
           /\ KeysOf(p) = KeysBefore(p) .. KeysBefore(p) + config.histogram[p] - 1
  BY KeyFacts DEF KeyPairs
<1>3. CASE Vertical
  <2>1. PICK n : n = (config.histogram[first] + config.lanes - 1) \div config.lanes
    OBVIOUS
  <2>2. n \in Nat
    <3>1. config.histogram[first] + config.lanes - 1 \in Nat
      BY <1>1
    <3> QED
      BY <1>1, <2>1, <3>1, Division
  <2>3. PICK F : F = [v \in 1..n |-> {<<first, x>> : x \in {y \in KeysOf(first) :
                        (y - KeysBefore(first)) \div config.lanes = v - 1}}]
    OBVIOUS
  <2>4. Vectors(first) = F
    BY <1>3, <2>1, <2>3 DEF Vectors
  <2>5. \A v \in 1..n : F[v] \subseteq KeyPairs /\ \A l \in F[v] : l[1] = first
    BY <1>2, <2>3
  <2>6. F \in [1..n -> SUBSET KeyPairs]
    BY <2>3, <2>5
  <2>7. F \in Seq(SUBSET KeyPairs)
    BY <2>2, <2>6, SeqDef
  <2>8. first \in Group(first)
    BY <1>3 DEF Group
  <2> QED
    BY <1>3, <2>4, <2>5, <2>6, <2>7, <2>8 DEF Distinct
<1>4. CASE ~Vertical
  <2>1. PICK lanes : lanes = {p \in Partitions : first <= p /\ p < first + config.lanes}
    OBVIOUS
  <2>2. lanes = Group(first) /\ first \in lanes /\ lanes \subseteq Partitions
    <3>1. first <= first /\ first < first + config.lanes
      BY <1>1
    <3> QED
      BY <1>4, <2>1, <3>1 DEF Group
  <2>3. PICK n : n = Max({config.histogram[p] : p \in lanes})
    OBVIOUS
  <2>4. n \in Nat
    <3> DEFINE S == {config.histogram[p] : p \in lanes}
               c == Cardinality(Partitions)
    <3>1. /\ \A i \in 0..c : SumBelow(config.histogram, i) \in Nat
          /\ \A i \in 0 .. c-1 : SumBelow(config.histogram, i + 1)
               = SumBelow(config.histogram, i) + config.histogram[i]
      BY <1>1, SumSteps
    <3>2. \A i \in 0..c : SumBelow(config.histogram, i) <= SumBelow(config.histogram, c)
      <4>1. TAKE i \in 0..c
      <4>2. c \in i..c
        BY <1>1
      <4> HIDE DEF c
      <4> QED
        BY <1>1, <4>2, SumGrows DEF c
    <3> HIDE DEF c
    <3>3. SumBelow(config.histogram, c) \in Nat
      BY <1>1, <3>1 DEF c
    <3>4. \A p \in Partitions : config.histogram[p] <= SumBelow(config.histogram, c)
      <4>1. TAKE p \in Partitions
      <4>2. p \in 0 .. c-1 /\ p \in 0..c /\ p + 1 \in 0..c
        BY <1>1 DEF c
      <4> QED
        BY <1>1, <3>1, <3>2, <3>3, <4>2
    <3>5. S \subseteq 0 .. SumBelow(config.histogram, c) /\ S # {}
      BY <1>1, <2>2, <3>3, <3>4
    <3>6. Max(S) \in S
      BY <3>3, <3>5, Greatest
    <3> QED
      BY <2>3, <3>3, <3>5, <3>6
  <2>5. PICK F : F = [v \in 1..n |->
                   {<<p, KeysBefore(p) + v - 1>> : p \in {q \in lanes : v <= config.histogram[q]}}]
    OBVIOUS
  <2>6. Vectors(first) = F
    BY <1>4, <2>1, <2>3, <2>5 DEF Vectors
  <2>7. ASSUME NEW v \in 1..n
        PROVE  /\ F[v] \subseteq KeyPairs
               /\ \A l \in F[v] : l[1] \in lanes
               /\ \A a, b \in F[v] : a[1] = b[1] => a = b
    <3>1. F[v] = {<<p, KeysBefore(p) + v - 1>> : p \in {q \in lanes : v <= config.histogram[q]}}
      BY <2>5
    <3>2. ASSUME NEW p \in lanes, v <= config.histogram[p]
          PROVE  KeysBefore(p) + v - 1 \in KeysOf(p)
      <4>1. KeysBefore(p) \in Nat /\ config.histogram[p] \in Nat /\ v \in Nat \ {0}
        BY <1>1, <1>2, <2>2, <2>4
      <4> QED
        BY <1>2, <2>2, <3>2, <4>1
    <3> QED
      BY <1>2, <2>2, <3>1, <3>2
  <2>8. F \in [1..n -> SUBSET KeyPairs]
    BY <2>5, <2>7
  <2>9. F \in Seq(SUBSET KeyPairs)
    BY <2>4, <2>8, SeqDef
  <2> QED
    BY <2>2, <2>6, <2>7, <2>8, <2>9 DEF Distinct
<1> QED
  BY <1>3, <1>4

(* Two tasks have no partition in common. *)
LEMMA GroupsApart ==
  ASSUME config \in Configs, NEW f \in Firsts, NEW g \in Firsts, f # g
  PROVE  Group(f) \cap Group(g) = {}
<1>1. CASE Vertical
  BY <1>1 DEF Group
<1>2. CASE ~Vertical
  <2>1. PICK b \in Nat \ {0} : b = config.lanes
    BY ConfigFacts
  <2>2. f \in Nat /\ g \in Nat /\ f % b = 0 /\ g % b = 0
    BY <1>2, <2>1, ConfigFacts DEF Firsts
  <2>3. PICK p \in Nat : f = b * p
    BY <2>2, Multiple
  <2>4. PICK q \in Nat : g = b * q
    BY <2>2, Multiple
  <2>5. /\ f < g => f + b <= g
        /\ g < f => g + b <= f
    BY <2>3, <2>4, MultiplesApart
  <2>6. \A part \in Partitions : part \in Nat
    BY ConfigFacts
  <2> QED
    BY <1>2, <2>1, <2>2, <2>5, <2>6 DEF Group
<1> QED
  BY <1>1, <1>2

(* What a configuration determines stays with it. *)
LEMMA ConfigKept ==
  ASSUME config' = config
  PROVE  /\ Partitions' = Partitions /\ Keys' = Keys /\ KeyPairs' = KeyPairs
         /\ \A p : KeysOf(p)' = KeysOf(p)
         /\ \A x : PartitionOf(x)' = PartitionOf(x)
         /\ Words' = Words /\ \A p, part : word(p, part)' = word(p, part)
         /\ Iterations' = Iterations /\ Masks' = Masks
         /\ (Vertical' <=> Vertical)
         /\ Firsts' = Firsts /\ \A f : Group(f)' = Group(f)
         /\ \A K : Distinct(K)' <=> Distinct(K)
<1>1. Partitions' = Partitions
  BY DEF Partitions
<1>2. Keys' = Keys /\ \A p : KeysBefore(p)' = KeysBefore(p) /\ KeysOf(p)' = KeysOf(p)
  BY <1>1 DEF Keys, KeysBefore, KeysOf
<1>3. KeyPairs' = KeyPairs
  BY <1>1, <1>2 DEF KeyPairs
<1>4. \A x : PartitionOf(x)' = PartitionOf(x)
  BY <1>1, <1>2 DEF PartitionOf
<1>5. n_sectors' = n_sectors
  BY DEF n_sectors
<1>6. \A p : n_blocks(p)' = n_blocks(p) /\ size(p)' = size(p)
  BY DEF n_blocks, size
<1>7. \A p : offsets(p)' = offsets(p)
  BY <1>1, <1>6 DEF offsets
<1>8. Words' = Words /\ \A p, part : word(p, part)' = word(p, part)
  BY <1>1, <1>5, <1>6, <1>7 DEF Words, word
<1>9. Iterations' = Iterations
  BY <1>5 DEF Iterations
<1>10. \A t : SectorsOf(t)' = SectorsOf(t)
  BY <1>5 DEF SectorsOf
<1>11. BitSets' = BitSets
  BY <1>9 DEF BitSets, k_per_iteration
<1>12. Masks' = Masks
  BY <1>9, <1>10, <1>11 DEF Masks, Parts
<1>13. Vertical' <=> Vertical
  BY DEF Vertical
<1>14. Firsts' = Firsts
  BY <1>1, <1>13 DEF Firsts
<1>15. \A f : Group(f)' = Group(f)
  BY <1>1, <1>13 DEF Group
<1>16. \A K : Distinct(K)' <=> Distinct(K)
  BY <1>13 DEF Distinct
<1> QED
  BY <1>1, <1>2, <1>3, <1>4, <1>8, <1>9, <1>12, <1>13, <1>14, <1>15, <1>16

-----------------------------------------------------------------------------
(* Elements of a register. *)

(* The hash of a lane in hand is known, its elements name words of its     *)
(* partition, and what they set is claimed there.                          *)
LEMMA ElementFacts ==
  ASSUME TypesOK, NEW l \in KeyPairs, hash[l[2]] # Null, NEW t \in Iterations
  PROVE  /\ l[1] \in Partitions /\ l[2] \in Keys /\ PartitionOf(l[2]) = l[1]
         /\ hash[l[2]] \in Masks
         /\ WordOf(<<l, t>>) = word(l[1], hash[l[2]][t])
         /\ WordOf(<<l, t>>) \in WordsOf(l[1])
         /\ WordOf(<<l, t>>) \in Words
         /\ BitsOf(<<l, t>>) = hash[l[2]][t].bits
         /\ BitsOf(<<l, t>>) \subseteq Claimed(WordOf(<<l, t>>))
<1>1. /\ config \in Configs /\ hash \in [Keys -> Masks \cup {Null}]
  BY DEF TypesOK
<1>2. l[1] \in Partitions /\ l[2] \in Keys /\ l[2] \in KeysOf(l[1])
  BY DEF KeyPairs
<1>3. PartitionOf(l[2]) = l[1]
  BY <1>1, <1>2, KeyFacts
<1>4. hash[l[2]] \in Masks
  BY <1>1, <1>2
<1>5. PICK e : e = <<l, t>>
  OBVIOUS
<1>6. e[1] = l /\ e[2] = t
  BY <1>5
<1>7. WordOf(e) = word(l[1], hash[l[2]][t]) /\ BitsOf(e) = hash[l[2]][t].bits
  BY <1>6 DEF WordOf, BitsOf
<1>8. WordOf(e) \in WordsOf(l[1])
  BY <1>1, <1>2, <1>4, <1>7, WordFacts
<1>9. WordOf(e) \in Words
  BY <1>1, <1>2, <1>8, WordsOfFacts
<1>10. BitsOf(e) \subseteq 0 .. WordSize - 1
  BY <1>1, <1>4, <1>7, MaskFacts
<1>11. BitsOf(e) \subseteq Claimed(WordOf(e))
  <2>1. SUFFICES ASSUME NEW bit \in BitsOf(e) PROVE bit \in Claimed(WordOf(e))
    OBVIOUS
  <2>2. word(PartitionOf(l[2]), hash[l[2]][t]) = WordOf(e) /\ bit \in hash[l[2]][t].bits
    BY <1>3, <1>7, <2>1
  <2> QED
    BY <1>2, <1>10, <2>2 DEF Claimed
<1> QED
  BY <1>2, <1>3, <1>4, <1>5, <1>7, <1>8, <1>9, <1>11

(* The elements that a thread works on. *)
LEMMA ElementsFacts ==
  ASSUME TypesOK, NEW w \in Workers, Busy(w), WorkerTypes(worker[w]), worker[w].step > 0,
         NEW e \in Elements(w)
  PROVE  /\ e = <<e[1], e[2]>> /\ e[1] \in worker[w].keys /\ e[2] \in Iterations
         /\ e[1] \in KeyPairs /\ hash[e[1][2]] # Null
         /\ e[1] \in Held(w)
         /\ WordOf(e) \in WordsOf(e[1][1])
         /\ WordOf(e) \in Words
         /\ BitsOf(e) \subseteq Claimed(WordOf(e))
<1>1. /\ worker[w].step \in 0 .. Cardinality(Iterations)
      /\ Iterations = 1 .. Cardinality(Iterations) /\ Cardinality(Iterations) \in Nat
  BY ConfigFacts DEF TypesOK, WorkerTypes
<1>2. worker[w].step \in Iterations
  BY <1>1
<1>3. e = <<e[1], e[2]>> /\ e[1] \in worker[w].keys /\ e[2] \in Iterations
  BY <1>2 DEF Elements
<1>4. e[1] \in KeyPairs /\ hash[e[1][2]] # Null
  BY <1>3 DEF WorkerTypes
<1>5. PICK l, t : l = e[1] /\ t = e[2]
  OBVIOUS
<1>6. l \in KeyPairs /\ hash[l[2]] # Null /\ t \in Iterations /\ e = <<l, t>>
  BY <1>3, <1>4, <1>5
<1>7. /\ WordOf(<<l, t>>) \in WordsOf(l[1]) /\ WordOf(<<l, t>>) \in Words
      /\ BitsOf(<<l, t>>) \subseteq Claimed(WordOf(<<l, t>>))
  BY <1>6, ElementFacts
<1>8. e[1] \in Held(w)
  BY <1>3 DEF Held
<1> QED
  BY <1>3, <1>4, <1>5, <1>6, <1>7, <1>8

(* When more hashes are known than before: the elements and claims of the  *)
(* keys that were hashed before are the same.                              *)
HashesKept == \A x \in Keys : hash[x] # Null => hash'[x] = hash[x]

LEMMA ClaimsKept ==
  ASSUME TypesOK, config' = config, HashesKept
  PROVE  /\ \A i : Claimed(i) \subseteq Claimed(i)'
         /\ \A e : hash[e[1][2]] # Null /\ e[1][2] \in Keys =>
                     WordOf(e)' = WordOf(e) /\ BitsOf(e)' = BitsOf(e)
<1>1. /\ Keys' = Keys /\ Iterations' = Iterations
      /\ \A x : PartitionOf(x)' = PartitionOf(x)
      /\ \A p, part : word(p, part)' = word(p, part)
  BY ConfigKept
<1>2. ASSUME NEW i, NEW bit \in Claimed(i)
      PROVE  bit \in Claimed(i)'
  <2>1. PICK x \in Keys, t \in Iterations :
          /\ hash[x] # Null
          /\ word(PartitionOf(x), hash[x][t]) = i
          /\ bit \in hash[x][t].bits
    BY <1>2 DEF Claimed
  <2>2. hash'[x] = hash[x]
    BY <2>1 DEF HashesKept
  <2>3. bit \in 0 .. WordSize - 1
    BY <1>2 DEF Claimed
  <2> QED
    BY <1>1, <2>1, <2>2, <2>3 DEF Claimed
<1>3. ASSUME NEW e, hash[e[1][2]] # Null, e[1][2] \in Keys
      PROVE  WordOf(e)' = WordOf(e) /\ BitsOf(e)' = BitsOf(e)
  BY <1>1, <1>3 DEF WordOf, BitsOf, HashesKept
<1> QED
  BY <1>2, <1>3

-----------------------------------------------------------------------------
(* What a step leaves alone. *)

(* A thread whose words are not written stays as it was. *)
LEMMA OtherKept ==
  ASSUME TypesOK, config' = config, HashesKept,
         NEW v \in Workers, WorkerOK(v), worker'[v] = worker[v],
         \A l \in Held(v) : \A i \in WordsOf(l[1]) : filter'[i] = filter[i]
  PROVE  WorkerOK(v)'
<1>1. /\ Keys' = Keys /\ Iterations' = Iterations /\ KeyPairs' = KeyPairs
      /\ (Vertical' <=> Vertical)
      /\ \A K : Distinct(K)' <=> Distinct(K)
  BY ConfigKept
<1>2. SUFFICES ASSUME Busy(v)'
               PROVE  (WorkerTypes(worker[v]) /\ Register(v) /\ Element(v) /\ Over(v))'
  BY DEF WorkerOK
<1>3. PICK r : r = worker[v]
  OBVIOUS
<1>4. Busy(v) /\ WorkerTypes(r) /\ Register(v) /\ Element(v) /\ Over(v) /\ r = worker'[v]
  BY <1>2, <1>3 DEF WorkerOK, Busy
<1>5. \A l \in r.keys : l \in KeyPairs /\ l[2] \in Keys /\ hash[l[2]] # Null /\ hash'[l[2]] = hash[l[2]]
  BY <1>4 DEF WorkerTypes, KeyPairs, HashesKept
<1>6. WorkerTypes(r)'
  BY <1>1, <1>4, <1>5 DEF WorkerTypes
<1>7. ASSUME NEW e, e[1] \in r.keys, e[2] \in Iterations, e = <<e[1], e[2]>>
      PROVE  /\ WordOf(e)' = WordOf(e) /\ BitsOf(e)' = BitsOf(e)
             /\ filter'[WordOf(e)] = filter[WordOf(e)]
             /\ (IsSet(e)' <=> IsSet(e))
             /\ Claimed(WordOf(e)) \subseteq Claimed(WordOf(e))'
  <2>1. hash[e[1][2]] # Null /\ e[1][2] \in Keys /\ e[1] \in KeyPairs
    BY <1>5, <1>7
  <2>2. WordOf(e)' = WordOf(e) /\ BitsOf(e)' = BitsOf(e)
    BY <2>1, ClaimsKept
  <2>3. \A i : Claimed(i) \subseteq Claimed(i)'
    BY ClaimsKept
  <2>4. PICK l, t : l = e[1] /\ t = e[2]
    OBVIOUS
  <2>5. l \in KeyPairs /\ hash[l[2]] # Null /\ t \in Iterations /\ e = <<l, t>>
    BY <1>7, <2>1, <2>4
  <2>6. WordOf(<<l, t>>) \in WordsOf(l[1])
    BY <2>5, ElementFacts
  <2>7. WordOf(e) \in WordsOf(e[1][1]) /\ e[1] \in Held(v)
    BY <1>3, <1>7, <2>4, <2>5, <2>6 DEF Held
  <2>8. filter'[WordOf(e)] = filter[WordOf(e)]
    BY <2>7
  <2>9. IsSet(e)' <=> IsSet(e)
    BY <2>2, <2>8 DEF IsSet
  <2>10. Claimed(WordOf(e)) \subseteq Claimed(WordOf(e))'
    <3>1. PICK i : i = WordOf(e) /\ i = WordOf(e)'
      BY <2>2
    <3>2. Claimed(i) \subseteq Claimed(i)'
      BY <2>3
    <3>3. Claimed(WordOf(e))' = Claimed(i)'
      BY <3>1 DEF Claimed
    <3> QED
      BY <3>1, <3>2, <3>3
  <2> QED
    BY <2>2, <2>8, <2>9, <2>10
<1>8. Elements(v)' = Elements(v)
  BY <1>1, <1>3, <1>4 DEF Elements
<1>9. ASSUME r.step > 0, NEW e \in Elements(v)
      PROVE  e[1] \in r.keys /\ e[2] \in Iterations /\ e = <<e[1], e[2]>>
  BY <1>3, <1>4, <1>9, ElementsFacts
<1>10. r.register # Null => r.step > 0
  BY <1>4, ConfigFacts DEF WorkerTypes, TypesOK
<1>11. Register(v)'
  <2>1. SUFFICES ASSUME r.register # Null
                 PROVE  /\ DOMAIN r.register \subseteq Elements(v)
                        /\ \A e \in DOMAIN r.register :
                             /\ BitsOf(e)' \subseteq r.register[e]
                             /\ r.register[e] \subseteq Claimed(WordOf(e))'
                        /\ Vertical => \A e \in Elements(v) \ DOMAIN r.register : IsSet(e)'
                        /\ ~Vertical =>
                             /\ DOMAIN r.register = Elements(v)
                             /\ \A e \in Elements(v) : filter'[WordOf(e)'] \subseteq r.register[e]
    BY <1>1, <1>4, <1>8 DEF Register
  <2>2. /\ DOMAIN r.register \subseteq Elements(v)
        /\ \A e \in DOMAIN r.register :
             /\ BitsOf(e) \subseteq r.register[e]
             /\ r.register[e] \subseteq Claimed(WordOf(e))
        /\ Vertical => \A e \in Elements(v) \ DOMAIN r.register : IsSet(e)
        /\ ~Vertical => 
             /\ DOMAIN r.register = Elements(v)
             /\ \A e \in Elements(v) : filter[WordOf(e)] \subseteq r.register[e]
    BY <1>3, <1>4, <2>1 DEF Register
  <2>3. \A e \in Elements(v) :
          /\ WordOf(e)' = WordOf(e) /\ BitsOf(e)' = BitsOf(e)
          /\ filter'[WordOf(e)] = filter[WordOf(e)]
          /\ (IsSet(e)' <=> IsSet(e))
          /\ Claimed(WordOf(e)) \subseteq Claimed(WordOf(e))'
    BY <1>7, <1>9, <1>10, <2>1
  <2> QED
    BY <2>2, <2>3
<1>12. Element(v)'
  <2>1. SUFFICES ASSUME r.element # Null
                 PROVE  /\ Vertical
                        /\ r.element.at \in DOMAIN r.register
                        /\ filter'[WordOf(r.element.at)'] \subseteq r.element.bits
                        /\ BitsOf(r.element.at)' \subseteq r.element.bits
                        /\ r.element.bits \subseteq Claimed(WordOf(r.element.at))'
    BY <1>1, <1>4 DEF Element
  <2>2. PICK e : e = r.element.at
    OBVIOUS
  <2>3. /\ Vertical /\ e \in DOMAIN r.register
        /\ filter[WordOf(e)] \subseteq r.element.bits
        /\ BitsOf(e) \subseteq r.element.bits
        /\ r.element.bits \subseteq Claimed(WordOf(e))
    BY <1>3, <1>4, <2>1, <2>2 DEF Element
  <2>4. r.register # Null
    BY <1>4, <2>1 DEF WorkerTypes
  <2>5. e \in Elements(v)
    BY <1>3, <1>4, <2>3, <2>4 DEF Register
  <2>6. /\ WordOf(e)' = WordOf(e) /\ BitsOf(e)' = BitsOf(e)
        /\ filter'[WordOf(e)] = filter[WordOf(e)]
        /\ Claimed(WordOf(e)) \subseteq Claimed(WordOf(e))'
    BY <1>7, <1>9, <1>10, <2>4, <2>5
  <2>7. WordOf(r.element.at)' = WordOf(e)' /\ BitsOf(r.element.at)' = BitsOf(e)'
        /\ Claimed(WordOf(r.element.at))' = Claimed(WordOf(e))'
    BY <1>3, <1>4, <2>2 DEF WordOf, BitsOf, Claimed
  <2> QED
    BY <2>2, <2>3, <2>6, <2>7
<1>13. Over(v)'
  <2>1. SUFFICES ASSUME ~Vertical, NEW l \in r.keys, NEW t \in 1 .. r.step - 1
                 PROVE  IsSet(<<l, t>>)'
    BY <1>1, <1>4 DEF Over
  <2>2. IsSet(<<l, t>>)
    BY <1>3, <1>4, <2>1 DEF Over
  <2>3. t \in Iterations
    <3>1. r.step \in 0 .. Cardinality(Iterations) /\ Cardinality(Iterations) \in Nat
          /\ Iterations = 1 .. Cardinality(Iterations)
      BY <1>4, ConfigFacts DEF WorkerTypes, TypesOK
    <3> QED
      BY <2>1, <3>1
  <2>4. PICK e : e = <<l, t>>
    OBVIOUS
  <2>5. IsSet(e)' <=> IsSet(e)
    <3>1. e[1] \in r.keys /\ e[2] \in Iterations /\ e = <<e[1], e[2]>>
      BY <2>1, <2>3, <2>4
    <3> QED
      BY <1>7, <3>1
  <2> QED
    BY <2>2, <2>4, <2>5
<1> QED
  BY <1>3, <1>4, <1>6, <1>11, <1>12, <1>13

(* While one thread writes words of its own partitions the others go on.   *)
LEMMA OthersKept ==
  ASSUME BloomInv, config' = config, HashesKept, NEW w \in Workers, Busy(w),
         \A v \in Workers \ {w} : worker'[v] = worker[v],
         \A i \in Words : filter'[i] # filter[i] => \E l \in Held(w) : i \in WordsOf(l[1])
  PROVE  \A v \in Workers \ {w} : WorkerOK(v)'
<1>1. SUFFICES ASSUME NEW v \in Workers \ {w} PROVE WorkerOK(v)'
  OBVIOUS
<1>2. TypesOK /\ WorkerOK(v) /\ WorkerOK(w) /\ Apart
  BY DEF BloomInv
<1>3. CASE ~Busy(v)
  BY <1>1, <1>3 DEF WorkerOK, Busy
<1>4. CASE Busy(v)
  <2>1. \A l \in Held(v) \cup Held(w) : l[1] \in Partitions
    <3>1. \A u \in {v, w} : worker[u].vectors \in Seq(SUBSET KeyPairs) /\ worker[u].keys \subseteq KeyPairs
      BY <1>2, <1>4 DEF WorkerOK, WorkerTypes
    <3>2. \A u \in {v, w} : \A n \in DOMAIN worker[u].vectors : worker[u].vectors[n] \subseteq KeyPairs
      <4>1. TAKE u \in {v, w}
      <4>2. worker[u].vectors \in Seq(SUBSET KeyPairs)
        BY <3>1
      <4>3. \A n \in DOMAIN worker[u].vectors : worker[u].vectors[n] \in SUBSET KeyPairs
        BY <4>2
      <4> QED
        BY <4>3
    <3> QED
      BY <3>1, <3>2 DEF Held, KeyPairs
  <2>2. ASSUME NEW l \in Held(v), NEW i \in WordsOf(l[1]), filter'[i] # filter[i]
        PROVE  FALSE
    <3>1. config \in Configs
      BY <1>2 DEF TypesOK
    <3>2. i \in Words
      BY <2>1, <2>2, <3>1, WordsOfFacts
    <3>3. PICK m \in Held(w) : i \in WordsOf(m[1])
      BY <2>2, <3>2
    <3>4. l[1] = m[1]
      BY <2>1, <2>2, <3>1, <3>3, WordsApart
    <3> QED
      BY <1>1, <1>2, <1>4, <3>3, <3>4 DEF Apart
  <2> QED
    BY <1>1, <1>2, <2>2, OtherKept
<1> QED
  BY <1>3, <1>4

(* A key that was found is found, as no bit is ever taken away. *)
LEMMA FoundStays ==
  ASSUME BloomInv, config' = config, HashesKept,
         \A i \in Words : filter[i] \subseteq filter'[i], NEW x \in inserted
  PROVE  contains(x)' /\ hash'[x] # Null
<1>1. /\ config \in Configs /\ hash \in [Keys -> Masks \cup {Null}] /\ hash[x] # Null
  BY DEF BloomInv, TypesOK
<1>2. PICK p \in Partitions : x \in KeysOf(p)
  BY DEF BloomInv, TypesOK
<1>3. x \in Keys /\ PartitionOf(x) = p
  BY <1>1, <1>2, KeyFacts
<1>4. hash[x] \in Masks /\ hash'[x] = hash[x]
  BY <1>1, <1>3 DEF HashesKept
<1>5. \A t \in Iterations : hash[x][t].bits \subseteq filter[word(p, hash[x][t])]
  BY <1>3 DEF BloomInv, NoFalseNegatives, contains
<1>6. \A t \in Iterations : word(p, hash[x][t]) \in Words
  BY <1>1, <1>2, <1>4, WordFacts, WordsOfFacts
<1>7. /\ Iterations' = Iterations /\ PartitionOf(x)' = PartitionOf(x)
      /\ \A q, part : word(q, part)' = word(q, part)
  BY ConfigKept
<1>8. \A t \in Iterations : hash[x][t].bits \subseteq filter'[word(p, hash[x][t])]
  BY <1>5, <1>6
<1>9. contains(x)'
  BY <1>3, <1>4, <1>7, <1>8 DEF contains
<1> QED
  BY <1>1, <1>4, <1>9

(* The bits of the words, as sets. *)
LEMMA OnlyClaimed ==
  ASSUME TypesOK
  PROVE  OnlyBitsOfKeys <=> \A i \in Words : filter[i] \subseteq Claimed(i)
<1>1. \A i \in Words : filter[i] \subseteq 0 .. WordSize - 1
  BY DEF TypesOK
<1> QED
  BY <1>1 DEF OnlyBitsOfKeys, Claimed

LEMMA OnlyClaimedNext ==
  ASSUME BloomInv, config' = config, HashesKept, TypesOK',
         \A i \in Words : filter'[i] \subseteq filter[i] \cup Claimed(i)'
  PROVE  OnlyBitsOfKeys'
<1>1. \A i \in Words : filter[i] \subseteq Claimed(i)
  BY OnlyClaimed DEF BloomInv
<1>2. \A i : Claimed(i) \subseteq Claimed(i)'
  BY ClaimsKept DEF BloomInv
<1>3. \A i \in Words : filter'[i] \subseteq Claimed(i)'
  BY <1>1, <1>2
<1>4. Words' = Words /\ Keys' = Keys /\ Iterations' = Iterations
  BY ConfigKept
<1> QED
  BY <1>3, <1>4 DEF OnlyBitsOfKeys, Claimed

(* A thread that goes on with some of its lanes. *)
LEMMA ApartKept ==
  ASSUME Apart, config' = config, pc' = pc, todo' = todo, NEW w \in Workers, Busy(w),
         \A v \in Workers \ {w} : worker'[v] = worker[v],
         Busy(w)' => Held(w)' \subseteq Held(w)
  PROVE  Apart'
<1>1. \A v \in Workers : Busy(v)' => Busy(v) /\ Held(v)' \subseteq Held(v)
  <2>1. TAKE v \in Workers
  <2>2. CASE v = w
    BY <2>2
  <2>3. CASE v # w
    BY <2>3 DEF Busy, Held
  <2> QED
    BY <2>2, <2>3
<1>2. \A f : Group(f)' = Group(f)
  BY ConfigKept
<1> QED
  BY <1>1, <1>2 DEF Apart

-----------------------------------------------------------------------------
(* The steps of a thread. *)

(* A task has all its lanes before it. *)
LEMMA TaskFacts ==
  ASSUME NEW vs, NEW S, vs \in Seq(S)
  PROVE  LET r == Task(vs)
         IN  /\ r.vectors = vs /\ r.keys = {} /\ r.step = 0
             /\ r.register = Null /\ r.element = Null
             /\ r = [vectors |-> r.vectors, keys |-> r.keys, step |-> r.step,
                     register |-> r.register, element |-> r.element]
BY DEF Task

(* A thread between two vectors. *)
LEMMA NewTask ==
  ASSUME TypesOK, NEW vs \in Seq(SUBSET KeyPairs),
         \A v \in DOMAIN vs : Distinct(vs[v]),
         config' = config, NEW w \in Workers, worker'[w] = Task(vs)
  PROVE  /\ WorkerOK(w)'
         /\ Held(w)' = UNION {vs[v] : v \in DOMAIN vs}
<1>1. PICK r : r = Task(vs)
  OBVIOUS
<1>2. /\ r.vectors = vs /\ r.keys = {} /\ r.step = 0
      /\ r.register = Null /\ r.element = Null
      /\ r = [vectors |-> r.vectors, keys |-> r.keys, step |-> r.step,
              register |-> r.register, element |-> r.element]
  BY <1>1 DEF Task
<1>3. /\ KeyPairs' = KeyPairs /\ Iterations' = Iterations
      /\ \A K : Distinct(K)' <=> Distinct(K)
  BY ConfigKept
<1>4. Cardinality(Iterations) \in Nat
  BY ConfigFacts DEF TypesOK
<1>5. WorkerTypes(r)'
  <2>1. Distinct({})
    BY DEF Distinct
  <2>2. 0 \in 0 .. Cardinality(Iterations)
    BY <1>4
  <2> QED
    BY <1>2, <1>3, <2>1, <2>2 DEF WorkerTypes
<1>6. worker'[w] = r
  BY <1>1
<1>7. Register(w)' /\ Element(w)' /\ Over(w)'
  BY <1>2, <1>6 DEF Register, Element, Over
<1> QED
  BY <1>2, <1>5, <1>6, <1>7 DEF WorkerOK, Held

LEMMA TakeTaskStep ==
  ASSUME BloomInv, NEW w \in Workers, TakeTask(w)
  PROVE  BloomInv'
<1>1. PICK p \in todo :
        /\ worker' = [worker EXCEPT ![w] = Task(Vectors(p))]
        /\ todo' = todo \ {p}
  BY DEF TakeTask
<1>2. /\ config' = config /\ pc' = pc /\ filter' = filter /\ hash' = hash
      /\ inserted' = inserted /\ pc = "construct" /\ ~Busy(w)
  BY DEF TakeTask
<1>3. TypesOK /\ Apart
  BY DEF BloomInv
<1>4. p \in Partitions /\ p \in Firsts /\ config \in Configs
  BY <1>1, <1>3 DEF TypesOK, Firsts
<1>5. /\ Vectors(p) \in Seq(SUBSET KeyPairs)
      /\ \A v \in DOMAIN Vectors(p) :
           /\ Distinct(Vectors(p)[v])
           /\ \A l \in Vectors(p)[v] : l[1] \in Group(p)
  BY <1>4, VectorFacts
<1>6. /\ worker'[w] = Task(Vectors(p))
      /\ \A v \in Workers \ {w} : worker'[v] = worker[v]
      /\ worker' = [v \in Workers |-> worker'[v]]
  BY <1>1, <1>3 DEF TypesOK
<1>7. TypesOK'
  <2>1. /\ Firsts' = Firsts /\ Words' = Words /\ Keys' = Keys /\ Masks' = Masks
        /\ Partitions' = Partitions /\ \A q : KeysOf(q)' = KeysOf(q)
    BY <1>2, ConfigKept
  <2> QED
    BY <1>1, <1>2, <1>3, <1>6, <2>1 DEF TypesOK
<1>8. WorkerOK(w)' /\ Held(w)' = UNION {Vectors(p)[v] : v \in DOMAIN Vectors(p)}
  BY <1>2, <1>3, <1>5, <1>6, NewTask
<1>9. HashesKept
  BY <1>2 DEF HashesKept
<1>10. \A v \in Workers \ {w} : WorkerOK(v)'
  BY <1>2, <1>3, <1>6, <1>9, OtherKept DEF BloomInv
<1>11. Apart'
  <2>1. \A a \in Held(w)' : a[1] \in Group(p)
    BY <1>5, <1>8
  <2>2. \A v \in Workers \ {w} : (Busy(v)' <=> Busy(v)) /\ Held(v)' = Held(v)
    BY <1>6 DEF Busy, Held
  <2>3. \A v \in Workers \ {w} : Busy(v) => \A a \in Held(v) : a[1] \notin Group(p)
    BY <1>1, <1>2, <1>3 DEF Apart
  <2>4. ASSUME NEW f \in todo', NEW a \in Held(w)'
        PROVE  a[1] \notin Group(f)
    <3>1. f \in Firsts /\ f # p
      BY <1>1, <1>3, <2>4 DEF TypesOK
    <3>2. Group(f) \cap Group(p) = {}
      BY <1>4, <3>1, GroupsApart
    <3> QED
      BY <2>1, <2>4, <3>2
  <2>5. \A f : Group(f)' = Group(f)
    BY <1>2, ConfigKept
  <2>6. \A v \in Workers \ {w} : Busy(v) =>
          \A a \in Held(v), f \in todo' : a[1] \notin Group(f)
    BY <1>1, <1>2, <1>3 DEF Apart
  <2>7. \A v, u \in Workers : v # u /\ Busy(v)' /\ Busy(u)' =>
          \A a \in Held(v)', b \in Held(u)' : a[1] # b[1]
    <3>1. ASSUME NEW v \in Workers, NEW u \in Workers, v # u, Busy(v)', Busy(u)',
                 NEW a \in Held(v)', NEW b \in Held(u)', a[1] = b[1]
          PROVE  FALSE
      <4>1. CASE v = w
        BY <2>1, <2>2, <2>3, <3>1, <4>1
      <4>2. CASE u = w
        BY <2>1, <2>2, <2>3, <3>1, <4>2
      <4>3. CASE v # w /\ u # w
        BY <1>3, <2>2, <3>1, <4>3 DEF Apart
      <4> QED
        BY <4>1, <4>2, <4>3
    <3> QED
      BY <3>1
  <2>8. \A v \in Workers : Busy(v)' =>
          \A a \in Held(v)', f \in todo' : a[1] \notin Group(f)'
    <3>1. TAKE v \in Workers
    <3>2. CASE v = w
      BY <2>4, <2>5, <3>2
    <3>3. CASE v # w
      BY <2>2, <2>5, <2>6, <3>3
    <3> QED
      BY <3>2, <3>3
  <2> QED
    BY <1>2, <2>7, <2>8 DEF Apart
<1>12. NoFalseNegatives'
  BY <1>2, <1>9, FoundStays DEF NoFalseNegatives
<1>13. OnlyBitsOfKeys'
  BY <1>2, <1>7, <1>9, OnlyClaimedNext
<1> QED
  BY <1>7, <1>8, <1>10, <1>11, <1>12, <1>13 DEF BloomInv

(* What every step of a thread with its vectors does. *)
LEMMA WorkStep ==
  ASSUME BloomInv, NEW w \in Workers, Busy(w),
         config' = config, pc' = pc, todo' = todo, HashesKept,
         \A v \in Workers \ {w} : worker'[v] = worker[v],
         Busy(w)' => Held(w)' \subseteq Held(w),
         TypesOK', WorkerOK(w)',
         \A i \in Words : filter[i] \subseteq filter'[i],
         \A i \in Words : filter'[i] \subseteq filter[i] \cup Claimed(i)',
         \A i \in Words : filter'[i] # filter[i] => \E l \in Held(w) : i \in WordsOf(l[1]),
         \A x \in inserted' : x \in inserted \/ contains(x)'
  PROVE  BloomInv'
<1>1. \A v \in Workers : WorkerOK(v)'
  BY OthersKept
<1>2. Apart'
  BY ApartKept DEF BloomInv
<1>3. NoFalseNegatives'
  BY FoundStays DEF NoFalseNegatives
<1>4. OnlyBitsOfKeys'
  BY OnlyClaimedNext
<1> QED
  BY <1>1, <1>2, <1>3, <1>4 DEF BloomInv

(* The types of the variables that a step of a thread changes. *)
LEMMA TypesNext ==
  ASSUME TypesOK, config' = config, todo' \subseteq todo,
         worker' = [v \in Workers |-> worker'[v]],
         filter' \in [Words -> SUBSET (0 .. WordSize - 1)],
         hash' \in [Keys -> Masks \cup {Null}],
         \A x \in inserted' : hash'[x] # Null /\ \E p \in Partitions : x \in KeysOf(p)
  PROVE  TypesOK'
<1>1. /\ Firsts' = Firsts /\ Words' = Words /\ Keys' = Keys /\ Masks' = Masks
      /\ Partitions' = Partitions /\ \A q : KeysOf(q)' = KeysOf(q)
  BY ConfigKept
<1> QED
  BY <1>1 DEF TypesOK

LEMMA TaskDoneStep ==
  ASSUME BloomInv, NEW w \in Workers, TaskDone(w)
  PROVE  BloomInv'
<1>1. /\ config' = config /\ pc' = pc /\ todo' = todo /\ filter' = filter /\ hash' = hash
      /\ inserted' = inserted /\ Busy(w) /\ worker' = [worker EXCEPT ![w] = Null]
  BY DEF TaskDone
<1>2. TypesOK
  BY DEF BloomInv
<1>3. /\ worker'[w] = Null
      /\ \A v \in Workers \ {w} : worker'[v] = worker[v]
      /\ worker' = [v \in Workers |-> worker'[v]]
  BY <1>1, <1>2 DEF TypesOK
<1>4. TypesOK'
  BY <1>1, <1>2, <1>3, TypesNext DEF TypesOK
<1>5. ~Busy(w)' /\ WorkerOK(w)' /\ HashesKept
  BY <1>1, <1>3 DEF Busy, WorkerOK, HashesKept
<1> QED
  BY <1>1, <1>3, <1>4, <1>5, WorkStep

LEMMA LoadVectorStep ==
  ASSUME BloomInv, NEW w \in Workers, LoadVector(w)
  PROVE  BloomInv'
<1>1. PICK lanes : lanes = Head(worker[w].vectors)
  OBVIOUS
<1>2. PICK fresh : fresh = {lane[2] : lane \in lanes} \ {x \in Keys : hash[x] # Null}
  OBVIOUS
<1>3. /\ config' = config /\ pc' = pc /\ todo' = todo /\ filter' = filter
      /\ inserted' = inserted /\ Busy(w)
      /\ worker[w].step = 0 /\ worker[w].vectors # <<>>
      /\ worker' = [worker EXCEPT ![w].vectors = Tail(@), ![w].keys = lanes, ![w].step = 1]
  BY <1>1 DEF LoadVector
<1>4. PICK h \in [fresh -> Masks] :
        hash' = [x \in Keys |-> IF x \in fresh THEN h[x] ELSE hash[x]]
  BY <1>1, <1>2 DEF LoadVector
<1>5. TypesOK /\ WorkerTypes(worker[w])
  BY <1>3 DEF BloomInv, WorkerOK
<1>6. PICK r : r = worker[w]
  OBVIOUS
<1>7. /\ r = [vectors |-> r.vectors, keys |-> r.keys, step |-> r.step,
              register |-> r.register, element |-> r.element]
      /\ r.vectors \in Seq(SUBSET KeyPairs) /\ r.vectors # <<>>
      /\ \A v \in DOMAIN r.vectors : Distinct(r.vectors[v])
      /\ r.step = 0 /\ r.register = Null /\ r.keys = {} /\ r.element = Null
  BY <1>3, <1>5, <1>6 DEF WorkerTypes
<1>8. PICK s : s = worker'[w]
  OBVIOUS
<1>9. /\ s = [vectors |-> Tail(r.vectors), keys |-> lanes, step |-> 1,
              register |-> Null, element |-> Null]
      /\ \A v \in Workers \ {w} : worker'[v] = worker[v]
      /\ worker' = [v \in Workers |-> worker'[v]]
  <2>1. PICK next : next = [r EXCEPT !.vectors = Tail(@), !.keys = lanes, !.step = 1]
    OBVIOUS
  <2>2. worker' = [worker EXCEPT ![w] = next]
    BY <1>3, <1>5, <1>6, <2>1 DEF TypesOK
  <2>3. /\ worker'[w] = next
        /\ \A v \in Workers \ {w} : worker'[v] = worker[v]
        /\ worker' = [v \in Workers |-> worker'[v]]
    BY <1>5, <2>2 DEF TypesOK
  <2>4. next = [vectors |-> Tail(r.vectors), keys |-> lanes, step |-> 1,
                register |-> Null, element |-> Null]
    BY <1>7, <2>1
  <2> QED
    BY <1>8, <2>3, <2>4
<1>10. /\ s.vectors = Tail(r.vectors) /\ s.keys = lanes /\ s.step = 1
       /\ s.register = Null /\ s.element = Null
       /\ s = [vectors |-> s.vectors, keys |-> s.keys, step |-> s.step,
               register |-> s.register, element |-> s.element]
  BY <1>9
<1>11. /\ Tail(r.vectors) \in Seq(SUBSET KeyPairs)
       /\ 1 \in DOMAIN r.vectors /\ lanes = r.vectors[1]
       /\ \A v \in DOMAIN Tail(r.vectors) :
            v + 1 \in DOMAIN r.vectors /\ Tail(r.vectors)[v] = r.vectors[v + 1]
  BY <1>1, <1>6, <1>7, HeadTailProperties
<1>12. lanes \subseteq KeyPairs /\ Distinct(lanes)
       /\ \A v \in DOMAIN Tail(r.vectors) : Distinct(Tail(r.vectors)[v])
  <2>1. r.vectors[1] \in SUBSET KeyPairs
    BY <1>7, <1>11
  <2> QED
    BY <1>7, <1>11, <2>1
<1>13. \A l \in lanes : l[2] \in Keys
  BY <1>12 DEF KeyPairs
<1>14. Null \notin Masks /\ hash \in [Keys -> Masks \cup {Null}]
  BY <1>5, MaskFacts DEF TypesOK
<1>15. /\ HashesKept
       /\ hash' \in [Keys -> Masks \cup {Null}]
       /\ \A l \in lanes : hash'[l[2]] # Null
  <2>1. \A x \in Keys : hash[x] # Null => x \notin fresh
    BY <1>2
  <2>2. HashesKept
    BY <1>4, <2>1 DEF HashesKept
  <2>3. \A x \in Keys : x \in fresh => h[x] \in Masks
    BY <1>4
  <2>4. hash' \in [Keys -> Masks \cup {Null}]
    BY <1>4, <1>14, <2>3
  <2>5. \A l \in lanes : l[2] \notin fresh => hash[l[2]] # Null
    BY <1>2, <1>13
  <2>6. \A l \in lanes : hash'[l[2]] # Null
    BY <1>4, <1>13, <1>14, <2>3, <2>5
  <2> QED
    BY <2>2, <2>4, <2>6
<1>16. TypesOK'
  <2>1. \A x \in inserted' : hash'[x] # Null /\ \E p \in Partitions : x \in KeysOf(p)
    BY <1>3, <1>15, FoundStays DEF BloomInv, TypesOK
  <2> QED
    BY <1>3, <1>5, <1>9, <1>15, <2>1, TypesNext DEF TypesOK
<1>17. WorkerOK(w)'
  <2>1. /\ KeyPairs' = KeyPairs /\ Iterations' = Iterations
        /\ \A K : Distinct(K)' <=> Distinct(K)
    BY <1>3, ConfigKept
  <2>2. 1 \in 0 .. Cardinality(Iterations)
    BY <1>5, ConfigFacts DEF TypesOK
  <2>3. WorkerTypes(s)'
    BY <1>10, <1>11, <1>12, <1>15, <2>1, <2>2 DEF WorkerTypes
  <2>4. Register(w)' /\ Element(w)' /\ Over(w)'
    BY <1>8, <1>10 DEF Register, Element, Over
  <2> QED
    BY <1>8, <2>3, <2>4 DEF WorkerOK
<1>18. Held(w)' \subseteq Held(w)
  <2>1. Held(w)' = lanes \cup UNION {Tail(r.vectors)[v] : v \in DOMAIN Tail(r.vectors)}
    BY <1>8, <1>10 DEF Held
  <2>2. lanes \subseteq Held(w)
    BY <1>6, <1>11 DEF Held
  <2>3. \A v \in DOMAIN Tail(r.vectors) : Tail(r.vectors)[v] \subseteq Held(w)
    BY <1>6, <1>11 DEF Held
  <2> QED
    BY <2>1, <2>2, <2>3
<1> QED
  BY <1>3, <1>9, <1>15, <1>16, <1>17, <1>18, WorkStep

(* A step that changes only the register of a thread. *)
LEMMA RegisterStep ==
  ASSUME BloomInv, NEW w \in Workers, Busy(w),
         UNCHANGED <<config, pc, todo, filter, hash, inserted>>,
         worker' = [v \in Workers |-> worker'[v]],
         \A v \in Workers \ {w} : worker'[v] = worker[v],
         worker'[w].vectors = worker[w].vectors, worker'[w].keys = worker[w].keys,
         WorkerOK(w)'
  PROVE  BloomInv'
<1>1. TypesOK'
  BY TypesNext DEF BloomInv, TypesOK
<1>2. Held(w)' = Held(w)
  BY DEF Held
<1>3. HashesKept
  BY DEF HashesKept
<1> QED
  BY <1>1, <1>2, <1>3, WorkStep

(* With the same filter and hashes, words, bits and claims are the same. *)
LEMMA SameElements ==
  ASSUME UNCHANGED <<config, filter, hash>>
  PROVE  /\ \A e : WordOf(e)' = WordOf(e) /\ BitsOf(e)' = BitsOf(e)
         /\ \A e : IsSet(e)' <=> IsSet(e)
         /\ \A i : Claimed(i)' = Claimed(i)
         /\ \A e : Claimed(WordOf(e))' = Claimed(WordOf(e))
         /\ \A r : WorkerTypes(r)' <=> WorkerTypes(r)
<1>1. /\ Keys' = Keys /\ Iterations' = Iterations /\ KeyPairs' = KeyPairs
      /\ \A x : PartitionOf(x)' = PartitionOf(x)
      /\ \A p, part : word(p, part)' = word(p, part)
      /\ \A K : Distinct(K)' <=> Distinct(K)
  BY ConfigKept
<1>2. \A e : WordOf(e)' = WordOf(e) /\ BitsOf(e)' = BitsOf(e)
  BY <1>1 DEF WordOf, BitsOf
<1>3. \A e : IsSet(e)' <=> IsSet(e)
  BY <1>2 DEF IsSet
<1>4. \A i : Claimed(i)' = Claimed(i)
  BY <1>1 DEF Claimed
<1>5. \A e : Claimed(WordOf(e))' = Claimed(WordOf(e))
  BY <1>1, <1>2 DEF Claimed
<1>6. \A r : WorkerTypes(r)' <=> WorkerTypes(r)
  BY <1>1 DEF WorkerTypes
<1> QED
  BY <1>2, <1>3, <1>4, <1>5, <1>6

LEMMA GatherStep ==
  ASSUME BloomInv, NEW w \in Workers, Gather(w)
  PROVE  BloomInv'
<1>1. /\ config' = config /\ pc' = pc /\ todo' = todo /\ filter' = filter /\ hash' = hash
      /\ inserted' = inserted /\ Busy(w)
      /\ worker[w].step > 0 /\ worker[w].register = Null
      /\ worker' = [worker EXCEPT ![w].register =
                      [e \in Elements(w) |-> filter[WordOf(e)] \cup BitsOf(e)]]
  BY DEF Gather
<1>2. TypesOK /\ WorkerTypes(worker[w]) /\ Over(w) /\ OnlyBitsOfKeys
  BY <1>1 DEF BloomInv, WorkerOK
<1>3. PICK r, s : r = worker[w] /\ s = worker'[w]
  OBVIOUS
<1>4. PICK reg : reg = [e \in Elements(w) |-> filter[WordOf(e)] \cup BitsOf(e)]
  OBVIOUS
<1>5. /\ r = [vectors |-> r.vectors, keys |-> r.keys, step |-> r.step,
              register |-> r.register, element |-> r.element]
      /\ r.register = Null /\ r.element = Null /\ r.step > 0 /\ r.step \in Int
  <2>1. Cardinality(Iterations) \in Nat
    BY <1>2, ConfigFacts DEF TypesOK
  <2> QED
    BY <1>1, <1>2, <1>3, <2>1 DEF WorkerTypes
<1>6. /\ s = [vectors |-> r.vectors, keys |-> r.keys, step |-> r.step,
              register |-> reg, element |-> Null]
      /\ \A v \in Workers \ {w} : worker'[v] = worker[v]
      /\ worker' = [v \in Workers |-> worker'[v]]
  BY <1>1, <1>2, <1>3, <1>4, <1>5 DEF TypesOK
<1>7. /\ s.vectors = r.vectors /\ s.keys = r.keys /\ s.step = r.step
      /\ s.register = reg /\ s.element = Null
      /\ s = [vectors |-> s.vectors, keys |-> s.keys, step |-> s.step,
              register |-> s.register, element |-> s.element]
  BY <1>6
<1>8. WorkerTypes(s)
  BY <1>2, <1>3, <1>5, <1>7 DEF WorkerTypes
<1>9. Elements(w)' = Elements(w) /\ (Vertical' <=> Vertical)
  <2>1. (Vertical' <=> Vertical) /\ Iterations' = Iterations
    BY <1>1, ConfigKept
  <2> QED
    BY <1>3, <1>7, <2>1 DEF Elements
<1>10. /\ \A e : WordOf(e)' = WordOf(e) /\ BitsOf(e)' = BitsOf(e)
       /\ \A e : IsSet(e)' <=> IsSet(e)
       /\ \A e : Claimed(WordOf(e))' = Claimed(WordOf(e))
       /\ (WorkerTypes(s)' <=> WorkerTypes(s))
  BY <1>1, SameElements
<1>11. ASSUME NEW e \in Elements(w)
       PROVE  /\ BitsOf(e) \subseteq reg[e] /\ filter[WordOf(e)] \subseteq reg[e]
              /\ reg[e] \subseteq Claimed(WordOf(e))
  <2>1. WordOf(e) \in Words /\ BitsOf(e) \subseteq Claimed(WordOf(e))
    BY <1>1, <1>2, ElementsFacts
  <2>2. filter[WordOf(e)] \subseteq Claimed(WordOf(e))
    BY <1>2, <2>1, OnlyClaimed
  <2> QED
    BY <1>4, <2>1, <2>2
<1>12. DOMAIN reg = Elements(w)
  BY <1>4
<1>13. Register(w)'
  BY <1>1, <1>3, <1>7, <1>9, <1>10, <1>11, <1>12 DEF Register
<1>14. Element(w)'
  BY <1>3, <1>7 DEF Element
<1>15. Over(w)'
  BY <1>2, <1>3, <1>7, <1>9, <1>10 DEF Over
<1>16. WorkerOK(w)'
  BY <1>3, <1>8, <1>10, <1>13, <1>14, <1>15 DEF WorkerOK
<1> QED
  BY <1>1, <1>3, <1>6, <1>7, <1>16, RegisterStep

LEMMA ReadElementStep ==
  ASSUME BloomInv, NEW w \in Workers, ReadElement(w)
  PROVE  BloomInv'
<1>1. /\ config' = config /\ pc' = pc /\ todo' = todo /\ filter' = filter /\ hash' = hash
      /\ inserted' = inserted /\ Busy(w) /\ Vertical
      /\ worker[w].register # Null /\ worker[w].element = Null
  BY DEF ReadElement
<1>2. PICK at \in DOMAIN worker[w].register :
        worker' = [worker EXCEPT ![w].element =
          [at |-> at, bits |-> filter[WordOf(at)] \cup worker[w].register[at]]]
  BY DEF ReadElement, Remaining
<1>3. TypesOK /\ WorkerTypes(worker[w]) /\ Register(w) /\ Over(w) /\ OnlyBitsOfKeys
  BY <1>1 DEF BloomInv, WorkerOK
<1>4. PICK r, s : r = worker[w] /\ s = worker'[w]
  OBVIOUS
<1>5. PICK element : element = [at |-> at, bits |-> filter[WordOf(at)] \cup r.register[at]]
  OBVIOUS
<1>6. /\ r = [vectors |-> r.vectors, keys |-> r.keys, step |-> r.step,
              register |-> r.register, element |-> r.element]
      /\ r.register # Null /\ r.step > 0
  <2>1. Cardinality(Iterations) \in Nat
    BY <1>3, ConfigFacts DEF TypesOK
  <2> QED
    BY <1>1, <1>3, <1>4, <2>1 DEF WorkerTypes
<1>7. /\ s = [vectors |-> r.vectors, keys |-> r.keys, step |-> r.step,
              register |-> r.register, element |-> element]
      /\ \A v \in Workers \ {w} : worker'[v] = worker[v]
      /\ worker' = [v \in Workers |-> worker'[v]]
  BY <1>1, <1>2, <1>3, <1>4, <1>5, <1>6 DEF TypesOK
<1>8. /\ s.vectors = r.vectors /\ s.keys = r.keys /\ s.step = r.step
      /\ s.register = r.register /\ s.element = element
      /\ s = [vectors |-> s.vectors, keys |-> s.keys, step |-> s.step,
              register |-> s.register, element |-> s.element]
  BY <1>7
<1>9. WorkerTypes(s)
  BY <1>3, <1>4, <1>6, <1>8 DEF WorkerTypes
<1>10. Elements(w)' = Elements(w) /\ (Vertical' <=> Vertical)
  <2>1. (Vertical' <=> Vertical) /\ Iterations' = Iterations
    BY <1>1, ConfigKept
  <2> QED
    BY <1>4, <1>8, <2>1 DEF Elements
<1>11. /\ \A e : WordOf(e)' = WordOf(e) /\ BitsOf(e)' = BitsOf(e)
       /\ \A e : IsSet(e)' <=> IsSet(e)
       /\ \A e : Claimed(WordOf(e))' = Claimed(WordOf(e))
       /\ (WorkerTypes(s)' <=> WorkerTypes(s))
  BY <1>1, SameElements
<1>12. /\ DOMAIN r.register \subseteq Elements(w)
       /\ \A e \in DOMAIN r.register :
            /\ BitsOf(e) \subseteq r.register[e]
            /\ r.register[e] \subseteq Claimed(WordOf(e))
       /\ \A e \in Elements(w) \ DOMAIN r.register : IsSet(e)
  BY <1>1, <1>3, <1>4 DEF Register
<1>13. Register(w)'
  BY <1>1, <1>4, <1>8, <1>10, <1>11, <1>12 DEF Register
<1>14. Element(w)'
  <2>1. element.at = at /\ element.bits = filter[WordOf(at)] \cup r.register[at]
    BY <1>5
  <2>2. at \in Elements(w) /\ at \in DOMAIN r.register
    BY <1>2, <1>4, <1>12
  <2>3. WordOf(at) \in Words
    BY <1>1, <1>3, <1>4, <1>6, <2>2, ElementsFacts
  <2>4. filter[WordOf(at)] \subseteq Claimed(WordOf(at))
    BY <1>3, <2>3, OnlyClaimed
  <2>5. /\ filter[WordOf(at)] \subseteq element.bits /\ BitsOf(at) \subseteq element.bits
        /\ element.bits \subseteq Claimed(WordOf(at))
    BY <1>12, <2>1, <2>2, <2>4
  <2>6. /\ Vertical'
        /\ s.element.at \in DOMAIN s.register
        /\ filter'[WordOf(s.element.at)'] \subseteq s.element.bits
        /\ BitsOf(s.element.at)' \subseteq s.element.bits
        /\ s.element.bits \subseteq Claimed(WordOf(s.element.at))'
    BY <1>1, <1>8, <1>10, <1>11, <2>1, <2>2, <2>5
  <2>7. WordOf(worker[w].element.at)' = WordOf(s.element.at)'
        /\ BitsOf(worker[w].element.at)' = BitsOf(s.element.at)'
        /\ Claimed(WordOf(worker[w].element.at))' = Claimed(WordOf(s.element.at))'
    BY <1>4 DEF WordOf, BitsOf, Claimed
  <2> QED
    BY <1>4, <2>6, <2>7 DEF Element
<1>15. Over(w)'
  BY <1>1, <1>10 DEF Over
<1>16. WorkerOK(w)'
  BY <1>4, <1>9, <1>11, <1>13, <1>14, <1>15 DEF WorkerOK
<1> QED
  BY <1>1, <1>4, <1>7, <1>8, <1>16, RegisterStep

-----------------------------------------------------------------------------
(* The steps that write. *)

(* What is written by a step of a thread is never taken away, is claimed,  *)
(* and lies in words of its partitions.                                    *)
Written(w) ==
  /\ filter' \in [Words -> SUBSET (0 .. WordSize - 1)]
  /\ \A i \in Words :
       /\ filter[i] \subseteq filter'[i]
       /\ filter'[i] \subseteq filter[i] \cup Claimed(i)
       /\ filter'[i] # filter[i] => \E l \in Held(w) : i \in WordsOf(l[1])

(* The words of an element after a step that writes. *)
LEMMA WrittenFacts ==
  ASSUME BloomInv, NEW w \in Workers, Busy(w), worker[w].step > 0,
         UNCHANGED <<config, hash>>, Written(w),
         NEW l \in worker[w].keys, NEW t \in Iterations
  PROVE  /\ l \in KeyPairs /\ hash[l[2]] # Null
         /\ WordOf(<<l, t>>)' = WordOf(<<l, t>>)
         /\ BitsOf(<<l, t>>)' = BitsOf(<<l, t>>)
         /\ Claimed(WordOf(<<l, t>>))' = Claimed(WordOf(<<l, t>>))
         /\ WordOf(<<l, t>>) \in Words
         /\ IsSet(<<l, t>>) => IsSet(<<l, t>>)'
<1>1. TypesOK /\ WorkerTypes(worker[w])
  BY DEF BloomInv, WorkerOK
<1>2. l \in KeyPairs /\ hash[l[2]] # Null
  BY <1>1 DEF WorkerTypes
<1>3. WordOf(<<l, t>>) \in Words
  BY <1>1, <1>2, ElementFacts
<1>4. /\ Keys' = Keys /\ Iterations' = Iterations
      /\ \A x : PartitionOf(x)' = PartitionOf(x)
      /\ \A p, part : word(p, part)' = word(p, part)
  BY ConfigKept
<1>5. PICK e : e = <<l, t>>
  OBVIOUS
<1>6. WordOf(e)' = WordOf(e) /\ BitsOf(e)' = BitsOf(e)
  BY <1>4 DEF WordOf, BitsOf
<1>7. Claimed(WordOf(e))' = Claimed(WordOf(e))
  BY <1>4, <1>6 DEF Claimed
<1>8. IsSet(e) => IsSet(e)'
  BY <1>3, <1>5, <1>6 DEF IsSet, Written
<1> QED
  BY <1>2, <1>3, <1>5, <1>6, <1>7, <1>8

(* A step that writes, as a step of the invariant: a vector may be done if *)
(* all its elements are set.                                               *)
LEMMA WriteStep ==
  ASSUME BloomInv, NEW w \in Workers, Busy(w), worker[w].step > 0,
         UNCHANGED <<config, pc, todo, hash>>, Written(w),
         worker' = [v \in Workers |-> worker'[v]],
         \A v \in Workers \ {w} : worker'[v] = worker[v],
         WorkerOK(w)', Busy(w)' => Held(w)' \subseteq Held(w),
         \/ inserted' = inserted
         \/ /\ inserted' = inserted \cup {lane[2] : lane \in worker[w].keys}
            /\ \A l \in worker[w].keys, t \in Iterations : IsSet(<<l, t>>)'
  PROVE  BloomInv'
<1>1. TypesOK /\ WorkerTypes(worker[w])
  BY DEF BloomInv, WorkerOK
<1>2. \A l \in worker[w].keys : l \in KeyPairs /\ hash[l[2]] # Null
  BY <1>1 DEF WorkerTypes
<1>3. TypesOK'
  <2>1. filter' \in [Words -> SUBSET (0 .. WordSize - 1)]
    BY DEF Written
  <2>2. hash' \in [Keys -> Masks \cup {Null}] /\ config' = config /\ todo' \subseteq todo
    BY <1>1 DEF TypesOK
  <2>3. \A x \in inserted' : hash'[x] # Null /\ \E p \in Partitions : x \in KeysOf(p)
    <3>1. \A l \in worker[w].keys : hash[l[2]] # Null /\ \E p \in Partitions : l[2] \in KeysOf(p)
      BY <1>2 DEF KeyPairs
    <3>2. \A x \in inserted : hash[x] # Null /\ \E p \in Partitions : x \in KeysOf(p)
      BY <1>1 DEF TypesOK
    <3> QED
      BY <3>1, <3>2
  <2> QED
    BY <1>1, <2>1, <2>2, <2>3, TypesNext
<1>4. HashesKept
  BY DEF HashesKept
<1>5. \A i : Claimed(i) \subseteq Claimed(i)'
  BY <1>1, <1>4, ClaimsKept
<1>6. \A i \in Words : /\ filter[i] \subseteq filter'[i]
                       /\ filter'[i] \subseteq filter[i] \cup Claimed(i)'
                       /\ filter'[i] # filter[i] => \E l \in Held(w) : i \in WordsOf(l[1])
  BY <1>5 DEF Written
<1>7. ASSUME NEW l \in worker[w].keys, \A t \in Iterations : IsSet(<<l, t>>)'
      PROVE  contains(l[2])'
  <2>1. PartitionOf(l[2]) = l[1]
    BY <1>1, <1>2, KeyFacts DEF KeyPairs, TypesOK
  <2>2. /\ Iterations' = Iterations
        /\ \A x : PartitionOf(x)' = PartitionOf(x)
        /\ \A p, part : word(p, part)' = word(p, part)
    BY ConfigKept
  <2>3. ASSUME NEW t \in Iterations
        PROVE  hash'[l[2]][t].bits \subseteq filter'[word(l[1], hash'[l[2]][t])]
    <3>1. PICK e : e = <<l, t>>
      OBVIOUS
    <3>2. IsSet(e)'
      BY <1>7, <3>1
    <3>3. e[1] = l /\ e[2] = t
      BY <3>1
    <3>4. PICK m : m = hash[l[2]][t] /\ m = hash'[l[2]][t]
      OBVIOUS
    <3>5. word(l[1], m)' = word(l[1], m)
      BY <2>2
    <3>6. m.bits \subseteq filter'[word(l[1], m)]
      BY <3>2, <3>3, <3>4, <3>5 DEF IsSet, BitsOf, WordOf
    <3> QED
      BY <3>4, <3>6
  <2> QED
    BY <2>1, <2>2, <2>3 DEF contains
<1>8. \A x \in inserted' : x \in inserted \/ contains(x)'
  BY <1>7
<1> QED
  BY <1>3, <1>4, <1>6, <1>8, WorkStep

LEMMA ScatterStep ==
  ASSUME BloomInv, NEW w \in Workers, Scatter(w)
  PROVE  BloomInv'
<1>1. /\ config' = config /\ pc' = pc /\ todo' = todo /\ hash' = hash
      /\ Busy(w) /\ ~Vertical /\ worker[w].register # Null /\ NextStep(w)
  BY DEF Scatter
<1>2. PICK r, s : r = worker[w] /\ s = worker'[w]
  OBVIOUS
<1>3. PICK E : E = Elements(w)
  OBVIOUS
<1>4. filter' = [i \in Words |->
        IF {e \in E : WordOf(e) = i} = {} THEN filter[i]
        ELSE r.register[CHOOSE e \in {g \in E : WordOf(g) = i} :
                          \A f \in {g \in E : WordOf(g) = i} : e = f \/ Before(f, e)]]
  BY <1>2, <1>3 DEF Scatter
<1>5. TypesOK /\ WorkerTypes(r) /\ Register(w) /\ Over(w)
  BY <1>1, <1>2 DEF BloomInv, WorkerOK
<1>6. /\ Iterations = 1 .. Cardinality(Iterations) /\ Cardinality(Iterations) \in Nat \ {0}
      /\ r.step \in 1 .. Cardinality(Iterations)
      /\ r = [vectors |-> r.vectors, keys |-> r.keys, step |-> r.step,
              register |-> r.register, element |-> r.element]
  <2>1. /\ Iterations = 1 .. Cardinality(Iterations) /\ Cardinality(Iterations) \in Nat \ {0}
    BY <1>5, ConfigFacts DEF TypesOK
  <2> QED
    BY <1>1, <1>2, <1>5, <2>1 DEF WorkerTypes
<1>7. E = {<<l, r.step>> : l \in r.keys}
  BY <1>1, <1>2, <1>3 DEF Elements
<1>8. /\ DOMAIN r.register = E
      /\ \A e \in E : /\ BitsOf(e) \subseteq r.register[e]
                      /\ r.register[e] \subseteq Claimed(WordOf(e))
                      /\ filter[WordOf(e)] \subseteq r.register[e]
  BY <1>1, <1>2, <1>3, <1>5 DEF Register
<1>9. \A e \in E : /\ WordOf(e) \in Words /\ WordOf(e) \in WordsOf(e[1][1])
                   /\ e[1] \in Held(w) /\ e[1] \in r.keys /\ e[1] \in KeyPairs
  BY <1>1, <1>2, <1>3, <1>5, <1>6, ElementsFacts
(* No two elements name one word: they are lanes of different partitions.  *)
<1>10. ASSUME NEW e \in E, NEW f \in E, WordOf(e) = WordOf(f)
       PROVE  e = f
  <2>1. e[1][1] \in Partitions /\ f[1][1] \in Partitions
    BY <1>9, <1>10 DEF KeyPairs
  <2>2. e[1][1] = f[1][1]
    BY <1>5, <1>9, <1>10, <2>1, WordsApart DEF TypesOK
  <2>3. e[1] = f[1]
    BY <1>1, <1>5, <1>9, <2>2 DEF WorkerTypes, Distinct
  <2> QED
    BY <1>7, <2>3
<1>11. ASSUME NEW e \in E
       PROVE  filter'[WordOf(e)] = r.register[e]
  <2>1. PICK i \in Words : i = WordOf(e)
    BY <1>9
  <2>2. {g \in E : WordOf(g) = i} = {e}
    BY <1>10, <2>1
  <2>3. filter'[i] = r.register[CHOOSE g \in {e} : \A f \in {e} : g = f \/ Before(f, g)]
    BY <1>4, <2>2
  <2>4. (CHOOSE g \in {e} : \A f \in {e} : g = f \/ Before(f, g)) = e
    OBVIOUS
  <2> QED
    BY <2>1, <2>3, <2>4
<1>12. \A i \in Words : (\E e \in E : WordOf(e) = i) \/ filter'[i] = filter[i]
  BY <1>4
<1>13. Written(w)
  <2>1. \A i \in Words : Claimed(i) \subseteq 0 .. WordSize - 1 /\ filter[i] \subseteq 0 .. WordSize - 1
    BY <1>5 DEF Claimed, TypesOK
  <2>2. ASSUME NEW i \in Words
        PROVE  /\ filter[i] \subseteq filter'[i]
               /\ filter'[i] \subseteq filter[i] \cup Claimed(i)
               /\ filter'[i] # filter[i] => \E l \in Held(w) : i \in WordsOf(l[1])
    <3>1. CASE filter'[i] = filter[i]
      BY <3>1
    <3>2. CASE \E e \in E : WordOf(e) = i
      <4>1. PICK e \in E : WordOf(e) = i
        BY <3>2
      <4> QED
        BY <1>8, <1>9, <1>11, <4>1
    <3> QED
      BY <1>12, <3>1, <3>2
  <2>3. filter' = [i \in Words |-> filter'[i]]
    BY <1>4
  <2>4. \A i \in Words : filter'[i] \subseteq 0 .. WordSize - 1
    BY <2>1, <2>2
  <2>5. filter' \in [Words -> SUBSET (0 .. WordSize - 1)]
    BY <2>3, <2>4
  <2> QED
    BY <2>2, <2>5 DEF Written
(* The iteration that is written, and those before. *)
<1>14. ASSUME NEW l \in r.keys, NEW t \in 1 .. r.step
       PROVE  IsSet(<<l, t>>)'
  <2>1. t \in Iterations /\ r.step > 0
    BY <1>6
  <2>2. /\ WordOf(<<l, t>>)' = WordOf(<<l, t>>)
        /\ BitsOf(<<l, t>>)' = BitsOf(<<l, t>>)
        /\ IsSet(<<l, t>>) => IsSet(<<l, t>>)'
    BY <1>1, <1>2, <1>13, <2>1, WrittenFacts
  <2>3. CASE t = r.step
    <3>1. PICK e \in E : e = <<l, t>>
      BY <1>7, <2>3
    <3>2. BitsOf(e) \subseteq filter'[WordOf(e)]
      BY <1>8, <1>11
    <3> QED
      BY <2>2, <3>1, <3>2 DEF IsSet
  <2>4. CASE t # r.step
    <3>1. t \in 1 .. r.step - 1
      BY <1>6, <2>4
    <3>2. IsSet(<<l, t>>)
      BY <1>1, <1>2, <1>5, <3>1 DEF Over
    <3> QED
      BY <2>2, <3>2
  <2> QED
    BY <2>3, <2>4
<1>15. CASE r.step = Cardinality(Iterations)
  <2>1. worker' = [worker EXCEPT ![w] = Task(r.vectors)]
        /\ inserted' = inserted \cup {lane[2] : lane \in r.keys}
    BY <1>1, <1>2, <1>15 DEF NextStep
  <2>2. /\ worker'[w] = Task(r.vectors)
        /\ \A v \in Workers \ {w} : worker'[v] = worker[v]
        /\ worker' = [v \in Workers |-> worker'[v]]
    BY <1>5, <2>1 DEF TypesOK
  <2>3. WorkerOK(w)' /\ Held(w)' = UNION {r.vectors[v] : v \in DOMAIN r.vectors}
    BY <1>1, <1>5, <2>2, NewTask DEF WorkerTypes
  <2>4. Held(w)' \subseteq Held(w)
    BY <1>2, <2>3 DEF Held
  <2>5. \A l \in r.keys, t \in Iterations : IsSet(<<l, t>>)'
    BY <1>6, <1>14, <1>15
  <2>6. UNCHANGED <<config, pc, todo, hash>>
    BY <1>1
  <2>7. worker[w].step > 0
    BY <1>2, <1>6
  <2>8. /\ inserted' = inserted \cup {lane[2] : lane \in worker[w].keys}
        /\ \A l \in worker[w].keys, t \in Iterations : IsSet(<<l, t>>)'
    BY <1>2, <2>1, <2>5
  <2> QED
    BY <1>1, <1>13, <2>2, <2>3, <2>4, <2>6, <2>7, <2>8, WriteStep
<1>16. CASE r.step # Cardinality(Iterations)
  <2>1. worker' = [worker EXCEPT ![w].step = @ + 1, ![w].register = Null]
        /\ inserted' = inserted
    BY <1>1, <1>2, <1>16 DEF NextStep
  <2>2. PICK next : next = [r EXCEPT !.step = @ + 1, !.register = Null]
    OBVIOUS
  <2>3. worker' = [worker EXCEPT ![w] = next]
    BY <1>2, <1>5, <2>1, <2>2 DEF TypesOK
  <2>4. next = [vectors |-> r.vectors, keys |-> r.keys, step |-> r.step + 1,
                register |-> Null, element |-> r.element]
    BY <1>6, <2>2
  <2>5. /\ worker'[w] = next
        /\ \A v \in Workers \ {w} : worker'[v] = worker[v]
        /\ worker' = [v \in Workers |-> worker'[v]]
    BY <1>5, <2>3 DEF TypesOK
  <2>6. /\ s.vectors = r.vectors /\ s.keys = r.keys /\ s.step = r.step + 1
        /\ s.register = Null /\ s.element = r.element
        /\ s = [vectors |-> s.vectors, keys |-> s.keys, step |-> s.step,
                register |-> s.register, element |-> s.element]
    BY <1>2, <2>4, <2>5
  <2>7. r.element = Null
    BY <1>1, <1>2 DEF BloomInv, WorkerOK, Element
  <2>8. WorkerTypes(s)'
    <3>1. /\ KeyPairs' = KeyPairs /\ Iterations' = Iterations
          /\ \A K : Distinct(K)' <=> Distinct(K)
      BY <1>1, ConfigKept
    <3>2. s.step \in 0 .. Cardinality(Iterations) /\ s.step # 0
      BY <1>6, <1>16, <2>6
    <3> QED
      BY <1>1, <1>5, <2>6, <2>7, <3>1, <3>2 DEF WorkerTypes
  <2>9. Register(w)' /\ Element(w)'
    BY <1>2, <2>6, <2>7 DEF Register, Element
  <2>10. Over(w)'
    <3>1. s.step - 1 = r.step
      BY <1>6, <2>6
    <3> QED
      BY <1>2, <1>14, <2>6, <3>1 DEF Over
  <2>11. WorkerOK(w)'
    BY <1>2, <2>8, <2>9, <2>10 DEF WorkerOK
  <2>12. Held(w)' = Held(w)
    BY <1>2, <2>6 DEF Held
  <2>13. UNCHANGED <<config, pc, todo, hash>>
    BY <1>1
  <2>14. worker[w].step > 0
    BY <1>2, <1>6
  <2> QED
    BY <1>1, <1>13, <2>1, <2>5, <2>11, <2>12, <2>13, <2>14, WriteStep
<1> QED
  BY <1>15, <1>16

LEMMA WriteElementStep ==
  ASSUME BloomInv, NEW w \in Workers, WriteElement(w)
  PROVE  BloomInv'
<1>1. PICK r, s : r = worker[w] /\ s = worker'[w]
  OBVIOUS
<1>2. PICK at : at = r.element.at
  OBVIOUS
<1>3. PICK rest : rest = (DOMAIN r.register) \ {at}
  OBVIOUS
<1>4. /\ config' = config /\ pc' = pc /\ todo' = todo /\ hash' = hash
      /\ Busy(w) /\ r.element # Null
      /\ filter' = [filter EXCEPT ![WordOf(at)] = r.element.bits]
      /\ rest = {} => NextStep(w)
      /\ rest # {} =>
           /\ worker' = [worker EXCEPT ![w].register = [f \in rest |-> r.register[f]],
                                       ![w].element = Null]
           /\ inserted' = inserted
  BY <1>1, <1>2, <1>3 DEF WriteElement, Remaining, Stored
<1>5. TypesOK /\ WorkerTypes(r) /\ Register(w) /\ Element(w)
  BY <1>1, <1>4 DEF BloomInv, WorkerOK
<1>6. /\ Vertical /\ at \in DOMAIN r.register
      /\ filter[WordOf(at)] \subseteq r.element.bits
      /\ BitsOf(at) \subseteq r.element.bits
      /\ r.element.bits \subseteq Claimed(WordOf(at))
  BY <1>1, <1>2, <1>4, <1>5 DEF Element
<1>7. /\ r.register # Null /\ r.step > 0
      /\ r = [vectors |-> r.vectors, keys |-> r.keys, step |-> r.step,
              register |-> r.register, element |-> r.element]
  <2>1. Cardinality(Iterations) \in Nat
    BY <1>5, ConfigFacts DEF TypesOK
  <2> QED
    BY <1>4, <1>5, <2>1 DEF WorkerTypes
<1>8. /\ DOMAIN r.register \subseteq Elements(w)
      /\ \A e \in DOMAIN r.register :
           /\ BitsOf(e) \subseteq r.register[e]
           /\ r.register[e] \subseteq Claimed(WordOf(e))
      /\ \A e \in Elements(w) \ DOMAIN r.register : IsSet(e)
  BY <1>1, <1>5, <1>6, <1>7 DEF Register
<1>9. Elements(w) = r.keys \X Iterations
  BY <1>1, <1>6 DEF Elements
<1>10. /\ WordOf(at) \in Words /\ WordOf(at) \in WordsOf(at[1][1])
       /\ at[1] \in Held(w) /\ at = <<at[1], at[2]>>
       /\ at[1] \in r.keys /\ at[2] \in Iterations
  BY <1>1, <1>4, <1>5, <1>6, <1>7, <1>8, ElementsFacts
<1>11. filter \in [Words -> SUBSET (0 .. WordSize - 1)]
  BY <1>5 DEF TypesOK
<1>12. Written(w)
  <2>1. r.element.bits \subseteq 0 .. WordSize - 1
    BY <1>6 DEF Claimed
  <2>2. filter' \in [Words -> SUBSET (0 .. WordSize - 1)]
    BY <1>4, <1>11, <2>1
  <2>3. \A i \in Words :
          filter'[i] = IF i = WordOf(at) THEN r.element.bits ELSE filter[i]
    BY <1>4, <1>11
  <2>4. ASSUME NEW i \in Words
        PROVE  /\ filter[i] \subseteq filter'[i]
               /\ filter'[i] \subseteq filter[i] \cup Claimed(i)
               /\ filter'[i] # filter[i] => \E l \in Held(w) : i \in WordsOf(l[1])
    <3>1. CASE i = WordOf(at)
      BY <1>6, <1>10, <2>3, <3>1
    <3>2. CASE i # WordOf(at)
      BY <2>3, <3>2
    <3> QED
      BY <3>1, <3>2
  <2> QED
    BY <2>2, <2>4 DEF Written
<1>13. ASSUME NEW e \in Elements(w)
       PROVE  /\ WordOf(e)' = WordOf(e) /\ BitsOf(e)' = BitsOf(e)
              /\ Claimed(WordOf(e))' = Claimed(WordOf(e))
              /\ IsSet(e) => IsSet(e)'
  <2>1. PICK l \in r.keys, t \in Iterations : e = <<l, t>>
    BY <1>9
  <2> QED
    BY <1>1, <1>4, <1>7, <1>12, <2>1, WrittenFacts
<1>14. IsSet(at)'
  <2>1. at \in Elements(w)
    BY <1>6, <1>8
  <2>2. filter'[WordOf(at)] = r.element.bits
    BY <1>4, <1>10, <1>11
  <2> QED
    BY <1>6, <1>13, <2>1, <2>2 DEF IsSet
<1>15. \A e \in Elements(w) \ rest : IsSet(e)'
  BY <1>3, <1>8, <1>13, <1>14
<1>16. UNCHANGED <<config, pc, todo, hash>> /\ worker[w].step > 0
  BY <1>1, <1>4, <1>7
<1>17. CASE rest = {}
  <2>1. worker' = [worker EXCEPT ![w] = Task(r.vectors)]
        /\ inserted' = inserted \cup {lane[2] : lane \in worker[w].keys}
    BY <1>1, <1>4, <1>6, <1>17 DEF NextStep
  <2>2. /\ worker'[w] = Task(r.vectors)
        /\ \A v \in Workers \ {w} : worker'[v] = worker[v]
        /\ worker' = [v \in Workers |-> worker'[v]]
    BY <1>5, <2>1 DEF TypesOK
  <2>3. WorkerOK(w)' /\ Held(w)' = UNION {r.vectors[v] : v \in DOMAIN r.vectors}
    BY <1>4, <1>5, <2>2, NewTask DEF WorkerTypes
  <2>4. Held(w)' \subseteq Held(w)
    BY <1>1, <2>3 DEF Held
  <2>5. \A l \in worker[w].keys, t \in Iterations : IsSet(<<l, t>>)'
    BY <1>1, <1>9, <1>15, <1>17
  <2> QED
    BY <1>4, <1>12, <1>16, <2>1, <2>2, <2>3, <2>4, <2>5, WriteStep
<1>18. CASE rest # {}
  <2>1. PICK reg : reg = [f \in rest |-> r.register[f]]
    OBVIOUS
  <2>2. PICK next : next = [r EXCEPT !.register = reg, !.element = Null]
    OBVIOUS
  <2>3. worker' = [worker EXCEPT ![w] = next]
    BY <1>1, <1>4, <1>5, <1>18, <2>1, <2>2 DEF TypesOK
  <2>4. next = [vectors |-> r.vectors, keys |-> r.keys, step |-> r.step,
                register |-> reg, element |-> Null]
    BY <1>7, <2>2
  <2>5. /\ worker'[w] = next
        /\ \A v \in Workers \ {w} : worker'[v] = worker[v]
        /\ worker' = [v \in Workers |-> worker'[v]]
    BY <1>5, <2>3 DEF TypesOK
  <2>6. /\ s.vectors = r.vectors /\ s.keys = r.keys /\ s.step = r.step
        /\ s.register = reg /\ s.element = Null
        /\ s = [vectors |-> s.vectors, keys |-> s.keys, step |-> s.step,
                register |-> s.register, element |-> s.element]
    BY <1>1, <2>4, <2>5
  <2>7. /\ KeyPairs' = KeyPairs /\ Iterations' = Iterations
        /\ (Vertical' <=> Vertical)
        /\ \A K : Distinct(K)' <=> Distinct(K)
    BY <1>4, ConfigKept
  <2>8. WorkerTypes(s)'
    BY <1>4, <1>5, <1>7, <2>6, <2>7 DEF WorkerTypes
  <2>9. Elements(w)' = Elements(w)
    BY <1>1, <2>6, <2>7 DEF Elements
  <2>10. Register(w)'
    <3>1. DOMAIN reg = rest /\ rest \subseteq Elements(w)
      BY <1>3, <1>8, <2>1
    <3>2. \A e \in rest : /\ BitsOf(e)' \subseteq reg[e]
                          /\ reg[e] \subseteq Claimed(WordOf(e))'
      BY <1>3, <1>8, <1>13, <2>1, <3>1
    <3> QED
      BY <1>1, <1>6, <1>15, <2>6, <2>7, <2>9, <3>1, <3>2 DEF Register
  <2>11. Element(w)' /\ Over(w)'
    BY <1>1, <1>6, <2>6, <2>7 DEF Element, Over
  <2>12. WorkerOK(w)'
    BY <1>1, <2>8, <2>10, <2>11 DEF WorkerOK
  <2>13. Held(w)' = Held(w)
    BY <1>1, <2>6 DEF Held
  <2>14. inserted' = inserted
    BY <1>4, <1>18
  <2> QED
    BY <1>4, <1>12, <1>16, <2>5, <2>12, <2>13, <2>14, WriteStep
<1> QED
  BY <1>17, <1>18

-----------------------------------------------------------------------------
(* The steps of the callers. *)

LEMMA FinishedStep ==
  ASSUME BloomInv, Finished
  PROVE  BloomInv'
<1>1. /\ UNCHANGED <<config, todo, worker, filter, hash, inserted>>
      /\ pc' = "done" /\ \A w \in Workers : ~Busy(w)
  BY DEF Finished
<1>2. HashesKept
  BY <1>1 DEF HashesKept
<1>3. TypesOK'
  BY <1>1, TypesNext DEF BloomInv, TypesOK
<1>4. \A w \in Workers : ~Busy(w)' /\ WorkerOK(w)'
  BY <1>1 DEF Busy, WorkerOK
<1>5. Apart'
  BY <1>1, <1>4 DEF Apart
<1>6. NoFalseNegatives'
  BY <1>1, <1>2, FoundStays DEF NoFalseNegatives
<1>7. OnlyBitsOfKeys'
  BY <1>1, <1>2, <1>3, OnlyClaimedNext
<1> QED
  BY <1>3, <1>4, <1>5, <1>6, <1>7 DEF BloomInv

(* An idle filter that gets a task: the only one. *)
LEMMA ClientStep ==
  ASSUME BloomInv, NEW w \in Workers, Idle, NEW vs \in Seq(SUBSET KeyPairs),
         \A v \in DOMAIN vs : Distinct(vs[v]),
         worker' = [worker EXCEPT ![w] = Task(vs)], todo' \subseteq todo,
         UNCHANGED <<config, pc, filter, hash, inserted>>
  PROVE  BloomInv'
<1>1. pc = "idle" /\ \A v \in Workers : ~Busy(v)
  BY DEF Idle
<1>2. TypesOK
  BY DEF BloomInv
<1>3. /\ worker'[w] = Task(vs)
      /\ \A v \in Workers \ {w} : worker'[v] = worker[v]
      /\ worker' = [v \in Workers |-> worker'[v]]
  BY <1>2 DEF TypesOK
<1>4. HashesKept
  BY DEF HashesKept
<1>5. TypesOK'
  BY <1>2, <1>3, TypesNext DEF TypesOK
<1>6. WorkerOK(w)'
  BY <1>2, <1>3, NewTask
<1>7. \A v \in Workers \ {w} : ~Busy(v)' /\ WorkerOK(v)'
  BY <1>1, <1>3 DEF Busy, WorkerOK
<1>8. Apart'
  <2>1. pc' # "construct"
    BY <1>1
  <2>2. \A v, u \in Workers : Busy(v)' /\ Busy(u)' => v = u
    BY <1>7
  <2> QED
    BY <2>1, <2>2 DEF Apart
<1>9. NoFalseNegatives'
  BY <1>4, FoundStays DEF NoFalseNegatives
<1>10. OnlyBitsOfKeys'
  BY <1>4, <1>5, OnlyClaimedNext
<1> QED
  BY <1>5, <1>6, <1>7, <1>8, <1>9, <1>10 DEF BloomInv

LEMMA AddStep ==
  ASSUME BloomInv, NEW w \in Workers, NEW p \in Partitions, NEW x \in KeysOf(p), add(w, p, x)
  PROVE  BloomInv'
<1>1. config \in Configs
  BY DEF BloomInv, TypesOK
<1>2. x \in Keys
  BY <1>1, KeyFacts
<1>3. PICK l : l = <<p, x>>
  OBVIOUS
<1>4. l \in KeyPairs
  BY <1>2, <1>3 DEF KeyPairs
<1>5. PICK vs : vs = <<{l}>>
  OBVIOUS
<1>6. vs \in Seq(SUBSET KeyPairs) /\ \A v \in DOMAIN vs : vs[v] = {l}
  BY <1>4, <1>5
<1>7. Distinct({l})
  BY DEF Distinct
<1>8. /\ Idle /\ worker' = [worker EXCEPT ![w] = Task(vs)] /\ todo' \subseteq todo
      /\ UNCHANGED <<config, pc, filter, hash, inserted>>
  BY <1>3, <1>5 DEF add
<1> QED
  BY <1>6, <1>7, <1>8, ClientStep

LEMMA AddPartitionStep ==
  ASSUME BloomInv, NEW w \in Workers, NEW p \in Partitions, add_partition(w, p)
  PROVE  BloomInv'
<1>1. config \in Configs
  BY DEF BloomInv, TypesOK
<1>2. /\ Vectors(p) \in Seq(SUBSET KeyPairs)
      /\ \A v \in DOMAIN Vectors(p) : Distinct(Vectors(p)[v])
  BY <1>1, VectorFacts
<1>3. /\ Idle /\ worker' = [worker EXCEPT ![w] = Task(Vectors(p))] /\ todo' \subseteq todo
      /\ UNCHANGED <<config, pc, filter, hash, inserted>>
  BY DEF add_partition
<1> QED
  BY <1>2, <1>3, ClientStep

-----------------------------------------------------------------------------
(* The theorems. *)

LEMMA BloomInitially == Init => BloomInv
<1> SUFFICES ASSUME Init PROVE BloomInv
  OBVIOUS
<1> USE DEF Init
<1>1. \A w \in Workers : ~Busy(w)
  BY DEF Busy
<1>2. TypesOK
  <2>1. todo = Firsts
    BY DEF Firsts
  <2>2. filter \in [Words -> SUBSET (0 .. WordSize - 1)] /\ hash \in [Keys -> Masks \cup {Null}]
    OBVIOUS
  <2>3. worker = [w \in Workers |-> worker[w]]
    OBVIOUS
  <2> QED
    BY <2>1, <2>2, <2>3 DEF TypesOK
<1>3. Apart /\ \A w \in Workers : WorkerOK(w)
  BY <1>1 DEF Apart, WorkerOK
<1>4. NoFalseNegatives
  BY DEF NoFalseNegatives
<1>5. OnlyBitsOfKeys
  BY DEF OnlyBitsOfKeys
<1> QED
  BY <1>2, <1>3, <1>4, <1>5 DEF BloomInv

LEMMA BloomSteps == BloomInv /\ [Next]_vars => BloomInv'
<1> SUFFICES ASSUME BloomInv, [Next]_vars PROVE BloomInv'
  OBVIOUS
<1>1. CASE Finished
  BY <1>1, FinishedStep
<1>2. ASSUME NEW w \in Workers, TakeTask(w) PROVE BloomInv'
  BY <1>2, TakeTaskStep
<1>3. ASSUME NEW w \in Workers, LoadVector(w) PROVE BloomInv'
  BY <1>3, LoadVectorStep
<1>4. ASSUME NEW w \in Workers, Gather(w) PROVE BloomInv'
  BY <1>4, GatherStep
<1>5. ASSUME NEW w \in Workers, Scatter(w) PROVE BloomInv'
  BY <1>5, ScatterStep
<1>6. ASSUME NEW w \in Workers, ReadElement(w) PROVE BloomInv'
  BY <1>6, ReadElementStep
<1>7. ASSUME NEW w \in Workers, WriteElement(w) PROVE BloomInv'
  BY <1>7, WriteElementStep
<1>8. ASSUME NEW w \in Workers, TaskDone(w) PROVE BloomInv'
  BY <1>8, TaskDoneStep
<1>9. ASSUME NEW w \in Workers, NEW p \in Partitions, add_partition(w, p) PROVE BloomInv'
  BY <1>9, AddPartitionStep
<1>10. ASSUME NEW w \in Workers, NEW p \in Partitions, NEW x \in KeysOf(p), add(w, p, x)
       PROVE  BloomInv'
  BY <1>10, AddStep
<1>11. CASE UNCHANGED vars
  <2>1. /\ UNCHANGED <<config, pc, todo, worker, filter, hash, inserted>>
    BY <1>11 DEF vars
  <2>2. TypesOK' /\ HashesKept
    BY <2>1, TypesNext DEF BloomInv, TypesOK, HashesKept
  <2>3. \A w \in Workers : WorkerOK(w)'
    BY <2>1, <2>2, OtherKept DEF BloomInv
  <2>4. Apart'
    <3>1. \A w \in Workers : (Busy(w)' <=> Busy(w)) /\ Held(w)' = Held(w)
      BY <2>1 DEF Busy, Held
    <3>2. \A f : Group(f)' = Group(f)
      BY <2>1, ConfigKept
    <3> QED
      BY <2>1, <3>1, <3>2 DEF BloomInv, Apart
  <2>5. NoFalseNegatives'
    BY <2>1, <2>2, FoundStays DEF NoFalseNegatives
  <2>6. OnlyBitsOfKeys'
    BY <2>1, <2>2, OnlyClaimedNext
  <2> QED
    BY <2>2, <2>3, <2>4, <2>5, <2>6 DEF BloomInv
<1> QED
  BY <1>1, <1>2, <1>3, <1>4, <1>5, <1>6, <1>7, <1>8, <1>9, <1>10, <1>11 DEF Next, Work, Client

(* The invariant holds: no thread ever takes a bit away or sets one for    *)
(* nobody, whatever was gathered before other lanes or threads wrote.      *)
THEOREM BloomInvariance == Spec => []BloomInv
<1>1. Spec => Init /\ [][Next]_vars
  BY DEF Spec
<1> QED
  BY <1>1, BloomInitially, BloomSteps, PTL

(* From the moment its insertion has returned a key is found, for every    *)
(* number of keys, partitions, lanes and threads and every variant.        *)
THEOREM KeysAreFound == Spec => []NoFalseNegatives
<1>1. BloomInv => NoFalseNegatives
  BY DEF BloomInv
<1> QED
  BY <1>1, BloomInvariance, PTL

(* Every bit that is set belongs to a key that was or is being inserted.   *)
THEOREM NothingElseIsSet == Spec => []OnlyBitsOfKeys
<1>1. BloomInv => OnlyBitsOfKeys
  BY DEF BloomInv
<1> QED
  BY <1>1, BloomInvariance, PTL

=====
