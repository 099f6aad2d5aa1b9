------------------------------- MODULE Bloom --------------------------------
(***************************************************************************)
(* The Bloom filters: BloomContainer, the constructors and the masks, under*)
(* construct, add and add_partition.                                       *)
(*                                                                         *)
(* A key sets bits in a few words, one in each iteration of its mask, and  *)
(* is found if all of them are set.  A vector sets the bits of several     *)
(* keys at once: it reads the words, adds the bits, writes the words.      *)
(* Horizontal variants take the keys from as many partitions as there are  *)
(* lanes, which share no word.  The vertical variant takes the keys from   *)
(* one partition, and two of them may share a block: it reads every word   *)
(* once more when it writes it.  With threads, every partition (or group   *)
(* of partitions) is a task.                                               *)
(*                                                                         *)
(* The hash of a key, which gives its words and bits, is chosen when the   *)
(* key is inserted.  The rehashes of the code give the same bits for the   *)
(* same key to a lookup.                                                   *)
(***************************************************************************)
EXTENDS Integers, FiniteSets, Sequences, FiniteSetsExt, Arithmetic

CONSTANTS
  Workers,          \* threads of the task queue
  Configs,          \* template and constructor arguments
  AddressValues,    \* address bits of a hash
  Size(_, _),       \* Size(mode, n): blocks for n asked for
  Address(_, _, _), \* Address(mode, n, bits)
  WordSize,         \* bits in a register
  Null              \* no value

(* Blocks asked for: k bits for each of n keys, scaled by s per cent.      *)
Asked(c, n) == ((n * c.k * c.s) \div 100) \div c.blockSize + 1

(* A key has as many bits in each word, or group of words, as in the next. *)
(* The sectorized masks assert it.  The grouped one does not: with another *)
(* k it takes too many steps, some of them to words outside the block.     *)
ASSUME ConfigAssumption ==
  \A c \in Configs :
    /\ c.variant \in {"Sectorized", "Grouped", "Blocked", "Naive"}
    /\ Cardinality(DOMAIN c.histogram) \in Nat \ {0}
    /\ c.histogram \in [0 .. Cardinality(DOMAIN c.histogram) - 1 -> Nat]
    /\ {c.k, c.lanes, c.blockSize \div WordSize} \subseteq Nat \ {0}
    /\ c.variant = "Sectorized" => c.k % (c.blockSize \div WordSize) = 0
    /\ c.variant = "Grouped" => /\ c.groups \in 1 .. c.blockSize \div WordSize
                                /\ c.k % c.groups = 0

(* The blocks an addresser names are blocks there are.                     *)
ASSUME AddresserAssumption ==
  \A c \in Configs : \A p \in DOMAIN c.histogram :
    LET n == Asked(c, c.histogram[p])
    IN  /\ Size(c.mode, n) \in Nat
        /\ \A bits \in AddressValues : Address(c.mode, n, bits) \in 0 .. Size(c.mode, n) - 1

ASSUME NullAssumption ==
  \A c \in Configs : \A n \in {c.blockSize \div WordSize, c.groups, c.k} :
    Null \notin [1..n -> [address : AddressValues, sector : Nat,
                          bits : SUBSET (0 .. WordSize - 1)]]

VARIABLES
  config,   \* the configuration of this filter
  pc,       \* "construct", "done", or "idle" for a filter that is added to
  todo,     \* tasks that wait: the first partition of each
  worker,   \* what each thread is doing
  filter,   \* the bits set in each word
  hash,     \* what each key sets, once it is inserted
  inserted  \* history: keys whose insertion has returned

vars == <<config, pc, todo, worker, filter, hash, inserted>>

Partitions == DOMAIN config.histogram

(* The partitions lie one behind the other in the array of values.         *)
KeysBefore(p) == SumBelow(config.histogram, p)
Keys == 0 .. KeysBefore(Cardinality(Partitions)) - 1
KeysOf(p) == KeysBefore(p) .. KeysBefore(p) + config.histogram[p] - 1

-----------------------------------------------------------------------------
(* BloomContainer *)

n_sectors == config.blockSize \div WordSize

n_blocks(p) == Asked(config, config.histogram[p])

size(p) == Size(config.mode, n_blocks(p))

offsets(p) == SumBelow([q \in Partitions |-> size(q)], p)

Words == 0 .. offsets(Cardinality(Partitions)) * n_sectors - 1

(* The word that a part of a hash names in partition p.                    *)
word(p, part) ==
  (offsets(p) + Address(config.mode, n_blocks(p), part.address)) * n_sectors + part.sector

-----------------------------------------------------------------------------
(* The masks *)

Iterations ==
  1 .. CASE config.variant = "Sectorized"         -> n_sectors
         [] config.variant = "Grouped"            -> config.groups
         [] config.variant \in {"Blocked", "Naive"} -> config.k

(* Sectors of iteration t: a fixed one, one of a group, any of the block.  *)
SectorsOf(t) ==
  CASE config.variant = "Sectorized" -> {t - 1}
    [] config.variant = "Grouped"    ->
         LET n == n_sectors \div config.groups IN n * (t - 1) .. n * t - 1
    [] config.variant \in {"Blocked", "Naive"} -> 0 .. n_sectors - 1

(* fill_mask: k_per_iteration bits, some of which may be the same.         *)
k_per_iteration == config.k \div Cardinality(Iterations)

BitSets == {b \in SUBSET (0 .. WordSize - 1) : Cardinality(b) \in 1..k_per_iteration}

Parts == UNION {[address : AddressValues, sector : SectorsOf(t), bits : BitSets] :
                  t \in Iterations}

(* Only the naive filter has an address for each bit.                      *)
Masks ==
  {m \in [Iterations -> Parts] :
     /\ \A t \in Iterations : m[t].sector \in SectorsOf(t)
     /\ config.variant # "Naive" =>
          \A t, u \in Iterations : m[t].address = m[u].address}

-----------------------------------------------------------------------------
(* The vectors of a task, each a set of pairs <<partition, key>>.          *)

Vertical == config.vectorization = "Vertical"

(* Faulty variant: the last vector of a partition is not masked.           *)
VectorsUnmasked(first) ==
  IF Vertical
  THEN LET n == (config.histogram[first] + config.lanes - 1) \div config.lanes
       IN  [v \in 1..n |-> {<<first, x>> : x \in {y \in Keys :
              KeysBefore(first) + (v - 1) * config.lanes <= y
              /\ y < KeysBefore(first) + v * config.lanes}}]
  ELSE LET lanes == {p \in Partitions : first <= p /\ p < first + config.lanes}
       IN  [v \in 1 .. Max({config.histogram[p] : p \in lanes}) |->
              {<<p, KeysBefore(p) + v - 1>> : p \in {q \in lanes : v <= config.histogram[q]}}]

(* Vertical: so many keys of one partition as a register holds blocks.     *)
(* Horizontal: a key from each of as many partitions as it has elements.   *)
Vectors(first) ==
  IF Vertical
  THEN LET n == (config.histogram[first] + config.lanes - 1) \div config.lanes
       IN  [v \in 1..n |-> {<<first, x>> : x \in {y \in KeysOf(first) :
              (y - KeysBefore(first)) \div config.lanes = v - 1}}]
  ELSE LET lanes == {p \in Partitions : first <= p /\ p < first + config.lanes}
       IN  [v \in 1 .. Max({config.histogram[p] : p \in lanes}) |->
              {<<p, KeysBefore(p) + v - 1>> : p \in {q \in lanes : v <= config.histogram[q]}}]

Init ==
  /\ config \in Configs
  /\ pc = (IF config.add THEN "idle" ELSE "construct")
  /\ todo = {p \in Partitions : Vertical \/ p % config.lanes = 0}
  /\ worker = [w \in Workers |-> Null]
  /\ filter = [i \in Words |-> {}]
  /\ hash = [x \in Keys |-> Null]
  /\ inserted = {}

-----------------------------------------------------------------------------
(* A thread and its vectors. *)

Task(vectors) ==
  [vectors |-> vectors, keys |-> {}, step |-> 0, register |-> Null, element |-> Null]

Busy(w) == worker[w] # Null

(* A task, by any thread; without threads one partition after another.     *)
TakeTask(w) ==
  /\ pc = "construct" /\ ~Busy(w)
  /\ \E p \in todo :
       /\ config.multiThreading \/ (p = Min(todo) /\ \A v \in Workers : ~Busy(v))
       /\ worker' = [worker EXCEPT ![w] = Task(Vectors(p))]
       /\ todo' = todo \ {p}
  /\ UNCHANGED <<config, pc, filter, hash, inserted>>

(* Keys of the next vector, and what they set, as far as it is not known.  *)
LoadVector(w) ==
  /\ Busy(w) /\ worker[w].step = 0
  /\ worker[w].vectors # <<>>
  /\ LET lanes == Head(worker[w].vectors)
         fresh == {lane[2] : lane \in lanes} \ {x \in Keys : hash[x] # Null}
     IN  /\ worker' = [worker EXCEPT ![w].vectors = Tail(@), ![w].keys = lanes, ![w].step = 1]
         /\ \E h \in [fresh -> Masks] :
              hash' = [x \in Keys |-> IF x \in fresh THEN h[x] ELSE hash[x]]
  /\ UNCHANGED <<config, pc, todo, filter, inserted>>

(* The elements of the register: a lane and an iteration of its key's mask.*)
(* Vertically all iterations are done at once.                             *)
Elements(w) ==
  worker[w].keys \X (IF Vertical THEN Iterations ELSE {worker[w].step})

WordOf(e) == word(e[1][1], hash[e[1][2]][e[2]])
BitsOf(e) == hash[e[1][2]][e[2]].bits

(* gather, or gatherload, and fill_mask.                                   *)
Gather(w) ==
  /\ Busy(w) /\ worker[w].step > 0
  /\ worker[w].register = Null
  /\ worker' = [worker EXCEPT ![w].register =
       [e \in Elements(w) |-> filter[WordOf(e)] \cup BitsOf(e)]]
  /\ UNCHANGED <<config, pc, todo, filter, hash, inserted>>

(* The order of the elements in the register.                              *)
Before(e, f) == e[1][1] < f[1][1]
                \/ (e[1][1] = f[1][1] /\ e[1][2] < f[1][2])
                \/ (e[1] = f[1] /\ e[2] < f[2])

(* After the last iteration the keys of the vector are inserted.           *)
NextStep(w) ==
  IF Vertical \/ worker[w].step = Cardinality(Iterations)
  THEN /\ worker' = [worker EXCEPT ![w] = Task(worker[w].vectors)]
       /\ inserted' = inserted \cup {lane[2] : lane \in worker[w].keys}
  ELSE /\ worker' = [worker EXCEPT ![w].step = @ + 1, ![w].register = Null]
       /\ UNCHANGED inserted

(* scatter: of two elements for one word the last one would stay.          *)
Scatter(w) ==
  /\ Busy(w) /\ worker[w].register # Null
  /\ ~Vertical
  /\ filter' = [i \in Words |->
       LET for == {e \in Elements(w) : WordOf(e) = i}
       IN  IF for = {} THEN filter[i]
           ELSE worker[w].register[CHOOSE e \in for : \A f \in for : e = f \/ Before(f, e)]]
  /\ NextStep(w)
  /\ UNCHANGED <<config, pc, todo, hash>>

(* scatterstore_or: element after element, each of which is read again.    *)
Remaining(w) == DOMAIN worker[w].register

ReadElement(w) ==
  /\ Busy(w) /\ Vertical
  /\ worker[w].register # Null
  /\ worker[w].element = Null
  /\ \E e \in Remaining(w) :
       /\ \A f \in Remaining(w) : e = f \/ Before(e, f)
       /\ worker' = [worker EXCEPT ![w].element =
            [at |-> e, bits |-> filter[WordOf(e)] \cup worker[w].register[e]]]
  /\ UNCHANGED <<config, pc, todo, filter, hash, inserted>>

(* Faulty variant: the register is written as it is, as scatter does.      *)
StoredAsGathered(w) == worker[w].register[worker[w].element.at]

Stored(w) == worker[w].element.bits

WriteElement(w) ==
  /\ Busy(w) /\ worker[w].element # Null
  /\ LET e == worker[w].element.at
         rest == Remaining(w) \ {e}
     IN  /\ filter' = [filter EXCEPT ![WordOf(e)] = Stored(w)]
         /\ IF rest = {}
            THEN NextStep(w)
            ELSE /\ worker' = [worker EXCEPT
                      ![w].register = [f \in rest |-> worker[w].register[f]],
                      ![w].element = Null]
                 /\ UNCHANGED inserted
  /\ UNCHANGED <<config, pc, todo, hash>>

TaskDone(w) ==
  /\ Busy(w) /\ worker[w].step = 0
  /\ worker[w].vectors = <<>>
  /\ worker' = [worker EXCEPT ![w] = Null]
  /\ UNCHANGED <<config, pc, todo, filter, hash, inserted>>

(* All tasks are done: execute_tasks, or the loop, returns.                *)
Finished ==
  /\ pc = "construct"
  /\ todo = {}
  /\ \A w \in Workers : ~Busy(w)
  /\ pc' = "done"
  /\ UNCHANGED <<config, todo, worker, filter, hash, inserted>>

-----------------------------------------------------------------------------
(* After init, by the caller: one key or one partition at a time.          *)

Idle == pc = "idle" /\ \A w \in Workers : ~Busy(w)

add(w, p, x) ==
  /\ Idle
  /\ hash[x] = Null
  /\ worker' = [worker EXCEPT ![w] = Task(<<{<<p, x>>}>>)]
  /\ UNCHANGED <<config, pc, todo, filter, hash, inserted>>

add_partition(w, p) ==
  /\ Idle
  /\ \A x \in KeysOf(p) : hash[x] = Null
  /\ p \in todo
  /\ worker' = [worker EXCEPT ![w] = Task(Vectors(p))]
  /\ todo' = todo \ {p}
  /\ UNCHANGED <<config, pc, filter, hash, inserted>>

Work(w) ==
  \/ TakeTask(w) \/ LoadVector(w) \/ Gather(w)
  \/ Scatter(w) \/ ReadElement(w) \/ WriteElement(w) \/ TaskDone(w)

Client(w) ==
  \E p \in Partitions : add_partition(w, p) \/ \E x \in KeysOf(p) : add(w, p, x)

Next == Finished \/ \E w \in Workers : Work(w) \/ Client(w)

Spec == Init /\ [][Next]_vars

-----------------------------------------------------------------------------
(* Properties. *)

PartitionOf(x) == CHOOSE p \in Partitions : x \in KeysOf(p)

(* BloomCounter::contains, in the partition of the key.                    *)
contains(x) ==
  \A t \in Iterations :
    hash[x][t].bits \subseteq filter[word(PartitionOf(x), hash[x][t])]

(* From the moment its insertion has returned a key is found, whatever is  *)
(* inserted next to it, before it in the same register or at the same time *)
(* by another thread: no bit that was set is ever written over.            *)
NoFalseNegatives == \A x \in inserted : contains(x)

(* Nothing else is set: every bit of a word belongs to a key of that       *)
(* partition that was or is being inserted.  Bits set for nobody cost      *)
(* nothing but the false positive rate, and no lookup would show them.     *)
OnlyBitsOfKeys ==
  \A i \in Words : \A bit \in filter[i] :
    \E x \in Keys, t \in Iterations :
      /\ hash[x] # Null
      /\ word(PartitionOf(x), hash[x][t]) = i
      /\ bit \in hash[x][t].bits
=============================================================================
