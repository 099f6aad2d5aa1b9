# Verification of partitioned-filters

TLA+ models of the approximate-membership filters of this repository, with the
TLC runs that check them and the theorems that TLAPS proves. Paths are relative
to the root of the project; the implementation lies in `src/src/`, its tests in
`src/test/`.

1. [The system](#1-the-system)
2. [Modules](#2-modules)
3. [What the runs show](#3-what-the-runs-show)
4. [What is proved](#4-what-is-proved)
5. [Disagreements found](#5-disagreements-found)
6. [What is not modelled](#6-what-is-not-modelled)
7. [Plan](#7-plan)

## 1. The system

A filter is built once from an array of keys (`construct`) or key by key (`add`,
`add_partition`), and then asked for keys (`contains`, `count`). The keys are
first scattered into partitions by their low bits; each partition gets its own
part of the filter, and one task builds one partition, or one partition for
every lane of a SIMD vector.

```
client -> Filter<Xor | Cuckoo | Bloom>::construct, count, init, add_partition
            |  submits tasks to                |  fills
            v                                  v
          TaskQueue + Barrier               Container (fingerprints, seeds, offsets)
            |  runs                            |  written through
            v                                  v
          PartitionSet::init                simd::scatteru_bits
```

| component | state | operations | what is hard | what makes it correct |
|---|---|---|---|---|
| task queue, barrier (`task/`) | vector of tasks, atomic position, worker threads; counter, generation, mutex and condition variable | `add_task`, `add_barrier`, `execute_tasks`; `wait` | a barrier is `n_threads` ordinary tasks; spurious wake-ups; workers that exit while others wait | phases are separated, each task runs once, the join returns |
| partitioner (`partition/`) | histogram, offsets, values; per task a local histogram and local offsets; per thread cache line buffers | `init` alone, `init` through the queue | tasks write interleaved into shared windows; buffers outlive tasks; arrays are freed by tasks | each partition holds exactly its keys, no cell is written twice, nothing is used after it is freed |
| xor construction (`xor/container/`) | sets of (xor of hashes, counter), queues, stack with runs, fingerprints, seed | `fill` of set, queue, stack, container; retries | order of peeling and of assigning; stale seeds; unchecked arrays | no false negative; rejection only if no key can be peeled |
| xor filter (`xor/xor_filter.hpp`) | container, number of partitions, number of retries, queue | `construct`, `init`, `add_all`, `add_partition`, `contains`, `count`, `retries` | lanes that fail alone, shared flag and counters, container replaced by a task | the result says whether every partition was built |
| packed store (`simd/helper.hpp` and the containers' layouts) | bits of the fingerprints | `gatheru_bits`, `scatteru_bits` | read-modify-write of registers that two partitions share | writing one partition leaves the others as they are |
| cuckoo filter (`cuckoo/`) | buckets, offsets, random generator; with retries: seeds | `construct`, `insert`, `add`, `contains`, `count` | eviction chains, failed insertions, clearing for a retry | no false negative unless failure was reported |
| Morton filter (`cuckoo_container_compressed.hpp`) | blocks: fullness counters, fingerprints, overflow tracking bits | as the cuckoo filter | shifting within a block, overflow of buckets and blocks | as the cuckoo filter |
| Bloom filter (`bloom/`) | bits, offsets | `construct`, `add`, `add_partition`, `contains`, `count` | chunks of `count`; keys of one register in the same block | no false negative, no bit set for nobody |
| addressing (`address/`, `libdivide`) | sizes, multipliers or masks by partition | addresses, alternative addresses | bounds of rounding; wrapping below zero; the alternative of the alternative | addresses in range; involution |
| hashing, seeds, SIMD vectors, random numbers | none that lasts | pure functions | - | - |
| filter pointer, factories | one type-erased filter | `create`, `add_all`, `contains` | lifetime if `create` throws | - |

The hazards this code is exposed to, each at its line, are listed in
`PROJECT.json`.

## 2. Modules

Every module begins with a comment that says which part of the code it is
about. Definitions keep the names of the source where there is one; a
definition marked "faulty variant" is a plausible mistake in the definition
after it, and shows that a property notices it. No specification uses them.

| module | of | state | actions |
|---|---|---|---|
| `PhasedExecution` | abstract: what the builders expect of the queue | the plan (task to phase), what has begun and ended | `Submit`, `Execute`, `Begin`, `End`, `Return` |
| `TaskQueue` | `task_queue.hpp`, `barrier.hpp` | vector, position, barrier, place of every worker | `add_task`, `add_barrier`, `execute_tasks`, `Spawn`, `JoinAndReset`; per worker `ClaimTask`, `ClaimNothing`, `FinishWork`, `ArriveEarly`, `ArriveLast`, `SpuriousWakeup`, `Leave`, `WaitAgain` |
| `PartitionSet` | `partition_set.hpp`, `cache_line_buffer.hpp` | the arrays, `Null` before they are allocated and after they are freed | `init_alone`, `init`; per thread `Begin`, `Histogram`, `Offsets`, `ScatterKey`, `ScatterRest`, `Cleanup` |
| `PartitionBuild` | abstract: building one partition | status, seed, found | `Retry`, `Succeed`, `GiveUp` |
| `XorConstruct` | `xor_set.hpp`, `xor_filter.hpp`: what the two variants of a xor filter share | set, queue, stack, runs, fingerprints, seed | `Hash`, `Retry`, `GiveUp` |
| `XorStandard` | `xor_queue.hpp`, `xor_stack.hpp`, `xor_container.hpp`, standard variant | that of `XorConstruct` | `Fill`, `Round`, `Peel`, `SkipPeeled`, `ClearQueue`, `Peeled`, `Assign`, `PreviousRun`, `Succeed` |
| `XorFuse` | the same files, fuse variant | that of `XorConstruct` | `FillSegments`, `PeelSlot`, `SkipSlot`, `QueueEmpty`, `PeeledSlots`, `AssignSlot`, `SucceedSlots` |
| `XorBuild` | both variants together, and their properties | | |
| `XorFilter` | `xor_filter.hpp` | tasks of `construct`, container by partition, builds in progress, counters | `construct`, `init`, `add_partition` and the steps of `_construct` and `_construct_fallback` |
| `PackedStore` | `simd/helper.hpp`, layouts of the xor and cuckoo containers | the bits, the write each task is in, the register it has read | `set_fingerprint`, `packed_bucket_insert`, `packed_evict_victim`, `Gather`, `WriteBack` |
| `CountTasks` | `count` with several threads, in `xor_filter.hpp` and again in the cuckoo and Bloom filters | tasks dealt out, tasks run, the counter | `AddTasks`, `ExecuteTasks`, `RunTask`, `Return` |
| `Addressing` | `address/` without the Morton addresser, `libdivide.h` | none | `get_size`, `compute_address`, `compute_alternative_address` are functions |
| `Cuckoo` | `cuckoo_filter.hpp`, `cuckoo_container_standard.hpp`, `cuckoo_container_retry.hpp` | buckets, seeds, the fingerprint on its way, lanes that failed | `StartGroup`, `NextKey`, `Place`, `SecondBucket`, `evict_victim`, `Lose`, `NextLane`, `AllLanes`, `NextSeed`, `NextKeyAgain`, `Built`, `AttemptFails`, `GiveUp`; `add`, `add_partition` |
| `Morton` | `cuckoo_container_compressed.hpp` | blocks (counters, overflow bits, slots), the fingerprint on its way and what was read of its bucket | `NextKey`, `bucket_insert`, `SecondBucket`, `evict_from_bucket`, `evict_with_room`, `evict_last`, `Lose` |
| `Bloom` | `bloom_filter.hpp`, `bloom_container.hpp`, `construct/`, `mask/`, `scatterstore_or` | words, tasks, each thread's vector and register | `TakeTask`, `LoadVector`, `Gather`, `Scatter`, `ReadElement`, `WriteElement`, `TaskDone`; `add`, `add_partition` |
| `Arithmetic` | the loops that turn sizes into offsets, `1 << n` | none | `SumBelow`, `PowerOf2` are functions |
| `PartitionSetProofs`, `XorBuildProofs`, `XorFilterProofs`, `CuckooProofs`, `BloomProofs` | theorems about the module of that name | | |
| `TaskProofs` | theorems about `TaskQueue` and `CountTasks` | | |
| `PackedProofs` | theorems about `PackedStore` and `Morton`: fingerprints stored without gaps | | |
| `NaturalLemmas` | lemmas: induction over the naturals, multiples, loops, sums, powers of two; fingerprints matched with keys | | |
| `MCPartitionSet`, `MCXorBuild`, `MCPackedStore`, `MCCuckoo`, `MCMorton`, `MCBloom` | values of constants for TLC | | |

How they are composed: `TaskQueue` implements `PhasedExecution`, and
`PartitionSet` and `XorFilter` run their tasks on an instance of
`PhasedExecution`, not on the queue itself: the threads and the barrier do not
multiply with the state of their clients. `XorBuild` implements `PartitionBuild`
for one partition, in both variants; `XorFilter` shows that building all
partitions, in any order and in groups of lanes, looks to each partition as
`PartitionBuild` says (`BuildsEach`), with the choice "can these keys be
placed?" open. `Cuckoo`, `Morton` and `Bloom` take their addresser as constant
operators; `MCCuckoo`, `MCMorton` and `MCBloom` give them the operators of
`Addressing`, so that a run goes over the addresses the code computes, with the
sizes that the addresser rounds up and the alternatives it leads back. The
property `AlternativesLeadBack` says what the other properties of a cuckoo
filter need of them.

### How steps and data are abstracted

*Queue.* The body of `Barrier::wait` runs under one mutex, so it is one step up
to the point where the condition variable releases the mutex. Waking up and
testing the predicate are steps of their own; a wake-up without a notification
is always possible. `pos++` is one atomic step, and the comparison with the size
belongs to it because nobody changes the vector while workers run. The phase of
an entry, and how often it has begun and ended, are history.

*Partitioner.* One step is one key scattered, since neighbouring tasks write to
the same array; the histogram and offsets tasks are one step each, since they
write only what no other task of their phase touches (a task's own local arrays,
or the offsets when no other task runs). A freed array is `Null`, an array that
is allocated but not written holds `Garbage`. The sequential `init` has no
concurrency and is one step, `Scatter`: a loop that puts key after key into its
buffer and one that flushes partition after partition. It writes whole buffers and
therefore stale tuples too. Both loops, and those over sizes, are recursive
functions, so that they can be reasoned about.

*Xor construction.* A hash is a set of bits, so that `^` is the symmetric
difference. `Hash` chooses the hashes of all keys at once, arbitrarily; `Address`,
`Segment` and `Fingerprint` are functions of the hash, as in the code, and are
constants of the module. The lanes of a vector share nothing but the instruction
stream, so the module follows one of them. A queue entry that is processed stays
in the queue until `clear`, as in the array. The standard variant has a set and a
queue of hashes for each of three parts and peels them in rounds; the fuse variant
has one set, one queue of slots, and keeps the slot on the stack.

*Xor filter.* Of the fingerprints of a partition only the seed they were placed
under is kept; a lookup succeeds if it is the seed stored in the container.
`n_retries++` is a load and a store, because it is a plain `size_t` written by
several tasks. The sequential `construct` runs the same steps in one order and is
covered by the concurrent one. `init` followed by `add_partition` of each index
once is what the filter test does; a second `add_partition` for an index is not
modelled. `lanes` stands for `Vector::n_elements`.

*Packed store.* The array is the set of its bits that are 1. A write reads the
registers it needs and writes each back, one step each. The scalar path over
bytes clears the cell with `&=` and fills it with `|=`: it reads and writes back
the same word, which may begin at any byte, twice. With vectors `bucket_insert`
writes a bucket back also if it is full, as it was.
Addresses of tasks are arbitrary, as they come from hashes.

*Addressing.* All arithmetic is on words of `AddressBits` bits, 32 in the code,
with the wrapping and the truncated products of the code. A signature is the
fingerprint times `0x5bd1e995`; which multiplier it is makes no difference to an
involution, so the product is a function given by the run. libdivide is modelled
by the divisor and the magic number it finds, not by how it divides 64 by 32 bits.

*Cuckoo.* One step is one access to a bucket: look for a free slot and take it, or
swap with a random one. The random generator may return any slot. The hash of a
key under a seed is chosen when the key is first inserted under it. Lanes share
nothing until the last of them has stopped, so they are followed one after
another; groups with threads run in any order, one at a time, because the only
data they share are registers at the borders of partitions (`PackedStore` is about
them) and the plain counter `n_retries` (`XorFilter` has the same increment, with
read and write apart). The buckets of all partitions are one array with the
offsets and the alignment of the code, so that clearing a partition for a retry
could touch a neighbour. `dropped` counts the insertions that failed, as history.

*Morton.* One partition, since partitions share no block, and the scalar code: the
vectorised `insert` inserts nothing, so that every key goes through the retries,
which `Cuckoo` models. A block is its counters, its overflow bits and the one run
of fingerprints; offsets are sums of counters, as in the code. `hand` is the
fingerprint that is being inserted together with the local variables
(`slot_count`, `occupied_slots`) that `is_free` read of its bucket, which outlive
the eviction that changes the block they were read from.

*Bloom.* A vector is a set of pairs of a partition and a key. Vertically it holds
as many keys of one partition as a register holds blocks, and all words of their
blocks are gathered at once; `scatterstore_or` reads and writes one element after
another. Horizontally it holds a key of each of several partitions, and each
iteration of the mask gathers and scatters one word for each of them. What a key
sets in each iteration, its block, sector and bits, is chosen when it is inserted,
from what the variant allows. Reads and writes of registers are steps of their own.

*Count.* A key is a position in its partition, and is always found. Each task is
one step, since `counter +=` is its only effect on shared state.

### Constants and assumptions

`NThreads >= 1` (a queue without threads drops its tasks); a power of two for
`NPartitions` of `PartitionSet` (the code masks the key with whole bits); `Null` and
`Garbage` there differ from every array and every key, since they are the model's
marks for "not allocated" and "not written"; `NPartitions` a multiple of the number
of lanes, and at least one of everything that is divided by; `MAX_ITERATION >= 1`
for cuckoo filters (the code has 1000), whose configurations are those that compile
(`supports_add` is scalar and without retries) and whose addresser puts every
address into the buckets it gives; for `Morton` also that alternatives lead back, that
a block has room for its counters and overflow bits (slots are what is left), and that
it has as many slots as a bucket may hold; for `Bloom` that the number of hash
functions is a multiple of the sectors, or of the groups; in the runs sizes and
alternatives of an addresser are those of `Addressing`. Each is a named `ASSUME` of the
module that needs it, or a value in the `.cfg` or the MC module.

Two of these are narrower than what the code compiles. Nothing asserts that a Morton
block holds what a bucket may hold: `Morton15` with fingerprints of 32 bits does not,
and there a bucket could fill its block alone, so that `evict_victim` would find no
victim and go on with variables it never set. And the sectorized Bloom masks assert
that the hash functions are a multiple of the sectors, but the grouped mask asserts
nothing about its groups: with another number it makes an iteration too many, outside
of the block. The comments on the parameters (`bloom_parameter.hpp:64`), the tests and
the benchmarks keep to what is assumed here.

## 3. What the runs show

| run | bounds | shows |
|---|---|---|
| `TaskQueue` | 3 workers, queues of up to 8 entries, repeated use | `PhaseSeparation`, `NoOneLeftBehind`, `ImplementsPhased`, `ExecuteReturns`, and the inductive invariant `IInv` with the type invariant in it |
| `PartitionSet` | 2 threads, 3 tasks per level, 2 partitions, buffers of 2 keys, inputs of 0 to 7 keys | `Partitioned`, `DisjointWrites`, `NoUseAfterFree`, `NoCarryOver` |
| `XorBuild` | both variants; 4 keys in ascending order of their hashes, 2 slots per set or segment, 2 segments, hashes of 4 bits, 1 retry | `NoFalseNegatives`, `ArraysSuffice`, `PeelOrder`, `OnlyCoreRejected`, `AssignedStays`, `ImplementsBuild`, `Terminates` |
| `PackedStore` | 2 partitions, 3 writes each, five layouts | `PartitionsKept` |
| `XorFilter` | 2 partitions, 1 or 2 lanes, 3 retries, 2 containers | `ConstructReportsOutcome`, `RetriesReported`, `BuildsEach` |
| `CountTasks` | 3 partitions of 0 to 7 keys, 0 to 5 tasks, alignment 4, 2 lanes | `NoneTwice`, `NoneMissed`, `CountExact` |
| `Cuckoo` | 8 configurations with 2 to 5 keys in 1 or 2 partitions, 3 evictions, 2 seeds, addresses of 4 bits, addressers for 1 to 10 buckets | `AlternativesLeadBack`, `Conserved`, `LossesReported`, `NoFalseNegatives`, `FailureHasReason`, `Terminates` |
| `Morton` | 4 configurations with 4 or 5 keys, blocks of 16 bits with 3 or 4 slots and 2 to 4 buckets, 0 to 3 overflow bits, 3 rounds | `CountersFresh`, `VictimFound`, `Conserved`, `NoFalseNegatives` |
| `Bloom` | 6 configurations with 2 or 3 keys in 1 or 2 partitions, 2 threads (symmetric), words of 2 bits, blocks of 1 to 4 words | `NoFalseNegatives`, `OnlyBitsOfKeys` |
| `PackedStoreNarrowXor`, `PackedStoreByteCuckoo`, `XorFilterAdd` | | violated: section 5 |

Why the bounds are enough:

- Three workers are the fewest for which one can be in the barrier, one still
  working and one ahead of both; eight entries hold two barriers with a task
  around each, so a worker can meet the next generation of the barrier before
  another has left the first. The queue is used again after it returns.
- Three slices on two threads make one thread run two slices with the same
  buffers; buffers of two keys are flushed in the middle of a slice and at its
  end; the inputs put an empty, an exactly full and a partly full last buffer
  into a window.
- Four keys in two slots per set contain every small obstacle to peeling: keys
  that agree in all slots, keys that hold each other in a cycle, a key that
  becomes alone in two sets at once (so that its second queue entry is stale).
  Two segments let the three slots of a fuse key overlap with those of a key in
  the next segment. One retry is enough to tell the seed of an attempt from the
  seed of the other. Keys are interchangeable, so only ascending hashes are looked
  at.
- In `Cuckoo` three keys with one fingerprint and one pair of one-slot buckets
  overfill them, which is the shortest way to a failed insertion; three evictions bring a
  fingerprint to the bucket it was evicted from and on again. Two seeds give a
  retry that succeeds after one that failed, and one that runs out of seeds. The
  configurations have each addresser, buckets of one and two slots, a fingerprint
  of 0 (which the code makes 1), aligned and padded partitions, an empty
  partition, two lanes of which one fails, tasks in both orders, and `add` with
  `add_partition`. Ten buckets are enough for a vacuum filter to have chunks of one,
  two and four buckets and to round sizes up to them.
- In `Morton` five keys overfill a block of three slots whose buckets hold two each,
  so that the bucket and the block can each be full first. The
  configurations have a fingerprint whose two buckets are one, buckets that share
  an overflow bit, blocks without such bits, and a single block, in which a victim
  moves within the block that is being changed.
- In `Bloom` two keys in a register, or one after the other, can name the same
  word, and two threads work on neighbouring partitions. Words of two bits can
  tell a bit that is lost from one that is kept. The configurations have both
  vectorisations and all four variants.
- In `PackedStore` two partitions meet at one border. The layouts cover a gap
  longer than a register, none where none is needed, direct stores, a whole
  register in between, and registers that begin at any byte. Three writes fill a bucket of two slots and evict one.
- Seven keys against an alignment of four give chunks that are full, cut short,
  empty, and empty because they begin beyond the end.

Deadlock is checked except where the modelled program stops by itself: a
construction that is done, a client with no more keys to add, and the bounded
number of writes of `PackedStore`.
Modules whose client may have no more calls to make say so by an action
`Finished` that changes nothing.

Fairness. `TaskQueue` assumes weak fairness of every worker and of the thread
that spawns and joins: the operating system keeps scheduling threads, the tasks
themselves terminate, and a thread that was notified gets the mutex eventually,
because nobody holds it longer than a step. It does not assume that a client
calls anything or that spurious wake-ups happen; `ExecuteReturns` holds although
they may happen again and again. `XorBuild` assumes weak fairness of its only
thread. `Cuckoo` assumes weak fairness of the thread that builds (`Work`), not of
the client that may add more keys: `Terminates` says that a call, once made,
returns, which it does because evictions, seeds and keys are all counted.

## 4. What is proved

For every value of the constants, by TLAPS.

`TaskProofs` on the queue, assuming `NThreads \in Nat \ {0}` and `MaxTasks \in Nat`:

- `Invariance`: `Spec => []IInv`.
- `TypeCorrect`, `BarriersSeparatePhases`, `NobodyIsLeftBehind`: the invariants
  `TypeOK`, `PhaseSeparation` and `NoOneLeftBehind`.
- `QueueImplementsPhases`: `Spec => Phased!Spec`, the refinement.

The argument. `PhaseSeparation` is not inductive: that a worker in the barrier
may leave depends on how often the barrier was entered. `IInv` says how the
generation of the barrier and the entries of the queue go together. `VectorInv`
describes the vector: phases do not decrease, and each phase that is over ends
with exactly `NThreads` barrier entries. `MainInv` relates the owner of the queue
to the workers; `ClaimInv` says that each worker that is busy holds a claimed
entry of its own. `GenerationInv` is the heart: the barrier's generation is the
phase the queue has reached (nothing of a later phase has been claimed, nothing
of an earlier one is left), its counter is the number of workers that have yet
to arrive, and each barrier entry of this phase that has been claimed is held by
a worker in the barrier. `HistoryInv` adds what has begun and ended.

Two counting arguments carry the steps. While a worker is outside the barrier,
the others cannot hold all `NThreads` entries of it, so that worker cannot claim
beyond them (`BarrierNotExhausted`, a pigeonhole of `FiniteSetTheorems`). When
the counter reaches 1 every other worker waits, the workers hold all entries of
the barrier, and the work in front of it has ended (`AllArrived`). The proof that
a step preserves a conjunct of `IInv` is a lemma of its own (`VectorStep`,
`MainStep`, `ClaimStep`, `GenerationStep`, `HistoryStep`) with a case for each
action.

`PartitionSetProofs`, assuming at least one thread, one task and one tuple in a
buffer, a power of two of partitions, any inputs that are sequences of numbers, and
that `Null` and `Garbage` are told apart from data (`QueueAssumption` to
`GarbageAssumption`):

- `PartitionInvariance`: `Spec => []IInv`.
- `PartitionTypeCorrect`, `WindowsHoldTheirKeys`, `ScatterWritesApart`,
  `ArraysOutliveTasks`, `ThreadsCarryNothing`: the invariants `TypeOK`,
  `Partitioned`, `DisjointWrites`, `NoUseAfterFree` and `NoCarryOver`.

The argument. The offsets task decides where each key will go, before any key is
moved: `Cell(w, n)` is the window of the partition of key `n` plus its rank, the
number of keys before it that share the partition. No two keys have the same cell
(`CellsDiffer`), and windows have room for all their keys and do not overlap
(`WindowHolds`, `WindowsApart`). The `Frontier` of a partition is where its next key
goes; over a slice it advances by the slice's share of the window, which is what the
histograms of the slices sum up to (`SumsAreRanks`). Shares of different slices or
partitions are disjoint (`SharesApart`).

While a slice is scattered, `InFlight` says that of each partition the keys that
were stored fill the share up to the task's destination, that the thread's buffer
holds the keys from there to the frontier in order, and that the rest of the share is
unwritten. One key keeps it, whether it stays in the buffer (`KeyIsBuffered`) or
completes a line (`LineIsStored`), the last stores complete it (`RestIsStored`), and
the steps of another slice write elsewhere (`OtherSlice`). When all slices are
placed so is the input (`SlicesPlaced`), and then each window holds just its keys
(`PlacedIsPartitioned`). What the tasks may rely on comes from the barriers
(`PhasesKept`): while a scatter task runs, offsets are laid and no array is freed;
when cleanup runs, no other task does. `LocalInv` and `ScatterInv` collect this; the
buffers of a thread are empty unless it scatters (`BuffersEmpty`). The sequential `init`
reaches the same cells by a loop over keys and one over partitions (`Buffered`,
`Emptied`, `ScatterPlaces`), in which a whole line may be stored for a part of one:
its stale tuples must stay in the partition's own window, and they do because
each window is whole lines (`LineFits`).

`TaskProofs` on the dealing out of a count, assuming `CountAssumption`:

- `CountTypeCorrect`, `CountedOnce`, `CountedAll`, `CountedExactly`: `CountTypeOK`,
  `NoneTwice`, `NoneMissed`, `CountExact`.

The argument. `DealtInv` says that the tasks dealt to a partition are exactly
those numbered `0..n-1` for one `n` that all of them captured. The rest is
arithmetic about the rounding: `Bound` grows with the number of the chunk
(`BoundsOrdered`, from `RoundingMonotone`), so two chunks are disjoint
(`ChunksDisjoint`), and each key lies in the chunk numbered by how many quotients
`length / n + 1` fit before the aligned block the key is in (`ChunksCover`). A task
finds as many keys as its chunk has (`FoundIsChunk`), none of which another task has
looked at, so the counter is at any time the number of keys looked at
(`CountedInv`); at the end these are all keys, as many as the histogram sums up to
(`KeysSumUp`).

`XorBuildProofs`, assuming only what the code needs of the constants (finitely
many keys, at least one slot and one segment, a hash for each key, addresses within
the set, segments within the filter, fingerprints that are sets of bits;
`KeysAssumption` to `FingerprintAssumption`):

- `Invariance`: `Spec => []IInv`, for both variants.
- `BuildTypeCorrect`, `BuiltFindsAll`, `PeeledInOrder`, `RejectionsJustified`,
  `AssignmentsStay`, `ArraysNeverOverflow`: the invariants `TypeOK`,
  `NoFalseNegatives`, `PeelOrder`, `OnlyCoreRejected`, `AssignedStays` and
  `ArraysSuffice`.
- `PeelingImplementsBuild`: `Spec => Build!Spec`, the refinement of
  `PartitionBuild`.

The argument. What is peeled is known only through the xor in a slot, so the
invariant begins with the slots: each holds the xor and the number of exactly the
keys that are not peeled and that it belongs to; a slot whose count is 1 therefore
holds the hash of one key. A slot with one key left is queued and its entry is
still to come, so an empty queue means that no key can be peeled
(`RejectionsJustified`). No key that is left belongs to a slot that was peeled
from, so the order of peeling is a valid order of assigning in reverse
(`PeeledInOrder`), and a fingerprint that is assigned is read by no key assigned
before it (`AssignmentsStay`, `BuiltFindsAll`). Each key is peeled at most once and
each slot queued at most twice, which bounds the arrays.

`XorFilterProofs`, assuming `SizesAssumption` (at least one partition, a multiple of
the number of lanes, and at least one seed):

- `FilterInvariance`: `Spec => []IInv`.
- `ConstructReports`, `RetriesAreReported`: the invariants
  `ConstructReportsOutcome` and `RetriesReported`.
- `FilterBuildsEach`: the property `BuildsEach`, a refinement: for every partition
  `i`, the filter's steps are steps of `PartitionBuild` or leave its variables alone.

The argument. Tasks begin only when those of the earlier phases have ended, so no
partition is built before the container is made (`QueueInv`); a group is being built
exactly while its task runs (`WhoBuilds`). A group whose build has not begun is as the
container was made; while one falls back, its local result says whether all lanes
that it is done with were built, the lanes to come are unfilled, and the seed of the
current one is that of the last attempt (`BuildInv`). The shared flag says whether the
tasks that have ended built their partitions, whatever the others are doing
(`ReportInv`). Neither the counter of retries nor a value that a task has loaded from
it and not yet stored is ever ahead of the attempts made, and a counter of 0 means
that none was made (`CountInv`).

`PackedProofs` on the packed store, assuming `LayoutAssumption` and `SizeAssumption`:

- `PartitionsStayKept`: `StoreSpec /\ RoomBetween => []PartitionsKept`.

`PartitionsKept` does not hold in every layout (section 5), so the theorem says
where it does. `RoomBetween` is a condition on the layout, which never changes: each
write touches nothing but its own cells; or a whole register lies between two
partitions, as in a cuckoo filter whose fingerprints do not have 8, 16 or 32 bits;
or the pad of a xor filter, which is a register's number of bytes *in fingerprints*,
is as long as what a write reaches over, which is one register where a register may
begin at any byte and two where it may not; or every partition is whole registers.
All layouts that the run `PackedStore` takes satisfy it, and the two runs that find a
violation take layouts that do not.

The argument. The registers a write has still to access cover the cells it has still
to change and reach into no other partition, so a write back undoes no neighbour's
write; of its own partition a register holds what the array holds, since a partition
has one writer (`StoreInv`). Where a word is written twice, its cell is empty before
the `|=`, because the `&=` before it has emptied it and nobody else writes it. That the registers reach into no other partition is
arithmetic on addresses (`Fits`, `AccessesCover`) and is proved layout by layout.

`CuckooProofs`, assuming `IterationAssumption` to `NullAssumption` (at least one
eviction, lane, slot and partition, any number of seeds, any hash values, an
addresser whose addresses lie in the buckets it gives, `Null` no fingerprint):

- `CuckooInvariance`: `Spec /\ AlternativesLeadBack => [](Invertible /\ IInv)`.
- `TypeCorrect`, `FingerprintsConserved`, `LossesAreReported`, `MembersFound`,
  `FailuresHaveReason`: under the same condition `TypeOK`, `Conserved`,
  `LossesReported`, `NoFalseNegatives` and `FailureHasReason`.

`AlternativesLeadBack` is a property of the addresser that the run `Cuckoo` checks for
those of `Addressing`. The filter needs it: without it an evicted fingerprint is looked
for where it does not lie. As `Addressing` depends on the width of a word and on
libdivide, the theorems take it as a condition and nothing else about alternatives.

The argument. That no count of a class is exceeded is not inductive by itself, since
a count says nothing of which fingerprint may be evicted next. `MatchInv` is stronger:
of each partition there is a one-to-one map from the slots taken to keys of the same
class, a class being a fingerprint and its two buckets, and what is in hand has a key
of its class that owns no slot; and as many slots are taken as keys were begun, but for
the one in hand and those dropped. A key that enters owns what is in hand
(`MatchInsert`), a free slot gets the owner of what is put into it (`MatchPlace`), who is
evicted takes its owner along (`MatchEvict`), and only a failed insertion lets a key go
without a fingerprint (`MatchLose`). Slots of different partitions never coincide, and
the bytes that a retry clears are those of one partition, because the offsets are sums
of the spaces (`Layout`, `CellsApart`, `SlotWritten`, `PartitionCleared`). The pigeonhole
in `MatchMissing` then bounds the keys without a slot by the insertions that failed.
`LoopInv` says where the loops over groups, lanes, keys and seeds are: which keys of the
partition in work have been begun under which seed (`FillInv`, `SeedInv`), that groups
which wait are untouched, those that were built complete, and that a failure has left a
partition which is a reason (`GroupInv`, `LaneInv`). A step of each action keeps it by a
lemma of its own.

`PackedProofs` on the Morton filter, assuming `IterationAssumption`,
`ConfigAssumption`, `AddresserAssumption` and `NullAssumption` of `Morton` (the
counters and the overflow bits of a block fit into it, and its slots are as many as a
bucket may hold; at least one bucket in a block and one bit in a fingerprint; an addresser whose addresses lie in the buckets it gives
and whose alternatives lead back; `Null` neither a hash nor a fingerprint on its way):

- `MortonInvariance`: `Spec => []MortonInv`.
- `MortonTypes`, `NumbersFresh`, `RunsConserve`, `VictimsExist`, `ShortCutFinds`: the
  invariants `TypeOK`, `CountersFresh`, `Conserved`, `VictimFound` and
  `NoFalseNegatives`.

That alternatives lead back is a condition of the theorems about `Cuckoo`, because the run
checks it there as a property of each addresser; here it is an assumption on the
constants, which the run `Morton` evaluates for the addressers it takes.

The argument. None of these is inductive without the others: what `hand` holds of a
bucket is fresh only if the counters sum up to the run, a victim belongs to a bucket
only if they do, and a key is found only if its fingerprint has not been lost. As for
`Cuckoo`, there is a one-to-one map from the slots taken to keys of their class
(`Matched`), and as many slots as keys, but for the one in hand and the dropped
(`Balanced`). What differs is that a fingerprint has no place of its own: an insertion
or eviction moves many of them. `Replaces` says what all of these steps have in common:
every slot that a bucket has afterwards got its fingerprint from a slot that it had
before, each from another one, but for the new fingerprint and the victim. That each of
the ways to shift the run and to count up one bucket and down another is of this kind
(`InsertReplaces`, `LeftReplaces`, `RightReplaces`, `BucketReplaces`) is arithmetic on
sums of counters: the offsets of the buckets between the two move by one, in the
direction in which the slots move (`OffsetsShifted`). Owners then go along with their
fingerprints (`MatchMove`). The victims that the code shifts out are the last of the
run before or behind the bucket, also when it takes the last candidate without asking
for room, so that the shift and the counters agree. What is read of the victim's other bucket
before the victim's block is changed still holds after it: where they are in one block,
this block is full before and after, since one counter goes up and another down, and
the counter of the bucket itself is read again. A victim is always found: the run of a
full block has as many slots as the counters sum up to, a bucket that is not full has
fewer of them than a bucket may hold, and hence others have the rest. `Marked` says that a bucket whose key is elsewhere has its
overflow bit set; bits are never cleared, so that a lookup which stops at a bucket
without the bit has missed nothing.

`BloomProofs`, assuming `ConfigAssumption`, `AddresserAssumption` and
`NullAssumption` of `Bloom` (any number of partitions, keys, lanes and hash functions,
at least one of each that is divided by; as many hash functions as share out evenly
among the sectors or groups; no more groups than words in a block; an addresser whose addresses lie in the blocks it gives; `Null` no mask), for any set of
threads:

- `BloomInvariance`: `Spec => []BloomInv`.
- `KeysAreFound`, `NothingElseIsSet`: the invariants `NoFalseNegatives` and
  `OnlyBitsOfKeys`.

The argument. A write puts back a whole word, which other elements of the same vector
or other threads may have changed since it was read, so that neither property is
inductive. Words are shared only by keys of one partition, because the offsets are
sums of sizes (`WordsApart`), and a partition is in the hands of one
thread at most: no two that are busy hold keys of the same one, and none holds keys of
one whose task waits (`Apart`). A horizontal vector takes its keys from different
partitions, so nobody else writes the words it has gathered: they are in the register
as they are in the filter (`Register`). A vertical vector may name a word several
times. There an element is read again and written in two steps, and what an element
has gathered may lack the bits of those before it; but `Element` says that what was
read again lacks nothing that the word has, and elements which were written stay
set. The iterations of a vector that are over have set their bits (`Over`), so a key is
found when its vector is done. That nobody else's bits are set is the other direction:
all that is in a register is claimed by a key that asks for this word.

`NaturalLemmas` has what these proofs share: the map from fingerprints to keys
(`OneEach`), and induction. A set of naturals that is not empty has a least element
(`LeastNat`), which is induction in a form that names no operator: the induction
theorems of the library do, and the provers cannot instantiate them. The steps that need induction (a sweep of a table visits each slot, a
chain of runs) take the least counterexample.

Every inductive invariant was checked by TLC on the instance of the component's run
before it was proved.

Only model-checked: liveness (`ExecuteReturns`, and `Terminates` of `XorBuild` and
`Cuckoo`), which TLAPS cannot prove under fairness; `AddReportsOutcome`, which the
code violates; the addressers, because the library's bitwise operators are
recursive, and with them `AlternativesLeadBack`. What the library's folds compute for
every input is out of the prover's reach.

## 5. Disagreements found

The three runs that end in a violation each confront the code with a statement
of the repository.

1. *Gap between the partitions of a xor filter* (`PackedStoreNarrowXor`). The
   comment at `xor_container.hpp:121` promises one extra register between
   partitions, to avoid races. The code adds the number of bytes of a register
   to a count of fingerprints: `k * registerSize / 8` bits, which is less than a
   write can reach for narrow fingerprints. TLC shows two tasks, the write back of
   one undoing the other's fingerprint.
2. *Gap between the partitions of a cuckoo filter* (`PackedStoreByteCuckoo`). The
   same comment at `cuckoo_container_standard.hpp:110`; the gap is left out for
   fingerprints of 8, 16 and 32 bits, whose evictions nevertheless access two
   registers under SIMD. The tests build such a filter with four threads
   (`CuckooAVX512Large1`, `cuckoo_filter_test.hpp:52`), but its 16 partitions are the
   16 lanes of one task, so it does not race itself there; with more partitions than
   lanes it would.
3. *Result of `add_partition`* (`XorFilterAdd`). It returns true whatever
   `_construct` returned, while the filter test takes its result for "building
   filter has failed".

## 6. What is not modelled

- Hash functions, seeds' values, SIMD intrinsics, random numbers: pure functions;
  the modules allow every result instead.
- Weak memory. The steps are sequentially consistent; the queue's barrier and
  joins order the phases, and the accesses within a phase are to distinct data
  except where a module says otherwise (`n_retries`, packed registers).
- Failing allocation, CPU affinity, NUMA placement, printing.
- Third-party filters (`lib/`) and their adapters, benchmarks, plots. They are most
  of the lines of the repository; of `lib/` only what an addresser calls in
  libdivide is modelled.
- The addresser for Morton filters (`addresser_morton.hpp`). No test and no
  benchmark selects it. Its alternative addresses lead back only for an even size
  that is larger than its largest offset, its vectorised version corrects a wrap
  differently from the scalar one, and the masked scalar version adds where the
  others subtract.
- Lookups in a partition that got no key. A cuckoo filter gives such a partition no
  buckets; under some addressers its mask is then all ones. A run builds a filter
  with an empty partition, but asks it for nothing there.
- The vectorised counters of the Bloom filter, beyond how `count` deals out its
  chunks: they read what `contains` reads.
- Morton filters whose buckets may hold more than a block, and grouped Bloom filters
  whose hash functions are no multiple of the groups (section 2, constants and
  assumptions).
- How the constructor of the xor container computes the number of slots from the
  number of keys. `XorBuild` takes it as a constant and shows what follows for any;
  with the sizes of the tests a partition of two or three keys gets one slot per set
  and can never be built.
- The filter pointer, a holder of one object for one caller.

## 7. Plan

In order of importance; the first three blocks are done.

1. *Core.* `TaskQueue` with `PhasedExecution`; `PartitionSet`; the standard xor
   filter with `PartitionBuild`; `XorFilter`; `PackedStore`; `CountTasks`. Proofs of
   the queue and of the chunks.
2. *More of the system.* `XorFuse` beside `XorStandard`; `Addressing`; `Cuckoo` with
   its retries; `Morton`; `Bloom`.
3. *More proofs.* Done: `XorBuild` with its refinement, `XorFilter` with its
   refinement, `PackedStore`, `PartitionSet`, `CountExact`, the safety of `Cuckoo`
   and of `Morton` for every addresser whose alternatives lead back, the safety of
   `Bloom`.
4. *Larger questions.* Several Morton partitions under the retries; more rounds and
   larger blocks; lookups in empty partitions for each addresser.
