------------------------------- MODULE Morton -------------------------------
(***************************************************************************)
(* The Morton filter: CuckooContainer with compressed buckets.             *)
(*                                                                         *)
(* A block keeps a counter for each of its buckets, overflow tracking bits *)
(* (OTA) and the fingerprints of all its buckets in one run, bucket after  *)
(* bucket: a bucket has no place of its own, it begins where the counters  *)
(* before its own say.  Each insertion and eviction shifts a part of the   *)
(* run and changes two counters.  A fingerprint can be refused by a full   *)
(* bucket or by a full block; in a full block the fingerprints of the      *)
(* other buckets are candidates for eviction, and one whose alternative    *)
(* bucket has room is preferred.  A lookup reads the second bucket of a    *)
(* key only if the OTA bit of the first says that something left it.       *)
(*                                                                         *)
(* One partition, by the scalar build; the partitions share no block.  The *)
(* hash of a key is chosen when it is inserted, the random generator may   *)
(* return anything.                                                        *)
(***************************************************************************)
EXTENDS Integers, FiniteSets, Arithmetic

CONSTANTS
  Configs,        \* template and constructor arguments
  HashValues,     \* [address, fingerprint]: address bits, and k bits
  Size(_, _),     \* Size(mode, n): buckets for n asked for
  Address(_, _, _),         \* Address(mode, n, bits)
  Alternative(_, _, _, _),  \* Alternative(mode, n, address, fingerprint)
  NumberOfBits(_),  \* math::get_number_of_bits
  block_size,     \* bits in a block, 512
  MAX_ITERATION,  \* rounds of an insertion before it gives up
  Null            \* no value

ASSUME IterationAssumption == MAX_ITERATION \in Nat

Fingerprints == {h.fingerprint : h \in HashValues}

(* Buckets asked for: the bits of the keys scaled by s per cent, in blocks *)
(* of which each bucket is counted as one.                                 *)
Asked(c) ==
  ((c.histogram * c.k * c.s * c.buckets_per_block) \div 100 + block_size - 1) \div block_size

SlotsPerBlock(c) ==
  (block_size - c.buckets_per_block * NumberOfBits(c.slots_per_bucket + 1) - c.ota_size)
    \div c.k

(* The counters and the OTA bits of a block fit into it, and what a bucket *)
(* may hold fits into what they leave.  Nothing in the code demands either:*)
(* where one bucket fills a block evict_victim finds no victim, and goes on*)
(* with variables it has not set.                                          *)
ASSUME ConfigAssumption ==
  /\ block_size \in Nat \ {0}
  /\ \A c \in Configs :
       /\ {c.k, c.buckets_per_block} \subseteq Nat \ {0}
       /\ {c.histogram, c.s, c.slots_per_bucket, c.ota_size,
           NumberOfBits(c.slots_per_bucket + 1)} \subseteq Nat
       /\ c.buckets_per_block * NumberOfBits(c.slots_per_bucket + 1) + c.ota_size
            <= block_size
       /\ c.slots_per_bucket <= SlotsPerBlock(c)

(* Addresses lie in the buckets that the addresser gives, and alternatives *)
(* lead back.                                                              *)
ASSUME AddresserAssumption ==
  \A c \in Configs :
    LET n == Asked(c)
        Buckets == 0 .. Size(c.mode, n) - 1
    IN  /\ Size(c.mode, n) \in Nat
        /\ c.histogram > 0 =>
             /\ \A h \in HashValues : Address(c.mode, n, h.address) \in Buckets
             /\ \A a \in Buckets, f \in Fingerprints :
                  LET b == Alternative(c.mode, n, a, f)
                  IN  b \in Buckets /\ Alternative(c.mode, n, b, f) = a

ASSUME NullAssumption ==
  /\ Null \notin [fingerprint : Fingerprints, address : Nat]
  /\ Null \notin [fingerprint : Fingerprints, address : Nat, slot_count : Nat,
                   occupied : Nat, free : BOOLEAN]

VARIABLES
  config,   \* the configuration of this filter
  pc,       \* "construct", or "done"
  begin,    \* how many keys were inserted, or have failed
  blocks,   \* counters, OTA bits and slots of each block
  hand,     \* the fingerprint on its way, and what was read of its bucket
  tries,    \* rounds of the loop of insert
  hash,     \* fingerprint and first bucket of each key
  success,  \* what construct returns
  dropped   \* history: insertions that failed

vars == <<config, pc, begin, blocks, hand, tries, hash, success, dropped>>

Keys == 0 .. config.histogram - 1
BucketsOfBlock == 0 .. config.buckets_per_block - 1

slots_per_block == SlotsPerBlock(config)

Slots == 0 .. slots_per_block - 1

buckets == Asked(config)
size == Size(config.mode, buckets)

(* One block more than the buckets fill.                                   *)
n_blocks ==
  (size + config.buckets_per_block - 1) \div config.buckets_per_block + 1

Init ==
  /\ config \in Configs
  /\ pc = "construct"
  /\ begin = 0
  /\ blocks = [b \in 0 .. n_blocks - 1 |->
                 [count |-> [i \in BucketsOfBlock |-> 0],
                  ota   |-> {},
                  slots |-> [j \in Slots |-> 0]]]
  /\ hand = Null
  /\ tries = 0
  /\ hash = [x \in Keys |-> Null]
  /\ success = TRUE
  /\ dropped = 0

-----------------------------------------------------------------------------
(* Blocks *)

block(a) == a \div config.buckets_per_block
bucket_index(a) == a % config.buckets_per_block

alternative(a, f) == Alternative(config.mode, buckets, a, f)

(* get_slot_offset: the sum of the counters before a bucket.               *)
slot_offset(B, i) == SumBelow(B.count, i)

occupied_slots(B) == slot_offset(B, config.buckets_per_block)

(* The slots of a bucket.                                                  *)
SlotsOf(B, i) == slot_offset(B, i) .. slot_offset(B, i) + B.count[i] - 1

(* Faulty variant: only the bucket is looked at.                           *)
is_free_bucket(B, i) == B.count[i] # config.slots_per_bucket

is_free(B, i) ==
  /\ occupied_slots(B) # slots_per_block
  /\ B.count[i] # config.slots_per_bucket

(* The slots from start up to n move up by one, f takes slot start.        *)
shift_slots_left_and_insert(B, f, start, n) ==
  [B EXCEPT !.slots = [j \in Slots |->
     CASE j = start          -> f
       [] start < j /\ j <= n -> B.slots[j - 1]
       [] OTHER              -> B.slots[j]]]

(* Slot start is taken out, those up to n move down, f takes the last.     *)
shift_slots_right_and_insert(B, f, start, n) ==
  [B EXCEPT !.slots = [j \in Slots |->
     CASE j = n - 1               -> f
       [] start <= j /\ j < n - 1 -> B.slots[j + 1]
       [] OTHER                   -> B.slots[j]]]

(* A bucket that overflowed once: its bit, which it shares with others.    *)
set_ota(B, i) ==
  IF config.ota_size = 0 THEN B ELSE [B EXCEPT !.ota = @ \cup {i % config.ota_size}]

get_ota(B, i) == config.ota_size = 0 \/ i % config.ota_size \in B.ota

-----------------------------------------------------------------------------
(* insert *)

(* The fingerprint f, on its way to bucket a, with what is_free has read.  *)
Arrive(f, a, B) ==
  [fingerprint |-> f, address |-> a,
   slot_count |-> B.count[bucket_index(a)], occupied |-> occupied_slots(B),
   free |-> is_free(B, bucket_index(a))]

Block == blocks[block(hand.address)]
Index == bucket_index(hand.address)
Offset == slot_offset(Block, Index)

NextKey ==
  /\ pc = "construct" /\ hand = Null
  /\ begin < config.histogram
  /\ success \/ config.add
  /\ \E h \in HashValues :
       LET a == Address(config.mode, buckets, h.address)
       IN  /\ hash' = [hash EXCEPT ![begin] = [fingerprint |-> h.fingerprint, address |-> a]]
           /\ hand' = Arrive(h.fingerprint, a, blocks[block(a)])
  /\ tries' = 0
  /\ UNCHANGED <<config, pc, begin, blocks, success, dropped>>

(* bucket_insert: the last slot of the bucket, by what was read of it.     *)
bucket_insert ==
  /\ hand # Null /\ hand.free
  /\ tries <= MAX_ITERATION
  /\ blocks' = [blocks EXCEPT ![block(hand.address)] =
       [shift_slots_left_and_insert(@, hand.fingerprint, Offset + hand.slot_count, hand.occupied)
          EXCEPT !.count[Index] = hand.slot_count + 1]]
  /\ hand' = Null
  /\ begin' = begin + 1
  /\ UNCHANGED <<config, pc, tries, hash, success, dropped>>

(* The first bucket has no room, or its block has none.                    *)
SecondBucket ==
  /\ hand # Null /\ ~hand.free
  /\ tries = 0
  /\ LET a == alternative(hand.address, hand.fingerprint)
         marked == [blocks EXCEPT ![block(hand.address)] = set_ota(@, Index)]
     IN  /\ blocks' = marked
         /\ hand' = Arrive(hand.fingerprint, a, marked[block(a)])
  /\ tries' = 1
  /\ UNCHANGED <<config, pc, begin, hash, success, dropped>>

BucketFull == hand.slot_count = config.slots_per_bucket

(* A full bucket: a random fingerprint of it makes room.                   *)
evict_from_bucket ==
  /\ hand # Null /\ ~hand.free
  /\ tries \in 1..MAX_ITERATION
  /\ BucketFull
  /\ \E r \in 0 .. config.slots_per_bucket - 1 :
       LET victim == Block.slots[Offset + r]
           a == alternative(hand.address, victim)
           evicted == [blocks EXCEPT ![block(hand.address)] =
                         set_ota([@ EXCEPT !.slots[Offset + r] = hand.fingerprint], Index)]
       IN  /\ blocks' = evicted
           /\ hand' = Arrive(victim, a, evicted[block(a)])
  /\ tries' = tries + 1
  /\ UNCHANGED <<config, pc, begin, hash, success, dropped>>

(* A full block: the fingerprints of its other buckets in the order they   *)
(* are tried, first those behind this bucket and then those before it.     *)
Start == Offset + hand.slot_count

(* Faulty variant: only those behind this bucket.                          *)
CandidatesBehind == {j \in Slots : Start <= j /\ j < hand.occupied}

Candidates == {j \in Slots : (Start <= j /\ j < hand.occupied) \/ j < Offset}
Rank(j) == IF j >= Start THEN j - Start ELSE hand.occupied + j

BucketOf(j) == CHOOSE i \in BucketsOfBlock : j \in SlotsOf(Block, i)

VictimAddress(j) ==
  alternative(hand.address - Index + BucketOf(j), Block.slots[j])

VictimFits(j) ==
  is_free(blocks[block(VictimAddress(j))], bucket_index(VictimAddress(j)))

(* Faulty variant: marks the bucket that was entered.                      *)
CountedMarksOwn(B, i) ==
  set_ota([B EXCEPT !.count[Index] = hand.slot_count + 1, !.count[i] = @ - 1], Index)

(* Both counters, and the mark of the bucket that the victim has left.     *)
Counted(B, i) ==
  set_ota([B EXCEPT !.count[Index] = hand.slot_count + 1, !.count[i] = @ - 1], i)

(* Faulty variant: slot_count as read before the block was changed.        *)
SwapKeepsCount(j, B) ==
  /\ blocks' = [blocks EXCEPT ![block(hand.address)] = B]
  /\ hand' = Arrive(Block.slots[j], VictimAddress(j), blocks[block(VictimAddress(j))])

(* The victim in hand: its block as is_free has read it, before the change,*)
(* but its counter read again, for it may be one of the two.               *)
Swap(j, B) ==
  LET a == VictimAddress(j)
  IN  /\ blocks' = [blocks EXCEPT ![block(hand.address)] = B]
      /\ hand' = [Arrive(Block.slots[j], a, blocks[block(a)])
                    EXCEPT !.slot_count = blocks'[block(a)].count[bucket_index(a)]]

(* The first victim whose alternative bucket has room.                     *)
evict_with_room ==
  /\ hand # Null /\ ~hand.free
  /\ tries \in 1..MAX_ITERATION
  /\ ~BucketFull
  /\ \E j \in Candidates :
       /\ VictimFits(j)
       /\ \A l \in Candidates : Rank(l) < Rank(j) => ~VictimFits(l)
       /\ Swap(j, Counted(
            IF BucketOf(j) > Index
            THEN shift_slots_left_and_insert(Block, hand.fingerprint, Start, j)
            ELSE shift_slots_right_and_insert(Block, hand.fingerprint, j, Offset),
            BucketOf(j)))
  /\ tries' = tries + 1
  /\ UNCHANGED <<config, pc, begin, hash, success, dropped>>

(* Faulty variant: the slot of the victim, with no regard to the buckets   *)
(* between.                                                                *)
LastReplacedInPlace(j) == [Block EXCEPT !.slots[j] = hand.fingerprint]

(* Without its last victim the run has a gap at its end, or right before   *)
(* the bucket.                                                             *)
LastReplaced(j) ==
  IF BucketOf(j) > Index
  THEN shift_slots_left_and_insert(Block, hand.fingerprint, Start, hand.occupied - 1)
  ELSE [Block EXCEPT !.slots[Offset - 1] = hand.fingerprint]

(* No victim has room elsewhere: the last one tried is evicted.            *)
evict_last ==
  /\ hand # Null /\ ~hand.free
  /\ tries \in 1..MAX_ITERATION
  /\ ~BucketFull
  /\ \A j \in Candidates : ~VictimFits(j)
  /\ \E j \in Candidates :
       /\ \A l \in Candidates : Rank(l) <= Rank(j)
       /\ Swap(j, Counted(LastReplaced(j), BucketOf(j)))
  /\ tries' = tries + 1
  /\ UNCHANGED <<config, pc, begin, hash, success, dropped>>

(* insert returns false, with a fingerprint that was stored still in hand. *)
Lose ==
  /\ hand # Null
  /\ tries = MAX_ITERATION + 1
  /\ hand' = Null
  /\ begin' = begin + 1
  /\ success' = FALSE
  /\ dropped' = dropped + 1
  /\ UNCHANGED <<config, pc, blocks, tries, hash>>

(* construct stops at the first insertion that fails; add is called again. *)
Finished ==
  /\ pc = "construct" /\ hand = Null
  /\ begin = config.histogram \/ (~success /\ ~config.add)
  /\ pc' = "done"
  /\ UNCHANGED <<config, begin, blocks, hand, tries, hash, success, dropped>>

evict_victim == evict_from_bucket \/ evict_with_room \/ evict_last

Next == NextKey \/ bucket_insert \/ SecondBucket \/ evict_victim \/ Lose \/ Finished

Spec == Init /\ [][Next]_vars

-----------------------------------------------------------------------------
(* Properties. *)

Addresses == 0 .. size - 1
Begun == {x \in Keys : hash[x] # Null}

(* The kinds of values, and blocks that hold what their counters count: no *)
(* more in a bucket than a counter counts, and no more in all of them than *)
(* the block has slots, so that the run never grows over the counters.     *)
TypeOK ==
  /\ config \in Configs
  /\ pc \in {"construct", "done"}
  /\ begin \in 0 .. config.histogram
  /\ \A b \in DOMAIN blocks :
       /\ blocks[b].count \in [BucketsOfBlock -> 0 .. config.slots_per_bucket]
       /\ occupied_slots(blocks[b]) <= slots_per_block
       /\ blocks[b].ota \subseteq 0 .. config.ota_size - 1
       /\ blocks[b].slots \in [Slots -> Fingerprints \cup {0}]
  /\ hand # Null => hand.fingerprint \in Fingerprints /\ hand.address \in Addresses
  /\ tries \in 0 .. MAX_ITERATION + 1
  /\ \A x \in Begun :
       hash[x].fingerprint \in Fingerprints /\ hash[x].address \in Addresses
  /\ success \in BOOLEAN
  /\ dropped \in Nat

(* evict_victim hands on what it has read of the victim's bucket before it *)
(* changes the victim's block.  Whatever is decided from it next, whether  *)
(* there is room, which slot is the first free one and what the counter    *)
(* becomes, is decided from the numbers the block really has.              *)
CountersFresh ==
  hand # Null => hand = Arrive(hand.fingerprint, hand.address, Block)

(* Where a block is full and the bucket is not, there are victims to try,  *)
(* and each lies in another bucket of the block by the counters as they    *)
(* are: the search always sets the victim, its bucket and its address,     *)
(* which evict_victim declares without a value and uses behind its loops.  *)
VictimFound ==
  hand # Null /\ ~hand.free /\ ~BucketFull =>
    /\ Candidates # {}
    /\ \A j \in Candidates :
         \E i \in BucketsOfBlock \ {Index} : j \in SlotsOf(Block, i)

(* A fingerprint and the two buckets it may lie in.                        *)
Class(f, a) == <<f, {a, alternative(a, f)}>>

ClassOf(x) == Class(hash[x].fingerprint, hash[x].address)

(* What lies in each bucket, by the counters.                              *)
Stored == UNION {{a} \X SlotsOf(blocks[block(a)], bucket_index(a)) : a \in Addresses}

ClassIn(t) == Class(blocks[block(t[1])].slots[t[2]], t[1])

InHand(c) == hand # Null /\ Class(hand.fingerprint, hand.address) = c

(* Shifting the run and changing two counters at a time moves no           *)
(* fingerprint into a bucket that is not one of its two, and loses or      *)
(* doubles none, but for the one lost by each insertion that fails.        *)
Conserved ==
  /\ Cardinality(Stored) + (IF hand = Null THEN 0 ELSE 1) + dropped = Cardinality(Begun)
  /\ \A x \in Begun :
       Cardinality({t \in Stored : ClassIn(t) = ClassOf(x)})
         + (IF InHand(ClassOf(x)) THEN 1 ELSE 0)
       <= Cardinality({y \in Begun : ClassOf(y) = ClassOf(x)})
  /\ \A t \in Stored : \E x \in Begun : ClassIn(t) = ClassOf(x)

InBucket(f, a) ==
  \E j \in SlotsOf(blocks[block(a)], bucket_index(a)) : blocks[block(a)].slots[j] = f

(* CuckooContainer::contains: the second bucket only if the first has      *)
(* overflowed.                                                             *)
contains(x) ==
  LET h == hash[x]
  IN  \/ InBucket(h.fingerprint, h.address)
      \/ /\ get_ota(blocks[block(h.address)], bucket_index(h.address))
         /\ InBucket(h.fingerprint, alternative(h.address, h.fingerprint))

(* The short cut costs nothing: whenever no insertion is under way, no     *)
(* more of the keys that were inserted are not found than insertions have  *)
(* failed, and none if construct succeeds.                                 *)
NoFalseNegatives ==
  hand = Null => Cardinality({x \in Begun : ~contains(x)}) <= dropped
=============================================================================
