---------------------------- MODULE XorConstruct ----------------------------
(***************************************************************************)
(* How a xor filter builds the fingerprints of one partition:              *)
(* Filter::_construct and _construct_fallback.  This module holds the      *)
(* state and the steps that both variants of the filter have in common,    *)
(* XorStandard and XorFuse what is different, XorBuild all of it together. *)
(*                                                                         *)
(* Every key hashes to three slots of one array.  Peeling takes a key that *)
(* is alone in a slot off the array and pushes its hash onto the stack; if *)
(* that reaches every key, the fingerprints are assigned in the reverse    *)
(* order, so that the three fingerprints of each key xor to its own.       *)
(* Otherwise the hashes of another seed are tried.                         *)
(*                                                                         *)
(* A hash is a set of bits, so that ^ is the symmetric difference.  The    *)
(* hashes of the keys under a seed are arbitrary: the slots and the        *)
(* fingerprint of a key are functions of its hash only.  A SIMD vector     *)
(* builds several partitions in lanes that share nothing; this is a lane.  *)
(***************************************************************************)
EXTENDS Integers, Sequences, FiniteSets, SequencesExt

CONSTANTS
  Keys,             \* the keys of the partition (positions in its window)
  HashBits,         \* the bits of a hash
  HashChoices,      \* the hashes the keys may get under a seed
  NSlots,           \* addresser.get_size(index): slots of a set or of a segment
  Address(_, _),    \* Address(h, s): the address of hash h rotated for set s
  FuseSegments,     \* FUSE_SEGMENTS
  Segment(_),       \* xor_segment(h) of the fuse variant
  FingerprintBits,  \* the k bits of a stored fingerprint
  Fingerprint(_),   \* xor_fingerprint(h), cut to k bits
  MaxRetries,       \* max_n_retries
  Null              \* no value yet

Variants == {"Standard", "Fuse"}
Hashes == SUBSET HashBits
Sets == 0..2

ASSUME KeysAssumption == IsFiniteSet(Keys)
ASSUME SlotsAssumption == NSlots \in Nat \ {0} /\ FuseSegments \in Nat \ {0}
ASSUME RetriesAssumption == MaxRetries \in Nat
ASSUME HashAssumption == HashChoices \subseteq [Keys -> Hashes]
ASSUME AddressAssumption ==
  \A h \in Hashes, s \in Sets : Address(h, s) \in 0 .. NSlots-1
ASSUME SegmentAssumption == \A h \in Hashes : Segment(h) \in 0 .. FuseSegments-1
ASSUME FingerprintAssumption == \A h \in Hashes : Fingerprint(h) \subseteq FingerprintBits

VARIABLES
  variant,       \* Variant::Standard or Variant::Fuse
  pc,            \* where the builder is
  attempt,       \* the seed of this attempt: 0, then single_seed(attempt - 1)
  hash,          \* the hash of each key under that seed
  xor_set,       \* XorSet::set: the xor of the hashes in each slot, and their number
  queue,         \* XorQueue::queue: Standard, hashes for each set; Fuse, slots
  stack,         \* XorStack::stack: Standard, hashes; Fuse, hashes and slots
  runs,          \* Standard: runs[r+1] is where run r ends in the stack
  set0,          \* Standard: the set whose queue is being processed
  begin,         \* progress in the queue; in a run, or in the stack, while assigning
  run,           \* Standard: the run being assigned
  seed,          \* container.seeds[index]
  fingerprints,  \* container.fingerprints of the partition
  success        \* what _construct returns

peelVars == <<xor_set, queue, stack, runs, set0>>
resultVars == <<seed, fingerprints, success>>
vars == <<variant, pc, attempt, hash, peelVars, begin, run, resultVars>>

Xor(a, b) == (a \ b) \cup (b \ a)

(* The slots of the partition: three sets, or overlapping segments.        *)
Slots == 0 .. (IF variant = "Standard" THEN 3 ELSE FuseSegments + 2) * NSlots - 1

segment(h) == IF variant = "Standard" THEN 0 ELSE Segment(h)

(* The slot of hash h in set s, in XorSet and in the container alike.      *)
Slot(h, s) == (segment(h) + s) * NSlots + Address(h, s)

Empty == [hash |-> {}, counter |-> 0]
EmptyQueue == IF variant = "Standard" THEN [s \in Sets |-> <<>>] ELSE <<>>

Init ==
  /\ variant \in Variants
  /\ pc = "hash"
  /\ attempt = 0
  /\ hash = Null
  /\ xor_set = [a \in Slots |-> Empty]
  /\ queue = EmptyQueue
  /\ stack = <<>>
  /\ runs = <<0>>
  /\ set0 = 0
  /\ begin = 0
  /\ run = 0
  /\ seed = 0
  /\ fingerprints = [a \in Slots |-> {}]
  /\ success = FALSE

-----------------------------------------------------------------------------
(* The hashes of the keys under the seed of this attempt.                  *)
Hash ==
  /\ pc = "hash"
  /\ hash' \in HashChoices
  /\ pc' = "fill"
  /\ UNCHANGED <<variant, attempt, peelVars, begin, run, resultVars>>

In(a) == {x \in Keys : \E s \in Sets : Slot(hash[x], s) = a}

(* XorSet::fill adds the keys one by one: a bit of the xor of the hashes   *)
(* in a slot is set if an odd number of them has it.                       *)
Filled(a) ==
  [hash    |-> {b \in HashBits : Cardinality({x \in In(a) : b \in hash[x]}) % 2 = 1},
   counter |-> Cardinality(In(a))]

(* XorQueue::fill scans n slots from `first` on for those with one hash.    *)
AloneSlots(set, first, n) ==
  LET found[i \in 0..n] ==
        IF i = 0 THEN <<>>
        ELSE IF set[first + i-1].counter = 1 THEN Append(found[i-1], first + i-1)
        ELSE found[i-1]
  IN  found[n]

(* Faulty variant: the hash is not taken out of the xor of the slot.       *)
WithoutXor(e, h) == [hash |-> e.hash, counter |-> e.counter - 1]

(* An entry of the set from which hash h is removed.                       *)
Without(e, h) == [hash |-> Xor(e.hash, h), counter |-> e.counter - 1]

-----------------------------------------------------------------------------
(* The size of the stack decides: assign, or another seed, or give up.     *)

Fresh ==
  /\ xor_set' = [a \in Slots |-> Empty]
  /\ queue' = EmptyQueue
  /\ stack' = <<>>
  /\ runs' = <<0>>
  /\ set0' = 0
  /\ begin' = 0

(* Faulty variant: the container keeps its seed.                           *)
RetryKeepingSeed ==
  /\ pc = "check"
  /\ Len(stack) # Cardinality(Keys)
  /\ attempt < MaxRetries
  /\ attempt' = attempt + 1
  /\ hash' = Null
  /\ Fresh
  /\ pc' = "hash"
  /\ UNCHANGED <<variant, run, resultVars>>

(* Faulty variant: the loop over the seeds does not count.                 *)
RetryForever ==
  /\ pc = "check"
  /\ Len(stack) # Cardinality(Keys)
  /\ attempt < MaxRetries
  /\ seed' = attempt
  /\ hash' = Null
  /\ Fresh
  /\ pc' = "hash"
  /\ UNCHANGED <<variant, attempt, run, fingerprints, success>>

Retry ==
  /\ pc = "check"
  /\ Len(stack) # Cardinality(Keys)
  /\ attempt < MaxRetries
  /\ attempt' = attempt + 1
  /\ seed' = attempt'
  /\ hash' = Null
  /\ Fresh
  /\ pc' = "hash"
  /\ UNCHANGED <<variant, run, fingerprints, success>>

(* Faulty variant: the last seed is not tried.                             *)
GiveUpEarly ==
  /\ pc = "check"
  /\ Len(stack) # Cardinality(Keys)
  /\ pc' = "done"
  /\ UNCHANGED <<variant, attempt, hash, peelVars, begin, run, resultVars>>

GiveUp ==
  /\ pc = "check"
  /\ Len(stack) # Cardinality(Keys)
  /\ attempt = MaxRetries
  /\ pc' = "done"
  /\ UNCHANGED <<variant, attempt, hash, peelVars, begin, run, resultVars>>

(* XorContainer::fill has assigned the whole stack.                        *)
Finish ==
  /\ success' = TRUE
  /\ pc' = "done"
  /\ UNCHANGED <<variant, attempt, hash, peelVars, begin, run, seed, fingerprints>>

-----------------------------------------------------------------------------
Stored(h, s) == fingerprints[Slot(h, s)]

(* XorContainer::contains                                                  *)
contains(h) ==
  Xor(Xor(Stored(h, 0), Stored(h, 1)), Stored(h, 2)) = Fingerprint(h)
=============================================================================
