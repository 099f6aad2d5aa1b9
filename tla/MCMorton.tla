------------------------------ MODULE MCMorton ------------------------------
(* Morton for TLC, on the addressers of Addressing with 4 bits in a word,   *)
(* with blocks of 16 bits that hold three or four fingerprints.             *)
EXTENDS Morton, FiniteSetsExt

LOCAL A == INSTANCE Addressing WITH AddressBits <- 4, Chunks <- 4, MinChunk <- 1

MCHashValues ==
  {[address |-> h[1], fingerprint |-> h[2]] :
     h \in {<<0, 0>>, <<0, 1>>, <<6, 1>>, <<6, 2>>, <<13, 0>>, <<13, 2>>}}

(* The address bits of a fingerprint times 0x5bd1e995.                      *)
Signature(f) == (f * 7) % 16

(* The addressers by table, computed once.                                  *)
Sizes == [m \in A!Modes, n \in 1..8 |-> A!get_size(m, n)]
AddressTable == [m \in A!Modes, n \in 1..8, bits \in 0..15 |-> A!compute_address(m, n, bits)]
Alternatives ==
  [m \in A!Modes, n \in 1..8, a \in 0..15, f \in 0..2 |->
     A!compute_alternative_address(m, n, a, Signature(f))]

MCSize(mode, n) == Sizes[mode, n]
MCAddress(mode, n, bits) == AddressTable[mode, n, bits]
MCAlternative(mode, n, a, f) == Alternatives[mode, n, a, f]

(* 1 for 1, and the bits of the numbers below n.                              *)
Bits == [n \in 1..8 |-> Min({b \in 1..8 : 2^b >= n})]
MCNumberOfBits(n) == Bits[n]

Config(mode, slots_per_bucket, buckets_per_block, ota_size, k, s, histogram) ==
  [mode |-> mode, slots_per_bucket |-> slots_per_bucket,
   buckets_per_block |-> buckets_per_block, ota_size |-> ota_size, k |-> k, s |-> s,
   histogram |-> histogram, add |-> FALSE]

MCConfigs == {
  \* 4 buckets, 2 blocks of 3 slots
  [Config("PowerOfTwo", 2, 2, 2, 3, 130, 5) EXCEPT !.add = TRUE],
  \* 3 buckets in a block of 3 slots, a bit for all, one block for all
  [Config("Lemire", 2, 3, 1, 3, 100, 4) EXCEPT !.add = TRUE],
  \* 5 buckets, 2 blocks of 3 slots, no bits
  Config("Lemire", 2, 3, 0, 3, 150, 5),
  \* one slot in a bucket, 4 buckets in a block
  Config("Vacuum", 1, 4, 3, 3, 100, 4)}
=============================================================================
