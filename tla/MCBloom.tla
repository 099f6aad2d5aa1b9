------------------------------ MODULE MCBloom -------------------------------
(* Bloom for TLC: words of 2 bits, the addressers that round sizes up and   *)
(* those that do not.                                                       *)
EXTENDS Bloom, TLC

LOCAL A == INSTANCE Addressing WITH AddressBits <- 3, Chunks <- 4, MinChunk <- 1

(* The first and the last block.                                           *)
MCAddressValues == {0, 7}

WorkerSymmetry == Permutations(Workers)

Sizes == [m \in A!Modes, n \in 1..8 |-> A!get_size(m, n)]
Addresses == [m \in A!Modes, n \in 1..8, bits \in 0..7 |-> A!compute_address(m, n, bits)]
MCSize(mode, n) == Sizes[mode, n]
MCAddress(mode, n, bits) == Addresses[mode, n, bits]

Config(vectorization, variant, mode, k, blockSize, lanes, histogram) ==
  [vectorization |-> vectorization, variant |-> variant, mode |-> mode, k |-> k,
   blockSize |-> blockSize, lanes |-> lanes, histogram |-> histogram,
   s |-> 100, groups |-> 2, multiThreading |-> FALSE, add |-> FALSE]

One(n) == [p \in {0} |-> n]
Two(m, n) == (0 :> m) @@ (1 :> n)

MCConfigs == {
  [Config("Vertical", "Sectorized", "PowerOfTwo", 2, 4, 2, Two(1, 2))
     EXCEPT !.multiThreading = TRUE, !.s = 400],
  [Config("Vertical", "Sectorized", "Lemire", 2, 4, 2, One(3)) EXCEPT !.add = TRUE],
  [Config("Horizontal", "Sectorized", "Lemire", 2, 4, 1, Two(2, 1))
     EXCEPT !.multiThreading = TRUE],
  Config("Horizontal", "Blocked", "PowerOfTwo", 2, 4, 2, Two(2, 1)),
  [Config("Horizontal", "Grouped", "Lemire", 2, 8, 1, One(2)) EXCEPT !.add = TRUE],
  Config("Horizontal", "Naive", "Magic", 2, 2, 2, Two(1, 1))}
=============================================================================
