------------------------------ MODULE MCCuckoo ------------------------------
(* Cuckoo for TLC, on the addressers of Addressing with 4 bits in a word,   *)
(* where a chunk of a vacuum filter has at least one bucket.                *)
EXTENDS Cuckoo, TLC, Functions

LOCAL A == INSTANCE Addressing WITH AddressBits <- 4, Chunks <- 4, MinChunk <- 1

MCHashValues == [address : {1, 6, 13}, fingerprint : 0..2]

(* The address bits of a fingerprint times 0x5bd1e995.                      *)
Signature(f) == (f * 7) % 16

(* The addressers by table, computed once.                                  *)
MCBucketCounts == 1..10
Counts == {0} \cup MCBucketCounts
Sizes == [m \in A!Modes, n \in Counts |-> A!get_size(m, n)]
Addresses == [m \in A!Modes, n \in Counts, bits \in 0..15 |-> A!compute_address(m, n, bits)]
Alternatives ==
  [m \in A!Modes, n \in Counts, a \in 0..15, f \in 0..2 |->
     A!compute_alternative_address(m, n, a, Signature(f))]

MCSize(mode, n) == Sizes[mode, n]
MCAddress(mode, n, bits) == Addresses[mode, n, bits]
MCAlternative(mode, n, a, f) == Alternatives[mode, n, a, f]

Config(mode, associativity, s, histogram) ==
  [mode |-> mode, associativity |-> associativity, s |-> s, histogram |-> histogram,
   optimal |-> TRUE, add |-> FALSE, retry |-> FALSE, lanes |-> 1,
   multiThreading |-> FALSE]

(* Histograms start with partition 0.                                       *)
One(n) == [p \in {0} |-> n]
Two(m, n) == (0 :> m) @@ (1 :> n)

MCConfigs == {
  [Config("PowerOfTwo", 2, 100, One(4)) EXCEPT !.add = TRUE],
  [Config("Lemire", 1, 100, One(3)) EXCEPT !.add = TRUE],
  Config("Magic", 1, 100, One(3)),
  [Config("Vacuum", 1, 125, Two(4, 1)) EXCEPT !.retry = TRUE, !.optimal = FALSE],
  [Config("Lemire", 1, 100, Two(2, 2)) EXCEPT !.retry = TRUE, !.lanes = 2],
  [Config("Lemire", 2, 100, Two(3, 2)) EXCEPT !.retry = TRUE, !.multiThreading = TRUE],
  [Config("PowerOfTwo", 1, 100, Two(2, 2)) EXCEPT !.retry = TRUE, !.multiThreading = TRUE],
  [Config("Lemire", 1, 100, Two(0, 2)) EXCEPT !.retry = TRUE]}
=============================================================================
