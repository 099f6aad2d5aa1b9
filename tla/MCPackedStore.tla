--------------------------- MODULE MCPackedStore ---------------------------
(* PackedStore for TLC: layouts in which two partitions keep apart, and two  *)
(* in which they do not.                                                     *)
EXTENDS PackedStore

Layout(of, registerSizes, simd, bitsOfFingerprint, assoc, n) ==
  [of |-> of, registerSize |-> registerSizes, avx |-> simd,
   k |-> bitsOfFingerprint, associativity |-> assoc, buckets |-> n]

MCSafeLayouts == {
  Layout("xor", 32, TRUE, 13, 1, 2),     \* the pad reaches over a register
  Layout("xor", 32, TRUE, 16, 1, 2),     \* a partition is a whole register
  Layout("xor", 32, FALSE, 8, 1, 2),     \* stored directly
  Layout("cuckoo", 32, FALSE, 5, 2, 2),  \* registers that begin at any byte
  Layout("cuckoo", 32, TRUE, 5, 2, 2)}   \* a register in between

(* Five bits: the pad of a xor filter is four fingerprints, 20 bits. *)
MCNarrowXor == {Layout("xor", 32, TRUE, 5, 1, 6)}

(* Eight bits: there is no pad in a cuckoo filter. *)
MCByteCuckoo == {Layout("cuckoo", 32, TRUE, 8, 2, 2)}
=============================================================================
