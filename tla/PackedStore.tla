---------------------------- MODULE PackedStore ----------------------------
(***************************************************************************)
(* The bit-packed array that the partitions of a filter share while one    *)
(* task per partition (or one lane of a vector) fills it: the layouts of   *)
(* XorContainer and of the standard CuckooContainer over                   *)
(* simd::scatteru_bits.                                                    *)
(*                                                                         *)
(* A fingerprint, or a bucket of fingerprints, is written by reading whole *)
(* registers, replacing some of their bits and writing them back, without  *)
(* a lock.  Partitions may therefore disturb each other wherever they meet *)
(* in one register; the layouts leave room between them to prevent it.     *)
(*                                                                         *)
(* The array is the set of its bits that are 1.                            *)
(***************************************************************************)
EXTENDS Naturals, Sequences, FiniteSets

CONSTANTS
  Layouts,       \* the layouts an array may have
  NPartitions,
  MaxWrites      \* bound: writes of each partition

(* What the template parameters and the size of a partition make of it.    *)
LayoutFields == [
  of            : {"xor", "cuckoo"},
  registerSize  : {32, 64},
  avx           : BOOLEAN,    \* are the vectors SIMD registers?
  k             : 1..64,      \* bits of a fingerprint
  associativity : 1..64,      \* fingerprints per bucket
  buckets       : Nat \ {0}] \* buckets of a partition

ASSUME LayoutAssumption ==
  /\ Layouts \subseteq LayoutFields
  /\ \A l \in Layouts : /\ l.of = "xor" => l.associativity = 1
                        /\ l.k * l.associativity <= l.registerSize
ASSUME SizeAssumption == NPartitions \in Nat \ {0} /\ MaxWrites \in Nat

VARIABLES
  layout,    \* of the array; it never changes
  bits,      \* the bits of the array that are 1
  writing,   \* the write each partition is in the middle of, or Idle
  register,  \* the register it has read and not yet written back
  writes,    \* number of writes each partition has begun
  expected   \* history: the bits each partition means to be 1

storeVars == <<layout, bits, writing, register, writes, expected>>

Partitions == 0 .. NPartitions-1

registerSize == layout.registerSize
avx == layout.avx
k == layout.k
associativity == layout.associativity
NBuckets == layout.buckets

-----------------------------------------------------------------------------
(* The layouts. *)

align_number(value, align) == ((value + align - 1) \div align) * align

optimal_fingerprint_size == k \in {8, 16, 32}
bits_per_bucket == k * associativity

(* Faulty variants: no room between the partitions.                        *)
XorStrideWithoutPad == NBuckets * k
CuckooStrideWithoutPad == align_number(NBuckets * bits_per_bucket, registerSize)

(* XorContainer counts in fingerprints, and adds the number of bytes of a  *)
(* register to a count of fingerprints.                                    *)
XorStride ==
  (NBuckets + (IF optimal_fingerprint_size THEN 0 ELSE registerSize \div 8)) * k

(* CuckooContainer counts in bytes: whole registers, and one more.         *)
CuckooStride ==
  align_number(NBuckets * bits_per_bucket, registerSize)
    + (IF optimal_fingerprint_size THEN 0 ELSE registerSize)

(* Bits from the begin of a partition to the begin of the next.            *)
Stride == IF layout.of = "xor" THEN XorStride ELSE CuckooStride

-----------------------------------------------------------------------------
(* _scatteru_bits: the read-modify-writes by which n bits are written, in  *)
(* order.  Scalar code writes a register that begins at any byte twice,    *)
(* with &= and with |=.                                                    *)

PowerOfTwo(n) == n \in {1, 2, 4, 8, 16, 32, 64}
Register(first) == first .. first + registerSize - 1
RegisterOf(bit) == (bit \div registerSize) * registerSize

Access(op, first) == [op |-> op, window |-> Register(first)]

Accesses(bit, n, aligned) ==
  IF aligned /\ PowerOfTwo(n)
  THEN <<Access("merge", RegisterOf(bit))>>
  ELSE IF ~avx /\ registerSize >= 8 + n
  THEN <<Access("and", (bit \div 8) * 8), Access("or", (bit \div 8) * 8)>>
  ELSE <<Access("merge", RegisterOf(bit)), Access("merge", RegisterOf(bit) + registerSize)>>

Bucket(p, b) == LET bit == p * Stride + b * bits_per_bucket
                IN  bit .. bit + bits_per_bucket - 1

Slot(p, b, i) == LET bit == p * Stride + b * bits_per_bucket + i * k
                 IN  bit .. bit + k - 1

(* Scalar code stores fingerprints of whole bytes directly.                *)
Direct == ~avx /\ optimal_fingerprint_size

Idle == [cells |-> {}, value |-> {}, todo |-> <<>>, loaded |-> FALSE]

StoreInit ==
  /\ layout \in Layouts
  /\ bits = {}
  /\ writing = [p \in Partitions |-> Idle]
  /\ register = [p \in Partitions |-> {}]
  /\ writes = [p \in Partitions |-> 0]
  /\ expected = [p \in Partitions |-> {}]

(* Partition p begins to write value to cells.                             *)
Scatter(p, cells, value, todo) ==
  /\ writing[p] = Idle
  /\ writes[p] < MaxWrites
  /\ writes' = [writes EXCEPT ![p] = @ + 1]
  /\ expected' = [expected EXCEPT ![p] = (@ \ cells) \cup value]
  /\ IF Direct
     THEN /\ bits' = (bits \ cells) \cup value
          /\ UNCHANGED writing
     ELSE /\ writing' = [writing EXCEPT ![p] =
               [cells |-> cells, value |-> value, todo |-> todo, loaded |-> FALSE]]
          /\ UNCHANGED bits
  /\ UNCHANGED <<layout, register>>

First(cells) == CHOOSE c \in cells : \A d \in cells : c <= d

(* Two fingerprints that differ: all bits set, and only the lowest.        *)
FingerprintsIn(cells) == {cells, {First(cells)}}

(* XorContainer::set_fingerprint                                           *)
set_fingerprint(p, b) ==
  /\ layout.of = "xor"
  /\ \E value \in FingerprintsIn(Bucket(p, b)) :
       Scatter(p, Bucket(p, b), value, Accesses(First(Bucket(p, b)), k, TRUE))

(* CuckooContainer::bucket_insert: the first free slot of the bucket is    *)
(* filled and the whole bucket written; vectors write a full one, too.     *)
packed_bucket_insert(p, b) ==
  /\ layout.of = "cuckoo"
  /\ LET free == {i \in 0 .. associativity-1 : bits \cap Slot(p, b, i) = {}}
     IN  /\ free # {} \/ avx
         /\ \E value \in IF free = {} THEN {{}} ELSE FingerprintsIn(Slot(p, b, First(free))) :
              Scatter(p, Bucket(p, b), (bits \cap Bucket(p, b)) \cup value,
                      Accesses(First(Bucket(p, b)), bits_per_bucket, TRUE))

(* CuckooContainer::evict_victim: one slot of a full bucket is written, at  *)
(* an address that need not be a multiple of k.                            *)
packed_evict_victim(p, b) ==
  /\ layout.of = "cuckoo"
  /\ \A i \in 0 .. associativity-1 : bits \cap Slot(p, b, i) # {}
  /\ \E i \in 0 .. associativity-1 : \E value \in FingerprintsIn(Slot(p, b, i)) :
       Scatter(p, Slot(p, b, i), value, Accesses(First(Slot(p, b, i)), k, FALSE))

Gather(p) ==
  /\ writing[p] # Idle
  /\ ~writing[p].loaded
  /\ register' = [register EXCEPT ![p] = bits \cap Head(writing[p].todo).window]
  /\ writing' = [writing EXCEPT ![p].loaded = TRUE]
  /\ UNCHANGED <<layout, bits, writes, expected>>

(* The register goes back as a whole, the bits of the cells replaced, all  *)
(* cleared, or those of the value added.                                   *)
WriteBack(p) ==
  LET w == writing[p]
      op == Head(w.todo).op
      window == Head(w.todo).window
      cleared == IF op = "or" THEN {} ELSE w.cells
      added == IF op = "and" THEN {} ELSE w.value
  IN  /\ w.loaded
      /\ bits' = (bits \ window) \cup (register[p] \ cleared) \cup (added \cap window)
      /\ writing' = [writing EXCEPT ![p] =
           IF Len(w.todo) > 1
           THEN [w EXCEPT !.todo = Tail(@), !.loaded = FALSE]
           ELSE Idle]
      /\ register' = [register EXCEPT ![p] = {}]
      /\ UNCHANGED <<layout, writes, expected>>

StoreNext ==
  \E p \in Partitions :
    \/ \E b \in 0 .. NBuckets-1 :
         set_fingerprint(p, b) \/ packed_bucket_insert(p, b) \/ packed_evict_victim(p, b)
    \/ Gather(p) \/ WriteBack(p)

StoreSpec == StoreInit /\ [][StoreNext]_storeVars

-----------------------------------------------------------------------------
(* Properties. *)

Region(p) == p * Stride .. p * Stride + NBuckets * bits_per_bucket - 1

(* While a partition is not being written, its bits are what its own       *)
(* writes made them: the neighbours' writes of whole registers leave it as *)
(* it is.  The comments of both containers promise it: one extra register  *)
(* between the partitions avoids race-conditions.                          *)
PartitionsKept ==
  \A p \in Partitions : writing[p] = Idle => bits \cap Region(p) = expected[p]
=============================================================================
