---------------------------- MODULE PackedProofs ----------------------------
(***************************************************************************)
(* Proofs about the two ways of storing fingerprints without gaps.         *)
(*                                                                         *)
(* PackedStore, for any number of partitions and writes, and partitions of *)
(* any size: in the layouts with RoomBetween, each partition keeps the     *)
(* bits its own writes gave it (PartitionsKept).  The invariant StoreInv   *)
(* is PartitionsKept with what it rests on.  Between two accesses of a     *)
(* write, the cells it has still to change lie within the registers it has *)
(* still to access, and these reach into no other partition, so that no    *)
(* write of a neighbour is undone by writing back a register that was read *)
(* before.  That they reach into none is arithmetic on the addresses, and  *)
(* the only place where the layouts differ: see AccessesCover.             *)
(*                                                                         *)
(* Morton, for every configuration, number of keys and block size: the     *)
(* blocks hold what their counters count, fingerprints are neither lost    *)
(* nor doubled, and no key is missed by the lookup that skips the second   *)
(* bucket.  The invariant MortonInv has an owner for every fingerprint, a  *)
(* key of the same class, and no key owns two (Matched).  Each step that   *)
(* changes a run is a Replaces: every slot of the new run is filled from a *)
(* slot of the old one of the same bucket, or with the fingerprint in      *)
(* hand, and no slot fills two, so that owners move along with their       *)
(* fingerprints.  That the three ways to shift a run and change two        *)
(* counters are such steps is what the lemmas on runs show.                *)
(***************************************************************************)
EXTENDS PackedStore, Morton, NaturalLemmas, FiniteSetTheorems, SequenceTheorems, TLAPS

Width == NBuckets * bits_per_bucket   \* the bits of a partition

(* The layouts that keep the partitions apart: nothing but the cells is    *)
(* written; a whole register follows each partition; the fingerprints are  *)
(* so wide that the pad of a xor filter is as long as what a write reaches *)
(* over, which is less where registers may begin at any byte; or each      *)
(* partition is whole registers.                                           *)
RoomBetween ==
  \/ Direct
  \/ /\ layout.of = "cuckoo" /\ ~optimal_fingerprint_size
  \/ /\ layout.of = "xor" /\ ~optimal_fingerprint_size
     /\ k * (registerSize \div 8 + 1) >= 2 * registerSize
  \/ /\ layout.of = "xor" /\ ~optimal_fingerprint_size
     /\ ~avx /\ registerSize >= 8 + k /\ ~PowerOfTwo(k)
     /\ k * (registerSize \div 8 + 1) >= registerSize
  \/ /\ layout.of = "xor" /\ optimal_fingerprint_size
     /\ Width % registerSize = 0

(* One access, or two: of two registers, or of the same one twice.         *)
Step == [op : {"merge", "and", "or"}, window : SUBSET Nat]
Merges(todo) == \A m \in DOMAIN todo : todo[m].op = "merge"
Twice(cells, todo) ==
  /\ Len(todo) = 2
  /\ todo[1].op = "and" /\ todo[2].op = "or"
  /\ todo[1].window = todo[2].window /\ cells \subseteq todo[1].window

(* The registers in todo cover the cells, and reach into no partition but p. *)
Covered(todo) == UNION {todo[m].window : m \in DOMAIN todo}
Covers(p, cells, todo) ==
  /\ todo \in Seq(Step) /\ Len(todo) \in {1, 2}
  /\ Merges(todo) \/ Twice(cells, todo)
  /\ cells \subseteq Covered(todo)
  /\ \A q \in Partitions \ {p} : Covered(todo) \cap Region(q) = {}

Writes == [cells : SUBSET Nat, value : SUBSET Nat, todo : Seq(Step), loaded : BOOLEAN]

TypeInv ==
  /\ layout \in Layouts
  /\ bits \in SUBSET Nat
  /\ writing \in [Partitions -> Writes]
  /\ register \in [Partitions -> SUBSET Nat]
  /\ writes \in [Partitions -> Nat]
  /\ expected \in [Partitions -> SUBSET Nat]

(* A write in progress: its cells are in its own partition, the registers  *)
(* it has still to write reach into no other, and outside those registers  *)
(* and the cells the array is what the partition means it to be.  Before   *)
(* its bits are added with |= the cells are empty.                         *)
WriteInv(p, w) ==
  /\ w.cells \subseteq Region(p) /\ w.value \subseteq w.cells
  /\ Len(w.todo) \in {1, 2}
  /\ \/ Merges(w.todo)
     \/ Twice(w.cells, w.todo)
     \/ Len(w.todo) = 1 /\ w.todo[1].op = "or" /\ bits \cap w.cells = {}
  /\ \A q \in Partitions \ {p} : Covered(w.todo) \cap Region(q) = {}
  /\ expected[p] \subseteq Region(p)
  /\ expected[p] \cap w.cells = w.value
  /\ bits \cap (Region(p) \ w.cells) = expected[p] \ w.cells
  /\ bits \cap (w.cells \ Covered(w.todo)) = w.value \ Covered(w.todo)
  /\ w.loaded =>
       /\ register[p] \subseteq Head(w.todo).window
       /\ register[p] \cap Region(p) = bits \cap Head(w.todo).window \cap Region(p)

KeptInv(p) ==
  /\ writing[p] = Idle => bits \cap Region(p) = expected[p]
  /\ writing[p] # Idle => WriteInv(p, writing[p])

StoreInv == TypeInv /\ RoomBetween /\ \A p \in Partitions : KeptInv(p)

-----------------------------------------------------------------------------
(* The layouts. *)

(* What LayoutAssumption says of the layout of the array.                  *)
LEMMA LayoutFacts ==
  ASSUME layout \in Layouts
  PROVE  /\ registerSize \in {32, 64} /\ avx \in BOOLEAN /\ layout.of \in {"xor", "cuckoo"}
         /\ k \in 1..64 /\ associativity \in 1..64 /\ NBuckets \in Nat \ {0}
         /\ bits_per_bucket = k * associativity /\ bits_per_bucket \in 1 .. registerSize
         /\ layout.of = "xor" => bits_per_bucket = k
         /\ k <= bits_per_bucket
<1>1. /\ layout \in LayoutFields
      /\ layout.of = "xor" => layout.associativity = 1
      /\ layout.k * layout.associativity <= layout.registerSize
  BY LayoutAssumption
<1>2. /\ registerSize \in {32, 64} /\ avx \in BOOLEAN /\ layout.of \in {"xor", "cuckoo"}
      /\ k \in 1..64 /\ associativity \in 1..64 /\ NBuckets \in Nat \ {0}
      /\ layout.of = "xor" => associativity = 1
      /\ k * associativity <= registerSize
  BY <1>1 DEF LayoutFields, registerSize, avx, k, associativity, NBuckets
<1>3. PICK m : m = k * associativity
  OBVIOUS
<1>4. m \in Nat /\ k <= m
  <2>1. PICK c \in Nat : associativity = 1 + c
    <3>1. associativity - 1 \in Nat /\ associativity = 1 + (associativity - 1)
      BY <1>2
    <3>2. QED
      BY <3>1
  <2>2. m = k + k * c /\ k * c \in Nat
    BY <1>2, <1>3, <2>1
  <2>3. QED
    BY <1>2, <2>2
<1>5. associativity = 1 => m = k
  BY <1>2, <1>3
<1>6. QED
  BY <1>2, <1>3, <1>4, <1>5 DEF bits_per_bucket

(* Rounding up to a multiple.                                              *)
LEMMA AlignedUp ==
  ASSUME NEW v \in Nat, NEW a \in Nat \ {0}
  PROVE  \E q \in Nat : /\ align_number(v, a) = a * q
                        /\ v <= a * q /\ a * q < v + a
<1>1. PICK q : q = (v + a - 1) \div a
  OBVIOUS
<1>2. PICK u \in Nat : u = v + a - 1
  OBVIOUS
<1>3. q = u \div a
  BY <1>1, <1>2
<1>4. q \in Nat /\ a * q <= u /\ u < a * q + a
  BY <1>3, Division
<1>5. a * q \in Nat /\ q * a = a * q
  BY <1>4, MultiplesApart
<1>6. align_number(v, a) = a * q
  BY <1>1, <1>5 DEF align_number
<1>7. QED
  BY <1>2, <1>4, <1>5, <1>6

(* The stride is at least the width of a partition.                        *)
LEMMA StrideFacts ==
  ASSUME layout \in Layouts
  PROVE  /\ Width \in Nat /\ Stride \in Nat /\ Width <= Stride
         /\ layout.of = "xor" /\ ~optimal_fingerprint_size =>
              Stride = Width + (registerSize \div 8) * k
         /\ layout.of = "xor" /\ optimal_fingerprint_size => Stride = Width
         /\ layout.of = "cuckoo" /\ ~optimal_fingerprint_size =>
              \E s \in Nat : Stride = registerSize * s /\ Width + registerSize <= Stride
                             /\ s # 0 /\ Width <= registerSize * (s-1)
         /\ layout.of = "xor" => \E s \in Nat : Stride = k * s
<1>1. /\ registerSize \in {32, 64} /\ layout.of \in {"xor", "cuckoo"}
      /\ k \in 1..64 /\ NBuckets \in Nat \ {0} /\ bits_per_bucket \in 1 .. registerSize
      /\ layout.of = "xor" => bits_per_bucket = k
  BY LayoutFacts
<1>2. Width \in Nat /\ Width = NBuckets * bits_per_bucket
  BY <1>1 DEF Width
<1>3. CASE layout.of = "xor"
  <2>1. PICK d : d = IF optimal_fingerprint_size THEN 0 ELSE registerSize \div 8
    OBVIOUS
  <2>2. d \in Nat
    BY <1>1, <2>1
  <2>3. Stride = (NBuckets + d) * k
    BY <1>3, <2>1 DEF Stride, XorStride
  <2>4. /\ (NBuckets + d) * k = NBuckets * k + d * k /\ (NBuckets + d) * k = k * (NBuckets + d)
        /\ d * k \in Nat /\ NBuckets + d \in Nat
    BY <1>1, <2>2
  <2>5. Stride = Width + d * k
    BY <1>1, <1>2, <1>3, <2>3, <2>4
  <2>6. d = 0 => d * k = 0
    BY <1>1
  <2>7. QED
    BY <1>2, <1>3, <2>1, <2>3, <2>4, <2>5, <2>6
<1>4. CASE layout.of = "cuckoo"
  <2>1. PICK q \in Nat : /\ align_number(Width, registerSize) = registerSize * q
                         /\ Width <= registerSize * q
    <3>1. registerSize \in Nat \ {0} /\ Width \in Nat
      BY <1>1, <1>2
    <3>2. QED
      BY <3>1, AlignedUp
  <2>2. Stride = registerSize * q + (IF optimal_fingerprint_size THEN 0 ELSE registerSize)
    BY <1>4, <2>1 DEF Stride, CuckooStride, Width
  <2>3. registerSize * q \in Nat /\ registerSize * (q+1) = registerSize * q + registerSize
    BY <1>1, <2>1
  <2>4. Stride \in Nat /\ Width <= Stride
    BY <1>1, <1>2, <2>1, <2>2, <2>3
  <2>5. ASSUME ~optimal_fingerprint_size
        PROVE  \E s \in Nat : Stride = registerSize * s /\ Width + registerSize <= Stride
                              /\ s # 0 /\ Width <= registerSize * (s-1)
    <3>1. Stride = registerSize * (q+1) /\ Width + registerSize <= Stride
      BY <1>1, <1>2, <2>1, <2>2, <2>3, <2>5
    <3>2. q+1 \in Nat /\ q+1 # 0 /\ (q+1)-1 = q
      BY <2>1
    <3>3. QED
      BY <2>1, <3>1, <3>2
  <2>6. QED
    BY <1>2, <1>4, <2>4, <2>5
<1>5. QED
  BY <1>1, <1>3, <1>4

(* A stretch of bits meets no partition but p if it begins after the end   *)
(* of the partition below and ends before the begin of the one above.      *)
LEMMA Fits ==
  ASSUME layout \in Layouts, NEW p \in Partitions, NEW lo \in Nat, NEW hi \in Int,
         p * Stride + Width <= lo + Stride, hi < p * Stride + Stride,
         NEW q \in Partitions \ {p}
  PROVE  (lo .. hi) \cap Region(q) = {}
<1>1. p \in Nat /\ q \in Nat
  BY SizeAssumption DEF Partitions
<1>2. Stride \in Nat /\ Width \in Nat
  BY StrideFacts
<1>3. p * Stride \in Nat /\ q * Stride \in Nat
  BY <1>1, <1>2
<1>4. Region(q) = q * Stride .. q * Stride + Width - 1
  BY DEF Region, Width
<1>5. CASE q < p
  <2>1. PICK d \in Nat : p = q + 1 + d
    <3>1. p - q - 1 \in Nat /\ p = q + 1 + (p - q - 1)
      BY <1>1, <1>5
    <3>2. QED
      BY <3>1
  <2>2. p * Stride = q * Stride + Stride + d * Stride /\ d * Stride \in Nat
    BY <1>1, <1>2, <2>1
  <2>3. q * Stride + Width <= lo
    BY <1>2, <1>3, <2>2
  <2>4. PICK x, y : x = q * Stride /\ y = Width
    OBVIOUS
  <2>5. x \in Nat /\ y \in Nat /\ x + y <= lo /\ Region(q) = x .. x + y - 1
    BY <1>2, <1>3, <1>4, <2>3, <2>4
  <2>6. QED
    BY <2>5
<1>6. CASE p < q
  <2>1. PICK d \in Nat : q = p + 1 + d
    <3>1. q - p - 1 \in Nat /\ q = p + 1 + (q - p - 1)
      BY <1>1, <1>6
    <3>2. QED
      BY <3>1
  <2>2. q * Stride = p * Stride + Stride + d * Stride /\ d * Stride \in Nat
    BY <1>1, <1>2, <2>1
  <2>3. hi < q * Stride
    BY <1>2, <1>3, <2>2
  <2>4. PICK x, y : x = q * Stride /\ y = Width
    OBVIOUS
  <2>5. x \in Nat /\ y \in Nat /\ hi < x /\ Region(q) = x .. x + y - 1
    BY <1>2, <1>3, <1>4, <2>3, <2>4
  <2>6. QED
    BY <2>5
<1>7. QED
  BY <1>1, <1>5, <1>6

-----------------------------------------------------------------------------
(* The registers a write accesses. *)

(* n bits at bit, in partition p, as the containers write them: a whole    *)
(* bucket, or in a cuckoo filter one fingerprint of it.                    *)
WholeBucket(p, bit, n) ==
  /\ n = bits_per_bucket
  /\ \E b \in 0 .. NBuckets-1 : bit = p * Stride + b * bits_per_bucket
OneSlot(p, bit, n) ==
  /\ layout.of = "cuckoo" /\ n = k /\ bit \in Nat
  /\ p * Stride <= bit /\ bit + n <= p * Stride + Width

(* A bucket is within its partition.                                       *)
LEMMA BucketInRegion ==
  ASSUME layout \in Layouts, NEW p \in Partitions, NEW bit, NEW n, WholeBucket(p, bit, n)
  PROVE  bit \in Nat /\ p * Stride <= bit /\ bit + n <= p * Stride + Width
<1>1. PICK b \in 0 .. NBuckets-1 : bit = p * Stride + b * bits_per_bucket
  BY DEF WholeBucket
<1>2. /\ NBuckets \in Nat \ {0} /\ bits_per_bucket \in Nat \ {0} /\ n = bits_per_bucket
      /\ b \in Nat /\ b < NBuckets
  BY LayoutFacts DEF WholeBucket
<1>3. /\ bits_per_bucket * b \in Nat
      /\ bits_per_bucket * b + bits_per_bucket <= bits_per_bucket * NBuckets
  BY <1>2, MultiplesApart
<1>4. /\ b * bits_per_bucket = bits_per_bucket * b
      /\ Width = bits_per_bucket * NBuckets
  BY <1>2 DEF Width
<1>5. p \in Nat /\ Stride \in Nat /\ p * Stride \in Nat
  <2>1. p \in Nat /\ Stride \in Nat
    BY SizeAssumption, StrideFacts DEF Partitions
  <2>2. QED
    BY <2>1
<1>6. QED
  BY <1>1, <1>2, <1>3, <1>4, <1>5

(* Sequences of one register, and of two.                                  *)
LEMMA Singles ==
  ASSUME NEW T, NEW r \in T
  PROVE  <<r>> \in Seq(T) /\ Len(<<r>>) = 1 /\ DOMAIN <<r>> = {1} /\ <<r>>[1] = r
OBVIOUS

(* A pair of registers, as a sequence.                                     *)
LEMMA Pairs ==
  ASSUME NEW T, NEW r \in T, NEW s \in T
  PROVE  /\ <<r, s>> \in Seq(T) /\ Len(<<r, s>>) = 2
         /\ DOMAIN <<r, s>> = {1, 2} /\ <<r, s>>[1] = r /\ <<r, s>>[2] = s
OBVIOUS

(* Registers, one after another from lo on, that cover the cells and reach *)
(* into no other partition.                                                *)
LEMMA OneRegisterCovers ==
  ASSUME layout \in Layouts, NEW p \in Partitions, NEW lo \in Nat, NEW bit \in Nat, NEW n \in Nat,
         p * Stride + Width <= lo + Stride, lo + registerSize <= p * Stride + Stride,
         lo <= bit, bit + n <= lo + registerSize
  PROVE  /\ Covers(p, bit .. bit + n - 1, <<Access("merge", lo)>>)
         /\ Covers(p, bit .. bit + n - 1, <<Access("and", lo), Access("or", lo)>>)
<1>1. registerSize \in Nat /\ p * Stride \in Int /\ Stride \in Nat
  <2>1. p \in Nat /\ Stride \in Nat /\ registerSize \in Nat
    BY SizeAssumption, StrideFacts, LayoutFacts DEF Partitions
  <2>2. QED
    BY <2>1
<1>2. PICK r : r = Register(lo)
  OBVIOUS
<1>3. r = lo .. lo + registerSize - 1 /\ r \in SUBSET Nat
  BY <1>1, <1>2 DEF Register
<1>4. PICK t : t = <<Access("merge", lo)>>
  OBVIOUS
<1>5. t \in Seq(Step) /\ Len(t) = 1 /\ Covered(t) = r /\ Merges(t)
  <2>1. Access("merge", lo) \in Step /\ Access("merge", lo).window = r
        /\ Access("merge", lo).op = "merge"
    BY <1>2, <1>3 DEF Access, Step
  <2>2. t \in Seq(Step) /\ Len(t) = 1 /\ DOMAIN t = {1} /\ t[1] = Access("merge", lo)
    BY <1>4, <2>1, Singles
  <2>3. QED
    BY <2>1, <2>2 DEF Covered, Merges
<1>6. PICK u : u = <<Access("and", lo), Access("or", lo)>>
  OBVIOUS
<1>7. /\ u \in Seq(Step) /\ Len(u) = 2 /\ Covered(u) = r
       /\ u[1].op = "and" /\ u[2].op = "or" /\ u[1].window = r /\ u[2].window = r
  <2>1. /\ Access("and", lo) \in Step /\ Access("and", lo).window = r
        /\ Access("or", lo) \in Step /\ Access("or", lo).window = r
        /\ Access("and", lo).op = "and" /\ Access("or", lo).op = "or"
    BY <1>2, <1>3 DEF Access, Step
  <2>2. /\ u \in Seq(Step) /\ Len(u) = 2 /\ DOMAIN u = {1, 2}
        /\ u[1] = Access("and", lo) /\ u[2] = Access("or", lo)
    BY <1>6, <2>1, Pairs
  <2>3. QED
    BY <2>1, <2>2 DEF Covered
<1>8. bit .. bit + n - 1 \subseteq r
  BY <1>1, <1>3
<1>9. \A q \in Partitions \ {p} : r \cap Region(q) = {}
  <2>1. PICK hi : hi = lo + registerSize - 1
    OBVIOUS
  <2>2. hi \in Int /\ hi < p * Stride + Stride
    BY <1>1, <2>1
  <2>3. QED
    BY <1>3, <2>1, <2>2, Fits
<1>10. QED
  BY <1>4, <1>8, <1>9, <1>5, <1>6, <1>7 DEF Covers, Twice

(* And so do two registers of which the first reads the begin of the cells *)
(* and the second their end.                                               *)
LEMMA TwoRegistersCover ==
  ASSUME layout \in Layouts, NEW p \in Partitions, NEW lo \in Nat, NEW bit \in Nat, NEW n \in Nat,
         p * Stride + Width <= lo + Stride, lo + 2 * registerSize <= p * Stride + Stride,
         lo <= bit, bit + n <= lo + 2 * registerSize
  PROVE  Covers(p, bit .. bit + n - 1, <<Access("merge", lo), Access("merge", lo + registerSize)>>)
<1>1. registerSize \in Nat /\ p * Stride \in Int /\ Stride \in Nat
  <2>1. p \in Nat /\ Stride \in Nat /\ registerSize \in Nat
    BY SizeAssumption, StrideFacts, LayoutFacts DEF Partitions
  <2>2. QED
    BY <2>1
<1>2. PICK r, s : r = Register(lo) /\ s = Register(lo + registerSize)
  OBVIOUS
<1>3. /\ r = lo .. lo + registerSize - 1 /\ r \in SUBSET Nat
      /\ s = lo + registerSize .. lo + registerSize + registerSize - 1 /\ s \in SUBSET Nat
  BY <1>1, <1>2 DEF Register
<1>4. r \cup s = lo .. lo + 2 * registerSize - 1
  BY <1>1, <1>3
<1>5. PICK x, y : x = Access("merge", lo) /\ y = Access("merge", lo + registerSize)
  OBVIOUS
<1>6. PICK t : t = <<x, y>>
  OBVIOUS
<1>7. t \in Seq(Step) /\ Len(t) = 2 /\ Covered(t) = r \cup s /\ Merges(t)
  <2>1. /\ x \in Step /\ x.window = r /\ x.op = "merge"
        /\ y \in Step /\ y.window = s /\ y.op = "merge"
    BY <1>2, <1>3, <1>5 DEF Access, Step
  <2>2. t \in Seq(Step) /\ Len(t) = 2 /\ DOMAIN t = {1, 2} /\ t[1] = x /\ t[2] = y
    BY <1>6, <2>1, Pairs
  <2>3. QED
    BY <2>1, <2>2 DEF Covered, Merges
<1>8. bit .. bit + n - 1 \subseteq r \cup s
  BY <1>1, <1>4
<1>9. \A q \in Partitions \ {p} : (r \cup s) \cap Region(q) = {}
  <2>1. PICK hi : hi = lo + 2 * registerSize - 1
    OBVIOUS
  <2>2. hi \in Int /\ hi < p * Stride + Stride
    BY <1>1, <2>1
  <2>3. QED
    BY <1>4, <2>1, <2>2, Fits
<1>10. QED
  BY <1>5, <1>8, <1>9, <1>6, <1>7 DEF Covers

(* A bucket whose number of bits is a power of two begins at a multiple of *)
(* it, wherever whole registers are accessed.                              *)
LEMMA BucketAligned ==
  ASSUME layout \in Layouts, NEW p \in Partitions, NEW bit, NEW n, WholeBucket(p, bit, n),
         layout.of = "xor" \/ (~optimal_fingerprint_size /\ PowerOfTwo(n))
  PROVE  \E y \in Nat : bit = n * y
<1>1. PICK b \in 0 .. NBuckets-1 : bit = p * Stride + b * n
  BY DEF WholeBucket
<1>2. /\ NBuckets \in Nat \ {0} /\ n \in Nat \ {0} /\ n <= registerSize
      /\ registerSize \in {32, 64} /\ layout.of \in {"xor", "cuckoo"} /\ b \in Nat
      /\ layout.of = "xor" => n = k
  BY LayoutFacts DEF WholeBucket
<1>3. p \in Nat
  BY SizeAssumption DEF Partitions
<1>4. PICK s \in Nat : Stride = n * s
  <2>1. CASE layout.of = "xor"
    BY <1>2, <2>1, StrideFacts
  <2>2. CASE layout.of # "xor"
    <3>1. PICK s \in Nat : Stride = registerSize * s
      BY <1>2, <2>2, StrideFacts
    <3>2. PICK r \in Nat : registerSize = n * r
      BY <1>2, <2>2 DEF PowerOfTwo
    <3>3. n * (r * s) = registerSize * s /\ r * s \in Nat
      BY <1>2, <3>1, <3>2
    <3>4. QED
      BY <3>1, <3>3
  <2>3. QED
    BY <2>1, <2>2
<1>5. bit = n * (p * s + b) /\ p * s + b \in Nat
  <2>1. p * (n * s) = n * (p * s) /\ b * n = n * b /\ n * (p * s + b) = n * (p * s) + n * b
        /\ p * s \in Nat
    BY <1>2, <1>3, <1>4
  <2>2. QED
    BY <1>1, <1>2, <1>4, <2>1
<1>6. QED
  BY <1>5

(* Whatever a write accesses - the cells alone, one register, or two where *)
(* the cells cross the end of a register - covers its cells and reaches    *)
(* into no other partition, in every layout with RoomBetween.              *)
LEMMA AccessesCover ==
  ASSUME layout \in Layouts, RoomBetween, ~Direct, NEW p \in Partitions,
         NEW bit, NEW n, NEW aligned \in BOOLEAN,
         IF aligned THEN WholeBucket(p, bit, n) ELSE OneSlot(p, bit, n)
  PROVE  Covers(p, bit .. bit + n - 1, Accesses(bit, n, aligned))
<1>1. /\ registerSize \in {32, 64} /\ avx \in BOOLEAN /\ layout.of \in {"xor", "cuckoo"}
      /\ k \in 1..64 /\ k <= registerSize
      /\ layout.of = "xor" => bits_per_bucket = k
      /\ Stride \in Nat /\ Width \in Nat /\ Width <= Stride /\ p \in Nat
  <2>1. p \in Nat
    BY SizeAssumption DEF Partitions
  <2>2. k <= bits_per_bucket /\ bits_per_bucket <= registerSize
    BY LayoutFacts
  <2>3. QED
    BY <2>1, <2>2, LayoutFacts, StrideFacts
<1>2. PICK B : B = p * Stride
  OBVIOUS
<1>3. B \in Nat
  BY <1>1, <1>2
<1>4. /\ bit \in Nat /\ B <= bit /\ bit + n <= B + Width
      /\ n \in Nat /\ 1 <= n /\ n <= registerSize
      /\ layout.of = "xor" => n = k /\ aligned
  <2>1. CASE aligned
    <3>1. n = bits_per_bucket /\ bits_per_bucket \in 1 .. registerSize
      BY <2>1, LayoutFacts DEF WholeBucket
    <3>2. QED
      BY <1>1, <1>2, <2>1, <3>1, BucketInRegion
  <2>2. CASE ~aligned
    BY <1>1, <1>2, <2>2 DEF OneSlot
  <2>3. QED
    BY <2>1, <2>2
<1>5. PICK d \in Nat : d = bit \div registerSize
  <2>1. registerSize \in Nat \ {0} /\ bit \in Nat
    BY <1>1, <1>4
  <2>2. QED
    BY <2>1, Division
<1>6. PICK lo \in Nat : lo = registerSize * d
  BY <1>1, <1>5
<1>7. RegisterOf(bit) = lo /\ lo <= bit /\ bit < lo + registerSize
  <2>1. registerSize * d <= bit /\ bit < registerSize * d + registerSize
    BY <1>1, <1>4, <1>5, Division
  <2>2. d * registerSize = registerSize * d
    BY <1>1, <1>5
  <2>3. QED
    BY <1>5, <1>6, <2>1, <2>2 DEF RegisterOf
<1>8. PICK lo8 \in Nat : lo8 = (bit \div 8) * 8
  BY <1>4
<1>9. lo8 <= bit /\ bit < lo8 + 8
  BY <1>4, <1>8
<1>10. /\ PowerOfTwo(n) /\ aligned =>
            /\ Accesses(bit, n, aligned) = <<Access("merge", lo)>>
            /\ B + Width <= lo + Stride /\ lo + registerSize <= B + Stride
            /\ bit + n <= lo + registerSize
       /\ ~(PowerOfTwo(n) /\ aligned) /\ ~avx /\ registerSize >= 8 + n =>
            /\ Accesses(bit, n, aligned) = <<Access("and", lo8), Access("or", lo8)>>
            /\ B + Width <= lo8 + Stride /\ lo8 + registerSize <= B + Stride
            /\ bit + n <= lo8 + registerSize
       /\ ~(PowerOfTwo(n) /\ aligned) /\ ~(~avx /\ registerSize >= 8 + n) =>
            /\ Accesses(bit, n, aligned) =
                 <<Access("merge", lo), Access("merge", lo + registerSize)>>
            /\ B + Width <= lo + Stride /\ lo + 2 * registerSize <= B + Stride
            /\ bit + n <= lo + 2 * registerSize
  <2>1. /\ PowerOfTwo(n) /\ aligned => Accesses(bit, n, aligned) = <<Access("merge", lo)>>
        /\ ~(PowerOfTwo(n) /\ aligned) /\ ~avx /\ registerSize >= 8 + n =>
             Accesses(bit, n, aligned) = <<Access("and", lo8), Access("or", lo8)>>
        /\ ~(PowerOfTwo(n) /\ aligned) /\ ~(~avx /\ registerSize >= 8 + n) =>
             Accesses(bit, n, aligned) =
               <<Access("merge", lo), Access("merge", lo + registerSize)>>
    BY <1>7, <1>8 DEF Accesses
  <2>2. ASSUME PowerOfTwo(n), aligned
        PROVE  bit + n <= lo + registerSize
    <3>1. layout.of = "xor" \/ (~optimal_fingerprint_size /\ PowerOfTwo(n))
      BY <1>1, <2>2 DEF RoomBetween
    <3>2. PICK y \in Nat : bit = n * y
      BY <2>2, <3>1, BucketAligned
    <3>3. n * y < registerSize * d + registerSize
      BY <1>6, <1>7, <3>2
    <3>4. registerSize \in {32, 64} /\ n \in Nat /\ n <= registerSize
      BY <1>1, <1>4
    <3>5. PICK r \in Nat : registerSize = n * r
      BY <2>2, <3>4 DEF PowerOfTwo
    <3>6. PICK u \in Nat : u = r * d + r
      BY <1>5, <3>5
    <3>7. n * u = registerSize * d + registerSize
      <4>1. n * (r * d + r) = (n * r) * d + n * r
        BY <1>5, <3>4, <3>5
      <4>2. QED
        BY <3>5, <3>6, <4>1
    <3>8. n \in Nat \ {0} /\ n * y < n * u
      BY <1>4, <3>3, <3>7
    <3>9. n * y + n <= n * u
      BY <3>2, <3>6, <3>8, MultiplesApart
    <3>10. QED
      BY <1>6, <3>2, <3>7, <3>9
  <2>3. bit + n <= lo + 2 * registerSize /\ (registerSize >= 8 + n => bit + n <= lo8 + registerSize)
    BY <1>1, <1>4, <1>7, <1>9
  <2>4. CASE layout.of = "cuckoo" /\ ~optimal_fingerprint_size
    <3>1. PICK s \in Nat : /\ Stride = registerSize * s /\ Width + registerSize <= Stride
                           /\ s # 0 /\ Width <= registerSize * (s-1)
      BY <2>4, StrideFacts
    <3>2. PICK c \in Nat : s = c + 1
      <4>1. s - 1 \in Nat /\ s = (s - 1) + 1
        BY <3>1
      <4>2. QED
        BY <4>1
    <3>3. PICK e \in Nat : e = p * s
      BY <1>1, <3>1
    <3>4. B = registerSize * e
      <4>1. p * (registerSize * s) = registerSize * (p * s)
        BY <1>1, <3>1
      <4>2. QED
        BY <1>2, <3>1, <3>3, <4>1
    <3>5. /\ registerSize * (e + c) = B + registerSize * c /\ registerSize * c \in Nat
          /\ Stride = registerSize * c + registerSize
          /\ Width <= registerSize * c
      BY <1>1, <3>1, <3>2, <3>3, <3>4
    <3>6. ~ (d < e)
      <4>1. d < e => registerSize * d + registerSize <= registerSize * e
        BY <1>1, <1>5, <3>3, MultiplesApart
      <4>2. QED
        BY <1>1, <1>3, <1>4, <1>6, <1>7, <3>4, <4>1
    <3>7. B <= lo
      <4>1. e <= d
        BY <1>5, <3>3, <3>6
      <4>2. e = d \/ registerSize * e + registerSize <= registerSize * d
        BY <1>1, <1>5, <3>3, <4>1, MultiplesApart
      <4>3. QED
        BY <1>1, <1>3, <1>6, <3>4, <4>2
    <3>8. lo + registerSize <= B + registerSize * c
      <4>1. registerSize * d < registerSize * (e + c)
        BY <1>1, <1>3, <1>4, <1>6, <1>7, <3>5
      <4>2. registerSize * d + registerSize <= registerSize * (e + c)
        BY <1>1, <1>5, <3>2, <3>3, <4>1, MultiplesApart
      <4>3. QED
        BY <1>6, <3>5, <4>2
    <3>9. B <= lo8
      <4>1. PICK x \in Nat : B = 8 * x
        <5>1. CASE registerSize = 32
          <6>1. B = 8 * (4 * e) /\ 4 * e \in Nat
            BY <3>3, <3>4, <5>1
          <6>2. QED
            BY <6>1
        <5>2. CASE registerSize = 64
          <6>1. B = 8 * (8 * e) /\ 8 * e \in Nat
            BY <3>3, <3>4, <5>2
          <6>2. QED
            BY <6>1
        <5>3. QED
          BY <1>1, <5>1, <5>2
      <4>2. QED
        BY <1>4, <1>8, <4>1
    <3>10. /\ B + Width <= lo + Stride /\ lo + 2 * registerSize <= B + Stride
           /\ B + Width <= lo8 + Stride /\ lo8 + registerSize <= B + Stride
      BY <1>1, <1>3, <1>4, <1>9, <3>1, <3>5, <3>7, <3>8, <3>9
    <3>11. lo + registerSize <= B + Stride
      BY <1>1, <1>3, <3>10
    <3>12. QED
      BY <2>1, <2>2, <2>3, <3>10, <3>11
  <2>5. ASSUME layout.of = "xor", ~optimal_fingerprint_size
        PROVE  \E g \in Nat : /\ Stride = Width + g
                              /\ k * (registerSize \div 8 + 1) = g + k
    <3>1. PICK t \in Nat : t = registerSize \div 8
      BY <1>1
    <3>2. t * k \in Nat /\ k * (t + 1) = t * k + k
      BY <1>1, <3>1
    <3>3. Stride = Width + t * k
      BY <2>5, <3>1, StrideFacts
    <3>4. QED
      BY <3>1, <3>2, <3>3
  <2>6. CASE /\ layout.of = "xor" /\ ~optimal_fingerprint_size
             /\ k * (registerSize \div 8 + 1) >= 2 * registerSize
    <3>1. PICK g \in Nat : Stride = Width + g /\ g + k >= 2 * registerSize
      BY <2>5, <2>6
    <3>2. /\ B + Width <= lo + Stride /\ lo + 2 * registerSize <= B + Stride
          /\ B + Width <= lo8 + Stride /\ lo8 + registerSize <= B + Stride
          /\ lo + registerSize <= B + Stride
      BY <1>1, <1>3, <1>4, <1>7, <1>9, <2>6, <3>1
    <3>3. QED
      BY <2>1, <2>2, <2>3, <3>2
  <2>7. CASE /\ layout.of = "xor" /\ ~optimal_fingerprint_size
             /\ ~avx /\ registerSize >= 8 + k /\ ~PowerOfTwo(k)
             /\ k * (registerSize \div 8 + 1) >= registerSize
    <3>1. PICK g \in Nat : Stride = Width + g /\ g + k >= registerSize
      BY <2>5, <2>7
    <3>2. B + Width <= lo8 + Stride /\ lo8 + registerSize <= B + Stride
      BY <1>1, <1>3, <1>4, <1>9, <2>7, <3>1
    <3>3. QED
      BY <1>4, <2>1, <2>3, <2>7, <3>2
  <2>8. CASE layout.of = "xor" /\ optimal_fingerprint_size /\ Width % registerSize = 0
    <3>1. Stride = Width /\ PowerOfTwo(n) /\ aligned
      BY <1>1, <1>4, <2>8, StrideFacts DEF optimal_fingerprint_size, PowerOfTwo
    <3>2. PICK w \in Nat : Width = registerSize * w
      BY <1>1, <2>8, Multiple
    <3>3. PICK e \in Nat : e = p * w
      BY <1>1, <3>2
    <3>4. B = registerSize * e
      <4>1. p * (registerSize * w) = registerSize * (p * w)
        BY <1>1, <3>2
      <4>2. QED
        BY <1>2, <3>1, <3>2, <3>3, <4>1
    <3>5. B + Width = registerSize * (e + w)
      BY <1>1, <3>2, <3>3, <3>4
    <3>6. ~ (d < e)
      <4>1. d < e => registerSize * d + registerSize <= registerSize * e
        BY <1>1, <1>5, <3>3, MultiplesApart
      <4>2. QED
        BY <1>1, <1>3, <1>4, <1>6, <1>7, <3>4, <4>1
    <3>7. B <= lo
      <4>1. e = d \/ registerSize * e + registerSize <= registerSize * d
        BY <1>1, <1>5, <3>3, <3>6, MultiplesApart
      <4>2. QED
        BY <1>1, <1>3, <1>6, <3>4, <4>1
    <3>8. lo + registerSize <= B + Width
      <4>1. registerSize * d < registerSize * (e + w)
        BY <1>1, <1>3, <1>4, <1>6, <1>7, <3>5
      <4>2. registerSize * d + registerSize <= registerSize * (e + w)
        BY <1>1, <1>5, <3>2, <3>3, <4>1, MultiplesApart
      <4>3. QED
        BY <1>6, <3>5, <4>2
    <3>9. B + Width <= lo + Stride /\ lo + registerSize <= B + Stride
      BY <1>1, <1>3, <3>1, <3>7, <3>8
    <3>10. QED
      BY <2>1, <2>2, <3>1, <3>9
  <2>9. QED
    BY <2>4, <2>6, <2>7, <2>8 DEF RoomBetween
<1>11. CASE PowerOfTwo(n) /\ aligned
  BY <1>2, <1>4, <1>7, <1>10, <1>11, OneRegisterCovers
<1>12. CASE ~(PowerOfTwo(n) /\ aligned) /\ ~avx /\ registerSize >= 8 + n
  BY <1>2, <1>4, <1>9, <1>10, <1>12, OneRegisterCovers
<1>13. CASE ~(PowerOfTwo(n) /\ aligned) /\ ~(~avx /\ registerSize >= 8 + n)
  BY <1>2, <1>4, <1>7, <1>10, <1>13, TwoRegistersCover
<1>14. QED
  BY <1>11, <1>12, <1>13

-----------------------------------------------------------------------------
(* The writes. *)

(* The layout never changes.                                               *)
LEMMA LayoutStays ==
  ASSUME layout' = layout
  PROVE  /\ RoomBetween' <=> RoomBetween
         /\ \A p : Region(p)' = Region(p)
<1>1. /\ registerSize' = registerSize /\ avx' = avx /\ k' = k
      /\ associativity' = associativity /\ NBuckets' = NBuckets
  BY DEF registerSize, avx, k, associativity, NBuckets
<1>2. /\ bits_per_bucket' = bits_per_bucket
      /\ optimal_fingerprint_size' <=> optimal_fingerprint_size
  BY <1>1 DEF bits_per_bucket, optimal_fingerprint_size
<1>3. XorStride' = XorStride /\ CuckooStride' = CuckooStride /\ Width' = Width /\ (Direct' <=> Direct)
  BY <1>1, <1>2 DEF XorStride, CuckooStride, Width, Direct, align_number
<1>4. Stride' = Stride
  BY <1>3 DEF Stride
<1>5. QED
  BY <1>1, <1>2, <1>3, <1>4 DEF RoomBetween, Region, PowerOfTwo

(* Regions of different partitions have no bit in common.                  *)
LEMMA RegionsApart ==
  ASSUME layout \in Layouts, NEW p \in Partitions, NEW q \in Partitions \ {p}
  PROVE  Region(p) \cap Region(q) = {} /\ Region(p) \subseteq Nat
<1>1. p \in Nat /\ Stride \in Nat /\ Width \in Nat /\ Width <= Stride
  BY SizeAssumption, StrideFacts DEF Partitions
<1>2. PICK B \in Nat : B = p * Stride
  BY <1>1
<1>3. PICK hi : hi = B + Width - 1
  OBVIOUS
<1>4. Region(p) = B .. hi
  BY <1>2, <1>3 DEF Region, Width
<1>5. p * Stride + Width <= B + Stride /\ hi < p * Stride + Stride /\ hi \in Int
  BY <1>1, <1>2, <1>3
<1>6. (B .. hi) \cap Region(q) = {}
  BY <1>5, Fits
<1>7. QED
  BY <1>1, <1>2, <1>3, <1>4, <1>6

(* A step that leaves a partition's own state and bits alone keeps what is *)
(* known of it.                                                            *)
LEMMA NeighbourKept ==
  ASSUME NEW q \in Partitions, KeptInv(q), \A p : Region(p)' = Region(p),
         writing'[q] = writing[q], register'[q] = register[q], expected'[q] = expected[q],
         bits' \cap Region(q) = bits \cap Region(q)
  PROVE  KeptInv(q)'
<1>1. PICK w : w = writing[q]
  OBVIOUS
<1>2. ASSUME WriteInv(q, w)
      PROVE  WriteInv(q, w)'
  <2>1. w.cells \subseteq Region(q)
    BY <1>2 DEF WriteInv
  <2>2. bits' \cap (Region(q) \ w.cells) = bits \cap (Region(q) \ w.cells)
    OBVIOUS
  <2>3. bits' \cap (w.cells \ Covered(w.todo)) = bits \cap (w.cells \ Covered(w.todo))
    BY <2>1
  <2>4. PICK h : h = Head(w.todo).window
    OBVIOUS
  <2>5. bits' \cap h \cap Region(q) = bits \cap h \cap Region(q)
    OBVIOUS
  <2>6. bits' \cap w.cells = bits \cap w.cells
    BY <2>1
  <2>7. QED
    BY <1>2, <2>2, <2>3, <2>4, <2>5, <2>6 DEF WriteInv
<1>3. QED
  BY <1>1, <1>2 DEF KeptInv, Idle

(* A write begins: either its bits are stored at once, or the registers to *)
(* be written are known.                                                   *)
LEMMA ScatterKeeps ==
  ASSUME StoreInv, NEW p \in Partitions, NEW cells, NEW value, NEW todo,
         Scatter(p, cells, value, todo), cells \subseteq Region(p), value \subseteq cells,
         ~Direct => Covers(p, cells, todo)
  PROVE  StoreInv'
<1>1. /\ writing \in [Partitions -> Writes] /\ register \in [Partitions -> SUBSET Nat]
      /\ writes \in [Partitions -> Nat] /\ expected \in [Partitions -> SUBSET Nat]
      /\ bits \in SUBSET Nat /\ layout \in Layouts /\ RoomBetween
      /\ \A q \in Partitions : KeptInv(q)
  BY DEF StoreInv, TypeInv
<1>2. /\ writing[p] = Idle /\ UNCHANGED <<layout, register>>
      /\ writes' = [writes EXCEPT ![p] = @ + 1]
      /\ expected' = [expected EXCEPT ![p] = (@ \ cells) \cup value]
      /\ IF Direct
         THEN /\ bits' = (bits \ cells) \cup value
              /\ UNCHANGED writing
         ELSE /\ writing' = [writing EXCEPT ![p] =
                   [cells |-> cells, value |-> value, todo |-> todo, loaded |-> FALSE]]
              /\ UNCHANGED bits
  BY DEF Scatter
<1>3. RoomBetween' /\ \A q : Region(q)' = Region(q)
  BY <1>1, <1>2, LayoutStays
<1>4. /\ Region(p) \subseteq Nat
      /\ \A q \in Partitions \ {p} : Region(p) \cap Region(q) = {}
  <2>1. Region(p) \subseteq Nat
    <3>1. p \in Nat /\ Stride \in Nat
      BY <1>1, SizeAssumption, StrideFacts DEF Partitions
    <3>2. p * Stride \in Nat
      BY <3>1
    <3>3. QED
      BY <3>2 DEF Region
  <2>2. QED
    BY <1>1, <2>1, RegionsApart
<1>5. /\ bits \cap Region(p) = expected[p]
      /\ expected'[p] = (expected[p] \ cells) \cup value
      /\ \A q \in Partitions \ {p} : expected'[q] = expected[q] /\ writing'[q] = writing[q]
  BY <1>1, <1>2 DEF KeptInv
<1>6. bits' \in SUBSET Nat /\ \A q \in Partitions \ {p} : bits' \cap Region(q) = bits \cap Region(q)
  BY <1>1, <1>2, <1>4
<1>7. \A q \in Partitions \ {p} : KeptInv(q)'
  BY <1>1, <1>2, <1>3, <1>5, <1>6, NeighbourKept
<1>8. expected' \in [Partitions -> SUBSET Nat] /\ writes' \in [Partitions -> Nat]
  BY <1>1, <1>2, <1>4
<1>9. CASE Direct
  <2>1. KeptInv(p)'
    BY <1>2, <1>3, <1>5, <1>9 DEF KeptInv, Idle
  <2>2. TypeInv'
    BY <1>1, <1>2, <1>6, <1>8, <1>9 DEF TypeInv
  <2>3. QED
    BY <1>3, <1>7, <2>1, <2>2 DEF StoreInv
<1>10. CASE ~Direct
  <2>1. PICK w : w = [cells |-> cells, value |-> value, todo |-> todo, loaded |-> FALSE]
    OBVIOUS
  <2>2. /\ writing' = [writing EXCEPT ![p] = w] /\ writing'[p] = w
        /\ w.cells = cells /\ w.value = value /\ w.todo = todo /\ w.loaded = FALSE
    BY <1>1, <1>2, <1>10, <2>1
  <2>3. Covers(p, cells, todo)
    BY <1>10
  <2>4. w \in Writes
    BY <1>4, <2>1, <2>3 DEF Covers, Writes
  <2>5. TypeInv'
    BY <1>1, <1>2, <1>6, <1>8, <2>2, <2>4 DEF TypeInv
  <2>6. cells \ Covered(todo) = {} /\ value \ Covered(todo) = {}
    BY <2>3 DEF Covers
  <2>7. WriteInv(p, w)'
    BY <1>2, <1>3, <1>5, <1>10, <2>2, <2>3, <2>6 DEF WriteInv, Covers
  <2>8. writing'[p] # Idle
    <3>1. Len(writing'[p].todo) # 0
      <4>1. Len(todo) # 0
        BY <2>3 DEF Covers
      <4>2. writing'[p].todo = todo
        BY <2>2
      <4>3. QED
        BY <4>1, <4>2
    <3>2. Len(Idle.todo) = 0
      BY DEF Idle
    <3>3. QED
      BY <3>1, <3>2
  <2>9. KeptInv(p)'
    BY <2>2, <2>7, <2>8 DEF KeptInv, Idle
  <2>10. QED
    BY <1>3, <1>7, <2>5, <2>9 DEF StoreInv
<1>11. QED
  BY <1>9, <1>10

(* The first bit of a stretch is where it begins.                          *)
LEMMA FirstOfInterval ==
  ASSUME NEW a \in Nat, NEW b \in Int, a <= b
  PROVE  First(a .. b) = a
<1>1. a \in a .. b /\ \A d \in a .. b : a <= d
  OBVIOUS
<1>2. PICK c : c = First(a .. b)
  OBVIOUS
<1>3. c \in a .. b /\ \A d \in a .. b : c <= d
  BY <1>1, <1>2 DEF First
<1>4. QED
  BY <1>1, <1>2, <1>3

(* A stretch of at least one bit within another one.                       *)
LEMMA Within ==
  ASSUME NEW a \in Nat, NEW n \in Nat, NEW c \in Nat, NEW m \in Nat,
         a <= c, c + m <= a + n, 1 <= m
  PROVE  /\ c .. c + m - 1 \subseteq a .. a + n - 1 /\ c .. c + m - 1 # {}
         /\ c .. c + m - 1 \in SUBSET Nat
<1>1. c \in c .. c + m - 1
  OBVIOUS
<1>2. QED
  BY <1>1

(* A set of naturals has a first element.                                  *)
LEMMA FirstInSet ==
  ASSUME NEW S \in SUBSET Nat, S # {}
  PROVE  First(S) \in S
<1>1. \E c \in S : \A d \in S : c <= d
  BY LeastNat
<1>2. QED
  BY <1>1 DEF First

(* Where a bucket is, and a slot of it.                                    *)
LEMMA BucketBits ==
  ASSUME layout \in Layouts, NEW p \in Partitions, NEW b \in 0 .. NBuckets-1
  PROVE  \E bit \in Nat :
           /\ WholeBucket(p, bit, bits_per_bucket) /\ bit = p * Stride + b * bits_per_bucket
           /\ Bucket(p, b) = bit .. bit + bits_per_bucket - 1
           /\ First(Bucket(p, b)) = bit
           /\ Bucket(p, b) \subseteq Region(p) /\ Bucket(p, b) # {}
<1>1. PICK bit : bit = p * Stride + b * bits_per_bucket
  OBVIOUS
<1>2. WholeBucket(p, bit, bits_per_bucket)
  BY <1>1 DEF WholeBucket
<1>3. bit \in Nat /\ p * Stride <= bit /\ bit + bits_per_bucket <= p * Stride + Width
  BY <1>2, BucketInRegion
<1>4. bits_per_bucket \in Nat /\ 1 <= bits_per_bucket
  BY LayoutFacts
<1>5. Bucket(p, b) = bit .. bit + bits_per_bucket - 1
  BY <1>1 DEF Bucket
<1>6. First(Bucket(p, b)) = bit
  <2>1. PICK e \in Int : e = bit + bits_per_bucket - 1
    BY <1>3, <1>4
  <2>2. bit <= e
    BY <1>3, <1>4, <2>1
  <2>3. QED
    BY <1>3, <1>5, <2>1, <2>2, FirstOfInterval
<1>7. Bucket(p, b) \subseteq Region(p) /\ Bucket(p, b) # {}
  <2>1. PICK B \in Nat : B = p * Stride
    <3>1. p \in Nat /\ Stride \in Nat
      BY SizeAssumption, StrideFacts DEF Partitions
    <3>2. QED
      BY <3>1
  <2>2. Width \in Nat /\ Region(p) = B .. B + Width - 1
    BY <2>1, StrideFacts DEF Region, Width
  <2>3. PICK e \in Nat, W \in Nat : e = bits_per_bucket /\ W = Width
    BY <1>4, <2>2
  <2>4. B <= bit /\ bit + e <= B + W /\ 1 <= e
    BY <1>3, <1>4, <2>1, <2>3
  <2>5. bit \in Nat
    BY <1>3
  <2>6. bit .. bit + e - 1 \subseteq B .. B + W - 1 /\ bit .. bit + e - 1 # {}
    BY <2>1, <2>3, <2>4, <2>5, Within
  <2>7. QED
    BY <1>5, <2>2, <2>3, <2>6
<1>8. QED
  BY <1>1, <1>2, <1>3, <1>5, <1>6, <1>7

(* A slot is a stretch of its bucket's bits.                               *)
LEMMA SlotBits ==
  ASSUME layout \in Layouts, NEW p \in Partitions, NEW b \in 0 .. NBuckets-1,
         NEW i \in 0 .. associativity-1
  PROVE  \E bit \in Nat :
           /\ p * Stride <= bit /\ bit + k <= p * Stride + Width
           /\ Slot(p, b, i) = bit .. bit + k - 1
           /\ First(Slot(p, b, i)) = bit
           /\ Slot(p, b, i) \subseteq Bucket(p, b) /\ Slot(p, b, i) # {}
<1>1. PICK start \in Nat :
        /\ WholeBucket(p, start, bits_per_bucket) /\ start = p * Stride + b * bits_per_bucket
        /\ Bucket(p, b) = start .. start + bits_per_bucket - 1
  BY BucketBits
<1>2. /\ p * Stride <= start /\ start + bits_per_bucket <= p * Stride + Width
  BY <1>1, BucketInRegion
<1>3. /\ k \in Nat \ {0} /\ associativity \in Nat /\ bits_per_bucket = k * associativity
      /\ bits_per_bucket \in Nat
  BY LayoutFacts
<1>4. PICK x \in Nat : x = k * i
  BY <1>3
<1>5. x + k <= bits_per_bucket
  <2>1. i \in Nat /\ i < associativity
    BY <1>3
  <2>2. QED
    BY <1>3, <1>4, <2>1, MultiplesApart
<1>6. i * k = x
  BY <1>3, <1>4
<1>7. PICK bit \in Nat : bit = start + x
  BY <1>4
<1>8. Slot(p, b, i) = bit .. bit + k - 1
  BY <1>1, <1>6, <1>7 DEF Slot
<1>9. First(Slot(p, b, i)) = bit
  <2>1. PICK e \in Int : e = bit + k - 1
    BY <1>3
  <2>2. bit <= e
    BY <1>3, <2>1
  <2>3. QED
    BY <1>8, <2>1, <2>2, FirstOfInterval
<1>10. p * Stride <= bit /\ bit + k <= p * Stride + Width
  <2>1. Stride \in Nat /\ Width \in Nat /\ p \in Nat
    BY SizeAssumption, StrideFacts DEF Partitions
  <2>2. p * Stride \in Nat
    BY <2>1
  <2>3. QED
    BY <1>2, <1>3, <1>5, <1>7, <2>1, <2>2
<1>11. Slot(p, b, i) \subseteq Bucket(p, b) /\ Slot(p, b, i) # {}
  <2>1. start <= bit /\ bit + k <= start + bits_per_bucket /\ k \in Nat /\ 1 <= k
    BY <1>3, <1>5, <1>7
  <2>2. start \in Nat /\ bit \in Nat /\ bits_per_bucket \in Nat
    BY <1>1, <1>3, <1>7
  <2>3. bit .. bit + k - 1 \subseteq start .. start + bits_per_bucket - 1 /\ bit .. bit + k - 1 # {}
    BY <2>1, <2>2, Within
  <2>4. QED
    BY <1>1, <1>8, <2>3
<1>12. QED
  BY <1>8, <1>9, <1>10, <1>11

(* The fingerprints written to cells set bits of them.                     *)
LEMMA FingerprintBits ==
  ASSUME NEW cells \in SUBSET Nat, cells # {}, NEW value \in FingerprintsIn(cells)
  PROVE  value \subseteq cells
BY FirstInSet DEF FingerprintsIn

(* set_fingerprint begins a write, and keeps the invariant: before the     *)
(* first register is read the cells alone are to be changed.               *)
LEMMA SetFingerprintKeeps ==
  ASSUME StoreInv, NEW p \in Partitions, NEW b \in 0 .. NBuckets-1, set_fingerprint(p, b)
  PROVE  StoreInv'
<1>1. layout \in Layouts /\ RoomBetween
  BY DEF StoreInv, TypeInv
<1>2. PICK bit \in Nat :
        /\ WholeBucket(p, bit, bits_per_bucket)
        /\ Bucket(p, b) = bit .. bit + bits_per_bucket - 1
        /\ First(Bucket(p, b)) = bit
        /\ Bucket(p, b) \subseteq Region(p) /\ Bucket(p, b) # {}
  BY <1>1, BucketBits
<1>3. bits_per_bucket = k /\ bits_per_bucket \in Nat
  BY <1>1, LayoutFacts DEF set_fingerprint
<1>4. PICK value \in FingerprintsIn(Bucket(p, b)) :
        Scatter(p, Bucket(p, b), value, Accesses(bit, bits_per_bucket, TRUE))
  BY <1>2, <1>3 DEF set_fingerprint
<1>5. value \subseteq Bucket(p, b)
  <2>1. Bucket(p, b) \in SUBSET Nat
    BY <1>2, <1>3
  <2>2. QED
    BY <1>2, <1>4, <2>1, FingerprintBits
<1>6. ~Direct => Covers(p, Bucket(p, b), Accesses(bit, bits_per_bucket, TRUE))
  BY <1>1, <1>2, AccessesCover
<1>7. QED
  BY <1>2, <1>4, <1>5, <1>6, ScatterKeeps

(* A bucket_insert of the cuckoo filter, which writes a slot of a bucket,  *)
(* or a full bucket as it is.                                              *)
LEMMA BucketInsertKeeps ==
  ASSUME StoreInv, NEW p \in Partitions, NEW b \in 0 .. NBuckets-1, packed_bucket_insert(p, b)
  PROVE  StoreInv'
<1>1. layout \in Layouts /\ RoomBetween /\ associativity \in Nat
  BY LayoutFacts DEF StoreInv, TypeInv
<1>2. PICK bit \in Nat :
        /\ WholeBucket(p, bit, bits_per_bucket)
        /\ Bucket(p, b) = bit .. bit + bits_per_bucket - 1
        /\ First(Bucket(p, b)) = bit
        /\ Bucket(p, b) \subseteq Region(p) /\ Bucket(p, b) # {}
  BY <1>1, BucketBits
<1>3. PICK free : free = {i \in 0 .. associativity-1 : bits \cap Slot(p, b, i) = {}}
  OBVIOUS
<1>4. PICK value \in IF free = {} THEN {{}} ELSE FingerprintsIn(Slot(p, b, First(free))) :
        Scatter(p, Bucket(p, b), (bits \cap Bucket(p, b)) \cup value,
                Accesses(bit, bits_per_bucket, TRUE))
  BY <1>2, <1>3 DEF packed_bucket_insert
<1>5. value \subseteq Bucket(p, b)
  <2>1. CASE free = {}
    BY <1>4, <2>1
  <2>2. CASE free # {}
    <3>1. PICK i : i = First(free)
      OBVIOUS
    <3>2. i \in 0 .. associativity-1
      <4>1. free \in SUBSET Nat
        BY <1>1, <1>3
      <4>2. i \in free
        BY <2>2, <3>1, <4>1, FirstInSet
      <4>3. QED
        BY <1>3, <4>2
    <3>3. PICK slot : slot = Slot(p, b, i)
      OBVIOUS
    <3>4. slot \subseteq Bucket(p, b) /\ slot # {}
      BY <1>1, <3>2, <3>3, SlotBits
    <3>5. slot \in SUBSET Nat
      <4>1. bits_per_bucket \in Nat
        BY <1>1, LayoutFacts
      <4>2. QED
        BY <1>2, <3>4, <4>1
    <3>6. value \in FingerprintsIn(slot)
      BY <1>4, <2>2, <3>1, <3>3
    <3>7. QED
      BY <3>4, <3>5, <3>6, FingerprintBits
  <2>3. QED
    BY <2>1, <2>2
<1>6. (bits \cap Bucket(p, b)) \cup value \subseteq Bucket(p, b)
  BY <1>5
<1>7. ~Direct => Covers(p, Bucket(p, b), Accesses(bit, bits_per_bucket, TRUE))
  BY <1>1, <1>2, AccessesCover
<1>8. QED
  BY <1>2, <1>4, <1>6, <1>7, ScatterKeeps

(* An evict_victim of the cuckoo filter, which overwrites a slot.          *)
LEMMA EvictVictimKeeps ==
  ASSUME StoreInv, NEW p \in Partitions, NEW b \in 0 .. NBuckets-1, packed_evict_victim(p, b)
  PROVE  StoreInv'
<1>1. layout \in Layouts /\ RoomBetween /\ layout.of = "cuckoo"
  BY DEF StoreInv, TypeInv, packed_evict_victim
<1>2. PICK i \in 0 .. associativity-1 : \E value \in FingerprintsIn(Slot(p, b, i)) :
        Scatter(p, Slot(p, b, i), value, Accesses(First(Slot(p, b, i)), k, FALSE))
  BY DEF packed_evict_victim
<1>3. PICK bit \in Nat :
        /\ p * Stride <= bit /\ bit + k <= p * Stride + Width
        /\ Slot(p, b, i) = bit .. bit + k - 1
        /\ First(Slot(p, b, i)) = bit
        /\ Slot(p, b, i) \subseteq Bucket(p, b) /\ Slot(p, b, i) # {}
  BY <1>1, SlotBits
<1>4. PICK value \in FingerprintsIn(Slot(p, b, i)) :
        Scatter(p, Slot(p, b, i), value, Accesses(bit, k, FALSE))
  BY <1>2, <1>3
<1>5. value \subseteq Slot(p, b, i)
  <2>1. k \in Nat
    BY <1>1, LayoutFacts
  <2>2. Slot(p, b, i) \in SUBSET Nat
    BY <1>3, <2>1
  <2>3. QED
    BY <1>3, <2>2, FingerprintBits
<1>6. Slot(p, b, i) \subseteq Region(p)
  <2>1. Bucket(p, b) \subseteq Region(p)
    BY <1>1, BucketBits
  <2>2. QED
    BY <1>3, <2>1
<1>7. OneSlot(p, bit, k)
  BY <1>1, <1>3 DEF OneSlot
<1>8. ~Direct => Covers(p, Slot(p, b, i), Accesses(bit, k, FALSE))
  BY <1>1, <1>3, <1>7, AccessesCover
<1>9. QED
  BY <1>4, <1>5, <1>6, <1>8, ScatterKeeps

(* Reading a register: what it holds of the partition's own bits is what   *)
(* the array holds.                                                        *)
LEMMA GatherKeeps ==
  ASSUME StoreInv, NEW p \in Partitions, Gather(p)
  PROVE  StoreInv'
<1>1. /\ writing \in [Partitions -> Writes] /\ register \in [Partitions -> SUBSET Nat]
      /\ bits \in SUBSET Nat /\ layout \in Layouts /\ RoomBetween /\ TypeInv
      /\ \A q \in Partitions : KeptInv(q)
  BY DEF StoreInv, TypeInv
<1>2. PICK w : w = writing[p]
  OBVIOUS
<1>3. /\ w # Idle /\ ~w.loaded /\ UNCHANGED <<layout, bits, writes, expected>>
      /\ register' = [register EXCEPT ![p] = bits \cap Head(w.todo).window]
      /\ writing' = [writing EXCEPT ![p].loaded = TRUE]
  BY <1>2 DEF Gather
<1>4. RoomBetween' /\ \A q : Region(q)' = Region(q)
  BY <1>1, <1>3, LayoutStays
<1>5. WriteInv(p, w) /\ w \in Writes
  BY <1>1, <1>2, <1>3 DEF KeptInv
<1>6. PICK u : u = writing'[p]
  OBVIOUS
<1>7. /\ u \in Writes /\ u.cells = w.cells /\ u.value = w.value /\ u.todo = w.todo /\ u.loaded = TRUE
      /\ writing' \in [Partitions -> Writes]
  BY <1>1, <1>2, <1>3, <1>5, <1>6 DEF Writes
<1>8. /\ register'[p] = bits \cap Head(w.todo).window /\ register' \in [Partitions -> SUBSET Nat]
  BY <1>1, <1>3
<1>9. \A q \in Partitions \ {p} : writing'[q] = writing[q] /\ register'[q] = register[q]
  BY <1>1, <1>3
<1>10. \A q \in Partitions \ {p} : KeptInv(q)'
  BY <1>1, <1>3, <1>4, <1>9, NeighbourKept
<1>11. WriteInv(p, u)'
  BY <1>3, <1>4, <1>5, <1>7, <1>8 DEF WriteInv
<1>12. u # Idle
  <2>1. u.loaded # Idle.loaded
    BY <1>7 DEF Idle
  <2>2. QED
    BY <2>1
<1>13. KeptInv(p)'
  BY <1>6, <1>11, <1>12 DEF KeptInv, Idle
<1>14. TypeInv'
  BY <1>1, <1>3, <1>7, <1>8 DEF TypeInv
<1>15. QED
  BY <1>4, <1>10, <1>13, <1>14 DEF StoreInv

(* A register goes back: the bits outside the cells are those of the       *)
(* array, the others those the partition means to be 1.                    *)
LEMMA WriteBackKeeps ==
  ASSUME StoreInv, NEW p \in Partitions, WriteBack(p)
  PROVE  StoreInv'
<1>1. /\ writing \in [Partitions -> Writes] /\ register \in [Partitions -> SUBSET Nat]
      /\ bits \in SUBSET Nat /\ layout \in Layouts /\ RoomBetween /\ TypeInv
      /\ \A q \in Partitions : KeptInv(q)
  BY DEF StoreInv, TypeInv
<1>2. PICK w, op, window, cleared, added :
        /\ w = writing[p] /\ op = Head(w.todo).op /\ window = Head(w.todo).window
        /\ cleared = IF op = "or" THEN {} ELSE w.cells
        /\ added = IF op = "and" THEN {} ELSE w.value
  OBVIOUS
<1>3. /\ w.loaded /\ UNCHANGED <<layout, writes, expected>>
      /\ bits' = (bits \ window) \cup (register[p] \ cleared) \cup (added \cap window)
      /\ writing' = [writing EXCEPT ![p] =
           IF Len(w.todo) > 1
           THEN [w EXCEPT !.todo = Tail(@), !.loaded = FALSE]
           ELSE Idle]
      /\ register' = [register EXCEPT ![p] = {}]
  BY <1>2 DEF WriteBack
<1>4. RoomBetween' /\ \A q : Region(q)' = Region(q)
  BY <1>1, <1>3, LayoutStays
<1>5. w # Idle
  BY <1>3 DEF Idle
<1>6. WriteInv(p, w) /\ w \in Writes
  BY <1>1, <1>2, <1>5 DEF KeptInv
<1>7. /\ w.cells \subseteq Region(p) /\ w.value \subseteq w.cells
      /\ expected[p] \subseteq Region(p)
      /\ expected[p] \cap w.cells = w.value
      /\ bits \cap (Region(p) \ w.cells) = expected[p] \ w.cells
      /\ bits \cap (w.cells \ Covered(w.todo)) = w.value \ Covered(w.todo)
      /\ register[p] \subseteq window
      /\ register[p] \cap Region(p) = bits \cap window \cap Region(p)
      /\ Len(w.todo) \in {1, 2}
      /\ \A q \in Partitions \ {p} : Covered(w.todo) \cap Region(q) = {}
      /\ w.todo \in Seq(Step) /\ w.value \in SUBSET Nat /\ w.cells \in SUBSET Nat
      /\ \/ Merges(w.todo)
         \/ Twice(w.cells, w.todo)
         \/ Len(w.todo) = 1 /\ w.todo[1].op = "or" /\ bits \cap w.cells = {}
  BY <1>2, <1>3, <1>6 DEF WriteInv, Writes
<1>8. PICK t : t = w.todo
  OBVIOUS
<1>9. /\ op = t[1].op /\ window = t[1].window /\ DOMAIN t = 1 .. Len(t)
      /\ window \subseteq Covered(t) /\ window \in SUBSET Nat
  <2>1. t \in Seq(Step) /\ Len(t) \in {1, 2}
    BY <1>7, <1>8
  <2>2. Head(t) = t[1] /\ DOMAIN t = 1 .. Len(t)
    BY <2>1, LenProperties
  <2>3. 1 \in DOMAIN t /\ t[1] \in Step
    BY <2>1, <2>2
  <2>4. op = t[1].op /\ window = t[1].window
    BY <1>2, <1>8, <2>2
  <2>5. QED
    BY <2>2, <2>3, <2>4 DEF Covered, Step
<1>10. /\ Merges(t) => op = "merge"
       /\ op = "or" => Len(t) = 1 /\ bits \cap w.cells = {}
       /\ op = "and" => /\ Len(t) = 2 /\ t[2].op = "or" /\ t[2].window = window
                        /\ w.cells \subseteq window
       /\ Len(t) = 2 => Merges(t) \/ op = "and"
       /\ cleared = (IF op = "or" THEN {} ELSE w.cells)
       /\ added = (IF op = "and" THEN {} ELSE w.value)
  <2>1. 1 \in DOMAIN t
    BY <1>7, <1>8, <1>9
  <2>2. Merges(t) => op = "merge"
    BY <1>9, <2>1 DEF Merges
  <2>3. Merges(t) \/ Twice(w.cells, t)
        \/ (Len(t) = 1 /\ t[1].op = "or" /\ bits \cap w.cells = {})
    BY <1>7, <1>8
  <2>4. QED
    BY <1>2, <1>9, <2>2, <2>3 DEF Twice
<1>11. /\ bits' \cap (Region(p) \ w.cells) = expected[p] \ w.cells
       /\ \A rest : /\ Covered(t) = window \cup rest
                    /\ op = "and" => window \subseteq rest
                    => bits' \cap (w.cells \ rest) = w.value \ rest
  <2>1. bits' \cap (Region(p) \ w.cells) = bits \cap (Region(p) \ w.cells)
    <3>1. cleared \subseteq w.cells /\ added \subseteq w.cells
      BY <1>7, <1>10
    <3>2. QED
      BY <1>3, <1>7, <3>1
  <2>2. ASSUME NEW rest, Covered(t) = window \cup rest, op = "and" => window \subseteq rest
        PROVE  bits' \cap (w.cells \ rest) = w.value \ rest
    <3>1. ASSUME NEW x \in w.cells, x \notin rest
          PROVE  x \in bits' <=> x \in w.value
      <4>1. CASE x \in window
        <5>1. op # "and" /\ added = w.value
          BY <1>10, <2>2, <3>1, <4>1
        <5>2. x \notin register[p] \ cleared
          <6>1. CASE op = "or"
            <7>1. x \notin bits /\ x \in Region(p)
              BY <1>7, <1>10, <3>1, <6>1
            <7>2. QED
              BY <1>7, <7>1
          <6>2. CASE op # "or"
            BY <1>10, <3>1, <6>2
          <6>3. QED
            BY <6>1, <6>2
        <5>3. QED
          BY <1>3, <4>1, <5>1, <5>2
      <4>2. CASE x \notin window
        <5>1. x \notin Covered(t)
          BY <2>2, <3>1, <4>2
        <5>2. x \in bits <=> x \in w.value
          BY <1>7, <1>8, <3>1, <5>1
        <5>3. x \notin register[p]
          BY <1>7, <4>2
        <5>4. x \in bits' <=> x \in bits
          BY <1>3, <4>2, <5>3
        <5>5. QED
          BY <5>2, <5>4
      <4>3. QED
        BY <4>1, <4>2
    <3>2. QED
      BY <1>7, <3>1
  <2>3. QED
    BY <1>7, <2>1, <2>2
<1>12. ASSUME NEW q \in Partitions \ {p}
       PROVE  bits' \cap Region(q) = bits \cap Region(q)
  <2>1. window \cap Region(q) = {}
    BY <1>7, <1>8, <1>9
  <2>2. register[p] \cap Region(q) = {} /\ (added \cap window) \cap Region(q) = {}
    BY <1>7, <2>1
  <2>3. QED
    BY <1>3, <2>1, <2>2
<1>13. \A q \in Partitions \ {p} : writing'[q] = writing[q] /\ register'[q] = register[q]
  BY <1>1, <1>3
<1>14. \A q \in Partitions \ {p} : KeptInv(q)'
  BY <1>1, <1>3, <1>4, <1>12, <1>13, NeighbourKept
<1>15. bits' \in SUBSET Nat /\ register' \in [Partitions -> SUBSET Nat]
  <2>1. register[p] \in SUBSET Nat /\ added \in SUBSET Nat
    BY <1>1, <1>7, <1>10
  <2>2. QED
    BY <1>1, <1>3, <2>1
<1>16. CASE Len(t) = 1
  <2>1. writing' = [writing EXCEPT ![p] = Idle] /\ writing'[p] = Idle
    BY <1>1, <1>3, <1>8, <1>16
  <2>2. Idle \in Writes
    <3>1. <<>> \in Seq(Step)
      OBVIOUS
    <3>2. QED
      BY <3>1 DEF Idle, Writes
  <2>3. writing' \in [Partitions -> Writes]
    BY <1>1, <2>1, <2>2
  <2>4. Covered(t) = window \cup {} /\ op # "and"
    <3>1. DOMAIN t = {1}
      BY <1>9, <1>16
    <3>2. QED
      BY <1>9, <1>16, <1>10, <3>1 DEF Covered
  <2>5. bits' \cap w.cells = w.value
    <3>1. bits' \cap (w.cells \ {}) = w.value \ {}
      BY <1>11, <2>4
    <3>2. QED
      BY <3>1
  <2>6. bits' \cap Region(p) = expected'[p]
    BY <1>3, <1>7, <1>11, <2>5
  <2>7. KeptInv(p)'
    BY <1>4, <2>1, <2>6 DEF KeptInv, Idle
  <2>8. TypeInv'
    BY <1>1, <1>3, <1>15, <2>3 DEF TypeInv
  <2>9. QED
    BY <1>4, <1>14, <2>7, <2>8 DEF StoreInv
<1>17. CASE Len(t) = 2
  <2>1. PICK rest : rest = Tail(t)
    OBVIOUS
  <2> DEFINE u == [w EXCEPT !.todo = rest, !.loaded = FALSE]
  <2>2. /\ rest \in Seq(Step) /\ Len(rest) = 1 /\ DOMAIN rest = {1} /\ rest[1] = t[2]
    <3>1. PICK T : T = Step
      OBVIOUS
    <3>2. t \in Seq(T)
      BY <1>7, <1>8, <3>1
    <3>3. t # <<>>
      <4>1. Len(<<>>) = 0
        OBVIOUS
      <4>2. QED
        BY <1>17, <4>1
    <3>4. /\ Tail(t) \in Seq(T) /\ Len(Tail(t)) = Len(t) - 1
          /\ \A i \in 1 .. Len(Tail(t)) : Tail(t)[i] = t[i+1]
      BY <3>2, <3>3, HeadTailProperties
    <3>5. Len(Tail(t)) = 1
      BY <1>17, <3>4
    <3>6. Tail(t)[1] = t[2]
      BY <3>4, <3>5
    <3>7. DOMAIN Tail(t) = {1}
      <4>1. DOMAIN Tail(t) = 1 .. Len(Tail(t))
        BY <3>4, LenProperties
      <4>2. 1 .. 1 = {1}
        OBVIOUS
      <4>3. QED
        BY <3>5, <4>1, <4>2
    <3>8. QED
      BY <2>1, <3>1, <3>4, <3>5, <3>6, <3>7
  <2>3. /\ u \in Writes /\ u.cells = w.cells /\ u.value = w.value /\ u.todo = rest
        /\ u.loaded = FALSE
    BY <1>6, <2>2 DEF Writes
  <2> HIDE DEF u
  <2>4. writing' = [writing EXCEPT ![p] = u] /\ writing'[p] = u
    BY <1>1, <1>3, <1>8, <1>17, <2>1 DEF u
  <2>5. writing' \in [Partitions -> Writes]
    BY <1>1, <2>3, <2>4
  <2>6. Covered(rest) = t[2].window /\ Covered(t) = window \cup t[2].window
    <3>1. DOMAIN t = {1, 2}
      BY <1>9, <1>17
    <3>2. {rest[m].window : m \in DOMAIN rest} = {t[2].window}
      BY <2>2
    <3>3. {t[m].window : m \in DOMAIN t} = {window, t[2].window}
      BY <1>9, <3>1
    <3>4. UNION {t[2].window} = t[2].window
          /\ UNION {window, t[2].window} = window \cup t[2].window
      OBVIOUS
    <3>5. QED
      BY <3>2, <3>3, <3>4 DEF Covered
  <2>7. bits' \cap (w.cells \ Covered(rest)) = w.value \ Covered(rest)
    BY <1>10, <1>11, <2>6
  <2>8. Merges(rest) \/ (Len(rest) = 1 /\ rest[1].op = "or" /\ bits' \cap w.cells = {})
    <3>1. CASE Merges(t)
      BY <1>9, <1>17, <2>2, <3>1 DEF Merges
    <3>2. CASE op = "and"
      <4>1. cleared = w.cells /\ added = {} /\ w.cells \subseteq window /\ rest[1].op = "or"
        BY <1>10, <2>2, <3>2
      <4>2. bits' \cap w.cells = {}
        BY <1>3, <4>1
      <4>3. QED
        BY <2>2, <4>1, <4>2
    <3>3. QED
      BY <1>17, <1>10, <3>1, <3>2
  <2>9. \A q \in Partitions \ {p} : Covered(rest) \cap Region(q) = {}
    BY <1>7, <1>8, <2>6
  <2>10. WriteInv(p, u)'
    BY <1>3, <1>4, <1>7, <1>11, <2>2, <2>3, <2>7, <2>9, <2>8 DEF WriteInv
  <2>11. u # Idle
    <3>1. Len(u.todo) = 1
      BY <2>2, <2>3
    <3>2. Idle.todo = <<>>
      BY DEF Idle
    <3>3. Len(Idle.todo) = 0
      BY <3>2
    <3>4. QED
      BY <3>1, <3>3
  <2>12. KeptInv(p)'
    BY <2>4, <2>10, <2>11 DEF KeptInv, Idle
  <2>13. TypeInv'
    BY <1>1, <1>3, <1>15, <2>5 DEF TypeInv
  <2>14. QED
    BY <1>4, <1>14, <2>12, <2>13 DEF StoreInv
<1>18. QED
  BY <1>7, <1>8, <1>16, <1>17

-----------------------------------------------------------------------------
(* The invariant, and what follows from it. *)

(* Where nothing is written yet, the invariant holds.                      *)
LEMMA Initially ==
  ASSUME StoreInit, RoomBetween
  PROVE  StoreInv
<1>1. /\ layout \in Layouts /\ bits = {}
      /\ writing = [p \in Partitions |-> Idle] /\ register = [p \in Partitions |-> {}]
      /\ writes = [p \in Partitions |-> 0] /\ expected = [p \in Partitions |-> {}]
  BY DEF StoreInit
<1>2. Idle \in Writes
  <2>1. <<>> \in Seq(Step)
    OBVIOUS
  <2>2. QED
    BY <2>1 DEF Idle, Writes
<1>3. TypeInv
  BY <1>1, <1>2 DEF TypeInv
<1>4. \A p \in Partitions : KeptInv(p)
  BY <1>1 DEF KeptInv
<1>5. QED
  BY <1>3, <1>4 DEF StoreInv

(* Every step keeps it.                                                    *)
LEMMA NextKeeps ==
  ASSUME StoreInv, [StoreNext]_storeVars
  PROVE  StoreInv'
<1>1. CASE StoreNext
  BY <1>1, SetFingerprintKeeps, BucketInsertKeeps, EvictVictimKeeps, GatherKeeps, WriteBackKeeps
     DEF StoreNext
<1>2. CASE UNCHANGED storeVars
  <2>1. UNCHANGED <<layout, bits, writing, register, writes, expected>>
    BY <1>2 DEF storeVars
  <2>2. RoomBetween' /\ \A q : Region(q)' = Region(q)
    BY <2>1, LayoutStays DEF StoreInv
  <2>3. \A q \in Partitions : KeptInv(q)'
    BY <2>1, <2>2, NeighbourKept DEF StoreInv
  <2>4. TypeInv'
    BY <2>1 DEF StoreInv, TypeInv
  <2>5. QED
    BY <2>2, <2>3, <2>4 DEF StoreInv
<1>3. QED
  BY <1>1, <1>2

(* PartitionsKept, where the layout leaves room between the partitions:    *)
(* whatever the neighbours write, and however their reads and writes of    *)
(* whole registers interleave, the bits of a partition are what its own    *)
(* writes made them.                                                       *)
THEOREM PartitionsStayKept == StoreSpec /\ RoomBetween => []PartitionsKept
<1>1. StoreInit /\ RoomBetween => StoreInv
  BY Initially
<1>2. StoreInv /\ [StoreNext]_storeVars => StoreInv'
  BY NextKeeps
<1>3. StoreInv => PartitionsKept
  BY DEF StoreInv, KeptInv, PartitionsKept
<1>4. QED
  BY <1>1, <1>2, <1>3, PTL DEF StoreSpec

-----------------------------------------------------------------------------
(* The Morton filter: its inductive invariant. *)

(* The run of a block is as long as its counters say.                      *)
RunOK(B) ==
  /\ B.count \in [BucketsOfBlock -> 0 .. config.slots_per_bucket]
  /\ occupied_slots(B) <= slots_per_block
  /\ B.slots \in [Slots -> Fingerprints \cup {0}]

BlockOK(B) ==
  /\ B = [count |-> B.count, ota |-> B.ota, slots |-> B.slots]
  /\ B.ota \subseteq 0 .. config.ota_size - 1
  /\ RunOK(B)

(* Each address has its bucket, and only what has an address has slots.    *)
BlocksOK(bs) ==
  /\ bs = [b \in 0 .. n_blocks - 1 |-> bs[b]]
  /\ \A b \in 0 .. n_blocks - 1 :
       /\ BlockOK(bs[b])
       /\ \A i \in BucketsOfBlock :
            bs[b].count[i] > 0 => config.buckets_per_block * b + i \in Addresses

(* The keys before begin, and the one whose insertion is under way.        *)
KeysOK ==
  /\ config \in Configs
  /\ begin \in 0 .. config.histogram
  /\ hand # Null => begin < config.histogram
  /\ hash = [x \in Keys |-> hash[x]]
  /\ \A x \in Keys :
       IF x < begin \/ (hand # Null /\ x = begin)
       THEN /\ hash[x] = [fingerprint |-> hash[x].fingerprint, address |-> hash[x].address]
            /\ hash[x].fingerprint \in Fingerprints /\ hash[x].address \in Addresses
       ELSE hash[x] = Null

HandOK ==
  hand # Null =>
    /\ hand.fingerprint \in Fingerprints /\ hand.address \in Addresses
    /\ tries = 0 => /\ hand.fingerprint = hash[begin].fingerprint
                    /\ hand.address = hash[begin].address

(* The slots taken, with the buckets they belong to.                       *)
Taken(bs) ==
  {t \in Addresses \X Slots : t[2] \in SlotsOf(bs[block(t[1])], bucket_index(t[1]))}

(* The classes of the slots taken, of the keys begun, and of the           *)
(* fingerprint on its way.                                                 *)
SlotClasses(bs) == [t \in Taken(bs) |-> Class(bs[block(t[1])].slots[t[2]], t[1])]
KeyClasses == [x \in Begun |-> ClassOf(x)]
HandClasses == IF hand = Null THEN {} ELSE {Class(hand.fingerprint, hand.address)}

Matched == OneEach(SlotClasses(blocks), KeyClasses, HandClasses)

Balanced ==
  Cardinality(Taken(blocks)) + Cardinality(HandClasses) + dropped = Cardinality(Begun)

(* A bucket has a fingerprint; a bucket is known to have overflowed.       *)
Holds(bs, f, a) ==
  \E j \in SlotsOf(bs[block(a)], bucket_index(a)) : bs[block(a)].slots[j] = f
Left(bs, a) == get_ota(bs[block(a)], bucket_index(a))

(* The first bucket of a key has its fingerprint, or is known to have      *)
(* overflowed, unless the key is just coming.                              *)
Marked ==
  \A x \in Begun :
    \/ hand # Null /\ tries = 0 /\ x = begin
    \/ Holds(blocks, hash[x].fingerprint, hash[x].address)
    \/ Left(blocks, hash[x].address)

Rest ==
  /\ pc \in {"construct", "done"}
  /\ tries \in 0 .. MAX_ITERATION + 1
  /\ success \in BOOLEAN
  /\ dropped \in Nat

MortonInv ==
  /\ KeysOK /\ Rest /\ BlocksOK(blocks) /\ HandOK
  /\ CountersFresh
  /\ Matched /\ Balanced
  /\ Marked

-----------------------------------------------------------------------------
(* The layout: buckets in blocks, slots in buckets. *)

(* What the parameters of a filter are. *)
LEMMA ConfigFacts ==
  ASSUME config \in Configs
  PROVE  /\ config.buckets_per_block \in Nat \ {0}
         /\ config.histogram \in Nat /\ config.slots_per_bucket \in Nat
         /\ config.ota_size \in Nat
         /\ slots_per_block \in Nat /\ config.slots_per_bucket <= slots_per_block
         /\ BucketsOfBlock = 0 .. config.buckets_per_block - 1
         /\ Slots = 0 .. slots_per_block - 1
         /\ Keys = 0 .. config.histogram - 1
         /\ Addresses = 0 .. size - 1
         /\ size \in Nat
<1>1. /\ config.buckets_per_block \in Nat \ {0} /\ config.k \in Nat \ {0}
      /\ config.histogram \in Nat /\ config.slots_per_bucket \in Nat
      /\ config.ota_size \in Nat /\ block_size \in Nat
      /\ NumberOfBits(config.slots_per_bucket + 1) \in Nat
      /\ config.buckets_per_block * NumberOfBits(config.slots_per_bucket + 1) + config.ota_size
           <= block_size
  BY ConfigAssumption
<1>2. PICK used \in Nat : used = config.buckets_per_block * NumberOfBits(config.slots_per_bucket + 1)
  BY <1>1
<1>3. block_size - used - config.ota_size \in Nat
  BY <1>1, <1>2
<1>4. slots_per_block \in Nat
  BY <1>1, <1>2, <1>3, Division DEF slots_per_block, SlotsPerBlock
<1>5. size \in Nat
  BY AddresserAssumption DEF size, buckets
<1>6. config.slots_per_bucket <= slots_per_block
  BY ConfigAssumption DEF slots_per_block
<1> QED
  BY <1>1, <1>4, <1>5, <1>6 DEF BucketsOfBlock, Slots, Keys, Addresses

(* Each address is a bucket of a block.                                    *)
LEMMA AddressFacts ==
  ASSUME config \in Configs
  PROVE  /\ n_blocks \in Nat
         /\ \A a \in Addresses :
              /\ block(a) \in 0 .. n_blocks - 1
              /\ bucket_index(a) \in BucketsOfBlock
              /\ a = config.buckets_per_block * block(a) + bucket_index(a)
         /\ \A b \in Nat, i \in BucketsOfBlock :
              /\ block(config.buckets_per_block * b + i) = b
              /\ bucket_index(config.buckets_per_block * b + i) = i
<1>1. PICK n \in Nat \ {0} : n = config.buckets_per_block /\ BucketsOfBlock = 0 .. n-1
  BY ConfigFacts
<1>2. PICK c \in Nat : c = size /\ Addresses = 0 .. c-1
  BY ConfigFacts
<1>3. PICK q \in Nat : q = (c + n - 1) \div n /\ n_blocks = q + 1 /\ c + n - 1 < n * q + n
  <2>1. c + n - 1 \in Nat
    OBVIOUS
  <2> QED
    BY <1>1, <1>2, <2>1, Division DEF n_blocks
<1>4. ASSUME NEW a \in Addresses
      PROVE  /\ block(a) \in 0 .. n_blocks - 1
             /\ bucket_index(a) \in BucketsOfBlock
             /\ a = n * block(a) + bucket_index(a)
  <2>1. a \in Nat /\ a < c
    BY <1>2
  <2>2. PICK d \in Nat : d = a \div n /\ n * d <= a /\ a < n * d + n /\ a % n = a - n * d
    BY <2>1, Division
  <2>3. d <= q
    <3>1. n * d < n * q + n /\ n * (q + 1) = n * q + n /\ q + 1 \in Nat
      BY <1>3, <2>1, <2>2
    <3>2. ~ (q + 1 <= d)
      <4>1. SUFFICES ASSUME q + 1 <= d PROVE FALSE
        OBVIOUS
      <4>2. n * (q + 1) <= n * d
        <5>1. CASE q + 1 = d
          BY <5>1
        <5>2. CASE q + 1 < d
          BY <5>2, <3>1, MultiplesApart
        <5> QED
          BY <4>1, <5>1, <5>2
      <4> QED
        BY <3>1, <4>2
    <3> QED
      BY <3>2
  <2>4. PICK m \in Nat : m = n * d
    BY MultiplesApart
  <2>5. a - m \in 0 .. n-1 /\ a = m + (a - m)
    BY <2>1, <2>2, <2>4
  <2>6. block(a) = d /\ bucket_index(a) = a - m
    BY <1>1, <2>2, <2>4 DEF block, bucket_index
  <2> QED
    BY <1>1, <1>3, <2>3, <2>4, <2>5, <2>6
<1>5. ASSUME NEW b \in Nat, NEW i \in BucketsOfBlock
      PROVE  block(n * b + i) = b /\ bucket_index(n * b + i) = i
  <2>1. i \in Nat /\ i < n /\ n * b \in Nat /\ n * b + i \in Nat
    BY <1>1
  <2>2. PICK e \in Nat : e = n * b + i
    BY <2>1
  <2>3. PICK d \in Nat : d = e \div n /\ n * d <= e /\ e < n * d + n /\ e % n = e - n * d
    BY <2>2, Division
  <2>4. PICK m \in Nat : m = n * b
    BY <2>1
  <2>5. PICK l \in Nat : l = n * d
    BY MultiplesApart
  <2>6. d = b
    <3>1. d < b => n * d + n <= n * b
      BY MultiplesApart
    <3>2. b < d => n * b + n <= n * d
      BY MultiplesApart
    <3> QED
      BY <2>1, <2>2, <2>3, <2>4, <2>5, <3>1, <3>2
  <2>7. e - l = i
    BY <2>1, <2>2, <2>4, <2>5, <2>6
  <2> QED
    BY <1>1, <2>2, <2>3, <2>5, <2>6, <2>7 DEF block, bucket_index
<1> QED
  BY <1>1, <1>3, <1>4, <1>5

(* The alternative of an address leads back to it.                         *)
LEMMA AlternativeFacts ==
  ASSUME config \in Configs, config.histogram > 0
  PROVE  /\ \A h \in HashValues : Address(config.mode, buckets, h.address) \in Addresses
         /\ \A a \in Addresses, f \in Fingerprints :
              /\ alternative(a, f) \in Addresses
              /\ Class(f, alternative(a, f)) = Class(f, a)
<1>1. \A h \in HashValues : Address(config.mode, buckets, h.address) \in Addresses
  BY AddresserAssumption DEF Addresses, size, buckets
<1>2. ASSUME NEW a \in Addresses, NEW f \in Fingerprints
      PROVE  alternative(a, f) \in Addresses /\ alternative(alternative(a, f), f) = a
  BY AddresserAssumption DEF Addresses, size, buckets, alternative
<1>3. ASSUME NEW a \in Addresses, NEW f \in Fingerprints
      PROVE  Class(f, alternative(a, f)) = Class(f, a)
  <2>1. {alternative(a, f), a} = {a, alternative(a, f)}
    OBVIOUS
  <2> QED
    BY <1>2, <2>1 DEF Class
<1> QED
  BY <1>1, <1>2, <1>3

(* Where the buckets of a block begin.                                     *)
LEMMA Offsets ==
  ASSUME config \in Configs, NEW B, RunOK(B)
  PROVE  /\ \A i \in 0 .. config.buckets_per_block : slot_offset(B, i) \in Nat
         /\ occupied_slots(B) \in Nat /\ occupied_slots(B) <= slots_per_block
         /\ \A i \in BucketsOfBlock :
              /\ B.count[i] \in Nat /\ B.count[i] <= config.slots_per_bucket
              /\ slot_offset(B, i) \in Nat
              /\ slot_offset(B, i) + B.count[i] <= occupied_slots(B)
              /\ \A j \in BucketsOfBlock :
                   i < j => slot_offset(B, i) + B.count[i] <= slot_offset(B, j)
<1>1. PICK n \in Nat \ {0} : n = config.buckets_per_block /\ BucketsOfBlock = 0 .. n-1
  BY ConfigFacts
<1>2. config.slots_per_bucket \in Nat
  BY ConfigFacts
<1>3. B.count \in [0 .. n-1 -> Nat]
  BY <1>1, <1>2 DEF RunOK
<1>4. \A i \in 0..n : SumBelow(B.count, i) \in Nat
  BY <1>3, SumSteps
<1>5. \A i, j \in 0..n : i < j => SumBelow(B.count, i) + B.count[i] <= SumBelow(B.count, j)
  <2>1. SUFFICES ASSUME NEW i \in 0..n, NEW j \in 0..n, i < j
                 PROVE  SumBelow(B.count, i) + B.count[i] <= SumBelow(B.count, j)
    OBVIOUS
  <2>2. j \in i..n
    BY <2>1
  <2> QED
    BY <1>3, <2>1, <2>2, SumGrows
<1>6. \A i \in BucketsOfBlock : /\ i \in 0..n /\ i < n /\ n \in 0..n /\ B.count[i] \in Nat
                                /\ B.count[i] <= config.slots_per_bucket
  BY <1>1, <1>2 DEF RunOK
<1> QED
  BY <1>1, <1>4, <1>5, <1>6 DEF slot_offset, occupied_slots, RunOK

(* A slot that is taken belongs to one bucket.                             *)
LEMMA OneBucket ==
  ASSUME config \in Configs, NEW B, RunOK(B), NEW j \in Nat, j < occupied_slots(B)
  PROVE  /\ j \in Slots
         /\ \E i \in BucketsOfBlock : j \in SlotsOf(B, i)
         /\ \A i, w \in BucketsOfBlock : j \in SlotsOf(B, i) /\ j \in SlotsOf(B, w) => i = w
<1>1. PICK n \in Nat \ {0} : n = config.buckets_per_block /\ BucketsOfBlock = 0 .. n-1
  BY ConfigFacts
<1>2. B.count \in [0 .. n-1 -> Nat]
  BY <1>1, ConfigFacts DEF RunOK
<1>3. /\ SumBelow(B.count, 0) = 0
      /\ \A i \in 0..n : SumBelow(B.count, i) \in Nat
      /\ \A i \in 0 .. n-1 : SumBelow(B.count, i+1) = SumBelow(B.count, i) + B.count[i]
  BY <1>2, SumSteps
<1>4. PICK T : T = {i \in 0..n : j < SumBelow(B.count, i)}
  OBVIOUS
<1>5. n \in T /\ T \subseteq Nat
  BY <1>1, <1>4 DEF occupied_slots, slot_offset
<1>6. PICK m \in T : \A p \in T : m <= p
  BY <1>5, LeastNat
<1>7. m # 0 /\ m \in 0..n
  BY <1>3, <1>4, <1>6
<1>8. PICK i \in 0 .. n-1 : m = i + 1 /\ i \in 0..n /\ i \notin T
  BY <1>6, <1>7
<1>9. SumBelow(B.count, i) <= j /\ j < SumBelow(B.count, i) + B.count[i]
  BY <1>3, <1>4, <1>8
<1>10. i \in BucketsOfBlock /\ j \in SlotsOf(B, i)
  <2>1. SumBelow(B.count, i) \in Nat /\ B.count[i] \in Nat
    BY <1>2, <1>3, <1>8
  <2> QED
    BY <1>1, <1>9, <2>1 DEF SlotsOf, slot_offset
<1>11. j \in Slots
  <2>1. slots_per_block \in Nat /\ Slots = 0 .. slots_per_block - 1
    BY ConfigFacts
  <2> QED
    BY <2>1, Offsets
<1>12. ASSUME NEW l \in BucketsOfBlock, NEW w \in BucketsOfBlock,
              j \in SlotsOf(B, l), j \in SlotsOf(B, w)
       PROVE  l = w
  <2>1. /\ l \in Nat /\ w \in Nat
        /\ slot_offset(B, l) \in Nat /\ slot_offset(B, w) \in Nat
        /\ B.count[l] \in Nat /\ B.count[w] \in Nat
        /\ l < w => slot_offset(B, l) + B.count[l] <= slot_offset(B, w)
        /\ w < l => slot_offset(B, w) + B.count[w] <= slot_offset(B, l)
    BY <1>1, Offsets
  <2> QED
    BY <1>12, <2>1 DEF SlotsOf
<1> QED
  BY <1>10, <1>11, <1>12

(* The slots of a bucket are slots of the block.                           *)
LEMMA SlotsFacts ==
  ASSUME config \in Configs, NEW B, RunOK(B), NEW i \in BucketsOfBlock
  PROVE  /\ SlotsOf(B, i) \subseteq Slots
         /\ \A j : j \in SlotsOf(B, i) <=> /\ j \in Nat /\ slot_offset(B, i) <= j
                                           /\ j < slot_offset(B, i) + B.count[i]
         /\ \A j \in SlotsOf(B, i) : j < occupied_slots(B)
<1>1. slots_per_block \in Nat /\ Slots = 0 .. slots_per_block - 1
  BY ConfigFacts
<1>2. /\ slot_offset(B, i) \in Nat /\ B.count[i] \in Nat
      /\ slot_offset(B, i) + B.count[i] <= occupied_slots(B)
      /\ occupied_slots(B) \in Nat /\ occupied_slots(B) <= slots_per_block
  BY Offsets
<1>3. \A j : j \in SlotsOf(B, i) <=> /\ j \in Nat /\ slot_offset(B, i) <= j
                                     /\ j < slot_offset(B, i) + B.count[i]
  BY <1>2 DEF SlotsOf
<1> QED
  BY <1>1, <1>2, <1>3
-----------------------------------------------------------------------------
(* How a block changes. *)

(* A piece of a run: of the slots P of a bucket, which were its slots O,   *)
(* each has the fingerprint of another one of O, and none of O is left     *)
(* out.  Only in its own bucket, a new fingerprint has a slot, marked -1.  *)
Piece(from, P, O, own) ==
  /\ \A j \in P : IF from[j] = -1 THEN own ELSE from[j] \in O
  /\ \A j, w \in P : from[j] = from[w] => j = w
  /\ \A l \in O : \E j \in P : from[j] = l
  /\ own => \E j \in P : from[j] = -1

(* Each slot that C has taken has the fingerprint of a slot of the same    *)
(* bucket in B; but one has f, which is new in bucket g.  No slot of B is  *)
(* left out but the victims.                                               *)
Replaces(B, C, g, f, victims) ==
  \E from \in [Slots -> Slots \cup {-1}] :
    /\ \A j \in Slots : C.slots[j] = IF from[j] = -1 THEN f ELSE B.slots[from[j]]
    /\ \A i \in BucketsOfBlock :
         Piece(from, SlotsOf(C, i), SlotsOf(B, i) \ victims, i = g)

(* Offsets after a counter has grown.                                      *)
LEMMA OffsetsGrown ==
  ASSUME config \in Configs, NEW B, RunOK(B), NEW C, NEW g \in BucketsOfBlock,
         C.count = [B.count EXCEPT ![g] = B.count[g] + 1]
  PROVE  \A w \in 0 .. config.buckets_per_block :
           slot_offset(C, w) = slot_offset(B, w) + (IF g < w THEN 1 ELSE 0)
<1>1. PICK n \in Nat : n = config.buckets_per_block /\ BucketsOfBlock = 0 .. n-1 /\ n # 0
  BY ConfigFacts
<1>2. PICK c, d : c = B.count /\ d = C.count
  OBVIOUS
<1>3. c \in [0 .. n-1 -> Nat] /\ g \in 0 .. n-1 /\ c[g] + 1 \in Nat
  <2>1. B.count \in [0 .. n-1 -> 0 .. config.slots_per_bucket] /\ config.slots_per_bucket \in Nat
    BY <1>1, ConfigFacts DEF RunOK
  <2>2. c \in [0 .. n-1 -> Nat]
    BY <1>2, <2>1
  <2> QED
    BY <1>1, <2>2
<1>4. d \in [0 .. n-1 -> Nat] /\ d[g] = c[g] + 1
      /\ \A i \in 0 .. n-1 : i # g => d[i] = c[i]
  BY <1>2, <1>3
<1>5. DifferAt(n, c, d, g)
  BY <1>3, <1>4 DEF DifferAt
<1>6. \A w \in 0..n : /\ g < w => SumBelow(d, w) = SumBelow(c, w) + d[g] - c[g]
                      /\ ~ (g < w) => SumBelow(d, w) = SumBelow(c, w)
  BY ONLY <1>5, SumChanged
<1>7. \A w \in 0..n : SumBelow(c, w) \in Nat
  BY <1>3, SumSteps
<1>8. ASSUME NEW w \in 0..n
      PROVE  SumBelow(d, w) = SumBelow(c, w) + (IF g < w THEN 1 ELSE 0)
  <2>1. CASE g < w
    BY <1>3, <1>4, <1>6, <1>7, <2>1
  <2>2. CASE ~ (g < w)
    BY <1>3, <1>4, <1>6, <1>7, <2>2
  <2> QED
    BY <2>1, <2>2
<1> QED
  BY <1>1, <1>2, <1>8 DEF slot_offset

(* Bucket g takes over a slot of bucket v.                                 *)
Shifts(B, C, g, v) ==
  /\ g \in BucketsOfBlock /\ v \in BucketsOfBlock /\ g # v
  /\ B.count[v] > 0 /\ B.count[g] # config.slots_per_bucket
  /\ C.count = [B.count EXCEPT ![g] = B.count[g] + 1, ![v] = B.count[v] - 1]

(* Offsets after one counter has grown and another has shrunk.             *)
LEMMA OffsetsShifted ==
  ASSUME config \in Configs, NEW B, RunOK(B), NEW C, NEW g, NEW v, Shifts(B, C, g, v)
  PROVE  \A w \in 0 .. config.buckets_per_block :
           slot_offset(C, w) = slot_offset(B, w) + (IF g < w THEN 1 ELSE 0)
                                                 - (IF v < w THEN 1 ELSE 0)
<1>1. PICK n \in Nat : n = config.buckets_per_block /\ BucketsOfBlock = 0 .. n-1 /\ n # 0
  BY ConfigFacts
<1>2. PICK c, d, e : c = B.count /\ d = [c EXCEPT ![g] = c[g] + 1] /\ e = C.count
  OBVIOUS
<1>3. /\ c \in [0 .. n-1 -> Nat] /\ g \in 0 .. n-1 /\ v \in 0 .. n-1
      /\ c[g] + 1 \in Nat /\ c[v] - 1 \in Nat /\ c[v] \in Nat /\ g # v
  <2>1. B.count \in [0 .. n-1 -> 0 .. config.slots_per_bucket] /\ config.slots_per_bucket \in Nat
    BY <1>1, ConfigFacts DEF RunOK
  <2>2. c \in [0 .. n-1 -> Nat]
    BY <1>2, <2>1
  <2>3. c[v] > 0 /\ g \in 0 .. n-1 /\ v \in 0 .. n-1 /\ g # v
    BY <1>1, <1>2 DEF Shifts
  <2> QED
    BY <2>2, <2>3
<1>4. d \in [0 .. n-1 -> Nat] /\ d[g] = c[g] + 1 /\ d[v] = c[v]
      /\ \A i \in 0 .. n-1 : i # g => d[i] = c[i]
  BY <1>2, <1>3
<1>5. e \in [0 .. n-1 -> Nat] /\ e[v] = d[v] - 1
      /\ \A i \in 0 .. n-1 : i # v => e[i] = d[i]
  <2>1. e = [c EXCEPT ![g] = c[g] + 1, ![v] = c[v] - 1]
    BY <1>2 DEF Shifts
  <2> QED
    BY <1>2, <1>3, <1>4, <2>1
<1>6. DifferAt(n, c, d, g) /\ DifferAt(n, d, e, v)
  BY <1>3, <1>4, <1>5 DEF DifferAt
<1>7. \A w \in 0..n : /\ g < w => SumBelow(d, w) = SumBelow(c, w) + d[g] - c[g]
                      /\ ~ (g < w) => SumBelow(d, w) = SumBelow(c, w)
  BY ONLY <1>6, SumChanged
<1>8. \A w \in 0..n : /\ v < w => SumBelow(e, w) = SumBelow(d, w) + e[v] - d[v]
                      /\ ~ (v < w) => SumBelow(e, w) = SumBelow(d, w)
  BY ONLY <1>6, SumChanged
<1>9. \A w \in 0..n : SumBelow(c, w) \in Nat /\ SumBelow(d, w) \in Nat
  BY <1>3, <1>4, SumSteps
<1>10. ASSUME NEW w \in 0..n
       PROVE  SumBelow(e, w) = SumBelow(c, w) + (IF g < w THEN 1 ELSE 0)
                                              - (IF v < w THEN 1 ELSE 0)
  <2>1. SumBelow(d, w) = SumBelow(c, w) + (IF g < w THEN 1 ELSE 0)
    <3>1. CASE g < w
      BY <1>3, <1>4, <1>7, <1>9, <3>1
    <3>2. CASE ~ (g < w)
      BY <1>3, <1>4, <1>7, <1>9, <3>2
    <3> QED
      BY <3>1, <3>2
  <2>2. SumBelow(e, w) = SumBelow(d, w) - (IF v < w THEN 1 ELSE 0)
    <3>1. CASE v < w
      BY <1>3, <1>4, <1>5, <1>8, <1>9, <3>1
    <3>2. CASE ~ (v < w)
      BY <1>3, <1>4, <1>8, <1>9, <3>2
    <3> QED
      BY <3>1, <3>2
  <2> QED
    BY <1>9, <2>1, <2>2
<1> QED
  BY <1>1, <1>2, <1>10 DEF slot_offset

(* Pieces that stay, or move as a whole by one slot up or down. *)
LEMMA PieceStays ==
  ASSUME NEW from, NEW P, -1 \notin P, \A j \in P : from[j] = j
  PROVE  Piece(from, P, P, FALSE)
<1>1. \A j \in P : j # -1
  OBVIOUS
<1> QED
  BY <1>1 DEF Piece

(* One that has moved up by a slot. *)
LEMMA PieceMovesUp ==
  ASSUME NEW from, NEW o \in Nat, NEW c \in Nat,
         \A j \in o + 1 .. o + c : from[j] = j - 1
  PROVE  Piece(from, o + 1 .. o + c, o .. o + c - 1, FALSE)
<1>1. PICK P, O : P = o + 1 .. o + c /\ O = o .. o + c - 1
  OBVIOUS
<1>2. \A j \in P : j \in Int /\ j - 1 \in O /\ from[j] = j - 1 /\ j - 1 # -1
  BY <1>1
<1>3. \A l \in O : l \in Int /\ l + 1 \in P /\ (l + 1) - 1 = l
  BY <1>1
<1>4. \A l \in O : \E j \in P : from[j] = l
  BY <1>2, <1>3
<1>5. \A j, w \in P : from[j] = from[w] => j = w
  BY <1>2
<1> QED
  BY <1>1, <1>2, <1>4, <1>5 DEF Piece

(* One that has moved down by a slot. *)
LEMMA PieceMovesDown ==
  ASSUME NEW from, NEW o \in Nat, NEW c \in Nat, o - 1 \in Nat,
         \A j \in o - 1 .. o + c - 2 : from[j] = j + 1
  PROVE  Piece(from, o - 1 .. o + c - 2, o .. o + c - 1, FALSE)
<1>1. PICK P, O : P = o - 1 .. o + c - 2 /\ O = o .. o + c - 1
  OBVIOUS
<1>2. \A j \in P : j \in Int /\ j + 1 \in O /\ from[j] = j + 1 /\ j + 1 # -1
  BY <1>1
<1>3. \A l \in O : l \in Int /\ l - 1 \in P /\ (l - 1) + 1 = l
  BY <1>1
<1>4. \A l \in O : \E j \in P : from[j] = l
  BY <1>2, <1>3
<1>5. \A j, w \in P : from[j] = from[w] => j = w
  BY <1>2
<1> QED
  BY <1>1, <1>2, <1>4, <1>5 DEF Piece

(* The bucket that the new fingerprint enters, behind its slots. *)
LEMMA PieceGrowsBehind ==
  ASSUME NEW from, NEW o \in Nat, NEW c \in Nat,
         \A j \in o .. o + c : from[j] = IF j = o + c THEN -1 ELSE j
  PROVE  Piece(from, o .. o + c, o .. o + c - 1, TRUE)
<1>1. PICK P, O, m : P = o .. o + c /\ O = o .. o + c - 1 /\ m = o + c
  OBVIOUS
<1>2. m \in P /\ from[m] = -1
  BY <1>1
<1>3. \A j \in P : j = m \/ (j \in O /\ j # -1 /\ from[j] = j /\ j # m)
  BY <1>1
<1>4. \A l \in O : l \in P /\ from[l] = l
  BY <1>1
<1>5. \A j \in P : IF from[j] = -1 THEN TRUE ELSE from[j] \in O
  BY <1>2, <1>3
<1>6. \A j, w \in P : from[j] = from[w] => j = w
  BY <1>2, <1>3
<1> QED
  BY <1>1, <1>2, <1>4, <1>5, <1>6 DEF Piece

(* The same before its slots. *)
LEMMA PieceGrowsBefore ==
  ASSUME NEW from, NEW o \in Nat, NEW c \in Nat, o - 1 \in Nat,
         \A j \in o - 1 .. o - 1 + c : from[j] = IF j = o - 1 THEN -1 ELSE j
  PROVE  Piece(from, o - 1 .. o - 1 + c, o .. o + c - 1, TRUE)
<1>1. PICK P, O, m : P = o - 1 .. o - 1 + c /\ O = o .. o + c - 1 /\ m = o - 1
  OBVIOUS
<1>2. m \in P /\ from[m] = -1
  BY <1>1
<1>3. \A j \in P : j = m \/ (j \in O /\ j # -1 /\ from[j] = j /\ j # m)
  BY <1>1
<1>4. \A l \in O : l \in P /\ from[l] = l
  BY <1>1
<1>5. \A j \in P : IF from[j] = -1 THEN TRUE ELSE from[j] \in O
  BY <1>2, <1>3
<1>6. \A j, w \in P : from[j] = from[w] => j = w
  BY <1>2, <1>3
<1> QED
  BY <1>1, <1>2, <1>4, <1>5, <1>6 DEF Piece

(* The bucket of the victim, from slot v of which it is taken: the slots   *)
(* before it move up, or those behind it move down.                        *)
LEMMA PieceFillsUp ==
  ASSUME NEW from, NEW o \in Nat, NEW c \in Nat, NEW v \in o .. o + c - 1,
         \A j \in o + 1 .. o + c - 1 : from[j] = IF j <= v THEN j - 1 ELSE j
  PROVE  Piece(from, o + 1 .. o + c - 1, (o .. o + c - 1) \ {v}, FALSE)
<1>1. PICK P, O : P = o + 1 .. o + c - 1 /\ O = (o .. o + c - 1) \ {v}
  OBVIOUS
<1>2. ASSUME NEW j \in P
      PROVE  j \in Int /\ from[j] # -1 /\ from[j] \in O
             /\ (j <= v => from[j] = j - 1) /\ (~ (j <= v) => from[j] = j)
  <2>1. CASE j <= v
    BY <1>1, <2>1
  <2>2. CASE ~ (j <= v)
    BY <1>1, <2>2
  <2> QED
    BY <1>1, <2>1, <2>2
<1>3. ASSUME NEW l \in O PROVE \E j \in P : from[j] = l
  <2>1. CASE l < v
    <3>1. l + 1 \in P /\ l + 1 <= v /\ (l + 1) - 1 = l
      BY <1>1, <2>1
    <3> QED
      BY <1>2, <3>1
  <2>2. CASE v < l
    <3>1. l \in P /\ ~ (l <= v)
      BY <1>1, <2>2
    <3> QED
      BY <1>2, <3>1
  <2> QED
    BY <1>1, <2>1, <2>2
<1>4. \A j, w \in P : from[j] = from[w] => j = w
  <2>1. SUFFICES ASSUME NEW j \in P, NEW w \in P, from[j] = from[w] PROVE j = w
    OBVIOUS
  <2>2. v \in Int
    BY <1>1
  <2> QED
    BY <1>2, <2>1, <2>2
<1> QED
  BY <1>1, <1>2, <1>3, <1>4 DEF Piece

(* One whose upper part has moved down onto its victim. *)
LEMMA PieceFillsDown ==
  ASSUME NEW from, NEW o \in Nat, NEW c \in Nat, NEW v \in o .. o + c - 1,
         \A j \in o .. o + c - 2 : from[j] = IF v <= j THEN j + 1 ELSE j
  PROVE  Piece(from, o .. o + c - 2, (o .. o + c - 1) \ {v}, FALSE)
<1>1. PICK P, O : P = o .. o + c - 2 /\ O = (o .. o + c - 1) \ {v}
  OBVIOUS
<1>2. ASSUME NEW j \in P
      PROVE  j \in Int /\ from[j] # -1 /\ from[j] \in O
             /\ (v <= j => from[j] = j + 1) /\ (~ (v <= j) => from[j] = j)
  <2>1. CASE v <= j
    BY <1>1, <2>1
  <2>2. CASE ~ (v <= j)
    BY <1>1, <2>2
  <2> QED
    BY <1>1, <2>1, <2>2
<1>3. ASSUME NEW l \in O PROVE \E j \in P : from[j] = l
  <2>1. CASE v < l
    <3>1. l - 1 \in P /\ v <= l - 1 /\ (l - 1) + 1 = l
      BY <1>1, <2>1
    <3> QED
      BY <1>2, <3>1
  <2>2. CASE l < v
    <3>1. l \in P /\ ~ (v <= l)
      BY <1>1, <2>2
    <3> QED
      BY <1>2, <3>1
  <2> QED
    BY <1>1, <2>1, <2>2
<1>4. \A j, w \in P : from[j] = from[w] => j = w
  <2>1. SUFFICES ASSUME NEW j \in P, NEW w \in P, from[j] = from[w] PROVE j = w
    OBVIOUS
  <2>2. v \in Int
    BY <1>1
  <2> QED
    BY <1>2, <2>1, <2>2
<1> QED
  BY <1>1, <1>2, <1>3, <1>4 DEF Piece

(* A bucket of which one slot is replaced. *)
LEMMA PieceReplaced ==
  ASSUME NEW from, NEW P, NEW v \in P, -1 \notin P,
         \A j \in P : from[j] = IF j = v THEN -1 ELSE j
  PROVE  Piece(from, P, P \ {v}, TRUE)
<1>1. \A j \in P : j # -1
  OBVIOUS
<1> QED
  BY <1>1 DEF Piece

(* Where the slots come from when those behind start move up to n. *)
FromBefore(start, n) ==
  [j \in Slots |-> IF j = start THEN -1 ELSE IF start < j /\ j <= n THEN j - 1 ELSE j]

PutBefore(B, C, f, start, n) ==
  C.slots = shift_slots_left_and_insert(B, f, start, n).slots

(* Where the fingerprints come from when the run has moved up. *)
LEMMA MovedUp ==
  ASSUME config \in Configs, NEW B, RunOK(B), NEW C, NEW f \in Fingerprints,
         NEW start \in Slots, NEW n \in Int, PutBefore(B, C, f, start, n)
  PROVE  /\ FromBefore(start, n) \in [Slots -> Slots \cup {-1}]
         /\ \A j \in Slots : C.slots[j] = IF FromBefore(start, n)[j] = -1 THEN f
                                         ELSE B.slots[FromBefore(start, n)[j]]
         /\ C.slots \in [Slots -> Fingerprints \cup {0}]
<1>1. PICK m \in Nat : m = slots_per_block /\ Slots = 0 .. m-1
  BY ConfigFacts
<1>2. PICK from : from = FromBefore(start, n)
  OBVIOUS
<1>3. C.slots = [j \in Slots |-> CASE j = start          -> f
                                   [] start < j /\ j <= n -> B.slots[j - 1]
                                   [] OTHER              -> B.slots[j]]
  <2>1. B.slots \in [Slots -> Fingerprints \cup {0}]
    BY DEF RunOK
  <2> QED
    BY <2>1 DEF PutBefore, shift_slots_left_and_insert
<1>4. ASSUME NEW j \in Slots
      PROVE  /\ from[j] \in Slots \cup {-1}
             /\ C.slots[j] = IF from[j] = -1 THEN f ELSE B.slots[from[j]]
  <2>1. from[j] = IF j = start THEN -1 ELSE IF start < j /\ j <= n THEN j - 1 ELSE j
    BY <1>2 DEF FromBefore
  <2>2. CASE j = start
    BY <1>1, <1>3, <2>1, <2>2
  <2>3. CASE start < j /\ j <= n
    BY <1>1, <1>3, <2>1, <2>3
  <2>4. CASE j # start /\ ~ (start < j /\ j <= n)
    BY <1>1, <1>3, <2>1, <2>4
  <2> QED
    BY <2>2, <2>3, <2>4
<1>5. from \in [Slots -> Slots \cup {-1}]
  BY <1>2, <1>4 DEF FromBefore
<1>6. C.slots \in [Slots -> Fingerprints \cup {0}]
  <2>1. B.slots \in [Slots -> Fingerprints \cup {0}]
    BY DEF RunOK
  <2>2. \A j \in Slots : C.slots[j] \in Fingerprints \cup {0}
    BY <1>4, <2>1
  <2> QED
    BY <1>3, <2>2
<1> QED
  BY <1>2, <1>4, <1>5, <1>6

(* And when slot v is taken out and those up to n move down. *)
FromBehind(v, n) ==
  [j \in Slots |-> IF j = n - 1 THEN -1 ELSE IF v <= j /\ j < n - 1 THEN j + 1 ELSE j]

(* Where they come from when a part of it has moved down. *)
LEMMA MovedDown ==
  ASSUME config \in Configs, NEW B, RunOK(B), NEW C, NEW f \in Fingerprints,
         NEW v \in Slots, NEW n \in Int, n - 1 \in Slots,
         C.slots = shift_slots_right_and_insert(B, f, v, n).slots
  PROVE  /\ FromBehind(v, n) \in [Slots -> Slots \cup {-1}]
         /\ \A j \in Slots : C.slots[j] = IF FromBehind(v, n)[j] = -1 THEN f
                                         ELSE B.slots[FromBehind(v, n)[j]]
         /\ C.slots \in [Slots -> Fingerprints \cup {0}]
<1>1. PICK m \in Nat : m = slots_per_block /\ Slots = 0 .. m-1
  BY ConfigFacts
<1>2. PICK from : from = FromBehind(v, n)
  OBVIOUS
<1>3. C.slots = [j \in Slots |-> CASE j = n - 1               -> f
                                   [] v <= j /\ j < n - 1 -> B.slots[j + 1]
                                   [] OTHER                   -> B.slots[j]]
  <2>1. B.slots \in [Slots -> Fingerprints \cup {0}]
    BY DEF RunOK
  <2> QED
    BY <2>1 DEF shift_slots_right_and_insert
<1>4. ASSUME NEW j \in Slots
      PROVE  /\ from[j] \in Slots \cup {-1}
             /\ C.slots[j] = IF from[j] = -1 THEN f ELSE B.slots[from[j]]
  <2>1. from[j] = IF j = n - 1 THEN -1 ELSE IF v <= j /\ j < n - 1 THEN j + 1 ELSE j
    BY <1>2 DEF FromBehind
  <2>2. CASE j = n - 1
    BY <1>1, <1>3, <2>1, <2>2
  <2>3. CASE v <= j /\ j < n - 1
    BY <1>1, <1>3, <2>1, <2>3
  <2>4. CASE j # n - 1 /\ ~ (v <= j /\ j < n - 1)
    BY <1>1, <1>3, <2>1, <2>4
  <2> QED
    BY <2>2, <2>3, <2>4
<1>5. from \in [Slots -> Slots \cup {-1}]
  BY <1>2, <1>4 DEF FromBehind
<1>6. C.slots \in [Slots -> Fingerprints \cup {0}]
  <2>1. B.slots \in [Slots -> Fingerprints \cup {0}]
    BY DEF RunOK
  <2>2. \A j \in Slots : C.slots[j] \in Fingerprints \cup {0}
    BY <1>4, <2>1
  <2> QED
    BY <1>3, <2>2
<1> QED
  BY <1>2, <1>4, <1>5, <1>6

(* Behind bucket g there is room for one more, in a run with room. *)
LEMMA InsertReplaces ==
  ASSUME config \in Configs, NEW B, RunOK(B), NEW C,
         NEW g \in BucketsOfBlock, is_free(B, g), NEW f \in Fingerprints,
         C.count = [B.count EXCEPT ![g] = B.count[g] + 1],
         C.slots = shift_slots_left_and_insert(
                     B, f, slot_offset(B, g) + B.count[g], occupied_slots(B)).slots
  PROVE  RunOK(C) /\ Replaces(B, C, g, f, {})
<1>1. PICK n \in Nat : n = config.buckets_per_block /\ BucketsOfBlock = 0 .. n-1 /\ n # 0
  BY ConfigFacts
<1>2. PICK m \in Nat : m = slots_per_block /\ Slots = 0 .. m-1
  BY ConfigFacts
<1>3. PICK occ \in Nat : occ = occupied_slots(B) /\ occ < m
  BY <1>2, Offsets DEF is_free
<1>4. PICK og, cg \in Nat : og = slot_offset(B, g) /\ cg = B.count[g] /\ og + cg <= occ
  BY <1>3, Offsets
<1>5. PICK start \in Slots : start = og + cg
  BY <1>2, <1>3, <1>4
<1>6. PICK from : from = FromBefore(start, occ)
  OBVIOUS
<1>7. /\ from \in [Slots -> Slots \cup {-1}]
      /\ \A j \in Slots : C.slots[j] = IF from[j] = -1 THEN f ELSE B.slots[from[j]]
      /\ C.slots \in [Slots -> Fingerprints \cup {0}]
  <2>1. C.slots = shift_slots_left_and_insert(B, f, start, occ).slots
    BY <1>3, <1>4, <1>5
  <2>2. PutBefore(B, C, f, start, occ) /\ occ \in Int
    BY <2>1 DEF PutBefore
  <2>3. /\ FromBefore(start, occ) \in [Slots -> Slots \cup {-1}]
        /\ \A j \in Slots : C.slots[j] = IF FromBefore(start, occ)[j] = -1 THEN f
                                         ELSE B.slots[FromBefore(start, occ)[j]]
        /\ C.slots \in [Slots -> Fingerprints \cup {0}]
    BY <2>2, MovedUp
  <2> QED
    BY <1>6, <2>3
<1>8. \A w \in 0..n : slot_offset(C, w) = slot_offset(B, w) + (IF g < w THEN 1 ELSE 0)
  BY <1>1, OffsetsGrown
<1>9. RunOK(C)
  <2>1. /\ B.count \in [BucketsOfBlock -> 0 .. config.slots_per_bucket]
        /\ config.slots_per_bucket \in Nat
    BY ConfigFacts DEF RunOK
  <2>2. B.count[g] + 1 \in 0 .. config.slots_per_bucket
    BY <2>1 DEF is_free
  <2>3. slot_offset(C, n) = slot_offset(B, n) + 1
    BY <1>1, <1>8
  <2>4. occupied_slots(C) <= slots_per_block
    BY <1>1, <1>2, <1>3, <2>3 DEF occupied_slots
  <2> QED
    BY <1>7, <2>1, <2>2, <2>4 DEF RunOK
<1>10. ASSUME NEW i \in BucketsOfBlock
       PROVE  Piece(from, SlotsOf(C, i), SlotsOf(B, i) \ {}, i = g)
  <2>1. PICK o, c \in Nat : /\ o = slot_offset(B, i) /\ c = B.count[i] /\ o + c <= occ
                            /\ i < g => o + c <= og
                            /\ g < i => og + cg <= o
    BY <1>3, <1>4, Offsets
  <2>2. /\ SlotsOf(B, i) \ {} = o .. o + c - 1
        /\ SlotsOf(C, i) = slot_offset(C, i) .. slot_offset(C, i) + C.count[i] - 1
    BY <2>1 DEF SlotsOf
  <2>3. /\ slot_offset(C, i) = o + (IF g < i THEN 1 ELSE 0)
        /\ C.count[i] = IF i = g THEN c + 1 ELSE c
    <3>1. i \in 0..n /\ i \in DOMAIN B.count
      BY <1>1 DEF RunOK
    <3> QED
      BY <1>8, <2>1, <3>1
  <2>4. \A j \in Slots : from[j] = IF j = start THEN -1
                                   ELSE IF start < j /\ j <= occ THEN j - 1 ELSE j
    BY <1>6 DEF FromBefore
  <2>5. CASE i < g
    <3>1. SlotsOf(C, i) = o .. o + c - 1 /\ ~ (i = g)
      BY <1>1, <2>1, <2>2, <2>3, <2>5
    <3>2. ASSUME NEW j \in o .. o + c - 1 PROVE from[j] = j /\ j # -1
      <4>1. j \in Nat /\ j < o + c /\ o + c <= start
        BY <1>4, <1>5, <2>1, <2>5
      <4>2. start \in Nat /\ j < start /\ j < m
        BY <1>2, <1>3, <1>5, <2>1, <4>1
      <4>3. j \in Slots /\ ~ (j = start) /\ ~ (start < j)
        BY <1>2, <4>1, <4>2
      <4> QED
        BY <2>4, <4>1, <4>3
    <3>3. Piece(from, o .. o + c - 1, o .. o + c - 1, FALSE)
      BY <3>2, PieceStays
    <3> QED
      BY <2>2, <3>1, <3>3
  <2>6. CASE i = g
    <3>1. SlotsOf(C, i) = o .. o + c /\ o + c = start
      BY <1>1, <1>4, <1>5, <2>1, <2>2, <2>3, <2>6
    <3>2. ASSUME NEW j \in o .. o + c PROVE from[j] = IF j = o + c THEN -1 ELSE j
      <4>1. j \in Nat /\ j <= start /\ start < m /\ start \in Nat
        BY <1>2, <1>3, <1>4, <1>5, <3>1
      <4>2. j \in Slots /\ ~ (start < j)
        BY <1>2, <4>1
      <4> QED
        BY <2>4, <3>1, <4>2
    <3>3. Piece(from, o .. o + c, o .. o + c - 1, TRUE)
      BY <3>2, PieceGrowsBehind
    <3> QED
      BY <2>2, <2>6, <3>1, <3>3
  <2>7. CASE g < i
    <3>1. SlotsOf(C, i) = o + 1 .. o + c /\ ~ (i = g)
      <4>1. ~ (i = g) /\ slot_offset(C, i) = o + 1 /\ C.count[i] = c
        BY <1>1, <2>3, <2>7
      <4>2. o + 1 + c - 1 = o + c
        BY <2>1
      <4> QED
        BY <2>2, <4>1, <4>2
    <3>2. ASSUME NEW j \in o + 1 .. o + c PROVE from[j] = j - 1
      <4>1. j \in Nat /\ o + 1 <= j /\ j <= o + c /\ start <= o
        BY <1>5, <2>1, <2>7
      <4>2. start \in Nat /\ start < j /\ j <= occ /\ j < m
        BY <1>2, <1>3, <1>5, <2>1, <4>1
      <4>3. j \in Slots /\ ~ (j = start)
        BY <1>2, <4>1, <4>2
      <4> QED
        BY <2>4, <4>2, <4>3
    <3>3. Piece(from, o + 1 .. o + c, o .. o + c - 1, FALSE)
      BY <3>2, PieceMovesUp
    <3> QED
      BY <2>2, <3>1, <3>3
  <2> QED
    BY <1>1, <2>5, <2>6, <2>7
<1> QED
  BY <1>7, <1>9, <1>10 DEF Replaces

(* One bucket takes a slot of another: the run is as long as it was. *)
LEMMA ShiftedRun ==
  ASSUME config \in Configs, NEW B, RunOK(B), NEW C,
         NEW g, NEW v, Shifts(B, C, g, v)
  PROVE  /\ C.count \in [BucketsOfBlock -> 0 .. config.slots_per_bucket]
         /\ occupied_slots(C) = occupied_slots(B)
<1>1. PICK n \in Nat : n = config.buckets_per_block /\ BucketsOfBlock = 0 .. n-1 /\ n # 0
  BY ConfigFacts
<1>2. PICK s \in Nat : s = config.slots_per_bucket /\ B.count \in [BucketsOfBlock -> 0 .. s]
  BY ConfigFacts DEF RunOK
<1>3. B.count[g] + 1 \in 0 .. s /\ B.count[v] - 1 \in 0 .. s
  BY <1>2 DEF Shifts
<1>4. C.count \in [BucketsOfBlock -> 0 .. s]
  BY <1>2, <1>3 DEF Shifts
<1>5. \A w \in 0..n : slot_offset(C, w) = slot_offset(B, w) + (IF g < w THEN 1 ELSE 0)
                                                            - (IF v < w THEN 1 ELSE 0)
  BY <1>1, OffsetsShifted
<1>6. slot_offset(C, n) = slot_offset(B, n)
  <2>1. n \in 0..n /\ g < n /\ v < n
    BY <1>1 DEF Shifts
  <2>2. slot_offset(B, n) \in Nat
    BY <1>1, Offsets DEF occupied_slots
  <2>3. slot_offset(C, n) = slot_offset(B, n) + 1 - 1
    BY <1>5, <2>1
  <2> QED
    BY <2>2, <2>3
<1> QED
  BY <1>1, <1>2, <1>4, <1>6 DEF occupied_slots

(* The slots of a bucket after that. *)
LEMMA ShiftedSlots ==
  ASSUME config \in Configs, NEW B, RunOK(B), NEW C,
         NEW g, NEW v, Shifts(B, C, g, v),
         NEW i \in BucketsOfBlock, NEW o \in Nat, NEW c \in Nat,
         o = slot_offset(B, i), c = B.count[i]
  PROVE  /\ SlotsOf(B, i) = o .. o + c - 1
         /\ (i < g /\ i < v) \/ (g < i /\ v < i) => SlotsOf(C, i) = o .. o + c - 1
         /\ g < i /\ i < v => SlotsOf(C, i) = o + 1 .. o + c
         /\ v < i /\ i < g => SlotsOf(C, i) = o - 1 .. o + c - 2
         /\ i = g /\ g < v => SlotsOf(C, i) = o .. o + c
         /\ i = g /\ v < g => SlotsOf(C, i) = o - 1 .. o - 1 + c
         /\ i = v /\ g < v => SlotsOf(C, i) = o + 1 .. o + c - 1
         /\ i = v /\ v < g => SlotsOf(C, i) = o .. o + c - 2
<1>1. PICK n \in Nat : n = config.buckets_per_block /\ BucketsOfBlock = 0 .. n-1 /\ n # 0
  BY ConfigFacts
<1>2. SlotsOf(B, i) = o .. o + c - 1
  BY DEF SlotsOf
<1>3. PICK p, d, q : /\ p = slot_offset(C, i) /\ d = C.count[i] /\ q = p + d - 1
                     /\ SlotsOf(C, i) = p .. q
  BY DEF SlotsOf
<1>0. q = p + d - 1
  BY <1>3
<1>4. p = o + (IF g < i THEN 1 ELSE 0) - (IF v < i THEN 1 ELSE 0)
  <2>1. \A w \in 0..n : slot_offset(C, w) = slot_offset(B, w) + (IF g < w THEN 1 ELSE 0)
                                                              - (IF v < w THEN 1 ELSE 0)
    BY <1>1, OffsetsShifted
  <2>2. i \in 0..n
    BY <1>1
  <2> QED
    BY <1>3, <2>1, <2>2
<1>5. d = IF i = v THEN c - 1 ELSE IF i = g THEN c + 1 ELSE c
  <2>1. i \in DOMAIN B.count
    BY DEF RunOK
  <2> QED
    BY <1>3, <2>1 DEF Shifts
<1>6. i \in Nat /\ g \in Nat /\ v \in Nat /\ g # v
  BY <1>1 DEF Shifts
<1>7. (i < g /\ i < v) \/ (g < i /\ v < i) => p = o /\ q = o + c - 1
  BY <1>3, <1>4, <1>5, <1>6
<1>8. g < i /\ i < v => p = o + 1 /\ q = o + c
  BY <1>3, <1>4, <1>5, <1>6
<1>9. ASSUME v < i /\ i < g PROVE p = o - 1 /\ q = o + c - 2
  <2>1. p = o - 1
    BY <1>4, <1>6, <1>9
  <2>2. d = c
    BY <1>5, <1>6, <1>9
  <2> QED
    BY <1>0, <2>1, <2>2
<1>10. i = g /\ g < v => p = o /\ q = o + c
  BY <1>3, <1>4, <1>5, <1>6
<1>11. i = g /\ v < g => p = o - 1 /\ q = o - 1 + c
  BY <1>3, <1>4, <1>5, <1>6
<1>12. ASSUME i = v /\ g < v PROVE p = o + 1 /\ q = o + c - 1
  <2>1. p = o + 1
    BY <1>4, <1>6, <1>12
  <2>2. d = c - 1
    BY <1>5, <1>6, <1>12
  <2> QED
    BY <1>0, <2>1, <2>2
<1>13. i = v /\ v < g => p = o /\ q = o + c - 2
  BY <1>3, <1>4, <1>5, <1>6
<1> QED
  BY <1>2, <1>3, <1>7, <1>8, <1>9, <1>10, <1>11, <1>12, <1>13

(* The victim lies in a later bucket: the slots between move up. *)
LEMMA LeftReplaces ==
  ASSUME config \in Configs, NEW B, RunOK(B), NEW C,
         NEW g \in BucketsOfBlock, NEW v \in BucketsOfBlock, g < v,
         NEW j \in SlotsOf(B, v), NEW f \in Fingerprints,
         Shifts(B, C, g, v),
         C.slots = shift_slots_left_and_insert(B, f, slot_offset(B, g) + B.count[g], j).slots
  PROVE  RunOK(C) /\ Replaces(B, C, g, f, {j})
<1>1. PICK n \in Nat : n = config.buckets_per_block /\ BucketsOfBlock = 0 .. n-1 /\ n # 0
  BY ConfigFacts
<1>2. PICK m \in Nat : m = slots_per_block /\ Slots = 0 .. m-1
  BY ConfigFacts
<1>3. PICK occ \in Nat : occ = occupied_slots(B) /\ occ <= m
  BY <1>2, Offsets
<1>4. PICK ov, cv \in Nat : /\ ov = slot_offset(B, v) /\ cv = B.count[v] /\ ov + cv <= occ
                            /\ ov <= j /\ j < ov + cv /\ j \in Nat
  BY <1>3, Offsets, SlotsFacts
<1>5. PICK og, cg \in Nat : og = slot_offset(B, g) /\ cg = B.count[g] /\ og + cg <= ov
  BY <1>4, Offsets
<1>6. PICK start \in Nat : start = og + cg /\ start <= j /\ start \in Slots /\ j < m
  <2>1. og + cg \in Nat /\ og + cg <= j /\ j < m
    BY <1>3, <1>4, <1>5
  <2> QED
    BY <1>2, <1>4, <2>1
<1>7. PICK from : from = FromBefore(start, j)
  OBVIOUS
<1>8. /\ from \in [Slots -> Slots \cup {-1}]
      /\ \A l \in Slots : C.slots[l] = IF from[l] = -1 THEN f ELSE B.slots[from[l]]
      /\ C.slots \in [Slots -> Fingerprints \cup {0}]
  <2>1. C.slots = shift_slots_left_and_insert(B, f, start, j).slots /\ j \in Int /\ start \in Slots
    BY <1>4, <1>5, <1>6
  <2>2. /\ FromBefore(start, j) \in [Slots -> Slots \cup {-1}]
        /\ \A l \in Slots : C.slots[l] = IF FromBefore(start, j)[l] = -1 THEN f
                                         ELSE B.slots[FromBefore(start, j)[l]]
        /\ C.slots \in [Slots -> Fingerprints \cup {0}]
    <3>1. PutBefore(B, C, f, start, j)
      BY <2>1 DEF PutBefore
    <3>2. start \in Slots /\ j \in Int /\ f \in Fingerprints
      BY <2>1
    <3> QED
      BY <3>1, <3>2, MovedUp
  <2> QED
    BY <1>7, <2>2
<1>9. Shifts(B, C, g, v) /\ g # v
  BY DEF Shifts
<1>10. RunOK(C)
  <2>1. /\ C.count \in [BucketsOfBlock -> 0 .. config.slots_per_bucket]
        /\ occupied_slots(C) = occupied_slots(B)
    BY <1>9, ShiftedRun
  <2> QED
    BY <1>2, <1>3, <1>8, <2>1 DEF RunOK
<1>11. ASSUME NEW l \in Slots, NEW w \in Int, l = w
       PROVE  /\ w < start => from[w] = w /\ w # -1
              /\ w = start => from[w] = -1
              /\ start < w /\ w <= j => from[w] = w - 1
              /\ j < w => from[w] = w /\ w # -1
  <2>1. from[w] = IF w = start THEN -1 ELSE IF start < w /\ w <= j THEN w - 1 ELSE w
    BY <1>7, <1>11 DEF FromBefore
  <2> QED
    BY <1>2, <1>4, <1>6, <1>11, <2>1
<1>12. ASSUME NEW i \in BucketsOfBlock
       PROVE  Piece(from, SlotsOf(C, i), SlotsOf(B, i) \ {j}, i = g)
  <2>1. PICK o, c \in Nat : /\ o = slot_offset(B, i) /\ c = B.count[i] /\ o + c <= occ
                            /\ i < g => o + c <= og
                            /\ g < i => og + cg <= o
                            /\ i < v => o + c <= ov
                            /\ v < i => ov + cv <= o
                            /\ o + c <= m
    <3>1. /\ slot_offset(B, i) \in Nat /\ B.count[i] \in Nat
          /\ slot_offset(B, i) + B.count[i] <= occ
          /\ i < g => slot_offset(B, i) + B.count[i] <= slot_offset(B, g)
          /\ g < i => slot_offset(B, g) + B.count[g] <= slot_offset(B, i)
          /\ i < v => slot_offset(B, i) + B.count[i] <= slot_offset(B, v)
          /\ v < i => slot_offset(B, v) + B.count[v] <= slot_offset(B, i)
      BY <1>3, Offsets
    <3>2. PICK oi, ci \in Nat : oi = slot_offset(B, i) /\ ci = B.count[i]
      BY <3>1
    <3>3. oi + ci <= m
      BY <1>3, <3>1, <3>2
    <3> QED
      BY <1>4, <1>5, <3>1, <3>2, <3>3
  <2>2. /\ SlotsOf(B, i) = o .. o + c - 1
        /\ (i < g /\ i < v) \/ (g < i /\ v < i) => SlotsOf(C, i) = o .. o + c - 1
        /\ g < i /\ i < v => SlotsOf(C, i) = o + 1 .. o + c
        /\ i = g /\ g < v => SlotsOf(C, i) = o .. o + c
        /\ i = v /\ g < v => SlotsOf(C, i) = o + 1 .. o + c - 1
    <3>1. /\ i \in BucketsOfBlock /\ o \in Nat /\ c \in Nat
          /\ o = slot_offset(B, i) /\ c = B.count[i]
      BY <2>1
    <3> QED
      BY <1>9, <3>1, ShiftedSlots
  <2>3. i \in Nat /\ g \in Nat /\ v \in Nat
    BY <1>1
  <2>4. CASE i < g
    <3>1. SlotsOf(C, i) = o .. o + c - 1 /\ ~ (i = g)
      BY <2>2, <2>3, <2>4
    <3>2. o + c <= start
      BY <1>5, <1>6, <2>1, <2>4
    <3>3. ASSUME NEW w \in o .. o + c - 1 PROVE from[w] = w /\ w # -1 /\ w # j
      <4>2. w \in Int /\ o <= w /\ w < o + c
        BY <2>1
      <4>3. w \in Int /\ 0 <= w /\ w < start /\ w < j /\ w < m
        BY <1>4, <1>6, <2>1, <3>2, <4>2
      <4>1. w \in Int /\ w \in Slots /\ w < start /\ w < j
        BY <1>2, <4>3
      <4> QED
        BY <1>11, <4>1
    <3>4. Piece(from, o .. o + c - 1, o .. o + c - 1, FALSE)
      BY <3>3, PieceStays
    <3>5. (o .. o + c - 1) \ {j} = o .. o + c - 1
      BY <3>3
    <3> QED
      BY <2>2, <3>1, <3>4, <3>5
  <2>5. CASE i = g
    <3>1. SlotsOf(C, i) = o .. o + c
      BY <2>2, <2>5
    <3>2. o + c = start
      BY <1>5, <1>6, <2>1, <2>5
    <3>3. ASSUME NEW w \in o .. o + c PROVE from[w] = IF w = o + c THEN -1 ELSE w
      <4>1. w \in Int /\ w \in Slots /\ (w < start \/ w = start)
        BY <1>2, <1>6, <2>1, <3>2
      <4> QED
        BY <1>6, <1>11, <3>2, <4>1
    <3>4. Piece(from, o .. o + c, o .. o + c - 1, TRUE)
      BY <3>3, PieceGrowsBehind
    <3>5. (o .. o + c - 1) \ {j} = o .. o + c - 1
      BY <1>6, <2>1, <3>2
    <3> QED
      BY <2>2, <2>5, <3>1, <3>4, <3>5
  <2>6. CASE g < i /\ i < v
    <3>1. SlotsOf(C, i) = o + 1 .. o + c /\ ~ (i = g)
      BY <2>2, <2>3, <2>6
    <3>2. start <= o /\ o + c <= j
      <4>1. o + c <= ov /\ og + cg <= o
        BY <2>1, <2>6
      <4> QED
        BY <1>4, <1>5, <1>6, <2>1, <4>1
    <3>3. ASSUME NEW w \in o + 1 .. o + c PROVE from[w] = w - 1
      <4>3. w \in Int /\ o + 1 <= w /\ w <= o + c
        BY <2>1
      <4>1. w \in Int /\ start < w /\ w <= j /\ 0 <= w
        BY <1>4, <2>1, <3>2, <4>3
      <4>2. w \in Slots
        BY <1>2, <1>3, <1>4, <4>1
      <4> QED
        BY <1>11, <4>1, <4>2
    <3>4. Piece(from, o + 1 .. o + c, o .. o + c - 1, FALSE)
      BY <3>3, PieceMovesUp
    <3>5. (o .. o + c - 1) \ {j} = o .. o + c - 1
      BY <1>4, <2>1, <3>2
    <3> QED
      BY <2>2, <3>1, <3>4, <3>5
  <2>7. CASE i = v
    <3>1. SlotsOf(C, i) = o + 1 .. o + c - 1 /\ ~ (i = g)
      BY <1>9, <2>2, <2>7
    <3>2. o = ov /\ c = cv /\ start <= o
      BY <1>4, <1>5, <1>6, <2>1, <2>7
    <3>3. ASSUME NEW w \in o + 1 .. o + c - 1 PROVE from[w] = IF w <= j THEN w - 1 ELSE w
      <4>1. w \in Int /\ start < w /\ 0 <= w /\ w < o + c
        BY <1>6, <2>1, <3>2
      <4>2. w \in Slots
        BY <1>2, <1>3, <2>1, <4>1
      <4>3. w <= j \/ j < w
        BY <1>4, <4>1
      <4> QED
        BY <1>4, <1>11, <4>1, <4>2, <4>3
    <3>4. j \in o .. o + c - 1
      BY <1>4, <3>2
    <3>5. Piece(from, o + 1 .. o + c - 1, (o .. o + c - 1) \ {j}, FALSE)
      BY <3>3, <3>4, PieceFillsUp
    <3> QED
      BY <2>2, <3>1, <3>5
  <2>8. CASE v < i
    <3>1. SlotsOf(C, i) = o .. o + c - 1 /\ ~ (i = g)
      BY <2>2, <2>3, <2>8
    <3>2. j < o
      BY <1>4, <2>1, <2>8
    <3>3. ASSUME NEW w \in o .. o + c - 1 PROVE from[w] = w /\ w # -1 /\ w # j
      <4>1. w \in Int /\ o <= w /\ w < o + c
        BY <2>1
      <4>2. w \in Int /\ 0 <= w /\ w < m /\ j < w
        BY <1>4, <2>1, <3>2, <4>1
      <4>3. w \in Slots
        BY <1>2, <4>2
      <4> QED
        BY <1>4, <1>11, <4>2, <4>3
    <3>4. Piece(from, o .. o + c - 1, o .. o + c - 1, FALSE)
      BY <3>3, PieceStays
    <3>5. (o .. o + c - 1) \ {j} = o .. o + c - 1
      BY <3>3
    <3> QED
      BY <2>2, <3>1, <3>4, <3>5
  <2> QED
    BY <2>3, <2>4, <2>5, <2>6, <2>7, <2>8
<1> QED
  BY <1>8, <1>10, <1>12 DEF Replaces

(* The victim lies in an earlier bucket: the slots between move down. *)
LEMMA RightReplaces ==
  ASSUME config \in Configs, NEW B, RunOK(B), NEW C,
         NEW g \in BucketsOfBlock, NEW v \in BucketsOfBlock, v < g,
         NEW j \in SlotsOf(B, v), NEW f \in Fingerprints,
         Shifts(B, C, g, v),
         C.slots = shift_slots_right_and_insert(B, f, j, slot_offset(B, g)).slots
  PROVE  RunOK(C) /\ Replaces(B, C, g, f, {j})
<1>1. PICK n \in Nat : n = config.buckets_per_block /\ BucketsOfBlock = 0 .. n-1 /\ n # 0
  BY ConfigFacts
<1>2. PICK m \in Nat : m = slots_per_block /\ Slots = 0 .. m-1
  BY ConfigFacts
<1>3. PICK occ \in Nat : occ = occupied_slots(B) /\ occ <= m
  BY <1>2, Offsets
<1>4. PICK ov, cv \in Nat : /\ ov = slot_offset(B, v) /\ cv = B.count[v]
                            /\ ov <= j /\ j < ov + cv /\ j \in Nat
  BY <1>3, Offsets, SlotsFacts
<1>5. PICK og, cg \in Nat : /\ og = slot_offset(B, g) /\ cg = B.count[g]
                            /\ ov + cv <= og /\ og + cg <= occ
  BY <1>3, <1>4, Offsets
<1>6. PICK last \in Nat : last = og - 1 /\ last \in Slots /\ j <= last /\ last < m /\ j \in Slots
  <2>1. og - 1 \in Nat /\ j <= og - 1 /\ og - 1 < m
    BY <1>3, <1>4, <1>5
  <2> QED
    BY <1>2, <1>4, <2>1
<1>7. PICK from : from = FromBehind(j, og)
  OBVIOUS
<1>8. /\ from \in [Slots -> Slots \cup {-1}]
      /\ \A l \in Slots : C.slots[l] = IF from[l] = -1 THEN f ELSE B.slots[from[l]]
      /\ C.slots \in [Slots -> Fingerprints \cup {0}]
  <2>1. /\ C.slots = shift_slots_right_and_insert(B, f, j, og).slots
        /\ j \in Slots /\ og \in Int /\ og - 1 \in Slots
    BY <1>5, <1>6
  <2>2. /\ FromBehind(j, og) \in [Slots -> Slots \cup {-1}]
        /\ \A l \in Slots : C.slots[l] = IF FromBehind(j, og)[l] = -1 THEN f
                                         ELSE B.slots[FromBehind(j, og)[l]]
        /\ C.slots \in [Slots -> Fingerprints \cup {0}]
    BY <2>1, MovedDown
  <2> QED
    BY <1>7, <2>2
<1>9. Shifts(B, C, g, v) /\ g # v
  BY DEF Shifts
<1>10. RunOK(C)
  <2>1. /\ C.count \in [BucketsOfBlock -> 0 .. config.slots_per_bucket]
        /\ occupied_slots(C) = occupied_slots(B)
    BY <1>9, ShiftedRun
  <2> QED
    BY <1>2, <1>3, <1>8, <2>1 DEF RunOK
<1>11. ASSUME NEW l \in Slots, NEW w \in Int, l = w
       PROVE  /\ w < j => from[w] = w /\ w # -1
              /\ w = last => from[w] = -1
              /\ j <= w /\ w < last => from[w] = w + 1
              /\ last < w => from[w] = w /\ w # -1
  <2>1. from[w] = IF w = last THEN -1 ELSE IF j <= w /\ w < last THEN w + 1 ELSE w
    BY <1>6, <1>7, <1>11 DEF FromBehind
  <2> QED
    BY <1>2, <1>4, <1>6, <1>11, <2>1
<1>12. ASSUME NEW i \in BucketsOfBlock
       PROVE  Piece(from, SlotsOf(C, i), SlotsOf(B, i) \ {j}, i = g)
  <2>1. PICK o, c \in Nat : /\ o = slot_offset(B, i) /\ c = B.count[i] /\ o + c <= occ
                            /\ i < g => o + c <= og
                            /\ g < i => og + cg <= o
                            /\ i < v => o + c <= ov
                            /\ v < i => ov + cv <= o
                            /\ o + c <= m
    <3>1. /\ slot_offset(B, i) \in Nat /\ B.count[i] \in Nat
          /\ slot_offset(B, i) + B.count[i] <= occ
          /\ i < g => slot_offset(B, i) + B.count[i] <= slot_offset(B, g)
          /\ g < i => slot_offset(B, g) + B.count[g] <= slot_offset(B, i)
          /\ i < v => slot_offset(B, i) + B.count[i] <= slot_offset(B, v)
          /\ v < i => slot_offset(B, v) + B.count[v] <= slot_offset(B, i)
      BY <1>3, Offsets
    <3>2. PICK oi, ci \in Nat : oi = slot_offset(B, i) /\ ci = B.count[i]
      BY <3>1
    <3>3. oi + ci <= m
      BY <1>3, <3>1, <3>2
    <3> QED
      BY <1>4, <1>5, <3>1, <3>2, <3>3
  <2>2. /\ SlotsOf(B, i) = o .. o + c - 1
        /\ (i < g /\ i < v) \/ (g < i /\ v < i) => SlotsOf(C, i) = o .. o + c - 1
        /\ v < i /\ i < g => SlotsOf(C, i) = o - 1 .. o + c - 2
        /\ i = g /\ v < g => SlotsOf(C, i) = o - 1 .. o - 1 + c
        /\ i = v /\ v < g => SlotsOf(C, i) = o .. o + c - 2
    <3>1. /\ i \in BucketsOfBlock /\ o \in Nat /\ c \in Nat
          /\ o = slot_offset(B, i) /\ c = B.count[i]
      BY <2>1
    <3> QED
      BY <1>9, <3>1, ShiftedSlots
  <2>3. i \in Nat /\ g \in Nat /\ v \in Nat
    BY <1>1
  <2>4. CASE i < v
    <3>1. SlotsOf(C, i) = o .. o + c - 1 /\ ~ (i = g)
      BY <2>2, <2>3, <2>4
    <3>2. o + c <= j
      BY <1>4, <2>1, <2>4
    <3>3. ASSUME NEW w \in o .. o + c - 1 PROVE from[w] = w /\ w # -1 /\ w # j
      <4>1. w \in Int /\ o <= w /\ w < o + c
        BY <2>1
      <4>2. 0 <= w /\ w < j /\ w < m
        BY <1>4, <2>1, <3>2, <4>1
      <4>3. w \in Slots
        BY <1>2, <4>1, <4>2
      <4> QED
        BY <1>4, <1>11, <4>1, <4>2, <4>3
    <3>4. Piece(from, o .. o + c - 1, o .. o + c - 1, FALSE)
      BY <3>3, PieceStays
    <3>5. (o .. o + c - 1) \ {j} = o .. o + c - 1
      BY <3>3
    <3> QED
      BY <2>2, <3>1, <3>4, <3>5
  <2>5. CASE i = v
    <3>1. SlotsOf(C, i) = o .. o + c - 2 /\ ~ (i = g)
      BY <1>9, <2>2, <2>5
    <3>2. o = ov /\ c = cv /\ o + c <= last + 1
      BY <1>4, <1>5, <1>6, <2>1, <2>5
    <3>3. ASSUME NEW w \in o .. o + c - 2 PROVE from[w] = IF j <= w THEN w + 1 ELSE w
      <4>1. w \in Int /\ o <= w /\ w <= o + c - 2
        BY <2>1
      <4>2. 0 <= w /\ w < last /\ w < m
        BY <1>6, <2>1, <3>2, <4>1
      <4>3. w \in Slots
        BY <1>2, <4>1, <4>2
      <4>4. j <= w \/ w < j
        BY <1>4, <4>1
      <4> QED
        BY <1>4, <1>11, <4>1, <4>2, <4>3, <4>4
    <3>4. j \in o .. o + c - 1
      BY <1>4, <3>2
    <3>5. Piece(from, o .. o + c - 2, (o .. o + c - 1) \ {j}, FALSE)
      BY <3>3, <3>4, PieceFillsDown
    <3> QED
      BY <2>2, <3>1, <3>5
  <2>6. CASE v < i /\ i < g
    <3>1. SlotsOf(C, i) = o - 1 .. o + c - 2 /\ ~ (i = g)
      BY <2>2, <2>3, <2>6
    <3>2. j < o /\ o + c <= last + 1
      <4>1. o + c <= og /\ ov + cv <= o
        BY <2>1, <2>6
      <4> QED
        BY <1>4, <1>5, <1>6, <2>1, <4>1
    <3>3. ASSUME NEW w \in o - 1 .. o + c - 2 PROVE from[w] = w + 1
      <4>1. w \in Int /\ o - 1 <= w /\ w <= o + c - 2
        BY <2>1
      <4>2. 0 <= w /\ j <= w /\ w < last /\ w < m
        BY <1>4, <1>6, <2>1, <3>2, <4>1
      <4>3. w \in Slots
        BY <1>2, <4>1, <4>2
      <4> QED
        BY <1>11, <4>1, <4>2, <4>3
    <3>4. Piece(from, o - 1 .. o + c - 2, o .. o + c - 1, FALSE)
      <4>1. o - 1 \in Nat
        BY <1>4, <2>1, <3>2
      <4> QED
        BY <3>3, <4>1, PieceMovesDown
    <3>5. (o .. o + c - 1) \ {j} = o .. o + c - 1
      BY <1>4, <2>1, <3>2
    <3> QED
      BY <2>2, <3>1, <3>4, <3>5
  <2>7. CASE i = g
    <3>1. SlotsOf(C, i) = o - 1 .. o - 1 + c
      BY <2>2, <2>7
    <3>2. o - 1 = last /\ o - 1 \in Nat
      BY <1>5, <1>6, <2>1, <2>7
    <3>3. ASSUME NEW w \in o - 1 .. o - 1 + c PROVE from[w] = IF w = o - 1 THEN -1 ELSE w
      <4>1. w \in Int /\ o - 1 <= w /\ w <= o - 1 + c
        BY <2>1
      <4>2. 0 <= w /\ w < m /\ (w = last \/ last < w)
        BY <1>6, <2>1, <3>2, <4>1
      <4>3. w \in Slots
        BY <1>2, <4>1, <4>2
      <4> QED
        BY <1>6, <1>11, <3>2, <4>1, <4>2, <4>3
    <3>4. Piece(from, o - 1 .. o - 1 + c, o .. o + c - 1, TRUE)
      BY <3>2, <3>3, PieceGrowsBefore
    <3>5. (o .. o + c - 1) \ {j} = o .. o + c - 1
      BY <1>4, <1>6, <2>1, <3>2
    <3> QED
      BY <2>2, <2>7, <3>1, <3>4, <3>5
  <2>8. CASE g < i
    <3>1. SlotsOf(C, i) = o .. o + c - 1 /\ ~ (i = g)
      BY <2>2, <2>3, <2>8
    <3>2. last < o
      BY <1>5, <1>6, <2>1, <2>8
    <3>3. ASSUME NEW w \in o .. o + c - 1 PROVE from[w] = w /\ w # -1 /\ w # j
      <4>1. w \in Int /\ o <= w /\ w < o + c
        BY <2>1
      <4>2. 0 <= w /\ w < m /\ last < w
        BY <1>6, <2>1, <3>2, <4>1
      <4>3. w \in Slots
        BY <1>2, <4>1, <4>2
      <4> QED
        BY <1>4, <1>6, <1>11, <4>1, <4>2, <4>3
    <3>4. Piece(from, o .. o + c - 1, o .. o + c - 1, FALSE)
      BY <3>3, PieceStays
    <3>5. (o .. o + c - 1) \ {j} = o .. o + c - 1
      BY <3>3
    <3> QED
      BY <2>2, <3>1, <3>4, <3>5
  <2> QED
    BY <2>3, <2>4, <2>5, <2>6, <2>7, <2>8
<1> QED
  BY <1>8, <1>10, <1>12 DEF Replaces

(* The victim lies in the bucket itself. *)
LEMMA BucketReplaces ==
  ASSUME config \in Configs, NEW B, RunOK(B), NEW C,
         NEW g \in BucketsOfBlock, NEW j \in SlotsOf(B, g), NEW f \in Fingerprints,
         C.count = B.count, C.slots = [B.slots EXCEPT ![j] = f]
  PROVE  RunOK(C) /\ Replaces(B, C, g, f, {j}) /\ occupied_slots(C) = occupied_slots(B)
<1>1. PICK m \in Nat : m = slots_per_block /\ Slots = 0 .. m-1
  BY ConfigFacts
<1>2. \A i \in BucketsOfBlock : SlotsOf(C, i) = SlotsOf(B, i) /\ SlotsOf(B, i) \subseteq Slots
  BY SlotsFacts DEF SlotsOf, slot_offset
<1>3. j \in Slots /\ j < occupied_slots(B) /\ j \in Nat
  BY SlotsFacts
<1>4. B.slots \in [Slots -> Fingerprints \cup {0}]
  BY DEF RunOK
<1>5. RunOK(C) /\ occupied_slots(C) = occupied_slots(B)
  <2>1. C.slots \in [Slots -> Fingerprints \cup {0}]
    BY <1>4
  <2> QED
    BY <2>1 DEF RunOK, occupied_slots, slot_offset
<1>6. PICK from : from = [l \in Slots |-> IF l = j THEN -1 ELSE l]
  OBVIOUS
<1>7. -1 \notin Slots
  BY <1>1
<1>8. from \in [Slots -> Slots \cup {-1}]
  BY <1>6
<1>9. \A l \in Slots : C.slots[l] = IF from[l] = -1 THEN f ELSE B.slots[from[l]]
  BY <1>3, <1>4, <1>6, <1>7
<1>10. ASSUME NEW i \in BucketsOfBlock
       PROVE  Piece(from, SlotsOf(C, i), SlotsOf(B, i) \ {j}, i = g)
  <2>1. CASE i = g
    <3>1. /\ -1 \notin SlotsOf(B, g) /\ j \in SlotsOf(B, g)
          /\ \A l \in SlotsOf(B, g) : from[l] = IF l = j THEN -1 ELSE l
      BY <1>2, <1>6, <1>7
    <3>2. Piece(from, SlotsOf(B, g), SlotsOf(B, g) \ {j}, TRUE)
      BY <3>1, PieceReplaced
    <3> QED
      BY <1>2, <2>1, <3>2
  <2>2. CASE i # g
    <3>1. j \notin SlotsOf(B, i)
      BY <1>3, <2>2, OneBucket
    <3>2. SlotsOf(B, i) \ {j} = SlotsOf(B, i)
      BY <3>1
    <3>3. -1 \notin SlotsOf(B, i) /\ \A l \in SlotsOf(B, i) : from[l] = l
      BY <1>2, <1>6, <1>7, <3>1
    <3>4. Piece(from, SlotsOf(B, i), SlotsOf(B, i), FALSE)
      BY <3>3, PieceStays
    <3> QED
      BY <1>2, <2>2, <3>2, <3>4
  <2> QED
    BY <2>1, <2>2
<1> QED
  BY <1>5, <1>8, <1>9, <1>10 DEF Replaces

-----------------------------------------------------------------------------
(* How the blocks change. *)

(* A block after f was put into bucket a, and the victims were taken out.  *)
Replaced(bs, a, f, victims) ==
  /\ bs = [blocks EXCEPT ![block(a)] = bs[block(a)]]
  /\ BlockOK(bs[block(a)])
  /\ blocks[block(a)].ota \subseteq bs[block(a)].ota
  /\ Replaces(blocks[block(a)], bs[block(a)], bucket_index(a), f, victims)

(* What is taken. *)
LEMMA TakenFacts ==
  ASSUME config \in Configs, NEW bs, BlocksOK(bs)
  PROVE  /\ \A t \in Taken(bs) : /\ t = <<t[1], t[2]>> /\ t[1] \in Addresses /\ t[2] \in Slots
                                 /\ t[2] \in SlotsOf(bs[block(t[1])], bucket_index(t[1]))
         /\ \A a \in Addresses, j \in Slots :
              j \in SlotsOf(bs[block(a)], bucket_index(a)) => <<a, j>> \in Taken(bs)
         /\ \A a \in Addresses : BlockOK(bs[block(a)]) /\ RunOK(bs[block(a)])
         /\ \A a \in Addresses : SlotsOf(bs[block(a)], bucket_index(a)) \subseteq Slots
         /\ IsFiniteSet(Taken(bs))
<1>1. \A a \in Addresses : BlockOK(bs[block(a)]) /\ RunOK(bs[block(a)])
  BY AddressFacts DEF BlocksOK, BlockOK
<1>2. \A a \in Addresses : SlotsOf(bs[block(a)], bucket_index(a)) \subseteq Slots
  BY <1>1, AddressFacts, SlotsFacts
<1>3. IsFiniteSet(Taken(bs))
  <2>1. IsFiniteSet(Addresses) /\ IsFiniteSet(Slots)
    <3>1. /\ size - 1 \in Int /\ slots_per_block - 1 \in Int
          /\ Addresses = 0 .. size - 1 /\ Slots = 0 .. slots_per_block - 1
      BY ConfigFacts
    <3> QED
      BY <3>1, FS_Interval
  <2>2. IsFiniteSet(Addresses \X Slots)
    BY <2>1, FS_Product
  <2>3. Taken(bs) \subseteq Addresses \X Slots
    BY DEF Taken
  <2> QED
    BY <2>2, <2>3, FS_Subset
<1>4. \A t \in Taken(bs) : /\ t = <<t[1], t[2]>> /\ t[1] \in Addresses /\ t[2] \in Slots
                           /\ t[2] \in SlotsOf(bs[block(t[1])], bucket_index(t[1]))
  BY DEF Taken
<1>5. \A a \in Addresses, j \in Slots :
        j \in SlotsOf(bs[block(a)], bucket_index(a)) => <<a, j>> \in Taken(bs)
  BY DEF Taken
<1> QED
  BY <1>1, <1>2, <1>3, <1>4, <1>5

(* The other blocks stay, and so does the form of all.                     *)
LEMMA ReplacedBlocks ==
  ASSUME config \in Configs, BlocksOK(blocks), NEW a \in Addresses, NEW f, NEW bs,
         NEW victims, Replaced(bs, a, f, victims)
  PROVE  /\ BlocksOK(bs)
         /\ \A b \in 0 .. n_blocks - 1 : b # block(a) => bs[b] = blocks[b]
<1>1. PICK p : p = block(a)
  OBVIOUS
<1>2. p \in 0 .. n_blocks - 1 /\ bucket_index(a) \in BucketsOfBlock
  BY <1>1, AddressFacts
<1>3. DOMAIN blocks = 0 .. n_blocks - 1
  <2>1. blocks = [b \in 0 .. n_blocks - 1 |-> blocks[b]]
    BY DEF BlocksOK
  <2> QED
    BY <2>1
<1>4. bs = [blocks EXCEPT ![p] = bs[p]]
  BY <1>1 DEF Replaced
<1>5. \A b \in 0 .. n_blocks - 1 : b # p => bs[b] = blocks[b]
  BY <1>3, <1>4
<1>6. bs = [b \in 0 .. n_blocks - 1 |-> bs[b]]
  BY <1>3, <1>4
<1>7. BlockOK(bs[p]) /\ RunOK(bs[p]) /\ RunOK(blocks[p])
  BY <1>1, <1>2 DEF Replaced, BlockOK, BlocksOK
<1>8. ASSUME NEW i \in BucketsOfBlock, bs[p].count[i] > 0
      PROVE  config.buckets_per_block * p + i \in Addresses
  <2>1. PICK from \in [Slots -> Slots \cup {-1}] :
          Piece(from, SlotsOf(bs[p], i), SlotsOf(blocks[p], i) \ victims, i = bucket_index(a))
    BY <1>1, <1>8 DEF Replaced, Replaces
  <2>2. PICK j : j \in SlotsOf(bs[p], i)
    <3>1. slot_offset(bs[p], i) \in Nat /\ bs[p].count[i] \in Nat
      BY <1>7, <1>8, Offsets
    <3>2. slot_offset(bs[p], i) \in SlotsOf(bs[p], i)
      BY <1>8, <3>1 DEF SlotsOf
    <3> QED
      BY <3>2
  <2>3. CASE i = bucket_index(a)
    BY <1>1, <2>3, AddressFacts
  <2>4. CASE i # bucket_index(a)
    <3>1. from[j] \in SlotsOf(blocks[p], i)
      BY <2>1, <2>2, <2>4 DEF Piece
    <3>2. blocks[p].count[i] > 0
      <4>1. slot_offset(blocks[p], i) \in Nat /\ blocks[p].count[i] \in Nat
        BY <1>7, <1>8, Offsets
      <4> QED
        BY <3>1, <4>1 DEF SlotsOf
    <3> QED
      BY <1>2, <3>2 DEF BlocksOK
  <2> QED
    BY <2>3, <2>4
<1>9. ASSUME NEW b \in 0 .. n_blocks - 1
      PROVE  /\ BlockOK(bs[b])
             /\ \A i \in BucketsOfBlock :
                  bs[b].count[i] > 0 => config.buckets_per_block * b + i \in Addresses
  <2>1. CASE b = p
    BY <1>7, <1>8, <2>1
  <2>2. CASE b # p
    BY <1>5, <2>2 DEF BlocksOK
  <2> QED
    BY <2>1, <2>2
<1> QED
  BY <1>1, <1>5, <1>6, <1>9 DEF BlocksOK

(* Where what is taken comes from: the new fingerprint from no slot, all   *)
(* others from the slots that are not left out.                            *)
Entering(a) == <<a, -1>>
Leaving(a, victims) == {t \in Taken(blocks) : block(t[1]) = block(a) /\ t[2] \in victims}

Moved(from, bs, a, f, victims) ==
  /\ from \in [Taken(bs) -> (Taken(blocks) \ Leaving(a, victims)) \cup {Entering(a)}]
  /\ \A t, u \in Taken(bs) : from[t] = from[u] => t = u
  /\ \A u \in (Taken(blocks) \ Leaving(a, victims)) \cup {Entering(a)} :
       \E t \in Taken(bs) : from[t] = u
  /\ \A t \in Taken(bs) :
       SlotClasses(bs)[t] = IF from[t] = Entering(a) THEN Class(f, a)
                            ELSE SlotClasses(blocks)[from[t]]
  /\ \A t \in Taken(bs) : from[t][1] = t[1]

(* Every slot taken afterwards has got its fingerprint from one taken before, *)
(* or the one that was in hand.                                               *)
LEMMA TakenFrom ==
  ASSUME config \in Configs, BlocksOK(blocks), NEW a \in Addresses, NEW f, NEW bs,
         NEW victims, Replaced(bs, a, f, victims)
  PROVE  /\ Entering(a) \notin Taken(blocks)
         /\ \E from : Moved(from, bs, a, f, victims)
<1>1. PICK new, out : /\ new = <<a, -1>>
                      /\ out = {t \in Taken(blocks) : block(t[1]) = block(a) /\ t[2] \in victims}
                      /\ new = Entering(a) /\ out = Leaving(a, victims)
  BY DEF Entering, Leaving
<1>2. PICK p, g : p = block(a) /\ g = bucket_index(a)
  OBVIOUS
<1>3. PICK B, C : B = blocks[p] /\ C = bs[p]
  OBVIOUS
<1>4. PICK step \in [Slots -> Slots \cup {-1}] :
        /\ \A j \in Slots : C.slots[j] = IF step[j] = -1 THEN f ELSE B.slots[step[j]]
        /\ \A i \in BucketsOfBlock :
             Piece(step, SlotsOf(C, i), SlotsOf(B, i) \ victims, i = g)
  BY <1>2, <1>3 DEF Replaced, Replaces
<1>5. /\ BlocksOK(bs)
      /\ \A b \in 0 .. n_blocks - 1 : b # p => bs[b] = blocks[b]
  BY <1>2, ReplacedBlocks
<1>6. /\ \A e \in Addresses : /\ block(e) \in 0 .. n_blocks - 1
                              /\ bucket_index(e) \in BucketsOfBlock
                              /\ block(e) = p /\ bucket_index(e) = g => e = a
      /\ -1 \notin Slots /\ g \in BucketsOfBlock /\ p \in 0 .. n_blocks - 1
  <2>1. -1 \notin Slots
    BY ConfigFacts
  <2> QED
    BY <1>2, <2>1, AddressFacts
<1>7. new \notin Taken(blocks)
  BY <1>1, <1>6, TakenFacts
<1>8. PICK from : from = [t \in Taken(bs) |-> IF block(t[1]) = p THEN <<t[1], step[t[2]]>> ELSE t]
  OBVIOUS
<1>9. ASSUME NEW t \in Taken(bs), block(t[1]) = p
      PROVE  /\ t = <<t[1], t[2]>> /\ t[1] \in Addresses /\ t[2] \in Slots
             /\ bucket_index(t[1]) \in BucketsOfBlock
             /\ t[2] \in SlotsOf(C, bucket_index(t[1]))
             /\ from[t] = <<t[1], step[t[2]]>>
             /\ \/ from[t] = new /\ step[t[2]] = -1 /\ t[1] = a
                \/ from[t] \in Taken(blocks) \ out /\ step[t[2]] # -1 /\ from[t] # new
  <2>1. /\ t = <<t[1], t[2]>> /\ t[1] \in Addresses /\ t[2] \in Slots
        /\ t[2] \in SlotsOf(C, bucket_index(t[1]))
    BY <1>3, <1>5, <1>9, TakenFacts
  <2>2. from[t] = <<t[1], step[t[2]]>> /\ bucket_index(t[1]) \in BucketsOfBlock
    BY <1>6, <1>8, <1>9, <2>1
  <2>3. IF step[t[2]] = -1 THEN bucket_index(t[1]) = g
        ELSE step[t[2]] \in SlotsOf(B, bucket_index(t[1])) \ victims
    BY <1>4, <2>1, <2>2 DEF Piece
  <2>4. CASE step[t[2]] = -1
    BY <1>1, <1>6, <1>9, <2>1, <2>2, <2>3, <2>4
  <2>5. CASE step[t[2]] # -1
    <3>1. /\ step[t[2]] \in SlotsOf(blocks[block(t[1])], bucket_index(t[1]))
          /\ step[t[2]] \in Slots /\ step[t[2]] \notin victims
      BY <1>3, <1>4, <1>9, <2>1, <2>3, <2>5
    <3>2. <<t[1], step[t[2]]>> \in Taken(blocks)
      BY <2>1, <3>1, TakenFacts
    <3>3. <<t[1], step[t[2]]>> \notin out
      BY <1>1, <3>1
    <3> QED
      BY <1>7, <2>1, <2>2, <2>5, <3>2, <3>3
  <2> QED
    BY <2>1, <2>2, <2>4, <2>5
<1>10. ASSUME NEW t \in Taken(bs), block(t[1]) # p
       PROVE  /\ from[t] = t /\ t \in Taken(blocks) \ out /\ from[t] # new
              /\ bs[block(t[1])] = blocks[block(t[1])]
  <2>1. /\ t = <<t[1], t[2]>> /\ t[1] \in Addresses /\ t[2] \in Slots
        /\ t[2] \in SlotsOf(bs[block(t[1])], bucket_index(t[1]))
    BY <1>5, TakenFacts
  <2>2. bs[block(t[1])] = blocks[block(t[1])]
    BY <1>5, <1>6, <1>10, <2>1
  <2>3. <<t[1], t[2]>> \in Taken(blocks)
    BY <2>1, <2>2, TakenFacts
  <2> QED
    BY <1>1, <1>2, <1>7, <1>8, <1>10, <2>1, <2>2, <2>3
<1>11. from \in [Taken(bs) -> (Taken(blocks) \ out) \cup {new}]
  <2>1. \A t \in Taken(bs) : from[t] \in (Taken(blocks) \ out) \cup {new}
    BY <1>9, <1>10
  <2> QED
    BY <1>8, <2>1
<1>12. ASSUME NEW t \in Taken(bs) PROVE from[t][1] = t[1]
  BY <1>9, <1>10
<1>13. ASSUME NEW t \in Taken(bs), NEW u \in Taken(bs), from[t] = from[u]
       PROVE  t = u
  <2>1. t[1] = u[1]
    BY <1>12, <1>13
  <2>2. CASE block(t[1]) = p
    <3>1. step[t[2]] = step[u[2]]
      <4>1. from[t] = <<t[1], step[t[2]]>> /\ from[u] = <<u[1], step[u[2]]>>
        BY <1>9, <2>1, <2>2
      <4>2. from[t][2] = step[t[2]] /\ from[u][2] = step[u[2]]
        BY <4>1
      <4> QED
        BY <1>13, <4>2
    <3>2. t[2] = u[2]
      BY <1>4, <1>9, <2>1, <2>2, <3>1 DEF Piece
    <3> QED
      BY <1>9, <2>1, <2>2, <3>2
  <2>3. CASE block(t[1]) # p
    BY <1>10, <1>13, <2>1, <2>3
  <2> QED
    BY <2>2, <2>3
<1>14. ASSUME NEW u \in Taken(blocks) \ out
       PROVE  \E t \in Taken(bs) : from[t] = u
  <2>1. /\ u = <<u[1], u[2]>> /\ u[1] \in Addresses /\ u[2] \in Slots
        /\ u[2] \in SlotsOf(blocks[block(u[1])], bucket_index(u[1]))
    BY TakenFacts
  <2>2. CASE block(u[1]) = p
    <3>1. u[2] \in SlotsOf(B, bucket_index(u[1])) \ victims /\ bucket_index(u[1]) \in BucketsOfBlock
      BY <1>1, <1>2, <1>3, <1>6, <2>1, <2>2
    <3>2. PICK j \in SlotsOf(C, bucket_index(u[1])) : step[j] = u[2]
      BY <1>4, <3>1 DEF Piece
    <3>3. j \in Slots /\ <<u[1], j>> \in Taken(bs)
      BY <1>3, <1>5, <2>1, <2>2, TakenFacts
    <3>4. from[<<u[1], j>>] = <<u[1], step[j]>>
      BY <1>8, <2>2, <3>3
    <3> QED
      BY <2>1, <3>2, <3>3, <3>4
  <2>3. CASE block(u[1]) # p
    <3>1. bs[block(u[1])] = blocks[block(u[1])]
      BY <1>5, <1>6, <2>1, <2>3
    <3>2. u \in Taken(bs)
      BY <1>5, <2>1, <3>1, TakenFacts
    <3> QED
      BY <1>10, <2>3, <3>2
  <2> QED
    BY <2>2, <2>3
<1>15. \E t \in Taken(bs) : from[t] = new
  <2>1. PICK j \in SlotsOf(C, g) : step[j] = -1
    BY <1>4, <1>6 DEF Piece
  <2>2. j \in Slots /\ <<a, j>> \in Taken(bs)
    BY <1>2, <1>3, <1>5, TakenFacts
  <2>3. from[<<a, j>>] = <<a, step[j]>>
    BY <1>2, <1>8, <2>2
  <2> QED
    BY <1>1, <2>1, <2>2, <2>3
<1>16. ASSUME NEW t \in Taken(bs)
       PROVE  SlotClasses(bs)[t] = IF from[t] = new THEN Class(f, a)
                                   ELSE SlotClasses(blocks)[from[t]]
  <2>1. SlotClasses(bs)[t] = Class(bs[block(t[1])].slots[t[2]], t[1])
    BY DEF SlotClasses
  <2>2. CASE block(t[1]) = p
    <3>1. C.slots[t[2]] = IF step[t[2]] = -1 THEN f ELSE B.slots[step[t[2]]]
      BY <1>4, <1>9, <2>2
    <3>2. CASE step[t[2]] = -1
      <4>1. from[t] = new /\ t[1] = a
        BY <1>9, <2>2, <3>2
      <4> QED
        BY <1>3, <2>1, <2>2, <3>1, <3>2, <4>1
    <3>3. CASE step[t[2]] # -1
      <4>1. from[t] \in Taken(blocks) /\ from[t] # new /\ from[t] = <<t[1], step[t[2]]>>
        BY <1>9, <2>2, <3>3
      <4>2. from[t][1] = t[1] /\ from[t][2] = step[t[2]]
        BY <4>1
      <4>3. SlotClasses(blocks)[from[t]] = Class(B.slots[step[t[2]]], t[1])
        BY <1>3, <2>2, <4>1, <4>2 DEF SlotClasses
      <4> QED
        BY <1>3, <2>1, <2>2, <3>1, <3>3, <4>1, <4>3
    <3> QED
      BY <3>2, <3>3
  <2>3. CASE block(t[1]) # p
    <3>1. SlotClasses(blocks)[t] = Class(blocks[block(t[1])].slots[t[2]], t[1])
      BY <1>10, <2>3 DEF SlotClasses
    <3> QED
      BY <1>10, <2>1, <2>3, <3>1
  <2> QED
    BY <2>2, <2>3
<1> QED
  <2>1. Moved(from, bs, a, f, victims)
    BY <1>1, <1>11, <1>12, <1>13, <1>14, <1>15, <1>16 DEF Moved
  <2> QED
    BY <1>1, <1>7, <2>1

(* The owners go along: those of the victims are left with the fingerprint *)
(* that is now in hand.                                                    *)
LEMMA ReplacedMatch ==
  ASSUME config \in Configs, BlocksOK(blocks), NEW a \in Addresses, NEW f, NEW bs,
         NEW victims, Replaced(bs, a, f, victims),
         NEW keys, OneEach(SlotClasses(blocks), keys, {Class(f, a)})
  PROVE  /\ OneEach(SlotClasses(bs), keys, {})
         /\ \A t \in Leaving(a, victims) :
              OneEach(SlotClasses(bs), keys, {SlotClasses(blocks)[t]})
<1>1. PICK from : Moved(from, bs, a, f, victims)
  BY TakenFrom
<1>2. PICK old, new, w, h : /\ old = SlotClasses(blocks) /\ new = SlotClasses(bs)
                            /\ w = Class(f, a) /\ h = Entering(a)
  OBVIOUS
<1>3. DOMAIN old = Taken(blocks) /\ DOMAIN new = Taken(bs)
  BY <1>2 DEF SlotClasses
<1>4. h \notin DOMAIN old
  BY <1>2, <1>3, TakenFrom
<1>5. /\ from \in [DOMAIN new -> (DOMAIN old \ Leaving(a, victims)) \cup {h}]
      /\ \A t, u \in DOMAIN new : from[t] = from[u] => t = u
      /\ \A t \in DOMAIN new : new[t] = IF from[t] = h THEN w ELSE old[from[t]]
  BY <1>1, <1>2, <1>3 DEF Moved
<1>6. from \in [DOMAIN new -> DOMAIN old \cup {h}]
  BY <1>5
<1>7. OneEach(old, keys, {w})
  BY <1>2
<1>8. /\ OneEach(new, keys, {})
      /\ \A v \in DOMAIN old :
           (\A t \in DOMAIN new : from[t] # v) => OneEach(new, keys, {old[v]})
  <2>1. Carried(from, old, new, h, w)
    BY <1>4, <1>5, <1>6 DEF Carried
  <2> QED
    BY <1>7, <2>1, MatchMove
<1>9. ASSUME NEW v \in Leaving(a, victims)
      PROVE  v \in DOMAIN old /\ \A t \in DOMAIN new : from[t] # v
  <2>1. v \in DOMAIN old
    BY <1>3 DEF Leaving
  <2> QED
    BY <1>4, <1>5, <2>1
<1> QED
  BY <1>2, <1>8, <1>9

(* How many slots are taken. *)
LEMMA ReplacedCount ==
  ASSUME config \in Configs, BlocksOK(blocks), NEW a \in Addresses, NEW f, NEW bs,
         NEW victims, Replaced(bs, a, f, victims)
  PROVE  /\ Cardinality(Taken(blocks)) \in Nat
         /\ Leaving(a, victims) = {} => Cardinality(Taken(bs)) = Cardinality(Taken(blocks)) + 1
         /\ \A t : Leaving(a, victims) = {t} => Cardinality(Taken(bs)) = Cardinality(Taken(blocks))
<1>1. PICK from : Moved(from, bs, a, f, victims)
  BY TakenFrom
<1>2. PICK S, T, R, h : /\ S = Taken(blocks) /\ T = Taken(bs) /\ h = Entering(a)
                        /\ R = S \ Leaving(a, victims)
  OBVIOUS
<1>3. IsFiniteSet(S) /\ IsFiniteSet(T)
  BY <1>2, TakenFacts, ReplacedBlocks
<1>4. R \subseteq S /\ IsFiniteSet(R) /\ h \notin R
  BY <1>2, <1>3, TakenFrom, FS_Subset
<1>5. IsFiniteSet(R \cup {h}) /\ Cardinality(R \cup {h}) = Cardinality(R) + 1
  BY <1>4, FS_AddElement
<1>6. Cardinality(T) = Cardinality(R \cup {h})
  <2>1. /\ from \in [T -> R \cup {h}]
        /\ \A t, u \in T : from[t] = from[u] => t = u
        /\ \A u \in R \cup {h} : \E t \in T : from[t] = u
    BY <1>1, <1>2 DEF Moved
  <2>2. from \in Bijection(T, R \cup {h})
    BY <2>1 DEF Bijection, Injection, Surjection, IsInjective
  <2>3. ExistsBijection(T, R \cup {h})
    BY <2>2 DEF ExistsBijection
  <2> QED
    BY <1>3, <1>5, <2>3, FS_Bijection
<1>7. Cardinality(S) \in Nat /\ Cardinality(R) \in Nat
  BY <1>3, <1>4, FS_CardinalityType
<1>8. Leaving(a, victims) = {} => R = S
  BY <1>2
<1>9. ASSUME NEW t, Leaving(a, victims) = {t}
      PROVE  Cardinality(R) = Cardinality(S) - 1
  <2>1. t \in S
    BY <1>2, <1>9 DEF Leaving
  <2>2. R = S \ {t}
    BY <1>2, <1>9
  <2> QED
    BY <1>3, <2>1, <2>2, FS_RemoveElement
<1>10. Cardinality(T) = Cardinality(R) + 1
  BY <1>5, <1>6
<1>11. Leaving(a, victims) = {} => Cardinality(T) = Cardinality(S) + 1
  BY <1>8, <1>10
<1>12. ASSUME NEW t, Leaving(a, victims) = {t} PROVE Cardinality(T) = Cardinality(S)
  BY <1>7, <1>9, <1>10, <1>12
<1> QED
  BY <1>2, <1>7, <1>11, <1>12

(* What is found in a bucket is still found in it, or the bucket is known  *)
(* to have overflowed.                                                     *)
LEMMA ReplacedMarks ==
  ASSUME config \in Configs, BlocksOK(blocks), NEW a \in Addresses, NEW f, NEW bs,
         NEW victims, Replaced(bs, a, f, victims),
         \A i \in BucketsOfBlock :
           SlotsOf(blocks[block(a)], i) \cap victims # {} => get_ota(bs[block(a)], i)
  PROVE  /\ Holds(bs, f, a)
         /\ \A x : \A e \in Addresses : Holds(blocks, x, e) \/ Left(blocks, e)
                                      => Holds(bs, x, e) \/ Left(bs, e)
<1>1. PICK p, g : p = block(a) /\ g = bucket_index(a) /\ g \in BucketsOfBlock
  BY AddressFacts
<1>2. PICK B, C : B = blocks[p] /\ C = bs[p]
  OBVIOUS
<1>3. PICK step \in [Slots -> Slots \cup {-1}] :
        /\ \A j \in Slots : C.slots[j] = IF step[j] = -1 THEN f ELSE B.slots[step[j]]
        /\ \A i \in BucketsOfBlock :
             Piece(step, SlotsOf(C, i), SlotsOf(B, i) \ victims, i = g)
  BY <1>1, <1>2 DEF Replaced, Replaces
<1>4. /\ BlocksOK(bs)
      /\ \A b \in 0 .. n_blocks - 1 : b # p => bs[b] = blocks[b]
  BY <1>1, ReplacedBlocks
<1>5. \A e \in Addresses : block(e) \in 0 .. n_blocks - 1 /\ bucket_index(e) \in BucketsOfBlock
  BY AddressFacts
<1>6. Holds(bs, f, a)
  <2>1. PICK j \in SlotsOf(C, g) : step[j] = -1
    BY <1>1, <1>3 DEF Piece
  <2>2. j \in Slots
    BY <1>1, <1>2, <1>4, TakenFacts
  <2>3. C.slots[j] = f
    BY <1>3, <2>1, <2>2
  <2> QED
    BY <1>1, <1>2, <2>1, <2>3 DEF Holds
<1>7. ASSUME NEW e \in Addresses, NEW x, Holds(blocks, x, e), block(e) = p
      PROVE  Holds(bs, x, e) \/ Left(bs, e)
  <2>1. PICK i \in BucketsOfBlock : i = bucket_index(e)
    BY <1>5
  <2>2. PICK l \in SlotsOf(B, i) : B.slots[l] = x
    BY <1>2, <1>7, <2>1 DEF Holds
  <2>3. CASE l \in victims
    <3>1. get_ota(C, i)
      BY <1>1, <1>2, <2>2, <2>3
    <3> QED
      BY <1>2, <1>7, <2>1, <3>1 DEF Left
  <2>4. CASE l \notin victims
    <3>1. PICK j \in SlotsOf(C, i) : step[j] = l
      BY <1>3, <2>2, <2>4 DEF Piece
    <3>2. j \in Slots /\ l \in Slots /\ -1 \notin Slots
      <4>1. -1 \notin Slots
        BY ConfigFacts
      <4> QED
        BY <1>2, <1>4, <1>7, <2>1, <2>2, <4>1, TakenFacts
    <3>3. C.slots[j] = x
      BY <1>3, <2>2, <3>1, <3>2
    <3> QED
      BY <1>2, <1>7, <2>1, <3>1, <3>3 DEF Holds
  <2> QED
    BY <2>3, <2>4
<1>8. ASSUME NEW e \in Addresses, Left(blocks, e) PROVE Left(bs, e)
  <2>1. CASE block(e) = p
    <3>1. B.ota \subseteq C.ota
      BY <1>1, <1>2 DEF Replaced
    <3> QED
      BY <1>2, <1>8, <2>1, <3>1 DEF Left, get_ota
  <2>2. CASE block(e) # p
    BY <1>4, <1>5, <1>8, <2>2 DEF Left
  <2> QED
    BY <2>1, <2>2
<1>9. ASSUME NEW e \in Addresses, NEW x, Holds(blocks, x, e), block(e) # p
      PROVE  Holds(bs, x, e)
  BY <1>4, <1>5, <1>9 DEF Holds
<1> QED
  BY <1>6, <1>7, <1>8, <1>9

-----------------------------------------------------------------------------
(* Steps. *)

(* The layout depends on the configuration alone. *)
LEMMA LayoutKept ==
  ASSUME config' = config
  PROVE  /\ Keys' = Keys /\ BucketsOfBlock' = BucketsOfBlock /\ Slots' = Slots
         /\ slots_per_block' = slots_per_block /\ n_blocks' = n_blocks
         /\ buckets' = buckets /\ Addresses' = Addresses
BY DEF Keys, BucketsOfBlock, Slots, slots_per_block, n_blocks, buckets, size, Addresses

(* What is said of the blocks afterwards is said of their new value. *)
LEMMA BlocksKept ==
  ASSUME config' = config, NEW bs, bs = blocks'
  PROVE  /\ BlocksOK(bs) => BlocksOK(blocks)'
         /\ Taken(blocks)' = Taken(bs)
         /\ SlotClasses(blocks)' = SlotClasses(bs)
         /\ \A f, a : Holds(bs, f, a) <=> Holds(blocks, f, a)'
         /\ \A a : Left(bs, a) <=> Left(blocks, a)'
<1>1. BlocksOK(bs) => BlocksOK(blocks)'
  BY LayoutKept DEF BlocksOK, BlockOK, RunOK, occupied_slots, slot_offset
<1>2. Taken(blocks)' = Taken(bs)
  BY LayoutKept DEF Taken, SlotsOf, slot_offset, block, bucket_index
<1>3. SlotClasses(blocks)' = SlotClasses(bs)
  BY <1>2, LayoutKept DEF SlotClasses, Class, alternative, block
<1>4. \A f, a : Holds(bs, f, a) <=> Holds(blocks, f, a)'
  BY DEF Holds, SlotsOf, slot_offset, block, bucket_index
<1>5. \A a : Left(bs, a) <=> Left(blocks, a)'
  BY DEF Left, get_ota, block, bucket_index
<1> QED
  BY <1>1, <1>2, <1>3, <1>4, <1>5

(* The layout and the classes do not change. *)
LEMMA ClassKept ==
  ASSUME config' = config
  PROVE  \A f, a : /\ Class(f, a)' = Class(f, a) /\ block(a)' = block(a)
                   /\ bucket_index(a)' = bucket_index(a)
BY LayoutKept DEF Class, alternative, block, bucket_index

(* Keys whose hashes stay keep their classes. *)
LEMMA KeysSame ==
  ASSUME config' = config, hash' = hash
  PROVE  Begun' = Begun /\ KeyClasses' = KeyClasses
<1>1. Begun' = Begun
  BY LayoutKept DEF Begun
<1>2. KeyClasses' = KeyClasses
  BY <1>1, LayoutKept DEF KeyClasses, ClassOf, Class, alternative
<1> QED
  BY <1>1, <1>2

(* What is read of a bucket on arrival, and that it is a record. *)
LEMMA ArriveFacts ==
  ASSUME NEW f, NEW a, NEW B
  PROVE  /\ Arrive(f, a, B).fingerprint = f /\ Arrive(f, a, B).address = a
         /\ Arrive(f, a, B).slot_count = B.count[bucket_index(a)]
         /\ Arrive(f, a, B).occupied = occupied_slots(B)
         /\ Arrive(f, a, B).free = is_free(B, bucket_index(a))
BY DEF Arrive

(* What is taken is no Null, if all of it is right. *)
LEMMA ArriveNotNull ==
  ASSUME config \in Configs, NEW f \in Fingerprints, NEW a \in Addresses,
         NEW B, RunOK(B)
  PROVE  Arrive(f, a, B) # Null
<1>1. bucket_index(a) \in BucketsOfBlock /\ a \in Nat
  BY AddressFacts, ConfigFacts
<1>2. B.count[bucket_index(a)] \in Nat /\ occupied_slots(B) \in Nat
  BY <1>1, Offsets
<1>3. is_free(B, bucket_index(a)) \in BOOLEAN
  BY DEF is_free
<1>4. Arrive(f, a, B) \in [fingerprint : Fingerprints, address : Nat, slot_count : Nat,
                           occupied : Nat, free : BOOLEAN]
  BY <1>1, <1>2, <1>3 DEF Arrive
<1> QED
  BY <1>4, NullAssumption

(* The hand and its bucket. *)
LEMMA HandFacts ==
  ASSUME MortonInv, hand # Null
  PROVE  /\ config \in Configs /\ config.histogram > 0
         /\ hand.fingerprint \in Fingerprints /\ hand.address \in Addresses
         /\ block(hand.address) \in 0 .. n_blocks - 1 /\ Index \in BucketsOfBlock
         /\ Block = blocks[block(hand.address)] /\ BlockOK(Block) /\ RunOK(Block)
         /\ hand.slot_count = Block.count[Index]
         /\ hand.occupied = occupied_slots(Block)
         /\ hand.free = is_free(Block, Index)
         /\ hand.address = config.buckets_per_block * block(hand.address) + Index
         /\ HandClasses = {Class(hand.fingerprint, hand.address)}
<1>1. /\ config \in Configs /\ begin \in 0 .. config.histogram /\ begin < config.histogram
      /\ hand.fingerprint \in Fingerprints /\ hand.address \in Addresses
      /\ BlocksOK(blocks) /\ hand = Arrive(hand.fingerprint, hand.address, Block)
  BY DEF MortonInv, KeysOK, HandOK, CountersFresh
<1>2. config.histogram > 0
  BY <1>1, ConfigFacts
<1>3. /\ block(hand.address) \in 0 .. n_blocks - 1 /\ Index \in BucketsOfBlock
      /\ hand.address = config.buckets_per_block * block(hand.address) + Index
  BY <1>1, AddressFacts DEF Index
<1>4. Block = blocks[block(hand.address)] /\ BlockOK(Block) /\ RunOK(Block)
  BY <1>1, <1>3 DEF Block, BlocksOK, BlockOK
<1>5. /\ hand.slot_count = Block.count[Index]
      /\ hand.occupied = occupied_slots(Block)
      /\ hand.free = is_free(Block, Index)
  BY <1>1, ArriveFacts DEF Index
<1>6. HandClasses = {Class(hand.fingerprint, hand.address)}
  BY DEF HandClasses
<1> QED
  BY <1>1, <1>2, <1>3, <1>4, <1>5, <1>6

(* Whatever is taken has the fingerprint of a key, and leads somewhere. *)
LEMMA VictimFacts ==
  ASSUME MortonInv, hand # Null, NEW i \in BucketsOfBlock, NEW j \in SlotsOf(Block, i)
  PROVE  LET e == config.buckets_per_block * block(hand.address) + i
             x == Block.slots[j]
         IN  /\ e \in Addresses /\ <<e, j>> \in Taken(blocks)
             /\ block(e) = block(hand.address) /\ bucket_index(e) = i
             /\ x \in Fingerprints /\ alternative(e, x) \in Addresses
             /\ SlotClasses(blocks)[<<e, j>>] = Class(x, alternative(e, x))
<1>1. PICK e, x : /\ e = config.buckets_per_block * block(hand.address) + i
                  /\ x = Block.slots[j]
  OBVIOUS
<1>2. /\ config \in Configs /\ config.histogram > 0 /\ BlocksOK(blocks)
      /\ block(hand.address) \in 0 .. n_blocks - 1
      /\ Block = blocks[block(hand.address)] /\ RunOK(Block)
  BY HandFacts DEF MortonInv
<1>3. Block.count[i] > 0
  BY <1>2, Offsets DEF SlotsOf
<1>4. e \in Addresses
  BY <1>1, <1>2, <1>3 DEF BlocksOK
<1>5. block(e) = block(hand.address) /\ bucket_index(e) = i
  <2>1. block(hand.address) \in Nat
    BY <1>2
  <2> QED
    BY <1>1, <1>2, <2>1, AddressFacts
<1>6. j \in Slots
  BY <1>2, SlotsFacts
<1>7. <<e, j>> \in Taken(blocks)
  BY <1>2, <1>4, <1>5, <1>6, TakenFacts
<1>8. SlotClasses(blocks)[<<e, j>>] = Class(x, e)
  BY <1>1, <1>2, <1>5, <1>7 DEF SlotClasses
<1>9. x \in Fingerprints
  <2>1. OneEach(SlotClasses(blocks), KeyClasses, HandClasses)
    BY DEF MortonInv, Matched
  <2>2. PICK owner \in [DOMAIN SlotClasses(blocks) -> DOMAIN KeyClasses] :
          \A u \in DOMAIN SlotClasses(blocks) :
            KeyClasses[owner[u]] = SlotClasses(blocks)[u]
    BY <2>1 DEF OneEach
  <2>3. DOMAIN SlotClasses(blocks) = Taken(blocks) /\ DOMAIN KeyClasses = Begun
    BY DEF SlotClasses, KeyClasses
  <2>4. PICK y \in Begun : KeyClasses[y] = Class(x, e)
    BY <1>7, <1>8, <2>2, <2>3
  <2>5. Class(x, e) = Class(hash[y].fingerprint, hash[y].address)
    BY <2>4 DEF KeyClasses, ClassOf
  <2>6. x = hash[y].fingerprint
    BY <2>5 DEF Class
  <2>7. hash[y].fingerprint \in Fingerprints
    BY <1>2 DEF MortonInv, KeysOK, Begun
  <2> QED
    BY <2>6, <2>7
<1>10. alternative(e, x) \in Addresses /\ Class(x, alternative(e, x)) = Class(x, e)
  BY <1>2, <1>4, <1>9, AlternativeFacts
<1> QED
  BY <1>1, <1>4, <1>5, <1>7, <1>8, <1>9, <1>10

(* A fingerprint in hand takes the slot of a victim.                       *)
LEMMA EvictKeepsInv ==
  ASSUME MortonInv, hand # Null, tries \in 1 .. MAX_ITERATION,
         NEW v \in BucketsOfBlock, NEW j \in SlotsOf(Block, v), NEW e, NEW x, NEW a, NEW C,
         e = config.buckets_per_block * block(hand.address) + v,
         x = Block.slots[j], a = alternative(e, x),
         BlockOK(C), Block.ota \subseteq C.ota, get_ota(C, v),
         Replaces(Block, C, Index, hand.fingerprint, {j}),
         blocks' = [blocks EXCEPT ![block(hand.address)] = C],
         hand' = Arrive(x, a, blocks'[block(a)]),
         tries' = tries + 1,
         UNCHANGED <<config, pc, begin, hash, success, dropped>>
  PROVE  MortonInv'
<1>1. PICK p, h, f : p = block(hand.address) /\ h = hand.address /\ f = hand.fingerprint
  OBVIOUS
<1>2. /\ config \in Configs /\ config.histogram > 0 /\ BlocksOK(blocks)
      /\ f \in Fingerprints /\ h \in Addresses
      /\ p \in 0 .. n_blocks - 1 /\ Index \in BucketsOfBlock /\ Index = bucket_index(h)
      /\ Block = blocks[p] /\ RunOK(Block)
      /\ HandClasses = {Class(f, h)}
  BY <1>1, HandFacts DEF MortonInv, Index
<1>3. /\ e \in Addresses /\ <<e, j>> \in Taken(blocks)
      /\ block(e) = p /\ bucket_index(e) = v
      /\ x \in Fingerprints /\ a \in Addresses
      /\ SlotClasses(blocks)[<<e, j>>] = Class(x, a)
  BY <1>1, VictimFacts
<1>4. PICK bs : bs = blocks'
  OBVIOUS
<1>5. bs = [blocks EXCEPT ![p] = C] /\ bs[p] = C
  <2>1. p \in DOMAIN blocks
    <3>1. blocks = [b \in 0 .. n_blocks - 1 |-> blocks[b]]
      BY <1>2 DEF BlocksOK
    <3> QED
      BY <1>2, <3>1
  <2> QED
    BY <1>1, <1>4, <2>1
<1>6. Replaced(bs, h, f, {j})
  BY <1>1, <1>2, <1>5 DEF Replaced
<1>7. Leaving(h, {j}) = {<<e, j>>}
  <2>1. <<e, j>> \in Leaving(h, {j})
    <3>1. <<e, j>>[1] = e /\ <<e, j>>[2] = j
      OBVIOUS
    <3> QED
      BY <1>1, <1>3, <3>1 DEF Leaving
  <2>2. ASSUME NEW t \in Leaving(h, {j}) PROVE t = <<e, j>>
    <3>1. /\ t = <<t[1], t[2]>> /\ t[1] \in Addresses /\ t[2] = j /\ block(t[1]) = p
          /\ t[2] \in SlotsOf(Block, bucket_index(t[1]))
      BY <1>1, <1>2, TakenFacts DEF Leaving
    <3>2. bucket_index(t[1]) \in BucketsOfBlock
      BY <1>2, <3>1, AddressFacts
    <3>3. j \in Nat /\ j < occupied_slots(Block)
      BY <1>2, SlotsFacts
    <3>4. bucket_index(t[1]) = v
      BY <1>2, <3>1, <3>2, <3>3, OneBucket
    <3>5. t[1] = e
      BY <1>2, <1>3, <3>1, <3>4, AddressFacts
    <3> QED
      BY <3>1, <3>5
  <2> QED
    BY <2>1, <2>2
<1>8. BlocksOK(bs)
  BY <1>2, <1>6, ReplacedBlocks
<1>9. hand' # Null
  <2>1. RunOK(bs[block(a)])
    BY <1>2, <1>3, <1>8, TakenFacts
  <2> QED
    BY <1>2, <1>3, <1>4, <2>1, ArriveNotNull
<1>10. hand'.fingerprint = x /\ hand'.address = a
  BY ArriveFacts
<1>18. HandClasses' = {Class(x, a)}
  BY <1>9, <1>10, ClassKept DEF HandClasses
<1>11. Matched'
  <2>1. OneEach(SlotClasses(blocks), KeyClasses, {Class(f, h)})
    BY <1>2 DEF MortonInv, Matched
  <2>2. OneEach(SlotClasses(bs), KeyClasses, {Class(x, a)})
    <3>1. <<e, j>> \in Leaving(h, {j})
      BY <1>7
    <3>2. OneEach(SlotClasses(bs), KeyClasses, {SlotClasses(blocks)[<<e, j>>]})
      BY <1>2, <1>6, <2>1, <3>1, ReplacedMatch
    <3> QED
      BY <1>3, <3>2
  <2>3. SlotClasses(blocks)' = SlotClasses(bs) /\ KeyClasses' = KeyClasses
    BY <1>4, BlocksKept, KeysSame
  <2> QED
    BY <1>18, <2>2, <2>3 DEF Matched
<1>12. Balanced'
  <2>1. Cardinality(Taken(bs)) = Cardinality(Taken(blocks))
    BY <1>2, <1>6, <1>7, ReplacedCount
  <2>2. Taken(blocks)' = Taken(bs) /\ Begun' = Begun
    BY <1>4, BlocksKept, KeysSame
  <2>3. Cardinality(HandClasses) = 1 /\ Cardinality(HandClasses') = 1
    BY <1>2, <1>18, FS_Singleton
  <2> QED
    BY <2>1, <2>2, <2>3 DEF MortonInv, Balanced
<1>13. Marked'
  <2>1. ASSUME NEW i \in BucketsOfBlock, SlotsOf(blocks[p], i) \cap {j} # {}
        PROVE  get_ota(bs[p], i)
    <3>1. j \in SlotsOf(Block, i) /\ j \in Nat /\ j < occupied_slots(Block)
      BY <1>2, <2>1, SlotsFacts
    <3>2. i = v
      BY <1>2, <3>1, OneBucket
    <3> QED
      BY <1>5, <3>2
  <2>2. \A y : \A d \in Addresses : Holds(blocks, y, d) \/ Left(blocks, d)
                                      => Holds(bs, y, d) \/ Left(bs, d)
    BY <1>1, <1>2, <1>6, <2>1, ReplacedMarks
  <2>3. ASSUME NEW y \in Begun
        PROVE  \/ Holds(bs, hash[y].fingerprint, hash[y].address)
               \/ Left(bs, hash[y].address)
    <3>1. \/ Holds(blocks, hash[y].fingerprint, hash[y].address)
          \/ Left(blocks, hash[y].address)
      BY DEF MortonInv, Marked
    <3>2. hash[y].address \in Addresses
      BY DEF MortonInv, KeysOK, Begun
    <3> QED
      BY <2>2, <3>1, <3>2
  <2>4. Begun' = Begun
    BY KeysSame
  <2> QED
    BY <1>4, <2>3, <2>4, BlocksKept DEF Marked
<1>14. CountersFresh'
  <2>1. Block' = bs[block(a)]
    BY <1>4, <1>10, ClassKept DEF Block
  <2>2. Arrive(hand.fingerprint, hand.address, Block)' = Arrive(x, a, bs[block(a)])
    BY <1>10, <2>1 DEF Arrive, bucket_index, occupied_slots, slot_offset, is_free, slots_per_block
  <2> QED
    BY <1>4, <2>2 DEF CountersFresh
<1>15. KeysOK' /\ HandOK'
  <2>1. KeysOK'
    BY <1>9, LayoutKept DEF MortonInv, KeysOK, Begun
  <2>2. HandOK'
    BY <1>3, <1>10, LayoutKept DEF HandOK
  <2> QED
    BY <2>1, <2>2
<1>16. Rest'
  BY IterationAssumption DEF MortonInv, Rest
<1>17. BlocksOK(blocks)'
  BY <1>4, <1>8, BlocksKept
<1> QED
  BY <1>11, <1>12, <1>13, <1>14, <1>15, <1>16, <1>17 DEF MortonInv

(* A bucket is marked: what it holds and counts is the same. *)
LEMMA MarkFacts ==
  ASSUME config \in Configs, NEW D, NEW i \in BucketsOfBlock,
         D = [count |-> D.count, ota |-> D.ota, slots |-> D.slots],
         D.ota \subseteq 0 .. config.ota_size - 1
  PROVE  LET C == set_ota(D, i)
         IN  /\ C = [count |-> C.count, ota |-> C.ota, slots |-> C.slots]
             /\ C.ota \subseteq 0 .. config.ota_size - 1 /\ D.ota \subseteq C.ota
             /\ C.count = D.count /\ C.slots = D.slots
             /\ get_ota(C, i)
<1>1. config.ota_size \in Nat /\ i \in Nat
  BY ConfigFacts
<1>2. CASE config.ota_size = 0
  <2>1. set_ota(D, i) = D /\ get_ota(D, i)
    BY <1>2 DEF set_ota, get_ota
  <2> QED
    BY <2>1
<1>3. CASE config.ota_size # 0
  <2>1. PICK C : C = set_ota(D, i)
    OBVIOUS
  <2>2. PICK m : m = i % config.ota_size /\ m \in 0 .. config.ota_size - 1
    BY <1>1, <1>3
  <2>3. C = [count |-> D.count, ota |-> D.ota \cup {m}, slots |-> D.slots]
    BY <1>3, <2>1, <2>2 DEF set_ota
  <2>4. C.count = D.count /\ C.slots = D.slots /\ C.ota = D.ota \cup {m}
    BY <2>3
  <2>5. C.ota \subseteq 0 .. config.ota_size - 1 /\ D.ota \subseteq C.ota
    BY <2>2, <2>4
  <2>6. get_ota(C, i)
    BY <1>3, <2>2, <2>4 DEF get_ota
  <2> QED
    BY <2>1, <2>3, <2>4, <2>5, <2>6
<1> QED
  BY <1>2, <1>3

(* Only what is read of a block matters when its slots are moved. *)
LEMMA SameReplaces ==
  ASSUME NEW B, NEW C, NEW D, NEW g, NEW f, NEW victims,
         C.count = D.count, C.slots = D.slots, RunOK(D), Replaces(B, D, g, f, victims)
  PROVE  RunOK(C) /\ Replaces(B, C, g, f, victims)
BY DEF RunOK, Replaces, SlotsOf, slot_offset, occupied_slots

(* evict_victim, of a full bucket. *)
LEMMA BucketEvictKeepsInv ==
  ASSUME MortonInv, evict_from_bucket
  PROVE  MortonInv'
<1>1. /\ hand # Null /\ tries \in 1 .. MAX_ITERATION
      /\ tries' = tries + 1
      /\ hand.slot_count = config.slots_per_bucket
      /\ UNCHANGED <<config, pc, begin, hash, success, dropped>>
  BY DEF evict_from_bucket, BucketFull
<1>2. PICK r \in 0 .. config.slots_per_bucket - 1 :
        LET x == Block.slots[Offset + r]
            a == alternative(hand.address, x)
            bs == [blocks EXCEPT ![block(hand.address)] =
                     set_ota([@ EXCEPT !.slots[Offset + r] = hand.fingerprint], Index)]
        IN  blocks' = bs /\ hand' = Arrive(x, a, bs[block(a)])
  BY DEF evict_from_bucket
<1>3. /\ config \in Configs /\ config.histogram > 0
      /\ hand.fingerprint \in Fingerprints /\ hand.address \in Addresses
      /\ block(hand.address) \in 0 .. n_blocks - 1 /\ Index \in BucketsOfBlock
      /\ Block = blocks[block(hand.address)] /\ BlockOK(Block) /\ RunOK(Block)
      /\ hand.slot_count = Block.count[Index]
      /\ hand.address = config.buckets_per_block * block(hand.address) + Index
  BY <1>1, HandFacts
<1>4. PICK j : j = Offset + r /\ j \in SlotsOf(Block, Index)
  <2>1. Offset \in Nat /\ Offset = slot_offset(Block, Index) /\ config.slots_per_bucket \in Nat
    BY <1>3, Offsets, ConfigFacts DEF Offset
  <2>2. Block.count[Index] = config.slots_per_bucket
    BY <1>1, <1>3
  <2> QED
    BY <1>2, <2>1, <2>2 DEF SlotsOf
<1>5. PICK D, C : /\ D = [Block EXCEPT !.slots[j] = hand.fingerprint]
                  /\ C = set_ota(D, Index)
  OBVIOUS
<1>6. /\ D.count = Block.count /\ D.slots = [Block.slots EXCEPT ![j] = hand.fingerprint]
      /\ D.ota = Block.ota
      /\ D = [count |-> D.count, ota |-> D.ota, slots |-> D.slots]
  BY <1>3, <1>5 DEF BlockOK
<1>7. RunOK(D) /\ Replaces(Block, D, Index, hand.fingerprint, {j})
  BY <1>3, <1>4, <1>6, BucketReplaces
<1>8. /\ C = [count |-> C.count, ota |-> C.ota, slots |-> C.slots]
      /\ C.ota \subseteq 0 .. config.ota_size - 1 /\ Block.ota \subseteq C.ota
      /\ C.count = D.count /\ C.slots = D.slots
      /\ get_ota(C, Index)
  <2>1. D.ota \subseteq 0 .. config.ota_size - 1
    BY <1>3, <1>6 DEF BlockOK
  <2> QED
    BY <1>3, <1>5, <1>6, <2>1, MarkFacts
<1>9. RunOK(C) /\ Replaces(Block, C, Index, hand.fingerprint, {j})
  BY <1>7, <1>8, SameReplaces
<1>10. BlockOK(C)
  BY <1>8, <1>9 DEF BlockOK
<1>11. PICK x, a : x = Block.slots[j] /\ a = alternative(hand.address, x)
  OBVIOUS
<1>12. blocks' = [blocks EXCEPT ![block(hand.address)] = C]
  BY <1>2, <1>3, <1>4, <1>5
<1>13. hand' = Arrive(x, a, blocks'[block(a)])
  BY <1>2, <1>4, <1>11
<1> QED
  BY <1>1, <1>3, <1>4, <1>8, <1>9, <1>10, <1>11, <1>12, <1>13, EvictKeepsInv

(* The candidates of a full block lie in its other buckets.                *)
LEMMA CandidateFacts ==
  ASSUME MortonInv, hand # Null, NEW j \in Candidates
  PROVE  /\ BucketOf(j) \in BucketsOfBlock /\ j \in SlotsOf(Block, BucketOf(j))
         /\ BucketOf(j) # Index /\ Index \in Nat /\ BucketOf(j) \in Nat
         /\ Index < BucketOf(j) <=> Start <= j
         /\ j \in Nat /\ j < hand.occupied /\ Offset \in Nat /\ Start \in Nat
         /\ Offset <= Start /\ Start <= hand.occupied /\ hand.occupied \in Nat
         /\ hand.occupied <= slots_per_block
         /\ Start = Offset + Block.count[Index]
<1>1. /\ config \in Configs /\ Index \in BucketsOfBlock /\ RunOK(Block)
      /\ hand.slot_count = Block.count[Index]
      /\ hand.occupied = occupied_slots(Block)
  BY HandFacts
<1>2. PICK o, c, q \in Nat : /\ o = Offset /\ c = Block.count[Index] /\ q = hand.occupied
                             /\ Start = o + c /\ o + c <= q /\ o = slot_offset(Block, Index)
                             /\ q <= slots_per_block
  <2>1. /\ slot_offset(Block, Index) \in Nat /\ Block.count[Index] \in Nat
        /\ occupied_slots(Block) \in Nat
        /\ slot_offset(Block, Index) + Block.count[Index] <= occupied_slots(Block)
        /\ occupied_slots(Block) <= slots_per_block
    BY <1>1, Offsets
  <2> QED
    BY <1>1, <2>1 DEF Offset, Start
<1>3. slots_per_block \in Nat /\ Slots = 0 .. slots_per_block - 1
      /\ BucketsOfBlock = 0 .. config.buckets_per_block - 1 /\ config.buckets_per_block \in Nat
  BY <1>1, ConfigFacts
<1>4. j \in Slots /\ ((o + c <= j /\ j < q) \/ j < o)
  BY <1>2 DEF Candidates
<1>5. j \in Nat /\ j < q
  BY <1>2, <1>3, <1>4
<1>6. PICK v \in BucketsOfBlock : v = BucketOf(j) /\ j \in SlotsOf(Block, v)
  <2>1. \E i \in BucketsOfBlock : j \in SlotsOf(Block, i)
    BY <1>1, <1>2, <1>5, OneBucket
  <2> QED
    BY <2>1 DEF BucketOf
<1>7. PICK ov, cv \in Nat : /\ ov = slot_offset(Block, v) /\ cv = Block.count[v]
                            /\ ov <= j /\ j < ov + cv
                            /\ v < Index => ov + cv <= o
                            /\ Index < v => o + c <= ov
  <2>1. /\ slot_offset(Block, v) \in Nat /\ Block.count[v] \in Nat
        /\ v < Index => slot_offset(Block, v) + Block.count[v] <= slot_offset(Block, Index)
        /\ Index < v => slot_offset(Block, Index) + Block.count[Index] <= slot_offset(Block, v)
    BY <1>1, Offsets
  <2>2. slot_offset(Block, v) <= j /\ j < slot_offset(Block, v) + Block.count[v]
    BY <1>1, <1>6, SlotsFacts
  <2> QED
    BY <1>2, <2>1, <2>2
<1>8. v \in Nat /\ Index \in Nat
  BY <1>1, <1>3
<1>9. v # Index
  <2>1. SUFFICES ASSUME v = Index PROVE FALSE
    OBVIOUS
  <2>2. ov = o /\ cv = c
    BY <1>2, <1>7, <2>1
  <2> QED
    BY <1>2, <1>4, <1>5, <1>7, <2>2
<1>10. Index < v <=> o + c <= j
  <2>1. CASE Index < v
    BY <1>2, <1>5, <1>7, <2>1
  <2>2. CASE v < Index
    <3>1. j < o + c /\ ~ (Index < v)
      BY <1>2, <1>5, <1>7, <1>8, <2>2
    <3> QED
      BY <1>2, <1>5, <3>1
  <2> QED
    BY <1>8, <1>9, <2>1, <2>2
<1> QED
  BY <1>2, <1>5, <1>6, <1>8, <1>9, <1>10

(* evict_victim, of a full block: a victim of another bucket.              *)
LEMMA SwapKeepsInv ==
  ASSUME MortonInv, hand # Null, ~ hand.free, tries \in 1 .. MAX_ITERATION, ~ BucketFull,
         NEW j \in Candidates, NEW D,
         D = IF BucketOf(j) > Index
             THEN shift_slots_left_and_insert(Block, hand.fingerprint, Start, j)
             ELSE shift_slots_right_and_insert(Block, hand.fingerprint, j, Offset),
         Swap(j, Counted(D, BucketOf(j))), tries' = tries + 1,
         UNCHANGED <<config, pc, begin, hash, success, dropped>>
  PROVE  MortonInv'
<1>1. /\ config \in Configs /\ config.histogram > 0
      /\ hand.fingerprint \in Fingerprints /\ hand.address \in Addresses
      /\ block(hand.address) \in 0 .. n_blocks - 1 /\ Index \in BucketsOfBlock
      /\ Block = blocks[block(hand.address)] /\ BlockOK(Block) /\ RunOK(Block)
      /\ hand.slot_count = Block.count[Index]
      /\ hand.occupied = occupied_slots(Block)
      /\ hand.free = is_free(Block, Index)
      /\ hand.address = config.buckets_per_block * block(hand.address) + Index
  BY HandFacts
<1>2. PICK v \in BucketsOfBlock :
        /\ v = BucketOf(j) /\ j \in SlotsOf(Block, v) /\ v # Index
        /\ v \in Nat /\ Index \in Nat
        /\ Start = Offset + Block.count[Index] /\ j \in Nat /\ Offset \in Nat
  BY CandidateFacts
<1>3. Block.count[Index] # config.slots_per_bucket /\ occupied_slots(Block) = slots_per_block
  BY <1>1 DEF BucketFull, is_free
<1>4. Block.count[v] > 0
  BY <1>1, <1>2, Offsets DEF SlotsOf
<1>5. PICK E, C : /\ E = [D EXCEPT !.count[Index] = hand.slot_count + 1, !.count[v] = @ - 1]
                  /\ C = set_ota(E, v) /\ C = Counted(D, v)
  BY DEF Counted
<1>6. /\ D.count = Block.count /\ D.ota = Block.ota
      /\ D = [count |-> D.count, ota |-> D.ota, slots |-> D.slots]
  <2>1. Block = [count |-> Block.count, ota |-> Block.ota, slots |-> Block.slots]
    BY <1>1 DEF BlockOK
  <2> QED
    BY <2>1 DEF shift_slots_left_and_insert, shift_slots_right_and_insert
<1>7. /\ E.count = [Block.count EXCEPT ![Index] = Block.count[Index] + 1,
                                       ![v] = Block.count[v] - 1]
      /\ E.ota = Block.ota /\ E.slots = D.slots
      /\ E = [count |-> E.count, ota |-> E.ota, slots |-> E.slots]
  BY <1>1, <1>2, <1>5, <1>6 DEF RunOK
<1>9. Shifts(Block, E, Index, v)
  BY <1>1, <1>2, <1>3, <1>4, <1>7 DEF Shifts
<1>8. RunOK(E) /\ Replaces(Block, E, Index, hand.fingerprint, {j})
  <2>1. CASE Index < v
    <3>1. E.slots = shift_slots_left_and_insert(Block, hand.fingerprint,
                      slot_offset(Block, Index) + Block.count[Index], j).slots
      BY <1>2, <1>7, <2>1 DEF Offset
    <3> QED
      BY <1>1, <1>2, <1>9, <2>1, <3>1, LeftReplaces
  <2>2. CASE v < Index
    <3>1. ~ (v > Index)
      BY <1>2, <2>2
    <3>2. E.slots = shift_slots_right_and_insert(Block, hand.fingerprint, j,
                      slot_offset(Block, Index)).slots
      BY <1>2, <1>7, <3>1 DEF Offset
    <3> QED
      BY <1>1, <1>2, <1>9, <2>2, <3>2, RightReplaces
  <2> QED
    BY <1>2, <2>1, <2>2
<1>17. occupied_slots(E) = occupied_slots(Block)
  BY <1>1, <1>9, ShiftedRun
<1>10. /\ C = [count |-> C.count, ota |-> C.ota, slots |-> C.slots]
       /\ C.ota \subseteq 0 .. config.ota_size - 1 /\ Block.ota \subseteq C.ota
       /\ C.count = E.count /\ C.slots = E.slots
       /\ get_ota(C, v)
  <2>1. E.ota \subseteq 0 .. config.ota_size - 1
    BY <1>1, <1>7 DEF BlockOK
  <2>2. LET G == set_ota(E, v)
        IN  /\ G = [count |-> G.count, ota |-> G.ota, slots |-> G.slots]
            /\ G.ota \subseteq 0 .. config.ota_size - 1 /\ E.ota \subseteq G.ota
            /\ G.count = E.count /\ G.slots = E.slots
            /\ get_ota(G, v)
    BY <1>1, <1>2, <1>7, <2>1, MarkFacts
  <2> QED
    BY <1>5, <1>7, <2>2
<1>11. RunOK(C) /\ Replaces(Block, C, Index, hand.fingerprint, {j})
  BY <1>8, <1>10, SameReplaces
<1>12. BlockOK(C) /\ occupied_slots(C) = occupied_slots(Block)
  BY <1>10, <1>11, <1>17 DEF BlockOK, occupied_slots, slot_offset
<1>13. PICK e, x, a : /\ e = config.buckets_per_block * block(hand.address) + v
                      /\ x = Block.slots[j] /\ a = alternative(e, x)
  OBVIOUS
<1>14. a = VictimAddress(j)
  <2>1. hand.address - Index + v = e
    <3>1. config.buckets_per_block * block(hand.address) \in Nat
      BY <1>1, ConfigFacts
    <3> QED
      BY <1>1, <1>2, <1>13, <3>1
  <2> QED
    BY <1>2, <1>13, <2>1 DEF VictimAddress
<1>15. blocks' = [blocks EXCEPT ![block(hand.address)] = C]
  BY <1>2, <1>5 DEF Swap
<1>16. hand' = Arrive(x, a, blocks'[block(a)])
  <2>1. hand' = [Arrive(x, a, blocks[block(a)])
                   EXCEPT !.slot_count = blocks'[block(a)].count[bucket_index(a)]]
    BY <1>13, <1>14 DEF Swap
  <2>2. DOMAIN blocks = 0 .. n_blocks - 1
    <3>1. blocks = [b \in 0 .. n_blocks - 1 |-> blocks[b]]
      BY DEF MortonInv, BlocksOK
    <3> QED
      BY <3>1
  <2>3. PICK B, G : B = blocks[block(a)] /\ G = blocks'[block(a)]
    OBVIOUS
  <2>4. occupied_slots(G) = occupied_slots(B) /\ is_free(G, bucket_index(a)) = is_free(B, bucket_index(a))
    <3>1. CASE block(a) = block(hand.address)
      <4>1. G = C /\ B = Block
        BY <1>1, <1>15, <2>2, <2>3, <3>1
      <4> QED
        BY <1>3, <1>12, <4>1 DEF is_free
    <3>2. CASE block(a) # block(hand.address)
      <4>1. G = B
        BY <1>15, <2>3, <3>2
      <4> QED
        BY <4>1
    <3> QED
      BY <3>1, <3>2
  <2> QED
    BY <2>1, <2>3, <2>4 DEF Arrive
<1> QED
  BY <1>1, <1>2, <1>10, <1>11, <1>12, <1>13, <1>15, <1>16, EvictKeepsInv

(* evict_victim, a full block: a victim whose other bucket has room. *)
LEMMA WithRoomKeepsInv ==
  ASSUME MortonInv, evict_with_room
  PROVE  MortonInv'
<1>1. PICK j \in Candidates :
        Swap(j, Counted(
          IF BucketOf(j) > Index
          THEN shift_slots_left_and_insert(Block, hand.fingerprint, Start, j)
          ELSE shift_slots_right_and_insert(Block, hand.fingerprint, j, Offset),
          BucketOf(j)))
  BY DEF evict_with_room
<1>2. /\ hand # Null /\ ~ hand.free /\ tries \in 1 .. MAX_ITERATION /\ ~ BucketFull
      /\ tries' = tries + 1
      /\ UNCHANGED <<config, pc, begin, hash, success, dropped>>
  BY DEF evict_with_room
<1> QED
  BY <1>1, <1>2, SwapKeepsInv

(* The last victim tried is the last one of the run, or right before the   *)
(* bucket: there is nothing else to shift.                                 *)
LEMMA LastKeepsInv ==
  ASSUME MortonInv, evict_last
  PROVE  MortonInv'
<1>1. PICK j \in Candidates :
        /\ \A l \in Candidates : Rank(l) <= Rank(j)
        /\ Swap(j, Counted(LastReplaced(j), BucketOf(j)))
  BY DEF evict_last
<1>2. /\ hand # Null /\ ~ hand.free /\ tries \in 1 .. MAX_ITERATION /\ ~ BucketFull
      /\ tries' = tries + 1
      /\ UNCHANGED <<config, pc, begin, hash, success, dropped>>
  BY DEF evict_last
<1>3. /\ Index < BucketOf(j) <=> Start <= j
      /\ j \in Nat /\ j < hand.occupied /\ Offset \in Nat /\ Start \in Nat
      /\ Offset <= Start /\ Start <= hand.occupied /\ hand.occupied \in Nat
      /\ hand.occupied <= slots_per_block
      /\ BucketOf(j) \in Nat /\ Index \in Nat /\ BucketOf(j) # Index
  BY <1>1, <1>2, CandidateFacts
<1>4. Slots = 0 .. slots_per_block - 1 /\ slots_per_block \in Nat
  BY <1>2, HandFacts, ConfigFacts
<1>5. CASE Index < BucketOf(j)
  <2>1. PICK l \in Nat : l = hand.occupied - 1 /\ Start <= l
    BY <1>3, <1>5
  <2>2. l \in Candidates
    BY <1>3, <1>4, <2>1 DEF Candidates
  <2>3. l - Start <= j - Start
    <3>1. Rank(l) = l - Start /\ Rank(j) = j - Start
      BY <1>3, <1>5, <2>1 DEF Rank
    <3> QED
      BY <1>1, <2>2, <3>1
  <2>4. j = hand.occupied - 1
    BY <1>3, <2>1, <2>3
  <2>5. LastReplaced(j) = shift_slots_left_and_insert(Block, hand.fingerprint, Start, j)
    BY <1>3, <1>5, <2>4 DEF LastReplaced
  <2>6. PICK D : /\ D = LastReplaced(j)
                 /\ D = IF BucketOf(j) > Index
                        THEN shift_slots_left_and_insert(Block, hand.fingerprint, Start, j)
                        ELSE shift_slots_right_and_insert(Block, hand.fingerprint, j, Offset)
    BY <1>3, <1>5, <2>5
  <2> QED
    BY <1>1, <1>2, <2>6, SwapKeepsInv
<1>6. CASE ~ (Index < BucketOf(j))
  <2>1. j < Offset
    <3>1. ~ (Start <= j)
      BY <1>3, <1>6
    <3>2. (Start <= j /\ j < hand.occupied) \/ j < Offset
      BY <1>1 DEF Candidates
    <3> QED
      BY <3>1, <3>2
  <2>2. PICK l \in Nat : l = Offset - 1 /\ l < Offset /\ l < slots_per_block
    <3>1. Offset - 1 \in Nat /\ Offset - 1 < Offset /\ Offset - 1 < slots_per_block
      BY <1>3, <1>4, <2>1
    <3> QED
      BY <3>1
  <2>3. l \in Candidates
    BY <1>4, <2>2 DEF Candidates
  <2>4. hand.occupied + l <= hand.occupied + j
    <3>1. Rank(l) = hand.occupied + l /\ Rank(j) = hand.occupied + j
      BY <1>3, <1>6, <2>2 DEF Rank
    <3> QED
      BY <1>1, <2>3, <3>1
  <2>5. j = Offset - 1
    BY <1>3, <2>1, <2>2, <2>4
  <2>6. Block.slots \in [Slots -> Fingerprints \cup {0}]
    BY <1>2, HandFacts DEF RunOK
  <2>7. LastReplaced(j) = shift_slots_right_and_insert(Block, hand.fingerprint, j, Offset)
    <3>1. [Block.slots EXCEPT ![Offset - 1] = hand.fingerprint]
            = [l2 \in Slots |-> CASE l2 = Offset - 1 -> hand.fingerprint
                                 [] j <= l2 /\ l2 < Offset - 1 -> Block.slots[l2 + 1]
                                 [] OTHER -> Block.slots[l2]]
      <4>1. ASSUME NEW l3 \in Slots
            PROVE  [Block.slots EXCEPT ![Offset - 1] = hand.fingerprint][l3]
                     = CASE l3 = Offset - 1 -> hand.fingerprint
                         [] j <= l3 /\ l3 < Offset - 1 -> Block.slots[l3 + 1]
                         [] OTHER -> Block.slots[l3]
        <5>1. ~ (j <= l3 /\ l3 < Offset - 1)
          BY <1>3, <1>4, <2>5
        <5>2. CASE l3 = Offset - 1
          BY <1>3, <1>4, <2>6, <5>1, <5>2
        <5>3. CASE l3 # Offset - 1
          BY <2>6, <5>1, <5>3
        <5> QED
          BY <5>2, <5>3
      <4> QED
        BY <2>6, <4>1
    <3>2. ~ (BucketOf(j) > Index)
      BY <1>3, <1>6
    <3> QED
      BY <3>1, <3>2 DEF LastReplaced, shift_slots_right_and_insert
  <2>8. PICK D : /\ D = LastReplaced(j)
                 /\ D = IF BucketOf(j) > Index
                        THEN shift_slots_left_and_insert(Block, hand.fingerprint, Start, j)
                        ELSE shift_slots_right_and_insert(Block, hand.fingerprint, j, Offset)
    BY <1>3, <1>6, <2>7
  <2> QED
    BY <1>1, <1>2, <2>8, SwapKeepsInv
<1> QED
  BY <1>5, <1>6

(* insert: a key comes, with its fingerprint in hand. *)
LEMMA NextKeyKeepsInv ==
  ASSUME MortonInv, NextKey
  PROVE  MortonInv'
<1>1. /\ hand = Null /\ begin < config.histogram /\ tries' = 0
      /\ UNCHANGED <<config, pc, begin, blocks, success, dropped>>
  BY DEF NextKey
<1>2. PICK hv \in HashValues :
        LET a == Address(config.mode, buckets, hv.address)
        IN  /\ hash' = [hash EXCEPT ![begin] = [fingerprint |-> hv.fingerprint, address |-> a]]
            /\ hand' = Arrive(hv.fingerprint, a, blocks[block(a)])
  BY DEF NextKey
<1>3. PICK f, a, v : /\ f = hv.fingerprint /\ a = Address(config.mode, buckets, hv.address)
                     /\ v = [fingerprint |-> f, address |-> a]
  OBVIOUS
<1>4. /\ hash' = [hash EXCEPT ![begin] = v]
      /\ hand' = Arrive(f, a, blocks[block(a)])
  BY <1>2, <1>3
<1>5. /\ config \in Configs /\ begin \in 0 .. config.histogram /\ BlocksOK(blocks)
      /\ config.histogram \in Nat /\ config.histogram > 0
      /\ Keys = 0 .. config.histogram - 1
  BY <1>1, ConfigFacts DEF MortonInv, KeysOK
<1>6. f \in Fingerprints /\ a \in Addresses /\ a \in Nat
  BY <1>3, <1>5, AlternativeFacts, ConfigFacts DEF Fingerprints
<1>7. v # Null
  <2>1. v \in [fingerprint : Fingerprints, address : Nat]
    BY <1>3, <1>6
  <2> QED
    BY <2>1, NullAssumption
<1>8. /\ hand' # Null /\ hand'.fingerprint = f /\ hand'.address = a
  <2>1. RunOK(blocks[block(a)])
    BY <1>5, <1>6, TakenFacts
  <2> QED
    BY <1>4, <1>5, <1>6, <2>1, ArriveNotNull, ArriveFacts
<1>9. /\ begin \in Keys /\ begin \notin Begun /\ hash = [x \in Keys |-> hash[x]]
  <2>1. begin \in Keys /\ ~ (begin < begin)
    BY <1>1, <1>5
  <2>2. hash[begin] = Null /\ hash = [x \in Keys |-> hash[x]]
    BY <1>1, <2>1 DEF MortonInv, KeysOK
  <2> QED
    BY <2>1, <2>2 DEF Begun
<1>10. /\ hash'[begin] = v /\ \A x \in Keys : x # begin => hash'[x] = hash[x]
       /\ hash' = [x \in Keys |-> hash'[x]]
  BY <1>4, <1>9
<1>11. Begun' = Begun \cup {begin}
  BY <1>1, <1>7, <1>9, <1>10, LayoutKept DEF Begun
<1>12. Begun \subseteq Keys
  BY DEF Begun
<1>13. HandClasses = {} /\ HandClasses' = {Class(f, a)}
  BY <1>1, <1>8, ClassKept DEF HandClasses
<1>14. Matched'
  <2>1. OneEach(SlotClasses(blocks), KeyClasses, {})
    BY <1>13 DEF MortonInv, Matched
  <2>2. /\ DOMAIN KeyClasses = Begun /\ DOMAIN KeyClasses' = Begun \cup {begin}
    BY <1>11 DEF KeyClasses
  <2>3. KeyClasses'[begin] = Class(f, a)
    <3>1. ClassOf(begin)' = Class(f, a)
      BY <1>1, <1>3, <1>10, LayoutKept DEF ClassOf, Class, alternative
    <3> QED
      BY <1>1, <1>11, <3>1 DEF KeyClasses
  <2>4. \A x \in Begun : KeyClasses'[x] = KeyClasses[x]
    <3>1. SUFFICES ASSUME NEW x \in Begun PROVE KeyClasses'[x] = KeyClasses[x]
      OBVIOUS
    <3>2. x \in Begun' /\ hash'[x] = hash[x]
      BY <1>9, <1>10, <1>11, <1>12
    <3>3. ClassOf(x)' = ClassOf(x)
      BY <1>1, <3>2, LayoutKept DEF ClassOf, Class, alternative
    <3> QED
      BY <3>2, <3>3 DEF KeyClasses
  <2>5. OneEach(SlotClasses(blocks), KeyClasses', {Class(f, a)})
    BY <1>9, <2>1, <2>2, <2>3, <2>4, MatchInsert
  <2>6. SlotClasses(blocks)' = SlotClasses(blocks)
    BY <1>1, BlocksKept
  <2> QED
    BY <1>13, <2>5, <2>6 DEF Matched
<1>15. Balanced'
  <2>1. IsFiniteSet(Begun)
    <3>1. IsFiniteSet(Keys)
      BY <1>5, FS_Interval
    <3> QED
      BY <1>12, <3>1, FS_Subset
  <2>2. Cardinality(Begun') = Cardinality(Begun) + 1
    BY <1>9, <1>11, <2>1, FS_AddElement
  <2>3. Cardinality(HandClasses) = 0 /\ Cardinality(HandClasses') = 1
    BY <1>13, FS_EmptySet, FS_Singleton
  <2>4. Taken(blocks)' = Taken(blocks)
    BY <1>1, BlocksKept
  <2>5. Cardinality(Taken(blocks)) \in Nat /\ dropped \in Nat
    BY <1>5, TakenFacts, FS_CardinalityType DEF MortonInv, Rest
  <2>6. Cardinality(Taken(blocks)) + 0 + dropped = Cardinality(Begun)
    BY <2>3 DEF MortonInv, Balanced
  <2> QED
    BY <1>1, <2>2, <2>3, <2>4, <2>5, <2>6 DEF Balanced
<1>16. Marked'
  <2>1. ASSUME NEW x \in Begun
        PROVE  /\ hash'[x] = hash[x]
               /\ \/ Holds(blocks, hash[x].fingerprint, hash[x].address)
                  \/ Left(blocks, hash[x].address)
    <3>1. hash'[x] = hash[x]
      BY <1>9, <1>10, <1>12
    <3> QED
      BY <1>1, <3>1 DEF MortonInv, Marked
  <2>2. ASSUME NEW x \in Begun
        PROVE  \/ Holds(blocks, hash[x].fingerprint, hash[x].address)'
               \/ Left(blocks, hash[x].address)'
    BY <1>1, <2>1, BlocksKept
  <2> QED
    BY <1>1, <1>8, <1>11, <2>2 DEF Marked
<1>17. CountersFresh'
  <2>1. Block' = blocks[block(a)]
    BY <1>1, <1>8, ClassKept DEF Block
  <2>2. Arrive(hand.fingerprint, hand.address, Block)' = Arrive(f, a, blocks[block(a)])
    BY <1>1, <1>8, <2>1, LayoutKept DEF Arrive, bucket_index, occupied_slots, slot_offset, is_free
  <2> QED
    BY <1>4, <2>2 DEF CountersFresh
<1>18. KeysOK'
  <2>1. ASSUME NEW x \in Keys
        PROVE  IF x < begin \/ x = begin
               THEN /\ hash'[x] = [fingerprint |-> hash'[x].fingerprint,
                                   address |-> hash'[x].address]
                    /\ hash'[x].fingerprint \in Fingerprints /\ hash'[x].address \in Addresses
               ELSE hash'[x] = Null
    <3>1. CASE x = begin
      BY <1>3, <1>6, <1>10, <3>1
    <3>2. CASE x # begin
      BY <1>1, <1>10, <3>2 DEF MortonInv, KeysOK
    <3> QED
      BY <3>1, <3>2
  <2> QED
    BY <1>1, <1>5, <1>8, <1>10, <2>1, LayoutKept DEF KeysOK
<1>19. HandOK'
  BY <1>1, <1>3, <1>6, <1>8, <1>10, LayoutKept DEF HandOK
<1>20. Rest'
  BY <1>1, IterationAssumption DEF MortonInv, Rest
<1>21. BlocksOK(blocks)'
  BY <1>1, <1>5, BlocksKept
<1> QED
  BY <1>14, <1>15, <1>16, <1>17, <1>18, <1>19, <1>20, <1>21 DEF MortonInv

(* insert: the fingerprint in hand gets the slot behind its bucket. *)
LEMMA InsertKeepsInv ==
  ASSUME MortonInv, bucket_insert
  PROVE  MortonInv'
<1>1. /\ hand # Null /\ hand.free /\ hand' = Null /\ begin' = begin + 1
      /\ UNCHANGED <<config, pc, tries, hash, success, dropped>>
  BY DEF bucket_insert
<1>2. PICK p, h, f : p = block(hand.address) /\ h = hand.address /\ f = hand.fingerprint
  OBVIOUS
<1>3. /\ config \in Configs /\ BlocksOK(blocks)
      /\ f \in Fingerprints /\ h \in Addresses
      /\ p \in 0 .. n_blocks - 1 /\ Index \in BucketsOfBlock /\ Index = bucket_index(h)
      /\ Block = blocks[p] /\ RunOK(Block) /\ BlockOK(Block)
      /\ hand.slot_count = Block.count[Index]
      /\ hand.occupied = occupied_slots(Block) /\ is_free(Block, Index)
      /\ HandClasses = {Class(f, h)}
  BY <1>1, <1>2, HandFacts DEF MortonInv, Index
<1>4. DOMAIN blocks = 0 .. n_blocks - 1
  <2>1. blocks = [b \in 0 .. n_blocks - 1 |-> blocks[b]]
    BY <1>3 DEF BlocksOK
  <2> QED
    BY <2>1
<1>5. PICK D, C : /\ D = shift_slots_left_and_insert(Block, f, Offset + hand.slot_count, hand.occupied)
                  /\ C = [D EXCEPT !.count[Index] = hand.slot_count + 1]
  OBVIOUS
<1>6. PICK bs : bs = blocks' /\ bs = [blocks EXCEPT ![p] = C] /\ bs[p] = C
  <2>1. blocks' = [blocks EXCEPT ![p] = C]
    <3>1. blocks' = [blocks EXCEPT ![block(hand.address)] =
            [shift_slots_left_and_insert(@, hand.fingerprint, Offset + hand.slot_count, hand.occupied)
               EXCEPT !.count[Index] = hand.slot_count + 1]]
      BY DEF bucket_insert
    <3> QED
      BY <1>2, <1>3, <1>5, <3>1
  <2>2. p \in DOMAIN blocks
    BY <1>3, <1>4
  <2>3. [blocks EXCEPT ![p] = C][p] = C
    BY <2>2
  <2> QED
    BY <2>1, <2>3
<1>7. /\ D.count = Block.count /\ D.ota = Block.ota
      /\ D = [count |-> D.count, ota |-> D.ota, slots |-> D.slots]
  <2>1. Block = [count |-> Block.count, ota |-> Block.ota, slots |-> Block.slots]
    BY <1>3 DEF BlockOK
  <2> QED
    BY <1>5, <2>1 DEF shift_slots_left_and_insert
<1>8. /\ C.count = [Block.count EXCEPT ![Index] = Block.count[Index] + 1]
      /\ C.ota = Block.ota /\ C.slots = D.slots
      /\ C = [count |-> C.count, ota |-> C.ota, slots |-> C.slots]
  BY <1>3, <1>5, <1>7
<1>9. RunOK(C) /\ Replaces(Block, C, Index, f, {})
  <2>1. C.slots = shift_slots_left_and_insert(Block, f, slot_offset(Block, Index) + Block.count[Index],
                                              occupied_slots(Block)).slots
    BY <1>3, <1>5, <1>8 DEF Offset
  <2> QED
    BY <1>3, <1>8, <2>1, InsertReplaces
<1>10. BlockOK(C)
  BY <1>3, <1>8, <1>9 DEF BlockOK
<1>11. Replaced(bs, h, f, {})
  BY <1>2, <1>3, <1>6, <1>8, <1>9, <1>10 DEF Replaced
<1>12. Leaving(h, {}) = {}
  BY DEF Leaving
<1>13. BlocksOK(bs)
  BY <1>3, <1>11, ReplacedBlocks
<1>14. HandClasses' = {} /\ Begun' = Begun
  BY <1>1, KeysSame DEF HandClasses
<1>15. Matched'
  <2>1. OneEach(SlotClasses(blocks), KeyClasses, {Class(f, h)})
    BY <1>3 DEF MortonInv, Matched
  <2>2. OneEach(SlotClasses(bs), KeyClasses, {})
    BY <1>3, <1>11, <2>1, ReplacedMatch
  <2>3. SlotClasses(blocks)' = SlotClasses(bs) /\ KeyClasses' = KeyClasses
    BY <1>1, <1>6, BlocksKept, KeysSame
  <2> QED
    BY <1>14, <2>2, <2>3 DEF Matched
<1>16. Balanced'
  <2>1. /\ Cardinality(Taken(bs)) = Cardinality(Taken(blocks)) + 1
        /\ Cardinality(Taken(blocks)) \in Nat
    BY <1>3, <1>11, <1>12, ReplacedCount
  <2>2. Taken(blocks)' = Taken(bs)
    BY <1>1, <1>6, BlocksKept
  <2>3. Cardinality(HandClasses) = 1 /\ Cardinality(HandClasses') = 0
    BY <1>3, <1>14, FS_EmptySet, FS_Singleton
  <2>4. dropped \in Nat
    BY DEF MortonInv, Rest
  <2> QED
    BY <1>1, <1>14, <2>1, <2>2, <2>3, <2>4 DEF MortonInv, Balanced
<1>17. Marked'
  <2>1. /\ Holds(bs, f, h)
        /\ \A y : \A d \in Addresses : Holds(blocks, y, d) \/ Left(blocks, d)
                                         => Holds(bs, y, d) \/ Left(bs, d)
    BY <1>3, <1>11, ReplacedMarks
  <2>2. ASSUME NEW y \in Begun
        PROVE  \/ Holds(bs, hash[y].fingerprint, hash[y].address)
               \/ Left(bs, hash[y].address)
    <3>1. CASE tries = 0 /\ y = begin
      <4>1. f = hash[y].fingerprint /\ h = hash[y].address
        BY <1>1, <1>2, <3>1 DEF MortonInv, HandOK
      <4> QED
        BY <2>1, <4>1
    <3>2. CASE ~ (tries = 0 /\ y = begin)
      <4>1. \/ Holds(blocks, hash[y].fingerprint, hash[y].address)
            \/ Left(blocks, hash[y].address)
        BY <3>2 DEF MortonInv, Marked
      <4>2. hash[y].address \in Addresses
        BY DEF MortonInv, KeysOK, Begun
      <4> QED
        BY <2>1, <4>1, <4>2
    <3> QED
      BY <3>1, <3>2
  <2> QED
    BY <1>1, <1>6, <1>14, <2>2, BlocksKept DEF Marked
<1>18. KeysOK'
  <2>1. begin \in 0 .. config.histogram /\ begin < config.histogram /\ config.histogram \in Nat
        /\ Keys = 0 .. config.histogram - 1
    BY <1>1, <1>3, ConfigFacts DEF MortonInv, KeysOK
  <2>2. \A x \in Keys : x < begin + 1 <=> x < begin \/ x = begin
    BY <2>1
  <2>3. begin + 1 \in 0 .. config.histogram
    BY <2>1
  <2> QED
    BY <1>1, <2>2, <2>3, LayoutKept DEF MortonInv, KeysOK
<1>19. CountersFresh' /\ HandOK' /\ Rest'
  BY <1>1 DEF MortonInv, CountersFresh, HandOK, Rest
<1>20. BlocksOK(blocks)'
  BY <1>1, <1>6, <1>13, BlocksKept
<1> QED
  BY <1>15, <1>16, <1>17, <1>18, <1>19, <1>20 DEF MortonInv

(* insert: the first bucket is marked, and the second one is tried. *)
LEMMA SecondKeepsInv ==
  ASSUME MortonInv, SecondBucket
  PROVE  MortonInv'
<1>1. /\ hand # Null /\ tries = 0 /\ tries' = 1
      /\ UNCHANGED <<config, pc, begin, hash, success, dropped>>
  BY DEF SecondBucket
<1>2. PICK p, h, f, a : /\ p = block(hand.address) /\ h = hand.address /\ f = hand.fingerprint
                        /\ a = alternative(h, f)
  OBVIOUS
<1>3. /\ config \in Configs /\ config.histogram > 0 /\ BlocksOK(blocks)
      /\ f \in Fingerprints /\ h \in Addresses
      /\ p \in 0 .. n_blocks - 1 /\ Index \in BucketsOfBlock /\ Index = bucket_index(h)
      /\ Block = blocks[p] /\ RunOK(Block) /\ BlockOK(Block)
      /\ HandClasses = {Class(f, h)}
  BY <1>1, <1>2, HandFacts DEF MortonInv, Index
<1>4. a \in Addresses /\ Class(f, a) = Class(f, h)
  BY <1>2, <1>3, AlternativeFacts
<1>5. DOMAIN blocks = 0 .. n_blocks - 1 /\ blocks = [b \in 0 .. n_blocks - 1 |-> blocks[b]]
  <2>1. blocks = [b \in 0 .. n_blocks - 1 |-> blocks[b]]
    BY <1>3 DEF BlocksOK
  <2> QED
    BY <2>1
<1>6. PICK C : C = set_ota(Block, Index)
  OBVIOUS
<1>7. /\ C = [count |-> C.count, ota |-> C.ota, slots |-> C.slots]
      /\ C.ota \subseteq 0 .. config.ota_size - 1 /\ Block.ota \subseteq C.ota
      /\ C.count = Block.count /\ C.slots = Block.slots
      /\ get_ota(C, Index)
  <2>1. /\ Block = [count |-> Block.count, ota |-> Block.ota, slots |-> Block.slots]
        /\ Block.ota \subseteq 0 .. config.ota_size - 1
    BY <1>3 DEF BlockOK
  <2> QED
    BY <1>3, <1>6, <2>1, MarkFacts
<1>8. BlockOK(C)
  BY <1>3, <1>7 DEF BlockOK, RunOK, occupied_slots, slot_offset
<1>9. PICK bs : bs = [blocks EXCEPT ![p] = C]
  OBVIOUS
<1>10. blocks' = bs /\ hand' = Arrive(f, a, bs[block(a)])
  BY <1>2, <1>3, <1>6, <1>9 DEF SecondBucket
<1>11. /\ bs[p] = C /\ \A b \in 0 .. n_blocks - 1 : b # p => bs[b] = blocks[b]
       /\ bs = [b \in 0 .. n_blocks - 1 |-> bs[b]]
  BY <1>3, <1>5, <1>9
<1>12. \A b \in 0 .. n_blocks - 1 :
         /\ bs[b].count = blocks[b].count /\ bs[b].slots = blocks[b].slots
         /\ blocks[b].ota \subseteq bs[b].ota /\ BlockOK(bs[b])
  <2>1. SUFFICES ASSUME NEW b \in 0 .. n_blocks - 1
                 PROVE  /\ bs[b].count = blocks[b].count /\ bs[b].slots = blocks[b].slots
                        /\ blocks[b].ota \subseteq bs[b].ota /\ BlockOK(bs[b])
    OBVIOUS
  <2>2. CASE b = p
    BY <1>3, <1>7, <1>8, <1>11, <2>2
  <2>3. CASE b # p
    BY <1>3, <1>11, <2>3 DEF BlocksOK
  <2> QED
    BY <2>2, <2>3
<1>13. BlocksOK(bs)
  BY <1>3, <1>11, <1>12 DEF BlocksOK
<1>14. \A d \in Addresses : /\ block(d) \in 0 .. n_blocks - 1
                            /\ SlotsOf(bs[block(d)], bucket_index(d))
                                 = SlotsOf(blocks[block(d)], bucket_index(d))
                            /\ bs[block(d)].slots = blocks[block(d)].slots
                            /\ blocks[block(d)].ota \subseteq bs[block(d)].ota
  BY <1>3, <1>12, AddressFacts DEF SlotsOf, slot_offset
<1>15. Taken(bs) = Taken(blocks)
  BY <1>14 DEF Taken
<1>16. SlotClasses(bs) = SlotClasses(blocks)
  <2>1. \A t \in Taken(blocks) : bs[block(t[1])].slots = blocks[block(t[1])].slots
    BY <1>14 DEF Taken
  <2> QED
    BY <1>15, <2>1 DEF SlotClasses
<1>17. hand' # Null /\ hand'.fingerprint = f /\ hand'.address = a
  <2>1. RunOK(bs[block(a)])
    BY <1>3, <1>4, <1>13, TakenFacts
  <2> QED
    BY <1>3, <1>4, <1>10, <2>1, ArriveNotNull, ArriveFacts
<1>18. HandClasses' = HandClasses /\ Begun' = Begun /\ KeyClasses' = KeyClasses
  <2>1. HandClasses' = {Class(f, a)}
    BY <1>1, <1>17, ClassKept DEF HandClasses
  <2> QED
    BY <1>1, <1>3, <1>4, <2>1, KeysSame
<1>19. Matched' /\ Balanced'
  <2>1. Taken(blocks)' = Taken(blocks) /\ SlotClasses(blocks)' = SlotClasses(blocks)
    BY <1>1, <1>10, <1>15, <1>16, BlocksKept
  <2> QED
    BY <1>1, <1>18, <2>1 DEF MortonInv, Matched, Balanced
<1>20. Marked'
  <2>1. ASSUME NEW y \in Begun
        PROVE  \/ Holds(bs, hash[y].fingerprint, hash[y].address)
               \/ Left(bs, hash[y].address)
    <3>1. hash[y].address \in Addresses
      BY DEF MortonInv, KeysOK, Begun
    <3>2. CASE y = begin
      <4>1. hash[y].address = h
        BY <1>1, <1>2, <3>2 DEF MortonInv, HandOK
      <4>2. Left(bs, h)
        BY <1>2, <1>3, <1>7, <1>11 DEF Left
      <4> QED
        BY <4>1, <4>2
    <3>3. CASE Holds(blocks, hash[y].fingerprint, hash[y].address)
      BY <1>14, <3>1, <3>3 DEF Holds
    <3>4. CASE Left(blocks, hash[y].address)
      BY <1>14, <3>1, <3>4 DEF Left, get_ota
    <3>5. \/ y = begin \/ Holds(blocks, hash[y].fingerprint, hash[y].address)
          \/ Left(blocks, hash[y].address)
      BY DEF MortonInv, Marked
    <3> QED
      BY <3>2, <3>3, <3>4, <3>5
  <2> QED
    BY <1>1, <1>10, <1>18, <2>1, BlocksKept DEF Marked
<1>21. CountersFresh'
  <2>1. Block' = bs[block(a)]
    BY <1>1, <1>10, <1>17, ClassKept DEF Block
  <2>2. Arrive(hand.fingerprint, hand.address, Block)' = Arrive(f, a, bs[block(a)])
    BY <1>1, <1>17, <2>1, LayoutKept DEF Arrive, bucket_index, occupied_slots, slot_offset, is_free
  <2> QED
    BY <1>10, <2>2 DEF CountersFresh
<1>22. KeysOK'
  BY <1>1, <1>17, LayoutKept DEF MortonInv, KeysOK
<1>23. HandOK'
  BY <1>1, <1>3, <1>4, <1>17, LayoutKept DEF HandOK
<1>24. Rest'
  BY <1>1, IterationAssumption DEF MortonInv, Rest
<1>25. BlocksOK(blocks)'
  BY <1>1, <1>10, <1>13, BlocksKept
<1> QED
  BY <1>19, <1>20, <1>21, <1>22, <1>23, <1>24, <1>25 DEF MortonInv

(* insert fails, and what is in hand is lost. *)
LEMMA LoseKeepsInv ==
  ASSUME MortonInv, Lose
  PROVE  MortonInv'
<1>1. /\ hand # Null /\ hand' = Null /\ begin' = begin + 1 /\ tries = MAX_ITERATION + 1
      /\ success' = FALSE /\ dropped' = dropped + 1
      /\ UNCHANGED <<config, pc, blocks, tries, hash>>
  BY DEF Lose
<1>2. config \in Configs /\ HandClasses = {Class(hand.fingerprint, hand.address)}
      /\ BlocksOK(blocks)
  BY <1>1, HandFacts DEF MortonInv
<1>3. HandClasses' = {} /\ Begun' = Begun /\ KeyClasses' = KeyClasses
  BY <1>1, KeysSame DEF HandClasses
<1>4. Taken(blocks)' = Taken(blocks) /\ SlotClasses(blocks)' = SlotClasses(blocks)
  BY <1>1, BlocksKept
<1>5. Matched'
  BY <1>3, <1>4, MatchLose DEF MortonInv, Matched
<1>6. dropped \in Nat /\ Cardinality(Taken(blocks)) \in Nat
  BY <1>2, TakenFacts, FS_CardinalityType DEF MortonInv, Rest
<1>7. Balanced'
  <2>1. Cardinality(HandClasses) = 1 /\ Cardinality(HandClasses') = 0
    BY <1>2, <1>3, FS_EmptySet, FS_Singleton
  <2>2. Cardinality(Taken(blocks)) + 1 + dropped = Cardinality(Begun)
    BY <2>1 DEF MortonInv, Balanced
  <2> QED
    BY <1>1, <1>3, <1>4, <1>6, <2>1, <2>2 DEF Balanced
<1>8. Marked'
  <2>1. tries # 0
    BY <1>1, IterationAssumption
  <2>2. ASSUME NEW y \in Begun
        PROVE  \/ Holds(blocks, hash[y].fingerprint, hash[y].address)
               \/ Left(blocks, hash[y].address)
    BY <2>1 DEF MortonInv, Marked
  <2> QED
    BY <1>1, <1>3, <2>2, BlocksKept DEF Marked
<1>9. KeysOK'
  <2>1. begin \in 0 .. config.histogram /\ begin < config.histogram /\ config.histogram \in Nat
        /\ Keys = 0 .. config.histogram - 1
    BY <1>1, <1>2, ConfigFacts DEF MortonInv, KeysOK
  <2>2. \A x \in Keys : x < begin + 1 <=> x < begin \/ x = begin
    BY <2>1
  <2>3. begin + 1 \in 0 .. config.histogram
    BY <2>1
  <2> QED
    BY <1>1, <2>2, <2>3, LayoutKept DEF MortonInv, KeysOK
<1>10. CountersFresh' /\ HandOK' /\ Rest'
  <2>1. CountersFresh' /\ HandOK'
    BY <1>1 DEF CountersFresh, HandOK
  <2>2. dropped + 1 \in Nat
    BY <1>6
  <2>3. pc' \in {"construct", "done"} /\ tries' \in 0 .. MAX_ITERATION + 1
    BY <1>1 DEF MortonInv, Rest
  <2> QED
    BY <1>1, <2>1, <2>2, <2>3 DEF Rest
<1>11. BlocksOK(blocks)'
  BY <1>1, <1>2, BlocksKept
<1> QED
  BY <1>5, <1>7, <1>8, <1>9, <1>10, <1>11 DEF MortonInv

(* What is neither of the keys nor of the blocks. *)
LEMMA OthersKeepInv ==
  ASSUME MortonInv, UNCHANGED <<config, begin, blocks, hand, tries, hash, success, dropped>>,
         pc' \in {"construct", "done"}
  PROVE  MortonInv'
<1>1. HandClasses' = HandClasses /\ Begun' = Begun /\ KeyClasses' = KeyClasses
  BY ClassKept, KeysSame DEF HandClasses
<1>2. Taken(blocks)' = Taken(blocks) /\ SlotClasses(blocks)' = SlotClasses(blocks)
      /\ BlocksOK(blocks)'
  BY BlocksKept DEF MortonInv
<1>3. Matched' /\ Balanced'
  BY <1>1, <1>2 DEF MortonInv, Matched, Balanced
<1>4. Marked'
  BY <1>1, BlocksKept DEF MortonInv, Marked
<1>5. KeysOK' /\ HandOK' /\ Rest'
  BY LayoutKept DEF MortonInv, KeysOK, HandOK, Rest
<1>6. CountersFresh'
  BY LayoutKept DEF MortonInv, CountersFresh, Arrive, Block, block, bucket_index,
                    occupied_slots, slot_offset, is_free
<1> QED
  BY <1>2, <1>3, <1>4, <1>5, <1>6 DEF MortonInv

(* A new filter: blocks whose buckets are empty, and no key. *)
LEMMA InitInv == Init => MortonInv
<1>1. SUFFICES ASSUME Init PROVE MortonInv
  OBVIOUS
<1>2. /\ config \in Configs /\ begin = 0 /\ hand = Null /\ tries = 0 /\ dropped = 0
      /\ pc = "construct" /\ success = TRUE
      /\ hash = [x \in Keys |-> Null]
  BY <1>1 DEF Init
<1>3. PICK B : B = [count |-> [i \in BucketsOfBlock |-> 0], ota |-> {},
                    slots |-> [j \in Slots |-> 0]]
  OBVIOUS
<1>4. blocks = [b \in 0 .. n_blocks - 1 |-> B]
  BY <1>1, <1>3 DEF Init
<1>5. /\ config.buckets_per_block \in Nat /\ config.histogram \in Nat
      /\ config.slots_per_bucket \in Nat /\ slots_per_block \in Nat
      /\ BucketsOfBlock = 0 .. config.buckets_per_block - 1
      /\ Keys = 0 .. config.histogram - 1
  BY <1>2, ConfigFacts
<1>6. /\ B.count = [i \in BucketsOfBlock |-> 0] /\ B.ota = {}
      /\ B.slots = [j \in Slots |-> 0]
  BY <1>3
<1>7. RunOK(B)
  <2>1. \A i \in 0 .. config.buckets_per_block - 1 : B.count[i] = 0
    BY <1>5, <1>6
  <2>2. \A w \in 0 .. config.buckets_per_block : SumBelow(B.count, w) = 0
    BY <1>5, <2>1, SumOfZeros
  <2>3. occupied_slots(B) = 0
    BY <1>5, <2>2 DEF occupied_slots, slot_offset
  <2>4. B.count \in [BucketsOfBlock -> 0 .. config.slots_per_bucket]
    BY <1>5, <1>6
  <2>5. B.slots \in [Slots -> Fingerprints \cup {0}]
    BY <1>6
  <2> QED
    BY <1>5, <2>3, <2>4, <2>5 DEF RunOK
<1>8. BlockOK(B)
  BY <1>3, <1>6, <1>7 DEF BlockOK
<1>9. BlocksOK(blocks)
  <2>1. \A b \in 0 .. n_blocks - 1 : blocks[b] = B
    BY <1>4
  <2>2. \A i \in BucketsOfBlock : ~(B.count[i] > 0)
    BY <1>6
  <2>3. blocks = [b \in 0 .. n_blocks - 1 |-> blocks[b]]
    BY <1>4
  <2> QED
    BY <1>8, <2>1, <2>2, <2>3 DEF BlocksOK
<1>10. Taken(blocks) = {}
  <2>1. SUFFICES ASSUME NEW t \in Taken(blocks) PROVE FALSE
    OBVIOUS
  <2>2. t[1] \in Addresses /\ t[2] \in SlotsOf(blocks[block(t[1])], bucket_index(t[1]))
    BY <1>2, <1>9, TakenFacts
  <2>3. PICK i : i = bucket_index(t[1])
    OBVIOUS
  <2>4. blocks[block(t[1])] = B /\ i \in BucketsOfBlock
    BY <1>2, <1>4, <2>2, <2>3, AddressFacts
  <2>5. t[2] \in SlotsOf(B, i)
    BY <2>2, <2>3, <2>4
  <2>6. /\ t[2] \in Nat /\ slot_offset(B, i) <= t[2]
        /\ t[2] < slot_offset(B, i) + B.count[i] /\ slot_offset(B, i) \in Nat
    BY <1>2, <1>7, <2>4, <2>5, SlotsFacts, Offsets
  <2>7. B.count[i] = 0
    BY <1>6, <2>4
  <2> QED
    BY <2>6, <2>7
<1>11. Begun = {} /\ HandClasses = {}
  BY <1>2 DEF Begun, HandClasses
<1>12. KeysOK
  <2>1. \A x \in Keys : ~(x < begin) /\ hash[x] = Null
    BY <1>2, <1>5
  <2>2. hash = [x \in Keys |-> hash[x]] /\ begin \in 0 .. config.histogram
    BY <1>2, <1>5
  <2> QED
    BY <1>2, <2>1, <2>2 DEF KeysOK
<1>13. Rest
  BY <1>2, IterationAssumption DEF Rest
<1>14. HandOK /\ CountersFresh
  BY <1>2 DEF HandOK, CountersFresh
<1>15. Matched
  <2>1. DOMAIN SlotClasses(blocks) = {} /\ DOMAIN KeyClasses = {}
    BY <1>10, <1>11 DEF SlotClasses, KeyClasses
  <2>2. PICK none : none = [t \in {} |-> 0]
    OBVIOUS
  <2>3. none \in [{} -> {}]
    BY <2>2
  <2>4. OneEach(SlotClasses(blocks), KeyClasses, {})
    BY <2>1, <2>3 DEF OneEach
  <2> QED
    BY <1>11, <2>4 DEF Matched
<1>16. Balanced
  BY <1>2, <1>10, <1>11, FS_EmptySet DEF Balanced
<1>17. Marked
  BY <1>11 DEF Marked
<1> QED
  BY <1>9, <1>12, <1>13, <1>14, <1>15, <1>16, <1>17 DEF MortonInv

(* The inductive invariant: runs as long as their counters say, a key for  *)
(* every fingerprint, and a mark on each bucket that sent a key away.      *)
THEOREM MortonInvariance == Spec => []MortonInv
<1>1. Init => MortonInv
  BY InitInv
<1>2. MortonInv /\ [Next]_vars => MortonInv'
  <2>1. SUFFICES ASSUME MortonInv, [Next]_vars PROVE MortonInv'
    OBVIOUS
  <2>2. pc \in {"construct", "done"}
    BY <2>1 DEF MortonInv, Rest
  <2>3. CASE NextKey
    BY <2>1, <2>3, NextKeyKeepsInv
  <2>4. CASE bucket_insert
    BY <2>1, <2>4, InsertKeepsInv
  <2>5. CASE SecondBucket
    BY <2>1, <2>5, SecondKeepsInv
  <2>6. CASE evict_victim
    <3>1. CASE evict_from_bucket
      BY <2>1, <3>1, BucketEvictKeepsInv
    <3>2. CASE evict_with_room
      BY <2>1, <3>2, WithRoomKeepsInv
    <3>3. CASE evict_last
      BY <2>1, <3>3, LastKeepsInv
    <3> QED
      BY <2>6, <3>1, <3>2, <3>3 DEF evict_victim
  <2>7. CASE Lose
    BY <2>1, <2>7, LoseKeepsInv
  <2>8. CASE Finished
    BY <2>1, <2>8, OthersKeepInv DEF Finished
  <2>9. CASE UNCHANGED vars
    BY <2>1, <2>2, <2>9, OthersKeepInv DEF vars
  <2> QED
    BY <2>1, <2>3, <2>4, <2>5, <2>6, <2>7, <2>8, <2>9 DEF Next
<1> QED
  BY <1>1, <1>2, PTL DEF Spec

-----------------------------------------------------------------------------
(* What the Morton filter promises. *)

(* The types of the variables, and of every block: no counter beyond its   *)
(* bucket, and no run of fingerprints beyond the slots.                    *)
THEOREM MortonTypes == Spec => []TypeOK
<1>1. MortonInv => TypeOK
  <2>1. SUFFICES ASSUME MortonInv PROVE TypeOK
    OBVIOUS
  <2>2. DOMAIN blocks = 0 .. n_blocks - 1
    BY <2>1 DEF MortonInv, BlocksOK
  <2>3. \A b \in DOMAIN blocks :
          /\ blocks[b].count \in [BucketsOfBlock -> 0 .. config.slots_per_bucket]
          /\ occupied_slots(blocks[b]) <= slots_per_block
          /\ blocks[b].ota \subseteq 0 .. config.ota_size - 1
          /\ blocks[b].slots \in [Slots -> Fingerprints \cup {0}]
    BY <2>1, <2>2 DEF MortonInv, BlocksOK, BlockOK, RunOK
  <2>4. \A x \in Begun :
          hash[x].fingerprint \in Fingerprints /\ hash[x].address \in Addresses
    BY <2>1 DEF MortonInv, KeysOK, Begun
  <2>5. hand # Null => hand.fingerprint \in Fingerprints /\ hand.address \in Addresses
    BY <2>1 DEF MortonInv, HandOK
  <2> QED
    BY <2>1, <2>3, <2>4, <2>5 DEF MortonInv, KeysOK, Rest, TypeOK
<1> QED
  BY <1>1, MortonInvariance, PTL

(* What evict_victim hands on of the victim's bucket, which it reads       *)
(* before it changes the victim's block, are the numbers of that block.    *)
THEOREM NumbersFresh == Spec => []CountersFresh
<1>1. MortonInv => CountersFresh
  BY DEF MortonInv
<1> QED
  BY <1>1, MortonInvariance, PTL

(* Whoever has to go from a full block is found: a bucket that is not full *)
(* holds fewer fingerprints than the block, so some lie before or behind.  *)
THEOREM VictimsExist == Spec => []VictimFound
<1>1. MortonInv => VictimFound
  <2>1. SUFFICES ASSUME MortonInv, hand # Null, ~hand.free, ~BucketFull
                 PROVE  /\ Candidates # {}
                        /\ \A j \in Candidates :
                             \E i \in BucketsOfBlock \ {Index} : j \in SlotsOf(Block, i)
    BY DEF VictimFound
  <2>2. \A j \in Candidates : \E i \in BucketsOfBlock \ {Index} : j \in SlotsOf(Block, i)
    BY <2>1, CandidateFacts
  <2>3. /\ config \in Configs /\ Index \in BucketsOfBlock /\ RunOK(Block)
        /\ hand.slot_count = Block.count[Index]
        /\ hand.occupied = occupied_slots(Block)
        /\ hand.free = is_free(Block, Index)
    BY <2>1, HandFacts
  <2>4. /\ config.slots_per_bucket \in Nat /\ slots_per_block \in Nat
        /\ config.slots_per_bucket <= slots_per_block
        /\ Slots = 0 .. slots_per_block - 1
    BY <2>3, ConfigFacts
  <2>5. Offset \in Nat /\ hand.slot_count \in Nat
    BY <2>3, Offsets DEF Offset
  <2>6. hand.slot_count < config.slots_per_bucket
    <3>1. Block.count[Index] \in 0 .. config.slots_per_bucket
      BY <2>3 DEF RunOK
    <3>2. QED
      BY <2>1, <2>3, <2>4, <3>1 DEF BucketFull
  <2>7. hand.occupied = slots_per_block
    BY <2>1, <2>3, <2>6 DEF BucketFull, is_free
  <2>8. CASE Offset = 0
    <3>1. Start = hand.slot_count /\ hand.slot_count \in Slots
          /\ hand.slot_count < hand.occupied
      BY <2>4, <2>5, <2>6, <2>7, <2>8 DEF Start
    <3>2. hand.slot_count \in Candidates
      BY <2>5, <3>1 DEF Candidates
    <3>3. QED
      BY <2>2, <3>2
  <2>9. CASE Offset # 0
    <3>1. 0 \in Slots /\ 0 < Offset
      BY <2>4, <2>5, <2>6, <2>9
    <3>2. 0 \in Candidates
      BY <3>1 DEF Candidates
    <3>3. QED
      BY <2>2, <3>2
  <2> QED
    BY <2>8, <2>9
<1> QED
  BY <1>1, MortonInvariance, PTL

(* The slots that the counters give to the buckets are those taken. *)
LEMMA StoredIsTaken ==
  ASSUME MortonInv
  PROVE  /\ Stored = Taken(blocks)
         /\ DOMAIN SlotClasses(blocks) = Stored
         /\ \A t \in Stored : SlotClasses(blocks)[t] = ClassIn(t)
         /\ DOMAIN KeyClasses = Begun /\ \A x \in Begun : KeyClasses[x] = ClassOf(x)
         /\ IsFiniteSet(Stored) /\ IsFiniteSet(Begun)
<1>1. config \in Configs /\ BlocksOK(blocks) /\ config.histogram \in Nat
      /\ Keys = 0 .. config.histogram - 1
  BY ConfigFacts DEF MortonInv, KeysOK
<1>2. \A a \in Addresses : SlotsOf(blocks[block(a)], bucket_index(a)) \subseteq Slots
  BY <1>1, TakenFacts
<1>3. Stored = Taken(blocks)
  <2>1. ASSUME NEW t \in Stored PROVE t \in Taken(blocks)
    <3>1. PICK a \in Addresses : t \in {a} \X SlotsOf(blocks[block(a)], bucket_index(a))
      BY DEF Stored
    <3>2. t = <<a, t[2]>> /\ t[2] \in SlotsOf(blocks[block(a)], bucket_index(a))
      BY <3>1
    <3>3. t[2] \in Slots
      BY <1>2, <3>2
    <3> QED
      BY <1>1, <3>2, <3>3, TakenFacts
  <2>2. ASSUME NEW t \in Taken(blocks) PROVE t \in Stored
    <3>1. /\ t = <<t[1], t[2]>> /\ t[1] \in Addresses
          /\ t[2] \in SlotsOf(blocks[block(t[1])], bucket_index(t[1]))
      BY <1>1, TakenFacts
    <3>2. t \in {t[1]} \X SlotsOf(blocks[block(t[1])], bucket_index(t[1]))
      BY <3>1
    <3> QED
      BY <3>1, <3>2 DEF Stored
  <2> QED
    BY <2>1, <2>2
<1>4. IsFiniteSet(Begun)
  <2>1. IsFiniteSet(Keys) /\ Begun \in SUBSET Keys
    BY <1>1, FS_Interval DEF Begun
  <2> QED
    BY <2>1, FS_Subset
<1>5. IsFiniteSet(Taken(blocks))
  BY <1>1, TakenFacts
<1> QED
  BY <1>3, <1>4, <1>5 DEF SlotClasses, KeyClasses, ClassIn

(* The shifts of the runs and the changed counters invent no fingerprint   *)
(* and lose none, but for the one lost by each insertion that fails, and   *)
(* none gets into a bucket that is not one of its two.                     *)
THEOREM RunsConserve == Spec => []Conserved
<1>1. MortonInv => Conserved
  <2>1. SUFFICES ASSUME MortonInv PROVE Conserved
    OBVIOUS
  <2>2. PICK slots, keys : slots = SlotClasses(blocks) /\ keys = KeyClasses
    OBVIOUS
  <2>3. /\ Stored = Taken(blocks) /\ IsFiniteSet(Stored) /\ IsFiniteSet(Begun)
        /\ DOMAIN slots = Stored /\ \A t \in Stored : slots[t] = ClassIn(t)
        /\ DOMAIN keys = Begun /\ \A x \in Begun : keys[x] = ClassOf(x)
    BY <2>1, <2>2, StoredIsTaken
  <2>4. OneEach(slots, keys, HandClasses)
    BY <2>1, <2>2 DEF MortonInv, Matched
  <2>5. Cardinality(HandClasses) = IF hand = Null THEN 0 ELSE 1
    BY FS_Singleton, FS_EmptySet DEF HandClasses
  <2>6. Cardinality(Stored) + (IF hand = Null THEN 0 ELSE 1) + dropped = Cardinality(Begun)
    BY <2>1, <2>3, <2>5 DEF MortonInv, Balanced
  <2>7. ASSUME NEW x \in Begun
        PROVE  Cardinality({t \in Stored : ClassIn(t) = ClassOf(x)})
                 + (IF InHand(ClassOf(x)) THEN 1 ELSE 0)
               <= Cardinality({y \in Begun : ClassOf(y) = ClassOf(x)})
    <3>1. PICK w : w = ClassOf(x)
      OBVIOUS
    <3>2. Cardinality({t \in DOMAIN slots : slots[t] = w}) + (IF w \in HandClasses THEN 1 ELSE 0)
            <= Cardinality({y \in DOMAIN keys : keys[y] = w})
      BY <2>3, <2>4, MatchCounts
    <3>3. /\ {t \in DOMAIN slots : slots[t] = w} = {t \in Stored : ClassIn(t) = w}
          /\ {y \in DOMAIN keys : keys[y] = w} = {y \in Begun : ClassOf(y) = w}
      BY <2>3
    <3>4. w \in HandClasses <=> InHand(w)
      BY DEF HandClasses, InHand
    <3> QED
      BY <3>1, <3>2, <3>3, <3>4
  <2>8. ASSUME NEW t \in Stored PROVE \E x \in Begun : ClassIn(t) = ClassOf(x)
    BY <2>3, <2>4, <2>8 DEF OneEach
  <2> QED
    BY <2>6, <2>7, <2>8 DEF Conserved
<1> QED
  BY <1>1, MortonInvariance, PTL

(* Between insertions a key whose class a slot has is found: if the slot   *)
(* is not in its first bucket, that one was marked.                        *)
LEMMA FoundInItsClass ==
  ASSUME MortonInv, hand = Null, NEW x \in Begun, NEW t \in Stored, ClassIn(t) = ClassOf(x)
  PROVE  contains(x)
<1>1. config \in Configs /\ config.histogram > 0 /\ BlocksOK(blocks)
  <2>1. config \in Configs /\ BlocksOK(blocks) /\ config.histogram \in Nat
        /\ Keys = 0 .. config.histogram - 1
    BY ConfigFacts DEF MortonInv, KeysOK
  <2>2. x \in Keys
    BY DEF Begun
  <2> QED
    BY <2>1, <2>2
<1>2. PICK f, a, b, j : /\ f = hash[x].fingerprint /\ a = hash[x].address
                        /\ b = t[1] /\ j = t[2]
  OBVIOUS
<1>3. /\ b \in Addresses /\ j \in SlotsOf(blocks[block(b)], bucket_index(b))
      /\ f \in Fingerprints /\ a \in Addresses
  <2>1. t \in Taken(blocks)
    BY StoredIsTaken
  <2>2. f \in Fingerprints /\ a \in Addresses
    BY <1>2 DEF MortonInv, KeysOK, Begun
  <2> QED
    BY <1>1, <1>2, <2>1, <2>2, TakenFacts
<1>4. PICK y : y = blocks[block(b)].slots[j]
  OBVIOUS
<1>5. <<y, {b, alternative(b, y)}>> = <<f, {a, alternative(a, f)}>>
  BY <1>2, <1>4 DEF ClassIn, ClassOf, Class
<1>6. y = f /\ b \in {a, alternative(a, f)}
  BY <1>5
<1>7. InBucket(f, b)
  BY <1>3, <1>4, <1>6 DEF InBucket
<1>8. InBucket(f, a) \/ get_ota(blocks[block(a)], bucket_index(a))
  BY <1>2 DEF MortonInv, Marked, Holds, Left, InBucket
<1> QED
  BY <1>2, <1>6, <1>7, <1>8 DEF contains

(* The lookup that reads the second bucket only if the first one has       *)
(* overflowed misses no more keys than insertions have failed.             *)
THEOREM ShortCutFinds == Spec => []NoFalseNegatives
<1>1. MortonInv => NoFalseNegatives
  <2>1. SUFFICES ASSUME MortonInv, hand = Null
                 PROVE  Cardinality({x \in Begun : ~contains(x)}) <= dropped
    BY DEF NoFalseNegatives
  <2>2. PICK slots, keys : slots = SlotClasses(blocks) /\ keys = KeyClasses
    OBVIOUS
  <2>3. /\ Stored = Taken(blocks) /\ IsFiniteSet(Stored) /\ IsFiniteSet(Begun)
        /\ DOMAIN slots = Stored /\ \A t \in Stored : slots[t] = ClassIn(t)
        /\ DOMAIN keys = Begun /\ \A x \in Begun : keys[x] = ClassOf(x)
    BY <2>1, <2>2, StoredIsTaken
  <2>4. OneEach(slots, keys, HandClasses)
    BY <2>1, <2>2 DEF MortonInv, Matched
  <2>5. PICK M : M = {x \in DOMAIN keys : \A t \in DOMAIN slots : slots[t] # keys[x]}
    OBVIOUS
  <2>6. Cardinality(M) <= Cardinality(Begun) - Cardinality(Stored) /\ IsFiniteSet(M)
    <3>1. IsFiniteSet(DOMAIN slots) /\ IsFiniteSet(DOMAIN keys)
      BY <2>3
    <3>2. /\ Cardinality({x \in DOMAIN keys : \A t \in DOMAIN slots : slots[t] # keys[x]})
               <= Cardinality(DOMAIN keys) - Cardinality(DOMAIN slots)
          /\ IsFiniteSet({x \in DOMAIN keys : \A t \in DOMAIN slots : slots[t] # keys[x]})
      BY <2>4, <3>1, MatchMissing
    <3> QED
      BY <2>3, <2>5, <3>2
  <2>7. {x \in Begun : ~contains(x)} \in SUBSET M
    BY <2>1, <2>3, <2>5, FoundInItsClass
  <2>8. /\ IsFiniteSet({x \in Begun : ~contains(x)})
        /\ Cardinality({x \in Begun : ~contains(x)}) <= Cardinality(M)
    BY <2>6, <2>7, FS_Subset
  <2>9. Cardinality(HandClasses) = 0
    BY <2>1, FS_EmptySet DEF HandClasses
  <2>10. /\ Cardinality(Begun) \in Nat /\ Cardinality(Stored) \in Nat /\ Cardinality(M) \in Nat
         /\ Cardinality({x \in Begun : ~contains(x)}) \in Nat /\ dropped \in Nat
    BY <2>1, <2>3, <2>6, <2>8, FS_CardinalityType DEF MortonInv, Rest
  <2>11. Cardinality(Stored) + 0 + dropped = Cardinality(Begun)
    BY <2>1, <2>3, <2>9 DEF MortonInv, Balanced
  <2> QED
    BY <2>6, <2>8, <2>10, <2>11
<1> QED
  BY <1>1, MortonInvariance, PTL
=============================================================================
