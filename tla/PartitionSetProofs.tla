------------------------ MODULE PartitionSetProofs -------------------------
EXTENDS PartitionSet, NaturalLemmas, FiniteSetTheorems, SequenceTheorems, TLAPS

-----------------------------------------------------------------------------
(* Partitions and slices. *)

(* There are partitions, and a mask of whole bits names one of them. *)
LEMMA PartitionCount == NPartitions \in Nat \ {0} /\ \E e \in Nat : NPartitions = PowerOf2(e)
<1>1. PICK e \in 0..NPartitions : NPartitions = PowerOf2(e)
  BY PartitionAssumption
<1>2. e \in Nat
  OBVIOUS
<1>3. QED
  BY <1>1, <1>2, Powers

(* The partition of a key is a partition. *)
LEMMA PartitionInRange ==
  ASSUME NEW key \in Nat
  PROVE  PartitionOf(key) \in Partitions
<1>1. NPartitions \in Nat \ {0}
  BY PartitionCount
<1>2. CASE NPartitions = 1
  BY <1>2 DEF PartitionOf, Partitions
<1>3. CASE NPartitions > 1
  <2>1. PICK e \in 0..NPartitions : NPartitions = PowerOf2(e)
    BY PartitionAssumption
  <2>2. e \in Nat /\ e # 0
    BY <1>3, <2>1, Powers
  <2>3. e \in 1..NPartitions /\ e-1 \in Nat /\ e-1 < e
    BY <2>1, <2>2
  <2>4. PowerOf2(e-1) < NPartitions /\ NPartitions <= PowerOf2(e)
    BY <1>1, <2>1, <2>2, <2>3, PowersGrow
  <2>5. PICK b : b = get_number_of_bits(NPartitions)
    OBVIOUS
  <2>6. /\ b \in 1..NPartitions
        /\ PowerOf2(b-1) < NPartitions /\ NPartitions <= PowerOf2(b)
    BY <1>1, <1>3, <2>3, <2>4, <2>5 DEF get_number_of_bits
  <2>7. b \in Nat /\ b-1 \in Nat /\ b # 0
    BY <2>6
  <2>8. ~ (b < e)
    BY <1>1, <2>1, <2>2, <2>6, <2>7, Powers, PowersGrow
  <2>9. ~ (e <= b-1)
    BY <1>1, <2>1, <2>2, <2>6, <2>7, Powers, PowersGrow
  <2>10. b = e
    BY <2>2, <2>7, <2>8, <2>9
  <2>11. PartitionOf(key) = key % NPartitions
    BY <1>3, <2>1, <2>5, <2>10 DEF PartitionOf
  <2>12. QED
    BY <1>1, <2>11 DEF Partitions
<1>4. QED
  BY <1>1, <1>2, <1>3

(* The slices of an input of l keys: one behind the other, to its end. *)
LEMMA SlicesCut ==
  ASSUME NEW l \in Nat
  PROVE  /\ SliceBegin(l) \in [0..NTasks -> 0..l]
         /\ SliceBegin(l)[0] = 0 /\ SliceBegin(l)[NTasks] = l
         /\ \A i \in Slices : SliceBegin(l)[i] <= SliceBegin(l)[i+1]
         /\ \A i, j \in 0..NTasks : i <= j => SliceBegin(l)[i] <= SliceBegin(l)[j]
<1>1. NTasks \in Nat \ {0}
  BY QueueAssumption
<1> DEFINE Cuts(b) == b = [i \in 0..NTasks |->
                             IF i = 0 THEN 0 ELSE b[i-1] + (l - b[i-1]) \div (NTasks - (i-1))]
<1>2. SliceBegin(l) = CHOOSE b : Cuts(b)
  BY DEF SliceBegin
<1>3. \A x \in 0..l, k \in Nat \ {0} : x + (l - x) \div k \in x..l
  <2>1. SUFFICES ASSUME NEW x \in 0..l, NEW k \in Nat \ {0}
                 PROVE  x + (l - x) \div k \in x..l
    OBVIOUS
  <2>2. PICK d : d = (l - x) \div k
    OBVIOUS
  <2>3. d \in Nat /\ k * d <= l - x /\ k * d \in Nat
    <3>1. l - x \in Nat
      OBVIOUS
    <3>2. QED
      BY <2>2, <3>1, Division, MultiplesApart
  <2>4. d <= k * d
    <3>1. PICK c \in Nat : k = c + 1
      <4>1. k-1 \in Nat /\ k = (k-1) + 1
        OBVIOUS
      <4>2. QED
        BY <4>1
    <3>2. k * d = c * d + d /\ c * d \in Nat
      BY <2>3, <3>1
    <3>3. QED
      BY <2>3, <3>2
  <2>5. QED
    BY <2>2, <2>3, <2>4
<1>4. \E b : Cuts(b)
  <2>1. PICK S, a : S = 0..l /\ a = 0
    OBVIOUS
  <2>2. PICK F : F = [i \in Nat |-> [x \in S |->
                        IF i \in 1..NTasks THEN x + (l - x) \div (NTasks - (i-1)) ELSE x]]
    OBVIOUS
  <2>3. F \in [Nat -> [S -> S]] /\ a \in S
    <3>1. \A i \in 1..NTasks : NTasks - (i-1) \in Nat \ {0}
      BY <1>1
    <3>2. \A i \in Nat, x \in S :
            (IF i \in 1..NTasks THEN x + (l - x) \div (NTasks - (i-1)) ELSE x) \in S
      BY <1>3, <2>1, <3>1
    <3>3. \A i \in Nat : F[i] = [x \in S |->
             IF i \in 1..NTasks THEN x + (l - x) \div (NTasks - (i-1)) ELSE x]
      BY <2>2
    <3>4. \A i \in Nat : F[i] \in [S -> S]
      <4>1. SUFFICES ASSUME NEW i \in Nat PROVE F[i] \in [S -> S]
        OBVIOUS
      <4>2. \A x \in S : F[i][x] =
              (IF i \in 1..NTasks THEN x + (l - x) \div (NTasks - (i-1)) ELSE x)
        BY <3>3
      <4>3. \A x \in S : F[i][x] \in S
        BY <3>2, <4>2
      <4>4. F[i] = [x \in S |-> F[i][x]]
        BY <3>3
      <4>5. QED
        BY ONLY <4>3, <4>4
    <3>5. F = [i \in Nat |-> F[i]]
      BY <2>2
    <3>6. F \in [Nat -> [S -> S]]
      BY ONLY <3>4, <3>5
    <3>7. a \in S
      BY <2>1
    <3>8. QED
      BY ONLY <3>6, <3>7
  <2>4. PICK g \in [0..NTasks -> S] : g[0] = a /\ \A i \in 1..NTasks : g[i] = F[i][g[i-1]]
    <3>1. \A n \in Nat : \E g \in [0..n -> S] :
            g[0] = a /\ \A i \in 1..n : g[i] = F[i][g[i-1]]
      BY ONLY <2>3, Loop
    <3>2. QED
      BY <1>1, <3>1
  <2>5. \A i \in 1..NTasks : g[i] = g[i-1] + (l - g[i-1]) \div (NTasks - (i-1))
    <3>1. SUFFICES ASSUME NEW i \in 1..NTasks
                   PROVE  g[i] = g[i-1] + (l - g[i-1]) \div (NTasks - (i-1))
      OBVIOUS
    <3>2. i \in Nat /\ i-1 \in 0..NTasks
      BY <1>1
    <3>3. g[i-1] \in S
      BY <3>2
    <3>4. QED
      BY <2>2, <2>4, <3>2, <3>3
  <2>6. Cuts(g)
    BY <2>1, <2>4, <2>5
  <2>7. QED
    BY <2>6
<1>5. PICK b : b = SliceBegin(l) /\ Cuts(b)
  BY <1>2, <1>4
<1>6. b[0] = 0 /\ \A i \in 1..NTasks : b[i] = b[i-1] + (l - b[i-1]) \div (NTasks - (i-1))
  <2>1. b = [i \in 0..NTasks |->
               IF i = 0 THEN 0 ELSE b[i-1] + (l - b[i-1]) \div (NTasks - (i-1))]
    BY <1>5
  <2>2. 0 \in 0..NTasks /\ \A i \in 1..NTasks : i \in 0..NTasks /\ i # 0
    BY <1>1
  <2>3. QED
    BY <2>1, <2>2
<1>7. DOMAIN b = 0..NTasks /\ b = [i \in 0..NTasks |-> b[i]]
  BY <1>5
<1> HIDE DEF Cuts
<1>8. \A i \in 0..NTasks : b[i] \in 0..l
  <2>1. SUFFICES ASSUME NEW i \in 0..NTasks, b[i] \notin 0..l PROVE FALSE
    OBVIOUS
  <2>2. PICK T : T = {k \in 0..NTasks : b[k] \notin 0..l}
    OBVIOUS
  <2>3. T \subseteq Nat /\ T # {}
    BY <2>1, <2>2
  <2>4. PICK m \in T : \A k \in T : m <= k
    BY <2>3, LeastNat
  <2>5. m \in 0..NTasks /\ b[m] \notin 0..l
    BY <2>2, <2>4
  <2>6. m # 0
    BY <1>6, <2>5
  <2>7. m \in 1..NTasks /\ m-1 \in 0..NTasks /\ ~ (m <= m-1) /\ NTasks - (m-1) \in Nat \ {0}
    BY <1>1, <2>5, <2>6
  <2>8. b[m-1] \in 0..l
    BY <2>2, <2>4, <2>7
  <2>9. b[m] \in b[m-1]..l
    BY <1>3, <1>6, <2>7, <2>8
  <2>10. QED
    BY <2>5, <2>8, <2>9
<1>9. \A i \in 1..NTasks : b[i-1] <= b[i]
  <2>1. SUFFICES ASSUME NEW i \in 1..NTasks PROVE b[i-1] <= b[i]
    OBVIOUS
  <2>2. i-1 \in 0..NTasks /\ NTasks - (i-1) \in Nat \ {0}
    BY <1>1
  <2>3. b[i] \in b[i-1]..l
    BY <1>3, <1>6, <1>8, <2>2
  <2>4. QED
    BY <2>3
<1>10. b[NTasks] = l
  <2>1. NTasks \in 1..NTasks /\ NTasks-1 \in 0..NTasks /\ NTasks - (NTasks-1) = 1
    BY <1>1
  <2>2. b[NTasks] = b[NTasks-1] + (l - b[NTasks-1]) \div 1
    BY <1>6, <2>1
  <2>3. b[NTasks-1] \in 0..l
    BY <1>8, <2>1
  <2>4. QED
    BY <2>2, <2>3
<1>11. \A i, j \in 0..NTasks : i <= j => b[i] <= b[j]
  <2>1. SUFFICES ASSUME NEW i \in 0..NTasks, NEW j \in 0..NTasks, i <= j, ~ (b[i] <= b[j])
                 PROVE  FALSE
    OBVIOUS
  <2>2. PICK T : T = {k \in 0..NTasks : i <= k /\ ~ (b[i] <= b[k])}
    OBVIOUS
  <2>3. T \subseteq Nat /\ T # {}
    BY <2>1, <2>2
  <2>4. PICK m \in T : \A k \in T : m <= k
    BY <2>3, LeastNat
  <2>5. m \in 0..NTasks /\ i <= m /\ ~ (b[i] <= b[m])
    BY <2>2, <2>4
  <2>6. m # i
    BY <1>8, <2>5
  <2>7. m \in 1..NTasks /\ m-1 \in 0..NTasks /\ ~ (m <= m-1) /\ i <= m-1
    BY <1>1, <2>5, <2>6
  <2>8. b[i] <= b[m-1]
    BY <2>2, <2>4, <2>7
  <2>9. b[m-1] <= b[m] /\ b[m-1] \in Nat /\ b[m] \in Nat /\ b[i] \in Nat
    BY <1>8, <1>9, <2>7
  <2>10. QED
    BY <2>5, <2>8, <2>9
<1>12. \A i \in Slices : b[i] <= b[i+1]
  <2>1. \A i \in Slices : i \in 0..NTasks /\ i+1 \in 0..NTasks /\ i <= i+1
    BY <1>1 DEF Slices
  <2>2. QED
    BY <1>11, <2>1
<1>13. b \in [0..NTasks -> 0..l]
  BY <1>7, <1>8
<1>14. QED
  BY <1>5, <1>6, <1>10, <1>11, <1>12, <1>13

-----------------------------------------------------------------------------
(* Ranks and windows. *)

(* How many of the first n keys of an input belong to partition p. *)
Rank(w, n, p) == Cardinality({m \in 1..n : PartitionOf(w[m]) = p})

(* The rank counts key by key. *)
LEMMA RankSteps ==
  ASSUME NEW w, NEW p
  PROVE  /\ Rank(w, 0, p) = 0
         /\ \A n \in Nat : Rank(w, n, p) \in Nat
         /\ \A n \in Nat \ {0} :
              Rank(w, n, p) = Rank(w, n-1, p) + (IF PartitionOf(w[n]) = p THEN 1 ELSE 0)
<1> DEFINE D(n) == {m \in 1..n : PartitionOf(w[m]) = p}
<1>1. \A n \in Nat : IsFiniteSet(D(n)) /\ Rank(w, n, p) \in Nat
  <2>1. SUFFICES ASSUME NEW n \in Nat PROVE IsFiniteSet(D(n)) /\ Rank(w, n, p) \in Nat
    OBVIOUS
  <2>2. IsFiniteSet(1..n) /\ D(n) \in SUBSET (1..n)
    BY FS_Interval
  <2>3. IsFiniteSet(D(n))
    BY <2>2, FS_Subset
  <2>4. QED
    BY <2>3, FS_CardinalityType DEF Rank
<1>2. Rank(w, 0, p) = 0
  <2>1. D(0) = {}
    OBVIOUS
  <2>2. QED
    BY <2>1, FS_EmptySet DEF Rank
<1>3. ASSUME NEW n \in Nat \ {0}
      PROVE  Rank(w, n, p) = Rank(w, n-1, p) + (IF PartitionOf(w[n]) = p THEN 1 ELSE 0)
  <2>1. n-1 \in Nat /\ 1..n = 1..(n-1) \cup {n} /\ n \notin 1..(n-1)
    OBVIOUS
  <2>2. IsFiniteSet(D(n-1)) /\ Cardinality(D(n-1)) \in Nat /\ n \notin D(n-1)
    BY <1>1, <2>1 DEF Rank
  <2>3. CASE PartitionOf(w[n]) = p
    <3>1. D(n) = D(n-1) \cup {n}
      BY <2>1, <2>3
    <3>2. Cardinality(D(n)) = Cardinality(D(n-1)) + 1
      BY <2>2, <3>1, FS_AddElement
    <3>3. QED
      BY <2>3, <3>2 DEF Rank
  <2>4. CASE PartitionOf(w[n]) # p
    <3>1. D(n) = D(n-1)
      BY <2>1, <2>4
    <3>2. QED
      BY <2>2, <2>4, <3>1 DEF Rank
  <2>5. QED
    BY <2>3, <2>4
<1>4. QED
  BY <1>1, <1>2, <1>3

(* It grows, by the number of the keys in between. *)
LEMMA RankGrows ==
  ASSUME NEW w, NEW p, NEW m \in Nat, NEW n \in Nat, m <= n
  PROVE  /\ Rank(w, m, p) <= Rank(w, n, p)
         /\ Cardinality({k \in m+1 .. n : PartitionOf(w[k]) = p}) = Rank(w, n, p) - Rank(w, m, p)
         /\ m < n /\ PartitionOf(w[n]) = p => Rank(w, m, p) <= Rank(w, n-1, p)
<1> DEFINE D(k) == {i \in 1..k : PartitionOf(w[i]) = p}
<1>1. \A k \in Nat : IsFiniteSet(D(k)) /\ Cardinality(D(k)) \in Nat
  <2>1. SUFFICES ASSUME NEW k \in Nat PROVE IsFiniteSet(D(k)) /\ Cardinality(D(k)) \in Nat
    OBVIOUS
  <2>2. IsFiniteSet(1..k) /\ D(k) \in SUBSET (1..k)
    BY FS_Interval
  <2>3. QED
    BY <2>2, FS_Subset, FS_CardinalityType
<1>2. \A k \in Nat : m <= k => D(m) \in SUBSET D(k)
  OBVIOUS
<1>3. \A k \in Nat : m <= k => Rank(w, m, p) <= Rank(w, k, p)
  BY <1>1, <1>2, FS_Subset DEF Rank
<1>4. D(n) \ D(m) = {k \in m+1 .. n : PartitionOf(w[k]) = p} /\ D(n) \cap D(m) = D(m)
  OBVIOUS
<1>5. Cardinality(D(n) \ D(m)) = Cardinality(D(n)) - Cardinality(D(m))
  <2>1. IsFiniteSet(D(n))
    BY <1>1
  <2>2. Cardinality(D(n) \ D(m)) = Cardinality(D(n)) - Cardinality(D(n) \cap D(m))
    BY <2>1, FS_Difference
  <2>3. QED
    BY <1>4, <2>2
<1>6. m < n => n-1 \in Nat /\ m <= n-1
  OBVIOUS
<1>7. QED
  BY <1>3, <1>4, <1>5, <1>6 DEF Rank

(* Every smaller rank was the rank in front of a key of the partition. *)
LEMMA RankReached ==
  ASSUME NEW w, NEW p, NEW n \in Nat, NEW r \in 0 .. Rank(w, n, p) - 1
  PROVE  \E k \in 1..n : PartitionOf(w[k]) = p /\ Rank(w, k-1, p) = r
<1>1. PICK T : T = {k \in 0..n : r < Rank(w, k, p)}
  OBVIOUS
<1>2. Rank(w, n, p) \in Nat
  BY RankSteps
<1>3. T \subseteq Nat /\ T # {}
  BY <1>1, <1>2
<1>4. PICK k \in T : \A i \in T : k <= i
  BY <1>3, LeastNat
<1>5. k \in 0..n /\ r < Rank(w, k, p) /\ r \in Nat
  BY <1>1, <1>2, <1>4
<1>6. k # 0
  BY <1>5, RankSteps
<1>7. k \in Nat \ {0} /\ k-1 \in 0..n /\ k-1 \in Nat /\ k \in 1..n /\ ~ (k <= k-1)
  BY <1>5, <1>6
<1>8. ~ (r < Rank(w, k-1, p))
  BY <1>1, <1>4, <1>7
<1>9. /\ Rank(w, k-1, p) \in Nat
      /\ Rank(w, k, p) = Rank(w, k-1, p) + (IF PartitionOf(w[k]) = p THEN 1 ELSE 0)
  BY <1>7, RankSteps
<1>10. PartitionOf(w[k]) = p /\ Rank(w, k-1, p) = r
  BY <1>5, <1>8, <1>9
<1>11. QED
  BY <1>7, <1>10

(* The histogram is the rank of all keys. *)
LEMMA HistogramCounts ==
  ASSUME NEW w \in Seq(Nat)
  PROVE  /\ HistogramOf(w) \in [Partitions -> Nat]
         /\ \A p \in Partitions : HistogramOf(w)[p] = Rank(w, Len(w), p)
<1>1. DOMAIN w = 1..Len(w) /\ Len(w) \in Nat
  OBVIOUS
<1>2. HistogramOf(w) = [p \in Partitions |-> Rank(w, Len(w), p)]
  BY <1>1 DEF HistogramOf, Rank
<1>3. \A p \in Partitions : Rank(w, Len(w), p) \in Nat
  BY <1>1, RankSteps
<1>4. QED
  BY <1>2, <1>3

(* A window has room for its keys, in whole lines. *)
LEMMA WindowHolds ==
  ASSUME NEW n \in Nat
  PROVE  /\ WindowSize(n) \in Nat /\ n < WindowSize(n)
         /\ \E q \in Nat : WindowSize(n) = LineSize * q
<1>1. LineSize \in Nat \ {0}
  BY LineAssumption
<1>2. PICK d : d = n \div LineSize
  OBVIOUS
<1>3. d \in Nat /\ n < LineSize * d + LineSize
  BY <1>1, <1>2, Division
<1>4. d+1 \in Nat /\ LineSize * (d+1) = LineSize * d + LineSize /\ LineSize * (d+1) = (d+1) * LineSize
  BY <1>1, <1>3
<1>5. WindowSize(n) = LineSize * (d+1)
  BY <1>2, <1>4 DEF WindowSize
<1>6. LineSize * (d+1) \in Nat
  BY <1>1, <1>4, MultiplesApart
<1>7. QED
  BY <1>3, <1>4, <1>5, <1>6

(* The windows begin on lines, do not overlap, and all is allocated. *)
LEMMA WindowsApart ==
  ASSUME NEW h \in [Partitions -> Nat]
  PROVE  /\ OffsetsOf(h) \in [Partitions -> Nat]
         /\ \A p \in Partitions : \E q \in Nat : OffsetsOf(h)[p] = LineSize * q
         /\ \A p, q \in Partitions : p < q =>
              OffsetsOf(h)[p] + WindowSize(h[p]) <= OffsetsOf(h)[q]
         /\ \E size \in Nat :
              /\ Allocated(h) = [c \in 0 .. size-1 |-> Garbage]
              /\ \A p \in Partitions : OffsetsOf(h)[p] + WindowSize(h[p]) <= size
<1>1. NPartitions \in Nat \ {0} /\ LineSize \in Nat \ {0}
  BY PartitionCount, LineAssumption
<1>2. PICK f : f = [q \in Partitions |-> WindowSize(h[q])]
  OBVIOUS
<1>3. \A p \in Partitions : f[p] = WindowSize(h[p]) /\ f[p] \in Nat /\ \E q \in Nat : f[p] = LineSize * q
  BY <1>2, WindowHolds
<1>4. Partitions = 0 .. NPartitions-1
  BY DEF Partitions
<1>5. \A i \in 0 .. NPartitions-1 : f[i] \in Nat
  BY <1>3, <1>4
<1>6. /\ SumBelow(f, 0) = 0
      /\ \A k \in 0..NPartitions : SumBelow(f, k) \in Nat
      /\ \A k \in 0 .. NPartitions-1 : SumBelow(f, k+1) = SumBelow(f, k) + f[k]
  BY <1>1, <1>5, SumSteps
<1>7. \A j \in 0..NPartitions : \A k \in j..NPartitions :
        j < k => SumBelow(f, j) + f[j] <= SumBelow(f, k)
  BY <1>1, <1>5, SumGrows
<1>8. OffsetsOf(h) = [p \in Partitions |-> SumBelow(f, p)]
  BY <1>2 DEF OffsetsOf
<1>9. \A k \in 0..NPartitions : \E q \in Nat : SumBelow(f, k) = LineSize * q
  <2>1. SUFFICES ASSUME NEW k \in 0..NPartitions, ~ \E q \in Nat : SumBelow(f, k) = LineSize * q
                 PROVE  FALSE
    OBVIOUS
  <2>2. PICK T : T = {i \in 0..NPartitions : ~ \E q \in Nat : SumBelow(f, i) = LineSize * q}
    OBVIOUS
  <2>3. T \subseteq Nat /\ T # {}
    BY <1>1, <2>1, <2>2
  <2>4. PICK m \in T : \A i \in T : m <= i
    BY <2>3, LeastNat
  <2>5. m \in 0..NPartitions /\ ~ \E q \in Nat : SumBelow(f, m) = LineSize * q
    BY <2>2, <2>4
  <2>6. m # 0
    <3>1. LineSize * 0 = 0 /\ 0 \in Nat
      BY <1>1
    <3>2. QED
      BY <1>6, <2>5, <3>1
  <2>7. m-1 \in 0 .. NPartitions-1 /\ m-1 \in 0..NPartitions /\ ~ (m <= m-1) /\ (m-1)+1 = m
    BY <1>1, <2>5, <2>6
  <2>8. PICK q \in Nat : SumBelow(f, m-1) = LineSize * q
    BY <2>2, <2>4, <2>7
  <2>9. PICK r \in Nat : f[m-1] = LineSize * r
    BY <1>3, <1>4, <2>7
  <2>10. SumBelow(f, m) = LineSize * q + LineSize * r
    BY <1>6, <2>7, <2>8, <2>9
  <2>11. LineSize * (q + r) = LineSize * q + LineSize * r /\ q + r \in Nat
    BY <1>1
  <2>12. QED
    BY <2>5, <2>10, <2>11
<1>10. OffsetsOf(h) \in [Partitions -> Nat]
  <2>1. \A p \in Partitions : SumBelow(f, p) \in Nat
    BY <1>1, <1>4, <1>6
  <2>2. QED
    BY <1>8, <2>1
<1>11. \A p \in Partitions : OffsetsOf(h)[p] = SumBelow(f, p) /\ p \in 0..NPartitions /\ p < NPartitions
  BY <1>1, <1>4, <1>8
<1>12. \A p, q \in Partitions : p < q => OffsetsOf(h)[p] + WindowSize(h[p]) <= OffsetsOf(h)[q]
  <2>1. SUFFICES ASSUME NEW p \in Partitions, NEW q \in Partitions, p < q
                 PROVE  SumBelow(f, p) + f[p] <= SumBelow(f, q)
    BY <1>3, <1>11
  <2>2. p \in 0..NPartitions /\ q \in p..NPartitions
    BY <1>1, <1>4, <2>1
  <2>3. QED
    BY <1>7, <2>1, <2>2
<1>13. \A p \in Partitions : OffsetsOf(h)[p] + WindowSize(h[p]) <= SumBelow(f, NPartitions)
  <2>1. SUFFICES ASSUME NEW p \in Partitions
                 PROVE  SumBelow(f, p) + f[p] <= SumBelow(f, NPartitions)
    BY <1>3, <1>11
  <2>2. p \in 0..NPartitions /\ NPartitions \in p..NPartitions /\ p < NPartitions
    BY <1>1, <1>4
  <2>3. QED
    BY <1>7, <2>2
<1>14. Allocated(h) = [c \in 0 .. SumBelow(f, NPartitions)-1 |-> Garbage]
  BY <1>2 DEF Allocated
<1>15. SumBelow(f, NPartitions) \in Nat
  BY <1>1, <1>6
<1>16. QED
  BY <1>9, <1>10, <1>11, <1>12, <1>13, <1>14, <1>15

-----------------------------------------------------------------------------
(* Where the keys go. *)

(* Where the n-th key of an input is to go. *)
Cell(w, n) ==
  OffsetsOf(HistogramOf(w))[PartitionOf(w[n])] + Rank(w, n-1, PartitionOf(w[n]))

(* The first cell of partition p behind the keys 1..n. *)
Frontier(w, n, p) == OffsetsOf(HistogramOf(w))[p] + Rank(w, n, p)

(* The keys of an input are numbers with a partition. *)
LEMMA KeyPartition ==
  ASSUME NEW w \in Seq(Nat), NEW n \in 1..Len(w)
  PROVE  w[n] \in Nat /\ PartitionOf(w[n]) \in Partitions
<1>1. w[n] \in Nat
  OBVIOUS
<1>2. QED
  BY <1>1, PartitionInRange

(* The frontier of a partition moves over its window as its keys come. *)
LEMMA FrontierMoves ==
  ASSUME NEW w \in Seq(Nat)
  PROVE  /\ \A p \in Partitions, n \in 0..Len(w) : Frontier(w, n, p) \in Nat
         /\ \A p \in Partitions, m \in 0..Len(w) : \A n \in m..Len(w) :
              Frontier(w, m, p) <= Frontier(w, n, p)
         /\ \A p \in Partitions, n \in 1..Len(w) :
              Frontier(w, n, p) =
                Frontier(w, n-1, p) + (IF PartitionOf(w[n]) = p THEN 1 ELSE 0)
         /\ \A n \in 1..Len(w) : Cell(w, n) = Frontier(w, n-1, PartitionOf(w[n]))
<1> DEFINE off == OffsetsOf(HistogramOf(w))
<1>1. HistogramOf(w) \in [Partitions -> Nat] /\ Len(w) \in Nat
  BY HistogramCounts
<1>2. off \in [Partitions -> Nat]
  BY <1>1, WindowsApart
<1> HIDE DEF off
<1>3. \A n, p : Frontier(w, n, p) = off[p] + Rank(w, n, p)
  BY DEF Frontier, off
<1>4. \A p \in Partitions, n \in 0..Len(w) : Frontier(w, n, p) \in Nat
  <2>1. SUFFICES ASSUME NEW p \in Partitions, NEW n \in 0..Len(w)
                 PROVE  Frontier(w, n, p) \in Nat
    OBVIOUS
  <2>2. n \in Nat /\ off[p] \in Nat
    BY <1>1, <1>2
  <2>3. Rank(w, n, p) \in Nat
    BY <2>2, RankSteps
  <2>4. QED
    BY <1>3, <2>2, <2>3
<1>5. ASSUME NEW p \in Partitions, NEW m \in 0..Len(w), NEW n \in m..Len(w)
      PROVE  Frontier(w, m, p) <= Frontier(w, n, p)
  <2>1. m \in Nat /\ n \in Nat /\ m <= n
    BY <1>1
  <2>2. Rank(w, m, p) <= Rank(w, n, p) /\ Rank(w, m, p) \in Nat /\ Rank(w, n, p) \in Nat
    BY <2>1, RankGrows, RankSteps
  <2>3. off[p] \in Nat
    BY <1>2
  <2>4. QED
    BY <1>3, <2>2, <2>3
<1>6. ASSUME NEW p \in Partitions, NEW n \in 1..Len(w)
      PROVE  Frontier(w, n, p) = Frontier(w, n-1, p) + (IF PartitionOf(w[n]) = p THEN 1 ELSE 0)
  <2>1. n \in Nat \ {0} /\ n-1 \in Nat
    BY <1>1
  <2>2. /\ Rank(w, n, p) = Rank(w, n-1, p) + (IF PartitionOf(w[n]) = p THEN 1 ELSE 0)
        /\ Rank(w, n-1, p) \in Nat /\ Rank(w, n, p) \in Nat
    BY <2>1, RankSteps
  <2>3. off[p] \in Nat
    BY <1>2
  <2>4. QED
    BY <1>3, <2>2, <2>3
<1>7. \A n \in 1..Len(w) : Cell(w, n) = Frontier(w, n-1, PartitionOf(w[n]))
  BY DEF Cell, Frontier
<1>8. QED
  BY <1>4, <1>5, <1>6, <1>7

(* It begins with the window and ends behind its last key. *)
LEMMA FrontierEnds ==
  ASSUME NEW w \in Seq(Nat)
  PROVE  /\ \A p \in Partitions :
              /\ Frontier(w, 0, p) = OffsetsOf(HistogramOf(w))[p]
              /\ Frontier(w, Len(w), p) = OffsetsOf(HistogramOf(w))[p] + HistogramOf(w)[p]
              /\ OffsetsOf(HistogramOf(w))[p] \in Nat /\ HistogramOf(w)[p] \in Nat
         /\ \A p, q \in Partitions : p < q => Frontier(w, Len(w), p) <= Frontier(w, 0, q)
         /\ \E size \in Nat :
              /\ Allocated(HistogramOf(w)) = [c \in 0 .. size-1 |-> Garbage]
              /\ \A p \in Partitions : Frontier(w, Len(w), p) <= size
<1>1. PICK h, off : h = HistogramOf(w) /\ off = OffsetsOf(h)
  OBVIOUS
<1>2. h \in [Partitions -> Nat] /\ Len(w) \in Nat /\ \A p \in Partitions : h[p] = Rank(w, Len(w), p)
  BY <1>1, HistogramCounts
<1>3. /\ off \in [Partitions -> Nat]
      /\ \A p, q \in Partitions : p < q => off[p] + WindowSize(h[p]) <= off[q]
      /\ \E size \in Nat :
           /\ Allocated(h) = [c \in 0 .. size-1 |-> Garbage]
           /\ \A p \in Partitions : off[p] + WindowSize(h[p]) <= size
  BY <1>1, <1>2, WindowsApart
<1>4. \A p \in Partitions : off[p] \in Nat /\ h[p] \in Nat
  BY <1>2, <1>3
<1>5. \A p \in Partitions : WindowSize(h[p]) \in Nat /\ h[p] < WindowSize(h[p])
  BY <1>4, WindowHolds
<1>6. \A p \in Partitions : Frontier(w, 0, p) = off[p] /\ Frontier(w, Len(w), p) = off[p] + h[p]
  <2>1. \A p \in Partitions : Rank(w, 0, p) = 0
    BY RankSteps
  <2>2. QED
    BY <1>1, <1>2, <1>4, <2>1 DEF Frontier
<1>7. \A p, q \in Partitions : p < q => Frontier(w, Len(w), p) <= Frontier(w, 0, q)
  <2>1. SUFFICES ASSUME NEW p \in Partitions, NEW q \in Partitions, p < q
                 PROVE  Frontier(w, Len(w), p) <= Frontier(w, 0, q)
    OBVIOUS
  <2>2. off[p] + WindowSize(h[p]) <= off[q] /\ h[p] < WindowSize(h[p])
    BY <1>3, <1>5, <2>1
  <2>3. Frontier(w, Len(w), p) = off[p] + h[p] /\ Frontier(w, 0, q) = off[q]
    BY <1>6
  <2>4. off[p] \in Nat /\ off[q] \in Nat /\ h[p] \in Nat /\ WindowSize(h[p]) \in Nat
    BY <1>4, <1>5
  <2>5. QED
    BY <2>2, <2>3, <2>4
<1>8. PICK size \in Nat : /\ Allocated(h) = [c \in 0 .. size-1 |-> Garbage]
                          /\ \A p \in Partitions : off[p] + WindowSize(h[p]) <= size
  BY <1>3
<1>9. \A p \in Partitions : Frontier(w, Len(w), p) <= size
  BY <1>4, <1>5, <1>6, <1>8
<1>10. QED
  BY <1>1, <1>4, <1>6, <1>7, <1>8, <1>9

(* The cells of the keys m+1..n of a partition are those the frontier      *)
(* passes with them, and every cell it passes is the cell of a key.        *)
LEMMA CellsPassed ==
  ASSUME NEW w \in Seq(Nat), NEW m \in 0..Len(w), NEW n \in m..Len(w)
  PROVE  /\ \A k \in m+1 .. n :
              /\ Cell(w, k) \in Nat
              /\ Frontier(w, m, PartitionOf(w[k])) <= Cell(w, k)
              /\ Cell(w, k) < Frontier(w, n, PartitionOf(w[k]))
         /\ \A p \in Partitions : \A c \in Frontier(w, m, p) .. Frontier(w, n, p) - 1 :
              \E k \in m+1 .. n : PartitionOf(w[k]) = p /\ Cell(w, k) = c
<1>1. Len(w) \in Nat /\ m \in Nat /\ n \in Nat /\ n \in 0..Len(w)
  OBVIOUS
<1>2. ASSUME NEW k \in m+1 .. n
      PROVE  /\ Cell(w, k) \in Nat
             /\ Frontier(w, m, PartitionOf(w[k])) <= Cell(w, k)
             /\ Cell(w, k) < Frontier(w, n, PartitionOf(w[k]))
  <2>1. k \in 1..Len(w) /\ k \in 0..Len(w) /\ k-1 \in 0..Len(w) /\ k-1 \in m..Len(w) /\ n \in k..Len(w)
    BY <1>1
  <2>2. PICK p \in Partitions : p = PartitionOf(w[k])
    BY <2>1, KeyPartition
  <2>3. /\ Cell(w, k) = Frontier(w, k-1, p)
        /\ Frontier(w, k, p) = Frontier(w, k-1, p) + 1
        /\ Frontier(w, m, p) <= Frontier(w, k-1, p)
        /\ Frontier(w, k, p) <= Frontier(w, n, p)
        /\ Frontier(w, m, p) \in Nat /\ Frontier(w, k-1, p) \in Nat /\ Frontier(w, n, p) \in Nat
    BY <1>1, <2>1, <2>2, FrontierMoves
  <2>4. QED
    BY <2>2, <2>3
<1>3. ASSUME NEW p \in Partitions, NEW c \in Frontier(w, m, p) .. Frontier(w, n, p) - 1
      PROVE  \E k \in m+1 .. n : PartitionOf(w[k]) = p /\ Cell(w, k) = c
  <2>1. PICK T : T = {i \in m..n : c < Frontier(w, i, p)}
    OBVIOUS
  <2>2. Frontier(w, m, p) \in Nat /\ Frontier(w, n, p) \in Nat
    BY <1>1, FrontierMoves
  <2>3. T \subseteq Nat /\ T # {}
    BY <1>1, <1>3, <2>1, <2>2
  <2>4. PICK k \in T : \A i \in T : k <= i
    BY <2>3, LeastNat
  <2>5. k \in m..n /\ c < Frontier(w, k, p)
    BY <2>1, <2>4
  <2>6. k # m
    BY <1>3, <2>2, <2>5
  <2>7. k \in m+1 .. n /\ k-1 \in m..n /\ k \in 1..Len(w) /\ k-1 \in 0..Len(w) /\ ~ (k <= k-1)
    BY <1>1, <2>5, <2>6
  <2>8. ~ (c < Frontier(w, k-1, p))
    BY <2>1, <2>4, <2>7
  <2>9. /\ Frontier(w, k-1, p) \in Nat
        /\ Frontier(w, k, p) = Frontier(w, k-1, p) + (IF PartitionOf(w[k]) = p THEN 1 ELSE 0)
        /\ Cell(w, k) = Frontier(w, k-1, PartitionOf(w[k]))
    BY <2>7, FrontierMoves
  <2>10. PartitionOf(w[k]) = p /\ Frontier(w, k-1, p) = c
    BY <1>3, <2>2, <2>5, <2>8, <2>9
  <2>11. QED
    BY <2>7, <2>9, <2>10
<1>4. QED
  BY <1>2, <1>3

(* No cell belongs to two partitions, or to two keys. *)
LEMMA CellsDiffer ==
  ASSUME NEW w \in Seq(Nat)
  PROVE  /\ \A p, q \in Partitions :
              \A c \in Frontier(w, 0, p) .. Frontier(w, Len(w), p) - 1 :
                c \in Frontier(w, 0, q) .. Frontier(w, Len(w), q) - 1 => p = q
         /\ \A j, k \in 1..Len(w) : Cell(w, j) = Cell(w, k) => j = k
<1>1. Len(w) \in Nat /\ 0 \in 0..Len(w) /\ Len(w) \in 0..Len(w)
  OBVIOUS
<1>2. \A p \in Partitions : Frontier(w, 0, p) \in Nat /\ Frontier(w, Len(w), p) \in Nat
  BY <1>1, FrontierMoves
<1>3. Partitions \subseteq Nat
  BY PartitionCount DEF Partitions
<1>4. ASSUME NEW p \in Partitions, NEW q \in Partitions,
             NEW c \in Frontier(w, 0, p) .. Frontier(w, Len(w), p) - 1,
             c \in Frontier(w, 0, q) .. Frontier(w, Len(w), q) - 1
      PROVE  p = q
  <2>1. ~ (p < q)
    <3>1. SUFFICES ASSUME p < q PROVE FALSE
      OBVIOUS
    <3>2. Frontier(w, Len(w), p) <= Frontier(w, 0, q)
      BY <3>1, FrontierEnds
    <3>3. QED
      BY <1>2, <1>4, <3>2
  <2>2. ~ (q < p)
    <3>1. SUFFICES ASSUME q < p PROVE FALSE
      OBVIOUS
    <3>2. Frontier(w, Len(w), q) <= Frontier(w, 0, p)
      BY <3>1, FrontierEnds
    <3>3. QED
      BY <1>2, <1>4, <3>2
  <2>3. p \in Nat /\ q \in Nat
    BY <1>3
  <2>4. QED
    BY <2>1, <2>2, <2>3
<1>5. \A k \in 1..Len(w) :
        /\ PartitionOf(w[k]) \in Partitions
        /\ Cell(w, k) \in Frontier(w, 0, PartitionOf(w[k]))
                            .. Frontier(w, Len(w), PartitionOf(w[k])) - 1
  <2>1. SUFFICES ASSUME NEW k \in 1..Len(w)
                 PROVE  /\ PartitionOf(w[k]) \in Partitions
                        /\ Cell(w, k) \in Frontier(w, 0, PartitionOf(w[k]))
                                            .. Frontier(w, Len(w), PartitionOf(w[k])) - 1
    OBVIOUS
  <2>2. PICK p \in Partitions : p = PartitionOf(w[k])
    BY KeyPartition
  <2>3. k \in 0+1 .. Len(w) /\ Len(w) \in 0..Len(w)
    BY <1>1
  <2>4. Cell(w, k) \in Nat /\ Frontier(w, 0, p) <= Cell(w, k) /\ Cell(w, k) < Frontier(w, Len(w), p)
    BY <1>1, <2>2, <2>3, CellsPassed
  <2>5. Frontier(w, 0, p) \in Nat /\ Frontier(w, Len(w), p) \in Nat
    BY <1>2
  <2>6. QED
    BY <2>2, <2>4, <2>5
<1>6. \A j, k \in 1..Len(w) : j < k => Cell(w, j) # Cell(w, k)
  <2>1. SUFFICES ASSUME NEW j \in 1..Len(w), NEW k \in 1..Len(w), j < k, Cell(w, j) = Cell(w, k)
                 PROVE  FALSE
    OBVIOUS
  <2>2. PICK p \in Partitions : p = PartitionOf(w[k]) /\ p = PartitionOf(w[j])
    BY <1>4, <1>5, <2>1
  <2>3. /\ j \in 0..Len(w) /\ j \in Nat /\ j-1 \in 0..Len(w) /\ Len(w) \in j..Len(w)
        /\ k \in j+1 .. Len(w) /\ j \in (j-1)+1 .. j /\ j \in j-1 .. Len(w)
    BY <1>1, <2>1
  <2>4. Frontier(w, j, p) <= Cell(w, k)
    BY <2>2, <2>3, CellsPassed
  <2>5. Cell(w, j) < Frontier(w, j, p) /\ Cell(w, j) \in Nat
    BY <2>2, <2>3, CellsPassed
  <2>6. Frontier(w, j, p) \in Nat
    BY <2>3, FrontierMoves
  <2>7. QED
    BY <2>1, <2>4, <2>5, <2>6
<1>7. \A j, k \in 1..Len(w) : Cell(w, j) = Cell(w, k) => j = k
  BY <1>1, <1>6
<1>8. QED
  BY <1>4, <1>7

-----------------------------------------------------------------------------
(* What partitioned means. *)

(* The keys m+1..n of an input are in their cells. *)
Placed(w, m, n, cells) == \A k \in m+1 .. n : cells[Cell(w, k)] = w[k]

(* The arrays the cells of an input may be. *)
Cells(w) == [DOMAIN Allocated(HistogramOf(w)) -> ToSet(w) \cup {Garbage}]

(* A window holds the keys of its partition, each as often as the input. *)
WindowFilled(w, cells, p, window) ==
  /\ OffsetsOf(HistogramOf(w))[p] % LineSize = 0
  /\ window \subseteq DOMAIN cells
  /\ \A key \in ToSet(w) :
       Cardinality({c \in window : cells[c] = key}) =
         Cardinality({n \in DOMAIN w : w[n] = key /\ PartitionOf(key) = p})
  /\ \A c \in window : cells[c] # Garbage

(* When every key is in its cell, the windows hold what they should. *)
LEMMA PlacedIsPartitioned ==
  ASSUME NEW w \in Seq(Nat), NEW cells \in Cells(w), Placed(w, 0, Len(w), cells),
         NEW p \in Partitions,
         NEW window, window = OffsetsOf(HistogramOf(w))[p]
                                .. OffsetsOf(HistogramOf(w))[p] + HistogramOf(w)[p] - 1
  PROVE  WindowFilled(w, cells, p, window)
<1>1. Len(w) \in Nat /\ DOMAIN w = 1..Len(w) /\ 0 \in 0..Len(w) /\ Len(w) \in 0..Len(w)
  OBVIOUS
<1>2. OffsetsOf(HistogramOf(w))[p] % LineSize = 0
  <2>1. HistogramOf(w) \in [Partitions -> Nat]
    BY HistogramCounts
  <2>2. PICK q \in Nat : OffsetsOf(HistogramOf(w))[p] = LineSize * q
    BY <2>1, WindowsApart
  <2>3. QED
    BY <2>2, LineAssumption, Multiple
<1>3. /\ window = Frontier(w, 0, p) .. Frontier(w, Len(w), p) - 1
      /\ Frontier(w, 0, p) \in Nat /\ Frontier(w, Len(w), p) \in Nat
  <2>1. /\ Frontier(w, 0, p) = OffsetsOf(HistogramOf(w))[p]
        /\ Frontier(w, Len(w), p) = OffsetsOf(HistogramOf(w))[p] + HistogramOf(w)[p]
        /\ OffsetsOf(HistogramOf(w))[p] \in Nat /\ HistogramOf(w)[p] \in Nat
    BY FrontierEnds
  <2>2. Frontier(w, 0, p) \in Nat /\ Frontier(w, Len(w), p) \in Nat
    BY <1>1, FrontierMoves
  <2>3. PICK off, h : off = OffsetsOf(HistogramOf(w))[p] /\ h = HistogramOf(w)[p]
    OBVIOUS
  <2>4. window = off .. off + h - 1
    BY <2>3
  <2>5. QED
    BY <2>1, <2>2, <2>3, <2>4
<1>4. window \subseteq DOMAIN cells
  <2>1. PICK size \in Nat :
           /\ Allocated(HistogramOf(w)) = [c \in 0 .. size-1 |-> Garbage]
           /\ \A q \in Partitions : Frontier(w, Len(w), q) <= size
    BY FrontierEnds
  <2>2. DOMAIN cells = 0 .. size-1
    BY <2>1 DEF Cells
  <2>3. Frontier(w, Len(w), p) <= size
    BY <2>1
  <2>4. PICK a, z : a = Frontier(w, 0, p) /\ z = Frontier(w, Len(w), p)
    OBVIOUS
  <2>5. window = a .. z-1 /\ a \in Nat /\ z \in Nat /\ z <= size
    BY <1>3, <2>3, <2>4
  <2>6. QED
    BY ONLY <2>2, <2>5, size \in Nat
<1>5. \A c \in window : \E k \in 1..Len(w) : PartitionOf(w[k]) = p /\ Cell(w, k) = c
  <2>1. 0+1 = 1
    OBVIOUS
  <2>2. \A c \in window : \E k \in 0+1 .. Len(w) : PartitionOf(w[k]) = p /\ Cell(w, k) = c
    BY <1>1, <1>3, CellsPassed
  <2>3. QED
    BY <2>1, <2>2
<1>6. \A k \in 1..Len(w) : PartitionOf(w[k]) = p => Cell(w, k) \in window
  <2>1. SUFFICES ASSUME NEW k \in 1..Len(w), PartitionOf(w[k]) = p
                 PROVE  Cell(w, k) \in window
    OBVIOUS
  <2>2. k \in 0+1 .. Len(w)
    BY <1>1
  <2>3. Cell(w, k) \in Nat /\ Frontier(w, 0, p) <= Cell(w, k) /\ Cell(w, k) < Frontier(w, Len(w), p)
    BY <1>1, <2>1, <2>2, CellsPassed
  <2>4. PICK a, z : a = Frontier(w, 0, p) /\ z = Frontier(w, Len(w), p)
    OBVIOUS
  <2>5. window = a .. z-1 /\ a \in Nat /\ z \in Nat
    BY <1>3, <2>4
  <2>6. Cell(w, k) \in Nat /\ a <= Cell(w, k) /\ Cell(w, k) < z
    BY <2>3, <2>4
  <2>7. QED
    BY ONLY <2>5, <2>6
<1>7. \A k \in 1..Len(w) : cells[Cell(w, k)] = w[k] /\ w[k] \in Nat
  <2>1. 0+1 = 1
    OBVIOUS
  <2>2. \A k \in 0+1 .. Len(w) : cells[Cell(w, k)] = w[k]
    BY DEF Placed
  <2>3. QED
    BY <2>1, <2>2, KeyPartition
<1>8. \A c \in window : cells[c] # Garbage
  <2>1. SUFFICES ASSUME NEW c \in window, cells[c] = Garbage PROVE FALSE
    OBVIOUS
  <2>2. PICK k \in 1..Len(w) : Cell(w, k) = c
    BY <1>5
  <2>3. QED
    BY <1>7, <2>1, <2>2, GarbageAssumption
<1>9. ASSUME NEW key \in ToSet(w)
      PROVE  Cardinality({c \in window : cells[c] = key}) =
               Cardinality({n \in DOMAIN w : w[n] = key /\ PartitionOf(key) = p})
  <2>1. PICK S, T : /\ S = {n \in DOMAIN w : w[n] = key /\ PartitionOf(key) = p}
                    /\ T = {c \in window : cells[c] = key}
    OBVIOUS
  <2>2. PICK f : f = [n \in S |-> Cell(w, n)]
    OBVIOUS
  <2>3. \A n \in S : n \in 1..Len(w) /\ w[n] = key /\ PartitionOf(w[n]) = p
    BY <1>1, <2>1
  <2>4. \A n \in S : Cell(w, n) \in T
    BY <1>6, <1>7, <2>1, <2>3
  <2>5. f \in [S -> T]
    BY <2>2, <2>4
  <2>6. \A m, n \in S : f[m] = f[n] => m = n
    BY <2>2, <2>3, CellsDiffer
  <2>7. \A c \in T : \E n \in S : f[n] = c
    <3>1. SUFFICES ASSUME NEW c \in T PROVE \E n \in S : f[n] = c
      OBVIOUS
    <3>2. c \in window /\ cells[c] = key
      BY <2>1
    <3>3. PICK k \in 1..Len(w) : PartitionOf(w[k]) = p /\ Cell(w, k) = c
      BY <1>5, <3>2
    <3>4. w[k] = key
      BY <1>7, <3>2, <3>3
    <3>5. k \in S
      BY <1>1, <2>1, <3>3, <3>4
    <3>6. QED
      BY <2>2, <3>3, <3>5
  <2>8. f \in Bijection(S, T)
    BY <2>5, <2>6, <2>7 DEF Bijection, Injection, Surjection, IsInjective
  <2>9. ExistsBijection(S, T)
    BY <2>8 DEF ExistsBijection
  <2>10. IsFiniteSet(S)
    <3>1. IsFiniteSet(1..Len(w)) /\ S \in SUBSET (1..Len(w))
      BY <1>1, <2>1, FS_Interval
    <3>2. QED
      BY <3>1, FS_Subset
  <2>11. Cardinality(T) = Cardinality(S)
    BY <2>9, <2>10, FS_Bijection
  <2>12. QED
    BY <2>1, <2>11
<1>10. QED
  BY <1>2, <1>4, <1>8, <1>9 DEF WindowFilled

-----------------------------------------------------------------------------
(* The scatter of one slice. *)

(* The cells of partition p that the keys m+1..n fill. *)
Share(w, m, n, p) == Frontier(w, m, p) .. Frontier(w, n, p) - 1

(* The scatter of a slice, m+1..n of the input w, has read the keys up to  *)
(* k: those below the destination of their buffer are in their cells, the  *)
(* others in the buffer, and the cells left to the slice are unwritten.    *)
InFlight(w, m, n, k, dst, full, cells) ==
  /\ k \in m..n
  /\ dst \in [Partitions -> Nat]
  /\ full \in [Partitions -> Seq(ToSet(w))]
  /\ \A p \in Partitions :
       /\ Len(full[p]) < LineSize
       /\ dst[p] + Len(full[p]) = Frontier(w, k, p)
       /\ Frontier(w, m, p) <= dst[p]
       /\ \A c \in dst[p] .. Frontier(w, n, p) - 1 : cells[c] = Garbage
  /\ \A r \in m+1 .. k :
       IF Cell(w, r) < dst[PartitionOf(w[r])]
       THEN cells[Cell(w, r)] = w[r]
       ELSE full[PartitionOf(w[r])][Cell(w, r) - dst[PartitionOf(w[r])] + 1] = w[r]

(* Shares are allocated, and those of other partitions or of other slices  *)
(* are disjoint.                                                           *)
LEMMA SharesApart ==
  ASSUME NEW w \in Seq(Nat), NEW m \in 0..Len(w), NEW n \in m..Len(w), NEW p \in Partitions
  PROVE  /\ Share(w, m, n, p) \subseteq Nat
         /\ Share(w, m, n, p) \subseteq DOMAIN Allocated(HistogramOf(w))
         /\ Share(w, m, n, p) \subseteq Share(w, 0, Len(w), p)
         /\ \A q \in Partitions \ {p} :
              Share(w, m, n, p) \cap Share(w, 0, Len(w), q) = {}
         /\ \A j \in n..Len(w) : \A k \in j..Len(w), q \in Partitions :
              Share(w, m, n, p) \cap Share(w, j, k, q) = {}
<1>1. /\ Len(w) \in Nat /\ m \in Nat /\ n \in Nat /\ 0 \in 0..Len(w) /\ Len(w) \in 0..Len(w)
      /\ n \in 0..Len(w) /\ m \in 0..Len(w) /\ Len(w) \in n..Len(w)
  OBVIOUS
<1>2. \A j \in 0..Len(w), q \in Partitions :
        /\ Frontier(w, j, q) \in Nat /\ Frontier(w, Len(w), q) \in Nat /\ Frontier(w, 0, q) \in Nat
        /\ Frontier(w, 0, q) <= Frontier(w, j, q)
        /\ Frontier(w, j, q) <= Frontier(w, Len(w), q)
  <2>1. SUFFICES ASSUME NEW j \in 0..Len(w), NEW q \in Partitions
                 PROVE  /\ Frontier(w, j, q) \in Nat /\ Frontier(w, Len(w), q) \in Nat
                        /\ Frontier(w, 0, q) \in Nat
                        /\ Frontier(w, 0, q) <= Frontier(w, j, q)
                        /\ Frontier(w, j, q) <= Frontier(w, Len(w), q)
    OBVIOUS
  <2>2. Len(w) \in j..Len(w)
    BY <1>1
  <2>3. QED
    BY <1>1, <2>2, FrontierMoves
<1>3. Share(w, m, n, p) \subseteq Nat
  BY <1>1, <1>2 DEF Share
<1>4. \A j \in 0..Len(w) : \A k \in j..Len(w), q \in Partitions :
        Share(w, j, k, q) \subseteq Share(w, 0, Len(w), q)
  <2>1. SUFFICES ASSUME NEW j \in 0..Len(w), NEW k \in j..Len(w), NEW q \in Partitions
                 PROVE  Share(w, j, k, q) \subseteq Share(w, 0, Len(w), q)
    OBVIOUS
  <2>2. k \in 0..Len(w)
    BY <1>1
  <2>3. PICK a, b, c, d : a = Frontier(w, 0, q) /\ b = Frontier(w, j, q)
                          /\ c = Frontier(w, k, q) /\ d = Frontier(w, Len(w), q)
    OBVIOUS
  <2>4. a \in Nat /\ b \in Nat /\ c \in Nat /\ d \in Nat /\ a <= b /\ c <= d
    BY <1>2, <2>2, <2>3
  <2>5. b .. c-1 \subseteq a .. d-1
    BY ONLY <2>4
  <2>6. QED
    BY <2>3, <2>5 DEF Share
<1>5. Share(w, m, n, p) \subseteq DOMAIN Allocated(HistogramOf(w))
  <2>1. PICK size \in Nat :
           /\ Allocated(HistogramOf(w)) = [c \in 0 .. size-1 |-> Garbage]
           /\ \A q \in Partitions : Frontier(w, Len(w), q) <= size
    BY FrontierEnds
  <2>2. DOMAIN Allocated(HistogramOf(w)) = 0 .. size-1
    BY <2>1
  <2>3. PICK a, b : a = Frontier(w, 0, p) /\ b = Frontier(w, Len(w), p)
    OBVIOUS
  <2>4. a \in Nat /\ b \in Nat /\ b <= size
    BY <1>1, <1>2, <2>1, <2>3
  <2>5. a .. b-1 \subseteq 0 .. size-1
    BY ONLY <2>4, size \in Nat
  <2>6. QED
    BY <1>1, <1>4, <2>2, <2>3, <2>5 DEF Share
<1>6. \A q \in Partitions \ {p} : Share(w, 0, Len(w), p) \cap Share(w, 0, Len(w), q) = {}
  BY CellsDiffer DEF Share
<1>7. ASSUME NEW j \in n..Len(w), NEW k \in j..Len(w), NEW q \in Partitions
      PROVE  Share(w, m, n, p) \cap Share(w, j, k, q) = {}
  <2>1. j \in 0..Len(w) /\ j \in Nat
    BY <1>1
  <2>2. CASE p # q
    BY <1>1, <1>4, <1>6, <2>1, <2>2
  <2>3. CASE p = q
    <3>1. Frontier(w, n, p) <= Frontier(w, j, p)
      BY <1>1, FrontierMoves
    <3>2. PICK a, b, c, d : a = Frontier(w, m, p) /\ b = Frontier(w, n, p)
                            /\ c = Frontier(w, j, p) /\ d = Frontier(w, k, p)
      OBVIOUS
    <3>3. a \in Nat /\ b \in Nat /\ c \in Nat /\ b <= c
      BY <1>1, <1>2, <2>1, <3>1, <3>2
    <3>4. (a .. b-1) \cap (c .. d-1) = {}
      BY ONLY <3>3
    <3>5. QED
      BY <2>3, <3>2, <3>4 DEF Share
  <2>4. QED
    BY <2>2, <2>3
<1>8. QED
  BY <1>1, <1>3, <1>4, <1>5, <1>6, <1>7

(* What Store makes of the cells: its destination changes, nothing else.   *)
Stored(w, cells, dst, keys, after) ==
  /\ after \in Cells(w)
  /\ \A c \in DOMAIN Allocated(HistogramOf(w)) :
       /\ c \in dst .. dst+Len(keys)-1 => after[c] = keys[c-dst+1]
       /\ c \notin dst .. dst+Len(keys)-1 => after[c] = cells[c]

(* A store writes its keys and nothing else. *)
LEMMA StoreStores ==
  ASSUME NEW w, NEW cells \in Cells(w), NEW dst \in Nat,
         NEW keys \in Seq(ToSet(w) \cup {Garbage})
  PROVE  Stored(w, cells, dst, keys, Store(cells, dst, keys))
<1>1. PICK D, T : D = DOMAIN Allocated(HistogramOf(w)) /\ T = ToSet(w) \cup {Garbage}
  OBVIOUS
<1>2. cells \in [D -> T] /\ keys \in Seq(T)
  BY <1>1 DEF Cells
<1>3. Len(keys) \in Nat /\ \A n \in 1..Len(keys) : keys[n] \in T
  BY <1>2
<1>4. Store(cells, dst, keys) =
        [c \in D |-> IF c \in dst .. dst+Len(keys)-1 THEN keys[c-dst+1] ELSE cells[c]]
  BY <1>2 DEF Store
<1>5. \A c \in dst .. dst+Len(keys)-1 : c-dst+1 \in 1..Len(keys)
  BY <1>3
<1>6. \A c \in D : (IF c \in dst .. dst+Len(keys)-1 THEN keys[c-dst+1] ELSE cells[c]) \in T
  BY <1>2, <1>3, <1>5
<1>7. Store(cells, dst, keys) \in [D -> T]
  BY <1>4, <1>6
<1>8. QED
  BY <1>1, <1>4, <1>7 DEF Cells, Stored

(* Before the first key. *)
LEMMA InFlightStarts ==
  ASSUME NEW w \in Seq(Nat), NEW m \in 0..Len(w), NEW n \in m..Len(w),
         NEW dst \in [Partitions -> Nat], \A p \in Partitions : dst[p] = Frontier(w, m, p),
         NEW cells, \A c \in DOMAIN Allocated(HistogramOf(w)) : cells[c] = Garbage
  PROVE  InFlight(w, m, n, m, dst, NoKeys, cells)
<1>1. Len(w) \in Nat /\ m \in Nat /\ n \in Nat /\ m \in m..n /\ LineSize \in Nat \ {0}
  BY LineAssumption
<1>2. PICK T : T = ToSet(w)
  OBVIOUS
<1>3. <<>> \in Seq(T) /\ Len(<<>>) = 0
  OBVIOUS
<1>4. NoKeys \in [Partitions -> Seq(T)] /\ \A p \in Partitions : NoKeys[p] = <<>>
  BY <1>3 DEF NoKeys
<1>5. \A p \in Partitions : \A c \in dst[p] .. Frontier(w, n, p) - 1 : cells[c] = Garbage
  BY SharesApart DEF Share
<1>6. \A p \in Partitions : Len(NoKeys[p]) < LineSize /\ dst[p] + Len(NoKeys[p]) = Frontier(w, m, p)
  BY <1>1, <1>3, <1>4
<1>7. \A p \in Partitions : Frontier(w, m, p) <= dst[p]
  <2>1. \A p \in Partitions : dst[p] \in Nat
    OBVIOUS
  <2>2. QED
    BY <2>1
<1>8. m+1 .. m = {}
  BY <1>1
<1>9. QED
  BY <1>1, <1>2, <1>4, <1>5, <1>6, <1>7, <1>8 DEF InFlight

(* Others do not disturb it. *)
LEMMA InFlightFrame ==
  ASSUME NEW w \in Seq(Nat), NEW m \in 0..Len(w), NEW n \in m..Len(w),
         NEW cells, NEW after,
         \A p \in Partitions : \A c \in Share(w, m, n, p) : after[c] = cells[c]
  PROVE  /\ Placed(w, m, n, cells) => Placed(w, m, n, after)
         /\ \A k, dst, full :
              InFlight(w, m, n, k, dst, full, cells) => InFlight(w, m, n, k, dst, full, after)
<1>1. Len(w) \in Nat /\ m \in Nat /\ n \in Nat
  OBVIOUS
<1>2. \A k \in m+1 .. n : after[Cell(w, k)] = cells[Cell(w, k)]
  <2>1. SUFFICES ASSUME NEW k \in m+1 .. n PROVE after[Cell(w, k)] = cells[Cell(w, k)]
    OBVIOUS
  <2>2. k \in 1..Len(w)
    BY <1>1
  <2>3. PICK p \in Partitions : p = PartitionOf(w[k])
    BY <2>2, KeyPartition
  <2>4. Cell(w, k) \in Nat /\ Frontier(w, m, p) <= Cell(w, k) /\ Cell(w, k) < Frontier(w, n, p)
    BY <2>3, CellsPassed
  <2>5. Frontier(w, m, p) \in Nat /\ Frontier(w, n, p) \in Nat
    BY <1>1, FrontierMoves
  <2>6. Cell(w, k) \in Share(w, m, n, p)
    BY <2>4, <2>5 DEF Share
  <2>7. QED
    BY <2>6
<1>3. Placed(w, m, n, cells) => Placed(w, m, n, after)
  BY <1>2 DEF Placed
<1>4. ASSUME NEW k, NEW dst, NEW full, InFlight(w, m, n, k, dst, full, cells)
      PROVE  InFlight(w, m, n, k, dst, full, after)
  <2>1. k \in m..n /\ \A r \in m+1 .. k : r \in m+1 .. n
    BY <1>1, <1>4 DEF InFlight
  <2>2. \A p \in Partitions : \A c \in dst[p] .. Frontier(w, n, p) - 1 : after[c] = Garbage
    <3>1. SUFFICES ASSUME NEW p \in Partitions, NEW c \in dst[p] .. Frontier(w, n, p) - 1
                   PROVE  after[c] = Garbage
      OBVIOUS
    <3>2. cells[c] = Garbage /\ Frontier(w, m, p) <= dst[p] /\ dst[p] \in Nat
      BY <1>4 DEF InFlight
    <3>3. Frontier(w, m, p) \in Nat /\ Frontier(w, n, p) \in Nat
      BY <1>1, FrontierMoves
    <3>4. c \in Share(w, m, n, p)
      BY <3>1, <3>2, <3>3 DEF Share
    <3>5. QED
      BY <3>2, <3>4
  <2>3. \A r \in m+1 .. k :
          IF Cell(w, r) < dst[PartitionOf(w[r])]
          THEN after[Cell(w, r)] = w[r]
          ELSE full[PartitionOf(w[r])][Cell(w, r) - dst[PartitionOf(w[r])] + 1] = w[r]
    <3>1. \A r \in m+1 .. k :
            IF Cell(w, r) < dst[PartitionOf(w[r])]
            THEN cells[Cell(w, r)] = w[r]
            ELSE full[PartitionOf(w[r])][Cell(w, r) - dst[PartitionOf(w[r])] + 1] = w[r]
      BY <1>4 DEF InFlight
    <3>2. QED
      BY <1>2, <2>1, <3>1
  <2>4. QED
    BY <1>4, <2>2, <2>3 DEF InFlight
<1>5. QED
  BY <1>3, <1>4

(* A key more in the buffer of its partition, which then holds tuples. *)
Appended(w, m, n, k, dst, full, cells, p, tuples) ==
  /\ k \in Nat /\ k+1 \in m..n /\ p \in Partitions /\ w[k+1] \in ToSet(w)
  /\ tuples \in Seq(ToSet(w)) /\ Len(tuples) = Len(full[p]) + 1 /\ Len(full[p]) \in Nat
  /\ dst[p] + Len(tuples) = Frontier(w, k+1, p)
  /\ \A q \in Partitions \ {p} : Frontier(w, k+1, q) = Frontier(w, k, q)
  /\ \A r \in m+1 .. k+1 : PartitionOf(w[r]) = p =>
       /\ Cell(w, r) \in Nat /\ Cell(w, r) < dst[p] + Len(tuples)
       /\ IF Cell(w, r) < dst[p] THEN cells[Cell(w, r)] = w[r]
          ELSE tuples[Cell(w, r) - dst[p] + 1] = w[r]
  /\ dst[p] .. dst[p] + Len(tuples) - 1 \subseteq Share(w, m, n, p)

(* The next key of the slice goes to the end of its buffer. *)
LEMMA NextKey ==
  ASSUME NEW w \in Seq(Nat), NEW m \in 0..Len(w), NEW n \in m..Len(w),
         NEW k, NEW dst, NEW full, NEW cells, InFlight(w, m, n, k, dst, full, cells), k < n,
         NEW p, p = PartitionOf(w[k+1]),
         NEW tuples, tuples = Append(full[p], w[k+1])
  PROVE  Appended(w, m, n, k, dst, full, cells, p, tuples)
<1>1. /\ Len(w) \in Nat /\ m \in Nat /\ n \in Nat /\ k \in m..n /\ k \in Nat
      /\ k+1 \in m..n /\ k+1 \in 1..Len(w) /\ k+1 \in 0..Len(w) /\ k \in 0..Len(w)
      /\ (k+1)-1 = k /\ k \in m..Len(w)
  <2>1. k \in m..n
    BY DEF InFlight
  <2>2. Len(w) \in Nat
    OBVIOUS
  <2>3. QED
    BY <2>1, <2>2
<1>2. p \in Partitions
  BY <1>1, KeyPartition
<1>3. PICK T : T = ToSet(w)
  OBVIOUS
<1>4. w[k+1] \in T
  <2>1. DOMAIN w = 1..Len(w)
    OBVIOUS
  <2>2. QED
    BY <1>1, <1>3, <2>1 DEF ToSet
<1>5. full[p] \in Seq(T) /\ dst[p] \in Nat
  BY <1>2, <1>3 DEF InFlight
<1>6. /\ tuples \in Seq(T) /\ Len(tuples) = Len(full[p]) + 1 /\ Len(full[p]) \in Nat
      /\ tuples[Len(full[p]) + 1] = w[k+1]
      /\ \A i \in 1..Len(full[p]) : tuples[i] = full[p][i]
  BY <1>4, <1>5
<1>7. /\ Frontier(w, k+1, p) = Frontier(w, k, p) + 1
      /\ \A q \in Partitions \ {p} :
           Frontier(w, k+1, q) = Frontier(w, k, q) + 0 /\ Frontier(w, k, q) \in Nat
      /\ Cell(w, k+1) = Frontier(w, k, p)
      /\ Frontier(w, k, p) \in Nat
  BY <1>1, <1>2, FrontierMoves
<1>8. dst[p] + Len(full[p]) = Frontier(w, k, p) /\ Frontier(w, m, p) <= dst[p]
  BY <1>2 DEF InFlight
<1>9. dst[p] + Len(tuples) = Frontier(w, k+1, p)
  <2>1. PICK d, e, g, x, y : /\ d = dst[p] /\ e = Len(full[p]) /\ g = Len(tuples)
                             /\ x = Frontier(w, k, p) /\ y = Frontier(w, k+1, p)
    OBVIOUS
  <2>2. d \in Nat /\ e \in Nat /\ g = e + 1
    BY <1>5, <1>6, <2>1
  <2>3. d + e = x /\ y = x + 1
    BY <1>7, <1>8, <2>1
  <2>4. d + g = y
    BY ONLY <2>2, <2>3
  <2>5. QED
    BY <2>1, <2>4
<1>10. ASSUME NEW r \in m+1 .. k+1, PartitionOf(w[r]) = p
       PROVE  /\ Cell(w, r) \in Nat /\ Cell(w, r) < dst[p] + Len(tuples)
              /\ IF Cell(w, r) < dst[p] THEN cells[Cell(w, r)] = w[r]
                 ELSE tuples[Cell(w, r) - dst[p] + 1] = w[r]
  <2>1. CASE r = k+1
    <3>1. Cell(w, r) = dst[p] + Len(full[p])
      BY <1>7, <1>8, <2>1
    <3>2. Cell(w, r) - dst[p] + 1 = Len(full[p]) + 1
      BY <1>5, <1>6, <3>1
    <3>3. Cell(w, r) \in Nat /\ ~ (Cell(w, r) < dst[p]) /\ Cell(w, r) < dst[p] + Len(tuples)
      BY <1>5, <1>6, <3>1
    <3>4. QED
      BY <1>6, <2>1, <3>2, <3>3
  <2>2. CASE r # k+1
    <3>1. r \in m+1 .. k
      BY <1>1, <1>10, <2>2
    <3>2. Cell(w, r) \in Nat /\ Cell(w, r) < Frontier(w, k, p)
      BY <1>1, <1>10, <3>1, CellsPassed
    <3>3. IF Cell(w, r) < dst[p] THEN cells[Cell(w, r)] = w[r]
          ELSE full[p][Cell(w, r) - dst[p] + 1] = w[r]
      BY <1>10, <3>1 DEF InFlight
    <3>4. Cell(w, r) < dst[p] + Len(tuples)
      <4>1. PICK c, d, e, g, x : /\ c = Cell(w, r) /\ d = dst[p] /\ e = Len(full[p])
                                 /\ g = Len(tuples) /\ x = Frontier(w, k, p)
        OBVIOUS
      <4>2. c \in Nat /\ x \in Nat /\ c < x
        BY <1>7, <3>2, <4>1
      <4>3. d \in Nat /\ e \in Nat /\ g = e + 1 /\ d + e = x
        BY <1>5, <1>6, <1>8, <4>1
      <4>4. c < d + g
        BY ONLY <4>2, <4>3
      <4>5. QED
        BY <4>1, <4>4
    <3>5. ~ (Cell(w, r) < dst[p]) => Cell(w, r) - dst[p] + 1 \in 1..Len(full[p])
      <4>1. PICK c, d, e : c = Cell(w, r) /\ d = dst[p] /\ e = Len(full[p])
        OBVIOUS
      <4>2. c \in Nat /\ d \in Nat /\ e \in Nat /\ c < d + e
        BY <1>5, <1>6, <1>8, <3>2, <4>1
      <4>3. ~ (c < d) => c - d + 1 \in 1..e
        BY ONLY <4>2
      <4>4. QED
        BY <4>1, <4>3
    <3>6. QED
      BY <1>6, <3>2, <3>3, <3>4, <3>5
  <2>3. QED
    BY <2>1, <2>2
<1>11. dst[p] .. dst[p] + Len(tuples) - 1 \subseteq Share(w, m, n, p)
  <2>1. Frontier(w, k+1, p) <= Frontier(w, n, p) /\ Frontier(w, m, p) \in Nat /\ Frontier(w, n, p) \in Nat
    <3>1. n \in k+1 .. Len(w) /\ n \in 0..Len(w)
      BY <1>1
    <3>2. QED
      BY <1>1, <1>2, <3>1, FrontierMoves
  <2>2. PICK a, b, c, d : a = Frontier(w, m, p) /\ b = dst[p]
                          /\ c = dst[p] + Len(tuples) /\ d = Frontier(w, n, p)
    OBVIOUS
  <2>3. a \in Nat /\ b \in Nat /\ c \in Nat /\ d \in Nat /\ a <= b /\ c <= d
    <3>1. a \in Nat /\ d \in Nat /\ b \in Nat /\ a <= b
      BY <1>5, <1>8, <2>1, <2>2
    <3>2. c = Frontier(w, k+1, p)
      BY <1>9, <2>2
    <3>3. c <= d
      BY <2>1, <2>2, <3>2
    <3>4. c \in Nat
      BY <1>7, <3>2
    <3>5. QED
      BY <3>1, <3>3, <3>4
  <2>4. b .. c-1 \subseteq a .. d-1
    BY ONLY <2>3
  <2>5. Share(w, m, n, p) = a .. d-1
    BY <2>2 DEF Share
  <2>6. dst[p] .. dst[p] + Len(tuples) - 1 = b .. c-1
    BY <1>5, <1>6, <2>2, <2>3
  <2>7. QED
    BY <2>4, <2>5, <2>6
<1>12. \A q \in Partitions \ {p} : Frontier(w, k+1, q) = Frontier(w, k, q)
  BY <1>7
<1>13. QED
  BY <1>1, <1>2, <1>3, <1>4, <1>6, <1>9, <1>10, <1>11, <1>12 DEF Appended

(* It stays there while the buffer is not full. *)
LEMMA KeyIsBuffered ==
  ASSUME NEW w \in Seq(Nat), NEW m \in 0..Len(w), NEW n \in m..Len(w),
         NEW k, NEW dst, NEW full, NEW cells, InFlight(w, m, n, k, dst, full, cells), k < n,
         NEW p, p = PartitionOf(w[k+1]),
         NEW tuples, tuples = Append(full[p], w[k+1]), Len(tuples) # LineSize
  PROVE  InFlight(w, m, n, k+1, dst, [full EXCEPT ![p] = tuples], cells)
<1>1. /\ k \in Nat /\ k+1 \in m..n /\ p \in Partitions
      /\ tuples \in Seq(ToSet(w)) /\ Len(tuples) = Len(full[p]) + 1 /\ Len(full[p]) \in Nat
      /\ dst[p] + Len(tuples) = Frontier(w, k+1, p)
      /\ \A q \in Partitions \ {p} : Frontier(w, k+1, q) = Frontier(w, k, q)
      /\ \A r \in m+1 .. k+1 : PartitionOf(w[r]) = p =>
           IF Cell(w, r) < dst[p] THEN cells[Cell(w, r)] = w[r]
           ELSE tuples[Cell(w, r) - dst[p] + 1] = w[r]
  <2>1. Appended(w, m, n, k, dst, full, cells, p, tuples)
    BY NextKey
  <2>2. QED
    BY <2>1 DEF Appended
<1>2. LineSize \in Nat \ {0}
  BY LineAssumption
<1>3. PICK next : next = [full EXCEPT ![p] = tuples]
  OBVIOUS
<1>4. full \in [Partitions -> Seq(ToSet(w))] /\ dst \in [Partitions -> Nat]
  BY DEF InFlight
<1>5. /\ next \in [Partitions -> Seq(ToSet(w))] /\ next[p] = tuples
      /\ \A q \in Partitions \ {p} : next[q] = full[q]
  BY <1>1, <1>3, <1>4
<1>6. ASSUME NEW q \in Partitions
      PROVE  /\ Len(next[q]) < LineSize
             /\ dst[q] + Len(next[q]) = Frontier(w, k+1, q)
             /\ Frontier(w, m, q) <= dst[q]
             /\ \A c \in dst[q] .. Frontier(w, n, q) - 1 : cells[c] = Garbage
  <2>1. /\ Len(full[q]) < LineSize
        /\ dst[q] + Len(full[q]) = Frontier(w, k, q)
        /\ Frontier(w, m, q) <= dst[q]
        /\ \A c \in dst[q] .. Frontier(w, n, q) - 1 : cells[c] = Garbage
    BY DEF InFlight
  <2>2. CASE q = p
    <3>1. Len(tuples) < LineSize
      BY <1>1, <1>2, <2>1, <2>2
    <3>2. QED
      BY <1>1, <1>5, <2>1, <2>2, <3>1
  <2>3. CASE q # p
    BY <1>1, <1>5, <2>1, <2>3
  <2>4. QED
    BY <2>2, <2>3
<1>7. ASSUME NEW r \in m+1 .. k+1
      PROVE  IF Cell(w, r) < dst[PartitionOf(w[r])]
             THEN cells[Cell(w, r)] = w[r]
             ELSE next[PartitionOf(w[r])][Cell(w, r) - dst[PartitionOf(w[r])] + 1] = w[r]
  <2>1. CASE PartitionOf(w[r]) = p
    BY <1>1, <1>5, <2>1
  <2>2. CASE PartitionOf(w[r]) # p
    <3>1. r \in m+1 .. k /\ r \in 1..Len(w)
      BY <1>1, <2>2
    <3>2. PICK q \in Partitions \ {p} : q = PartitionOf(w[r])
      BY <2>2, <3>1, KeyPartition
    <3>3. IF Cell(w, r) < dst[q] THEN cells[Cell(w, r)] = w[r]
          ELSE full[q][Cell(w, r) - dst[q] + 1] = w[r]
      BY <3>1, <3>2 DEF InFlight
    <3>4. QED
      BY <1>5, <3>2, <3>3
  <2>3. QED
    BY <2>1, <2>2
<1>8. InFlight(w, m, n, k+1, dst, next, cells)
  BY <1>1, <1>4, <1>5, <1>6, <1>7 DEF InFlight
<1>9. QED
  BY <1>3, <1>8

(* A full buffer goes to the output. *)
LineStored(w, m, n, k, dst, full, cells, p, tuples) ==
  /\ InFlight(w, m, n, k+1, [dst EXCEPT ![p] = @ + LineSize],
              [full EXCEPT ![p] = <<>>], Store(cells, dst[p], tuples))
  /\ Store(cells, dst[p], tuples) \in Cells(w)
  /\ \A c \in DOMAIN cells \ Share(w, m, n, p) : Store(cells, dst[p], tuples)[c] = cells[c]

(* The line goes out, and the slice is in flight behind the key. *)
LEMMA LineIsStored ==
  ASSUME NEW w \in Seq(Nat), NEW m \in 0..Len(w), NEW n \in m..Len(w),
         NEW k, NEW dst, NEW full, NEW cells \in Cells(w),
         InFlight(w, m, n, k, dst, full, cells), k < n,
         NEW p, p = PartitionOf(w[k+1]),
         NEW tuples, tuples = Append(full[p], w[k+1]), Len(tuples) = LineSize
  PROVE  LineStored(w, m, n, k, dst, full, cells, p, tuples)
<1>1. /\ k \in Nat /\ k+1 \in m..n /\ p \in Partitions
      /\ tuples \in Seq(ToSet(w)) /\ Len(tuples) = Len(full[p]) + 1 /\ Len(full[p]) \in Nat
      /\ dst[p] + Len(tuples) = Frontier(w, k+1, p)
      /\ \A q \in Partitions \ {p} : Frontier(w, k+1, q) = Frontier(w, k, q)
      /\ \A r \in m+1 .. k+1 : PartitionOf(w[r]) = p =>
           /\ Cell(w, r) \in Nat /\ Cell(w, r) < dst[p] + Len(tuples)
           /\ IF Cell(w, r) < dst[p] THEN cells[Cell(w, r)] = w[r]
              ELSE tuples[Cell(w, r) - dst[p] + 1] = w[r]
      /\ dst[p] .. dst[p] + Len(tuples) - 1 \subseteq Share(w, m, n, p)
  <2>1. Appended(w, m, n, k, dst, full, cells, p, tuples)
    BY NextKey
  <2>2. QED
    BY <2>1 DEF Appended
<1>2. LineSize \in Nat \ {0} /\ Len(w) \in Nat /\ m \in Nat /\ n \in Nat
  BY LineAssumption
<1>3. PICK D, T : D = DOMAIN Allocated(HistogramOf(w)) /\ T = ToSet(w) \cup {Garbage}
  OBVIOUS
<1>4. cells \in [D -> T]
  BY <1>3 DEF Cells
<1>5. full \in [Partitions -> Seq(ToSet(w))] /\ dst \in [Partitions -> Nat] /\ dst[p] \in Nat
  BY <1>1 DEF InFlight
<1>6. tuples \in Seq(T)
  <2>1. PICK K : K = ToSet(w)
    OBVIOUS
  <2>2. K \subseteq T /\ tuples \in Seq(K)
    BY <1>1, <1>3, <2>1
  <2>3. QED
    BY ONLY <2>2
<1>7. PICK after, next, to : /\ after = Store(cells, dst[p], tuples)
                             /\ next = [full EXCEPT ![p] = <<>>]
                             /\ to = [dst EXCEPT ![p] = @ + LineSize]
  OBVIOUS
<1>8. /\ after \in [D -> T]
      /\ \A c \in D : c \in dst[p] .. dst[p]+LineSize-1 => after[c] = tuples[c-dst[p]+1]
      /\ \A c \in D : c \notin dst[p] .. dst[p]+LineSize-1 => after[c] = cells[c]
  <2>1. PICK d : d = dst[p] /\ d \in Nat
    BY <1>5
  <2>2. Stored(w, cells, d, tuples, Store(cells, d, tuples))
    <3>1. cells \in Cells(w) /\ d \in Nat /\ tuples \in Seq(ToSet(w) \cup {Garbage})
      BY <1>3, <1>6, <2>1
    <3>2. QED
      BY ONLY <3>1, StoreStores
  <2>3. after = Store(cells, d, tuples)
    BY <1>7, <2>1
  <2>4. QED
    BY <1>3, <2>1, <2>2, <2>3 DEF Cells, Stored
<1>9. \A c \in D \ Share(w, m, n, p) : after[c] = cells[c]
  BY <1>1, <1>8
<1>10. /\ next \in [Partitions -> Seq(ToSet(w))] /\ next[p] = <<>> /\ Len(next[p]) = 0
       /\ \A q \in Partitions \ {p} : next[q] = full[q]
  <2>1. PICK T2 : T2 = Seq(ToSet(w))
    OBVIOUS
  <2>2. <<>> \in T2 /\ Len(<<>>) = 0
    BY <2>1
  <2>3. full \in [Partitions -> T2]
    BY <1>5, <2>1
  <2>4. /\ next \in [Partitions -> T2] /\ next[p] = <<>>
        /\ \A q \in Partitions \ {p} : next[q] = full[q]
    BY <1>1, <1>7, <2>2, <2>3
  <2>5. QED
    BY <2>1, <2>2, <2>4
<1>11. /\ to \in [Partitions -> Nat] /\ to[p] = dst[p] + LineSize
       /\ \A q \in Partitions \ {p} : to[q] = dst[q]
  <2>1. dst[p] + LineSize \in Nat
    BY <1>2, <1>5
  <2>2. p \in Partitions /\ dst \in [Partitions -> Nat]
    BY <1>1, <1>5
  <2>3. QED
    BY ONLY <1>7, <2>1, <2>2
<1>12. \A q \in Partitions : Share(w, m, n, q) \subseteq D /\ Share(w, m, n, q) \subseteq Nat
  BY <1>3, SharesApart
<1>13. \A q \in Partitions \ {p} : \A c \in Share(w, m, n, q) : after[c] = cells[c]
  <2>1. \A q \in Partitions \ {p} : Share(w, m, n, p) \cap Share(w, m, n, q) = {}
    BY <1>1, SharesApart
  <2>2. QED
    BY <1>9, <1>12, <2>1
<1>14. \A q \in Partitions : Frontier(w, m, q) \in Nat /\ Frontier(w, n, q) \in Nat
  BY <1>2, FrontierMoves
<1>15. ASSUME NEW q \in Partitions
       PROVE  /\ Len(next[q]) < LineSize
              /\ to[q] + Len(next[q]) = Frontier(w, k+1, q)
              /\ Frontier(w, m, q) <= to[q]
              /\ \A c \in to[q] .. Frontier(w, n, q) - 1 : after[c] = Garbage
  <2>1. /\ Len(full[q]) < LineSize
        /\ dst[q] + Len(full[q]) = Frontier(w, k, q)
        /\ Frontier(w, m, q) <= dst[q]
        /\ \A c \in dst[q] .. Frontier(w, n, q) - 1 : cells[c] = Garbage
        /\ dst[q] \in Nat
    BY <1>5 DEF InFlight
  <2>2. CASE q = p
    <3>1. Len(next[q]) < LineSize /\ Frontier(w, m, q) <= to[q] /\ to[q] \in Nat
      BY <1>2, <1>10, <1>11, <1>14, <2>1, <2>2
    <3>2. to[q] + Len(next[q]) = Frontier(w, k+1, q)
      <4>1. to[q] + Len(next[q]) = dst[p] + LineSize
        BY <1>2, <1>10, <1>11, <2>1, <2>2
      <4>2. QED
        BY <1>1, <2>2, <4>1
    <3>3. ASSUME NEW c \in to[q] .. Frontier(w, n, q) - 1
          PROVE  after[c] = Garbage
      <4>1. c \in dst[p] .. Frontier(w, n, q) - 1 /\ c \notin dst[p] .. dst[p]+LineSize-1
        <5>1. PICK d, l, z : d = dst[p] /\ l = LineSize /\ z = Frontier(w, n, q)
          OBVIOUS
        <5>2. d \in Nat /\ l \in Nat /\ z \in Nat
          BY <1>2, <1>14, <2>1, <2>2, <5>1
        <5>3. c \in d + l .. z - 1
          BY <1>11, <2>2, <3>3, <5>1
        <5>4. c \in d .. z - 1 /\ c \notin d .. d+l-1
          BY ONLY <5>2, <5>3
        <5>5. QED
          BY <5>1, <5>4
      <4>2. c \in Share(w, m, n, q)
        BY <1>14, <2>1, <2>2, <4>1 DEF Share
      <4>3. QED
        BY <1>8, <1>12, <2>1, <2>2, <4>1, <4>2
    <3>4. QED
      BY <3>1, <3>2, <3>3
  <2>3. CASE q # p
    <3>1. ASSUME NEW c \in dst[q] .. Frontier(w, n, q) - 1
          PROVE  after[c] = Garbage
      <4>1. c \in Share(w, m, n, q)
        BY <1>14, <2>1, <3>1 DEF Share
      <4>2. QED
        BY <1>13, <2>1, <2>3, <4>1
    <3>2. QED
      BY <1>1, <1>10, <1>11, <2>1, <2>3, <3>1
  <2>4. QED
    BY <2>2, <2>3
<1>16. ASSUME NEW r \in m+1 .. k+1
       PROVE  IF Cell(w, r) < to[PartitionOf(w[r])]
              THEN after[Cell(w, r)] = w[r]
              ELSE next[PartitionOf(w[r])][Cell(w, r) - to[PartitionOf(w[r])] + 1] = w[r]
  <2>1. PICK q \in Partitions : q = PartitionOf(w[r])
    <3>1. r \in 1..Len(w)
      BY <1>1, <1>2
    <3>2. QED
      BY <3>1, KeyPartition
  <2>2. Cell(w, r) \in Share(w, m, n, q) /\ Cell(w, r) \in Nat
    <3>1. r \in m+1 .. n
      BY <1>1, <1>2
    <3>2. Cell(w, r) \in Nat /\ Frontier(w, m, q) <= Cell(w, r) /\ Cell(w, r) < Frontier(w, n, q)
      BY <2>1, <3>1, CellsPassed
    <3>3. QED
      BY <1>14, <3>2 DEF Share
  <2>3. CASE q = p
    <3>1. /\ Cell(w, r) < dst[p] + LineSize
          /\ IF Cell(w, r) < dst[p] THEN cells[Cell(w, r)] = w[r]
             ELSE tuples[Cell(w, r) - dst[p] + 1] = w[r]
      BY <1>1, <2>1, <2>3
    <3>2. after[Cell(w, r)] = w[r]
      <4>1. CASE Cell(w, r) < dst[p]
        <5>1. Cell(w, r) \notin dst[p] .. dst[p]+LineSize-1 /\ Cell(w, r) \in D
          BY <1>5, <1>12, <2>2, <4>1
        <5>2. QED
          BY <1>8, <3>1, <4>1, <5>1
      <4>2. CASE ~ (Cell(w, r) < dst[p])
        <5>1. Cell(w, r) \in dst[p] .. dst[p]+LineSize-1 /\ Cell(w, r) \in D
          <6>1. PICK c, d, l : c = Cell(w, r) /\ d = dst[p] /\ l = LineSize
            OBVIOUS
          <6>2. d \in Nat /\ l \in Nat /\ c \in Nat
            BY <1>2, <1>5, <2>2, <6>1
          <6>3. c < d + l /\ ~ (c < d)
            BY <3>1, <4>2, <6>1
          <6>4. c \in d .. d+l-1
            BY ONLY <6>2, <6>3
          <6>5. QED
            BY <1>12, <2>2, <6>1, <6>4
        <5>2. QED
          BY <1>8, <3>1, <4>2, <5>1
      <4>3. QED
        BY <4>1, <4>2
    <3>3. QED
      BY <1>11, <2>1, <2>3, <3>1, <3>2
  <2>4. CASE q # p
    <3>1. r \in m+1 .. k
      BY <1>1, <1>2, <2>1, <2>4
    <3>2. IF Cell(w, r) < dst[q] THEN cells[Cell(w, r)] = w[r]
          ELSE full[q][Cell(w, r) - dst[q] + 1] = w[r]
      BY <2>1, <3>1 DEF InFlight
    <3>3. after[Cell(w, r)] = cells[Cell(w, r)]
      BY <1>13, <2>2, <2>4
    <3>4. QED
      BY <1>10, <1>11, <2>1, <2>4, <3>2, <3>3
  <2>5. QED
    BY <2>3, <2>4
<1>17. InFlight(w, m, n, k+1, to, next, after)
  BY <1>1, <1>10, <1>11, <1>15, <1>16 DEF InFlight
<1>18. after \in Cells(w)
  BY <1>3, <1>8 DEF Cells
<1>19. DOMAIN cells = D
  BY <1>4
<1>20. QED
  BY <1>7, <1>9, <1>17, <1>18, <1>19 DEF LineStored

(* The stores of the buffers, partition by partition, as a sequence of     *)
(* contents of the cells.                                                  *)
StoredInOrder(w, cells, dst, full, after) ==
  \E g \in [0..NPartitions -> Cells(w)] :
    /\ g[0] = cells
    /\ \A j \in 1..NPartitions : Stored(w, g[j-1], dst[j-1], full[j-1], g[j])
    /\ after = g[NPartitions]

(* The last stores of a task are such a sequence. *)
LEMMA StoreBuffersSteps ==
  ASSUME NEW w, NEW cells, NEW dst, NEW full, cells \in Cells(w),
         dst \in [Partitions -> Nat], full \in [Partitions -> Seq(ToSet(w))]
  PROVE  StoredInOrder(w, cells, dst, full, StoreBuffers(cells, dst, full))
<1>1. NPartitions \in Nat \ {0} /\ \A j \in 1..NPartitions : j-1 \in Partitions /\ j-1 \in 0..NPartitions
  BY PartitionCount DEF Partitions
<1> DEFINE Steps(g) == g = [p \in 0..NPartitions |->
                              IF p = 0 THEN cells ELSE Store(g[p-1], dst[p-1], full[p-1])]
<1>2. StoreBuffers(cells, dst, full) = (CHOOSE g : Steps(g))[NPartitions]
  BY DEF StoreBuffers
<1>3. \A j \in 1..NPartitions : \A x \in Cells(w) :
        Stored(w, x, dst[j-1], full[j-1], Store(x, dst[j-1], full[j-1]))
  <2>1. SUFFICES ASSUME NEW j \in 1..NPartitions, NEW x \in Cells(w)
                 PROVE  Stored(w, x, dst[j-1], full[j-1], Store(x, dst[j-1], full[j-1]))
    OBVIOUS
  <2>2. PICK d, keys : d = dst[j-1] /\ keys = full[j-1]
    OBVIOUS
  <2>3. d \in Nat /\ keys \in Seq(ToSet(w) \cup {Garbage})
    <3>1. PICK K, T : K = ToSet(w) /\ T = ToSet(w) \cup {Garbage}
      OBVIOUS
    <3>2. K \subseteq T /\ keys \in Seq(K)
      BY <1>1, <2>2, <3>1
    <3>3. keys \in Seq(T)
      BY ONLY <3>2
    <3>4. d \in Nat
      BY <1>1, <2>2
    <3>5. QED
      BY <3>1, <3>3, <3>4
  <2>4. Stored(w, x, d, keys, Store(x, d, keys))
    BY ONLY <2>3, x \in Cells(w), StoreStores
  <2>5. QED
    BY <2>2, <2>4
<1>4. PICK S, a, F : S = Cells(w) /\ a = cells /\ F = [i \in Nat |-> [x \in S |->
                      IF i \in 1..NPartitions THEN Store(x, dst[i-1], full[i-1]) ELSE x]]
  OBVIOUS
<1>5. a \in S /\ F \in [Nat -> [S -> S]]
  <2>1. \A i \in Nat, x \in S :
          (IF i \in 1..NPartitions THEN Store(x, dst[i-1], full[i-1]) ELSE x) \in S
    BY <1>3, <1>4 DEF Stored
  <2>2. QED
    BY <1>4, <2>1
<1>6. PICK g \in [0..NPartitions -> S] : g[0] = cells /\ \A i \in 1..NPartitions : g[i] = F[i][g[i-1]]
  <2>1. \A n \in Nat : \E g \in [0..n -> S] : g[0] = a /\ \A i \in 1..n : g[i] = F[i][g[i-1]]
    BY ONLY <1>5, Loop
  <2>2. QED
    BY <1>1, <1>4, <2>1
<1>7. \A j \in 1..NPartitions : g[j] = Store(g[j-1], dst[j-1], full[j-1])
  <2>1. SUFFICES ASSUME NEW j \in 1..NPartitions
                 PROVE  g[j] = Store(g[j-1], dst[j-1], full[j-1])
    OBVIOUS
  <2>2. j \in Nat /\ g[j-1] \in S
    BY <1>1, <1>6
  <2>3. QED
    BY <1>4, <1>6, <2>2
<1>8. Steps(g)
  BY <1>6, <1>7
<1>9. PICK f : f = CHOOSE h : Steps(h)
  OBVIOUS
<1>10. Steps(f)
  BY <1>8, <1>9
<1>11. f[0] = cells /\ \A j \in 1..NPartitions : f[j] = Store(f[j-1], dst[j-1], full[j-1])
  <2>1. f = [p \in 0..NPartitions |->
               IF p = 0 THEN cells ELSE Store(f[p-1], dst[p-1], full[p-1])]
    BY <1>10
  <2>2. 0 \in 0..NPartitions /\ \A j \in 1..NPartitions : j \in 0..NPartitions /\ j # 0
    BY <1>1
  <2>3. QED
    BY <2>1, <2>2
<1>12. DOMAIN f = 0..NPartitions /\ f = [p \in 0..NPartitions |-> f[p]]
  BY <1>10
<1> HIDE DEF Steps
<1>13. \A j \in 0..NPartitions : f[j] \in S
  <2>1. SUFFICES ASSUME NEW j \in 0..NPartitions, f[j] \notin S PROVE FALSE
    OBVIOUS
  <2>2. PICK T : T = {i \in 0..NPartitions : f[i] \notin S}
    OBVIOUS
  <2>3. T \subseteq Nat /\ T # {}
    <3>1. j \in T
      BY <2>1, <2>2
    <3>2. T \subseteq 0..NPartitions
      BY <2>2
    <3>3. QED
      BY <1>1, <3>1, <3>2
  <2>4. PICK k \in T : \A i \in T : k <= i
    BY <2>3, LeastNat
  <2>5. k \in 0..NPartitions /\ f[k] \notin S
    BY <2>2, <2>4
  <2>6. k # 0
    BY <1>4, <1>5, <1>11, <2>5
  <2>7. k \in 1..NPartitions /\ k-1 \in 0..NPartitions /\ ~ (k <= k-1)
    BY <1>1, <2>5, <2>6
  <2>8. f[k-1] \in Cells(w)
    BY <1>4, <2>2, <2>4, <2>7
  <2>9. f[k] \in Cells(w)
    BY <1>3, <1>11, <2>7, <2>8 DEF Stored
  <2>10. QED
    BY <1>4, <2>5, <2>9
<1>14. f \in [0..NPartitions -> Cells(w)]
  BY <1>4, <1>12, <1>13
<1>15. \A j \in 1..NPartitions : Stored(w, f[j-1], dst[j-1], full[j-1], f[j])
  BY <1>1, <1>3, <1>4, <1>11, <1>13
<1>16. QED
  BY <1>2, <1>9, <1>11, <1>14, <1>15 DEF StoredInOrder

(* What the end of a task leaves of its slice, m+1..n, and of the rest. *)
SliceDone(w, m, n, cells, after) ==
  /\ after \in Cells(w)
  /\ Placed(w, m, n, after)
  /\ \A c \in DOMAIN Allocated(HistogramOf(w)) :
       (\A p \in Partitions : c \notin Share(w, m, n, p)) => after[c] = cells[c]

(* The last buffers complete the slice. *)
LEMMA RestIsStored ==
  ASSUME NEW w \in Seq(Nat), NEW m \in 0..Len(w), NEW n \in m..Len(w),
         NEW dst, NEW full, NEW cells \in Cells(w), InFlight(w, m, n, n, dst, full, cells)
  PROVE  SliceDone(w, m, n, cells, StoreBuffers(cells, dst, full))
<1>1. /\ Len(w) \in Nat /\ m \in Nat /\ n \in Nat /\ n \in 0..Len(w)
      /\ NPartitions \in Nat \ {0} /\ Partitions = 0 .. NPartitions-1 /\ Partitions \subseteq Nat
  BY PartitionCount DEF Partitions
<1>2. dst \in [Partitions -> Nat] /\ full \in [Partitions -> Seq(ToSet(w))]
  BY DEF InFlight
<1>3. PICK g \in [0..NPartitions -> Cells(w)] :
        /\ g[0] = cells
        /\ \A j \in 1..NPartitions : Stored(w, g[j-1], dst[j-1], full[j-1], g[j])
        /\ StoreBuffers(cells, dst, full) = g[NPartitions]
  <2>1. StoredInOrder(w, cells, dst, full, StoreBuffers(cells, dst, full))
    BY <1>2, StoreBuffersSteps
  <2>2. QED
    BY <2>1 DEF StoredInOrder
<1>4. PICK R : R = [p \in Partitions |-> dst[p] .. dst[p]+Len(full[p])-1]
  OBVIOUS
<1>5. PICK D : D = DOMAIN Allocated(HistogramOf(w))
  OBVIOUS
<1>6. \A p \in Partitions : Frontier(w, m, p) \in Nat /\ Frontier(w, n, p) \in Nat
  BY <1>1, FrontierMoves
<1>7. ASSUME NEW p \in Partitions
      PROVE  /\ R[p] = dst[p] .. Frontier(w, n, p) - 1
             /\ R[p] \subseteq Share(w, m, n, p)
             /\ dst[p] \in Nat
  <2>1. dst[p] + Len(full[p]) = Frontier(w, n, p) /\ Frontier(w, m, p) <= dst[p] /\ dst[p] \in Nat
    BY <1>2 DEF InFlight
  <2>2. R[p] = dst[p] .. Frontier(w, n, p) - 1
    BY <1>4, <2>1
  <2>3. PICK a, b, d : a = Frontier(w, m, p) /\ b = dst[p] /\ d = Frontier(w, n, p)
    OBVIOUS
  <2>4. a \in Nat /\ b \in Nat /\ d \in Nat /\ a <= b
    BY <1>6, <2>1, <2>3
  <2>5. b .. d-1 \subseteq a .. d-1
    BY ONLY <2>4
  <2>6. QED
    BY <2>1, <2>2, <2>3, <2>5 DEF Share
<1>8. /\ \A p \in Partitions : Share(w, m, n, p) \subseteq D
      /\ \A p, q \in Partitions : p # q => Share(w, m, n, p) \cap Share(w, m, n, q) = {}
  <2>1. \A p \in Partitions : /\ Share(w, m, n, p) \subseteq D
                              /\ Share(w, m, n, p) \subseteq Share(w, 0, Len(w), p)
                              /\ \A q \in Partitions \ {p} :
                                   Share(w, m, n, p) \cap Share(w, 0, Len(w), q) = {}
    BY <1>5, SharesApart
  <2>2. QED
    BY <2>1
<1> DEFINE After(j) ==
      /\ \A p \in Partitions : p < j => \A c \in R[p] : g[j][c] = full[p][c-dst[p]+1]
      /\ \A c \in D : (\A p \in Partitions : p < j => c \notin R[p]) => g[j][c] = cells[c]
<1>9. After(0)
  BY <1>1, <1>3
<1>10. ASSUME NEW j \in 1..NPartitions, After(j-1)
       PROVE  After(j)
  <2>1. j-1 \in Partitions /\ j \in Nat
    BY <1>1
  <2>2. PICK q \in Partitions : q = j-1
    BY <2>1
  <2>3. Stored(w, g[j-1], dst[q], full[q], g[j])
    BY <1>3, <2>2
  <2>4. \A c \in D : /\ c \in R[q] => g[j][c] = full[q][c-dst[q]+1]
                     /\ c \notin R[q] => g[j][c] = g[j-1][c]
    BY <1>4, <1>5, <2>3 DEF Stored
  <2>5. ASSUME NEW p \in Partitions, p < j, NEW c \in R[p]
        PROVE  g[j][c] = full[p][c-dst[p]+1]
    <3>1. c \in D
      BY <1>7, <1>8
    <3>2. CASE p = q
      BY <2>4, <2>5, <3>1, <3>2
    <3>3. CASE p # q
      <4>1. p < j-1
        BY <1>1, <2>1, <2>2, <2>5, <3>3
      <4>2. c \notin R[q]
        BY <1>7, <1>8, <2>5, <3>3
      <4>3. QED
        BY <1>10, <2>4, <2>5, <3>1, <4>1, <4>2
    <3>4. QED
      BY <3>2, <3>3
  <2>6. ASSUME NEW c \in D, \A p \in Partitions : p < j => c \notin R[p]
        PROVE  g[j][c] = cells[c]
    <3>1. q < j /\ \A p \in Partitions : p < j-1 => p < j
      BY <1>1, <2>1, <2>2
    <3>2. c \notin R[q] /\ \A p \in Partitions : p < j-1 => c \notin R[p]
      BY <2>6, <3>1
    <3>3. g[j-1][c] = cells[c]
      BY <1>10, <3>2
    <3>4. QED
      BY <2>4, <3>2, <3>3
  <2>7. QED
    BY <2>5, <2>6
<1> HIDE DEF After
<1>11. After(NPartitions)
  <2>1. SUFFICES ASSUME ~ After(NPartitions) PROVE FALSE
    OBVIOUS
  <2>2. PICK T : T = {i \in 0..NPartitions : ~ After(i)}
    OBVIOUS
  <2>3. T \subseteq Nat /\ T # {}
    BY <1>1, <2>1, <2>2
  <2>4. PICK k \in T : \A i \in T : k <= i
    BY <2>3, LeastNat
  <2>5. k \in 0..NPartitions /\ ~ After(k)
    BY <2>2, <2>4
  <2>6. k # 0
    BY <1>9, <2>5
  <2>7. k \in 1..NPartitions /\ k-1 \in 0..NPartitions /\ ~ (k <= k-1)
    BY <1>1, <2>5, <2>6
  <2>8. After(k-1)
    BY <2>2, <2>4, <2>7
  <2>9. QED
    BY <1>10, <2>5, <2>7, <2>8
<1>12. PICK after : after = g[NPartitions] /\ after \in Cells(w)
  BY <1>1, <1>3
<1>13. /\ \A p \in Partitions : \A c \in R[p] : after[c] = full[p][c-dst[p]+1]
       /\ \A c \in D : (\A p \in Partitions : c \notin R[p]) => after[c] = cells[c]
  <2>1. \A p \in Partitions : p < NPartitions
    BY <1>1
  <2>2. QED
    BY <1>11, <1>12, <2>1 DEF After
<1>14. \A c \in D : (\A p \in Partitions : c \notin Share(w, m, n, p)) => after[c] = cells[c]
  BY <1>7, <1>13
<1>15. ASSUME NEW r \in m+1 .. n
       PROVE  after[Cell(w, r)] = w[r]
  <2>1. r \in 1..Len(w)
    BY <1>1
  <2>2. PICK q \in Partitions : q = PartitionOf(w[r])
    BY <2>1, KeyPartition
  <2>3. Cell(w, r) \in Nat /\ Frontier(w, m, q) <= Cell(w, r) /\ Cell(w, r) < Frontier(w, n, q)
    BY <1>15, <2>2, CellsPassed
  <2>4. Cell(w, r) \in Share(w, m, n, q)
    BY <1>6, <2>3 DEF Share
  <2>5. IF Cell(w, r) < dst[q] THEN cells[Cell(w, r)] = w[r]
        ELSE full[q][Cell(w, r) - dst[q] + 1] = w[r]
    BY <1>15, <2>2 DEF InFlight
  <2>6. CASE Cell(w, r) < dst[q]
    <3>1. Cell(w, r) \notin R[q]
      <4>1. dst[q] \in Nat /\ R[q] = dst[q] .. Frontier(w, n, q) - 1
        BY <1>7
      <4>2. QED
        BY <1>6, <2>3, <2>6, <4>1
    <3>2. \A p \in Partitions : Cell(w, r) \notin R[p]
      BY <1>7, <1>8, <2>4, <3>1
    <3>3. QED
      BY <1>8, <1>13, <2>4, <2>5, <2>6, <3>2
  <2>7. CASE ~ (Cell(w, r) < dst[q])
    <3>1. Cell(w, r) \in R[q]
      <4>1. dst[q] \in Nat /\ R[q] = dst[q] .. Frontier(w, n, q) - 1
        BY <1>7
      <4>2. QED
        BY <1>6, <2>3, <2>7, <4>1
    <3>2. QED
      BY <1>13, <2>5, <2>7, <3>1
  <2>8. QED
    BY <2>6, <2>7
<1>16. SliceDone(w, m, n, cells, after)
  BY <1>5, <1>12, <1>14, <1>15 DEF SliceDone, Placed
<1>17. QED
  BY <1>3, <1>12, <1>16

-----------------------------------------------------------------------------
(* The scatter of init without a queue. *)

Tuples(w) == [1..LineSize -> ToSet(w) \cup {Garbage}]

(* The states of its loops. *)
States(w) ==
  [tuples : [Partitions -> Tuples(w)], fill : [Partitions -> 0 .. LineSize-1],
   pos : [Partitions -> Nat], cells : Cells(w)]

(* A line of tuples is a sequence. *)
LEMMA TuplesAreKeys ==
  ASSUME NEW w, NEW tuples, tuples \in Tuples(w)
  PROVE  tuples \in Seq(ToSet(w) \cup {Garbage}) /\ Len(tuples) = LineSize
<1>1. PICK T : T = ToSet(w) \cup {Garbage}
  OBVIOUS
<1>2. LineSize \in Nat /\ tuples \in [1..LineSize -> T]
  BY <1>1, LineAssumption DEF Tuples
<1>3. tuples \in Seq(T) /\ Len(tuples) = LineSize
  BY <1>2
<1>4. QED
  BY <1>1, <1>3

(* One key of partition p: into its buffer, and the full buffer out. *)
PutDone(w, s, p, key, after) ==
  /\ after \in States(w)
  /\ \A q \in Partitions \ {p} : /\ after.tuples[q] = s.tuples[q]
                                 /\ after.fill[q] = s.fill[q]
                                 /\ after.pos[q] = s.pos[q]
  /\ after.tuples[p] = [s.tuples[p] EXCEPT ![s.fill[p] + 1] = key]
  /\ IF s.fill[p] + 1 = LineSize
     THEN /\ after.fill[p] = 0 /\ after.pos[p] = s.pos[p] + LineSize
          /\ Stored(w, s.cells, s.pos[p], after.tuples[p], after.cells)
     ELSE /\ after.fill[p] = s.fill[p] + 1 /\ after.pos[p] = s.pos[p]
          /\ after.cells = s.cells

(* Put puts the key into the buffer of its partition. *)
LEMMA PutPuts ==
  ASSUME NEW w, NEW s, NEW key, s \in States(w), key \in ToSet(w), key \in Nat
  PROVE  PutDone(w, s, PartitionOf(key), key, Put(s, key))
<1>1. LineSize \in Nat \ {0}
  BY LineAssumption
<1>2. PICK p \in Partitions : p = PartitionOf(key)
  BY PartitionInRange
<1>3. PICK T, C, K : T = Tuples(w) /\ C = Cells(w) /\ K = ToSet(w) \cup {Garbage}
  OBVIOUS
<1>4. PICK tup, fill, pos, cells :
        /\ tup = s.tuples /\ fill = s.fill /\ pos = s.pos /\ cells = s.cells
        /\ tup \in [Partitions -> T] /\ fill \in [Partitions -> 0 .. LineSize-1]
        /\ pos \in [Partitions -> Nat] /\ cells \in C
        /\ s = [tuples |-> tup, fill |-> fill, pos |-> pos, cells |-> cells]
  BY <1>3 DEF States
<1>5. PICK f, d : f = fill[p] /\ d = pos[p] /\ f \in 0 .. LineSize-1 /\ d \in Nat
  BY <1>4
<1>6. PICK line : line = [tup[p] EXCEPT ![f + 1] = key]
  OBVIOUS
<1>7. line \in T
  <2>1. tup[p] \in [1..LineSize -> K] /\ key \in K
    BY <1>3, <1>4 DEF Tuples
  <2>2. line \in [1..LineSize -> K]
    BY <1>6, <2>1
  <2>3. QED
    BY <1>3, <2>2 DEF Tuples
<1>8. PICK tup2 : /\ tup2 = [tup EXCEPT ![p] = line] /\ tup2 \in [Partitions -> T] /\ tup2[p] = line
                  /\ \A q \in Partitions \ {p} : tup2[q] = tup[q]
  <2>1. PICK tup2 : tup2 = [tup EXCEPT ![p] = line]
    OBVIOUS
  <2>2. /\ tup2 \in [Partitions -> T] /\ tup2[p] = line
        /\ \A q \in Partitions \ {p} : tup2[q] = tup[q]
    BY <1>4, <1>7, <2>1
  <2>3. QED
    BY <2>1, <2>2
<1>9. CASE f + 1 = LineSize
  <2>1. PICK fill2, pos2 : fill2 = [fill EXCEPT ![p] = 0] /\ pos2 = [pos EXCEPT ![p] = @ + LineSize]
    OBVIOUS
  <2>2. /\ fill2 \in [Partitions -> 0 .. LineSize-1] /\ fill2[p] = 0
        /\ \A q \in Partitions \ {p} : fill2[q] = fill[q]
    BY <1>1, <1>4, <2>1
  <2>3. /\ pos2 \in [Partitions -> Nat] /\ pos2[p] = d + LineSize
        /\ \A q \in Partitions \ {p} : pos2[q] = pos[q]
    <3>1. d + LineSize \in Nat /\ pos2 = [pos EXCEPT ![p] = d + LineSize]
      BY <1>1, <1>5, <2>1
    <3>2. QED
      BY ONLY <1>4, <3>1, p \in Partitions
  <2>4. PICK cells2 : cells2 = Store(cells, d, line)
    OBVIOUS
  <2>5. Stored(w, cells, d, line, cells2)
    <3>1. line \in Seq(ToSet(w) \cup {Garbage}) /\ cells \in Cells(w) /\ d \in Nat
      BY <1>3, <1>4, <1>5, <1>7, TuplesAreKeys
    <3>2. QED
      BY <2>4, <3>1, StoreStores
  <2>6. cells2 \in C
    BY <1>3, <2>5 DEF Stored
  <2>7. PICK after : after = [tuples |-> tup2, fill |-> fill2, pos |-> pos2, cells |-> cells2]
    OBVIOUS
  <2>8. Put(s, key) = after
    BY <1>2, <1>4, <1>5, <1>6, <1>8, <1>9, <2>1, <2>4, <2>7 DEF Put
  <2>9. after \in States(w)
    BY <1>3, <1>8, <2>2, <2>3, <2>6, <2>7 DEF States
  <2>10. after.tuples = tup2 /\ after.fill = fill2 /\ after.pos = pos2 /\ after.cells = cells2
    BY <2>7
  <2>11. PutDone(w, s, p, key, after)
    BY <1>4, <1>5, <1>6, <1>8, <1>9, <2>2, <2>3, <2>5, <2>9, <2>10 DEF PutDone
  <2>12. QED
    BY <1>2, <2>8, <2>11
<1>10. CASE f + 1 # LineSize
  <2>1. PICK fill2 : fill2 = [fill EXCEPT ![p] = f + 1]
    OBVIOUS
  <2>2. /\ fill2 \in [Partitions -> 0 .. LineSize-1] /\ fill2[p] = f + 1
        /\ \A q \in Partitions \ {p} : fill2[q] = fill[q]
    <3>1. f + 1 \in 0 .. LineSize-1
      BY <1>1, <1>5, <1>10
    <3>2. QED
      BY ONLY <1>4, <2>1, <3>1, p \in Partitions
  <2>3. PICK after : after = [tuples |-> tup2, fill |-> fill2, pos |-> pos, cells |-> cells]
    OBVIOUS
  <2>4. Put(s, key) = after
    <3>1. Put(s, key) = [s EXCEPT !.tuples[p] = line, !.fill[p] = @ + 1]
      BY <1>2, <1>4, <1>5, <1>6, <1>10 DEF Put
    <3>2. PICK half : half = [s EXCEPT !.tuples[p] = line]
      OBVIOUS
    <3>3. half = [tuples |-> tup2, fill |-> fill, pos |-> pos, cells |-> cells]
      BY <1>4, <1>8, <3>2
    <3>4. [s EXCEPT !.tuples[p] = line, !.fill[p] = @ + 1] = [half EXCEPT !.fill[p] = @ + 1]
      BY <3>2
    <3>5. [half EXCEPT !.fill[p] = @ + 1] = after
      BY <1>5, <2>1, <2>3, <3>3
    <3>6. QED
      BY <3>1, <3>4, <3>5
  <2>5. after \in States(w)
    BY <1>3, <1>4, <1>8, <2>2, <2>3 DEF States
  <2>6. after.tuples = tup2 /\ after.fill = fill2 /\ after.pos = pos /\ after.cells = cells
    BY <2>3
  <2>7. PutDone(w, s, p, key, after)
    BY <1>4, <1>5, <1>6, <1>8, <1>10, <2>2, <2>5, <2>6 DEF PutDone
  <2>8. QED
    BY <1>2, <2>4, <2>7
<1>11. QED
  BY <1>9, <1>10

(* The last store of a partition. *)
FlushDone(w, s, p, after) ==
  /\ after \in States(w)
  /\ after.tuples = s.tuples /\ after.fill = s.fill /\ after.pos = s.pos
  /\ IF s.fill[p] = 0 THEN after.cells = s.cells
     ELSE Stored(w, s.cells, s.pos[p], s.tuples[p], after.cells)

(* Flush stores what is left of a buffer. *)
LEMMA FlushFlushes ==
  ASSUME NEW w, NEW s, NEW p, s \in States(w), p \in Partitions
  PROVE  FlushDone(w, s, p, Flush(s, p))
<1>1. PICK T, C : T = Tuples(w) /\ C = Cells(w)
  OBVIOUS
<1>2. PICK tup, fill, pos, cells :
        /\ tup = s.tuples /\ fill = s.fill /\ pos = s.pos /\ cells = s.cells
        /\ tup \in [Partitions -> T] /\ fill \in [Partitions -> 0 .. LineSize-1]
        /\ pos \in [Partitions -> Nat] /\ cells \in C
        /\ s = [tuples |-> tup, fill |-> fill, pos |-> pos, cells |-> cells]
  BY <1>1 DEF States
<1>3. CASE fill[p] = 0
  BY <1>2, <1>3 DEF Flush, FlushDone
<1>4. CASE fill[p] # 0
  <2>1. PICK cells2 : cells2 = Store(cells, pos[p], tup[p])
    OBVIOUS
  <2>2. Stored(w, cells, pos[p], tup[p], cells2)
    <3>1. PICK d, line : d = pos[p] /\ line = tup[p] /\ d \in Nat /\ line \in Tuples(w)
      BY <1>1, <1>2
    <3>2. line \in Seq(ToSet(w) \cup {Garbage}) /\ cells \in Cells(w) /\ d \in Nat
      BY <1>1, <1>2, <3>1, TuplesAreKeys
    <3>3. Stored(w, cells, d, line, Store(cells, d, line))
      BY <3>2, StoreStores
    <3>4. QED
      BY <2>1, <3>1, <3>3
  <2>3. cells2 \in C
    BY <1>1, <2>2 DEF Stored
  <2>4. PICK after : after = [tuples |-> tup, fill |-> fill, pos |-> pos, cells |-> cells2]
    OBVIOUS
  <2>5. Flush(s, p) = after
    <3>1. Flush(s, p) = [s EXCEPT !.cells = cells2]
      BY <1>2, <1>4, <2>1 DEF Flush
    <3>2. [s EXCEPT !.cells = cells2] = after
      BY <1>2, <2>4
    <3>3. QED
      BY <3>1, <3>2
  <2>6. after \in States(w)
    BY <1>1, <1>2, <2>3, <2>4 DEF States
  <2>7. after.tuples = tup /\ after.fill = fill /\ after.pos = pos /\ after.cells = cells2
    BY <2>4
  <2>8. FlushDone(w, s, p, after)
    BY <1>2, <1>4, <2>2, <2>6, <2>7 DEF FlushDone
  <2>9. QED
    BY <2>5, <2>8
<1>5. QED
  BY <1>3, <1>4

(* After n keys: those below the position of their partition are in their  *)
(* cells, the others in the first tuples of the buffer.                    *)
Buffered(w, n, s) ==
  /\ s \in States(w)
  /\ \A p \in Partitions :
       /\ s.pos[p] + s.fill[p] = Frontier(w, n, p)
       /\ Frontier(w, 0, p) <= s.pos[p]
       /\ \E q \in Nat : s.pos[p] = LineSize * q
  /\ \A r \in 1..n :
       IF Cell(w, r) < s.pos[PartitionOf(w[r])]
       THEN s.cells[Cell(w, r)] = w[r]
       ELSE s.tuples[PartitionOf(w[r])][Cell(w, r) - s.pos[PartitionOf(w[r])] + 1] = w[r]

(* Before the first key nothing is buffered. *)
LEMMA FreshIsBuffered ==
  ASSUME NEW w, w \in Seq(Nat)
  PROVE  Buffered(w, 0, Fresh(Allocated(HistogramOf(w)), OffsetsOf(HistogramOf(w))))
<1>1. PICK h, off : h = HistogramOf(w) /\ off = OffsetsOf(h)
  OBVIOUS
<1>2. h \in [Partitions -> Nat]
  BY <1>1, HistogramCounts
<1>3. off \in [Partitions -> Nat] /\ \A p \in Partitions : \E q \in Nat : off[p] = LineSize * q
  BY <1>1, <1>2, WindowsApart
<1>4. \A p \in Partitions : Frontier(w, 0, p) = off[p]
  BY <1>1, FrontierEnds
<1>5. PICK T, C, K, line : /\ T = Tuples(w) /\ C = Cells(w) /\ K = ToSet(w) \cup {Garbage}
                           /\ line = [n \in 1..LineSize |-> Garbage]
  OBVIOUS
<1>6. line \in T
  BY <1>5 DEF Tuples
<1>7. PICK tup, cells : tup = [p \in Partitions |-> line] /\ cells = Allocated(h)
  OBVIOUS
<1>8. tup \in [Partitions -> T]
  BY <1>6, <1>7
<1>9. cells \in C
  <2>1. PICK size \in Nat : Allocated(h) = [c \in 0 .. size-1 |-> Garbage]
    BY <1>2, WindowsApart
  <2>2. Garbage \in K
    BY <1>5
  <2>3. cells \in [DOMAIN cells -> K]
    BY <1>7, <2>1, <2>2
  <2>4. QED
    BY <1>1, <1>5, <1>7, <2>3 DEF Cells
<1>10. Zeroes \in [Partitions -> 0 .. LineSize-1] /\ \A p \in Partitions : Zeroes[p] = 0
  BY LineAssumption DEF Zeroes
<1>11. PICK s : s = [tuples |-> tup, fill |-> Zeroes, pos |-> off, cells |-> cells]
  OBVIOUS
<1>12. s \in States(w)
  BY <1>3, <1>5, <1>8, <1>9, <1>10, <1>11 DEF States
<1>13. s.pos = off /\ s.fill = Zeroes
  BY <1>11
<1>14. ASSUME NEW p \in Partitions
       PROVE  /\ s.pos[p] + s.fill[p] = Frontier(w, 0, p)
              /\ Frontier(w, 0, p) <= s.pos[p]
              /\ \E q \in Nat : s.pos[p] = LineSize * q
  <2>1. off[p] \in Nat /\ Zeroes[p] = 0 /\ Frontier(w, 0, p) = off[p]
    BY <1>3, <1>4, <1>10
  <2>2. off[p] + 0 = off[p] /\ off[p] <= off[p]
    BY <2>1
  <2>3. QED
    BY <1>3, <1>13, <2>1, <2>2
<1>15. 1..0 = {}
  OBVIOUS
<1>16. Fresh(cells, off) = s
  BY <1>5, <1>7, <1>11 DEF Fresh
<1>17. Buffered(w, 0, s)
  BY <1>12, <1>14, <1>15 DEF Buffered
<1>18. QED
  BY <1>1, <1>7, <1>16, <1>17

(* A key more is buffered or stored. *)
LEMMA PutKeepsBuffered ==
  ASSUME NEW w, NEW n, NEW s, NEW p, NEW after,
         w \in Seq(Nat), n \in 0 .. Len(w)-1, Buffered(w, n, s), p = PartitionOf(w[n+1]),
         PutDone(w, s, p, w[n+1], after)
  PROVE  Buffered(w, n+1, after)
<1>1. /\ LineSize \in Nat \ {0} /\ Len(w) \in Nat /\ n \in Nat /\ n+1 \in 1..Len(w)
      /\ n \in 0..Len(w) /\ n+1 \in 0..Len(w) /\ (n+1)-1 = n /\ 0 \in 0..Len(w)
  BY LineAssumption
<1>2. p \in Partitions
  BY <1>1, KeyPartition
<1>3. PICK tup, fill, pos, cells, tup2, fill2, pos2, cells2 :
        /\ tup = s.tuples /\ fill = s.fill /\ pos = s.pos /\ cells = s.cells
        /\ tup2 = after.tuples /\ fill2 = after.fill /\ pos2 = after.pos /\ cells2 = after.cells
  OBVIOUS
<1>4. /\ tup \in [Partitions -> Tuples(w)] /\ fill \in [Partitions -> 0 .. LineSize-1]
      /\ pos \in [Partitions -> Nat] /\ cells \in Cells(w)
  BY <1>3 DEF Buffered, States
<1>5. /\ tup2 \in [Partitions -> Tuples(w)] /\ fill2 \in [Partitions -> 0 .. LineSize-1]
      /\ pos2 \in [Partitions -> Nat] /\ cells2 \in Cells(w)
  BY <1>3 DEF PutDone, States
<1>6. /\ \A q \in Partitions \ {p} : tup2[q] = tup[q] /\ fill2[q] = fill[q] /\ pos2[q] = pos[q]
      /\ tup2[p] = [tup[p] EXCEPT ![fill[p] + 1] = w[n+1]]
      /\ fill[p] + 1 = LineSize =>
           /\ fill2[p] = 0 /\ pos2[p] = pos[p] + LineSize
           /\ Stored(w, cells, pos[p], tup2[p], cells2)
      /\ fill[p] + 1 # LineSize =>
           fill2[p] = fill[p] + 1 /\ pos2[p] = pos[p] /\ cells2 = cells
  BY <1>3 DEF PutDone
<1>7. PICK f, d, line : /\ f = fill[p] /\ d = pos[p] /\ line = tup2[p]
                        /\ f \in 0 .. LineSize-1 /\ d \in Nat
  BY <1>2, <1>4
<1>8. /\ line[f+1] = w[n+1] /\ \A i \in 1..f : line[i] = tup[p][i]
      /\ Len(line) = LineSize
  <2>1. DOMAIN tup[p] = 1..LineSize
    BY <1>2, <1>4 DEF Tuples
  <2>2. f+1 \in 1..LineSize /\ \A i \in 1..f : i \in 1..LineSize /\ i # f+1
    <3>1. PICK l : l = LineSize
      OBVIOUS
    <3>2. l \in Nat /\ f \in 0 .. l-1
      BY <1>1, <1>7, <3>1
    <3>3. f+1 \in 1..l /\ \A i \in 1..f : i \in 1..l /\ i # f+1
      BY ONLY <3>2
    <3>4. QED
      BY <3>1, <3>3
  <2>3. line \in Tuples(w)
    BY <1>2, <1>5, <1>7
  <2>4. Len(line) = LineSize
    BY <2>3, TuplesAreKeys
  <2>5. QED
    BY <1>6, <1>7, <2>1, <2>2, <2>4
<1>9. /\ Frontier(w, n+1, p) = Frontier(w, n, p) + 1 /\ Frontier(w, n, p) \in Nat
      /\ Cell(w, n+1) = Frontier(w, n, p)
      /\ \A q \in Partitions \ {p} :
           Frontier(w, n+1, q) = Frontier(w, n, q) + 0 /\ Frontier(w, n, q) \in Nat
  BY <1>1, <1>2, FrontierMoves
<1>10. \A q \in Partitions :
         /\ pos[q] + fill[q] = Frontier(w, n, q) /\ Frontier(w, 0, q) <= pos[q]
         /\ \E i \in Nat : pos[q] = LineSize * i
         /\ Frontier(w, 0, q) \in Nat
  BY <1>1, <1>3, FrontierMoves DEF Buffered
<1>20. ASSUME NEW j \in 0..Len(w), NEW r \in 1..j
       PROVE  Cell(w, r) < Frontier(w, j, PartitionOf(w[r]))
  <2>1. PICK m : m = 0 /\ m \in 0..Len(w)
    BY <1>1
  <2>2. j \in m..Len(w) /\ r \in m+1 .. j
    BY <1>1, <2>1
  <2>3. QED
    BY <2>1, <2>2, CellsPassed
<1>11. ASSUME NEW q \in Partitions
       PROVE  /\ pos2[q] + fill2[q] = Frontier(w, n+1, q)
              /\ Frontier(w, 0, q) <= pos2[q]
              /\ \E i \in Nat : pos2[q] = LineSize * i
  <2>1. CASE q # p
    BY <1>6, <1>9, <1>10, <2>1
  <2>2. CASE q = p /\ f + 1 = LineSize
    <3>1. fill2[q] = 0 /\ pos2[q] = d + LineSize
      BY <1>6, <1>7, <2>2
    <3>2. d + f = Frontier(w, n, q) /\ Frontier(w, 0, q) <= d /\ Frontier(w, 0, q) \in Nat
      BY <1>7, <1>10, <2>2
    <3>3. PICK i \in Nat : d = LineSize * i
      BY <1>7, <1>10, <2>2
    <3>4. i+1 \in Nat /\ d + LineSize = LineSize * (i+1)
      BY <1>1, <3>3
    <3>5. pos2[q] + fill2[q] = Frontier(w, n+1, q) /\ Frontier(w, 0, q) <= pos2[q]
      <4>1. PICK x, y, a : x = Frontier(w, n, q) /\ y = Frontier(w, n+1, q) /\ a = Frontier(w, 0, q)
        OBVIOUS
      <4>2. x \in Nat /\ y = x + 1
        BY <1>9, <2>2, <4>1
      <4>3. d + f = x /\ a <= d /\ a \in Nat
        BY <3>2, <4>1
      <4>4. d + LineSize + 0 = y /\ a <= d + LineSize
        <5>1. PICK l \in Nat : l = LineSize
          BY <1>1
        <5>2. f \in Nat /\ d \in Nat /\ f + 1 = l
          BY <1>1, <1>7, <2>2, <5>1
        <5>3. d + l + 0 = y /\ a <= d + l
          BY ONLY <4>2, <4>3, <5>2, l \in Nat
        <5>4. QED
          BY <5>1, <5>3
      <4>5. QED
        BY <3>1, <4>1, <4>4
    <3>6. \E j \in Nat : pos2[q] = LineSize * j
      BY <3>1, <3>4
    <3>7. QED
      BY <3>5, <3>6
  <2>3. CASE q = p /\ f + 1 # LineSize
    <3>1. fill2[q] = f + 1 /\ pos2[q] = d
      BY <1>6, <1>7, <2>3
    <3>2. d + f = Frontier(w, n, q) /\ Frontier(w, 0, q) <= d
      BY <1>7, <1>10, <2>3
    <3>3. pos2[q] + fill2[q] = Frontier(w, n+1, q)
      BY <1>7, <1>9, <2>3, <3>1, <3>2
    <3>4. QED
      BY <1>7, <1>10, <2>3, <3>1, <3>2, <3>3
  <2>4. QED
    BY <2>1, <2>2, <2>3
<1>12. ASSUME NEW r \in 1 .. n+1
       PROVE  IF Cell(w, r) < pos2[PartitionOf(w[r])]
              THEN cells2[Cell(w, r)] = w[r]
              ELSE tup2[PartitionOf(w[r])][Cell(w, r) - pos2[PartitionOf(w[r])] + 1] = w[r]
  <2>1. r \in 1..Len(w) /\ r \in Nat /\ (r # n+1 => r \in 1..n)
    BY <1>1
  <2>2. PICK q \in Partitions : q = PartitionOf(w[r])
    BY <2>1, KeyPartition
  <2>3. PICK c \in Nat : c = Cell(w, r)
    <3>1. r \in 0+1 .. Len(w) /\ Len(w) \in 0..Len(w)
      BY <1>1, <2>1
    <3>2. QED
      BY <1>1, <3>1, CellsPassed
  <2>4. c \in Share(w, 0, Len(w), q)
    <3>1. r \in 0+1 .. Len(w) /\ Len(w) \in 0..Len(w)
      BY <1>1, <2>1
    <3>2. Frontier(w, 0, q) <= c /\ c < Frontier(w, Len(w), q)
      BY <1>1, <2>2, <2>3, <3>1, CellsPassed
    <3>3. Frontier(w, 0, q) \in Nat /\ Frontier(w, Len(w), q) \in Nat
      BY <1>1, <3>1, FrontierMoves
    <3>4. QED
      BY <3>2, <3>3 DEF Share
  <2>5. r \in 1..n => IF c < pos[q] THEN cells[c] = w[r] ELSE tup[q][c - pos[q] + 1] = w[r]
    BY <1>3, <2>2, <2>3 DEF Buffered
  <2>6. CASE q # p
    <3>1. r \in 1..n
      BY <2>1, <2>2, <2>6
    <3>2. f + 1 = LineSize => cells2[c] = cells[c]
      <4>1. SUFFICES ASSUME f + 1 = LineSize PROVE cells2[c] = cells[c]
        OBVIOUS
      <4>2. c \in DOMAIN Allocated(HistogramOf(w)) /\ c \notin Share(w, 0, Len(w), p)
        <5>1. Len(w) \in 0..Len(w)
          BY <1>1
        <5>2. /\ Share(w, 0, Len(w), q) \subseteq DOMAIN Allocated(HistogramOf(w))
              /\ \A i \in Partitions \ {q} :
                   Share(w, 0, Len(w), q) \cap Share(w, 0, Len(w), i) = {}
          BY <1>1, <5>1, SharesApart
        <5>3. QED
          BY <1>2, <2>4, <2>6, <5>2
      <4>3. d .. d+LineSize-1 \subseteq Share(w, 0, Len(w), p)
        <5>1. d + LineSize = Frontier(w, n+1, p) /\ Frontier(w, 0, p) <= d /\ Frontier(w, 0, p) \in Nat
          <6>1. PICK x, y, a : x = Frontier(w, n, p) /\ y = Frontier(w, n+1, p) /\ a = Frontier(w, 0, p)
            OBVIOUS
          <6>2. x \in Nat /\ y = x + 1
            BY <1>9, <6>1
          <6>3. d + f = x /\ a <= d /\ a \in Nat
            BY <1>2, <1>7, <1>10, <6>1
          <6>4. QED
            BY <1>7, <4>1, <6>1, <6>2, <6>3
        <5>2. Len(w) \in n+1 .. Len(w) /\ Len(w) \in 0..Len(w)
          BY <1>1
        <5>3. Frontier(w, n+1, p) <= Frontier(w, Len(w), p) /\ Frontier(w, Len(w), p) \in Nat
          BY <1>1, <1>2, <5>2, FrontierMoves
        <5>4. PICK a, z : a = Frontier(w, 0, p) /\ z = Frontier(w, Len(w), p)
          OBVIOUS
        <5>5. a \in Nat /\ z \in Nat /\ a <= d /\ d + LineSize <= z /\ d \in Nat /\ LineSize \in Nat
          BY <1>1, <1>7, <5>1, <5>3, <5>4
        <5>6. d .. d+LineSize-1 \subseteq a .. z-1
          BY ONLY <5>5
        <5>7. QED
          BY <5>4, <5>6 DEF Share
      <4>4. c \notin d .. d+LineSize-1
        BY <4>2, <4>3
      <4>5. Stored(w, cells, d, line, cells2)
        BY <1>6, <1>7, <4>1
      <4>6. QED
        BY <1>8, <4>2, <4>4, <4>5 DEF Stored
    <3>3. cells2[c] = cells[c]
      BY <1>6, <1>7, <3>2
    <3>4. QED
      BY <1>6, <2>2, <2>3, <2>5, <2>6, <3>1, <3>3
  <2>7. CASE q = p
    <3>1. c < d + f + 1
      <4>1. d + f + 1 = Frontier(w, n+1, p)
        BY <1>2, <1>7, <1>9, <1>10
      <4>2. c < Frontier(w, n+1, p)
        BY <1>1, <1>20, <2>2, <2>3, <2>7
      <4>3. QED
        BY <4>1, <4>2
    <3>2. ~ (c < d) => line[c - d + 1] = w[r]
      <4>1. SUFFICES ASSUME ~ (c < d) PROVE line[c - d + 1] = w[r]
        OBVIOUS
      <4>2. CASE r = n+1
        <5>1. c = d + f
          BY <1>2, <1>7, <1>9, <1>10, <2>3, <4>2
        <5>2. c - d + 1 = f + 1
          BY <1>7, <5>1
        <5>3. QED
          BY <1>8, <4>2, <5>2
      <4>3. CASE r # n+1
        <5>1. r \in 1..n
          BY <2>1, <4>3
        <5>2. c < d + f
          <6>1. c < Frontier(w, n, p)
            BY <1>1, <1>20, <2>2, <2>3, <2>7, <5>1
          <6>2. QED
            BY <1>2, <1>7, <1>10, <6>1
        <5>3. c - d + 1 \in 1..f
          <6>1. c \in Nat /\ d \in Nat /\ f \in Nat
            BY <1>1, <1>7, <2>4
          <6>2. QED
            BY ONLY <4>1, <5>2, <6>1
        <5>4. tup[p][c - d + 1] = w[r]
          BY <1>7, <2>5, <2>7, <4>1, <5>1
        <5>5. QED
          BY <1>8, <5>3, <5>4
      <4>4. QED
        BY <4>2, <4>3
    <3>3. c < d => cells[c] = w[r]
      <4>1. SUFFICES ASSUME c < d PROVE cells[c] = w[r]
        OBVIOUS
      <4>2. r # n+1
        <5>1. SUFFICES ASSUME r = n+1 PROVE FALSE
          OBVIOUS
        <5>2. c = d + f
          BY <1>2, <1>7, <1>9, <1>10, <2>3, <5>1
        <5>3. QED
          BY <1>7, <4>1, <5>2
      <4>3. QED
        BY <1>7, <2>1, <2>5, <2>7, <4>1, <4>2
    <3>4. CASE f + 1 = LineSize
      <4>1. pos2[p] = d + LineSize /\ Stored(w, cells, d, line, cells2)
        BY <1>6, <1>7, <3>4
      <4>2. c < pos2[p]
        <5>1. PICK l : l = LineSize
          OBVIOUS
        <5>2. pos2[p] = d + l /\ c < d + l
          <6>1. f + 1 = l /\ d \in Nat /\ f \in Nat
            BY <1>1, <1>7, <3>4, <5>1
          <6>2. d + f + 1 = d + l
            BY ONLY <6>1
          <6>3. QED
            BY <3>1, <4>1, <5>1, <6>2
        <5>3. QED
          BY <5>2
      <4>3. c \in DOMAIN Allocated(HistogramOf(w))
        <5>1. Len(w) \in 0..Len(w)
          BY <1>1
        <5>2. QED
          BY <1>1, <2>4, <5>1, SharesApart
      <4>4. (c \in d .. d+LineSize-1 => cells2[c] = line[c-d+1])
            /\ (c \notin d .. d+LineSize-1 => cells2[c] = cells[c])
        BY <1>8, <4>1, <4>3 DEF Stored
      <4>5. (c < d => c \notin d .. d+LineSize-1) /\ (~ (c < d) => c \in d .. d+LineSize-1)
        <5>1. PICK l \in Nat : l = LineSize
          BY <1>1
        <5>2. c \in Nat /\ d \in Nat /\ f \in Nat
          BY <1>1, <1>7, <2>3
        <5>3. f + 1 = l
          BY <3>4, <5>1
        <5>4. c < d + l
          BY ONLY <3>1, <5>2, <5>3, l \in Nat
        <5>5. (c < d => c \notin d .. d+l-1) /\ (~ (c < d) => c \in d .. d+l-1)
          BY ONLY <5>2, <5>4, l \in Nat
        <5>6. QED
          BY <5>1, <5>5
      <4>6. cells2[c] = w[r]
        BY <3>2, <3>3, <4>4, <4>5
      <4>7. QED
        BY <2>2, <2>3, <2>7, <4>2, <4>6
    <3>5. CASE f + 1 # LineSize
      <4>1. pos2[p] = d /\ cells2 = cells
        BY <1>6, <1>7, <3>5
      <4>2. QED
        BY <1>7, <2>2, <2>3, <2>7, <3>2, <3>3, <4>1
    <3>6. QED
      BY <3>4, <3>5
  <2>8. QED
    BY <2>6, <2>7
<1>13. after \in States(w)
  BY DEF PutDone
<1>14. QED
  BY <1>3, <1>11, <1>12, <1>13 DEF Buffered

(* A whole line stays in the window it begins in. *)
LEMMA LineFits ==
  ASSUME NEW w, NEW p, NEW d, w \in Seq(Nat), p \in Partitions, d \in Nat,
         \E i \in Nat : d = LineSize * i,
         Frontier(w, 0, p) <= d, d <= Frontier(w, Len(w), p)
  PROVE  \A q \in Partitions \ {p} : \A c \in Share(w, 0, Len(w), q) : c \notin d .. d+LineSize-1
<1>1. LineSize \in Nat \ {0} /\ Len(w) \in Nat /\ 0 \in 0..Len(w) /\ Len(w) \in 0..Len(w)
  BY LineAssumption
<1>2. PICK h, off : h = HistogramOf(w) /\ off = OffsetsOf(h)
  OBVIOUS
<1>3. h \in [Partitions -> Nat]
  BY <1>2, HistogramCounts
<1>4. /\ off \in [Partitions -> Nat]
      /\ \A q \in Partitions : \E i \in Nat : off[q] = LineSize * i
      /\ \A a, b \in Partitions : a < b => off[a] + WindowSize(h[a]) <= off[b]
  BY <1>2, <1>3, WindowsApart
<1>5. \A q \in Partitions : /\ WindowSize(h[q]) \in Nat /\ h[q] < WindowSize(h[q])
                            /\ \E i \in Nat : WindowSize(h[q]) = LineSize * i
                            /\ h[q] \in Nat /\ off[q] \in Nat
  BY <1>3, <1>4, WindowHolds
<1>6. \A q \in Partitions : Frontier(w, 0, q) = off[q] /\ Frontier(w, Len(w), q) = off[q] + h[q]
  BY <1>2, FrontierEnds
<1>7. off[p] <= d /\ d + LineSize <= off[p] + WindowSize(h[p])
  <2>1. PICK x, y, z : x = off[p] /\ y = h[p] /\ z = WindowSize(h[p])
    OBVIOUS
  <2>2. x \in Nat /\ y \in Nat /\ z \in Nat /\ y < z /\ d <= x + y /\ x <= d
    BY <1>5, <1>6, <2>1
  <2>3. PICK i \in Nat, j \in Nat, k \in Nat :
          x = LineSize * i /\ z = LineSize * j /\ d = LineSize * k
    BY <1>4, <1>5, <2>1
  <2>4. i + j \in Nat /\ LineSize * (i + j) = x + z
    BY <1>1, <2>3
  <2>5. d < x + z
    BY ONLY <2>2, d \in Nat
  <2>6. LineSize * k < LineSize * (i + j)
    BY <2>3, <2>4, <2>5
  <2>7. LineSize * k + LineSize <= LineSize * (i + j)
    BY <1>1, <2>4, <2>6, MultiplesApart
  <2>8. d + LineSize <= x + z
    BY <2>3, <2>4, <2>7
  <2>9. QED
    BY <2>1, <2>2, <2>8
<1>8. ASSUME NEW q \in Partitions \ {p}, NEW c \in Share(w, 0, Len(w), q)
      PROVE  c \notin d .. d+LineSize-1
  <2>1. PICK x, y, z, x2, y2, z2, l :
          /\ x = off[p] /\ y = h[p] /\ z = WindowSize(h[p])
          /\ x2 = off[q] /\ y2 = h[q] /\ z2 = WindowSize(h[q]) /\ l = LineSize
    OBVIOUS
  <2>2. /\ x \in Nat /\ y \in Nat /\ z \in Nat /\ x2 \in Nat /\ y2 \in Nat /\ z2 \in Nat
        /\ y2 < z2 /\ l \in Nat
    BY <1>1, <1>5, <2>1
  <2>3. c \in x2 .. x2+y2-1
    <3>1. Frontier(w, 0, q) = x2 /\ Frontier(w, Len(w), q) = x2 + y2
      BY <1>6, <2>1
    <3>2. PICK z3 : z3 = Frontier(w, Len(w), q)
      OBVIOUS
    <3>3. c \in x2 .. z3-1 /\ z3 = x2 + y2
      BY <1>8, <3>1, <3>2 DEF Share
    <3>4. QED
      BY ONLY <2>2, <3>3
  <2>4. x <= d /\ d + l <= x + z
    BY <1>7, <2>1
  <2>5. p < q \/ q < p
    <3>1. p \in Nat /\ q \in Nat
      BY PartitionCount DEF Partitions
    <3>2. QED
      BY <3>1
  <2>6. x + z <= x2 \/ x2 + z2 <= x
    BY <1>4, <2>1, <2>5
  <2>7. c \notin d .. d+l-1
    BY ONLY <2>2, <2>3, <2>4, <2>6, d \in Nat
  <2>8. QED
    BY <2>1, <2>7
<1>9. QED
  BY <1>8

(* After the last stores of the partitions below j: the keys of these are  *)
(* all in their cells.  The last stores change the cells only.             *)
Emptied(w, j, s, t) ==
  /\ t \in States(w)
  /\ t.tuples = s.tuples /\ t.fill = s.fill /\ t.pos = s.pos
  /\ \A r \in 1..Len(w) :
       PartitionOf(w[r]) < j \/ Cell(w, r) < s.pos[PartitionOf(w[r])] =>
         t.cells[Cell(w, r)] = w[r]

(* One partition more is emptied. *)
LEMMA FlushKeepsEmptied ==
  ASSUME NEW w, NEW j, NEW s, NEW t, NEW after,
         w \in Seq(Nat), Buffered(w, Len(w), s), j \in Partitions, Emptied(w, j, s, t),
         FlushDone(w, t, j, after)
  PROVE  Emptied(w, j+1, s, after)
<1>1. /\ LineSize \in Nat \ {0} /\ Len(w) \in Nat /\ 0 \in 0..Len(w) /\ Len(w) \in 0..Len(w)
      /\ Partitions \subseteq Nat
  BY LineAssumption, PartitionCount DEF Partitions
<1>2. PICK tup, fill, pos, cells, cells2 :
        /\ tup = s.tuples /\ fill = s.fill /\ pos = s.pos /\ cells = t.cells /\ cells2 = after.cells
  OBVIOUS
<1>3. /\ tup \in [Partitions -> Tuples(w)] /\ fill \in [Partitions -> 0 .. LineSize-1]
      /\ pos \in [Partitions -> Nat]
  BY <1>2 DEF Buffered, States
<1>4. /\ t.tuples = tup /\ t.fill = fill /\ t.pos = pos
      /\ \A r \in 1..Len(w) :
           PartitionOf(w[r]) < j \/ Cell(w, r) < pos[PartitionOf(w[r])] => cells[Cell(w, r)] = w[r]
  BY <1>2 DEF Emptied
<1>5. /\ after \in States(w) /\ after.tuples = tup /\ after.fill = fill /\ after.pos = pos
      /\ fill[j] = 0 => cells2 = cells
      /\ fill[j] # 0 => Stored(w, cells, pos[j], tup[j], cells2)
  BY <1>2, <1>4 DEF FlushDone
<1>6. PICK f, d, line : /\ f = fill[j] /\ d = pos[j] /\ line = tup[j]
                        /\ f \in 0 .. LineSize-1 /\ d \in Nat /\ Len(line) = LineSize
  <2>1. fill[j] \in 0 .. LineSize-1 /\ pos[j] \in Nat /\ tup[j] \in Tuples(w)
    BY <1>3
  <2>2. Len(tup[j]) = LineSize
    BY <2>1, TuplesAreKeys
  <2>3. QED
    BY <2>1, <2>2
<1>7. /\ d + f = Frontier(w, Len(w), j) /\ Frontier(w, 0, j) <= d
      /\ \E i \in Nat : d = LineSize * i
  BY <1>2, <1>6 DEF Buffered
<1>8. d <= Frontier(w, Len(w), j)
  <2>1. d <= d + f
    BY <1>1, <1>6
  <2>2. QED
    BY <1>7, <2>1
<1>9. \A q \in Partitions \ {j} : \A c \in Share(w, 0, Len(w), q) : c \notin d .. d+LineSize-1
  BY <1>6, <1>7, <1>8, LineFits
<1>10. ASSUME NEW r \in 1..Len(w),
              PartitionOf(w[r]) < j+1 \/ Cell(w, r) < pos[PartitionOf(w[r])]
       PROVE  cells2[Cell(w, r)] = w[r]
  <2>1. PICK q \in Partitions : q = PartitionOf(w[r])
    BY KeyPartition
  <2>2. PICK c \in Nat : /\ c = Cell(w, r) /\ Frontier(w, 0, q) <= c
                         /\ c < Frontier(w, Len(w), q)
    <3>1. PICK m : m = 0 /\ m \in 0..Len(w)
      BY <1>1
    <3>2. Len(w) \in m..Len(w) /\ r \in m+1 .. Len(w)
      BY <1>1, <3>1
    <3>3. QED
      BY <2>1, <3>1, <3>2, CellsPassed
  <2>3. c \in Share(w, 0, Len(w), q)
    <3>1. Frontier(w, 0, q) \in Nat /\ Frontier(w, Len(w), q) \in Nat
      BY <1>1, FrontierMoves
    <3>2. QED
      BY <2>2, <3>1 DEF Share
  <2>4. c \in DOMAIN Allocated(HistogramOf(w))
    BY <1>1, <2>3, SharesApart
  <2>5. fill[j] # 0 => /\ c \in d .. d+LineSize-1 => cells2[c] = line[c-d+1]
                       /\ c \notin d .. d+LineSize-1 => cells2[c] = cells[c]
    BY <1>5, <1>6, <2>4 DEF Stored
  <2>6. CASE q # j
    <3>1. q < j \/ c < pos[q]
      BY <1>1, <1>10, <2>1, <2>2, <2>6
    <3>2. cells[c] = w[r]
      BY <1>4, <2>1, <2>2, <3>1
    <3>3. cells2[c] = cells[c]
      BY <1>5, <1>9, <2>3, <2>5, <2>6
    <3>4. QED
      BY <2>2, <3>2, <3>3
  <2>7. CASE q = j
    <3>1. c < d => cells2[c] = w[r]
      <4>1. SUFFICES ASSUME c < d PROVE cells2[c] = w[r]
        OBVIOUS
      <4>2. cells[c] = w[r]
        BY <1>4, <1>6, <2>1, <2>2, <2>7, <4>1
      <4>3. c \notin d .. d+LineSize-1
        BY <1>6, <4>1
      <4>4. QED
        BY <1>5, <2>5, <4>2, <4>3
    <3>2. ~ (c < d) => cells2[c] = w[r]
      <4>1. SUFFICES ASSUME ~ (c < d) PROVE cells2[c] = w[r]
        OBVIOUS
      <4>2. c < d + f
        BY <1>7, <2>2, <2>7
      <4>3. f # 0 /\ c \in d .. d+LineSize-1
        <5>1. PICK l \in Nat : l = LineSize
          BY <1>1
        <5>2. f \in 0 .. l-1
          BY <1>6, <5>1
        <5>3. f # 0 /\ c \in d .. d+l-1
          BY ONLY <4>1, <4>2, <5>2, c \in Nat, <1>6, l \in Nat
        <5>4. QED
          BY <5>1, <5>3
      <4>4. cells2[c] = line[c-d+1]
        BY <1>6, <2>5, <4>3
      <4>5. line[c-d+1] = w[r]
        <5>1. ~ (Cell(w, r) < s.pos[PartitionOf(w[r])])
          BY <1>2, <1>6, <2>1, <2>2, <2>7, <4>1
        <5>2. s.tuples[PartitionOf(w[r])][Cell(w, r) - s.pos[PartitionOf(w[r])] + 1] = w[r]
          BY <5>1 DEF Buffered
        <5>3. QED
          BY <1>2, <1>6, <2>1, <2>2, <2>7, <5>2
      <4>6. QED
        BY <4>4, <4>5
    <3>3. QED
      BY <2>2, <3>1, <3>2
  <2>8. QED
    BY <2>6, <2>7
<1>11. QED
  BY <1>2, <1>5, <1>10 DEF Emptied

(* The loop over the keys, as a sequence of states. *)
KeysPut(w, g, fresh) ==
  /\ g \in [0..Len(w) -> States(w)]
  /\ g[0] = fresh
  /\ \A n \in 1..Len(w) : g[n] = Put(g[n-1], w[n])

(* The loop of the model is such a sequence. *)
LEMMA PutRuns ==
  ASSUME NEW w, NEW fresh, NEW f, w \in Seq(Nat), fresh \in States(w),
         f = CHOOSE g : g = [n \in 0 .. Len(w) |-> IF n = 0 THEN fresh ELSE Put(g[n-1], w[n])]
  PROVE  KeysPut(w, f, fresh)
<1>1. /\ Len(w) \in Nat /\ 0 \in 0..Len(w)
      /\ \A n \in 1..Len(w) : n \in Nat /\ n \in 0..Len(w) /\ n # 0 /\ n-1 \in 0..Len(w)
  OBVIOUS
<1> DEFINE Steps(g) == g = [n \in 0 .. Len(w) |-> IF n = 0 THEN fresh ELSE Put(g[n-1], w[n])]
<1>2. \A n \in 1..Len(w) : \A x \in States(w) : Put(x, w[n]) \in States(w)
  <2>1. SUFFICES ASSUME NEW n \in 1..Len(w), NEW x \in States(w)
                 PROVE  Put(x, w[n]) \in States(w)
    OBVIOUS
  <2>2. PICK key : key = w[n] /\ key \in Nat /\ key \in ToSet(w)
    <3>1. DOMAIN w = 1..Len(w)
      OBVIOUS
    <3>2. QED
      BY <3>1, KeyPartition DEF ToSet
  <2>3. PutDone(w, x, PartitionOf(key), key, Put(x, key))
    BY <2>2, PutPuts
  <2>4. QED
    BY <2>2, <2>3 DEF PutDone
<1>3. PICK S, a : S = States(w) /\ a = fresh
  OBVIOUS
<1>4. PICK F : F = [i \in Nat |-> [x \in S |-> IF i \in 1..Len(w) THEN Put(x, w[i]) ELSE x]]
  OBVIOUS
<1>5. a \in S /\ F \in [Nat -> [S -> S]]
  <2>1. \A i \in Nat, x \in S : (IF i \in 1..Len(w) THEN Put(x, w[i]) ELSE x) \in S
    BY <1>2, <1>3
  <2>2. QED
    BY <1>3, <1>4, <2>1
<1>6. PICK g \in [0..Len(w) -> S] : g[0] = a /\ \A i \in 1..Len(w) : g[i] = F[i][g[i-1]]
  <2>1. \A n \in Nat : \E g \in [0..n -> S] : g[0] = a /\ \A i \in 1..n : g[i] = F[i][g[i-1]]
    BY ONLY <1>5, Loop
  <2>2. QED
    BY <1>1, <2>1
<1>7. \A n \in 1..Len(w) : g[n] = Put(g[n-1], w[n])
  <2>1. SUFFICES ASSUME NEW n \in 1..Len(w) PROVE g[n] = Put(g[n-1], w[n])
    OBVIOUS
  <2>2. n \in Nat /\ g[n-1] \in S
    BY <1>1, <1>6
  <2>3. QED
    BY <1>4, <1>6, <2>2
<1>8. Steps(g)
  BY <1>3, <1>6, <1>7
<1>9. Steps(f)
  BY <1>8
<1>10. f[0] = fresh /\ \A n \in 1..Len(w) : f[n] = Put(f[n-1], w[n])
  <2>1. f = [n \in 0 .. Len(w) |-> IF n = 0 THEN fresh ELSE Put(f[n-1], w[n])]
    BY <1>9
  <2>2. QED
    BY ONLY <1>1, <2>1
<1>11. f = [n \in 0..Len(w) |-> f[n]]
  BY <1>9
<1> HIDE DEF Steps
<1>12. \A n \in 0..Len(w) : f[n] \in S
  <2>1. SUFFICES ASSUME NEW n \in 0..Len(w), f[n] \notin S PROVE FALSE
    OBVIOUS
  <2>2. PICK T : T = {i \in 0..Len(w) : f[i] \notin S}
    OBVIOUS
  <2>3. T \subseteq Nat /\ T # {}
    <3>1. n \in T
      BY <2>1, <2>2
    <3>2. T \subseteq 0..Len(w)
      BY <2>2
    <3>3. QED
      BY <1>1, <3>1, <3>2
  <2>4. PICK k \in T : \A i \in T : k <= i
    BY <2>3, LeastNat
  <2>5. k \in 0..Len(w) /\ f[k] \notin S
    BY <2>2, <2>4
  <2>6. k # 0
    BY <1>3, <1>5, <1>10, <2>5
  <2>7. k \in 1..Len(w) /\ k-1 \in 0..Len(w) /\ ~ (k <= k-1)
    BY <1>1, <2>5, <2>6
  <2>8. f[k-1] \in States(w)
    BY <1>3, <2>2, <2>4, <2>7
  <2>9. QED
    BY <1>2, <1>3, <1>10, <2>5, <2>7, <2>8
<1>13. f \in [0..Len(w) -> States(w)]
  BY <1>3, <1>11, <1>12
<1>14. QED
  BY <1>10, <1>13 DEF KeysPut

(* The loop over the buffers. *)
BuffersFlushed(w, g, full) ==
  /\ g \in [0..NPartitions -> States(w)]
  /\ g[0] = full
  /\ \A p \in 1..NPartitions : g[p] = Flush(g[p-1], p-1)

(* The loop of the model is such a sequence. *)
LEMMA FlushRuns ==
  ASSUME NEW w, NEW full, NEW f, w \in Seq(Nat), full \in States(w),
         f = CHOOSE g : g = [p \in 0..NPartitions |-> IF p = 0 THEN full ELSE Flush(g[p-1], p-1)]
  PROVE  BuffersFlushed(w, f, full)
<1>1. /\ NPartitions \in Nat /\ 0 \in 0..NPartitions
      /\ \A p \in 1..NPartitions : /\ p \in Nat /\ p \in 0..NPartitions /\ p # 0
                                   /\ p-1 \in 0..NPartitions /\ p-1 \in Partitions
  BY PartitionCount DEF Partitions
<1> DEFINE Steps(g) == g = [p \in 0..NPartitions |-> IF p = 0 THEN full ELSE Flush(g[p-1], p-1)]
<1>2. \A p \in 1..NPartitions : \A x \in States(w) : Flush(x, p-1) \in States(w)
  <2>1. SUFFICES ASSUME NEW p \in 1..NPartitions, NEW x \in States(w)
                 PROVE  Flush(x, p-1) \in States(w)
    OBVIOUS
  <2>2. PICK q \in Partitions : q = p-1
    BY <1>1
  <2>3. FlushDone(w, x, q, Flush(x, q))
    BY FlushFlushes
  <2>4. QED
    BY <2>2, <2>3 DEF FlushDone
<1>3. PICK S, a : S = States(w) /\ a = full
  OBVIOUS
<1>4. PICK F : F = [i \in Nat |-> [x \in S |-> IF i \in 1..NPartitions THEN Flush(x, i-1) ELSE x]]
  OBVIOUS
<1>5. a \in S /\ F \in [Nat -> [S -> S]]
  <2>1. \A i \in Nat, x \in S : (IF i \in 1..NPartitions THEN Flush(x, i-1) ELSE x) \in S
    BY <1>2, <1>3
  <2>2. QED
    BY <1>3, <1>4, <2>1
<1>6. PICK g \in [0..NPartitions -> S] : g[0] = a /\ \A i \in 1..NPartitions : g[i] = F[i][g[i-1]]
  <2>1. \A n \in Nat : \E g \in [0..n -> S] : g[0] = a /\ \A i \in 1..n : g[i] = F[i][g[i-1]]
    BY ONLY <1>5, Loop
  <2>2. QED
    BY <1>1, <2>1
<1>7. \A p \in 1..NPartitions : g[p] = Flush(g[p-1], p-1)
  <2>1. SUFFICES ASSUME NEW p \in 1..NPartitions PROVE g[p] = Flush(g[p-1], p-1)
    OBVIOUS
  <2>2. p \in Nat /\ g[p-1] \in S
    BY <1>1, <1>6
  <2>3. QED
    BY <1>4, <1>6, <2>2
<1>8. Steps(g)
  BY <1>3, <1>6, <1>7
<1>9. Steps(f)
  BY <1>8
<1>10. f[0] = full /\ \A p \in 1..NPartitions : f[p] = Flush(f[p-1], p-1)
  <2>1. f = [p \in 0..NPartitions |-> IF p = 0 THEN full ELSE Flush(f[p-1], p-1)]
    BY <1>9
  <2>2. QED
    BY ONLY <1>1, <2>1
<1>11. f = [p \in 0..NPartitions |-> f[p]]
  BY <1>9
<1> HIDE DEF Steps
<1>12. \A p \in 0..NPartitions : f[p] \in S
  <2>1. SUFFICES ASSUME NEW p \in 0..NPartitions, f[p] \notin S PROVE FALSE
    OBVIOUS
  <2>2. PICK T : T = {i \in 0..NPartitions : f[i] \notin S}
    OBVIOUS
  <2>3. T \subseteq Nat /\ T # {}
    <3>1. p \in T
      BY <2>1, <2>2
    <3>2. T \subseteq 0..NPartitions
      BY <2>2
    <3>3. QED
      BY <1>1, <3>1, <3>2
  <2>4. PICK k \in T : \A i \in T : k <= i
    BY <2>3, LeastNat
  <2>5. k \in 0..NPartitions /\ f[k] \notin S
    BY <2>2, <2>4
  <2>6. k # 0
    BY <1>3, <1>5, <1>10, <2>5
  <2>7. k \in 1..NPartitions /\ k-1 \in 0..NPartitions /\ ~ (k <= k-1)
    BY <1>1, <2>5, <2>6
  <2>8. f[k-1] \in States(w)
    BY <1>3, <2>2, <2>4, <2>7
  <2>9. QED
    BY <1>2, <1>3, <1>10, <2>5, <2>7, <2>8
<1>13. f \in [0..NPartitions -> States(w)]
  BY <1>3, <1>11, <1>12
<1>14. QED
  BY <1>10, <1>13 DEF BuffersFlushed

(* init without a queue places every key. *)
LEMMA ScatterPlaces ==
  ASSUME NEW w, w \in Seq(Nat), NEW out,
         out = Scatter(Allocated(HistogramOf(w)), OffsetsOf(HistogramOf(w)), w)
  PROVE  out \in Cells(w) /\ Placed(w, 0, Len(w), out)
<1>1. /\ Len(w) \in Nat /\ NPartitions \in Nat \ {0}
      /\ Partitions = 0 .. NPartitions-1
      /\ \A p \in 1..NPartitions : p-1 \in Partitions /\ p-1 \in 0..NPartitions /\ (p-1)+1 = p
  BY PartitionCount DEF Partitions
<1>2. PICK cells, start, fresh : /\ cells = Allocated(HistogramOf(w))
                                 /\ start = OffsetsOf(HistogramOf(w))
                                 /\ fresh = Fresh(cells, start)
  OBVIOUS
<1>3. Buffered(w, 0, fresh)
  BY <1>2, FreshIsBuffered
<1>4. fresh \in States(w)
  BY <1>3 DEF Buffered
<1>5. PICK put : put = CHOOSE g : g = [n \in 0 .. Len(w) |->
                                         IF n = 0 THEN fresh ELSE Put(g[n-1], w[n])]
  OBVIOUS
<1>6. KeysPut(w, put, fresh)
  BY <1>4, <1>5, PutRuns
<1>7. PICK full : full = put[Len(w)]
  OBVIOUS
<1>8. \A n \in 0..Len(w) : Buffered(w, n, put[n])
  <2>1. SUFFICES ASSUME NEW n \in 0..Len(w), ~ Buffered(w, n, put[n]) PROVE FALSE
    OBVIOUS
  <2>2. PICK T : T = {i \in 0..Len(w) : ~ Buffered(w, i, put[i])}
    OBVIOUS
  <2>3. T \subseteq Nat /\ T # {}
    <3>1. n \in T
      BY <2>1, <2>2
    <3>2. T \subseteq 0..Len(w)
      BY <2>2
    <3>3. QED
      BY <1>1, <3>1, <3>2
  <2>4. PICK k \in T : \A i \in T : k <= i
    BY <2>3, LeastNat
  <2>5. k \in 0..Len(w) /\ ~ Buffered(w, k, put[k])
    BY <2>2, <2>4
  <2>6. k # 0
    BY <1>3, <1>6, <2>5 DEF KeysPut
  <2>7. k \in 1..Len(w) /\ k-1 \in 0..Len(w) /\ k-1 \in 0 .. Len(w)-1 /\ ~ (k <= k-1) /\ (k-1)+1 = k
    BY <1>1, <2>5, <2>6
  <2>8. PICK j, s, key : j = k-1 /\ s = put[j] /\ key = w[k]
    OBVIOUS
  <2>9. Buffered(w, j, s) /\ s \in States(w)
    BY <2>2, <2>4, <2>7, <2>8 DEF Buffered
  <2>10. key \in Nat /\ key \in ToSet(w)
    <3>1. DOMAIN w = 1..Len(w)
      OBVIOUS
    <3>2. QED
      BY <2>7, <2>8, <3>1, KeyPartition DEF ToSet
  <2>11. PutDone(w, s, PartitionOf(key), key, Put(s, key))
    BY <2>9, <2>10, PutPuts
  <2>12. put[k] = Put(s, key)
    BY <1>6, <2>7, <2>8 DEF KeysPut
  <2>13. key = w[j+1] /\ j \in 0 .. Len(w)-1 /\ j+1 = k
    BY <2>7, <2>8
  <2>14. Buffered(w, j+1, Put(s, key))
    BY <2>9, <2>11, <2>13, PutKeepsBuffered
  <2>15. QED
    BY <2>5, <2>12, <2>13, <2>14
<1>9. Buffered(w, Len(w), full) /\ full \in States(w)
  <2>1. Len(w) \in 0..Len(w)
    BY <1>1
  <2>2. QED
    BY <1>7, <1>8, <2>1 DEF Buffered
<1>10. PICK flushed : flushed = CHOOSE g : g = [p \in 0..NPartitions |->
                                                 IF p = 0 THEN full ELSE Flush(g[p-1], p-1)]
  OBVIOUS
<1>11. BuffersFlushed(w, flushed, full)
  BY <1>9, <1>10, FlushRuns
<1>12. \A p \in 0..NPartitions : Emptied(w, p, full, flushed[p])
  <2>1. SUFFICES ASSUME NEW p \in 0..NPartitions, ~ Emptied(w, p, full, flushed[p]) PROVE FALSE
    OBVIOUS
  <2>2. PICK T : T = {i \in 0..NPartitions : ~ Emptied(w, i, full, flushed[i])}
    OBVIOUS
  <2>3. T \subseteq Nat /\ T # {}
    <3>1. p \in T
      BY <2>1, <2>2
    <3>2. T \subseteq 0..NPartitions
      BY <2>2
    <3>3. QED
      BY <1>1, <3>1, <3>2
  <2>4. PICK k \in T : \A i \in T : k <= i
    BY <2>3, LeastNat
  <2>5. k \in 0..NPartitions /\ ~ Emptied(w, k, full, flushed[k])
    BY <2>2, <2>4
  <2>6. k # 0
    <3>1. flushed[0] = full
      BY <1>11 DEF BuffersFlushed
    <3>2. \A r \in 1..Len(w) : PartitionOf(w[r]) \in Partitions
      BY KeyPartition
    <3>3. \A q \in Partitions : ~ (q < 0)
      BY <1>1
    <3>4. \A r \in 1..Len(w) : Cell(w, r) < full.pos[PartitionOf(w[r])] =>
                                 full.cells[Cell(w, r)] = w[r]
      BY <1>9 DEF Buffered
    <3>5. Emptied(w, 0, full, flushed[0])
      BY <1>9, <3>1, <3>2, <3>3, <3>4 DEF Emptied
    <3>6. QED
      BY <2>5, <3>5
  <2>7. k \in 1..NPartitions /\ k-1 \in 0..NPartitions /\ ~ (k <= k-1)
    BY <1>1, <2>5, <2>6
  <2>8. PICK j \in Partitions : j = k-1 /\ j+1 = k
    BY <1>1, <2>7
  <2>9. PICK t : t = flushed[j]
    OBVIOUS
  <2>10. Emptied(w, j, full, t) /\ t \in States(w)
    BY <2>2, <2>4, <2>7, <2>8, <2>9 DEF Emptied
  <2>11. FlushDone(w, t, j, Flush(t, j))
    BY <2>10, FlushFlushes
  <2>12. Emptied(w, j+1, full, Flush(t, j))
    BY <1>9, <2>10, <2>11, FlushKeepsEmptied
  <2>13. flushed[k] = Flush(t, j)
    BY <1>11, <2>7, <2>8, <2>9 DEF BuffersFlushed
  <2>14. QED
    BY <2>5, <2>8, <2>12, <2>13
<1>13. Scatter(cells, start, w) = flushed[NPartitions].cells
  BY <1>2, <1>5, <1>7, <1>10 DEF Scatter
<1>14. Emptied(w, NPartitions, full, flushed[NPartitions])
  <2>1. NPartitions \in 0..NPartitions
    BY <1>1
  <2>2. QED
    BY <1>12, <2>1
<1>15. PICK last : last = flushed[NPartitions] /\ out = last.cells
  BY <1>2, <1>13
<1>16. last.cells \in Cells(w)
  BY <1>14, <1>15 DEF Emptied, States
<1>17. \A r \in 0+1 .. Len(w) : last.cells[Cell(w, r)] = w[r]
  <2>1. \A r \in 1..Len(w) : PartitionOf(w[r]) < NPartitions
    <3>1. \A q \in Partitions : q < NPartitions
      BY <1>1
    <3>2. QED
      BY <3>1, KeyPartition
  <2>2. \A r \in 1..Len(w) : last.cells[Cell(w, r)] = w[r]
    BY <1>14, <1>15, <2>1 DEF Emptied
  <2>3. 0+1 = 1
    OBVIOUS
  <2>4. QED
    BY <2>2, <2>3
<1>18. QED
  BY <1>15, <1>16, <1>17 DEF Placed

(* What the offsets task adds up. *)
LEMMA SumsAreRanks ==
  ASSUME NEW w, w \in Seq(Nat), NEW p, NEW f,
         \A i \in Slices : f[i] = Rank(w, SliceBegin(Len(w))[i+1], p) - Rank(w, SliceBegin(Len(w))[i], p)
  PROVE  \A i \in 0..NTasks : SumBelow(f, i) = Rank(w, SliceBegin(Len(w))[i], p)
<1>1. NTasks \in Nat \ {0} /\ Slices = 0 .. NTasks-1 /\ Len(w) \in Nat
  BY QueueAssumption DEF Slices
<1>2. PICK b : b = SliceBegin(Len(w))
  OBVIOUS
<1>3. /\ b \in [0..NTasks -> 0..Len(w)] /\ b[0] = 0
      /\ \A i \in Slices : b[i] <= b[i+1]
  BY <1>1, <1>2, SlicesCut
<1>4. \A i \in Slices : /\ i \in 0..NTasks /\ i+1 \in 0..NTasks
                        /\ b[i] \in Nat /\ b[i+1] \in Nat /\ b[i] <= b[i+1]
  BY <1>1, <1>3
<1>5. \A i \in Slices : /\ Rank(w, b[i], p) \in Nat /\ Rank(w, b[i+1], p) \in Nat
                        /\ Rank(w, b[i], p) <= Rank(w, b[i+1], p)
  BY <1>4, RankSteps, RankGrows
<1>6. \A i \in 0 .. NTasks-1 : f[i] \in Nat
  <2>1. \A i \in Slices : f[i] = Rank(w, b[i+1], p) - Rank(w, b[i], p)
    BY <1>2
  <2>2. QED
    BY <1>1, <1>5, <2>1
<1>7. /\ SumBelow(f, 0) = 0
      /\ \A k \in 0 .. NTasks-1 : SumBelow(f, k+1) = SumBelow(f, k) + f[k]
  BY <1>1, <1>6, SumSteps
<1>8. ASSUME NEW i \in 0..NTasks, SumBelow(f, i) # Rank(w, b[i], p) PROVE FALSE
  <2>1. PICK T : T = {k \in 0..NTasks : SumBelow(f, k) # Rank(w, b[k], p)}
    OBVIOUS
  <2>2. i \in T
    BY <1>8, <2>1
  <2>3. T \subseteq 0..NTasks
    BY <2>1
  <2>4. T \subseteq Nat /\ T # {}
    BY <1>1, <2>2, <2>3
  <2>5. PICK k \in T : \A j \in T : k <= j
    BY <2>4, LeastNat
  <2>6. k \in 0..NTasks /\ SumBelow(f, k) # Rank(w, b[k], p)
    BY <2>1, <2>5
  <2>7. k # 0
    BY <1>3, <1>7, <2>6, RankSteps
  <2>8. PICK j \in Slices : j+1 = k /\ j \in 0..NTasks /\ ~ (k <= j)
    <3>1. k-1 \in Slices /\ (k-1)+1 = k /\ k-1 \in 0..NTasks /\ ~ (k <= k-1)
      BY <1>1, <2>6, <2>7
    <3>2. QED
      BY <3>1
  <2>9. SumBelow(f, j) = Rank(w, b[j], p)
    BY <2>1, <2>5, <2>8
  <2>10. SumBelow(f, j+1) = SumBelow(f, j) + f[j]
    BY <1>1, <1>7
  <2>11. f[j] = Rank(w, b[j+1], p) - Rank(w, b[j], p)
    BY <1>2
  <2>12. SumBelow(f, j+1) = Rank(w, b[j+1], p)
    BY <1>5, <2>9, <2>10, <2>11
  <2>13. QED
    BY <2>6, <2>8, <2>12
<1>9. QED
  BY <1>2, <1>8

-----------------------------------------------------------------------------
(* The invariant. *)

HistogramTask(i) == <<"histogram", i>>
ScatterTask(i) == <<"scatter", i>>
OffsetsTask == <<"offsets", 0>>
CleanupTask == <<"cleanup", 0>>
NoTasks == [i \in {} |-> 0]

QueueInv ==
  /\ plan \in {Submitted, NoTasks}
  /\ executing \in BOOLEAN
  /\ begun \in [DOMAIN plan -> 0..1]
  /\ ended \in [DOMAIN plan -> 0..1]
  /\ \A i \in DOMAIN plan :
       /\ ended[i] = 1 => begun[i] = 1
       /\ begun[i] = 1 => \A j \in DOMAIN plan : PhaseOf(j) < PhaseOf(i) => ended[j] = 1

(* A task that has begun and not ended runs on one thread. *)
RunInv ==
  /\ running \in [Threads -> {Null} \cup Tasks]
  /\ iterator \in [Threads -> Nat]
  /\ \A t \in Threads : running[t] # Null =>
       running[t] \in DOMAIN plan /\ begun[running[t]] = 1 /\ ended[running[t]] = 0
  /\ \A i \in DOMAIN plan : begun[i] = 1 /\ ended[i] = 0 => \E t \in Threads : running[t] = i
  /\ \A t, u \in Threads : running[t] = running[u] /\ running[t] # Null => t = u

(* The arrays of the result. *)
Laid ==
  /\ histogram = HistogramOf(v)
  /\ offsets = OffsetsOf(histogram)
  /\ values \in Cells(v)

Unlaid == values = Null /\ histogram = Zeroes /\ offsets = Zeroes

(* The arrays of the tasks. *)
Freed == local_histograms = Null /\ local_offsets = Null /\ buffers = Null

ArraysTyped ==
  /\ local_histograms \in [Slices -> Array(Partitions, Nat)]
  /\ local_offsets \in [Slices -> Array(Partitions, Nat \cup {Garbage})]
  /\ buffers \in [Threads -> [Partitions -> Seq(ToSet(v))]]
  /\ \A t \in Threads, p \in Partitions : Len(buffers[t][p]) < LineSize

(* Those of a slice live from its histogram to the end of its scatter. *)
ArraysFilled ==
  \A i \in Slices : ended[HistogramTask(i)] = 1 /\ ended[ScatterTask(i)] = 0 =>
    /\ local_histograms[i] = [p \in Partitions |-> Count(Slice(i), p)]
    /\ local_offsets[i] \in [Partitions -> Nat \cup {Garbage}]

(* A thread has keys in its buffers only while it scatters. *)
BuffersEmpty ==
  \A t \in Threads : (\A i \in Slices : running[t] # ScatterTask(i)) => buffers[t] = NoKeys

(* Before init, and after everything. *)
IdleInv ==
  plan = NoTasks =>
    /\ Freed
    /\ v = Null => Unlaid
    /\ v # Null => Laid /\ Placed(v, 0, Len(v), values)

(* From init to the clean-up. *)
LocalInv ==
  plan = Submitted =>
    /\ v # Null
    /\ ended[CleanupTask] = 1 => Freed
    /\ ended[CleanupTask] = 0 => ArraysTyped /\ ArraysFilled /\ BuffersEmpty

(* How far the scatter of slice i is. *)
SliceInv(i) ==
  /\ begun[ScatterTask(i)] = 0 =>
       InFlight(v, SliceBegin(Len(v))[i], SliceBegin(Len(v))[i+1], SliceBegin(Len(v))[i],
                local_offsets[i], NoKeys, values)
  /\ \A t \in Threads : running[t] = ScatterTask(i) =>
       InFlight(v, SliceBegin(Len(v))[i], SliceBegin(Len(v))[i+1], iterator[t],
                local_offsets[i], buffers[t], values)
  /\ ended[ScatterTask(i)] = 1 =>
       Placed(v, SliceBegin(Len(v))[i], SliceBegin(Len(v))[i+1], values)

ScatterInv ==
  plan = Submitted =>
    /\ ended[OffsetsTask] = 0 => Unlaid
    /\ ended[OffsetsTask] = 1 => Laid /\ \A i \in Slices : SliceInv(i)

IInv ==
  /\ v \in {Null} \cup Inputs
  /\ QueueInv /\ RunInv /\ IdleInv /\ LocalInv /\ ScatterInv

-----------------------------------------------------------------------------
(* The queue of the tasks. *)

(* The tasks, their phases, and what tells them apart. *)
LEMMA TaskFacts ==
  /\ DOMAIN Submitted = Tasks /\ DOMAIN NoTasks = {} /\ Submitted # NoTasks
  /\ Null \notin Tasks
  /\ OffsetsTask \in Tasks /\ PhaseOf(OffsetsTask) = 1 /\ OffsetsTask[1] # "scatter"
  /\ CleanupTask \in Tasks /\ PhaseOf(CleanupTask) = 3 /\ CleanupTask[1] # "scatter"
  /\ OffsetsTask # CleanupTask
  /\ \A i \in Slices :
       /\ HistogramTask(i) \in Tasks /\ PhaseOf(HistogramTask(i)) = 0
       /\ HistogramTask(i)[1] # "scatter"
       /\ ScatterTask(i) \in Tasks /\ PhaseOf(ScatterTask(i)) = 2
       /\ ScatterTask(i)[1] = "scatter" /\ ScatterTask(i)[2] = i
       /\ OffsetsTask # HistogramTask(i) /\ OffsetsTask # ScatterTask(i)
       /\ CleanupTask # HistogramTask(i) /\ CleanupTask # ScatterTask(i)
  /\ \A i, j \in Slices :
       /\ HistogramTask(i) # ScatterTask(j)
       /\ HistogramTask(i) = HistogramTask(j) => i = j
       /\ ScatterTask(i) = ScatterTask(j) => i = j
  /\ \A x \in Tasks :
       /\ x = OffsetsTask \/ x = CleanupTask
            \/ (\E i \in Slices : x = HistogramTask(i)) \/ (\E i \in Slices : x = ScatterTask(i))
       /\ Submitted[x] = PhaseOf(x)
<1>1. /\ OffsetsTask \in Tasks /\ CleanupTask \in Tasks
      /\ \A i \in Slices : HistogramTask(i) \in Tasks /\ ScatterTask(i) \in Tasks
  BY DEF Tasks, OffsetsTask, CleanupTask, HistogramTask, ScatterTask
<1>2. /\ OffsetsTask[1] = "offsets" /\ CleanupTask[1] = "cleanup"
      /\ \A i \in Slices : /\ HistogramTask(i)[1] = "histogram"
                           /\ ScatterTask(i)[1] = "scatter" /\ ScatterTask(i)[2] = i
                           /\ HistogramTask(i)[2] = i
  BY DEF OffsetsTask, CleanupTask, HistogramTask, ScatterTask
<1>3. /\ PhaseOf(OffsetsTask) = 1 /\ PhaseOf(CleanupTask) = 3
      /\ \A i \in Slices : PhaseOf(HistogramTask(i)) = 0 /\ PhaseOf(ScatterTask(i)) = 2
  BY <1>2 DEF PhaseOf
<1>4. ASSUME NEW x \in Tasks
      PROVE  x = OffsetsTask \/ x = CleanupTask
               \/ (\E i \in Slices : x = HistogramTask(i)) \/ (\E i \in Slices : x = ScatterTask(i))
  BY DEF Tasks, OffsetsTask, CleanupTask, HistogramTask, ScatterTask
<1>5. /\ DOMAIN Submitted = Tasks
      /\ \A x \in Tasks : Submitted[x] = PhaseOf(x)
  BY DEF Submitted
<1>6. DOMAIN NoTasks = {}
  BY DEF NoTasks
<1>7. Submitted # NoTasks
  BY <1>1, <1>5, <1>6
<1>8. Null \notin Tasks
  BY NullAssumption
<1>9. QED
  BY <1>1, <1>2, <1>3, <1>4, <1>5, <1>6, <1>7, <1>8

(* What the barriers mean for the state of the tasks. *)
PhasesKept ==
  /\ \A x \in Tasks : /\ begun[x] \in 0..1 /\ ended[x] \in 0..1
                      /\ ended[x] = 1 => begun[x] = 1
  /\ begun[OffsetsTask] = 1 => \A i \in Slices : ended[HistogramTask(i)] = 1
  /\ \A i \in Slices : begun[ScatterTask(i)] = 1 =>
       ended[OffsetsTask] = 1 /\ \A j \in Slices : ended[HistogramTask(j)] = 1
  /\ begun[CleanupTask] = 1 =>
       /\ ended[OffsetsTask] = 1
       /\ \A i \in Slices : ended[HistogramTask(i)] = 1 /\ ended[ScatterTask(i)] = 1

(* The barriers are kept. *)
LEMMA BarriersKept ==
  ASSUME QueueInv, plan = Submitted
  PROVE  PhasesKept
<1>1. /\ \A x \in Tasks : /\ begun[x] \in 0..1 /\ ended[x] \in 0..1
                          /\ ended[x] = 1 => begun[x] = 1
      /\ \A x, y \in Tasks : begun[x] = 1 /\ PhaseOf(y) < PhaseOf(x) => ended[y] = 1
  BY TaskFacts DEF QueueInv
<1>2. begun[OffsetsTask] = 1 => \A i \in Slices : ended[HistogramTask(i)] = 1
  <2>1. \A i \in Slices : PhaseOf(HistogramTask(i)) < PhaseOf(OffsetsTask)
    BY TaskFacts
  <2>2. QED
    BY <1>1, <2>1, TaskFacts
<1>3. \A i \in Slices : begun[ScatterTask(i)] = 1 =>
        ended[OffsetsTask] = 1 /\ \A j \in Slices : ended[HistogramTask(j)] = 1
  <2>1. \A i \in Slices : /\ PhaseOf(OffsetsTask) < PhaseOf(ScatterTask(i))
                          /\ \A j \in Slices : PhaseOf(HistogramTask(j)) < PhaseOf(ScatterTask(i))
    BY TaskFacts
  <2>2. QED
    BY <1>1, <2>1, TaskFacts
<1>4. begun[CleanupTask] = 1 =>
        /\ ended[OffsetsTask] = 1
        /\ \A i \in Slices : ended[HistogramTask(i)] = 1 /\ ended[ScatterTask(i)] = 1
  <2>1. /\ PhaseOf(OffsetsTask) < PhaseOf(CleanupTask)
        /\ \A i \in Slices : /\ PhaseOf(HistogramTask(i)) < PhaseOf(CleanupTask)
                             /\ PhaseOf(ScatterTask(i)) < PhaseOf(CleanupTask)
    BY TaskFacts
  <2>2. QED
    BY <1>1, <2>1, TaskFacts
<1>5. QED
  BY <1>1, <1>2, <1>3, <1>4 DEF PhasesKept

(* A running task has been submitted, has begun and has not ended. *)
LEMMA RunningTask ==
  ASSUME QueueInv, RunInv, NEW t \in Threads, running[t] # Null
  PROVE  /\ plan = Submitted /\ running[t] \in Tasks
         /\ begun[running[t]] = 1 /\ ended[running[t]] = 0
         /\ PhasesKept
         /\ \A u \in Threads : running[u] = running[t] => u = t
<1>1. running[t] \in DOMAIN plan /\ begun[running[t]] = 1 /\ ended[running[t]] = 0
  BY DEF RunInv
<1>2. plan = Submitted
  BY <1>1, TaskFacts DEF QueueInv
<1>3. QED
  BY <1>1, <1>2, TaskFacts, BarriersKept DEF RunInv

(* The end of a task. *)
EndOf(t) ==
  /\ plan' = plan /\ begun' = begun /\ executing' = executing
  /\ ended[running[t]] = 0
  /\ ended' = [ended EXCEPT ![running[t]] = 1]
  /\ running' = [running EXCEPT ![t] = Null]
  /\ QueueInv' /\ RunInv'

(* It keeps the queue in order. *)
LEMMA EndKeeps ==
  ASSUME QueueInv, RunInv, NEW t \in Threads, running[t] # Null, End(t)
  PROVE  EndOf(t)
<1>1. /\ plan' = plan /\ begun' = begun /\ executing' = executing
      /\ ended[running[t]] = 0
      /\ ended' = [ended EXCEPT ![running[t]] = 1]
      /\ running' = [running EXCEPT ![t] = Null]
      /\ iterator' = [iterator EXCEPT ![t] = 0]
  BY DEF End, Queue!End
<1>2. QueueInv'
  <2>1. running[t] \in DOMAIN plan /\ begun[running[t]] = 1
    BY DEF RunInv
  <2>2. \A x \in DOMAIN plan : ended'[x] = IF x = running[t] THEN 1 ELSE ended[x]
    BY <1>1 DEF QueueInv
  <2>3. ended' \in [DOMAIN plan -> 0..1]
    <3>1. ended \in [DOMAIN plan -> 0..1]
      BY DEF QueueInv
    <3>2. ended' = [ended EXCEPT ![running[t]] = 1]
      BY <1>1
    <3>3. QED
      BY ONLY <3>1, <3>2, 1 \in 0..1
  <2>4. QED
    BY <1>1, <2>1, <2>2, <2>3 DEF QueueInv
<1>3. RunInv'
  <2>1. /\ running' \in [Threads -> {Null} \cup Tasks]
        /\ iterator' \in [Threads -> Nat]
    BY <1>1 DEF RunInv
  <2>2. \A u \in Threads : running'[u] = IF u = t THEN Null ELSE running[u]
    BY <1>1 DEF RunInv
  <2>3. \A u \in Threads : running[u] = running[t] => u = t
    BY RunningTask
  <2>4. \A x \in DOMAIN plan : ended'[x] = IF x = running[t] THEN 1 ELSE ended[x]
    BY <1>1 DEF QueueInv
  <2>5. ASSUME NEW u \in Threads, running'[u] # Null
        PROVE  running'[u] \in DOMAIN plan' /\ begun'[running'[u]] = 1 /\ ended'[running'[u]] = 0
    BY <1>1, <2>2, <2>3, <2>4, <2>5 DEF RunInv
  <2>6. ASSUME NEW x \in DOMAIN plan', begun'[x] = 1, ended'[x] = 0
        PROVE  \E u \in Threads : running'[u] = x
    <3>1. x # running[t] /\ begun[x] = 1 /\ ended[x] = 0 /\ x \in DOMAIN plan
      BY <1>1, <2>4, <2>6
    <3>2. PICK u \in Threads : running[u] = x
      BY <3>1 DEF RunInv
    <3>3. QED
      BY <2>2, <3>1, <3>2
  <2>7. \A u, w \in Threads : running'[u] = running'[w] /\ running'[u] # Null => u = w
    BY <2>2 DEF RunInv
  <2>8. QED
    BY <2>1, <2>5, <2>6, <2>7 DEF RunInv
<1>4. QED
  BY <1>1, <1>2, <1>3 DEF EndOf

(* The beginning of a task. *)
LEMMA BeginKeeps ==
  ASSUME QueueInv, RunInv, v \in {Null} \cup Inputs, v # Null,
         NEW t \in Threads, NEW x \in DOMAIN plan, Begin(t, x)
  PROVE  QueueInv' /\ RunInv'
<1>1. /\ plan' = plan /\ ended' = ended /\ executing' = executing
      /\ begun[x] = 0
      /\ begun' = [begun EXCEPT ![x] = 1]
      /\ \A y \in DOMAIN plan : plan[y] < plan[x] => ended[y] = 1
      /\ running[t] = Null
      /\ running' = [running EXCEPT ![t] = x]
  BY DEF Begin, Queue!Begin, Queue!PhaseReached
<1>2. plan = Submitted /\ x \in Tasks
  BY TaskFacts DEF QueueInv
<1>3. \A y \in Tasks : PhaseOf(y) < PhaseOf(x) => ended[y] = 1
  BY <1>1, <1>2, TaskFacts
<1>4. QueueInv'
  BY <1>1, <1>2, <1>3, TaskFacts DEF QueueInv
<1>5. iterator' \in [Threads -> Nat]
  <2>1. ASSUME x[1] = "scatter" PROVE SliceBegin(Len(v))[x[2]] \in Nat
    <3>1. PICK i \in Slices : x = ScatterTask(i)
      BY <1>2, <2>1, TaskFacts
    <3>2. x[2] = i
      BY <3>1, TaskFacts
    <3>3. v \in Seq(Nat) /\ Len(v) \in Nat
      BY InputAssumption
    <3>4. SliceBegin(Len(v)) \in [0..NTasks -> 0..Len(v)]
      BY ONLY <3>3, SlicesCut
    <3>5. i \in 0..NTasks
      BY QueueAssumption DEF Slices
    <3>6. QED
      BY <3>2, <3>3, <3>4, <3>5
  <2>2. iterator' = [iterator EXCEPT ![t] = IF x[1] = "scatter" THEN SliceBegin(Len(v))[x[2]] ELSE 0]
    BY DEF Begin
  <2>3. QED
    BY <2>1, <2>2 DEF RunInv
<1>6. RunInv'
  <2>1. \A u \in Threads : running'[u] = IF u = t THEN x ELSE running[u]
    BY <1>1 DEF RunInv
  <2>2. running' \in [Threads -> {Null} \cup Tasks]
    BY <1>1, <1>2 DEF RunInv
  <2>3. \A y \in DOMAIN plan : begun'[y] = IF y = x THEN 1 ELSE begun[y]
    BY <1>1 DEF QueueInv
  <2>4. \A u \in Threads : running[u] # x
    BY <1>1, <1>2, TaskFacts DEF RunInv
  <2>5. ended[x] = 0
    BY <1>1 DEF QueueInv
  <2>6. ASSUME NEW u \in Threads, running'[u] # Null
        PROVE  running'[u] \in DOMAIN plan' /\ begun'[running'[u]] = 1 /\ ended'[running'[u]] = 0
    BY <1>1, <2>1, <2>3, <2>5, <2>6 DEF RunInv
  <2>7. ASSUME NEW y \in DOMAIN plan', begun'[y] = 1, ended'[y] = 0
        PROVE  \E u \in Threads : running'[u] = y
    <3>1. CASE y = x
      BY <2>1, <3>1
    <3>2. CASE y # x
      <4>1. begun[y] = 1 /\ ended[y] = 0 /\ y \in DOMAIN plan
        BY <1>1, <2>3, <2>7, <3>2
      <4>2. PICK u \in Threads : running[u] = y
        BY <4>1 DEF RunInv
      <4>3. u # t
        BY <1>1, <1>2, <4>1, <4>2, TaskFacts
      <4>4. QED
        BY <2>1, <4>2, <4>3
    <3>3. QED
      BY <3>1, <3>2
  <2>8. \A u, w \in Threads : running'[u] = running'[w] /\ running'[u] # Null => u = w
    BY <2>1, <2>4 DEF RunInv
  <2>9. QED
    BY <1>5, <2>2, <2>6, <2>7, <2>8 DEF RunInv
<1>7. QED
  BY <1>4, <1>6

-----------------------------------------------------------------------------
(* The slices of the input. *)

(* Inputs and the beginnings of their slices. *)
LEMMA SliceFacts ==
  ASSUME NEW w, w \in Inputs, NEW b, b = SliceBegin(Len(w))
  PROVE  /\ w \in Seq(Nat) /\ Len(w) \in Nat /\ w # Null
         /\ ToSet(w) \subseteq Nat
         /\ Null \notin Cells(w)
         /\ b[0] = 0 /\ b[NTasks] = Len(w)
         /\ \A i \in Slices : /\ i \in 0..NTasks /\ i+1 \in 0..NTasks
                              /\ b[i] \in Nat /\ b[i] \in 0..Len(w)
                              /\ b[i+1] \in Nat /\ b[i+1] \in b[i]..Len(w)
         /\ \A i, j \in Slices : i < j => b[i+1] <= b[j]
<1>1. w \in Seq(Nat) /\ Len(w) \in Nat
  BY InputAssumption
<1>2. /\ b \in [0..NTasks -> 0..Len(w)] /\ b[0] = 0 /\ b[NTasks] = Len(w)
      /\ \A i \in Slices : b[i] <= b[i+1]
      /\ \A i, j \in 0..NTasks : i <= j => b[i] <= b[j]
  BY <1>1, SlicesCut
<1>3. \A i \in Slices : i \in Nat /\ i \in 0..NTasks /\ i+1 \in 0..NTasks
  BY QueueAssumption DEF Slices
<1>4. w # Null
  BY NullAssumption
<1>5. ToSet(w) \subseteq Nat
  BY <1>1 DEF ToSet
<1>6. Null \notin Cells(w)
  <2>1. Null \notin [DOMAIN Allocated(HistogramOf(w)) -> Nat \cup {Garbage}]
    BY NullAssumption
  <2>2. Cells(w) \subseteq [DOMAIN Allocated(HistogramOf(w)) -> Nat \cup {Garbage}]
    BY <1>5 DEF Cells
  <2>3. QED
    BY <2>1, <2>2
<1>7. \A i \in Slices : /\ b[i] \in Nat /\ b[i] \in 0..Len(w)
                        /\ b[i+1] \in Nat /\ b[i+1] \in b[i]..Len(w)
  BY <1>1, <1>2, <1>3
<1>8. \A i, j \in Slices : i < j => b[i+1] <= b[j]
  <2>1. \A i, j \in Slices : i < j => i+1 <= j
    BY <1>3
  <2>2. QED
    BY <1>2, <1>3, <2>1
<1>9. QED
  BY <1>1, <1>2, <1>3, <1>4, <1>5, <1>6, <1>7, <1>8

(* The shares of two slices are disjoint. *)
LEMMA SlicesApart ==
  ASSUME NEW w, w \in Inputs, NEW b, b = SliceBegin(Len(w)),
         NEW i \in Slices, NEW j \in Slices, i # j,
         NEW p \in Partitions, NEW q \in Partitions
  PROVE  Share(w, b[j], b[j+1], q) \cap Share(w, b[i], b[i+1], p) = {}
<1>1. /\ w \in Seq(Nat) /\ Len(w) \in Nat
      /\ b[i] \in Nat /\ b[i+1] \in Nat /\ b[j] \in Nat /\ b[j+1] \in Nat
      /\ b[i] \in 0..Len(w) /\ b[i+1] \in b[i]..Len(w)
      /\ b[j] \in 0..Len(w) /\ b[j+1] \in b[j]..Len(w)
      /\ i < j => b[i+1] <= b[j]
      /\ j < i => b[j+1] <= b[i]
  BY SliceFacts
<1>2. i < j \/ j < i
  BY QueueAssumption DEF Slices
<1>3. CASE i < j
  <2>1. b[j] \in b[i+1]..Len(w)
    BY <1>1, <1>3
  <2>2. Share(w, b[i], b[i+1], p) \cap Share(w, b[j], b[j+1], q) = {}
    BY <1>1, <2>1, SharesApart
  <2>3. QED
    BY <2>2
<1>4. CASE j < i
  <2>1. b[i] \in b[j+1]..Len(w)
    BY <1>1, <1>4
  <2>2. QED
    BY <1>1, <2>1, SharesApart
<1>5. QED
  BY <1>2, <1>3, <1>4

(* The cells outside the slice m+1..n keep what they hold. *)
Untouched(w, m, n, cells, after) ==
  \A c \in DOMAIN Allocated(HistogramOf(w)) :
    (\A p \in Partitions : c \notin Share(w, m, n, p)) => after[c] = cells[c]

(* What one slice writes does not disturb another. *)
LEMMA OtherSlice ==
  ASSUME NEW w, w \in Inputs, NEW b, b = SliceBegin(Len(w)),
         NEW i \in Slices, NEW j \in Slices, i # j, NEW cells, NEW after,
         Untouched(w, b[i], b[i+1], cells, after)
  PROVE  /\ Placed(w, b[j], b[j+1], cells) => Placed(w, b[j], b[j+1], after)
         /\ \A k, dst, full :
              InFlight(w, b[j], b[j+1], k, dst, full, cells) =>
                InFlight(w, b[j], b[j+1], k, dst, full, after)
<1>1. w \in Seq(Nat) /\ b[j] \in 0..Len(w) /\ b[j+1] \in b[j]..Len(w)
  BY SliceFacts
<1>2. ASSUME NEW q \in Partitions, NEW c \in Share(w, b[j], b[j+1], q)
      PROVE  after[c] = cells[c]
  <2>1. c \in DOMAIN Allocated(HistogramOf(w))
    BY <1>1, <1>2, SharesApart
  <2>2. \A p \in Partitions : c \notin Share(w, b[i], b[i+1], p)
    BY <1>2, SlicesApart
  <2>3. QED
    BY <2>1, <2>2 DEF Untouched
<1>3. QED
  BY <1>1, <1>2, InFlightFrame

(* Nor does a step of the thread that scatters one slice. *)
LEMMA OthersKept ==
  ASSUME v \in Inputs, v' = v, begun' = begun,
         NEW b, b = SliceBegin(Len(v)), NEW t \in Threads, NEW i \in Slices,
         \A u \in Threads \ {t} : /\ running'[u] = running[u]
                                  /\ iterator'[u] = iterator[u] /\ buffers'[u] = buffers[u],
         \A j \in Slices \ {i} : running'[t] # ScatterTask(j),
         \A j \in Slices \ {i} : /\ local_offsets'[j] = local_offsets[j]
                                 /\ ended'[ScatterTask(j)] = ended[ScatterTask(j)],
         Untouched(v, b[i], b[i+1], values, values'),
         NEW j \in Slices, j # i, SliceInv(j)
  PROVE  SliceInv(j)'
<1>1. /\ Placed(v, b[j], b[j+1], values) => Placed(v, b[j], b[j+1], values')
      /\ \A k, dst, full :
           InFlight(v, b[j], b[j+1], k, dst, full, values) =>
             InFlight(v, b[j], b[j+1], k, dst, full, values')
  BY OtherSlice
<1>2. ASSUME begun'[ScatterTask(j)] = 0
      PROVE  InFlight(v, b[j], b[j+1], b[j], local_offsets'[j], NoKeys, values')
  <2>1. InFlight(v, b[j], b[j+1], b[j], local_offsets[j], NoKeys, values)
    BY <1>2 DEF SliceInv
  <2>2. QED
    BY <1>1, <2>1
<1>3. ASSUME NEW u \in Threads, running'[u] = ScatterTask(j)
      PROVE  InFlight(v, b[j], b[j+1], iterator'[u], local_offsets'[j], buffers'[u], values')
  <2>1. u # t
    BY <1>3
  <2>2. running[u] = ScatterTask(j) /\ iterator'[u] = iterator[u] /\ buffers'[u] = buffers[u]
    BY <1>3, <2>1
  <2>3. InFlight(v, b[j], b[j+1], iterator[u], local_offsets[j], buffers[u], values)
    BY <2>2 DEF SliceInv
  <2>4. QED
    BY <1>1, <2>2, <2>3
<1>4. ended'[ScatterTask(j)] = 1 => Placed(v, b[j], b[j+1], values')
  BY <1>1 DEF SliceInv
<1>5. QED
  BY <1>2, <1>3, <1>4 DEF SliceInv, NoKeys

-----------------------------------------------------------------------------
(* Every step keeps the invariant: the steps that are no tasks. *)

(* Empty buffers are buffers. *)
LEMMA NoKeysTyped ==
  ASSUME NEW S
  PROVE  /\ NoKeys \in [Partitions -> Seq(S)]
         /\ \A p \in Partitions : Len(NoKeys[p]) = 0 /\ Len(NoKeys[p]) < LineSize
<1>1. \A p \in Partitions : NoKeys[p] = <<>>
  BY DEF NoKeys
<1>2. <<>> \in Seq(S) /\ Len(<<>>) = 0
  OBVIOUS
<1>3. NoKeys \in [Partitions -> Seq(S)]
  BY <1>2 DEF NoKeys
<1>4. QED
  BY <1>1, <1>2, <1>3, LineAssumption

(* The invariant holds before anything happened. *)
LEMMA Initially == Init => IInv
<1> SUFFICES ASSUME Init PROVE IInv
  OBVIOUS
<1>1. /\ plan = NoTasks /\ executing = FALSE
      /\ begun = NoTasks /\ ended = NoTasks
  BY DEF Init, Queue!Init, Queue!Zero, NoTasks
<1>2. DOMAIN plan = {}
  BY <1>1, TaskFacts
<1>3. begun \in [DOMAIN plan -> 0..1] /\ ended \in [DOMAIN plan -> 0..1]
  BY <1>1, <1>2 DEF NoTasks
<1>4. QueueInv
  BY <1>1, <1>2, <1>3 DEF QueueInv
<1>5. RunInv
  BY <1>2 DEF Init, RunInv
<1>6. v = Null
  BY DEF Init
<1>7. IdleInv
  BY DEF Init, IdleInv, Freed, Unlaid
<1>8. LocalInv /\ ScatterInv
  BY <1>1, TaskFacts DEF LocalInv, ScatterInv
<1>9. QED
  BY <1>4, <1>5, <1>6, <1>7, <1>8 DEF IInv

(* Before init is called the queue is empty and no thread has a task. *)
LEMMA BeforeInit ==
  ASSUME IInv, v = Null
  PROVE  /\ plan = NoTasks /\ DOMAIN plan = {} /\ Unlaid
         /\ local_histograms = Null /\ local_offsets = Null /\ buffers = Null
         /\ \A t \in Threads : running[t] = Null
<1>1. plan = NoTasks
  BY DEF IInv, QueueInv, LocalInv
<1>2. DOMAIN plan = {}
  BY <1>1, TaskFacts
<1>3. QED
  BY <1>1, <1>2 DEF IInv, IdleInv, Freed, RunInv

(* init without a queue. *)
LEMMA InitAloneKeeps ==
  ASSUME IInv, NEW input \in Inputs, init_alone(input)
  PROVE  IInv'
<1>1. /\ v = Null /\ v' = input
      /\ histogram' = HistogramOf(input)
      /\ offsets' = OffsetsOf(HistogramOf(input))
      /\ values' = Scatter(Allocated(HistogramOf(input)), OffsetsOf(HistogramOf(input)), input)
      /\ plan' = plan /\ executing' = executing /\ begun' = begun /\ ended' = ended
      /\ running' = running /\ iterator' = iterator
      /\ local_histograms' = local_histograms /\ local_offsets' = local_offsets
      /\ buffers' = buffers
  BY DEF init_alone, queueVars, threadVars, localVars
<1>2. input \in Seq(Nat) /\ input # Null
  BY InputAssumption, NullAssumption
<1>3. values' \in Cells(input) /\ Placed(input, 0, Len(input), values')
  BY <1>1, <1>2, ScatterPlaces
<1>4. plan = NoTasks /\ local_histograms = Null /\ local_offsets = Null /\ buffers = Null
  BY <1>1, BeforeInit
<1>5. QueueInv'
  BY <1>1 DEF IInv, QueueInv
<1>6. RunInv'
  BY <1>1 DEF IInv, RunInv
<1>7. IdleInv'
  BY <1>1, <1>2, <1>3, <1>4 DEF IdleInv, Freed, Laid
<1>8. LocalInv' /\ ScatterInv'
  BY <1>1, <1>4, TaskFacts DEF LocalInv, ScatterInv
<1>9. QED
  BY <1>1, <1>5, <1>6, <1>7, <1>8 DEF IInv

(* init with a queue: the tasks are submitted. *)
LEMMA InitKeeps ==
  ASSUME IInv, NEW input \in Inputs, init(input)
  PROVE  IInv'
<1>1. /\ v = Null /\ v' = input
      /\ local_histograms' = [i \in Slices |-> Null]
      /\ local_offsets' = [i \in Slices |-> Null]
      /\ buffers' = [t \in Threads |-> NoKeys]
      /\ plan' = Submitted
      /\ begun' = [x \in Tasks |-> 0] /\ ended' = [x \in Tasks |-> 0]
      /\ executing' = executing /\ running' = running /\ iterator' = iterator
      /\ histogram' = histogram /\ offsets' = offsets /\ values' = values
  BY DEF init, Queue!Zero, threadVars, resultVars
<1>2. input # Null
  BY NullAssumption
<1>3. DOMAIN plan' = Tasks /\ plan' # NoTasks
  BY <1>1, TaskFacts
<1>4. QueueInv'
  <2>1. begun' \in [DOMAIN plan' -> 0..1] /\ ended' \in [DOMAIN plan' -> 0..1]
    BY <1>1, <1>3
  <2>2. \A x \in DOMAIN plan' : begun'[x] = 0 /\ ended'[x] = 0
    BY <1>1, <1>3
  <2>3. plan' \in {Submitted, NoTasks} /\ executing' \in BOOLEAN
    BY <1>1 DEF IInv, QueueInv
  <2>4. QED
    BY <2>1, <2>2, <2>3 DEF QueueInv
<1>5. \A t \in Threads : running'[t] = Null
  BY <1>1, BeforeInit
<1>6. RunInv'
  BY <1>1, <1>3, <1>5 DEF IInv, RunInv
<1>7. IdleInv'
  BY <1>1, <1>3 DEF IdleInv
<1>8. /\ ended'[CleanupTask] = 0 /\ ended'[OffsetsTask] = 0
      /\ \A i \in Slices : ended'[HistogramTask(i)] = 0
  BY <1>1, TaskFacts
<1>9. LocalInv'
  <2>1. local_histograms' \in [Slices -> Array(Partitions, Nat)]
    BY <1>1 DEF Array
  <2>2. local_offsets' \in [Slices -> Array(Partitions, Nat \cup {Garbage})]
    BY <1>1 DEF Array
  <2>3. buffers' \in [Threads -> [Partitions -> Seq(ToSet(v'))]]
    BY <1>1, NoKeysTyped
  <2>4. \A t \in Threads : buffers'[t] = NoKeys
    BY <1>1
  <2>5. \A t \in Threads, p \in Partitions : Len(buffers'[t][p]) < LineSize
    BY <2>4, NoKeysTyped
  <2>6. /\ v' # Null /\ ~ (ended'[CleanupTask] = 1)
        /\ \A i \in Slices : ~ (ended'[HistogramTask(i)] = 1)
    BY <1>1, <1>2, <1>8
  <2>7. QED
    BY ONLY <2>1, <2>2, <2>3, <2>4, <2>5, <2>6
    DEF LocalInv, ArraysTyped, ArraysFilled, BuffersEmpty, NoKeys
<1>10. ScatterInv'
  <2>1. Unlaid
    BY <1>1, BeforeInit
  <2>2. Unlaid'
    BY <1>1, <2>1 DEF Unlaid, Zeroes
  <2>3. QED
    BY <1>8, <2>2 DEF ScatterInv
<1>11. QED
  BY <1>1, <1>4, <1>6, <1>7, <1>9, <1>10 DEF IInv

(* Steps that leave the arrays of the tasks alone. *)
LEMMA ArraysFrame ==
  ASSUME LocalInv, v' = v, plan' = plan, ended' = ended, running' = running,
         local_histograms' = local_histograms, local_offsets' = local_offsets,
         buffers' = buffers
  PROVE  LocalInv'
<1>1. Freed => Freed'
  BY DEF Freed
<1>2. ArraysTyped => ArraysTyped'
  BY DEF ArraysTyped
<1>3. ArraysFilled => ArraysFilled'
  BY DEF ArraysFilled, Slice, Count
<1>4. BuffersEmpty => BuffersEmpty'
  BY DEF BuffersEmpty, NoKeys
<1>5. QED
  BY <1>1, <1>2, <1>3, <1>4 DEF LocalInv

(* Nothing happens. *)
LEMMA StutterKeeps ==
  ASSUME IInv, UNCHANGED vars
  PROVE  IInv'
<1>1. /\ v' = v /\ plan' = plan /\ executing' = executing /\ begun' = begun /\ ended' = ended
      /\ running' = running /\ iterator' = iterator
      /\ local_histograms' = local_histograms /\ local_offsets' = local_offsets
      /\ buffers' = buffers
      /\ histogram' = histogram /\ offsets' = offsets /\ values' = values
  BY DEF vars, queueVars, threadVars, localVars, resultVars
<1>2. QueueInv' /\ RunInv'
  BY <1>1 DEF IInv, QueueInv, RunInv
<1>3. IdleInv'
  BY <1>1 DEF IInv, IdleInv, Freed, Laid, Unlaid, Zeroes
<1>4. LocalInv'
  BY <1>1, ArraysFrame DEF IInv
<1>5. ScatterInv'
  BY <1>1 DEF IInv, ScatterInv, SliceInv, Laid, Unlaid, Zeroes, NoKeys
<1>6. QED
  BY <1>1, <1>2, <1>3, <1>4, <1>5 DEF IInv

(* The caller executes the queue. *)
LEMMA ExecuteKeeps ==
  ASSUME IInv, Execute
  PROVE  IInv'
<1>1. /\ v' = v /\ plan' = plan /\ executing' = TRUE /\ begun' = begun /\ ended' = ended
      /\ running' = running /\ iterator' = iterator
      /\ local_histograms' = local_histograms /\ local_offsets' = local_offsets
      /\ buffers' = buffers
      /\ histogram' = histogram /\ offsets' = offsets /\ values' = values
  BY DEF Execute, Queue!Execute, threadVars, localVars, resultVars
<1>2. QueueInv' /\ RunInv'
  BY <1>1 DEF IInv, QueueInv, RunInv
<1>3. IdleInv'
  BY <1>1 DEF IInv, IdleInv, Freed, Laid, Unlaid, Zeroes
<1>4. LocalInv'
  BY <1>1, ArraysFrame DEF IInv
<1>5. ScatterInv'
  BY <1>1 DEF IInv, ScatterInv, SliceInv, Laid, Unlaid, Zeroes, NoKeys
<1>6. QED
  BY <1>1, <1>2, <1>3, <1>4, <1>5 DEF IInv

(* Every key belongs to a slice. *)
LEMMA SlicesCover ==
  ASSUME NEW w, w \in Inputs, NEW b, b = SliceBegin(Len(w)), NEW k \in 1..Len(w)
  PROVE  \E i \in Slices : k \in b[i]+1 .. b[i+1]
<1>1. /\ Len(w) \in Nat /\ b[0] = 0 /\ b[NTasks] = Len(w)
      /\ \A i \in Slices : b[i] \in Nat /\ b[i+1] \in Nat
  BY SliceFacts
<1>2. PICK T : T = {j \in 0..NTasks : k <= b[j]}
  OBVIOUS
<1>3. NTasks \in T
  BY <1>1, <1>2, QueueAssumption
<1>4. T \subseteq 0..NTasks
  BY <1>2
<1>5. T \subseteq Nat /\ T # {}
  BY <1>3, <1>4, QueueAssumption
<1>6. PICK j \in T : \A i \in T : j <= i
  BY <1>5, LeastNat
<1>7. j \in 0..NTasks /\ k <= b[j]
  BY <1>2, <1>6
<1>8. j # 0
  BY <1>1, <1>7
<1>9. PICK i \in Slices : i+1 = j /\ i \in 0..NTasks /\ ~ (j <= i)
  <2>1. j-1 \in Slices /\ (j-1)+1 = j /\ j-1 \in 0..NTasks /\ ~ (j <= j-1)
    BY <1>7, <1>8, QueueAssumption DEF Slices
  <2>2. QED
    BY <2>1
<1>10. ~ (k <= b[i])
  BY <1>2, <1>6, <1>9
<1>11. k \in b[i]+1 .. b[i+1]
  BY <1>1, <1>7, <1>9, <1>10
<1>12. QED
  BY <1>11

(* When every slice is placed, the input is. *)
LEMMA SlicesPlaced ==
  ASSUME NEW w, w \in Inputs, NEW b, b = SliceBegin(Len(w)), NEW cells,
         \A i \in Slices : Placed(w, b[i], b[i+1], cells)
  PROVE  Placed(w, 0, Len(w), cells)
<1>1. Len(w) \in Nat
  BY SliceFacts
<1>2. ASSUME NEW k \in 1..Len(w) PROVE cells[Cell(w, k)] = w[k]
  <2>1. PICK i \in Slices : k \in b[i]+1 .. b[i+1]
    BY SlicesCover
  <2>2. QED
    BY <2>1 DEF Placed
<1>3. QED
  BY <1>1, <1>2 DEF Placed

(* execute_tasks returns: the slices are the input. *)
LEMMA ReturnKeeps ==
  ASSUME IInv, Return
  PROVE  IInv'
<1>1. /\ v' = v /\ plan' = NoTasks /\ executing' = FALSE
      /\ begun' = NoTasks /\ ended' = NoTasks
      /\ \A x \in DOMAIN plan : ended[x] = 1
      /\ running' = running /\ iterator' = iterator
      /\ local_histograms' = local_histograms /\ local_offsets' = local_offsets
      /\ buffers' = buffers
      /\ histogram' = histogram /\ offsets' = offsets /\ values' = values
  BY DEF Return, Queue!Return, Queue!Zero, NoTasks, threadVars, localVars, resultVars
<1>2. DOMAIN plan' = {}
  BY <1>1, TaskFacts
<1>3. QueueInv'
  <2>1. begun' \in [DOMAIN plan' -> 0..1] /\ ended' \in [DOMAIN plan' -> 0..1]
    BY <1>1, <1>2 DEF NoTasks
  <2>2. QED
    BY <1>1, <1>2, <2>1 DEF QueueInv
<1>4. \A t \in Threads : running[t] = Null
  BY <1>1 DEF IInv, RunInv
<1>5. RunInv'
  BY <1>1, <1>2, <1>4 DEF IInv, RunInv
<1>6. LocalInv' /\ ScatterInv'
  BY <1>1, TaskFacts DEF LocalInv, ScatterInv
<1>7. IdleInv'
  <2>1. CASE plan = NoTasks
    BY <1>1, <2>1 DEF IInv, IdleInv, Freed, Laid, Unlaid, Zeroes
  <2>2. CASE plan = Submitted
    <3>1. /\ ended[CleanupTask] = 1 /\ ended[OffsetsTask] = 1
          /\ \A i \in Slices : ended[ScatterTask(i)] = 1
      BY <1>1, <2>2, TaskFacts
    <3>2. /\ v # Null /\ v \in Inputs
          /\ local_histograms = Null /\ local_offsets = Null /\ buffers = Null
      BY <2>2, <3>1 DEF IInv, LocalInv, Freed
    <3>3. /\ Laid
          /\ \A i \in Slices :
               Placed(v, SliceBegin(Len(v))[i], SliceBegin(Len(v))[i+1], values)
      BY <2>2, <3>1 DEF IInv, ScatterInv, SliceInv
    <3>4. Placed(v, 0, Len(v), values)
      BY <3>2, <3>3, SlicesPlaced
    <3>5. QED
      BY <1>1, <3>2, <3>3, <3>4 DEF IdleInv, Freed, Laid
  <2>3. QED
    BY <2>1, <2>2 DEF IInv, QueueInv
<1>8. QED
  BY <1>1, <1>3, <1>5, <1>6, <1>7 DEF IInv

-----------------------------------------------------------------------------
(* The steps of the tasks. *)

(* A thread begins a task. *)
LEMMA BeginKeepsAll ==
  ASSUME IInv, NEW t \in Threads, NEW x \in DOMAIN plan, Begin(t, x)
  PROVE  IInv'
<1>1. /\ v' = v /\ plan' = plan /\ ended' = ended
      /\ begun[x] = 0 /\ begun' = [begun EXCEPT ![x] = 1]
      /\ running[t] = Null /\ running' = [running EXCEPT ![t] = x]
      /\ iterator' = [iterator EXCEPT ![t] = IF x[1] = "scatter"
                                             THEN SliceBegin(Len(v))[x[2]] ELSE 0]
      /\ local_histograms' = local_histograms /\ local_offsets' = local_offsets
      /\ buffers' = buffers
      /\ histogram' = histogram /\ offsets' = offsets /\ values' = values
  BY DEF Begin, Queue!Begin, localVars, resultVars
<1>2. plan = Submitted /\ x \in Tasks
  BY TaskFacts DEF IInv, QueueInv
<1>3. v # Null /\ v \in Inputs
  BY <1>2 DEF IInv, LocalInv
<1>4. QueueInv' /\ RunInv'
  BY <1>3, BeginKeeps DEF IInv
<1>5. PhasesKept
  BY <1>2, BarriersKept DEF IInv
<1>6. \A u \in Threads : running'[u] = IF u = t THEN x ELSE running[u]
  BY <1>1 DEF IInv, RunInv
<1>7. \A y \in Tasks : begun'[y] = IF y = x THEN 1 ELSE begun[y]
  BY <1>1, <1>2, TaskFacts DEF IInv, QueueInv
<1>8. \A i \in Slices : running[t] # ScatterTask(i)
  BY <1>1, TaskFacts
<1>9. IdleInv'
  BY <1>1, <1>2, TaskFacts DEF IdleInv
<1>10. LocalInv'
  <2>1. ASSUME ended[CleanupTask] = 0, NEW u \in Threads,
               \A i \in Slices : running'[u] # ScatterTask(i)
        PROVE  buffers[u] = NoKeys
    <3>1. \A i \in Slices : running[u] # ScatterTask(i)
      BY <1>6, <1>8, <2>1
    <3>2. QED
      BY <1>2, <2>1, <3>1 DEF IInv, LocalInv, BuffersEmpty
  <2>2. ended[CleanupTask] = 0 => BuffersEmpty'
    BY <1>1, <2>1 DEF BuffersEmpty, NoKeys
  <2>3. Freed => Freed'
    BY <1>1 DEF Freed
  <2>4. ArraysTyped => ArraysTyped'
    BY <1>1 DEF ArraysTyped
  <2>5. ArraysFilled => ArraysFilled'
    BY <1>1 DEF ArraysFilled, Slice, Count
  <2>6. QED
    BY <1>1, <1>2, <2>2, <2>3, <2>4, <2>5 DEF IInv, LocalInv
<1>11. ScatterInv'
  <2>1. ASSUME ended[OffsetsTask] = 1, NEW j \in Slices
        PROVE  SliceInv(j)'
    <3>1. SliceInv(j)
      BY <1>2, <2>1 DEF IInv, ScatterInv
    <3>2. begun'[ScatterTask(j)] = 0 => begun[ScatterTask(j)] = 0
      BY <1>7, TaskFacts
    <3>3. ASSUME NEW u \in Threads, running'[u] = ScatterTask(j)
          PROVE  InFlight(v, SliceBegin(Len(v))[j], SliceBegin(Len(v))[j+1], iterator'[u],
                          local_offsets[j], buffers[u], values)
      <4>1. CASE u # t
        <5>1. running[u] = ScatterTask(j) /\ iterator'[u] = iterator[u]
          BY <1>1, <1>6, <3>3, <4>1
        <5>2. QED
          BY <3>1, <5>1 DEF SliceInv
      <4>2. CASE u = t
        <5>1. x = ScatterTask(j)
          BY <1>6, <3>3, <4>2
        <5>2. begun[ScatterTask(j)] = 0 /\ ended[ScatterTask(j)] # 1
          BY <1>1, <1>5, <5>1, TaskFacts DEF PhasesKept
        <5>3. ended[CleanupTask] = 0
          BY <1>5, <5>2, TaskFacts DEF PhasesKept
        <5>4. buffers[t] = NoKeys
          BY <1>2, <1>8, <5>3 DEF IInv, LocalInv, BuffersEmpty
        <5>5. iterator'[t] = SliceBegin(Len(v))[j]
          <6>1. x[1] = "scatter" /\ x[2] = j
            BY <5>1, TaskFacts
          <6>2. iterator \in [Threads -> Nat]
            BY DEF IInv, RunInv
          <6>3. QED
            BY <1>1, <6>1, <6>2
        <5>6. InFlight(v, SliceBegin(Len(v))[j], SliceBegin(Len(v))[j+1], SliceBegin(Len(v))[j],
                       local_offsets[j], NoKeys, values)
          BY <3>1, <5>2 DEF SliceInv
        <5>7. QED
          BY <4>2, <5>4, <5>5, <5>6
      <4>3. QED
        BY <4>1, <4>2
    <3>4. QED
      BY <1>1, <3>1, <3>2, <3>3 DEF SliceInv, NoKeys
  <2>2. QED
    BY <1>1, <1>2, <2>1 DEF IInv, ScatterInv, Laid, Unlaid, Zeroes
<1>12. QED
  BY <1>1, <1>3, <1>4, <1>9, <1>10, <1>11 DEF IInv

(* The keys of a slice that belong to a partition, as ranks. *)
LEMMA SliceCount ==
  ASSUME v \in Inputs, NEW b, b = SliceBegin(Len(v)), NEW i \in Slices, NEW p
  PROVE  /\ Count(Slice(i), p) = Rank(v, b[i+1], p) - Rank(v, b[i], p)
         /\ Count(Slice(i), p) \in Nat
<1>1. b[i] \in Nat /\ b[i+1] \in Nat /\ b[i] <= b[i+1]
  BY SliceFacts
<1>2. Count(Slice(i), p) = Cardinality({k \in b[i]+1 .. b[i+1] : PartitionOf(v[k]) = p})
  BY DEF Count, Slice
<1>3. /\ Rank(v, b[i], p) \in Nat /\ Rank(v, b[i+1], p) \in Nat
      /\ Rank(v, b[i], p) <= Rank(v, b[i+1], p)
      /\ Cardinality({k \in b[i]+1 .. b[i+1] : PartitionOf(v[k]) = p})
           = Rank(v, b[i+1], p) - Rank(v, b[i], p)
  BY <1>1, RankSteps, RankGrows
<1>4. QED
  BY <1>2, <1>3

(* A histogram task. *)
LEMMA HistogramKeeps ==
  ASSUME IInv, NEW t \in Threads, NEW i \in Slices, Histogram(t, i)
  PROVE  IInv'
<1>1. /\ running[t] = HistogramTask(i) /\ running[t] # Null /\ End(t)
      /\ local_histograms' = [local_histograms EXCEPT ![i] = [p \in Partitions |-> Count(Slice(i), p)]]
      /\ local_offsets' = [local_offsets EXCEPT ![i] = [p \in Partitions |-> Garbage]]
      /\ v' = v /\ buffers' = buffers
      /\ histogram' = histogram /\ offsets' = offsets /\ values' = values
  <2>1. running[t] = HistogramTask(i)
    BY DEF Histogram, HistogramTask
  <2>2. running[t] # Null
    BY <2>1, TaskFacts
  <2>3. QED
    BY <2>1, <2>2 DEF Histogram, resultVars
<1>2. EndOf(t)
  BY <1>1, EndKeeps DEF IInv
<1>3. /\ plan = Submitted /\ plan' = plan /\ begun' = begun
      /\ begun[HistogramTask(i)] = 1 /\ ended[HistogramTask(i)] = 0 /\ PhasesKept
      /\ ended' = [ended EXCEPT ![HistogramTask(i)] = 1]
      /\ running' = [running EXCEPT ![t] = Null]
      /\ QueueInv' /\ RunInv'
  BY <1>1, <1>2, RunningTask DEF EndOf, IInv
<1>4. \A x \in Tasks : ended'[x] = IF x = HistogramTask(i) THEN 1 ELSE ended[x]
  BY <1>3, TaskFacts DEF IInv, QueueInv
<1>5. ended[OffsetsTask] = 0 /\ ended[CleanupTask] = 0
  BY <1>3, TaskFacts DEF PhasesKept
<1>6. ended'[OffsetsTask] = 0 /\ ended'[CleanupTask] = 0
  BY <1>4, <1>5, TaskFacts
<1>7. v # Null /\ v \in Inputs /\ ArraysTyped /\ ArraysFilled /\ BuffersEmpty
  BY <1>3, <1>5 DEF IInv, LocalInv
<1>8. IdleInv'
  BY <1>3, TaskFacts DEF IdleInv
<1>9. ScatterInv'
  <2>1. Unlaid
    BY <1>3, <1>5 DEF IInv, ScatterInv
  <2>2. Unlaid'
    BY <1>1, <2>1 DEF Unlaid, Zeroes
  <2>3. QED
    BY <1>6, <2>2 DEF ScatterInv
<1>10. LocalInv'
  <2>1. /\ \A p \in Partitions : Count(Slice(i), p) \in Nat
        /\ [p \in Partitions |-> Count(Slice(i), p)] \in [Partitions -> Nat]
    BY <1>7, SliceCount
  <2>2. /\ \A j \in Slices : local_histograms'[j] =
             IF j = i THEN [p \in Partitions |-> Count(Slice(i), p)] ELSE local_histograms[j]
        /\ \A j \in Slices : local_offsets'[j] =
             IF j = i THEN [p \in Partitions |-> Garbage] ELSE local_offsets[j]
    BY <1>1, <1>7 DEF ArraysTyped
  <2>3. ArraysTyped'
    <3>1. local_histograms' \in [Slices -> Array(Partitions, Nat)]
      BY <1>1, <1>7, <2>1 DEF ArraysTyped, Array
    <3>2. local_offsets' \in [Slices -> Array(Partitions, Nat \cup {Garbage})]
      <4>1. [p \in Partitions |-> Garbage] \in Array(Partitions, Nat \cup {Garbage})
        BY DEF Array
      <4>2. QED
        BY <1>1, <1>7, <4>1 DEF ArraysTyped
    <3>3. QED
      BY <1>1, <1>7, <3>1, <3>2 DEF ArraysTyped
  <2>4. ArraysFilled'
    <3>1. ASSUME NEW j \in Slices,
                 ended'[HistogramTask(j)] = 1 /\ ended'[ScatterTask(j)] = 0
          PROVE  /\ local_histograms'[j] = [p \in Partitions |-> Count(Slice(j), p)]
                 /\ local_offsets'[j] \in [Partitions -> Nat \cup {Garbage}]
      <4>1. CASE j = i
        BY <2>2, <4>1
      <4>2. CASE j # i
        <5>1. ended[HistogramTask(j)] = 1 /\ ended[ScatterTask(j)] = 0
          BY <1>4, <3>1, <4>2, TaskFacts
        <5>2. QED
          BY <1>7, <2>2, <4>2, <5>1 DEF ArraysFilled
      <4>3. QED
        BY <4>1, <4>2
    <3>2. QED
      BY <1>1, <3>1 DEF ArraysFilled, Count, Slice
  <2>5. BuffersEmpty'
    <3>1. \A u \in Threads : running'[u] = IF u = t THEN Null ELSE running[u]
      BY <1>3 DEF IInv, RunInv
    <3>2. \A j \in Slices : running[t] # ScatterTask(j)
      BY <1>1, TaskFacts
    <3>3. QED
      BY <1>1, <1>7, <3>1, <3>2 DEF BuffersEmpty, NoKeys
  <2>6. QED
    BY <1>1, <1>6, <1>7, <2>3, <2>4, <2>5 DEF LocalInv
<1>11. QED
  BY <1>1, <1>3, <1>7, <1>8, <1>9, <1>10 DEF IInv

(* The clean-up task. *)
LEMMA CleanupKeeps ==
  ASSUME IInv, NEW t \in Threads, Cleanup(t)
  PROVE  IInv'
<1>1. /\ running[t] = CleanupTask /\ running[t] # Null /\ End(t)
      /\ local_histograms' = Null /\ local_offsets' = Null /\ buffers' = Null
      /\ v' = v /\ histogram' = histogram /\ offsets' = offsets /\ values' = values
  <2>1. running[t] = CleanupTask
    BY DEF Cleanup, CleanupTask
  <2>2. running[t] # Null
    BY <2>1, TaskFacts
  <2>3. QED
    BY <2>1, <2>2 DEF Cleanup, resultVars
<1>2. EndOf(t)
  BY <1>1, EndKeeps DEF IInv
<1>3. /\ plan = Submitted /\ plan' = plan /\ begun' = begun
      /\ begun[CleanupTask] = 1 /\ PhasesKept
      /\ ended' = [ended EXCEPT ![CleanupTask] = 1]
      /\ QueueInv' /\ RunInv'
  BY <1>1, <1>2, RunningTask DEF EndOf, IInv
<1>4. \A x \in Tasks : ended'[x] = IF x = CleanupTask THEN 1 ELSE ended[x]
  BY <1>3, TaskFacts DEF IInv, QueueInv
<1>5. /\ ended[OffsetsTask] = 1
      /\ \A i \in Slices : ended[ScatterTask(i)] = 1 /\ begun[ScatterTask(i)] = 1
  BY <1>3, TaskFacts DEF PhasesKept
<1>6. /\ ended'[OffsetsTask] = 1 /\ ended'[CleanupTask] = 1
      /\ \A i \in Slices : ended'[ScatterTask(i)] = 1 /\ begun'[ScatterTask(i)] = 1
  BY <1>3, <1>4, <1>5, TaskFacts
<1>7. IdleInv'
  BY <1>3, TaskFacts DEF IdleInv
<1>8. LocalInv'
  BY <1>1, <1>3, <1>6 DEF IInv, LocalInv, Freed
<1>9. ScatterInv'
  <2>1. Laid /\ \A i \in Slices : SliceInv(i)
    BY <1>3, <1>5 DEF IInv, ScatterInv
  <2>2. Laid'
    BY <1>1, <2>1 DEF Laid
  <2>3. ASSUME NEW i \in Slices PROVE SliceInv(i)'
    <3>1. Placed(v, SliceBegin(Len(v))[i], SliceBegin(Len(v))[i+1], values)
      BY <1>5, <2>1 DEF SliceInv
    <3>2. \A u \in Threads : running'[u] # ScatterTask(i)
      <4>1. ASSUME NEW u \in Threads, running'[u] = ScatterTask(i) PROVE FALSE
        <5>1. running'[u] # Null
          BY <4>1, TaskFacts
        <5>2. ended'[running'[u]] = 0
          BY <1>3, <5>1 DEF RunInv
        <5>3. QED
          BY <1>6, <4>1, <5>2
      <4>2. QED
        BY <4>1
    <3>3. begun'[ScatterTask(i)] # 0
      BY <1>6
    <3>4. QED
      BY <1>1, <3>1, <3>2, <3>3 DEF SliceInv
  <2>4. QED
    BY <1>6, <2>2, <2>3 DEF ScatterInv
<1>10. QED
  BY <1>1, <1>3, <1>7, <1>8, <1>9 DEF IInv

(* The offsets task starts every slice where its share begins. *)
LEMMA OffsetsLay ==
  ASSUME v \in Inputs, NEW b, b = SliceBegin(Len(v)), NEW t \in Threads, Offsets(t),
         \A i \in Slices : local_histograms[i] = [p \in Partitions |-> Count(Slice(i), p)]
  PROVE  /\ histogram' = HistogramOf(v)
         /\ offsets' = OffsetsOf(HistogramOf(v))
         /\ values' = Allocated(HistogramOf(v))
         /\ DOMAIN local_offsets' = Slices
         /\ \A i \in Slices : /\ local_offsets'[i] \in [Partitions -> Nat]
                              /\ \A p \in Partitions :
                                   local_offsets'[i][p] = Frontier(v, b[i], p)
<1>1. /\ v \in Seq(Nat) /\ Len(v) \in Nat /\ b[NTasks] = Len(v)
      /\ \A i \in Slices : i \in 0..NTasks /\ b[i] \in 0..Len(v)
  BY SliceFacts
<1>2. NTasks \in 0..NTasks
  BY QueueAssumption
<1>3. /\ histogram' = [p \in Partitions |->
                         SumBelow([j \in Slices |-> local_histograms[j][p]], NTasks)]
      /\ offsets' = OffsetsOf(histogram')
      /\ local_offsets' = [i \in Slices |->
           [p \in Partitions |->
              offsets'[p] + SumBelow([j \in Slices |-> local_histograms[j][p]], i)]]
      /\ values' = Allocated(histogram')
  BY DEF Offsets
<1>4. ASSUME NEW p \in Partitions, NEW i \in 0..NTasks
      PROVE  SumBelow([j \in Slices |-> local_histograms[j][p]], i) = Rank(v, b[i], p)
  <2>1. PICK f : f = [j \in Slices |-> local_histograms[j][p]]
    OBVIOUS
  <2>2. \A j \in Slices : f[j] = Rank(v, b[j+1], p) - Rank(v, b[j], p)
    <3>1. \A j \in Slices : f[j] = Count(Slice(j), p)
      BY <2>1
    <3>2. \A j \in Slices : Count(Slice(j), p) = Rank(v, b[j+1], p) - Rank(v, b[j], p)
      BY SliceCount
    <3>3. QED
      BY <3>1, <3>2
  <2>3. \A j \in 0..NTasks : SumBelow(f, j) = Rank(v, b[j], p)
    <3>1. \A j \in Slices : f[j] = Rank(v, SliceBegin(Len(v))[j+1], p)
                                   - Rank(v, SliceBegin(Len(v))[j], p)
      BY <2>2
    <3>2. \A j \in 0..NTasks : SumBelow(f, j) = Rank(v, SliceBegin(Len(v))[j], p)
      BY ONLY <1>1, <3>1, SumsAreRanks
    <3>3. QED
      BY <3>2
  <2>4. QED
    BY <2>1, <2>3
<1>5. histogram' = HistogramOf(v)
  <2>1. /\ HistogramOf(v) \in [Partitions -> Nat]
        /\ \A p \in Partitions : HistogramOf(v)[p] = Rank(v, Len(v), p)
    BY <1>1, HistogramCounts
  <2>2. \A p \in Partitions : histogram'[p] = Rank(v, Len(v), p)
    BY <1>1, <1>2, <1>3, <1>4
  <2>3. histogram' = [p \in Partitions |-> Rank(v, Len(v), p)]
    BY <1>3, <2>2
  <2>4. HistogramOf(v) = [p \in Partitions |-> Rank(v, Len(v), p)]
    BY <2>1
  <2>5. QED
    BY <2>3, <2>4
<1>6. offsets' = OffsetsOf(HistogramOf(v)) /\ values' = Allocated(HistogramOf(v))
  BY <1>3, <1>5
<1>7. ASSUME NEW i \in Slices
      PROVE  /\ local_offsets'[i] \in [Partitions -> Nat]
             /\ \A p \in Partitions : local_offsets'[i][p] = Frontier(v, b[i], p)
  <2>1. local_offsets'[i] =
          [p \in Partitions |->
             offsets'[p] + SumBelow([j \in Slices |-> local_histograms[j][p]], i)]
    BY <1>3
  <2>2. \A p \in Partitions : local_offsets'[i][p] = offsets'[p] + Rank(v, b[i], p)
    BY <1>1, <1>4, <2>1
  <2>3. \A p \in Partitions : local_offsets'[i][p] = Frontier(v, b[i], p)
    BY <1>6, <2>2 DEF Frontier
  <2>4. \A p \in Partitions : Frontier(v, b[i], p) \in Nat
    BY <1>1, FrontierMoves
  <2>5. local_offsets'[i] = [p \in Partitions |-> local_offsets'[i][p]]
    BY <2>1
  <2>6. QED
    BY <2>3, <2>4, <2>5
<1>8. DOMAIN local_offsets' = Slices
  BY <1>3
<1>9. QED
  BY <1>5, <1>6, <1>7, <1>8

(* The offsets task. *)
LEMMA OffsetsKeeps ==
  ASSUME IInv, NEW t \in Threads, Offsets(t)
  PROVE  IInv'
<1>1. /\ running[t] = OffsetsTask /\ running[t] # Null /\ End(t)
      /\ v' = v /\ local_histograms' = local_histograms /\ buffers' = buffers
  <2>1. running[t] = OffsetsTask
    BY DEF Offsets, OffsetsTask
  <2>2. running[t] # Null
    BY <2>1, TaskFacts
  <2>3. QED
    BY <2>1, <2>2 DEF Offsets
<1>2. EndOf(t)
  BY <1>1, EndKeeps DEF IInv
<1>3. /\ plan = Submitted /\ plan' = plan /\ begun' = begun
      /\ begun[OffsetsTask] = 1 /\ ended[OffsetsTask] = 0 /\ PhasesKept
      /\ ended' = [ended EXCEPT ![OffsetsTask] = 1]
      /\ running' = [running EXCEPT ![t] = Null]
      /\ QueueInv' /\ RunInv'
  BY <1>1, <1>2, RunningTask DEF EndOf, IInv
<1>4. \A x \in Tasks : ended'[x] = IF x = OffsetsTask THEN 1 ELSE ended[x]
  BY <1>3, TaskFacts DEF IInv, QueueInv
<1>5. /\ ended[CleanupTask] = 0
      /\ \A i \in Slices : /\ ended[HistogramTask(i)] = 1
                           /\ begun[ScatterTask(i)] = 0 /\ ended[ScatterTask(i)] = 0
  BY <1>3, TaskFacts DEF PhasesKept
<1>6. /\ ended'[OffsetsTask] = 1 /\ ended'[CleanupTask] = 0
      /\ \A i \in Slices : begun'[ScatterTask(i)] = 0 /\ ended'[ScatterTask(i)] = 0
  BY <1>3, <1>4, <1>5, TaskFacts
<1>7. v # Null /\ v \in Inputs /\ ArraysTyped /\ ArraysFilled /\ BuffersEmpty
  BY <1>3, <1>5 DEF IInv, LocalInv
<1>8. \A i \in Slices : local_histograms[i] = [p \in Partitions |-> Count(Slice(i), p)]
  BY <1>5, <1>7 DEF ArraysFilled
<1>9. PICK b : b = SliceBegin(Len(v))
  OBVIOUS
<1>10. /\ histogram' = HistogramOf(v)
       /\ offsets' = OffsetsOf(HistogramOf(v))
       /\ values' = Allocated(HistogramOf(v))
       /\ DOMAIN local_offsets' = Slices
       /\ \A i \in Slices : /\ local_offsets'[i] \in [Partitions -> Nat]
                            /\ \A p \in Partitions :
                                 local_offsets'[i][p] = Frontier(v, b[i], p)
  BY <1>7, <1>8, <1>9, OffsetsLay
<1>11. IdleInv'
  BY <1>3, TaskFacts DEF IdleInv
<1>12. LocalInv'
  <2>1. ArraysTyped'
    <3>1. \A i \in Slices : local_offsets'[i] \in Array(Partitions, Nat \cup {Garbage})
      BY <1>10 DEF Array
    <3>2. local_offsets' = [i \in Slices |-> local_offsets'[i]]
      BY DEF Offsets
    <3>3. local_offsets' \in [Slices -> Array(Partitions, Nat \cup {Garbage})]
      BY <3>1, <3>2
    <3>4. QED
      BY <1>1, <1>7, <3>3 DEF ArraysTyped
  <2>2. ArraysFilled'
    <3>1. \A i \in Slices : local_offsets'[i] \in [Partitions -> Nat \cup {Garbage}]
      BY <1>10
    <3>2. QED
      BY <1>1, <1>8, <3>1 DEF ArraysFilled, Count, Slice
  <2>3. BuffersEmpty'
    <3>1. \A u \in Threads : running'[u] = IF u = t THEN Null ELSE running[u]
      BY <1>3 DEF IInv, RunInv
    <3>2. \A j \in Slices : running[t] # ScatterTask(j)
      BY <1>1, TaskFacts
    <3>3. QED
      BY <1>1, <1>7, <3>1, <3>2 DEF BuffersEmpty, NoKeys
  <2>4. QED
    BY <1>1, <1>6, <1>7, <2>1, <2>2, <2>3 DEF LocalInv
<1>13. ScatterInv'
  <2>1. \A c \in DOMAIN Allocated(HistogramOf(v)) : values'[c] = Garbage
    BY <1>10 DEF Allocated
  <2>2. values' \in Cells(v)
    <3>1. Allocated(HistogramOf(v)) = [c \in DOMAIN Allocated(HistogramOf(v)) |-> Garbage]
      BY DEF Allocated
    <3>2. QED
      BY <1>10, <3>1 DEF Cells
  <2>3. Laid'
    BY <1>1, <1>10, <2>2 DEF Laid
  <2>4. ASSUME NEW i \in Slices PROVE SliceInv(i)'
    <3>1. InFlight(v, b[i], b[i+1], b[i], local_offsets'[i], NoKeys, values')
      <4>1. v \in Seq(Nat) /\ b[i] \in 0..Len(v) /\ b[i+1] \in b[i]..Len(v)
        BY <1>7, <1>9, SliceFacts
      <4>2. QED
        BY <1>10, <2>1, <4>1, InFlightStarts
    <3>2. \A u \in Threads : running'[u] # ScatterTask(i)
      <4>1. ASSUME NEW u \in Threads, running'[u] = ScatterTask(i) PROVE FALSE
        <5>1. running'[u] # Null
          BY <4>1, TaskFacts
        <5>2. begun'[running'[u]] = 1
          BY <1>3, <5>1 DEF RunInv
        <5>3. QED
          BY <1>6, <4>1, <5>2
      <4>2. QED
        BY <4>1
    <3>3. ended'[ScatterTask(i)] # 1
      BY <1>6
    <3>4. QED
      BY <1>1, <1>9, <3>1, <3>2, <3>3 DEF SliceInv, NoKeys
  <2>5. QED
    BY <1>6, <2>3, <2>4 DEF ScatterInv
<1>14. QED
  BY <1>1, <1>3, <1>7, <1>11, <1>12, <1>13 DEF IInv

(* What a scatter task knows when it takes a step. *)
ScatterRuns(t, i, b) ==
  /\ plan = Submitted /\ PhasesKept /\ running[t] # Null
  /\ v # Null /\ v \in Inputs /\ ArraysTyped /\ ArraysFilled /\ BuffersEmpty
  /\ ended[OffsetsTask] = 1 /\ ended[CleanupTask] = 0
  /\ begun[ScatterTask(i)] = 1 /\ ended[ScatterTask(i)] = 0
  /\ \A u \in Threads : running[u] = ScatterTask(i) => u = t
  /\ Laid /\ \A j \in Slices : SliceInv(j)
  /\ v \in Seq(Nat) /\ b[i] \in 0..Len(v) /\ b[i+1] \in b[i]..Len(v)
  /\ InFlight(v, b[i], b[i+1], iterator[t], local_offsets[i], buffers[t], values)

(* The invariant says so. *)
LEMMA ScatterKnows ==
  ASSUME IInv, NEW t \in Threads, NEW i \in Slices, running[t] = ScatterTask(i),
         NEW b, b = SliceBegin(Len(v))
  PROVE  ScatterRuns(t, i, b)
<1>1. running[t] # Null
  BY TaskFacts
<1>2. /\ plan = Submitted /\ PhasesKept
      /\ begun[ScatterTask(i)] = 1 /\ ended[ScatterTask(i)] = 0
      /\ \A u \in Threads : running[u] = ScatterTask(i) => u = t
  BY <1>1, RunningTask DEF IInv
<1>3. ended[OffsetsTask] = 1 /\ ended[CleanupTask] = 0
  BY <1>2, TaskFacts DEF PhasesKept
<1>4. v # Null /\ v \in Inputs /\ ArraysTyped /\ ArraysFilled /\ BuffersEmpty
  BY <1>2, <1>3 DEF IInv, LocalInv
<1>5. Laid /\ \A j \in Slices : SliceInv(j)
  BY <1>2, <1>3 DEF IInv, ScatterInv
<1>6. InFlight(v, b[i], b[i+1], iterator[t], local_offsets[i], buffers[t], values)
  BY <1>5 DEF SliceInv
<1>7. v \in Seq(Nat) /\ b[i] \in 0..Len(v) /\ b[i+1] \in b[i]..Len(v)
  BY <1>4, SliceFacts
<1>8. QED
  BY <1>1, <1>2, <1>3, <1>4, <1>5, <1>6, <1>7 DEF ScatterRuns

(* One key: the slice is in flight behind it, and no other cell changes. *)
KeyScattered(t, i, b) ==
  /\ values' \in Cells(v)
  /\ Untouched(v, b[i], b[i+1], values, values')
  /\ InFlight(v, b[i], b[i+1], iterator[t] + 1, local_offsets'[i], buffers'[t], values')
  /\ \E d : local_offsets' = [local_offsets EXCEPT ![i] = d]
  /\ \E f : buffers' = [buffers EXCEPT ![t] = f]

(* The key is buffered, or a full line stored. *)
LEMMA ScatterOneKey ==
  ASSUME NEW t \in Threads, NEW i \in Slices, NEW b, b = SliceBegin(Len(v)),
         ScatterRuns(t, i, b), ScatterKey(t, i)
  PROVE  KeyScattered(t, i, b)
<1>1. /\ v \in Seq(Nat) /\ b[i] \in 0..Len(v) /\ b[i+1] \in b[i]..Len(v)
      /\ values \in Cells(v)
      /\ InFlight(v, b[i], b[i+1], iterator[t], local_offsets[i], buffers[t], values)
  BY DEF ScatterRuns, Laid
<1>2. /\ DOMAIN local_offsets = Slices /\ DOMAIN buffers = Threads
      /\ DOMAIN values = DOMAIN Allocated(HistogramOf(v))
  BY <1>1 DEF ScatterRuns, ArraysTyped, Cells
<1>3. PICK p, tuples : /\ p = PartitionOf(v[iterator[t] + 1])
                       /\ tuples = Append(buffers[t][p], v[iterator[t] + 1])
  OBVIOUS
<1>4. /\ iterator[t] < b[i+1]
      /\ IF Len(tuples) = LineSize
         THEN /\ values' = Store(values, local_offsets[i][p], tuples)
              /\ local_offsets' = [local_offsets EXCEPT ![i][p] = @ + LineSize]
              /\ buffers' = [buffers EXCEPT ![t][p] = <<>>]
         ELSE /\ buffers' = [buffers EXCEPT ![t][p] = tuples]
              /\ values' = values /\ local_offsets' = local_offsets
  BY <1>3 DEF ScatterKey
<1>5. CASE Len(tuples) = LineSize
  <2>1. PICK d, f : /\ d = [local_offsets[i] EXCEPT ![p] = @ + LineSize]
                    /\ f = [buffers[t] EXCEPT ![p] = <<>>]
    OBVIOUS
  <2>2. local_offsets' = [local_offsets EXCEPT ![i] = d] /\ buffers' = [buffers EXCEPT ![t] = f]
    BY <1>4, <1>5, <2>1
  <2>3. local_offsets'[i] = d /\ buffers'[t] = f
    BY <1>2, <2>2
  <2>4. /\ InFlight(v, b[i], b[i+1], iterator[t] + 1, d, f,
                    Store(values, local_offsets[i][p], tuples))
        /\ Store(values, local_offsets[i][p], tuples) \in Cells(v)
        /\ \A c \in DOMAIN values \ Share(v, b[i], b[i+1], p) :
             Store(values, local_offsets[i][p], tuples)[c] = values[c]
    <3>1. PICK dst, full : dst = local_offsets[i] /\ full = buffers[t]
      OBVIOUS
    <3>2. /\ InFlight(v, b[i], b[i+1], iterator[t], dst, full, values)
          /\ p = PartitionOf(v[iterator[t] + 1]) /\ tuples = Append(full[p], v[iterator[t] + 1])
      BY <1>1, <1>3, <3>1
    <3>3. LineStored(v, b[i], b[i+1], iterator[t], dst, full, values, p, tuples)
      BY ONLY <1>1, <1>4, <1>5, <3>2, LineIsStored
    <3>4. QED
      BY <2>1, <3>1, <3>3 DEF LineStored
  <2>5. p \in Partitions
    <3>1. iterator[t] + 1 \in 1..Len(v)
      <4>1. iterator[t] \in b[i]..b[i+1]
        BY <1>1 DEF InFlight
      <4>2. QED
        BY <1>1, <1>4, <4>1
    <3>2. QED
      BY <1>1, <1>3, <3>1, KeyPartition
  <2>6. Untouched(v, b[i], b[i+1], values, values')
    BY <1>2, <1>4, <1>5, <2>4, <2>5 DEF Untouched
  <2>7. QED
    BY <1>4, <1>5, <2>2, <2>3, <2>4, <2>6 DEF KeyScattered
<1>6. CASE Len(tuples) # LineSize
  <2>1. PICK f : f = [buffers[t] EXCEPT ![p] = tuples]
    OBVIOUS
  <2>2. buffers' = [buffers EXCEPT ![t] = f]
    BY <1>4, <1>6, <2>1
  <2>3. buffers'[t] = f
    BY <1>2, <2>2
  <2>4. InFlight(v, b[i], b[i+1], iterator[t] + 1, local_offsets[i], f, values)
    BY <1>1, <1>3, <1>4, <1>6, <2>1, KeyIsBuffered
  <2>5. values' = values /\ local_offsets' = local_offsets
    BY <1>4, <1>6
  <2>6. local_offsets' = [local_offsets EXCEPT ![i] = local_offsets[i]]
    <3>1. local_offsets \in [Slices -> Array(Partitions, Nat \cup {Garbage})]
      BY DEF ScatterRuns, ArraysTyped
    <3>2. QED
      BY <2>5, <3>1
  <2>7. Untouched(v, b[i], b[i+1], values, values')
    BY <2>5 DEF Untouched
  <2>8. QED
    BY <1>1, <2>2, <2>3, <2>4, <2>5, <2>6, <2>7 DEF KeyScattered
<1>7. QED
  BY <1>5, <1>6

(* A scatter task: one key. *)
LEMMA ScatterKeyKeeps ==
  ASSUME IInv, NEW t \in Threads, NEW i \in Slices, ScatterKey(t, i)
  PROVE  IInv'
<1>1. PICK b : b = SliceBegin(Len(v))
  OBVIOUS
<1>2. running[t] = ScatterTask(i)
  BY DEF ScatterKey, ScatterTask
<1>3. ScatterRuns(t, i, b)
  BY <1>1, <1>2, ScatterKnows
<1>4. KeyScattered(t, i, b)
  BY <1>1, <1>3, ScatterOneKey
<1>5. /\ plan' = plan /\ executing' = executing /\ begun' = begun /\ ended' = ended
      /\ running' = running /\ v' = v /\ local_histograms' = local_histograms
      /\ histogram' = histogram /\ offsets' = offsets
      /\ iterator' = [iterator EXCEPT ![t] = @ + 1]
  BY DEF ScatterKey, queueVars
<1>6. iterator \in [Threads -> Nat]
  BY DEF IInv, RunInv
<1>7. /\ ArraysTyped /\ ArraysFilled /\ BuffersEmpty /\ Laid /\ \A j \in Slices : SliceInv(j)
      /\ v # Null /\ v \in Inputs /\ plan = Submitted
      /\ ended[OffsetsTask] = 1 /\ ended[CleanupTask] = 0
      /\ begun[ScatterTask(i)] = 1 /\ ended[ScatterTask(i)] = 0
      /\ \A u \in Threads : running[u] = ScatterTask(i) => u = t
  BY <1>3 DEF ScatterRuns
<1>8. QueueInv'
  BY <1>5 DEF IInv, QueueInv
<1>9. RunInv'
  <2>1. iterator' \in [Threads -> Nat]
    BY <1>5, <1>6
  <2>2. QED
    BY <1>5, <2>1 DEF IInv, RunInv
<1>10. IdleInv'
  BY <1>5, <1>7, TaskFacts DEF IdleInv
<1>11. /\ local_offsets'[i] \in [Partitions -> Nat]
       /\ buffers'[t] \in [Partitions -> Seq(ToSet(v))]
       /\ \A p \in Partitions : Len(buffers'[t][p]) < LineSize
  BY <1>4 DEF KeyScattered, InFlight
<1>12. /\ DOMAIN local_offsets' = Slices
       /\ \A j \in Slices \ {i} : local_offsets'[j] = local_offsets[j]
       /\ local_offsets' = [j \in Slices |-> local_offsets'[j]]
       /\ DOMAIN buffers' = Threads
       /\ \A u \in Threads \ {t} : buffers'[u] = buffers[u]
       /\ buffers' = [u \in Threads |-> buffers'[u]]
  <2>1. PICK d : local_offsets' = [local_offsets EXCEPT ![i] = d]
    BY <1>4 DEF KeyScattered
  <2>2. PICK f : buffers' = [buffers EXCEPT ![t] = f]
    BY <1>4 DEF KeyScattered
  <2>3. /\ local_offsets \in [Slices -> Array(Partitions, Nat \cup {Garbage})]
        /\ buffers \in [Threads -> [Partitions -> Seq(ToSet(v))]]
    BY <1>7 DEF ArraysTyped
  <2>4. QED
    BY <2>1, <2>2, <2>3
<1>13. LocalInv'
  <2>1. ArraysTyped'
    <3>1. \A j \in Slices : local_offsets'[j] \in Array(Partitions, Nat \cup {Garbage})
      <4>1. local_offsets'[i] \in Array(Partitions, Nat \cup {Garbage})
        BY <1>11 DEF Array
      <4>2. QED
        BY <1>7, <1>12, <4>1 DEF ArraysTyped
    <3>2. local_offsets' \in [Slices -> Array(Partitions, Nat \cup {Garbage})]
      BY <1>12, <3>1
    <3>3. ASSUME NEW u \in Threads
          PROVE  /\ buffers'[u] \in [Partitions -> Seq(ToSet(v))]
                 /\ \A p \in Partitions : Len(buffers'[u][p]) < LineSize
      <4>1. CASE u = t
        BY <1>11, <4>1
      <4>2. CASE u # t
        <5>1. buffers'[u] = buffers[u]
          BY <1>12, <4>2
        <5>2. /\ buffers[u] \in [Partitions -> Seq(ToSet(v))]
              /\ \A p \in Partitions : Len(buffers[u][p]) < LineSize
          BY <1>7 DEF ArraysTyped
        <5>3. QED
          BY ONLY <5>1, <5>2
      <4>3. QED
        BY <4>1, <4>2
    <3>4. buffers' \in [Threads -> [Partitions -> Seq(ToSet(v))]]
      BY <1>12, <3>3
    <3>5. QED
      BY <1>5, <1>7, <3>2, <3>3, <3>4 DEF ArraysTyped
  <2>2. ArraysFilled'
    <3>1. \A j \in Slices : ended[HistogramTask(j)] = 1 /\ ended[ScatterTask(j)] = 0 =>
            local_offsets'[j] \in [Partitions -> Nat \cup {Garbage}]
      <4>1. local_offsets'[i] \in [Partitions -> Nat \cup {Garbage}]
        BY <1>11
      <4>2. QED
        BY <1>7, <1>12, <4>1 DEF ArraysFilled
    <3>2. QED
      BY <1>5, <1>7, <3>1 DEF ArraysFilled, Count, Slice
  <2>3. BuffersEmpty'
    BY <1>2, <1>5, <1>7, <1>12 DEF BuffersEmpty, NoKeys
  <2>4. QED
    BY <1>5, <1>7, <2>1, <2>2, <2>3 DEF LocalInv
<1>14. ScatterInv'
  <2>1. Laid'
    BY <1>4, <1>5, <1>7 DEF Laid, KeyScattered
  <2>2. SliceInv(i)'
    <3>1. \A u \in Threads : running'[u] = ScatterTask(i) => u = t
      BY <1>5, <1>7
    <3>2. iterator'[t] = iterator[t] + 1
      BY <1>5, <1>6
    <3>3. InFlight(v, b[i], b[i+1], iterator'[t], local_offsets'[i], buffers'[t], values')
      BY <1>4, <3>2 DEF KeyScattered
    <3>4. begun'[ScatterTask(i)] # 0 /\ ended'[ScatterTask(i)] # 1
      BY <1>5, <1>7
    <3>5. QED
      BY <1>1, <1>5, <3>1, <3>3, <3>4 DEF SliceInv
  <2>3. ASSUME NEW j \in Slices, j # i PROVE SliceInv(j)'
    <3>1. \A u \in Threads \ {t} : iterator'[u] = iterator[u]
      BY <1>5, <1>6
    <3>2. \A k \in Slices \ {i} : running'[t] # ScatterTask(k)
      BY <1>2, <1>5, TaskFacts
    <3>3. Untouched(v, b[i], b[i+1], values, values')
      BY <1>4 DEF KeyScattered
    <3>4. SliceInv(j)
      BY <1>7
    <3>5. QED
      BY <1>1, <1>5, <1>7, <1>12, <2>3, <3>1, <3>2, <3>3, <3>4, OthersKept
  <2>4. QED
    BY <1>5, <1>7, <2>1, <2>2, <2>3 DEF ScatterInv
<1>15. QED
  BY <1>5, <1>7, <1>8, <1>9, <1>10, <1>13, <1>14 DEF IInv

(* The end of a scatter task: its slice is placed, its arrays are gone. *)
LEMMA ScatterRestKeeps ==
  ASSUME IInv, NEW t \in Threads, NEW i \in Slices, ScatterRest(t, i)
  PROVE  IInv'
<1>1. PICK b : b = SliceBegin(Len(v))
  OBVIOUS
<1>2. running[t] = ScatterTask(i)
  BY DEF ScatterRest, ScatterTask
<1>3. ScatterRuns(t, i, b)
  BY <1>1, <1>2, ScatterKnows
<1>4. /\ running[t] # Null
      /\ ArraysTyped /\ ArraysFilled /\ BuffersEmpty /\ Laid /\ \A j \in Slices : SliceInv(j)
      /\ v # Null /\ v \in Inputs /\ plan = Submitted
      /\ ended[OffsetsTask] = 1 /\ ended[CleanupTask] = 0
      /\ begun[ScatterTask(i)] = 1
      /\ v \in Seq(Nat) /\ b[i] \in 0..Len(v) /\ b[i+1] \in b[i]..Len(v)
      /\ InFlight(v, b[i], b[i+1], iterator[t], local_offsets[i], buffers[t], values)
  BY <1>3 DEF ScatterRuns
<1>5. /\ iterator[t] = b[i+1] /\ End(t)
      /\ values' = StoreBuffers(values, local_offsets[i], buffers[t])
      /\ buffers' = [buffers EXCEPT ![t] = NoKeys]
      /\ local_histograms' = [local_histograms EXCEPT ![i] = Null]
      /\ local_offsets' = [local_offsets EXCEPT ![i] = Null]
      /\ v' = v /\ histogram' = histogram /\ offsets' = offsets
  BY <1>1 DEF ScatterRest
<1>6. EndOf(t)
  BY <1>4, <1>5, EndKeeps DEF IInv
<1>7. /\ plan' = plan /\ begun' = begun
      /\ ended' = [ended EXCEPT ![ScatterTask(i)] = 1]
      /\ running' = [running EXCEPT ![t] = Null]
      /\ QueueInv' /\ RunInv'
  BY <1>2, <1>6 DEF EndOf
<1>8. /\ \A x \in Tasks : ended'[x] = IF x = ScatterTask(i) THEN 1 ELSE ended[x]
      /\ \A u \in Threads : running'[u] = IF u = t THEN Null ELSE running[u]
  BY <1>4, <1>7, TaskFacts DEF IInv, QueueInv, RunInv
<1>9. SliceDone(v, b[i], b[i+1], values, values')
  <2>1. values \in Cells(v)
    BY <1>4 DEF Laid
  <2>2. InFlight(v, b[i], b[i+1], b[i+1], local_offsets[i], buffers[t], values)
    BY <1>4, <1>5
  <2>3. SliceDone(v, b[i], b[i+1], values, StoreBuffers(values, local_offsets[i], buffers[t]))
    BY <1>4, <2>1, <2>2, RestIsStored
  <2>4. QED
    BY <1>5, <2>3
<1>10. /\ ended'[OffsetsTask] = 1 /\ ended'[CleanupTask] = 0 /\ ended'[ScatterTask(i)] = 1
       /\ \A j \in Slices : ended'[HistogramTask(j)] = ended[HistogramTask(j)]
       /\ \A j \in Slices \ {i} : ended'[ScatterTask(j)] = ended[ScatterTask(j)]
  BY <1>4, <1>8, TaskFacts
<1>11. /\ \A j \in Slices : /\ local_histograms'[j] = IF j = i THEN Null ELSE local_histograms[j]
                            /\ local_offsets'[j] = IF j = i THEN Null ELSE local_offsets[j]
       /\ \A u \in Threads : buffers'[u] = IF u = t THEN NoKeys ELSE buffers[u]
  BY <1>4, <1>5 DEF ArraysTyped
<1>12. IdleInv'
  BY <1>4, <1>7, TaskFacts DEF IdleInv
<1>13. LocalInv'
  <2>1. ArraysTyped'
    <3>1. /\ local_histograms' \in [Slices -> Array(Partitions, Nat)]
          /\ local_offsets' \in [Slices -> Array(Partitions, Nat \cup {Garbage})]
      BY <1>4, <1>5 DEF ArraysTyped, Array
    <3>2. buffers' \in [Threads -> [Partitions -> Seq(ToSet(v))]]
      BY <1>4, <1>5, NoKeysTyped DEF ArraysTyped
    <3>3. ASSUME NEW u \in Threads, NEW p \in Partitions PROVE Len(buffers'[u][p]) < LineSize
      <4>1. CASE u = t
        BY <1>11, <4>1, NoKeysTyped
      <4>2. CASE u # t
        BY <1>4, <1>11, <4>2 DEF ArraysTyped
      <4>3. QED
        BY <4>1, <4>2
    <3>4. QED
      BY <1>5, <3>1, <3>2, <3>3 DEF ArraysTyped
  <2>2. ArraysFilled'
    <3>1. ASSUME NEW j \in Slices,
                 ended'[HistogramTask(j)] = 1 /\ ended'[ScatterTask(j)] = 0
          PROVE  /\ local_histograms'[j] = [p \in Partitions |-> Count(Slice(j), p)]
                 /\ local_offsets'[j] \in [Partitions -> Nat \cup {Garbage}]
      <4>1. j # i
        BY <1>10, <3>1
      <4>2. ended[HistogramTask(j)] = 1 /\ ended[ScatterTask(j)] = 0
        BY <1>10, <3>1, <4>1
      <4>3. QED
        BY <1>4, <1>11, <4>1, <4>2 DEF ArraysFilled
    <3>2. QED
      BY <1>5, <3>1 DEF ArraysFilled, Count, Slice
  <2>3. BuffersEmpty'
    BY <1>4, <1>8, <1>11 DEF BuffersEmpty, NoKeys
  <2>4. QED
    BY <1>4, <1>5, <1>10, <2>1, <2>2, <2>3 DEF LocalInv
<1>14. ScatterInv'
  <2>1. Laid'
    BY <1>4, <1>5, <1>9 DEF Laid, SliceDone
  <2>2. SliceInv(i)'
    <3>1. \A u \in Threads : running'[u] # ScatterTask(i)
      <4>1. ASSUME NEW u \in Threads, running'[u] = ScatterTask(i) PROVE FALSE
        <5>1. running'[u] # Null
          BY <4>1, TaskFacts
        <5>2. ended'[running'[u]] = 0
          BY <1>7, <5>1 DEF RunInv
        <5>3. QED
          BY <1>10, <4>1, <5>2
      <4>2. QED
        BY <4>1
    <3>2. begun'[ScatterTask(i)] # 0
      BY <1>4, <1>7
    <3>3. Placed(v, b[i], b[i+1], values')
      BY <1>9 DEF SliceDone
    <3>4. QED
      BY <1>1, <1>5, <3>1, <3>2, <3>3 DEF SliceInv
  <2>3. ASSUME NEW j \in Slices, j # i PROVE SliceInv(j)'
    <3>1. \A u \in Threads \ {t} : /\ running'[u] = running[u]
                                   /\ iterator'[u] = iterator[u] /\ buffers'[u] = buffers[u]
      <4>1. iterator' = [iterator EXCEPT ![t] = 0] /\ iterator \in [Threads -> Nat]
        BY <1>5 DEF End, IInv, RunInv
      <4>2. \A u \in Threads \ {t} : iterator'[u] = iterator[u]
        BY <4>1
      <4>3. QED
        BY <1>8, <1>11, <4>2
    <3>2. \A k \in Slices \ {i} : running'[t] # ScatterTask(k)
      BY <1>8, TaskFacts
    <3>3. Untouched(v, b[i], b[i+1], values, values')
      BY <1>9 DEF SliceDone, Untouched
    <3>4. SliceInv(j)
      BY <1>4
    <3>5. \A k \in Slices \ {i} : /\ local_offsets'[k] = local_offsets[k]
                                  /\ ended'[ScatterTask(k)] = ended[ScatterTask(k)]
      BY <1>10, <1>11
    <3>6. QED
      BY <1>1, <1>4, <1>5, <1>7, <2>3, <3>1, <3>2, <3>3, <3>4, <3>5, OthersKept
  <2>4. QED
    BY <1>10, <2>1, <2>2, <2>3 DEF ScatterInv
<1>15. QED
  BY <1>4, <1>5, <1>7, <1>12, <1>13, <1>14 DEF IInv

(* Every step of the specification. *)
LEMMA NextKeeps ==
  ASSUME IInv, [Next]_vars
  PROVE  IInv'
<1>1. ASSUME NEW input \in Inputs, init_alone(input) \/ init(input) PROVE IInv'
  BY <1>1, InitAloneKeeps, InitKeeps
<1>2. CASE Execute
  BY <1>2, ExecuteKeeps
<1>3. CASE Return
  BY <1>3, ReturnKeeps
<1>4. ASSUME NEW t \in Threads, Thread(t) PROVE IInv'
  <2>1. ASSUME NEW x \in DOMAIN plan, Begin(t, x) PROVE IInv'
    BY <2>1, BeginKeepsAll
  <2>2. CASE Offsets(t)
    BY <2>2, OffsetsKeeps
  <2>3. CASE Cleanup(t)
    BY <2>3, CleanupKeeps
  <2>4. ASSUME NEW i \in Slices, Histogram(t, i) PROVE IInv'
    BY <2>4, HistogramKeeps
  <2>5. ASSUME NEW i \in Slices, ScatterKey(t, i) PROVE IInv'
    BY <2>5, ScatterKeyKeeps
  <2>6. ASSUME NEW i \in Slices, ScatterRest(t, i) PROVE IInv'
    BY <2>6, ScatterRestKeeps
  <2>7. QED
    BY <1>4, <2>1, <2>2, <2>3, <2>4, <2>5, <2>6 DEF Thread
<1>5. CASE Finished \/ UNCHANGED vars
  BY <1>5, StutterKeeps DEF Finished
<1>6. QED
  BY <1>1, <1>2, <1>3, <1>4, <1>5 DEF Next

(* The invariant holds in every state the partitioner reaches. *)
THEOREM PartitionInvariance == Spec => []IInv
<1>1. Init => IInv
  BY Initially
<1>2. IInv /\ [Next]_vars => IInv'
  BY NextKeeps
<1>3. QED
  BY <1>1, <1>2, PTL DEF Spec

-----------------------------------------------------------------------------
(* What the invariant implies. *)

(* The result is laid out as soon as there is one. *)
LEMMA LaidOrNot ==
  ASSUME IInv
  PROVE  Unlaid \/ (v \in Inputs /\ Laid)
<1>1. CASE plan = NoTasks
  BY <1>1 DEF IInv, IdleInv
<1>2. CASE plan = Submitted
  <2>1. ended[OffsetsTask] \in 0..1
    BY <1>2, BarriersKept, TaskFacts DEF IInv, PhasesKept
  <2>2. v \in Inputs
    BY <1>2 DEF IInv, LocalInv
  <2>3. QED
    BY <1>2, <2>1, <2>2 DEF IInv, ScatterInv
<1>3. QED
  BY <1>1, <1>2 DEF IInv, QueueInv

(* The arrays of the tasks are there from init to the clean-up. *)
LEMMA ArraysOrNot ==
  ASSUME IInv
  PROVE  Freed \/ (plan = Submitted /\ v \in Inputs /\ ArraysTyped /\ ArraysFilled /\ BuffersEmpty)
<1>1. CASE plan = NoTasks
  BY <1>1 DEF IInv, IdleInv
<1>2. CASE plan = Submitted
  <2>1. ended[CleanupTask] \in 0..1
    BY <1>2, BarriersKept, TaskFacts DEF IInv, PhasesKept
  <2>2. QED
    BY <1>2, <2>1 DEF IInv, LocalInv
<1>3. QED
  BY <1>1, <1>2 DEF IInv, QueueInv

(* What is allocated is not Null. *)
LEMMA ArraysAreNotNull ==
  /\ v \in Inputs /\ ArraysTyped =>
       buffers # Null /\ local_histograms # Null /\ local_offsets # Null
  /\ Null \notin [Partitions -> Nat \cup {Garbage}]
  /\ Null \notin [Partitions -> Nat]
  /\ v \in Inputs /\ Laid => values # Null
<1>1. /\ Null \notin [Partitions -> Nat \cup {Garbage}]
      /\ Null \notin [Slices -> Array(Partitions, Nat \cup {Garbage})]
      /\ Null \notin [Threads -> [Partitions -> Seq(Nat)]]
  BY NullAssumption DEF Array
<1>2. [Partitions -> Nat] \subseteq [Partitions -> Nat \cup {Garbage}]
  OBVIOUS
<1>3. [Slices -> Array(Partitions, Nat)] \subseteq [Slices -> Array(Partitions, Nat \cup {Garbage})]
  BY <1>2 DEF Array
<1>4. ASSUME v \in Inputs, ArraysTyped PROVE buffers \in [Threads -> [Partitions -> Seq(Nat)]]
  <2>1. ToSet(v) \subseteq Nat
    BY <1>4, SliceFacts
  <2>2. buffers \in [Threads -> [Partitions -> Seq(ToSet(v))]]
    BY <1>4 DEF ArraysTyped
  <2>3. QED
    BY <2>1, <2>2
<1>5. v \in Inputs /\ Laid => values # Null
  BY SliceFacts DEF Laid
<1>6. QED
  BY <1>1, <1>2, <1>3, <1>4, <1>5 DEF ArraysTyped

(* The key sequences that fit in a buffer. *)
LEMMA ShortIsBuffer ==
  ASSUME NEW S, S \subseteq Keys, NEW s, s \in Seq(S), Len(s) < LineSize
  PROVE  s \in Buffer
<1>1. Len(s) \in Nat /\ s \in [1..Len(s) -> S]
  BY LenProperties
<1>2. Len(s) \in 0..LineSize-1
  BY <1>1, LineAssumption
<1>3. s \in [1..Len(s) -> Keys]
  BY <1>1
<1>4. QED
  BY <1>2, <1>3 DEF Buffer

(* The invariant is about arrays of the right types. *)
LEMMA TypeFollows == IInv => TypeOK
<1> SUFFICES ASSUME IInv PROVE TypeOK
  OBVIOUS
<1>1. v \in Inputs => v \in Seq(Nat) /\ ToSet(v) \subseteq Keys
  BY InputAssumption DEF Keys
<1>2. running \in [Threads -> {Null} \cup Tasks] /\ iterator \in [Threads -> Nat]
      /\ v \in {Null} \cup Inputs
  BY DEF IInv, RunInv
<1>3. /\ histogram \in [Partitions -> Nat] /\ offsets \in [Partitions -> Nat]
      /\ values = Null \/ values \in [DOMAIN Allocated(histogram) -> Keys \cup {Garbage}]
  <2>1. CASE Unlaid
    BY <2>1 DEF Unlaid, Zeroes
  <2>2. CASE v \in Inputs /\ Laid
    <3>1. histogram = HistogramOf(v) /\ offsets = OffsetsOf(histogram) /\ values \in Cells(v)
      BY <2>2 DEF Laid
    <3>2. histogram \in [Partitions -> Nat]
      BY <1>1, <2>2, <3>1, HistogramCounts
    <3>3. offsets \in [Partitions -> Nat]
      BY <3>1, <3>2, WindowsApart
    <3>4. values \in [DOMAIN Allocated(histogram) -> Keys \cup {Garbage}]
      BY <1>1, <2>2, <3>1 DEF Cells
    <3>5. QED
      BY <3>2, <3>3, <3>4
  <2>3. QED
    BY <2>1, <2>2, LaidOrNot
<1>4. /\ local_histograms \in Array(Slices, Array(Partitions, Nat))
      /\ local_offsets \in Array(Slices, Array(Partitions, Nat \cup {Garbage}))
      /\ buffers \in Array(Threads, [Partitions -> Buffer])
  <2>1. CASE Freed
    BY <2>1 DEF Freed, Array
  <2>2. CASE v \in Inputs /\ ArraysTyped
    <3>1. ASSUME NEW t \in Threads, NEW p \in Partitions PROVE buffers[t][p] \in Buffer
      <4>1. buffers[t][p] \in Seq(ToSet(v)) /\ Len(buffers[t][p]) < LineSize
        BY <2>2 DEF ArraysTyped
      <4>2. QED
        BY <1>1, <2>2, <4>1, ShortIsBuffer
    <3>2. buffers \in [Threads -> [Partitions -> Seq(ToSet(v))]]
      BY <2>2 DEF ArraysTyped
    <3>3. buffers \in [Threads -> [Partitions -> Buffer]]
      BY <3>1, <3>2
    <3>4. /\ local_histograms \in [Slices -> Array(Partitions, Nat)]
          /\ local_offsets \in [Slices -> Array(Partitions, Nat \cup {Garbage})]
      BY <2>2 DEF ArraysTyped
    <3>5. QED
      BY <3>3, <3>4 DEF Array
  <2>3. QED
    BY <2>1, <2>2, ArraysOrNot
<1>5. QED
  BY <1>2, <1>3, <1>4 DEF TypeOK

(* What a running task uses has not been freed. *)
LEMMA FreedLast == IInv => NoUseAfterFree
<1> SUFFICES ASSUME IInv PROVE NoUseAfterFree
  OBVIOUS
<1> SUFFICES ASSUME NEW t \in Threads, running[t] # Null
             PROVE  /\ buffers # Null /\ local_histograms # Null /\ local_offsets # Null
                    /\ running[t] = OffsetsTask =>
                         \A i \in Slices : local_histograms[i] # Null /\ local_offsets[i] # Null
                    /\ \A i \in Slices : running[t] = ScatterTask(i) =>
                         values # Null /\ local_offsets[i] # Null
  BY TaskFacts DEF NoUseAfterFree, OffsetsTask, ScatterTask
<1>1. /\ plan = Submitted /\ running[t] \in Tasks
      /\ begun[running[t]] = 1 /\ ended[running[t]] = 0
      /\ PhasesKept
  BY RunningTask DEF IInv
<1>2. ended[CleanupTask] = 0
  BY <1>1, TaskFacts DEF PhasesKept
<1>3. v \in Inputs /\ ArraysTyped /\ ArraysFilled
  BY <1>1, <1>2 DEF IInv, LocalInv
<1>4. buffers # Null /\ local_histograms # Null /\ local_offsets # Null
  BY <1>3, ArraysAreNotNull
<1>5. ASSUME running[t] = OffsetsTask, NEW i \in Slices
      PROVE  local_histograms[i] # Null /\ local_offsets[i] # Null
  <2>1. ended[HistogramTask(i)] = 1 /\ ended[ScatterTask(i)] = 0
    BY <1>1, <1>5, TaskFacts DEF PhasesKept
  <2>2. /\ local_histograms[i] = [p \in Partitions |-> Count(Slice(i), p)]
        /\ local_offsets[i] \in [Partitions -> Nat \cup {Garbage}]
    BY <1>3, <2>1 DEF ArraysFilled
  <2>3. [p \in Partitions |-> Count(Slice(i), p)] \in [Partitions -> Nat]
    <3>1. \A p \in Partitions : Count(Slice(i), p) \in Nat
      BY <1>3, SliceCount
    <3>2. QED
      BY <3>1
  <2>4. QED
    BY <2>2, <2>3, ArraysAreNotNull
<1>6. ASSUME NEW i \in Slices, running[t] = ScatterTask(i)
      PROVE  values # Null /\ local_offsets[i] # Null
  <2>1. /\ ended[OffsetsTask] = 1
        /\ ended[HistogramTask(i)] = 1 /\ ended[ScatterTask(i)] = 0
    BY <1>1, <1>6, TaskFacts DEF PhasesKept
  <2>2. local_offsets[i] \in [Partitions -> Nat \cup {Garbage}]
    BY <1>3, <2>1 DEF ArraysFilled
  <2>3. Laid
    BY <1>1, <2>1 DEF IInv, ScatterInv
  <2>4. QED
    BY <1>3, <2>2, <2>3, ArraysAreNotNull
<1>7. QED
  BY <1>4, <1>5, <1>6

(* Idle threads have no keys. *)
LEMMA NothingCarried == IInv => NoCarryOver
<1> SUFFICES ASSUME IInv, NEW t \in Threads, running[t] = Null, buffers # Null
             PROVE  buffers[t] = NoKeys
  BY DEF NoCarryOver
<1>1. BuffersEmpty
  BY ArraysOrNot DEF Freed
<1>2. \A i \in Slices : running[t] # ScatterTask(i)
  BY TaskFacts
<1>3. QED
  BY <1>1, <1>2 DEF BuffersEmpty

LEMMA ScatteredIsPartitioned == IInv => Partitioned
<1> SUFFICES ASSUME IInv, Scattered, NEW p \in Partitions
             PROVE  /\ offsets[p] % LineSize = 0
                    /\ Window(p) \subseteq DOMAIN values
                    /\ \A key \in ToSet(v) :
                         Cardinality({c \in Window(p) : values[c] = key}) =
                           Cardinality({n \in DOMAIN v : v[n] = key /\ PartitionOf(key) = p})
                    /\ \A c \in Window(p) : values[c] # Garbage
  BY DEF Partitioned
<1>1. v \in Inputs /\ Laid
  BY LaidOrNot DEF Scattered, Unlaid
<1>2. v # Null /\ v \in Seq(Nat)
  BY <1>1, SliceFacts
<1>3. /\ histogram = HistogramOf(v) /\ offsets = OffsetsOf(HistogramOf(v))
      /\ values \in Cells(v)
  BY <1>1 DEF Laid
<1>4. Placed(v, 0, Len(v), values)
  <2>1. CASE plan = NoTasks
    BY <1>2, <2>1 DEF IInv, IdleInv
  <2>2. CASE plan = Submitted
    <3>1. \A i \in Slices : ended[ScatterTask(i)] = 1
      BY <2>2, TaskFacts DEF Scattered
    <3>2. PhasesKept
      BY <2>2, BarriersKept DEF IInv
    <3>3. 0 \in Slices
      BY QueueAssumption DEF Slices
    <3>4. ended[OffsetsTask] = 1
      BY <3>1, <3>2, <3>3, TaskFacts DEF PhasesKept
    <3>5. \A i \in Slices :
            Placed(v, SliceBegin(Len(v))[i], SliceBegin(Len(v))[i+1], values)
      BY <2>2, <3>1, <3>4 DEF IInv, ScatterInv, SliceInv
    <3>6. QED
      BY <1>1, <3>5, SlicesPlaced
  <2>3. QED
    BY <2>1, <2>2 DEF IInv, QueueInv
<1>5. Window(p) = OffsetsOf(HistogramOf(v))[p]
                    .. OffsetsOf(HistogramOf(v))[p] + HistogramOf(v)[p] - 1
  BY <1>3 DEF Window
<1>6. WindowFilled(v, values, p, Window(p))
  BY <1>2, <1>3, <1>4, <1>5, PlacedIsPartitioned
<1>7. QED
  BY <1>3, <1>6 DEF WindowFilled

(* The cells a slice has still to write are the end of its share. *)
LEMMA PendingIsEndOfShare ==
  ASSUME IInv, v \in Inputs, NEW b, b = SliceBegin(Len(v)),
         plan = Submitted, ended[OffsetsTask] = 1,
         NEW i \in Slices, ended[ScatterTask(i)] = 0, NEW p \in Partitions
  PROVE  /\ PendingCells(i, p) \subseteq Share(v, b[i], b[i+1], p)
         /\ \A c \in PendingCells(i, p) : values[c] = Garbage
<1>1. /\ v \in Seq(Nat) /\ Len(v) \in Nat
      /\ b[i] \in Nat /\ b[i+1] \in Nat
      /\ b[i] \in 0..Len(v) /\ b[i+1] \in b[i]..Len(v) /\ b[i+1] \in 0..Len(v)
  BY SliceFacts
<1>2. SliceInv(i)
  BY DEF IInv, ScatterInv
<1>3. \E k, full :
        /\ InFlight(v, b[i], b[i+1], k, local_offsets[i], full, values)
        /\ Pending(i, p) = Len(full[p]) + (Rank(v, b[i+1], p) - Rank(v, k, p))
  <2>1. CASE begun[ScatterTask(i)] = 0
    <3>1. InFlight(v, b[i], b[i+1], b[i], local_offsets[i], NoKeys, values)
      BY <1>2, <2>1 DEF SliceInv
    <3>2. Pending(i, p) = Count(Slice(i), p)
      BY <2>1 DEF Pending, ScatterTask
    <3>3. Len(NoKeys[p]) = 0
      BY NoKeysTyped
    <3>4. /\ Count(Slice(i), p) = Rank(v, b[i+1], p) - Rank(v, b[i], p)
          /\ Count(Slice(i), p) \in Nat
      BY SliceCount
    <3>5. Pending(i, p) = Len(NoKeys[p]) + (Rank(v, b[i+1], p) - Rank(v, b[i], p))
      BY <3>2, <3>3, <3>4
    <3>6. QED
      BY <3>1, <3>5
  <2>2. CASE begun[ScatterTask(i)] # 0
    <3>1. begun[ScatterTask(i)] = 1
      BY <2>2, BarriersKept, TaskFacts DEF IInv, PhasesKept
    <3>2. PICK t \in Threads : running[t] = ScatterTask(i)
      BY <3>1, TaskFacts DEF IInv, RunInv
    <3>3. \A u \in Threads : running[u] = ScatterTask(i) => u = t
      BY <3>2, TaskFacts DEF IInv, RunInv
    <3>4. (CHOOSE u \in Threads : running[u] = ScatterTask(i)) = t
      BY <3>2, <3>3
    <3>5. Pending(i, p) = Len(buffers[t][p]) + Count(iterator[t]+1 .. b[i+1], p)
      BY <2>2, <3>4 DEF Pending, ScatterTask
    <3>6. InFlight(v, b[i], b[i+1], iterator[t], local_offsets[i], buffers[t], values)
      BY <1>2, <3>2 DEF SliceInv
    <3>7. iterator[t] \in b[i]..b[i+1]
      BY <3>6 DEF InFlight
    <3>8. iterator[t] \in Nat /\ iterator[t] <= b[i+1]
      BY <1>1, <3>7
    <3>9. Count(iterator[t]+1 .. b[i+1], p)
            = Rank(v, b[i+1], p) - Rank(v, iterator[t], p)
      BY <1>1, <3>8, RankGrows DEF Count
    <3>10. QED
      BY <3>5, <3>6, <3>9
  <2>3. QED
    BY <2>1, <2>2
<1>4. PICK k, full :
        /\ InFlight(v, b[i], b[i+1], k, local_offsets[i], full, values)
        /\ Pending(i, p) = Len(full[p]) + (Rank(v, b[i+1], p) - Rank(v, k, p))
  BY <1>3
<1>5. /\ k \in b[i]..b[i+1] /\ local_offsets[i][p] \in Nat /\ Len(full[p]) \in Nat
      /\ local_offsets[i][p] + Len(full[p]) = Frontier(v, k, p)
      /\ Frontier(v, b[i], p) <= local_offsets[i][p]
      /\ \A c \in local_offsets[i][p] .. Frontier(v, b[i+1], p) - 1 : values[c] = Garbage
  BY <1>4, LenProperties DEF InFlight
<1>6. local_offsets[i][p] + Pending(i, p) = Frontier(v, b[i+1], p)
  <2>1. PICK base, r, s, l, d, g :
          /\ base = OffsetsOf(HistogramOf(v))[p] /\ r = Rank(v, k, p) /\ s = Rank(v, b[i+1], p)
          /\ l = Len(full[p]) /\ d = local_offsets[i][p] /\ g = Pending(i, p)
    OBVIOUS
  <2>2. k \in Nat
    BY <1>1, <1>5
  <2>3. base \in Nat /\ r \in Nat /\ s \in Nat /\ l \in Nat /\ d \in Nat
    BY <1>1, <1>5, <2>1, <2>2, FrontierEnds, RankSteps
  <2>4. d + l = base + r /\ g = l + (s - r)
    BY <1>4, <1>5, <2>1 DEF Frontier
  <2>5. d + g = base + s
    BY ONLY <2>3, <2>4
  <2>6. QED
    BY <2>1, <2>5 DEF Frontier
<1>7. PendingCells(i, p) = local_offsets[i][p] .. Frontier(v, b[i+1], p) - 1
  <2>1. PendingCells(i, p) = local_offsets[i][p] .. local_offsets[i][p] + Pending(i, p) - 1
    BY DEF PendingCells
  <2>2. Pending(i, p) \in Int /\ local_offsets[i][p] \in Nat
    <3>1. k \in Nat
      BY <1>1, <1>5
    <3>2. Rank(v, b[i+1], p) \in Nat /\ Rank(v, k, p) \in Nat
      BY <1>1, <3>1, RankSteps
    <3>3. QED
      BY <1>4, <1>5, <3>2
  <2>3. QED
    BY ONLY <1>6, <2>1, <2>2
<1>8. Frontier(v, b[i], p) \in Nat /\ Frontier(v, b[i+1], p) \in Nat
  BY <1>1, FrontierMoves
<1>9. PendingCells(i, p) \subseteq Share(v, b[i], b[i+1], p)
  BY <1>5, <1>7, <1>8 DEF Share
<1>10. QED
  BY <1>5, <1>7, <1>9

(* Shares are disjoint, hence what is left of them. *)
LEMMA WritesAreDisjoint == IInv => DisjointWrites
<1> SUFFICES ASSUME IInv, values # Null, NEW i \in Unscattered, NEW p \in Partitions
             PROVE  /\ PendingCells(i, p) \subseteq Window(p)
                    /\ \A c \in PendingCells(i, p) : c \in DOMAIN values /\ values[c] = Garbage
                    /\ \A j \in Unscattered \ {i} :
                         PendingCells(i, p) \cap PendingCells(j, p) = {}
  BY DEF DisjointWrites
<1>1. /\ v \in Inputs /\ Laid
  BY LaidOrNot DEF Unlaid
<1>2. /\ \A j \in Unscattered : j \in Slices /\ ended[ScatterTask(j)] = 0
      /\ plan = Submitted
  <2>1. \A j \in Unscattered : /\ j \in Slices /\ ended[ScatterTask(j)] = 0
                               /\ ScatterTask(j) \in DOMAIN plan
    BY DEF Unscattered, ScatterTask
  <2>2. plan # NoTasks
    BY <2>1, TaskFacts
  <2>3. QED
    BY <2>1, <2>2 DEF IInv, QueueInv
<1>3. ended[OffsetsTask] = 1
  <2>1. ended[OffsetsTask] \in 0..1
    BY <1>2, BarriersKept, TaskFacts DEF IInv, PhasesKept
  <2>2. QED
    BY <1>2, <2>1 DEF IInv, ScatterInv, Unlaid
<1>4. PICK b : b = SliceBegin(Len(v))
  OBVIOUS
<1>5. \A j \in Unscattered :
        /\ PendingCells(j, p) \subseteq Share(v, b[j], b[j+1], p)
        /\ \A c \in PendingCells(j, p) : values[c] = Garbage
  BY <1>1, <1>2, <1>3, <1>4, PendingIsEndOfShare
<1>6. /\ Share(v, b[i], b[i+1], p) \subseteq DOMAIN Allocated(HistogramOf(v))
      /\ Share(v, b[i], b[i+1], p) \subseteq Share(v, 0, Len(v), p)
  <2>1. v \in Seq(Nat) /\ b[i] \in 0..Len(v) /\ b[i+1] \in b[i]..Len(v)
    BY <1>1, <1>2, <1>4, SliceFacts
  <2>2. QED
    BY <2>1, SharesApart
<1>7. Share(v, 0, Len(v), p) = Window(p)
  <2>1. v \in Seq(Nat)
    BY <1>1, SliceFacts
  <2>2. /\ Frontier(v, 0, p) = offsets[p]
        /\ Frontier(v, Len(v), p) = offsets[p] + histogram[p]
    BY <1>1, <2>1, FrontierEnds DEF Laid
  <2>3. Share(v, 0, Len(v), p) = Frontier(v, 0, p) .. Frontier(v, Len(v), p) - 1
    BY DEF Share
  <2>4. Window(p) = offsets[p] .. offsets[p] + histogram[p] - 1
    BY DEF Window
  <2>5. offsets[p] \in Nat /\ histogram[p] \in Nat
    BY <1>1, <2>1, FrontierEnds DEF Laid
  <2>6. QED
    BY ONLY <2>2, <2>3, <2>4, <2>5
<1>8. DOMAIN values = DOMAIN Allocated(HistogramOf(v))
  BY <1>1 DEF Laid, Cells
<1>9. ASSUME NEW j \in Unscattered \ {i}
      PROVE  PendingCells(i, p) \cap PendingCells(j, p) = {}
  <2>1. Share(v, b[j], b[j+1], p) \cap Share(v, b[i], b[i+1], p) = {}
    BY <1>1, <1>2, <1>4, <1>9, SlicesApart
  <2>2. QED
    BY <1>5, <1>9, <2>1
<1>10. QED
  BY <1>5, <1>6, <1>7, <1>8, <1>9

-----------------------------------------------------------------------------
(* The theorems. *)

(* TypeOK: the arrays, iterators and buffers of init have their types, and *)
(* the output as many cells as its windows, in every state.                *)
THEOREM PartitionTypeCorrect == Spec => []TypeOK
<1>1. QED
  BY PartitionInvariance, TypeFollows, PTL

(* Partitioned: after init, with or without a queue, every window holds    *)
(* the keys of its partition, each as often as the input does, whatever    *)
(* the number of threads, tasks and partitions, the size of a line, and    *)
(* the order of the tasks.                                                 *)
THEOREM WindowsHoldTheirKeys == Spec => []Partitioned
<1>1. QED
  BY PartitionInvariance, ScatteredIsPartitioned, PTL

(* DisjointWrites: no two scatter tasks of init have a cell to write in    *)
(* common, and none writes outside of the windows or twice.                *)
THEOREM ScatterWritesApart == Spec => []DisjointWrites
<1>1. QED
  BY PartitionInvariance, WritesAreDisjoint, PTL

(* NoUseAfterFree: no task of init uses an array that is freed.            *)
THEOREM ArraysOutliveTasks == Spec => []NoUseAfterFree
<1>1. QED
  BY PartitionInvariance, FreedLast, PTL

(* NoCarryOver: a thread has written all its buffers when a task ends.     *)
THEOREM ThreadsCarryNothing == Spec => []NoCarryOver
<1>1. QED
  BY PartitionInvariance, NothingCarried, PTL
=============================================================================
