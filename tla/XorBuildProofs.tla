--------------------------- MODULE XorBuildProofs ---------------------------
(***************************************************************************)
(* Proofs about XorBuild for any finite set of keys, any hashes, any       *)
(* addresses and segments, any number of slots and of retries, and for     *)
(* both variants: a construct that reports success leaves no false         *)
(* negative, an attempt is rejected only where the keys left cannot be     *)
(* peeled, the arrays never overflow, and the construction implements      *)
(* PartitionBuild.                                                         *)
(*                                                                         *)
(* The invariant IInv says of the peeling that the entry of a slot is what *)
(* the keys it still counts give, that a slot with one key left is in a    *)
(* queue and still to come, and that no key left has the slot a hash on    *)
(* the stack was peeled from; and of the assigning, how far it is.         *)
(***************************************************************************)
EXTENDS XorBuild, NaturalLemmas, FiniteSetTheorems, SequenceTheorems, TLAPS

(* The hashes on the stack, and the keys that are not there yet.            *)
Pushed == {HashAt(p) : p \in DOMAIN stack}
Left == {x \in Keys : hash[x] \notin Pushed}

(* The entry of a slot that holds the hashes of the keys in S.             *)
EntryOf(S) ==
  [hash    |-> {b \in HashBits : Cardinality({x \in S : b \in hash[x]}) % 2 = 1},
   counter |-> Cardinality(S)]

(* The keys of slot a that its entry still counts: those left, and in the  *)
(* standard variant also the key that was peeled from it, since only the   *)
(* entries of the two other sets are updated.                              *)
Counted(a) ==
  {x \in In(a) : \/ x \in Left
                 \/ /\ variant = "Standard"
                    /\ \E p \in DOMAIN stack : HashAt(p) = hash[x] /\ PeeledFrom(p) = a}

Hashed == pc \notin {"hash", "fill"}
Peels == pc \in {"round", "peel", "peel_slots"}

(* Where the builder is, and what it has there.                            *)
ControlInv ==
  /\ variant = "Standard" => pc \notin {"peel_slots", "assign_slots"}
  /\ variant = "Fuse" => pc \notin {"round", "peel", "assign"}
  /\ seed = attempt
  /\ pc # "hash" => hash \in [Keys -> Hashes]
  /\ ~Hashed => /\ stack = <<>> /\ runs = <<0>> /\ set0 = 0 /\ begin = 0
                /\ queue = EmptyQueue
  /\ success => pc = "done"
  /\ pc \in {"assign", "assign_slots"} \/ success => Len(stack) = Cardinality(Keys)

(* The runs cut the stack into pieces, three for each round.               *)
RunsInv ==
  /\ runs[1] = 0
  /\ \A i, j \in DOMAIN runs : i <= j => runs[i] <= runs[j]
  /\ variant = "Standard" =>
       /\ runs[Len(runs)] = Len(stack)
       /\ \A p \in DOMAIN stack :
            \E r \in 1 .. Len(runs)-1 : runs[r] < p /\ p <= runs[r+1]
  /\ pc = "round" => (Len(runs) - 1) % 3 = 0 /\ set0 = 0 /\ begin = 0
  /\ pc = "peel" => Len(runs) >= 2 /\ (Len(runs) - 2) % 3 = set0

(* The stack holds hashes of keys, each once, with a slot of each.         *)
StackInv ==
  Hashed =>
    /\ Pushed \subseteq {hash[x] : x \in Keys}
    /\ \A p, q \in DOMAIN stack : p # q => HashAt(p) # HashAt(q)
    /\ \A p \in DOMAIN stack : \E s \in Sets : PeeledFrom(p) = Slot(HashAt(p), s)
    /\ \A p \in DOMAIN stack : \A x \in Left : x \notin In(PeeledFrom(p))

(* An entry is what filling the set with the keys it counts gives.         *)
EntriesInv == Hashed => \A a \in Slots : xor_set[a] = EntryOf(Counted(a))

(* Standard: positions of the queue of set s that are still to come.       *)
Pending(s) == {n \in DOMAIN queue[s] : s = set0 => begin < n}

(* Standard: the queue of a set holds a slot at most once, and a slot with *)
(* one hash at most; what is still to come is not peeled yet or emptied,   *)
(* and every key left that is alone in a slot is still to come.            *)
QueuesInv ==
  variant = "Standard" /\ Hashed =>
    /\ \A s \in Sets : \A n \in DOMAIN queue[s] :
         /\ queue[s][n] \in {hash[x] : x \in Keys}
         /\ xor_set[Slot(queue[s][n], s)].counter <= 1
    /\ \A s \in Sets : \A n, m \in DOMAIN queue[s] :
         n # m => Slot(queue[s][n], s) # Slot(queue[s][m], s)
    /\ Peels =>
         /\ begin <= Len(queue[set0])
         /\ \A s \in Sets : \A n \in Pending(s) :
              xor_set[Slot(queue[s][n], s)].counter # 0 => queue[s][n] \notin Pushed
         /\ \A s \in Sets : \A x \in Left :
              xor_set[Slot(hash[x], s)].counter = 1 => \E n \in Pending(s) : queue[s][n] = hash[x]

(* Fuse: the same of the one queue of slots.                               *)
SlotQueueInv ==
  variant = "Fuse" /\ Hashed =>
    /\ \A n \in DOMAIN queue : xor_set[queue[n]].counter <= 1
    /\ \A n, m \in DOMAIN queue : n # m => queue[n] # queue[m]
    /\ Peels =>
         /\ begin <= Len(queue)
         /\ \A a \in Slots : xor_set[a].counter = 1 => \E n \in begin+1 .. Len(queue) : queue[n] = a

(* How far the fingerprints are.                                           *)
AssignInv ==
  /\ pc \notin {"assign", "assign_slots", "done"} => fingerprints = [a \in Slots |-> {}]
  /\ pc = "assign" =>
       /\ run < Len(runs)
       /\ run > 0 => runs[run] <= begin /\ begin <= runs[run+1]
  /\ pc = "assign_slots" =>
       /\ begin <= Len(stack)
       /\ \A p \in 1..begin : fingerprints[PeeledFrom(p)] = {}
  /\ success => \A p \in DOMAIN stack : contains(HashAt(p))

IInv ==
  /\ TypeOK /\ ControlInv /\ RunsInv /\ StackInv /\ PeelOrder /\ EntriesInv
  /\ QueuesInv /\ SlotQueueInv /\ OnlyCoreRejected /\ AssignInv /\ AssignedStays
(* What a scan finds: the slots with one hash, in their order.             *)
SlotsFound(alone, set, first, n) ==
  /\ alone \in Seq(first .. first + n-1)
  /\ \A p \in DOMAIN alone : set[alone[p]].counter = 1
  /\ \A a \in first .. first + n-1 :
       set[a].counter = 1 => \E p \in DOMAIN alone : alone[p] = a
  /\ \A p, r \in DOMAIN alone : p < r => alone[p] < alone[r]

(* The scan of XorQueue::fill finds them. *)
LEMMA ScanFindsAlone ==
  ASSUME NEW set, NEW first \in Nat, NEW n \in Nat,
         NEW alone, alone = AloneSlots(set, first, n)
  PROVE  SlotsFound(alone, set, first, n)
<1> DEFINE Step(f, i) == IF i = 0 THEN <<>>
                         ELSE IF set[first + i-1].counter = 1
                              THEN Append(f[i-1], first + i-1)
                              ELSE f[i-1]
           IsScan(f, m) == f = [i \in 0..m |-> Step(f, i)]
           NoScan == {m \in 0..n : ~ \E f : IsScan(f, m)}
<1>1. NoScan = {}
  <2>1. SUFFICES ASSUME NoScan # {} PROVE FALSE
    OBVIOUS
  <2>2. PICK m \in NoScan : \A l \in NoScan : m <= l
    <3>1. NoScan \subseteq Nat
      OBVIOUS
    <3> HIDE DEF NoScan
    <3>2. QED
      BY <2>1, <3>1, LeastNat
  <2>3. m \in 0..n /\ ~ \E f : IsScan(f, m)
    <3> HIDE DEF IsScan
    <3>1. QED
      OBVIOUS
  <2>4. CASE m = 0
    <3>1. IsScan([i \in 0..0 |-> <<>>], 0)
      OBVIOUS
    <3> HIDE DEF IsScan
    <3>2. QED
      BY <2>3, <2>4, <3>1
  <2>5. CASE m # 0
    <3>1. m \in 1..n /\ m-1 \in 0..n
      BY <2>3, <2>5
    <3>2. \E f : IsScan(f, m-1)
      <4> HIDE DEF IsScan
      <4>1. m-1 \in NoScan => m <= m-1
        <5> HIDE DEF NoScan
        <5>1. QED
          BY <2>2
      <4>2. m-1 \notin NoScan
        <5> HIDE DEF NoScan
        <5>1. QED
          BY <4>1, <3>1
      <4>3. QED
        BY <4>2, <3>1
    <3>3. PICK f : IsScan(f, m-1)
      <4> HIDE DEF IsScan
      <4>1. QED
        BY <3>2
    <3> DEFINE g == [i \in 0..m |-> IF i = m THEN Step(f, m) ELSE f[i]]
    <3>4. ASSUME NEW i \in 0..m PROVE g[i] = Step(g, i)
      <4>1. g[i] = Step(f, i)
        <5>1. CASE i = m
          BY <5>1
        <5>2. CASE i # m
          <6>1. i \in 0 .. m-1
            BY <3>1, <5>2
          <6>2. f[i] = Step(f, i)
            <7> DEFINE St(k) == Step(f, k)
            <7> HIDE DEF Step
            <7>1. f = [k \in 0 .. m-1 |-> St(k)]
              BY <3>3
            <7> HIDE DEF St
            <7>2. f[i] = St(i)
              BY <7>1, <6>1
            <7>3. QED
              BY <7>2 DEF St
          <6>3. QED
            BY <5>2, <6>2
        <5>3. QED
          BY <5>1, <5>2
      <4>2. CASE i = 0
        BY <4>1, <4>2
      <4>3. CASE i # 0
        <5>1. i-1 \in 0..m /\ i-1 # m
          BY <4>3, <3>1
        <5>2. g[i-1] = f[i-1]
          BY <5>1
        <5> HIDE DEF g
        <5>3. QED
          BY <4>1, <4>3, <5>2
      <4>4. QED
        BY <4>2, <4>3
    <3>5. IsScan(g, m)
      <4> DEFINE St(k) == Step(g, k)
      <4>1. \A i \in 0..m : g[i] = St(i)
        BY <3>4
      <4>2. g = [i \in 0..m |-> g[i]]
        OBVIOUS
      <4> HIDE DEF g, St
      <4>3. g = [i \in 0..m |-> St(i)]
        BY <4>1, <4>2
      <4>4. QED
        BY <4>3 DEF St
    <3> HIDE DEF IsScan
    <3>6. QED
      BY <3>5, <2>3
  <2>6. QED
    BY <2>4, <2>5
<1> DEFINE found == CHOOSE f : IsScan(f, n)
<1>2. IsScan(found, n)
  <2>1. \E f : IsScan(f, n)
    <3> HIDE DEF IsScan
    <3>1. n \in 0..n /\ n \notin NoScan
      BY <1>1
    <3>2. QED
      BY <3>1
  <2> HIDE DEF IsScan
  <2>2. QED
    BY <2>1
<1>3. AloneSlots(set, first, n) = found[n]
  BY DEF AloneSlots
<1> HIDE DEF found
<1>4. ASSUME NEW m \in 0..n PROVE found[m] = Step(found, m)
  <2> DEFINE St(k) == Step(found, k)
  <2>1. found = [k \in 0..n |-> St(k)]
    BY <1>2
  <2> HIDE DEF St
  <2>2. found[m] = St(m)
    BY <2>1
  <2>3. QED
    BY <2>2 DEF St
<1>5. found[0] = <<>>
  BY <1>4
<1>6. ASSUME NEW m \in 1..n
      PROVE  found[m] = IF set[first + m-1].counter = 1
                        THEN Append(found[m-1], first + m-1)
                        ELSE found[m-1]
  BY <1>4
<1> DEFINE Found(q, i) ==
      /\ q \in Seq(first .. first + i-1)
      /\ \A p \in DOMAIN q : set[q[p]].counter = 1
      /\ \A a \in first .. first + i-1 : set[a].counter = 1 => \E p \in DOMAIN q : q[p] = a
      /\ \A p, r \in DOMAIN q : p < r => q[p] < q[r]
    Bad == {i \in 0..n : ~ Found(found[i], i)}
<1>7. Found(<<>>, 0)
  OBVIOUS
<1>8. ASSUME NEW m \in 1..n, Found(found[m-1], m-1)
      PROVE  Found(found[m], m)
  <2> DEFINE q == found[m-1]
             e == first + m-1
  <2>1. /\ q \in Seq(first .. e-1)
        /\ \A p \in DOMAIN q : set[q[p]].counter = 1
        /\ \A a \in first .. e-1 : set[a].counter = 1 => \E p \in DOMAIN q : q[p] = a
        /\ \A p, r \in DOMAIN q : p < r => q[p] < q[r]
    <3>1. first + (m-1) - 1 = e-1
      OBVIOUS
    <3>2. QED
      BY <1>8, <3>1
  <2>2. found[m] = IF set[e].counter = 1 THEN Append(q, e) ELSE q
    BY <1>6
  <2> HIDE DEF q
  <2>3. e \in Nat /\ first .. e-1 \subseteq first .. e /\ first + m-1 = e
    OBVIOUS
  <2> HIDE DEF e
  <2>4. CASE set[e].counter = 1
    <3>1. \A p \in DOMAIN q : q[p] \in first .. e-1
      <4> DEFINE S == first .. e-1
      <4>1. q \in Seq(S)
        BY <2>1
      <4> HIDE DEF S
      <4>2. \A p \in DOMAIN q : q[p] \in S
        BY <4>1, ElementOfSeq
      <4>3. QED
        BY <4>2 DEF S
    <3>2. q \in Seq(first .. e) /\ e \in first .. e
      <4>1. q \in Seq(first .. e)
        BY <2>1, <2>3, SeqMonotonic
      <4>2. e >= first
        BY DEF e
      <4>3. QED
        BY <4>1, <4>2, <2>3
    <3> DEFINE r == Append(q, e)
    <3>3. /\ r \in Seq(first .. e)
          /\ \A p \in 1..Len(q) : r[p] = q[p]
          /\ r[Len(q)+1] = e
          /\ DOMAIN r = 1 .. Len(q)+1 /\ DOMAIN q = 1..Len(q) /\ Len(q) \in Nat
      BY <3>2, AppendProperties
    <3> HIDE DEF r
    <3>4. \A p \in DOMAIN r : set[r[p]].counter = 1
      BY <2>1, <2>4, <3>3
    <3>5. ASSUME NEW a \in first .. e, set[a].counter = 1
          PROVE  \E p \in DOMAIN r : r[p] = a
      <4>1. CASE a = e
        BY <3>3, <4>1
      <4>2. CASE a # e
        <5>1. a \in first .. e-1
          BY <4>2, <2>3
        <5>2. PICK p \in DOMAIN q : q[p] = a
          BY <5>1, <3>5, <2>1
        <5>3. QED
          BY <5>2, <3>3
      <4>3. QED
        BY <4>1, <4>2
    <3>6. ASSUME NEW p \in DOMAIN r, NEW t \in DOMAIN r, p < t
          PROVE  r[p] < r[t]
      <4>1. CASE t = Len(q)+1
        BY <3>1, <3>3, <3>6, <4>1, <2>3
      <4>2. CASE t # Len(q)+1
        BY <2>1, <3>3, <3>6, <4>2
      <4>3. QED
        BY <4>1, <4>2
    <3>7. found[m] = r
      BY <2>2, <2>4 DEF r
    <3>8. QED
      BY <2>3, <3>3, <3>4, <3>5, <3>6, <3>7
  <2>5. CASE set[e].counter # 1
    <3>1. q \in Seq(first .. e)
      BY <2>1, <2>3, SeqMonotonic
    <3>2. \A a \in first .. e : set[a].counter = 1 => \E p \in DOMAIN q : q[p] = a
      BY <2>1, <2>3, <2>5
    <3>3. found[m] = q
      BY <2>2, <2>5
    <3>4. QED
      BY <2>1, <2>3, <3>1, <3>2, <3>3
  <2>6. QED
    BY <2>4, <2>5
<1> HIDE DEF Found
<1>9. Bad = {}
  <2>1. SUFFICES ASSUME Bad # {} PROVE FALSE
    OBVIOUS
  <2>2. Bad \subseteq Nat
    OBVIOUS
  <2>3. PICK m \in Bad : \A l \in Bad : m <= l
    <3> HIDE DEF Bad
    <3>1. QED
      BY <2>1, <2>2, LeastNat
  <2>4. m \in 0..n /\ ~ Found(found[m], m) /\ (m-1 \in 0..n => Found(found[m-1], m-1))
    <3>1. m \in 0..n /\ ~ Found(found[m], m)
      OBVIOUS
    <3>2. m-1 \notin Bad
      <4> HIDE DEF Bad
      <4>1. QED
        BY <2>3, <3>1
    <3>3. QED
      BY <3>1, <3>2
  <2>5. CASE m = 0
    BY <2>4, <2>5, <1>5, <1>7
  <2>6. CASE m # 0
    <3>1. m \in 1..n /\ m-1 \in 0..n
      BY <2>4, <2>6
    <3>2. QED
      BY <3>1, <2>4, <1>8
  <2>7. QED
    BY <2>5, <2>6
<1>10. Found(found[n], n)
  <2>1. n \in 0..n /\ n \notin Bad
    BY <1>9
  <2>2. QED
    BY <2>1
<1>11. QED
  BY <1>3, <1>10 DEF Found, SlotsFound

(* Slots lie in the array.                                                 *)
LEMMA SlotInArray ==
  ASSUME variant \in Variants, NEW h \in Hashes, NEW s \in Sets
  PROVE  /\ Slot(h, s) \in Slots
         /\ Slot(h, s) \in Nat
         /\ segment(h) \in Nat
         /\ Slot(h, s) >= (segment(h) + s) * NSlots
         /\ Slot(h, s) < (segment(h) + s) * NSlots + NSlots
<1>1. /\ segment(h) \in Nat
      /\ segment(h) + s <= (IF variant = "Standard" THEN 3 ELSE FuseSegments + 2) - 1
  BY SegmentAssumption, SlotsAssumption DEF segment, Sets
<1> DEFINE m == segment(h) + s
           M == IF variant = "Standard" THEN 3 ELSE FuseSegments + 2
           a == Address(h, s)
<1>2. m \in Nat /\ M \in Nat /\ m + 1 <= M /\ NSlots \in Nat /\ a \in 0 .. NSlots-1
  BY <1>1, SlotsAssumption, AddressAssumption DEF Sets
<1>3. Slot(h, s) = m * NSlots + a /\ Slots = 0 .. M * NSlots - 1
  BY DEF Slot, Slots
<1> HIDE DEF m, M, a
<1>4. m * NSlots \in Nat /\ M * NSlots \in Nat /\ m * NSlots + NSlots <= M * NSlots
  <2>1. (m + 1) * NSlots = m * NSlots + NSlots
    BY <1>2
  <2>2. (m + 1) * NSlots <= M * NSlots
    BY <1>2
  <2>3. QED
    BY <1>2, <2>1, <2>2
<1>5. m * NSlots + a \in 0 .. M * NSlots - 1
  BY <1>2, <1>4
<1>6. QED
  BY <1>1, <1>2, <1>3, <1>4, <1>5 DEF m

(* Two hashes meet in a slot only where their segments do, so that the     *)
(* three slots of a hash differ, and in the standard variant a slot        *)
(* belongs to one set.                                                     *)
LEMMA SlotsMeet ==
  ASSUME variant \in Variants, NEW h \in Hashes, NEW g \in Hashes,
         NEW s \in Sets, NEW t \in Sets, Slot(h, s) = Slot(g, t)
  PROVE  /\ segment(h) + s = segment(g) + t
         /\ h = g => s = t
         /\ variant = "Standard" => s = t
<1> DEFINE m == segment(h) + s
           n == segment(g) + t
<1>1. /\ m \in Nat /\ n \in Nat /\ NSlots \in Nat
      /\ Slot(h, s) \in Nat
      /\ m * NSlots <= Slot(h, s) /\ Slot(h, s) < m * NSlots + NSlots
      /\ n * NSlots <= Slot(h, s) /\ Slot(h, s) < n * NSlots + NSlots
  BY SlotInArray, SlotsAssumption DEF Sets
<1>2. m = n
  <2> HIDE DEF m, n
  <2>1. ASSUME NEW i \in Nat, NEW j \in Nat, i < j
        PROVE  i * NSlots + NSlots <= j * NSlots
    <3>1. (i + 1) * NSlots = i * NSlots + NSlots
      BY <1>1
    <3>2. (i + 1) * NSlots <= j * NSlots
      BY <1>1, <2>1
    <3>3. QED
      BY <3>1, <3>2
  <2>2. m * NSlots \in Nat /\ n * NSlots \in Nat
    BY <1>1
  <2>3. ~ (m < n)
    BY <1>1, <2>1, <2>2
  <2>4. ~ (n < m)
    BY <1>1, <2>1, <2>2
  <2>5. QED
    BY <1>1, <2>3, <2>4
<1>3. segment(h) \in Nat /\ segment(g) \in Nat /\ s \in Int /\ t \in Int
  BY SlotInArray DEF Sets
<1>4. variant = "Standard" => segment(h) = 0 /\ segment(g) = 0
  BY DEF segment
<1>5. QED
  BY <1>2, <1>3, <1>4

(* In the standard variant the slots of set s are NSlots in a row.         *)
LEMMA SlotOfSet ==
  ASSUME variant = "Standard", NEW h \in Hashes, NEW s \in Sets
  PROVE  Slot(h, s) \in s * NSlots .. s * NSlots + NSlots - 1
<1>1. variant \in Variants
  BY DEF Variants
<1>2. /\ Slot(h, s) \in Nat /\ Slot(h, s) >= s * NSlots /\ Slot(h, s) < s * NSlots + NSlots
      /\ s * NSlots \in Nat /\ NSlots \in Nat
  BY <1>1, SlotInArray, SlotsAssumption DEF segment, Sets
<1>3. QED
  BY <1>2

-----------------------------------------------------------------------------
(* Entries of the xor set. *)

(* What an entry is, and that a single key can be read from it.            *)
LEMMA EntryFacts ==
  ASSUME hash \in [Keys -> Hashes], NEW S \in SUBSET Keys
  PROVE  /\ IsFiniteSet(S)
         /\ EntryOf(S) \in [hash : Hashes, counter : Nat]
         /\ EntryOf(S).counter = Cardinality(S)
         /\ EntryOf(S).counter = 0 <=> S = {}
         /\ \A x \in S : S = {x} => EntryOf(S).counter = 1 /\ EntryOf(S).hash = hash[x]
         /\ EntryOf(S).counter = 1 => \E x \in S : S = {x}
<1>1. IsFiniteSet(S) /\ Cardinality(S) \in Nat
  BY KeysAssumption, FS_Subset, FS_CardinalityType
<1>2. ASSUME NEW x \in S, S = {x}
      PROVE  EntryOf(S).counter = 1 /\ EntryOf(S).hash = hash[x]
  <2>1. Cardinality(S) = 1
    BY <1>2, FS_Singleton
  <2>2. hash[x] \subseteq HashBits
    BY DEF Hashes
  <2>3. ASSUME NEW b \in HashBits
        PROVE  Cardinality({y \in S : b \in hash[y]}) % 2 = 1 <=> b \in hash[x]
    <3>1. CASE b \in hash[x]
      <4>1. {y \in S : b \in hash[y]} = S
        BY <1>2, <3>1
      <4>2. QED
        BY <2>1, <4>1, <3>1
    <3>2. CASE b \notin hash[x]
      <4>1. {y \in S : b \in hash[y]} = {}
        BY <1>2, <3>2
      <4>2. QED
        BY <4>1, <3>2, FS_EmptySet
    <3>3. QED
      BY <3>1, <3>2
  <2>4. {b \in HashBits : Cardinality({y \in S : b \in hash[y]}) % 2 = 1} = hash[x]
    BY <2>2, <2>3
  <2>5. QED
    BY <2>1, <2>4 DEF EntryOf
<1>3. EntryOf(S).counter = Cardinality(S)
  BY DEF EntryOf
<1>4. EntryOf(S) \in [hash : Hashes, counter : Nat]
  BY <1>1 DEF EntryOf, Hashes
<1>5. Cardinality(S) = 0 <=> S = {}
  BY <1>1, FS_EmptySet
<1>6. Cardinality(S) = 1 => \E x \in S : S = {x}
  BY <1>1, FS_Singleton
<1>7. QED
  BY <1>1, <1>2, <1>3, <1>4, <1>5, <1>6

(* Taking a key out of an entry leaves the entry of the other keys.        *)
LEMMA EntryWithout ==
  ASSUME hash \in [Keys -> Hashes], NEW S \in SUBSET Keys, NEW x \in S
  PROVE  EntryOf(S \ {x}) = Without(EntryOf(S), hash[x])
<1>1. IsFiniteSet(S) /\ Cardinality(S) \in Nat
  BY EntryFacts, FS_CardinalityType
<1>2. Cardinality(S \ {x}) = Cardinality(S) - 1
  BY <1>1, FS_RemoveElement
<1> DEFINE Has(T, b) == {y \in T : b \in hash[y]}
<1>3. ASSUME NEW b \in HashBits
      PROVE  Cardinality(Has(S \ {x}, b)) % 2 = 1
               <=> ((Cardinality(Has(S, b)) % 2 = 1) # (b \in hash[x]))
  <2>1. IsFiniteSet(Has(S, b)) /\ Cardinality(Has(S, b)) \in Nat
    BY <1>1, FS_Subset, FS_CardinalityType
  <2>2. CASE b \in hash[x]
    <3>1. Has(S \ {x}, b) = Has(S, b) \ {x} /\ x \in Has(S, b)
      BY <2>2
    <3>2. Cardinality(Has(S \ {x}, b)) = Cardinality(Has(S, b)) - 1
      <4>1. ASSUME NEW H, IsFiniteSet(H), x \in H
            PROVE  Cardinality(H \ {x}) = Cardinality(H) - 1
        BY <4>1, FS_RemoveElement
      <4> HIDE DEF Has
      <4>2. QED
        BY <3>1, <2>1, <4>1
    <3>3. Cardinality(Has(S \ {x}, b)) \in Nat
      <4> HIDE DEF Has
      <4>1. QED
        BY <3>1, <2>1, FS_RemoveElement, FS_CardinalityType
    <3> HIDE DEF Has
    <3>4. QED
      BY <2>1, <2>2, <3>2, <3>3
  <2>3. CASE b \notin hash[x]
    <3>1. Has(S \ {x}, b) = Has(S, b)
      BY <2>3
    <3> HIDE DEF Has
    <3>2. QED
      BY <2>3, <3>1
  <2>4. QED
    BY <2>2, <2>3
<1> DEFINE E(T) == {b \in HashBits : Cardinality(Has(T, b)) % 2 = 1}
<1>4. E(S \ {x}) = Xor(E(S), hash[x])
  <2>1. hash[x] \subseteq HashBits
    BY DEF Hashes
  <2> HIDE DEF Has
  <2>2. QED
    BY <1>3, <2>1 DEF Xor
<1>5. /\ EntryOf(S \ {x}) = [hash |-> E(S \ {x}), counter |-> Cardinality(S \ {x})]
      /\ EntryOf(S) = [hash |-> E(S), counter |-> Cardinality(S)]
  BY DEF EntryOf
<1>6. QED
  <2> HIDE DEF E
  <2>1. QED
    BY <1>2, <1>4, <1>5 DEF Without

-----------------------------------------------------------------------------
(* The operators of the model, and a step that leaves their state alone.   *)

(* What the slots and the entries read stays with the variant and the      *)
(* hashes.                                                                 *)
LEMMA SameKeys ==
  ASSUME variant' = variant, hash' = hash
  PROVE  /\ Slots' = Slots
         /\ \A h, s : Slot(h, s)' = Slot(h, s)
         /\ \A a : In(a)' = In(a)
         /\ \A S : EntryOf(S)' = EntryOf(S)
<1>1. Slots' = Slots
  BY DEF Slots
<1>2. \A h, s : Slot(h, s)' = Slot(h, s)
  BY DEF Slot, segment
<1>3. \A a : In(a)' = In(a)
  BY DEF In, Slot, segment
<1>4. \A S : EntryOf(S)' = EntryOf(S)
  BY DEF EntryOf
<1>5. QED
  BY <1>1, <1>2, <1>3, <1>4

(* And what is left, with the stack and its runs.                          *)
LEMMA SameStack ==
  ASSUME variant' = variant, hash' = hash, stack' = stack, runs' = runs
  PROVE  /\ \A p : HashAt(p)' = HashAt(p)
         /\ \A p : RunOf(p)' = RunOf(p)
         /\ \A p : PeeledFrom(p)' = PeeledFrom(p)
         /\ Pushed' = Pushed
         /\ Left' = Left
         /\ \A a : Counted(a)' = Counted(a)
<1>1. \A p : HashAt(p)' = HashAt(p)
  BY DEF HashAt
<1>2. \A p : RunOf(p)' = RunOf(p)
  BY DEF RunOf
<1>3. \A p : PeeledFrom(p)' = PeeledFrom(p)
  BY <1>2 DEF PeeledFrom, Slot, segment
<1>4. Pushed' = Pushed
  BY <1>1 DEF Pushed
<1>5. Left' = Left
  BY <1>4 DEF Left
<1>6. \A a : Counted(a)' = Counted(a)
  BY <1>1, <1>3, <1>5, SameKeys DEF Counted
<1>7. QED
  BY <1>1, <1>2, <1>3, <1>4, <1>5, <1>6

(* A position of the stack lies in one run.                                *)
LEMMA RunIs ==
  ASSUME NEW R \in Seq(Nat), \A i, j \in DOMAIN R : i <= j => R[i] <= R[j],
         NEW p \in Nat, NEW r \in 1 .. Len(R)-1, R[r] < p, p <= R[r+1]
  PROVE  r = CHOOSE q \in 1 .. Len(R)-1 : R[q] < p /\ p <= R[q+1]
<1>1. \A q \in 1 .. Len(R)-1 : /\ q \in DOMAIN R /\ q+1 \in DOMAIN R
                               /\ R[q] \in Nat /\ R[q+1] \in Nat /\ q \in Nat
  <2>1. DOMAIN R = 1 .. Len(R) /\ Len(R) \in Nat /\ \A i \in DOMAIN R : R[i] \in Nat
    BY ElementOfSeq
  <2>2. \A q \in 1 .. Len(R)-1 : q \in DOMAIN R /\ q+1 \in DOMAIN R /\ q \in Nat
    BY <2>1
  <2>3. QED
    BY <2>1, <2>2
<1>2. ASSUME NEW q \in 1 .. Len(R)-1, R[q] < p, p <= R[q+1]
      PROVE  q = r
  <2>1. ~ (q < r)
    <3>1. q < r => R[q+1] <= R[r]
      BY <1>1
    <3>2. QED
      BY <1>1, <1>2, <3>1
  <2>2. ~ (r < q)
    <3>1. r < q => R[r+1] <= R[q]
      BY <1>1
    <3>2. QED
      BY <1>1, <1>2, <3>1
  <2>3. QED
    BY <1>1, <2>1, <2>2
<1>3. QED
  BY <1>2

(* The hashes of the stack, their slots and the runs they belong to.       *)
LEMMA StackFacts ==
  ASSUME TypeOK, ControlInv, RunsInv, StackInv, Hashed, NEW p \in DOMAIN stack
  PROVE  /\ p \in Nat /\ p <= Len(stack)
         /\ HashAt(p) \in Hashes
         /\ PeeledFrom(p) \in Slots
         /\ variant = "Standard" =>
              /\ RunOf(p) \in 1 .. Len(runs)-1
              /\ runs[RunOf(p)] < p /\ p <= runs[RunOf(p)+1]
              /\ SetOf(RunOf(p)) \in Sets
              /\ HashAt(p) = stack[p]
              /\ PeeledFrom(p) = Slot(HashAt(p), SetOf(RunOf(p)))
<1>1. p \in Nat /\ p <= Len(stack)
  BY DEF TypeOK
<1>2. HashAt(p) \in Hashes
  <2>1. CASE variant = "Standard"
    <3>1. stack \in Seq(Hashes)
      BY <2>1 DEF TypeOK
    <3>2. stack[p] \in Hashes
      BY <3>1, ElementOfSeq
    <3>3. QED
      BY <2>1, <3>2 DEF HashAt
  <2>2. CASE variant # "Standard"
    <3> DEFINE R == [hash : Hashes, address : Slots]
    <3>1. stack \in Seq(R)
      BY <2>2 DEF TypeOK
    <3>2. stack[p] \in R
      <4> HIDE DEF R
      <4>1. QED
        BY <3>1, ElementOfSeq
    <3>3. QED
      BY <2>2, <3>2 DEF HashAt
  <2>3. QED
    BY <2>1, <2>2
<1>3. PeeledFrom(p) \in Slots
  BY <1>2, SlotInArray DEF StackInv, TypeOK
<1>4. ASSUME variant = "Standard"
      PROVE  /\ RunOf(p) \in 1 .. Len(runs)-1
             /\ runs[RunOf(p)] < p /\ p <= runs[RunOf(p)+1]
             /\ SetOf(RunOf(p)) \in Sets
             /\ HashAt(p) = stack[p]
             /\ PeeledFrom(p) = Slot(HashAt(p), SetOf(RunOf(p)))
  <2>1. \E r \in 1 .. Len(runs)-1 : runs[r] < p /\ p <= runs[r+1]
    BY <1>4 DEF RunsInv
  <2>2. RunOf(p) \in 1 .. Len(runs)-1 /\ runs[RunOf(p)] < p /\ p <= runs[RunOf(p)+1]
    BY <2>1 DEF RunOf
  <2>3. SetOf(RunOf(p)) \in Sets
    <3>1. RunOf(p) - 1 \in Nat
      BY <2>2
    <3>2. (RunOf(p) - 1) % 3 \in 0..2
      BY <3>1
    <3>3. QED
      BY <3>2 DEF SetOf, Sets
  <2>4. QED
    BY <1>4, <2>2, <2>3 DEF HashAt, PeeledFrom
<1>5. QED
  BY <1>1, <1>2, <1>3, <1>4

(* When the peeling is over, its state stays as it is.                     *)
LEMMA AfterPeeling ==
  ASSUME IInv, UNCHANGED <<variant, hash, peelVars>>, Hashed, Hashed', ~ Peels',
         pc' = "check" => pc = "check"
  PROVE  /\ StackInv' /\ PeelOrder' /\ EntriesInv' /\ QueuesInv' /\ SlotQueueInv'
         /\ OnlyCoreRejected'
<1> USE DEF IInv, peelVars
<1>1. StackInv'
  BY SameKeys, SameStack DEF StackInv
<1>2. PeelOrder'
  BY SameKeys, SameStack DEF PeelOrder
<1>3. EntriesInv'
  BY SameKeys, SameStack DEF EntriesInv
<1>4. QueuesInv'
  BY SameKeys, SameStack DEF QueuesInv
<1>5. SlotQueueInv'
  BY SameKeys, SameStack DEF SlotQueueInv
<1>6. OnlyCoreRejected'
  BY SameKeys, SameStack DEF OnlyCoreRejected, Pushed
<1>7. QED
  BY <1>1, <1>2, <1>3, <1>4, <1>5, <1>6

-----------------------------------------------------------------------------
(* Assigning the fingerprints. *)

(* The three fingerprints of a key xor to its own once the one that is     *)
(* missing is the xor of it with the two others.                           *)
LEMMA XorSolves ==
  ASSUME NEW f, NEW a, NEW b
  PROVE  /\ Xor(Xor(Xor(Xor(f, a), b), a), b) = f
         /\ Xor(Xor(a, Xor(Xor(f, b), a)), b) = f
         /\ Xor(Xor(a, b), Xor(Xor(f, a), b)) = f
         /\ Xor(Xor(Xor(f, Xor(Xor({}, a), b)), a), b) = f
         /\ Xor(Xor(a, Xor(f, Xor(Xor(a, {}), b))), b) = f
         /\ Xor(Xor(a, b), Xor(f, Xor(Xor(a, b), {}))) = f
BY DEF Xor

(* Writing one slot changes no other key's fingerprints.                   *)
LEMMA ContainsElsewhere ==
  ASSUME TypeOK, UNCHANGED <<variant, hash>>, NEW a \in Slots, NEW v,
         fingerprints' = [fingerprints EXCEPT ![a] = v],
         NEW h \in Hashes, \A s \in Sets : Slot(h, s) # a
  PROVE  contains(h)' = contains(h)
<1>1. ASSUME NEW s \in Sets PROVE Stored(h, s)' = Stored(h, s)
  <2>1. Slot(h, s) \in Slots /\ Slot(h, s)' = Slot(h, s)
    BY SlotInArray, SameKeys DEF TypeOK
  <2>2. QED
    BY <2>1 DEF TypeOK, Stored
<1>2. 0 \in Sets /\ 1 \in Sets /\ 2 \in Sets
  BY DEF Sets
<1>3. QED
  BY <1>1, <1>2 DEF contains

(* Standard: Assign keeps the invariant. *)
LEMMA AssignKeeps ==
  ASSUME IInv, Assign, variant = "Standard"
  PROVE  IInv'
<1>0. PICK p, h, s, f, b :
        /\ p = begin + 1
        /\ h = stack[p]
        /\ s = SetOf(run)
        /\ f = Xor(Xor(Fingerprint(h), Stored(h, (s+1) % 3)), Stored(h, (s+2) % 3))
        /\ b = Slot(h, s)
  OBVIOUS
<1>1. /\ pc = "assign" /\ pc' = pc /\ Hashed /\ Hashed' /\ ~ Peels'
      /\ UNCHANGED <<variant, hash, peelVars>> /\ UNCHANGED <<attempt, run, seed, success>>
      /\ begin' = p
      /\ run > 0 /\ begin < runs[run+1]
      /\ fingerprints' = [fingerprints EXCEPT ![b] = f]
  BY <1>0 DEF Assign, Hashed, Peels
<1>2. TypeOK /\ ControlInv /\ RunsInv /\ StackInv /\ PeelOrder /\ AssignInv /\ AssignedStays
  BY DEF IInv
<1>3. run < Len(runs) /\ runs[run] <= begin
  BY <1>1, <1>2 DEF AssignInv
<1>4. run \in Nat /\ begin \in Nat /\ runs \in Seq(Nat)
  BY <1>2 DEF TypeOK
<1>5. run \in 1 .. Len(runs)-1 /\ run \in DOMAIN runs /\ run+1 \in DOMAIN runs /\ Len(runs) \in DOMAIN runs
  BY <1>1, <1>3, <1>4
<1>6. p \in DOMAIN stack /\ p <= runs[run+1] /\ runs[run] < p /\ p \in Nat
  <2>1. runs[run+1] <= runs[Len(runs)] /\ runs[Len(runs)] = Len(stack)
    BY <1>2, <1>5 DEF RunsInv
  <2>2. runs[run+1] \in Nat /\ runs[run] \in Nat
    BY <1>4, <1>5
  <2>3. Len(stack) \in Nat /\ DOMAIN stack = 1 .. Len(stack)
    BY <1>2 DEF TypeOK
  <2>4. p \in Nat /\ 1 <= p /\ p <= runs[run+1] /\ runs[run] < p
    BY <1>0, <1>1, <1>3, <1>4, <2>2
  <2>5. p <= Len(stack)
    BY <2>1, <2>2, <2>3, <2>4
  <2>6. QED
    BY <2>3, <2>4, <2>5
<1>7. RunOf(p) = run
  BY <1>2, <1>4, <1>5, <1>6, RunIs DEF RunOf, RunsInv
<1>8. HashAt(p) = h /\ PeeledFrom(p) = b /\ h \in Hashes /\ b \in Slots /\ s \in Sets
  BY <1>0, <1>1, <1>2, <1>6, <1>7, StackFacts
<1>9. f \in SUBSET FingerprintBits
  <2>1. Slot(h, (s+1) % 3) \in Slots /\ Slot(h, (s+2) % 3) \in Slots
    <3>1. (s+1) % 3 \in Sets /\ (s+2) % 3 \in Sets
      BY <1>8 DEF Sets
    <3>2. QED
      BY <1>2, <1>8, <3>1, SlotInArray DEF TypeOK
  <2>2. /\ Stored(h, (s+1) % 3) \in SUBSET FingerprintBits
        /\ Stored(h, (s+2) % 3) \in SUBSET FingerprintBits
    BY <1>2, <2>1 DEF TypeOK, Stored
  <2>3. Fingerprint(h) \in SUBSET FingerprintBits
    BY <1>8, FingerprintAssumption
  <2>4. QED
    BY <1>0, <2>2, <2>3 DEF Xor
<1>10. contains(h)'
  <2>1. ASSUME NEW t \in Sets
        PROVE  Stored(h, t)' = IF t = s THEN f ELSE Stored(h, t)
    <3>0. variant \in Variants
      BY <1>2 DEF TypeOK
    <3>1. Slot(h, t) \in Slots
      BY <1>8, <3>0, SlotInArray
    <3>2. Slot(h, t) = b => t = s
      BY <1>0, <1>8, <3>0, SlotsMeet
    <3>3. Stored(h, t)' = fingerprints'[Slot(h, t)]
      BY <1>1, SameKeys DEF Stored
    <3>4. fingerprints'[Slot(h, t)] = IF Slot(h, t) = b THEN f ELSE fingerprints[Slot(h, t)]
      BY <1>1, <1>2, <3>1 DEF TypeOK
    <3>5. QED
      BY <1>0, <3>2, <3>3, <3>4 DEF Stored
  <2>2. contains(h)' <=> Xor(Xor(Stored(h, 0)', Stored(h, 1)'), Stored(h, 2)') = Fingerprint(h)
    BY DEF contains
  <2>3. 0 \in Sets /\ 1 \in Sets /\ 2 \in Sets
    BY DEF Sets
  <2>4. CASE s = 0
    <3>1. f = Xor(Xor(Fingerprint(h), Stored(h, 1)), Stored(h, 2))
      BY <1>0, <2>4
    <3>2. Xor(Xor(f, Stored(h, 1)), Stored(h, 2)) = Fingerprint(h)
      BY <3>1, XorSolves
    <3>3. QED
      BY <2>1, <2>2, <2>3, <2>4, <3>2
  <2>5. CASE s = 1
    <3>1. f = Xor(Xor(Fingerprint(h), Stored(h, 2)), Stored(h, 0))
      BY <1>0, <2>5
    <3>2. Xor(Xor(Stored(h, 0), f), Stored(h, 2)) = Fingerprint(h)
      BY <3>1, XorSolves
    <3>3. QED
      BY <2>1, <2>2, <2>3, <2>5, <3>2
  <2>6. CASE s = 2
    <3>1. f = Xor(Xor(Fingerprint(h), Stored(h, 0)), Stored(h, 1))
      BY <1>0, <2>6
    <3>2. Xor(Xor(Stored(h, 0), Stored(h, 1)), f) = Fingerprint(h)
      BY <3>1, XorSolves
    <3>3. QED
      BY <2>1, <2>2, <2>3, <2>6, <3>2
  <2>7. QED
    BY <1>8, <2>4, <2>5, <2>6 DEF Sets
<1>11. /\ StackInv' /\ PeelOrder' /\ EntriesInv' /\ QueuesInv' /\ SlotQueueInv'
       /\ OnlyCoreRejected'
  BY <1>1, AfterPeeling
<1>12. AssignedStays'
  <2>1. SUFFICES ASSUME NEW q \in DOMAIN stack, Assigned(q)'
                 PROVE  contains(HashAt(q))'
    BY <1>1 DEF AssignedStays, peelVars
  <2>2. HashAt(q)' = HashAt(q) /\ RunOf(q)' = RunOf(q)
    BY <1>1, SameStack DEF peelVars
  <2>3. /\ q \in Nat /\ HashAt(q) \in Hashes /\ RunOf(q) \in 1 .. Len(runs)-1
        /\ runs[RunOf(q)] < q /\ q <= runs[RunOf(q)+1]
        /\ PeeledFrom(q) = Slot(HashAt(q), SetOf(RunOf(q)))
    BY <1>1, <1>2, StackFacts
  <2>4. RunOf(q) > run \/ (RunOf(q) = run /\ q <= p)
    BY <1>1, <2>1, <2>2 DEF Assigned
  <2>5. CASE q = p
    BY <1>8, <1>10, <2>2, <2>5
  <2>6. CASE q # p
    <3>1. Assigned(q)
      BY <1>0, <1>1, <1>4, <2>3, <2>4, <2>6 DEF Assigned
    <3>2. contains(HashAt(q))
      BY <1>2, <3>1 DEF AssignedStays
    <3>3. ASSUME NEW t \in Sets PROVE Slot(HashAt(q), t) # b
      <4>0. variant \in Variants
        BY <1>2 DEF TypeOK
      <4>1. CASE p < q
        BY <1>2, <1>6, <1>8, <4>1 DEF PeelOrder
      <4>2. CASE q < p
        <5>1. RunOf(q) = run
          <6>1. RunOf(q) > run => runs[run+1] <= runs[RunOf(q)]
            <7>1. \A i, j \in DOMAIN runs : i <= j => runs[i] <= runs[j]
              BY <1>2 DEF RunsInv
            <7>2. run+1 \in DOMAIN runs /\ RunOf(q) \in DOMAIN runs /\ run \in Nat
              BY <1>4, <1>5, <2>3
            <7>3. QED
              BY <2>3, <7>1, <7>2
          <6>2. runs[run+1] \in Nat /\ runs[RunOf(q)] \in Nat
            <7>1. RunOf(q) \in DOMAIN runs
              BY <1>4, <2>3
            <7>2. QED
              BY <1>4, <1>5, <7>1, ElementOfSeq
          <6>3. QED
            BY <1>4, <1>6, <2>3, <2>4, <4>2, <6>1, <6>2
        <5>2. Slot(HashAt(q), t) = b => t = s
          BY <1>0, <1>8, <2>3, <4>0, SlotsMeet
        <5>3. PeeledFrom(q) = Slot(HashAt(q), s)
          BY <1>0, <2>3, <5>1
        <5>4. Slot(HashAt(p), s) # PeeledFrom(q)
          BY <1>2, <1>6, <1>8, <4>2 DEF PeelOrder
        <5>5. QED
          BY <1>0, <1>8, <5>2, <5>3, <5>4
      <4>3. QED
        BY <1>6, <2>3, <2>6, <4>1, <4>2
    <3>4. contains(HashAt(q))' = contains(HashAt(q))
      <4>1. PICK g : g = HashAt(q)
        OBVIOUS
      <4>2. contains(g)' = contains(g)
        BY <1>1, <1>2, <1>8, <2>3, <3>3, <4>1, ContainsElsewhere
      <4>3. QED
        BY <2>2, <4>1, <4>2
    <3>5. QED
      BY <2>2, <3>2, <3>4
  <2>7. QED
    BY <2>5, <2>6
<1>13. TypeOK'
  <2>1. fingerprints' \in [Slots -> SUBSET FingerprintBits]
    <3>1. QED
      BY <1>1, <1>2, <1>9 DEF TypeOK
  <2>2. begin' \in Nat
    BY <1>1, <1>6
  <2>3. QED
    BY <1>1, <1>2, <2>1, <2>2, SameKeys DEF TypeOK, peelVars
<1>14. ControlInv' /\ RunsInv'
  BY <1>1, <1>2 DEF ControlInv, RunsInv, Hashed, EmptyQueue, peelVars
<1>15. AssignInv'
  BY <1>0, <1>1, <1>2, <1>3, <1>4, <1>6 DEF AssignInv, ControlInv, peelVars
<1>16. QED
  BY <1>11, <1>12, <1>13, <1>14, <1>15 DEF IInv

(* While no fingerprint is written, a key is found as before.              *)
LEMMA SameContains ==
  ASSUME UNCHANGED <<variant, hash, fingerprints>>
  PROVE  \A h : contains(h)' = contains(h)
BY DEF contains, Stored, Slot, segment

(* The steps after the peeling that write no fingerprint keep all but the  *)
(* two parts that say how far the assignment is.                           *)
LEMMA QuietStep ==
  ASSUME IInv, UNCHANGED <<variant, attempt, hash, peelVars, seed, fingerprints>>,
         Hashed, Hashed', ~ Peels', pc' = "check" => pc = "check",
         begin' \in Nat, run' \in Nat, success' \in BOOLEAN, success' => pc' = "done",
         pc' \in {"check", "assign", "assign_slots", "done"},
         variant = "Standard" => pc' # "assign_slots",
         variant = "Fuse" => pc' # "assign",
         pc' \in {"assign", "assign_slots"} \/ success' => Len(stack) = Cardinality(Keys)
  PROVE  /\ TypeOK' /\ ControlInv' /\ RunsInv' /\ StackInv' /\ PeelOrder' /\ EntriesInv'
         /\ QueuesInv' /\ SlotQueueInv' /\ OnlyCoreRejected'
         /\ \A p : RunOf(p)' = RunOf(p) /\ HashAt(p)' = HashAt(p) /\ PeeledFrom(p)' = PeeledFrom(p)
         /\ \A h : contains(h)' = contains(h)
         /\ Slots' = Slots
<1>1. TypeOK'
  BY SameKeys DEF IInv, TypeOK, peelVars
<1>2. ControlInv'
  BY DEF IInv, ControlInv, peelVars, Hashed
<1>3. RunsInv'
  BY DEF IInv, RunsInv, peelVars, Peels
<1>4. QED
  BY <1>1, <1>2, <1>3, AfterPeeling, SameStack, SameContains, SameKeys DEF peelVars

(* Standard: so does the step to an earlier run. *)
LEMMA PreviousRunKeeps ==
  ASSUME IInv, PreviousRun, variant = "Standard"
  PROVE  IInv'
<1>1. /\ pc = "assign" /\ pc' = pc /\ Hashed /\ Hashed' /\ ~ Peels'
      /\ UNCHANGED <<variant, attempt, hash, peelVars, seed, fingerprints, success>>
      /\ run > 0 /\ begin = runs[run+1]
      /\ run' = run - 1
      /\ begin' = IF run' = 0 THEN 0 ELSE runs[run']
  BY DEF PreviousRun, resultVars, Hashed, Peels
<1>2. TypeOK /\ ControlInv /\ RunsInv /\ StackInv /\ AssignInv /\ AssignedStays
  BY DEF IInv
<1>3. run \in Nat /\ begin \in Nat /\ runs \in Seq(Nat) /\ run < Len(runs)
      /\ DOMAIN runs = 1 .. Len(runs) /\ Len(runs) \in Nat
  BY <1>1, <1>2 DEF TypeOK, AssignInv
<1>4. run' \in Nat /\ begin' \in Nat
  <2>1. run' # 0 => run' \in DOMAIN runs
    BY <1>1, <1>3
  <2>2. run' # 0 => runs[run'] \in Nat
    BY <1>3, <2>1, ElementOfSeq
  <2>3. QED
    BY <1>1, <1>3, <2>2
<1>5. success = FALSE /\ Len(stack) = Cardinality(Keys)
  BY <1>1, <1>2 DEF ControlInv, TypeOK
<1>6. /\ TypeOK' /\ ControlInv' /\ RunsInv' /\ StackInv' /\ PeelOrder' /\ EntriesInv'
      /\ QueuesInv' /\ SlotQueueInv' /\ OnlyCoreRejected'
      /\ \A p : RunOf(p)' = RunOf(p) /\ HashAt(p)' = HashAt(p) /\ PeeledFrom(p)' = PeeledFrom(p)
      /\ \A h : contains(h)' = contains(h)
  BY <1>1, <1>4, <1>5, QuietStep
<1>7. AssignInv'
  <2>1. run' > 0 => runs[run'] <= begin' /\ begin' <= runs[run'+1] /\ run' < Len(runs)
    <3>1. SUFFICES ASSUME run' > 0 PROVE runs[run'] <= begin' /\ begin' <= runs[run'+1]
      BY <1>1, <1>3
    <3>2. run' \in DOMAIN runs /\ run'+1 \in DOMAIN runs /\ run' <= run'+1
      BY <1>1, <1>3, <3>1
    <3>3. runs[run'] <= runs[run'+1] /\ begin' = runs[run']
      BY <1>1, <1>2, <3>1, <3>2 DEF RunsInv
    <3>4. QED
      BY <1>4, <3>3
  <2>2. QED
    BY <1>1, <1>3, <1>4, <1>5, <2>1 DEF AssignInv, peelVars
<1>8. AssignedStays'
  <2>1. SUFFICES ASSUME NEW q \in DOMAIN stack, Assigned(q)'
                 PROVE  contains(HashAt(q))'
    BY <1>1 DEF AssignedStays, peelVars
  <2>2. PICK g : g = HashAt(q)
    OBVIOUS
  <2>3. /\ q \in Nat /\ RunOf(q) \in 1 .. Len(runs)-1
        /\ runs[RunOf(q)] < q /\ q <= runs[RunOf(q)+1]
    BY <1>1, <1>2, StackFacts
  <2>4. RunOf(q) > run - 1 \/ (RunOf(q) = run - 1 /\ q <= begin')
    BY <1>1, <1>6, <2>1 DEF Assigned
  <2>5. Assigned(q)
    <3>1. RunOf(q) = run - 1 => begin' = runs[RunOf(q)]
      BY <1>1, <2>3
    <3>2. runs[RunOf(q)] \in Nat
      BY <1>3, <2>3, ElementOfSeq
    <3>3. RunOf(q) > run - 1
      BY <1>3, <1>4, <2>3, <2>4, <3>1, <3>2
    <3>4. RunOf(q) > run \/ (RunOf(q) = run /\ q <= begin)
      BY <1>1, <1>3, <2>3, <3>3
    <3>5. QED
      BY <1>1, <3>4 DEF Assigned
  <2>6. contains(g)
    BY <1>2, <2>2, <2>5 DEF AssignedStays
  <2>7. QED
    BY <1>6, <2>2, <2>6
<1>9. QED
  BY <1>6, <1>7, <1>8 DEF IInv

(* Standard: reporting success keeps the invariant. *)
LEMMA SucceedKeeps ==
  ASSUME IInv, Succeed, variant = "Standard"
  PROVE  IInv'
<1>1. /\ pc = "assign" /\ pc' = "done" /\ Hashed /\ Hashed' /\ ~ Peels'
      /\ UNCHANGED <<variant, attempt, hash, peelVars, seed, fingerprints>>
      /\ UNCHANGED <<begin, run>>
      /\ run = 0 /\ success' = TRUE
  BY DEF Succeed, Finish, Hashed, Peels
<1>2. TypeOK /\ ControlInv /\ RunsInv /\ StackInv /\ AssignInv /\ AssignedStays
  BY DEF IInv
<1>3. Len(stack) = Cardinality(Keys) /\ begin' \in Nat /\ run' \in Nat
  BY <1>1, <1>2 DEF ControlInv, TypeOK
<1>4. /\ TypeOK' /\ ControlInv' /\ RunsInv' /\ StackInv' /\ PeelOrder' /\ EntriesInv'
      /\ QueuesInv' /\ SlotQueueInv' /\ OnlyCoreRejected'
      /\ \A p : RunOf(p)' = RunOf(p) /\ HashAt(p)' = HashAt(p) /\ PeeledFrom(p)' = PeeledFrom(p)
      /\ \A h : contains(h)' = contains(h)
  BY <1>1, <1>3, QuietStep
<1>5. ASSUME NEW p \in DOMAIN stack
      PROVE  contains(HashAt(p))'
  <2>1. PICK g : g = HashAt(p)
    OBVIOUS
  <2>2. RunOf(p) > run
    BY <1>1, <1>2, StackFacts
  <2>3. contains(g)
    BY <1>1, <1>2, <2>1, <2>2 DEF AssignedStays, Assigned
  <2>4. QED
    BY <1>4, <2>1, <2>3
<1>6. AssignInv' /\ AssignedStays'
  BY <1>1, <1>5 DEF AssignInv, AssignedStays, peelVars
<1>7. QED
  BY <1>4, <1>6 DEF IInv

(* Standard: so does the step from peeling to assigning. *)
LEMMA PeeledKeeps ==
  ASSUME IInv, Peeled
  PROVE  IInv'
<1>1. /\ pc = "check" /\ pc' = "assign" /\ Hashed /\ Hashed' /\ ~ Peels'
      /\ variant = "Standard" /\ Len(stack) = Cardinality(Keys)
      /\ UNCHANGED <<variant, attempt, hash, peelVars, seed, fingerprints, success>>
      /\ run' = Len(runs) - 1
      /\ begin' = IF run' = 0 THEN 0 ELSE runs[run']
  BY DEF Peeled, resultVars, Hashed, Peels
<1>2. TypeOK /\ ControlInv /\ RunsInv /\ StackInv /\ AssignInv /\ AssignedStays
  BY DEF IInv
<1>3. runs \in Seq(Nat) /\ Len(runs) \in Nat /\ Len(runs) > 0 /\ DOMAIN runs = 1 .. Len(runs)
  BY <1>2 DEF TypeOK
<1>4. run' \in Nat /\ begin' \in Nat
  <2>1. run' # 0 => run' \in DOMAIN runs
    BY <1>1, <1>3
  <2>2. run' # 0 => runs[run'] \in Nat
    BY <1>3, <2>1, ElementOfSeq
  <2>3. QED
    BY <1>1, <1>3, <2>2
<1>5. success = FALSE
  BY <1>1, <1>2 DEF ControlInv, TypeOK
<1>6. /\ TypeOK' /\ ControlInv' /\ RunsInv' /\ StackInv' /\ PeelOrder' /\ EntriesInv'
      /\ QueuesInv' /\ SlotQueueInv' /\ OnlyCoreRejected'
      /\ \A p : RunOf(p)' = RunOf(p) /\ HashAt(p)' = HashAt(p) /\ PeeledFrom(p)' = PeeledFrom(p)
      /\ \A h : contains(h)' = contains(h)
  BY <1>1, <1>4, <1>5, QuietStep
<1>7. AssignInv'
  <2>1. run' > 0 => runs[run'] <= begin' /\ begin' <= runs[run'+1]
    <3>1. SUFFICES ASSUME run' > 0 PROVE runs[run'] <= begin' /\ begin' <= runs[run'+1]
      OBVIOUS
    <3>2. run' \in DOMAIN runs /\ run'+1 \in DOMAIN runs /\ run' <= run'+1
      BY <1>1, <1>3, <3>1
    <3>3. runs[run'] <= runs[run'+1] /\ begin' = runs[run']
      BY <1>1, <1>2, <3>1, <3>2 DEF RunsInv
    <3>4. QED
      BY <1>4, <3>3
  <2>2. run' < Len(runs)
    BY <1>1, <1>3
  <2>3. runs' = runs /\ fingerprints' = fingerprints /\ success' = FALSE
    BY <1>1, <1>5 DEF peelVars
  <2>4. pc = "check" /\ pc' = "assign"
    BY <1>1
  <2>5. QED
    BY <2>1, <2>2, <2>3, <2>4 DEF AssignInv
<1>8. AssignedStays'
  <2>1. SUFFICES ASSUME NEW q \in DOMAIN stack, Assigned(q)'
                 PROVE  FALSE
    BY <1>1 DEF AssignedStays, peelVars
  <2>2. /\ q \in Nat /\ RunOf(q) \in 1 .. Len(runs)-1
        /\ runs[RunOf(q)] < q /\ q <= runs[RunOf(q)+1]
    BY <1>1, <1>2, StackFacts
  <2>3. RunOf(q) > run' \/ (RunOf(q) = run' /\ q <= begin')
    BY <1>1, <1>6, <2>1 DEF Assigned
  <2>4. RunOf(q) = run' => begin' = runs[RunOf(q)]
    BY <1>1, <2>2
  <2>5. runs[RunOf(q)] \in Nat
    BY <1>3, <2>2, ElementOfSeq
  <2>6. QED
    BY <1>1, <1>3, <1>4, <2>2, <2>3, <2>4, <2>5
<1>9. QED
  BY <1>6, <1>7, <1>8 DEF IInv

(* Giving up keeps the invariant. *)
LEMMA GiveUpKeeps ==
  ASSUME IInv, GiveUp
  PROVE  IInv'
<1>1. /\ pc = "check" /\ pc' = "done" /\ Hashed /\ Hashed' /\ ~ Peels'
      /\ UNCHANGED <<variant, attempt, hash, peelVars, seed, fingerprints, success>>
      /\ UNCHANGED <<begin, run>>
  BY DEF GiveUp, resultVars, Hashed, Peels
<1>2. TypeOK /\ ControlInv
  BY DEF IInv
<1>3. success = FALSE /\ begin' \in Nat /\ run' \in Nat
  BY <1>1, <1>2 DEF ControlInv, TypeOK
<1>4. /\ TypeOK' /\ ControlInv' /\ RunsInv' /\ StackInv' /\ PeelOrder' /\ EntriesInv'
      /\ QueuesInv' /\ SlotQueueInv' /\ OnlyCoreRejected'
  BY <1>1, <1>3, QuietStep
<1>5. AssignInv' /\ AssignedStays'
  BY <1>1, <1>3 DEF AssignInv, AssignedStays, Assigned
<1>6. QED
  BY <1>4, <1>5 DEF IInv

(* Fuse: so does the step from peeling to assigning. *)
LEMMA PeeledSlotsKeeps ==
  ASSUME IInv, PeeledSlots
  PROVE  IInv'
<1>1. /\ pc = "check" /\ pc' = "assign_slots" /\ Hashed /\ Hashed' /\ ~ Peels'
      /\ variant = "Fuse" /\ Len(stack) = Cardinality(Keys)
      /\ UNCHANGED <<variant, attempt, hash, peelVars, seed, fingerprints, success>>
      /\ UNCHANGED run /\ begin' = Len(stack)
  BY DEF PeeledSlots, resultVars, Hashed, Peels
<1>2. TypeOK /\ ControlInv /\ RunsInv /\ StackInv /\ AssignInv
  BY DEF IInv
<1>3. Len(stack) \in Nat /\ DOMAIN stack = 1 .. Len(stack)
  BY <1>1, <1>2 DEF TypeOK
<1>4. success = FALSE /\ begin' \in Nat /\ run' \in Nat
  BY <1>1, <1>2, <1>3 DEF ControlInv, TypeOK
<1>5. /\ TypeOK' /\ ControlInv' /\ RunsInv' /\ StackInv' /\ PeelOrder' /\ EntriesInv'
      /\ QueuesInv' /\ SlotQueueInv' /\ OnlyCoreRejected'
      /\ \A p : RunOf(p)' = RunOf(p) /\ HashAt(p)' = HashAt(p) /\ PeeledFrom(p)' = PeeledFrom(p)
      /\ \A h : contains(h)' = contains(h)
  BY <1>1, <1>4, QuietStep
<1>6. AssignInv'
  <2>1. ASSUME NEW p \in DOMAIN stack
        PROVE  fingerprints[PeeledFrom(p)] = {}
    <3>1. PeeledFrom(p) \in Slots
      BY <1>1, <1>2, StackFacts
    <3>2. fingerprints = [a \in Slots |-> {}]
      BY <1>1, <1>2 DEF AssignInv
    <3>3. QED
      BY <3>1, <3>2
  <2>2. \A p \in 1..begin' : fingerprints'[PeeledFrom(p)'] = {}
    BY <1>1, <1>3, <1>5, <2>1
  <2>3. begin' <= Len(stack')
    BY <1>1, <1>3 DEF peelVars
  <2>4. QED
    BY <1>1, <1>4, <2>2, <2>3 DEF AssignInv
<1>7. AssignedStays'
  BY <1>1, <1>3 DEF AssignedStays, Assigned, peelVars
<1>8. QED
  BY <1>5, <1>6, <1>7 DEF IInv

(* Fuse: reporting success keeps the invariant. *)
LEMMA SucceedSlotsKeeps ==
  ASSUME IInv, SucceedSlots, variant = "Fuse"
  PROVE  IInv'
<1>1. /\ pc = "assign_slots" /\ pc' = "done" /\ Hashed /\ Hashed' /\ ~ Peels'
      /\ UNCHANGED <<variant, attempt, hash, peelVars, seed, fingerprints>>
      /\ UNCHANGED <<begin, run>>
      /\ begin = 0 /\ success' = TRUE
  BY DEF SucceedSlots, Finish, Hashed, Peels
<1>2. TypeOK /\ ControlInv /\ AssignedStays
  BY DEF IInv
<1>3. Len(stack) = Cardinality(Keys) /\ begin' \in Nat /\ run' \in Nat
  BY <1>1, <1>2 DEF ControlInv, TypeOK
<1>4. /\ TypeOK' /\ ControlInv' /\ RunsInv' /\ StackInv' /\ PeelOrder' /\ EntriesInv'
      /\ QueuesInv' /\ SlotQueueInv' /\ OnlyCoreRejected'
      /\ \A p : RunOf(p)' = RunOf(p) /\ HashAt(p)' = HashAt(p) /\ PeeledFrom(p)' = PeeledFrom(p)
      /\ \A h : contains(h)' = contains(h)
  BY <1>1, <1>3, QuietStep
<1>5. ASSUME NEW p \in DOMAIN stack
      PROVE  contains(HashAt(p))'
  <2>1. PICK g : g = HashAt(p)
    OBVIOUS
  <2>2. p > begin
    BY <1>1, <1>2 DEF TypeOK
  <2>3. contains(g)
    BY <1>1, <1>2, <2>1, <2>2 DEF AssignedStays, Assigned
  <2>4. QED
    BY <1>4, <2>1, <2>3
<1>6. AssignInv' /\ AssignedStays'
  BY <1>1, <1>5 DEF AssignInv, AssignedStays, peelVars
<1>7. QED
  BY <1>4, <1>6 DEF IInv

(* Fuse: AssignSlot keeps the invariant. *)
LEMMA AssignSlotKeeps ==
  ASSUME IInv, AssignSlot, variant = "Fuse"
  PROVE  IInv'
<1>0. PICK p, h, b, f :
        /\ p = begin
        /\ h = stack[p].hash
        /\ b = stack[p].address
        /\ f = Xor(Fingerprint(h), Xor(Xor(Stored(h, 0), Stored(h, 1)), Stored(h, 2)))
  OBVIOUS
<1>1. /\ pc = "assign_slots" /\ pc' = pc /\ Hashed /\ Hashed' /\ ~ Peels'
      /\ UNCHANGED <<variant, hash, peelVars>> /\ UNCHANGED <<attempt, run, seed, success>>
      /\ begin' = p - 1 /\ p > 0
      /\ fingerprints' = [fingerprints EXCEPT ![b] = f]
  BY <1>0 DEF AssignSlot, Hashed, Peels
<1>2. TypeOK /\ ControlInv /\ RunsInv /\ StackInv /\ PeelOrder /\ AssignInv /\ AssignedStays
  BY DEF IInv
<1>3. p \in DOMAIN stack /\ p \in Nat /\ begin' \in Nat
  BY <1>0, <1>1, <1>2 DEF TypeOK, AssignInv
<1>4. HashAt(p) = h /\ PeeledFrom(p) = b /\ h \in Hashes /\ b \in Slots
  BY <1>0, <1>1, <1>2, <1>3, StackFacts DEF HashAt, PeeledFrom
<1>5. PICK s \in Sets : b = Slot(h, s)
  BY <1>1, <1>2, <1>3, <1>4 DEF StackInv
<1>6. variant \in Variants /\ 0 \in Sets /\ 1 \in Sets /\ 2 \in Sets
  BY <1>2 DEF TypeOK, Sets
<1>7. \A t \in Sets : Slot(h, t) \in Slots
  BY <1>4, <1>6, SlotInArray
<1>8. f \in SUBSET FingerprintBits
  <2>1. \A t \in Sets : Stored(h, t) \in SUBSET FingerprintBits
    BY <1>2, <1>7 DEF TypeOK, Stored
  <2>2. Fingerprint(h) \in SUBSET FingerprintBits
    BY <1>4, FingerprintAssumption
  <2>3. QED
    BY <1>0, <1>6, <2>1, <2>2 DEF Xor
<1>9. contains(h)'
  <2>1. ASSUME NEW t \in Sets
        PROVE  Stored(h, t)' = IF t = s THEN f ELSE Stored(h, t)
    <3>1. Slot(h, t) = b => t = s
      BY <1>4, <1>5, <1>6, SlotsMeet
    <3>2. Stored(h, t)' = fingerprints'[Slot(h, t)]
      BY <1>1, SameKeys DEF Stored
    <3>3. fingerprints'[Slot(h, t)] = IF Slot(h, t) = b THEN f ELSE fingerprints[Slot(h, t)]
      BY <1>1, <1>2, <1>7 DEF TypeOK
    <3>4. QED
      BY <1>5, <3>1, <3>2, <3>3 DEF Stored
  <2>2. contains(h)' <=> Xor(Xor(Stored(h, 0)', Stored(h, 1)'), Stored(h, 2)') = Fingerprint(h)
    BY DEF contains
  <2>3. Stored(h, s) = {}
    BY <1>0, <1>1, <1>2, <1>3, <1>4, <1>5 DEF AssignInv, Stored
  <2>4. CASE s = 0
    <3>1. f = Xor(Fingerprint(h), Xor(Xor({}, Stored(h, 1)), Stored(h, 2)))
      BY <1>0, <2>3, <2>4
    <3>2. Xor(Xor(f, Stored(h, 1)), Stored(h, 2)) = Fingerprint(h)
      BY <3>1, XorSolves
    <3>3. QED
      BY <1>6, <2>1, <2>2, <2>4, <3>2
  <2>5. CASE s = 1
    <3>1. f = Xor(Fingerprint(h), Xor(Xor(Stored(h, 0), {}), Stored(h, 2)))
      BY <1>0, <2>3, <2>5
    <3>2. Xor(Xor(Stored(h, 0), f), Stored(h, 2)) = Fingerprint(h)
      BY <3>1, XorSolves
    <3>3. QED
      BY <1>6, <2>1, <2>2, <2>5, <3>2
  <2>6. CASE s = 2
    <3>1. f = Xor(Fingerprint(h), Xor(Xor(Stored(h, 0), Stored(h, 1)), {}))
      BY <1>0, <2>3, <2>6
    <3>2. Xor(Xor(Stored(h, 0), Stored(h, 1)), f) = Fingerprint(h)
      BY <3>1, XorSolves
    <3>3. QED
      BY <1>6, <2>1, <2>2, <2>6, <3>2
  <2>7. QED
    BY <2>4, <2>5, <2>6 DEF Sets
<1>10. /\ StackInv' /\ PeelOrder' /\ EntriesInv' /\ QueuesInv' /\ SlotQueueInv'
       /\ OnlyCoreRejected'
  BY <1>1, AfterPeeling
<1>11. \A q : HashAt(q)' = HashAt(q) /\ PeeledFrom(q)' = PeeledFrom(q)
  BY <1>1, SameStack DEF peelVars
<1>12. AssignedStays'
  <2>1. SUFFICES ASSUME NEW q \in DOMAIN stack, Assigned(q)'
                 PROVE  contains(HashAt(q))'
    BY <1>1 DEF AssignedStays, peelVars
  <2>2. PICK g : g = HashAt(q)
    OBVIOUS
  <2>3. q \in Nat /\ g \in Hashes
    BY <1>1, <1>2, <2>2, StackFacts
  <2>4. q > p - 1
    BY <1>1, <2>1 DEF Assigned
  <2>5. CASE q = p
    BY <1>4, <1>9, <1>11, <2>2, <2>5
  <2>6. CASE q # p
    <3>1. p < q
      BY <1>3, <2>3, <2>4, <2>6
    <3>2. contains(g)
      BY <1>0, <1>1, <1>2, <2>2, <3>1 DEF AssignedStays, Assigned
    <3>3. \A t \in Sets : Slot(g, t) # b
      BY <1>2, <1>3, <1>4, <2>2, <3>1 DEF PeelOrder
    <3>4. contains(g)' = contains(g)
      BY <1>1, <1>2, <1>4, <2>3, <3>3, ContainsElsewhere
    <3>5. QED
      BY <1>11, <2>2, <3>2, <3>4
  <2>7. QED
    BY <2>5, <2>6
<1>13. TypeOK'
  <2>1. fingerprints' \in [Slots -> SUBSET FingerprintBits]
    BY <1>1, <1>2, <1>8 DEF TypeOK
  <2>2. QED
    BY <1>1, <1>2, <1>3, <2>1, SameKeys DEF TypeOK, peelVars
<1>14. ControlInv' /\ RunsInv'
  BY <1>1, <1>2 DEF ControlInv, RunsInv, Hashed, EmptyQueue, peelVars
<1>15. AssignInv'
  <2>1. ASSUME NEW q \in 1 .. p-1
        PROVE  fingerprints'[PeeledFrom(q)] = {}
    <3>1. q \in DOMAIN stack /\ q \in 1..begin /\ q < p
      BY <1>0, <1>1, <1>2, <1>3 DEF AssignInv, TypeOK
    <3>2. PeeledFrom(q) # b
      BY <1>2, <1>3, <1>4, <1>5, <3>1 DEF PeelOrder
    <3>3. PeeledFrom(q) \in Slots
      BY <1>1, <1>2, <3>1, StackFacts
    <3>4. fingerprints[PeeledFrom(q)] = {}
      BY <1>1, <1>2, <3>1 DEF AssignInv
    <3>5. QED
      BY <1>1, <1>2, <3>2, <3>3, <3>4 DEF TypeOK
  <2>2. \A q \in 1..begin' : fingerprints'[PeeledFrom(q)'] = {}
    BY <1>1, <1>11, <2>1
  <2>3. begin' <= Len(stack') /\ success' = FALSE
    BY <1>0, <1>1, <1>2, <1>3 DEF AssignInv, ControlInv, TypeOK, peelVars
  <2>4. QED
    BY <1>1, <2>2, <2>3 DEF AssignInv
<1>16. QED
  BY <1>10, <1>12, <1>13, <1>14, <1>15 DEF IInv

-----------------------------------------------------------------------------
(* The beginning of an attempt. *)

(* Before the set is filled there is nothing but the seed to speak of.     *)
LEMMA Unfilled == TypeOK /\ ControlInv /\ AssignInv /\ ~ Hashed => IInv
<1> SUFFICES ASSUME TypeOK, ControlInv, AssignInv, ~ Hashed
             PROVE  IInv
  OBVIOUS
<1>1. /\ pc \in {"hash", "fill"} /\ stack = <<>> /\ runs = <<0>> /\ set0 = 0 /\ begin = 0
      /\ DOMAIN stack = {}
  BY DEF Hashed, ControlInv
<1>2. RunsInv
  <2>1. DOMAIN runs = {1} /\ runs[1] = 0 /\ Len(runs) = 1 /\ Len(stack) = 0
    BY <1>1
  <2>2. QED
    BY <1>1, <2>1 DEF RunsInv
<1>3. StackInv /\ EntriesInv /\ QueuesInv /\ SlotQueueInv
  BY DEF StackInv, EntriesInv, QueuesInv, SlotQueueInv
<1>4. PeelOrder /\ OnlyCoreRejected /\ AssignedStays
  BY <1>1 DEF PeelOrder, OnlyCoreRejected, AssignedStays
<1>5. QED
  BY <1>2, <1>3, <1>4 DEF IInv

(* The first attempt starts that way. *)
LEMMA InitKeeps ==
  ASSUME Init
  PROVE  IInv
<1>1. TypeOK
  <2>1. xor_set \in [Slots -> [hash : Hashes, counter : Nat]]
    BY DEF Init, Empty, Hashes
  <2>2. <<0>> \in Seq(Nat) /\ <<0>> # <<>>
    OBVIOUS
  <2>3. fingerprints \in [Slots -> SUBSET FingerprintBits]
    BY DEF Init
  <2>4. IF variant = "Standard"
        THEN queue \in [Sets -> Seq(Hashes)] /\ stack \in Seq(Hashes)
        ELSE queue \in Seq(Slots) /\ stack \in Seq([hash : Hashes, address : Slots])
    BY DEF Init, EmptyQueue
  <2>5. 0 \in 0..MaxRetries /\ 0 \in Sets
    BY RetriesAssumption DEF Sets
  <2>6. QED
    BY <2>1, <2>2, <2>3, <2>4, <2>5 DEF Init, TypeOK
<1>2. ControlInv /\ AssignInv /\ ~ Hashed
  BY DEF Init, ControlInv, AssignInv, Hashed
<1>3. QED
  BY <1>1, <1>2, Unfilled

(* So does each attempt, once its hashes are known. *)
LEMMA HashKeeps ==
  ASSUME IInv, Hash
  PROVE  IInv'
<1>1. TypeOK /\ ControlInv /\ AssignInv
  BY DEF IInv
<1>2. /\ pc = "hash" /\ pc' = "fill" /\ hash' \in [Keys -> Hashes]
      /\ UNCHANGED <<variant, attempt, begin, run>>
      /\ UNCHANGED <<xor_set, queue, stack, runs, set0>>
      /\ UNCHANGED <<seed, fingerprints, success>>
  BY HashAssumption DEF Hash, peelVars, resultVars
<1>3. Slots' = Slots
  BY <1>2 DEF Slots
<1>4. TypeOK'
  BY <1>1, <1>2, <1>3 DEF TypeOK
<1>5. ControlInv' /\ AssignInv' /\ ~ Hashed'
  BY <1>1, <1>2, <1>3 DEF ControlInv, AssignInv, Hashed, EmptyQueue
<1>6. QED
  BY <1>4, <1>5, Unfilled, PTL

(* And a retry leads back to its beginning, with the next seed. *)
LEMMA RetryKeeps ==
  ASSUME IInv, Retry
  PROVE  IInv'
<1>1. TypeOK /\ ControlInv /\ AssignInv
  BY DEF IInv
<1>2. /\ pc = "check" /\ pc' = "hash" /\ attempt < MaxRetries
      /\ attempt' = attempt + 1 /\ seed' = attempt' /\ hash' = Null
      /\ UNCHANGED <<variant, run, fingerprints, success>>
      /\ xor_set' = [a \in Slots |-> Empty] /\ queue' = EmptyQueue
      /\ stack' = <<>> /\ runs' = <<0>> /\ set0' = 0 /\ begin' = 0
  BY DEF Retry, Fresh
<1>3. Slots' = Slots
  BY <1>2 DEF Slots
<1>4. TypeOK'
  <2>1. xor_set' \in [Slots -> [hash : Hashes, counter : Nat]]
    BY <1>2 DEF Empty, Hashes
  <2>2. <<0>> \in Seq(Nat) /\ <<0>> # <<>>
    OBVIOUS
  <2>3. IF variant = "Standard"
        THEN queue' \in [Sets -> Seq(Hashes)] /\ stack' \in Seq(Hashes)
        ELSE queue' \in Seq(Slots) /\ stack' \in Seq([hash : Hashes, address : Slots])
    BY <1>2 DEF EmptyQueue
  <2>4. attempt + 1 \in 0..MaxRetries /\ 0 \in Sets
    BY <1>1, <1>2, RetriesAssumption DEF TypeOK, Sets
  <2>5. QED
    BY <1>1, <1>2, <1>3, <2>1, <2>2, <2>3, <2>4 DEF TypeOK
<1>5. ControlInv' /\ AssignInv' /\ ~ Hashed'
  BY <1>1, <1>2, <1>3 DEF ControlInv, AssignInv, Hashed, EmptyQueue
<1>6. QED
  BY <1>4, <1>5, Unfilled, PTL

(* Filling the set and the queues. *)

(* What the scan of set s should queue when every entry counts all its     *)
(* keys: the hashes of the keys that are alone in a slot of it, once each. *)
AloneQueued(q, set, s) ==
  /\ q \in Seq(Hashes)
  /\ \A n \in DOMAIN q : /\ \E x \in Keys : q[n] = hash[x]
                         /\ set[Slot(q[n], s)].counter = 1
  /\ \A n, m \in DOMAIN q : n # m => Slot(q[n], s) # Slot(q[m], s)
  /\ \A x \in Keys : set[Slot(hash[x], s)].counter = 1
                       => \E n \in DOMAIN q : q[n] = hash[x]

(* It does. *)
LEMMA ScanStandard ==
  ASSUME variant = "Standard", hash \in [Keys -> Hashes],
         NEW set, \A a \in Slots : set[a] = EntryOf(In(a)),
         NEW s \in Sets, NEW q, q = scan_for_single(set, s)
  PROVE  AloneQueued(q, set, s)
<1>1. variant \in Variants /\ NSlots \in Nat /\ s \in Nat /\ s * NSlots \in Nat
  BY SlotsAssumption DEF Variants, Sets
<1>2. PICK alone : alone = AloneSlots(set, s * NSlots, NSlots)
  OBVIOUS
<1> DEFINE Stretch == s * NSlots .. s * NSlots + NSlots - 1
<1>3. /\ alone \in Seq(Stretch)
      /\ \A p \in DOMAIN alone : set[alone[p]].counter = 1
      /\ \A a \in Stretch : set[a].counter = 1 => \E p \in DOMAIN alone : alone[p] = a
      /\ \A p, r \in DOMAIN alone : p < r => alone[p] < alone[r]
  <2>1. PICK first, n : first = s * NSlots /\ n = NSlots
    OBVIOUS
  <2>2. first \in Nat /\ n \in Nat /\ alone = AloneSlots(set, first, n)
        /\ Stretch = first .. first + n-1
    BY <1>1, <1>2, <2>1
  <2>3. SlotsFound(alone, set, first, n)
    BY <2>2, ScanFindsAlone
  <2> HIDE DEF Stretch
  <2>4. QED
    BY <2>2, <2>3 DEF SlotsFound
<1>4. \A a \in Stretch : a \in Slots
  <2>1. Slots = 0 .. 3 * NSlots - 1
    BY DEF Slots
  <2>2. s * NSlots + NSlots <= 3 * NSlots
    BY <1>1 DEF Sets
  <2>3. QED
    BY <1>1, <2>1, <2>2
<1>5. \A x \in Keys, t \in Sets : Slot(hash[x], t) \in Stretch => t = s
  <2>1. SUFFICES ASSUME NEW x \in Keys, NEW t \in Sets, Slot(hash[x], t) \in Stretch
                 PROVE  t = s
    OBVIOUS
  <2>2. /\ Slot(hash[x], t) \in Nat
        /\ t * NSlots <= Slot(hash[x], t) /\ Slot(hash[x], t) < t * NSlots + NSlots
    BY <1>1, SlotInArray DEF segment, Sets
  <2>3. CASE t = 0
    BY <1>1, <2>1, <2>2, <2>3 DEF Sets
  <2>4. CASE t = 1
    BY <1>1, <2>1, <2>2, <2>4 DEF Sets
  <2>5. CASE t = 2
    BY <1>1, <2>1, <2>2, <2>5 DEF Sets
  <2>6. QED
    BY <2>3, <2>4, <2>5 DEF Sets
<1> HIDE DEF Stretch
<1>6. \A p \in DOMAIN alone : alone[p] \in Stretch
  BY <1>3, ElementOfSeq
<1>7. ASSUME NEW a \in Stretch, set[a].counter = 1
      PROVE  \E x \in Keys : In(a) = {x} /\ set[a].hash = hash[x] /\ Slot(hash[x], s) = a
  <2>1. set[a] = EntryOf(In(a)) /\ In(a) \in SUBSET Keys
    BY <1>4 DEF In
  <2>2. PICK x \in In(a) : In(a) = {x}
    BY <1>7, <2>1, EntryFacts
  <2>3. set[a].hash = hash[x]
    BY <2>1, <2>2, EntryFacts
  <2>4. PICK t \in Sets : Slot(hash[x], t) = a
    BY <2>2 DEF In
  <2>5. t = s
    BY <1>5, <2>1, <2>4
  <2>6. QED
    BY <2>1, <2>2, <2>3, <2>4, <2>5
<1>9. q = [n \in DOMAIN alone |-> set[alone[n]].hash]
  BY <1>2 DEF scan_for_single
<1>10. ASSUME NEW n \in DOMAIN alone
       PROVE  /\ \E x \in Keys : q[n] = hash[x]
              /\ Slot(q[n], s) = alone[n] /\ set[alone[n]].counter = 1
  BY <1>3, <1>6, <1>7, <1>9
<1>11. q \in Seq(Hashes)
  <2>1. \A n \in DOMAIN alone : q[n] \in Hashes
    BY <1>10
  <2>2. Len(alone) \in Nat /\ DOMAIN alone = 1 .. Len(alone)
    BY <1>3
  <2>3. q = [n \in 1 .. Len(alone) |-> q[n]]
    BY <1>9, <2>2
  <2>4. \A n \in 1 .. Len(alone) : q[n] \in Hashes
    BY <2>1, <2>2
  <2>5. q \in [1 .. Len(alone) -> Hashes]
    BY <2>3, <2>4
  <2>6. QED
    BY <2>2, <2>5, SeqDef
<1>12. ASSUME NEW n \in DOMAIN alone, NEW m \in DOMAIN alone, n # m
       PROVE  alone[n] # alone[m]
  <2>1. n \in Nat /\ m \in Nat
    BY <1>3
  <2>2. alone[n] \in Int /\ alone[m] \in Int
    <3>1. \A a \in Stretch : a \in Int
      BY <1>1 DEF Stretch
    <3>2. QED
      BY <1>6, <3>1
  <2>3. QED
    BY <1>3, <1>12, <2>1, <2>2
<1>13. ASSUME NEW x \in Keys, set[Slot(hash[x], s)].counter = 1
       PROVE  \E n \in DOMAIN alone : q[n] = hash[x]
  <2>1. Slot(hash[x], s) \in Stretch
    BY SlotOfSet DEF Stretch
  <2>2. PICK n \in DOMAIN alone : alone[n] = Slot(hash[x], s)
    BY <1>3, <1>13, <2>1
  <2>3. PICK y \in Keys : In(alone[n]) = {y} /\ q[n] = hash[y]
    BY <1>6, <1>7, <1>9, <1>10
  <2>4. x \in In(alone[n])
    BY <2>2 DEF In
  <2>5. QED
    BY <2>3, <2>4
<1>14. DOMAIN q = DOMAIN alone
  BY <1>9
<1>15. QED
  BY <1>10, <1>11, <1>12, <1>13, <1>14 DEF AloneQueued

(* Standard: filling the set and the queues establishes the invariant.     *)
LEMMA FillKeeps ==
  ASSUME IInv, Fill
  PROVE  IInv'
<1>1. TypeOK /\ ControlInv /\ AssignInv
  BY DEF IInv
<1>2. /\ pc = "fill" /\ pc' = "round" /\ variant = "Standard"
      /\ UNCHANGED <<variant, attempt, hash, stack, runs, set0, begin, run>>
      /\ UNCHANGED <<seed, fingerprints, success>>
      /\ xor_set' = [a \in Slots |-> Filled(a)]
      /\ queue' = [s \in Sets |-> scan_for_single(xor_set', s)]
  BY DEF Fill, resultVars
<1>3. /\ stack = <<>> /\ runs = <<0>> /\ set0 = 0 /\ begin = 0
      /\ hash \in [Keys -> Hashes] /\ Hashed' /\ Peels'
  BY <1>1, <1>2 DEF ControlInv, Hashed, Peels
<1>4. /\ stack' = <<>> /\ DOMAIN stack' = {} /\ runs' = <<0>> /\ set0' = 0 /\ begin' = 0
      /\ DOMAIN runs' = {1} /\ Len(runs') = 1 /\ Len(stack') = 0
  BY <1>2, <1>3
<1>5. /\ Slots' = Slots
      /\ \A h, s : Slot(h, s)' = Slot(h, s)
      /\ \A a : In(a)' = In(a)
      /\ \A S : EntryOf(S)' = EntryOf(S)
  BY <1>2, SameKeys
<1>6. Pushed' = {} /\ Left' = Keys /\ \A a : Counted(a)' = In(a)
  <2>1. Pushed' = {}
    BY <1>4 DEF Pushed
  <2>2. Left' = Keys
    BY <2>1 DEF Left
  <2>3. \A a : Counted(a)' = In(a)
    BY <1>4, <1>5, <2>2 DEF Counted, In
  <2>4. QED
    BY <2>1, <2>2, <2>3
<1>7. PICK set : set = xor_set'
  OBVIOUS
<1>8. /\ \A a \in Slots : set[a] = EntryOf(In(a))
      /\ set \in [Slots -> [hash : Hashes, counter : Nat]]
  <2>1. \A a \in Slots : set[a] = EntryOf(In(a))
    BY <1>2, <1>7 DEF Filled, EntryOf
  <2>2. \A a \in Slots : EntryOf(In(a)) \in [hash : Hashes, counter : Nat]
    <3>1. \A a : In(a) \in SUBSET Keys
      BY DEF In
    <3>2. QED
      BY <1>3, <3>1, EntryFacts
  <2>3. set = [a \in Slots |-> set[a]]
    BY <1>2, <1>7
  <2>4. QED
    BY <2>1, <2>2, <2>3
<1>9. ASSUME NEW s \in Sets
      PROVE  /\ queue'[s] \in Seq(Hashes)
             /\ \A n \in DOMAIN queue'[s] : /\ \E x \in Keys : queue'[s][n] = hash[x]
                                            /\ set[Slot(queue'[s][n], s)].counter = 1
             /\ \A n, m \in DOMAIN queue'[s] :
                  n # m => Slot(queue'[s][n], s) # Slot(queue'[s][m], s)
             /\ \A x \in Keys : set[Slot(hash[x], s)].counter = 1
                                  => \E n \in DOMAIN queue'[s] : queue'[s][n] = hash[x]
  <2>1. PICK q : q = queue'[s] /\ q = scan_for_single(set, s)
    BY <1>2, <1>7
  <2>2. AloneQueued(q, set, s)
    BY <1>2, <1>3, <1>8, <2>1, ScanStandard
  <2>3. QED
    BY <2>1, <2>2 DEF AloneQueued
<1>10. TypeOK'
  <2>1. queue' \in [Sets -> Seq(Hashes)]
    BY <1>2, <1>9
  <2>2. stack' \in Seq(Hashes)
    BY <1>4
  <2>3. QED
    BY <1>1, <1>2, <1>5, <1>7, <1>8, <2>1, <2>2 DEF TypeOK
<1>11. ControlInv' /\ AssignInv'
  BY <1>1, <1>2, <1>3, <1>5 DEF ControlInv, AssignInv, Hashed
<1>12. RunsInv'
  BY <1>2, <1>4 DEF RunsInv
<1>13. StackInv' /\ PeelOrder' /\ OnlyCoreRejected' /\ AssignedStays'
  BY <1>2, <1>4, <1>6 DEF StackInv, PeelOrder, OnlyCoreRejected, AssignedStays
<1>14. EntriesInv'
  BY <1>5, <1>6, <1>7, <1>8 DEF EntriesInv
<1>15. QueuesInv'
  <2>1. begin' <= Len(queue'[set0'])
    BY <1>4, <1>9 DEF Sets
  <2>2. ASSUME NEW s \in Sets
        PROVE  Pending(s)' = DOMAIN queue'[s]
    <3>1. \A n \in DOMAIN queue'[s] : begin' < n
      BY <1>4, <1>9
    <3>2. QED
      BY <3>1 DEF Pending
  <2>3. ASSUME NEW s \in Sets, NEW n \in DOMAIN queue'[s]
        PROVE  /\ queue'[s][n] \in {hash'[x] : x \in Keys}
               /\ xor_set'[Slot(queue'[s][n], s)].counter <= 1
    BY <1>2, <1>7, <1>9
  <2>4. ASSUME NEW s \in Sets, NEW n \in DOMAIN queue'[s], NEW m \in DOMAIN queue'[s], n # m
        PROVE  Slot(queue'[s][n], s) # Slot(queue'[s][m], s)
    BY <1>9, <2>4
  <2>5. ASSUME NEW s \in Sets, NEW x \in Keys, xor_set'[Slot(hash'[x], s)].counter = 1
        PROVE  \E n \in Pending(s)' : queue'[s][n] = hash'[x]
    BY <1>2, <1>7, <1>9, <2>2, <2>5
  <2>6. \A s \in Sets : \A n \in DOMAIN queue'[s] : queue'[s][n] \notin Pushed'
    BY <1>6
  <2>7. QED
    BY <1>5, <1>6, <2>1, <2>2, <2>3, <2>4, <2>5, <2>6 DEF QueuesInv
<1>16. SlotQueueInv'
  BY <1>2 DEF SlotQueueInv
<1>17. QED
  BY <1>10, <1>11, <1>12, <1>13, <1>14, <1>15, <1>16 DEF IInv

(* Fuse: so does filling the set and the queue of slots. *)
LEMMA FillSegmentsKeeps ==
  ASSUME IInv, FillSegments
  PROVE  IInv'
<1>1. TypeOK /\ ControlInv /\ AssignInv
  BY DEF IInv
<1>2. /\ pc = "fill" /\ pc' = "peel_slots" /\ variant = "Fuse"
      /\ UNCHANGED <<variant, attempt, hash, stack, runs, set0, begin, run>>
      /\ UNCHANGED <<seed, fingerprints, success>>
      /\ xor_set' = [a \in Slots |-> Filled(a)]
      /\ queue' = AloneSlots(xor_set', 0, (FuseSegments + 2) * NSlots)
  BY DEF FillSegments, resultVars
<1>3. /\ stack = <<>> /\ runs = <<0>> /\ set0 = 0 /\ begin = 0
      /\ hash \in [Keys -> Hashes] /\ Hashed' /\ Peels'
  BY <1>1, <1>2 DEF ControlInv, Hashed, Peels
<1>4. /\ stack' = <<>> /\ DOMAIN stack' = {} /\ runs' = <<0>> /\ set0' = 0 /\ begin' = 0
      /\ DOMAIN runs' = {1} /\ Len(runs') = 1 /\ Len(stack') = 0
  BY <1>2, <1>3
<1>5. /\ Slots' = Slots
      /\ \A a : In(a)' = In(a)
      /\ \A S : EntryOf(S)' = EntryOf(S)
  BY <1>2, SameKeys
<1>6. Pushed' = {} /\ Left' = Keys /\ \A a : Counted(a)' = In(a)
  <2>1. Pushed' = {}
    BY <1>4 DEF Pushed
  <2>2. Left' = Keys
    BY <2>1 DEF Left
  <2>3. \A a : Counted(a)' = In(a)
    BY <1>4, <1>5, <2>2 DEF Counted, In
  <2>4. QED
    BY <2>1, <2>2, <2>3
<1>7. /\ \A a \in Slots : xor_set'[a] = EntryOf(In(a))
      /\ xor_set' \in [Slots -> [hash : Hashes, counter : Nat]]
  <2>1. \A a \in Slots : xor_set'[a] = EntryOf(In(a))
    BY <1>2 DEF Filled, EntryOf
  <2>2. \A a \in Slots : EntryOf(In(a)) \in [hash : Hashes, counter : Nat]
    <3>1. \A a : In(a) \in SUBSET Keys
      BY DEF In
    <3>2. QED
      BY <1>3, <3>1, EntryFacts
  <2>3. xor_set' = [a \in Slots |-> xor_set'[a]]
    BY <1>2
  <2>4. QED
    BY <2>1, <2>2, <2>3
<1>8. PICK n : n = (FuseSegments + 2) * NSlots
  OBVIOUS
<1>9. n \in Nat /\ Slots = 0 .. n - 1
  BY <1>2, <1>8, SlotsAssumption DEF Slots
<1>10. /\ queue' \in Seq(0 .. 0 + n-1)
       /\ \A p \in DOMAIN queue' : xor_set'[queue'[p]].counter = 1
       /\ \A a \in 0 .. 0 + n-1 :
            xor_set'[a].counter = 1 => \E p \in DOMAIN queue' : queue'[p] = a
       /\ \A p, r \in DOMAIN queue' : p < r => queue'[p] < queue'[r]
  <2>1. PICK q, set : set = xor_set' /\ q = queue' /\ q = AloneSlots(set, 0, n)
    BY <1>2, <1>8
  <2>2. SlotsFound(q, set, 0, n)
    BY <1>9, <2>1, ScanFindsAlone
  <2>3. QED
    BY <2>1, <2>2 DEF SlotsFound
<1>11. queue' \in Seq(Slots) /\ 0 .. 0 + n-1 = Slots
  BY <1>9, <1>10
<1>12. TypeOK'
  <2>1. stack' \in Seq([hash : Hashes, address : Slots])
    BY <1>4
  <2>2. QED
    BY <1>1, <1>2, <1>5, <1>7, <1>11, <2>1 DEF TypeOK
<1>13. ControlInv' /\ AssignInv'
  BY <1>1, <1>2, <1>3, <1>5 DEF ControlInv, AssignInv, Hashed
<1>14. RunsInv'
  BY <1>2, <1>4 DEF RunsInv
<1>15. StackInv' /\ PeelOrder' /\ OnlyCoreRejected' /\ AssignedStays'
  BY <1>2, <1>4, <1>6 DEF StackInv, PeelOrder, OnlyCoreRejected, AssignedStays
<1>16. EntriesInv'
  BY <1>5, <1>6, <1>7 DEF EntriesInv
<1>17. SlotQueueInv'
  <2>1. Len(queue') \in Nat /\ DOMAIN queue' = 1 .. Len(queue') /\ begin'+1 = 1
    BY <1>4, <1>11
  <2>2. ASSUME NEW p \in DOMAIN queue', NEW r \in DOMAIN queue', p # r
        PROVE  queue'[p] # queue'[r]
    <3>1. queue'[p] \in Slots /\ queue'[r] \in Slots
      <4>1. \A t \in DOMAIN queue' : queue'[t] \in Slots
        BY <1>11, ElementOfSeq
      <4>2. QED
        BY <4>1
    <3>2. queue'[p] \in Int /\ queue'[r] \in Int /\ p \in Int /\ r \in Int
      BY <1>9, <2>1, <3>1
    <3>3. QED
      BY <1>10, <2>2, <3>2
  <2>3. \A p \in DOMAIN queue' : xor_set'[queue'[p]].counter <= 1
    BY <1>10
  <2>4. \A a \in Slots : xor_set'[a].counter = 1
                           => \E p \in begin'+1 .. Len(queue') : queue'[p] = a
    BY <1>10, <1>11, <2>1
  <2>5. begin' <= Len(queue')
    BY <1>4, <2>1
  <2>6. QED
    BY <1>5, <2>2, <2>3, <2>4, <2>5 DEF SlotQueueInv
<1>18. QueuesInv'
  BY <1>2 DEF QueuesInv
<1>19. QED
  BY <1>12, <1>13, <1>14, <1>15, <1>16, <1>17, <1>18 DEF IInv

-----------------------------------------------------------------------------
(* Peeling. *)

(* Positions stay in their runs while the last run grows and runs begin.   *)
LEMMA RunsGrow ==
  ASSUME TypeOK, RunsInv, variant = "Standard",
         NEW R \in Seq(Nat), runs' = R, Len(runs) <= Len(R),
         \A i \in 1 .. Len(runs)-1 : R[i] = runs[i],
         runs[Len(runs)] <= R[Len(runs)],
         \A i, j \in DOMAIN R : i <= j => R[i] <= R[j],
         NEW p \in DOMAIN stack
  PROVE  /\ RunOf(p)' = RunOf(p)
         /\ \E r \in 1 .. Len(R)-1 : R[r] < p /\ p <= R[r+1]
<1>1. p \in Nat /\ runs \in Seq(Nat) /\ Len(runs) \in Nat /\ Len(R) \in Nat
      /\ DOMAIN runs = 1 .. Len(runs) /\ DOMAIN R = 1 .. Len(R)
  BY DEF TypeOK
<1>2. PICK r \in 1 .. Len(runs)-1 : runs[r] < p /\ p <= runs[r+1]
  BY DEF RunsInv
<1>3. RunOf(p) = r
  BY <1>1, <1>2, RunIs DEF RunOf, RunsInv
<1>4. r \in 1 .. Len(R)-1 /\ R[r] < p /\ p <= R[r+1]
  <2>1. r \in 1 .. Len(R)-1 /\ R[r] < p
    BY <1>1, <1>2
  <2>2. r+1 \in DOMAIN runs /\ r+1 \in DOMAIN R
    BY <1>1, <1>2
  <2>3. runs[r+1] \in Nat /\ R[r+1] \in Nat
    BY <1>1, <2>2, ElementOfSeq
  <2>4. runs[r+1] <= R[r+1]
    <3>1. CASE r+1 = Len(runs)
      BY <3>1
    <3>2. CASE r+1 # Len(runs)
      <4>1. r+1 \in 1 .. Len(runs)-1
        <5>1. r \in Nat /\ 1 <= r /\ r <= Len(runs)-1 /\ Len(runs) \in Nat
          BY <1>1
        <5>2. QED
          BY <3>2, <5>1
      <4>2. QED
        BY <4>1, <2>3
    <3>3. QED
      BY <3>1, <3>2
  <2>5. QED
    BY <1>1, <1>2, <2>1, <2>3, <2>4
<1>5. r = CHOOSE q \in 1 .. Len(R)-1 : R[q] < p /\ p <= R[q+1]
  BY <1>1, <1>4, RunIs
<1>6. RunOf(p)' = r
  BY <1>5 DEF RunOf
<1>7. QED
  BY <1>3, <1>4, <1>6

(* A run begins where the stack ends.                                      *)
LEMMA RunBegins ==
  ASSUME TypeOK, RunsInv, variant = "Standard", runs' = start_run,
         UNCHANGED <<variant, hash, stack>>
  PROVE  /\ runs' \in Seq(Nat) /\ runs' # <<>>
         /\ Len(runs') = Len(runs) + 1
         /\ runs'[1] = 0
         /\ \A i, j \in DOMAIN runs' : i <= j => runs'[i] <= runs'[j]
         /\ runs'[Len(runs')] = Len(stack')
         /\ \A p \in DOMAIN stack : /\ PeeledFrom(p)' = PeeledFrom(p)
                                    /\ \E r \in 1 .. Len(runs')-1 : runs'[r] < p /\ p <= runs'[r+1]
<1>1. /\ runs \in Seq(Nat) /\ Len(runs) \in Nat /\ Len(runs) >= 1 /\ DOMAIN runs = 1 .. Len(runs)
  BY DEF TypeOK
<1>2. PICK R, e : R = runs' /\ e = runs[Len(runs)]
  OBVIOUS
<1>3. R = Append(runs, e) /\ e \in Nat
  BY <1>1, <1>2 DEF start_run, Last
<1>4. /\ R \in Seq(Nat) /\ Len(R) = Len(runs) + 1 /\ DOMAIN R = 1 .. Len(runs)+1
      /\ \A i \in 1 .. Len(runs) : R[i] = runs[i]
      /\ R[Len(runs)+1] = e
  BY <1>1, <1>3, AppendProperties
<1>5. ASSUME NEW i \in DOMAIN R, NEW j \in DOMAIN R, i <= j
      PROVE  R[i] <= R[j]
  <2>1. CASE j = Len(runs) + 1
    <3>1. CASE i = j
      BY <1>3, <1>4, <2>1, <3>1
    <3>2. CASE i # j
      <4>1. i \in DOMAIN runs /\ Len(runs) \in DOMAIN runs /\ i <= Len(runs)
        BY <1>1, <1>4, <1>5, <2>1, <3>2
      <4>2. runs[i] <= runs[Len(runs)]
        BY <4>1 DEF RunsInv
      <4>3. QED
        BY <1>1, <1>2, <1>4, <2>1, <4>1, <4>2
    <3>3. QED
      BY <3>1, <3>2
  <2>2. CASE j # Len(runs) + 1
    <3>1. i \in DOMAIN runs /\ j \in DOMAIN runs
      BY <1>1, <1>4, <1>5, <2>2
    <3>2. runs[i] <= runs[j]
      BY <1>5, <3>1 DEF RunsInv
    <3>3. QED
      BY <1>1, <1>4, <3>1, <3>2
  <2>3. QED
    BY <2>1, <2>2
<1>6. ASSUME NEW p \in DOMAIN stack
      PROVE  /\ PeeledFrom(p)' = PeeledFrom(p)
             /\ \E r \in 1 .. Len(R)-1 : R[r] < p /\ p <= R[r+1]
  <2>1. /\ Len(runs) <= Len(R) /\ runs[Len(runs)] <= R[Len(runs)]
        /\ \A i \in 1 .. Len(runs)-1 : R[i] = runs[i]
    BY <1>1, <1>2, <1>3, <1>4
  <2>2. RunOf(p)' = RunOf(p) /\ \E r \in 1 .. Len(R)-1 : R[r] < p /\ p <= R[r+1]
    BY <1>2, <1>4, <1>5, <2>1, RunsGrow
  <2>3. QED
    BY <2>2 DEF PeeledFrom, Slot, segment
<1>7. runs[1] = 0 /\ runs[Len(runs)] = Len(stack)
  BY DEF RunsInv
<1>8. R # <<>>
  BY <1>1, <1>4
<1>9. QED
  BY <1>1, <1>2, <1>4, <1>5, <1>6, <1>7, <1>8

(* A step between two removals, or at the end of the peeling, leaves the   *)
(* stack and the entries alone.                                            *)
LEMMA NothingRemoved ==
  ASSUME IInv, UNCHANGED <<variant, attempt, hash, xor_set, stack, resultVars>>,
         Hashed, Hashed', pc \notin {"assign", "assign_slots", "done"},
         pc' \in {"round", "peel", "peel_slots", "check"},
         variant = "Standard" => pc' # "peel_slots",
         variant = "Fuse" => pc' \notin {"round", "peel"},
         \A p \in DOMAIN stack : PeeledFrom(p)' = PeeledFrom(p)
  PROVE  /\ ControlInv' /\ StackInv' /\ PeelOrder' /\ EntriesInv' /\ AssignInv' /\ AssignedStays'
         /\ Slots' = Slots
         /\ \A h, s : Slot(h, s)' = Slot(h, s)
         /\ \A a : In(a)' = In(a)
         /\ Pushed' = Pushed /\ Left' = Left
         /\ \A a : Counted(a)' = Counted(a)
<1>1. TypeOK /\ ControlInv /\ StackInv /\ PeelOrder /\ EntriesInv /\ AssignInv
  BY DEF IInv
<1>2. /\ Slots' = Slots
      /\ \A h, s : Slot(h, s)' = Slot(h, s)
      /\ \A a : In(a)' = In(a)
      /\ \A S : EntryOf(S)' = EntryOf(S)
  BY SameKeys
<1>3. \A p : HashAt(p)' = HashAt(p)
  BY DEF HashAt
<1>4. Pushed' = Pushed
  BY <1>3 DEF Pushed
<1>5. Left' = Left
  BY <1>4 DEF Left
<1>6. \A a : Counted(a)' = Counted(a)
  BY <1>2, <1>3, <1>5 DEF Counted
<1>7. ControlInv'
  BY <1>1 DEF ControlInv, Hashed, resultVars
<1>8. StackInv'
  <2>1. \A p \in DOMAIN stack : In(PeeledFrom(p))' = In(PeeledFrom(p))
    BY <1>2
  <2>2. QED
    BY <1>1, <1>2, <1>3, <1>4, <1>5, <2>1 DEF StackInv
<1>9. PeelOrder'
  BY <1>1, <1>2, <1>3 DEF PeelOrder
<1>10. EntriesInv'
  BY <1>1, <1>2, <1>6 DEF EntriesInv
<1>11. AssignInv' /\ AssignedStays'
  BY <1>1, <1>2 DEF AssignInv, AssignedStays, Assigned, ControlInv, resultVars
<1>12. QED
  BY <1>2, <1>4, <1>5, <1>6, <1>7, <1>8, <1>9, <1>10, <1>11

(* Standard: the head of the loop keeps the invariant. *)
LEMMA RoundKeeps ==
  ASSUME IInv, Round, variant = "Standard"
  PROVE  IInv'
<1>1. /\ pc = "round" /\ pc' \in {"peel", "check"} /\ Hashed /\ Hashed' /\ Peels
      /\ UNCHANGED <<variant, attempt, hash, xor_set, queue, stack>>
      /\ UNCHANGED <<set0, begin, run>> /\ UNCHANGED resultVars
      /\ pc' = "peel" => runs' = start_run
      /\ pc' = "check" => runs' = runs /\ \A s \in Sets : queue[s] = <<>>
  BY DEF Round, Hashed, Peels
<1>2. /\ TypeOK /\ ControlInv /\ RunsInv /\ StackInv /\ EntriesInv /\ QueuesInv /\ SlotQueueInv
  BY DEF IInv
<1>3. (Len(runs) - 1) % 3 = 0 /\ set0 = 0 /\ begin = 0 /\ runs \in Seq(Nat) /\ Len(runs) >= 1
  BY <1>1, <1>2 DEF RunsInv, TypeOK
<1>4. CASE pc' = "check"
  <2>1. runs' = runs
    BY <1>1, <1>4
  <2>2. \A p \in DOMAIN stack : PeeledFrom(p)' = PeeledFrom(p)
    BY <1>1, <2>1, SameStack
  <2>3. /\ ControlInv' /\ StackInv' /\ PeelOrder' /\ EntriesInv' /\ AssignInv' /\ AssignedStays'
        /\ Slots' = Slots
        /\ \A h, s : Slot(h, s)' = Slot(h, s)
        /\ \A a : In(a)' = In(a)
        /\ Pushed' = Pushed /\ Left' = Left
    BY <1>1, <2>2, NothingRemoved
  <2>4. TypeOK'
    BY <1>1, <1>2, <2>1, <2>3 DEF TypeOK, resultVars
  <2>5. RunsInv'
    BY <1>1, <1>2, <1>4, <2>1 DEF RunsInv
  <2>6. QueuesInv'
    BY <1>1, <1>2, <1>4, <2>3 DEF QueuesInv, Peels
  <2>7. SlotQueueInv'
    BY <1>1 DEF SlotQueueInv
  <2>8. OnlyCoreRejected'
    <3>1. ASSUME NEW a \in Slots, NEW x \in Left, In(a) \cap Left = {x}
          PROVE  FALSE
      <4>1. x \in Keys /\ x \in In(a) /\ hash \in [Keys -> Hashes]
        BY <1>1, <1>2, <3>1 DEF Left, ControlInv
      <4>2. PICK s \in Sets : Slot(hash[x], s) = a
        BY <4>1 DEF In
      <4>3. Counted(a) = {x}
        <5>1. \A p \in DOMAIN stack : PeeledFrom(p) # a
          BY <1>1, <1>2, <3>1, <4>1 DEF StackInv
        <5>2. QED
          BY <3>1, <5>1 DEF Counted
      <4>4. Counted(a) \in SUBSET Keys
        BY DEF Counted, In
      <4>5. EntryOf(Counted(a)).counter = 1
        BY <4>1, <4>3, <4>4, EntryFacts
      <4>6. xor_set[Slot(hash[x], s)].counter = 1
        BY <1>1, <1>2, <4>2, <4>5 DEF EntriesInv
      <4>7. \E n \in Pending(s) : queue[s][n] = hash[x]
        BY <1>1, <1>2, <3>1, <4>6 DEF QueuesInv
      <4>8. QED
        BY <1>1, <1>4, <4>7 DEF Pending
    <3>2. ASSUME NEW a \in Slots PROVE Cardinality(In(a) \cap Left) # 1
      <4>1. IsFiniteSet(In(a) \cap Left)
        BY KeysAssumption, FS_Subset DEF In
      <4>2. Cardinality(In(a) \cap Left) = 1 => \E x : In(a) \cap Left = {x}
        BY <4>1, FS_Singleton
      <4>3. QED
        BY <3>1, <4>2
    <3>3. \A a \in Slots' : Cardinality(In(a)' \cap Left') # 1
      BY <2>3, <3>2
    <3>4. QED
      BY <3>3 DEF OnlyCoreRejected, Left, Pushed
  <2>9. QED
    BY <2>3, <2>4, <2>5, <2>6, <2>7, <2>8 DEF IInv
<1>5. CASE pc' = "peel"
  <2>1. /\ runs' \in Seq(Nat) /\ runs' # <<>>
        /\ Len(runs') = Len(runs) + 1
        /\ runs'[1] = 0
        /\ \A i, j \in DOMAIN runs' : i <= j => runs'[i] <= runs'[j]
        /\ runs'[Len(runs')] = Len(stack')
        /\ \A p \in DOMAIN stack : /\ PeeledFrom(p)' = PeeledFrom(p)
                                   /\ \E r \in 1 .. Len(runs')-1 : runs'[r] < p /\ p <= runs'[r+1]
    BY <1>1, <1>2, <1>5, RunBegins
  <2>2. /\ ControlInv' /\ StackInv' /\ PeelOrder' /\ EntriesInv' /\ AssignInv' /\ AssignedStays'
        /\ Slots' = Slots
        /\ \A h, s : Slot(h, s)' = Slot(h, s)
        /\ Pushed' = Pushed /\ Left' = Left
    BY <1>1, <2>1, NothingRemoved
  <2>3. TypeOK'
    BY <1>1, <1>2, <2>1, <2>2 DEF TypeOK, resultVars
  <2>4. RunsInv'
    <3>1. Len(runs') >= 2 /\ (Len(runs') - 2) % 3 = set0'
      BY <1>1, <1>3, <2>1
    <3>2. QED
      BY <1>1, <1>5, <2>1, <3>1 DEF RunsInv
  <2>5. QueuesInv'
    <3>1. \A s \in Sets : Pending(s)' = Pending(s)
      BY <1>1 DEF Pending
    <3>2. QED
      BY <1>1, <1>2, <2>2, <3>1 DEF QueuesInv
  <2>6. SlotQueueInv' /\ OnlyCoreRejected'
    BY <1>1, <1>5 DEF SlotQueueInv, OnlyCoreRejected
  <2>7. QED
    BY <2>2, <2>3, <2>4, <2>5, <2>6 DEF IInv
<1>6. QED
  BY <1>1, <1>4, <1>5

(* Standard: an entry whose key is gone is skipped. *)
LEMMA SkipPeeledKeeps ==
  ASSUME IInv, SkipPeeled, variant = "Standard"
  PROVE  IInv'
<1>1. /\ pc = "peel" /\ pc' = pc /\ Hashed /\ Hashed' /\ Peels
      /\ UNCHANGED <<variant, attempt, hash, xor_set, queue, stack>>
      /\ UNCHANGED <<runs, set0, run>> /\ UNCHANGED resultVars
      /\ begin < Len(queue[set0]) /\ xor_set[Slot(Head0, set0)].counter = 0
      /\ begin' = begin + 1
  BY DEF SkipPeeled, Hashed, Peels, peelVars
<1>2. /\ TypeOK /\ ControlInv /\ RunsInv /\ StackInv /\ EntriesInv /\ QueuesInv /\ SlotQueueInv
  BY DEF IInv
<1>3. \A p \in DOMAIN stack : PeeledFrom(p)' = PeeledFrom(p)
  BY <1>1, SameStack
<1>4. /\ ControlInv' /\ StackInv' /\ PeelOrder' /\ EntriesInv' /\ AssignInv' /\ AssignedStays'
      /\ Slots' = Slots
      /\ \A h, s : Slot(h, s)' = Slot(h, s)
      /\ Pushed' = Pushed /\ Left' = Left
  BY <1>1, <1>3, NothingRemoved
<1>5. begin \in Nat /\ set0 \in Sets /\ queue[set0] \in Seq(Hashes)
  BY <1>1, <1>2 DEF TypeOK
<1>6. TypeOK'
  BY <1>1, <1>2, <1>4, <1>5 DEF TypeOK, resultVars
<1>7. RunsInv'
  BY <1>1, <1>2 DEF RunsInv
<1>8. QueuesInv'
  <2>1. \A s \in Sets : Pending(s)' = Pending(s) \ (IF s = set0 THEN {begin + 1} ELSE {})
    BY <1>1, <1>5 DEF Pending
  <2>2. begin' <= Len(queue'[set0'])
    BY <1>1, <1>5
  <2>3. ASSUME NEW s \in Sets, NEW n \in Pending(s)',
               xor_set'[Slot(queue'[s][n], s)].counter # 0
        PROVE  queue'[s][n] \notin Pushed'
    BY <1>1, <1>2, <1>4, <2>1, <2>3 DEF QueuesInv
  <2>4. ASSUME NEW s \in Sets, NEW x \in Left', xor_set'[Slot(hash'[x], s)].counter = 1
        PROVE  \E n \in Pending(s)' : queue'[s][n] = hash'[x]
    <3>1. PICK n \in Pending(s) : queue[s][n] = hash[x]
      BY <1>1, <1>2, <1>4, <2>4 DEF QueuesInv
    <3>2. ~ (s = set0 /\ n = begin + 1)
      BY <1>1, <2>4, <3>1 DEF Head0
    <3>3. QED
      BY <1>1, <2>1, <3>1, <3>2
  <2>5. \A s \in Sets : \A n \in DOMAIN queue'[s] :
          /\ queue'[s][n] \in {hash'[x] : x \in Keys}
          /\ xor_set'[Slot(queue'[s][n], s)].counter <= 1
    BY <1>1, <1>2 DEF QueuesInv
  <2>6. \A s \in Sets : \A n, m \in DOMAIN queue'[s] :
          n # m => Slot(queue'[s][n], s) # Slot(queue'[s][m], s)
    BY <1>1, <1>2 DEF QueuesInv
  <2>7. QED
    BY <1>4, <2>2, <2>3, <2>4, <2>5, <2>6 DEF QueuesInv
<1>9. SlotQueueInv' /\ OnlyCoreRejected'
  BY <1>1 DEF SlotQueueInv, OnlyCoreRejected
<1>10. QED
  BY <1>4, <1>6, <1>7, <1>8, <1>9 DEF IInv

(* The remainder of the next number is the next remainder.                 *)
LEMMA NextRemainder ==
  ASSUME NEW m \in Nat, NEW s \in 0..2, m % 3 = s
  PROVE  (m + 1) % 3 = (s + 1) % 3
OBVIOUS

(* Standard: a queue that is done with is cleared, and the next one begun. *)
LEMMA ClearQueueKeeps ==
  ASSUME IInv, ClearQueue, variant = "Standard"
  PROVE  IInv'
<1>0. PICK s0, s1 : s0 = set0 /\ s1 = Set1
  OBVIOUS
<1>1. /\ pc = "peel" /\ pc' \in {"round", "peel"} /\ Hashed /\ Hashed' /\ Peels
      /\ UNCHANGED <<variant, attempt, hash, xor_set, stack>>
      /\ UNCHANGED run /\ UNCHANGED resultVars
      /\ begin = Len(queue[s0]) /\ queue' = [queue EXCEPT ![s0] = <<>>]
      /\ begin' = 0 /\ set0' = s1
      /\ s0 = 2 => pc' = "round" /\ runs' = runs
      /\ s0 # 2 => pc' = "peel" /\ runs' = start_run
  BY <1>0 DEF ClearQueue, Hashed, Peels
<1>2. /\ TypeOK /\ ControlInv /\ RunsInv /\ StackInv /\ EntriesInv /\ QueuesInv /\ SlotQueueInv
  BY DEF IInv
<1>3. /\ s0 \in Sets /\ s1 \in Sets /\ s1 = (s0 + 1) % 3
      /\ runs \in Seq(Nat) /\ Len(runs) \in Nat /\ Len(runs) >= 2 /\ (Len(runs) - 2) % 3 = s0
      /\ queue \in [Sets -> Seq(Hashes)]
  <2>1. /\ set0 \in Sets /\ runs \in Seq(Nat) /\ queue \in [Sets -> Seq(Hashes)]
    BY <1>2 DEF TypeOK
  <2>2. Len(runs) \in Nat
    BY <2>1
  <2>3. Len(runs) >= 2 /\ (Len(runs) - 2) % 3 = s0
    BY <1>0, <1>1, <1>2 DEF RunsInv
  <2>4. s1 = (s0 + 1) % 3
    BY <1>0 DEF Set1
  <2>5. s1 \in Sets
    BY <1>0, <2>1, <2>4 DEF Sets
  <2>6. QED
    BY <1>0, <2>1, <2>2, <2>3, <2>4, <2>5
<1>4. /\ runs' \in Seq(Nat) /\ runs' # <<>>
      /\ Len(runs') = IF s0 = 2 THEN Len(runs) ELSE Len(runs) + 1
      /\ runs'[1] = 0
      /\ \A i, j \in DOMAIN runs' : i <= j => runs'[i] <= runs'[j]
      /\ runs'[Len(runs')] = Len(stack')
      /\ \A p \in DOMAIN stack : /\ PeeledFrom(p)' = PeeledFrom(p)
                                 /\ \E r \in 1 .. Len(runs')-1 : runs'[r] < p /\ p <= runs'[r+1]
  <2>1. CASE s0 = 2
    <3>1. runs' = runs
      BY <1>1, <2>1
    <3>2. \A p \in DOMAIN stack : PeeledFrom(p)' = PeeledFrom(p)
      BY <1>1, <3>1, SameStack
    <3>3. QED
      BY <1>1, <1>2, <2>1, <3>1, <3>2 DEF RunsInv, TypeOK
  <2>2. CASE s0 # 2
    BY <1>1, <1>2, <2>2, RunBegins
  <2>3. QED
    BY <2>1, <2>2
<1>5. /\ ControlInv' /\ StackInv' /\ PeelOrder' /\ EntriesInv' /\ AssignInv' /\ AssignedStays'
      /\ Slots' = Slots
      /\ \A h, s : Slot(h, s)' = Slot(h, s)
      /\ Pushed' = Pushed /\ Left' = Left
  BY <1>1, <1>4, NothingRemoved
<1>6. queue' \in [Sets -> Seq(Hashes)]
  <2>1. <<>> \in Seq(Hashes)
    OBVIOUS
  <2>2. QED
    BY <1>1, <1>3, <2>1
<1>7. TypeOK'
  BY <1>1, <1>2, <1>3, <1>4, <1>5, <1>6 DEF TypeOK, resultVars
<1>8. RunsInv'
  <2>1. PICK m \in Nat : Len(runs) = m + 2 /\ m % 3 = s0
    <3>1. PICK m : m = Len(runs) - 2
      OBVIOUS
    <3>2. m \in Nat /\ Len(runs) = m + 2
      BY <1>3, <3>1
    <3>3. m % 3 = s0
      BY <1>3, <3>1
    <3>4. QED
      BY <3>2, <3>3
  <2>2. s0 \in 0..2
    BY <1>3 DEF Sets
  <2>3. (m + 1) % 3 = s1
    <3>1. (m + 1) % 3 = (s0 + 1) % 3
      BY <2>1, <2>2, NextRemainder
    <3>2. QED
      BY <1>3, <3>1
  <2>4. CASE s0 = 2
    <3>1. Len(runs') - 1 = m + 1
      BY <1>4, <2>1, <2>4
    <3>2. s1 = 0
      BY <1>3, <2>4
    <3>3. (Len(runs') - 1) % 3 = 0 /\ set0' = 0 /\ begin' = 0
      BY <1>1, <2>3, <3>1, <3>2
    <3>4. QED
      BY <1>1, <1>4, <2>4, <3>3 DEF RunsInv
  <2>5. CASE s0 # 2
    <3>1. Len(runs') - 2 = m + 1 /\ Len(runs') >= 2
      BY <1>4, <2>1, <2>5
    <3>2. Len(runs') >= 2 /\ (Len(runs') - 2) % 3 = set0'
      BY <1>1, <2>3, <3>1
    <3>3. QED
      BY <1>1, <1>4, <2>5, <3>2 DEF RunsInv
  <2>6. QED
    BY <2>4, <2>5
<1>9. QueuesInv'
  <2>1. \A s \in Sets : queue'[s] = IF s = s0 THEN <<>> ELSE queue[s]
    BY <1>1, <1>3
  <2>2. Pending(s0) = {}
    BY <1>0, <1>1, <1>3 DEF Pending
  <2>3. ASSUME NEW s \in Sets
        PROVE  Pending(s)' = IF s = s0 THEN {} ELSE Pending(s)
    <3>1. CASE s = s0
      BY <2>1, <3>1 DEF Pending
    <3>2. CASE s # s0
      <4>1. queue[s] \in Seq(Hashes) /\ queue'[s] = queue[s]
        BY <1>3, <2>1, <3>2
      <4>2. Pending(s) = DOMAIN queue[s]
        BY <1>0, <3>2 DEF Pending
      <4>3. Pending(s)' = DOMAIN queue[s]
        BY <1>1, <4>1 DEF Pending
      <4>4. QED
        BY <3>2, <4>2, <4>3
    <3>3. QED
      BY <3>1, <3>2
  <2>4. begin' <= Len(queue'[set0'])
    BY <1>1, <1>3, <1>6
  <2>5. ASSUME NEW s \in Sets, NEW n \in Pending(s)',
               xor_set'[Slot(queue'[s][n], s)].counter # 0
        PROVE  queue'[s][n] \notin Pushed'
    BY <1>1, <1>2, <1>5, <2>1, <2>3, <2>5 DEF QueuesInv
  <2>6. ASSUME NEW s \in Sets, NEW x \in Left', xor_set'[Slot(hash'[x], s)].counter = 1
        PROVE  \E n \in Pending(s)' : queue'[s][n] = hash'[x]
    <3>1. PICK n \in Pending(s) : queue[s][n] = hash[x]
      BY <1>1, <1>2, <1>5, <2>6 DEF QueuesInv
    <3>2. s # s0
      BY <2>2, <3>1
    <3>3. QED
      BY <1>1, <2>1, <2>3, <3>1, <3>2
  <2>7. ASSUME NEW s \in Sets, NEW n \in DOMAIN queue'[s]
        PROVE  s # s0 /\ queue'[s] = queue[s]
    BY <2>1
  <2>8. \A s \in Sets : \A n \in DOMAIN queue'[s] :
          /\ queue'[s][n] \in {hash'[x] : x \in Keys}
          /\ xor_set'[Slot(queue'[s][n], s)].counter <= 1
    BY <1>1, <1>2, <2>7 DEF QueuesInv
  <2>9. \A s \in Sets : \A n, m \in DOMAIN queue'[s] :
          n # m => Slot(queue'[s][n], s) # Slot(queue'[s][m], s)
    BY <1>1, <1>2, <2>7 DEF QueuesInv
  <2>10. QED
    BY <1>5, <2>4, <2>5, <2>6, <2>8, <2>9 DEF QueuesInv
<1>10. SlotQueueInv' /\ OnlyCoreRejected'
  BY <1>1 DEF SlotQueueInv, OnlyCoreRejected
<1>11. QED
  BY <1>5, <1>7, <1>8, <1>9, <1>10 DEF IInv

(* Peeling a key that is alone in a slot keeps the order of the stack.     *)
LEMMA RemovalKeeps ==
  ASSUME TypeOK, ControlInv, RunsInv, StackInv, PeelOrder, Hashed, Hashed',
         UNCHANGED <<variant, hash>>,
         NEW x \in Left, NEW s \in Sets, NEW b, b = Slot(hash[x], s), In(b) \cap Left = {x},
         NEW p, p = Len(stack) + 1, DOMAIN stack' = DOMAIN stack \cup {p},
         \A q \in DOMAIN stack : HashAt(q)' = HashAt(q) /\ PeeledFrom(q)' = PeeledFrom(q),
         HashAt(p)' = hash[x], PeeledFrom(p)' = b
  PROVE  /\ Pushed' = Pushed \cup {hash[x]}
         /\ Left' = Left \ {x}
         /\ StackInv' /\ PeelOrder'
<1>1. /\ Len(stack) \in Nat /\ DOMAIN stack = 1 .. Len(stack) /\ variant \in Variants
      /\ hash \in [Keys -> Hashes] /\ x \in Keys /\ hash[x] \notin Pushed
  BY DEF TypeOK, ControlInv, Hashed, Left
<1>2. /\ \A h, t : Slot(h, t)' = Slot(h, t)
      /\ \A a : In(a)' = In(a)
  BY SameKeys
<1>3. Pushed' = Pushed \cup {hash[x]}
  BY DEF Pushed
<1>4. \A y \in Keys : hash[y] = hash[x] => y = x
  <2>1. SUFFICES ASSUME NEW y \in Keys, hash[y] = hash[x] PROVE y = x
    OBVIOUS
  <2>2. y \in In(b) /\ y \in Left
    BY <2>1 DEF In, Left
  <2>3. QED
    BY <2>2
<1>5. Left' = Left \ {x}
  BY <1>3, <1>4 DEF Left
<1>6. StackInv'
  <2>1. Pushed' \subseteq {hash'[y] : y \in Keys}
    BY <1>1, <1>3 DEF StackInv
  <2>2. \A q, r \in DOMAIN stack' : q # r => HashAt(q)' # HashAt(r)'
    <3>1. \A q \in DOMAIN stack : HashAt(q) # hash[x]
      BY <1>1 DEF Pushed
    <3>2. QED
      BY <3>1 DEF StackInv
  <2>3. \A q \in DOMAIN stack' : \E t \in Sets : PeeledFrom(q)' = Slot(HashAt(q)', t)
    BY DEF StackInv
  <2>4. \A q \in DOMAIN stack' : \A y \in Left' : y \notin In(PeeledFrom(q)')
    BY <1>5 DEF StackInv
  <2>5. \A q \in DOMAIN stack' : In(PeeledFrom(q))' = In(PeeledFrom(q)')
    BY <1>2
  <2>6. QED
    BY <1>2, <2>1, <2>2, <2>3, <2>4, <2>5 DEF StackInv
<1>7. PeelOrder'
  <2>1. SUFFICES ASSUME NEW q \in DOMAIN stack', NEW r \in DOMAIN stack', q < r, NEW t \in Sets
                 PROVE  Slot(HashAt(r)', t) # PeeledFrom(q)'
    BY <1>2 DEF PeelOrder
  <2>2. q \in DOMAIN stack
    BY <1>1, <2>1
  <2>3. CASE r \in DOMAIN stack
    BY <2>1, <2>2, <2>3 DEF PeelOrder
  <2>4. CASE r = p
    <3>1. x \notin In(PeeledFrom(q))
      BY <2>2 DEF StackInv
    <3>2. Slot(hash[x], t) # PeeledFrom(q)
      BY <1>1, <3>1 DEF In
    <3>3. QED
      BY <2>2, <2>4, <3>2
  <2>5. QED
    BY <2>3, <2>4
<1>8. QED
  BY <1>3, <1>5, <1>6, <1>7

(* Standard: the hash that is peeled is that of one key left, and no other *)
(* key left has the slot it is peeled from.                                *)
LEMMA PeelsOne ==
  ASSUME IInv, Peel, variant = "Standard"
  PROVE  /\ Head0 \in Hashes
         /\ \E x \in Left : /\ hash[x] = Head0
                            /\ x \in In(Slot(Head0, set0))
                            /\ In(Slot(Head0, set0)) \cap Left = {x}
                            /\ Counted(Slot(Head0, set0)) = {x}
<1>1. /\ pc = "peel" /\ Hashed /\ Peels
      /\ begin < Len(queue[set0]) /\ xor_set[Slot(Head0, set0)].counter # 0
  BY DEF Peel, Hashed, Peels
<1>2. TypeOK /\ ControlInv /\ EntriesInv /\ QueuesInv
  BY DEF IInv
<1>3. /\ hash \in [Keys -> Hashes] /\ set0 \in Sets /\ variant \in Variants
      /\ queue[set0] \in Seq(Hashes) /\ begin + 1 \in DOMAIN queue[set0] /\ begin + 1 > begin
      /\ begin + 1 \in Pending(set0)
  BY <1>1, <1>2 DEF TypeOK, ControlInv, Pending
<1>4. Head0 \in Hashes /\ Head0 \in {hash[x] : x \in Keys}
  BY <1>1, <1>2, <1>3 DEF Head0, QueuesInv
<1>5. PICK x \in Keys : hash[x] = Head0
  BY <1>4
<1>6. x \in Left
  BY <1>1, <1>2, <1>3, <1>5 DEF Head0, QueuesInv, Left
<1>7. PICK b : b = Slot(Head0, set0)
  OBVIOUS
<1>8. x \in In(b) /\ x \in Counted(b) /\ In(b) \cap Left \subseteq Counted(b)
  BY <1>3, <1>5, <1>6, <1>7 DEF In, Counted
<1>9. Counted(b) \in SUBSET Keys /\ b \in Slots
  BY <1>3, <1>4, <1>7, SlotInArray DEF Counted, In
<1>10. xor_set[b] = EntryOf(Counted(b)) /\ xor_set[b].counter = 1
  <2>1. xor_set[b] = EntryOf(Counted(b))
    BY <1>1, <1>2, <1>9 DEF EntriesInv
  <2>2. xor_set[b].counter <= 1 /\ xor_set[b].counter # 0
    BY <1>1, <1>2, <1>3, <1>7 DEF QueuesInv, Head0
  <2>3. xor_set[b].counter \in Nat
    BY <1>2, <1>9 DEF TypeOK
  <2>4. QED
    BY <2>1, <2>2, <2>3
<1>11. Counted(b) = {x}
  BY <1>3, <1>8, <1>9, <1>10, EntryFacts
<1>12. QED
  BY <1>4, <1>5, <1>6, <1>7, <1>8, <1>11

(* The runs are in order, end with the stack and leave no gap in it; and a *)
(* step that pushes hash h, peeled from slot b, at position p.             *)
RunsCut ==
  /\ runs \in Seq(Nat) /\ runs # <<>>
  /\ runs[1] = 0
  /\ \A i, j \in DOMAIN runs : i <= j => runs[i] <= runs[j]
  /\ runs[Len(runs)] = Len(stack)
  /\ \A q \in DOMAIN stack : \E r \in 1 .. Len(runs)-1 : runs[r] < q /\ q <= runs[r+1]

Pushes(p, h, b) ==
  /\ DOMAIN stack' = DOMAIN stack \cup {p}
  /\ \A q \in DOMAIN stack : HashAt(q)' = HashAt(q) /\ PeeledFrom(q)' = PeeledFrom(q)
  /\ HashAt(p)' = h /\ PeeledFrom(p)' = b

(* Standard: pushing a hash lengthens the last run.                        *)
LEMMA RunExtends ==
  ASSUME TypeOK, RunsInv, variant = "Standard", pc = "peel", variant' = variant, hash' = hash,
         runs' = [runs EXCEPT ![Len(runs)] = @ + 1],
         NEW h \in Hashes, stack' = Append(stack, h), NEW p, p = Len(stack) + 1
  PROVE  /\ RunsCut' /\ Len(runs') = Len(runs)
         /\ stack' \in Seq(Hashes) /\ Pushes(p, h, Slot(h, set0))
<1>1. PICK R, L : R = runs' /\ L = Len(runs)
  OBVIOUS
<1>2. /\ runs \in Seq(Nat) /\ L \in Nat /\ L >= 2 /\ DOMAIN runs = 1 .. L
      /\ runs[1] = 0 /\ runs[L] = Len(stack)
      /\ \A i, j \in 1 .. L : i <= j => runs[i] <= runs[j]
      /\ \A i \in 1 .. L : runs[i] \in Nat
      /\ (L - 2) % 3 = set0
  <2>1. runs \in Seq(Nat) /\ Len(runs) \in Nat /\ Len(runs) >= 2 /\ DOMAIN runs = 1 .. Len(runs)
    BY DEF TypeOK, RunsInv
  <2>2. /\ runs[1] = 0 /\ runs[Len(runs)] = Len(stack)
        /\ \A i, j \in DOMAIN runs : i <= j => runs[i] <= runs[j]
        /\ (Len(runs) - 2) % 3 = set0
    BY DEF RunsInv
  <2>3. \A i \in DOMAIN runs : runs[i] \in Nat
    BY <2>1, ElementOfSeq
  <2>4. QED
    BY <1>1, <2>1, <2>2, <2>3
<1>3. /\ R \in Seq(Nat) /\ Len(R) = L /\ DOMAIN R = 1 .. L
      /\ \A i \in 1 .. L : R[i] = IF i = L THEN runs[L] + 1 ELSE runs[i]
  <2>1. R = [i \in 1 .. L |-> IF i = L THEN runs[L] + 1 ELSE runs[i]]
    BY <1>1, <1>2
  <2>2. \A i \in 1 .. L : (IF i = L THEN runs[L] + 1 ELSE runs[i]) \in Nat
    BY <1>2
  <2>3. R \in [1 .. L -> Nat]
    BY <2>1, <2>2
  <2>4. QED
    BY <1>2, <2>1, <2>3
<1>4. ASSUME NEW i \in 1 .. L, NEW j \in 1 .. L, i <= j
      PROVE  R[i] <= R[j]
  <2>1. runs[i] <= runs[j] /\ runs[i] \in Nat /\ runs[j] \in Nat
    BY <1>2, <1>4
  <2>2. i = L => j = L
    BY <1>2, <1>4
  <2>3. CASE i = L
    <3>1. R[i] = R[j] /\ R[i] \in Int
      BY <1>2, <1>3, <2>2, <2>3
    <3>2. QED
      BY <3>1
  <2>4. CASE i # L
    <3>1. R[i] = runs[i] /\ (R[j] = runs[j] \/ R[j] = runs[j] + 1)
      BY <1>3, <2>4
    <3>2. QED
      BY <2>1, <3>1
  <2>5. QED
    BY <2>3, <2>4
<1>5. /\ stack \in Seq(Hashes) /\ Len(stack) \in Nat /\ DOMAIN stack = 1 .. Len(stack)
      /\ stack' \in Seq(Hashes) /\ Len(stack') = p /\ DOMAIN stack' = DOMAIN stack \cup {p}
      /\ \A q \in DOMAIN stack : stack'[q] = stack[q]
      /\ stack'[p] = h /\ p \in Nat
  <2>1. stack \in Seq(Hashes)
    BY DEF TypeOK
  <2>2. QED
    BY <2>1
<1>6. ASSUME NEW q \in DOMAIN stack
      PROVE  /\ HashAt(q)' = HashAt(q) /\ PeeledFrom(q)' = PeeledFrom(q)
             /\ \E r \in 1 .. L-1 : R[r] < q /\ q <= R[r+1]
  <2>1. RunOf(q)' = RunOf(q) /\ \E r \in 1 .. L-1 : R[r] < q /\ q <= R[r+1]
    <3>1. Len(runs) <= Len(R) /\ runs[Len(runs)] <= R[Len(runs)]
      BY <1>1, <1>2, <1>3
    <3>2. \A i \in 1 .. Len(runs)-1 : R[i] = runs[i]
      BY <1>1, <1>2, <1>3
    <3>3. \A i, j \in DOMAIN R : i <= j => R[i] <= R[j]
      BY <1>3, <1>4
    <3>4. QED
      BY <1>1, <1>3, <3>1, <3>2, <3>3, RunsGrow
  <2>2. stack'[q] = stack[q]
    BY <1>5
  <2>3. QED
    BY <2>1, <2>2 DEF HashAt, PeeledFrom, Slot, segment
<1>7. L-1 \in 1 .. Len(R)-1 /\ R[L-1] < p /\ p <= R[(L-1)+1]
  <2>1. L-1 \in 1 .. L /\ L \in 1 .. L /\ L-1 # L /\ L-1 <= L /\ (L-1)+1 = L
    BY <1>2
  <2>2. R[L-1] = runs[L-1] /\ R[L] = Len(stack) + 1 /\ runs[L-1] <= Len(stack) /\ runs[L-1] \in Nat
    BY <1>2, <1>3, <2>1
  <2>3. R[L-1] < p /\ p <= R[L]
    BY <1>5, <2>2
  <2>4. QED
    BY <1>2, <1>3, <2>1, <2>3
<1>8. RunOf(p)' = L-1
  <2>1. \A i, j \in DOMAIN R : i <= j => R[i] <= R[j]
    BY <1>3, <1>4
  <2>2. L-1 = CHOOSE q \in 1 .. Len(R)-1 : R[q] < p /\ p <= R[q+1]
    BY <1>3, <1>5, <1>7, <2>1, RunIs
  <2>3. QED
    BY <1>1, <2>2 DEF RunOf
<1>9. HashAt(p)' = h /\ PeeledFrom(p)' = Slot(h, set0)
  <2>1. (L-1) - 1 = L - 2
    BY <1>2
  <2>2. SetOf(L-1) = set0
    BY <1>2, <2>1 DEF SetOf
  <2>3. QED
    BY <1>5, <1>8, <2>2 DEF HashAt, PeeledFrom, Slot, segment
<1>10. \A q \in DOMAIN stack' : \E r \in 1 .. Len(R)-1 : R[r] < q /\ q <= R[r+1]
  BY <1>3, <1>5, <1>6, <1>7
<1>11. R[1] = 0 /\ R[L] = Len(stack') /\ R # <<>>
  <2>1. 1 \in 1 .. L /\ L \in 1 .. L /\ 1 # L
    BY <1>2
  <2>2. QED
    BY <1>2, <1>3, <1>5, <2>1
<1>12. /\ R \in Seq(Nat) /\ R # <<>> /\ Len(R) = Len(runs) /\ R[1] = 0
       /\ \A i, j \in DOMAIN R : i <= j => R[i] <= R[j]
       /\ R[Len(R)] = Len(stack')
  <2>1. \A i, j \in DOMAIN R : i <= j => R[i] <= R[j]
    BY <1>3, <1>4
  <2>2. QED
    BY <1>1, <1>3, <1>11, <2>1
<1>13. RunsCut'
  BY <1>1, <1>10, <1>12 DEF RunsCut
<1>14. Pushes(p, h, Slot(h, set0))
  BY <1>5, <1>6, <1>9 DEF Pushes
<1>15. QED
  BY <1>1, <1>5, <1>12, <1>13, <1>14

(* Taking a key out of the entries of some of its slots leaves the entries *)
(* what the keys they still count give.                                    *)
LEMMA EntriesAfter ==
  ASSUME TypeOK, EntriesInv, Hashed, hash \in [Keys -> Hashes], UNCHANGED <<variant, hash>>,
         NEW x \in Left, NEW N, \A a \in N : x \in In(a),
         xor_set' = [a \in Slots |-> IF a \in N THEN Without(xor_set[a], hash[x])
                                                ELSE xor_set[a]],
         \A a \in Slots : Counted(a)' = IF a \in N THEN Counted(a) \ {x} ELSE Counted(a)
  PROVE  /\ EntriesInv'
         /\ xor_set' \in [Slots -> [hash : Hashes, counter : Nat]]
         /\ \A a \in Slots : xor_set'[a] = EntryOf(Counted(a)')
         /\ \A a \in Slots : xor_set'[a].counter = IF a \in N THEN xor_set[a].counter - 1
                                                              ELSE xor_set[a].counter
<1>1. PICK set : set = xor_set'
  OBVIOUS
<1>2. ASSUME NEW a \in Slots
      PROVE  /\ set[a] \in [hash : Hashes, counter : Nat]
             /\ set[a] = EntryOf(Counted(a)')
             /\ set[a].counter = IF a \in N THEN xor_set[a].counter - 1 ELSE xor_set[a].counter
  <2>1. /\ xor_set[a] = EntryOf(Counted(a)) /\ Counted(a) \in SUBSET Keys
        /\ xor_set[a] \in [hash : Hashes, counter : Nat]
    BY DEF EntriesInv, TypeOK, Counted, In
  <2>2. CASE a \in N
    <3>1. x \in Counted(a)
      BY <2>2 DEF Counted
    <3>2. EntryOf(Counted(a) \ {x}) = Without(EntryOf(Counted(a)), hash[x])
      BY <2>1, <3>1, EntryWithout
    <3>3. set[a] = EntryOf(Counted(a) \ {x}) /\ Counted(a) \ {x} \in SUBSET Keys
      BY <1>1, <2>1, <2>2, <3>2
    <3>4. set[a] \in [hash : Hashes, counter : Nat]
      BY <3>3, EntryFacts
    <3>5. set[a] = Without(xor_set[a], hash[x])
      BY <1>1, <2>2
    <3>6. set[a].counter = xor_set[a].counter - 1
      BY <3>5 DEF Without
    <3>7. QED
      BY <2>2, <3>3, <3>4, <3>6
  <2>3. CASE a \notin N
    BY <1>1, <2>1, <2>3
  <2>4. QED
    BY <2>2, <2>3
<1>3. set \in [Slots -> [hash : Hashes, counter : Nat]]
  <2>1. set = [a \in Slots |-> set[a]]
    BY <1>1
  <2>2. QED
    BY <1>2, <2>1
<1>4. EntriesInv'
  <2>1. Slots' = Slots /\ \A S : EntryOf(S)' = EntryOf(S)
    BY SameKeys
  <2>2. QED
    BY <1>1, <1>2, <2>1 DEF EntriesInv
<1>5. QED
  BY <1>1, <1>2, <1>3, <1>4

(* Standard: the slot the key is peeled from keeps counting it, and no     *)
(* other does.                                                             *)
LEMMA CountedAfter ==
  ASSUME TypeOK, StackInv, Hashed, UNCHANGED <<variant, hash>>, variant = "Standard",
         NEW x \in Left, Left' = Left \ {x}, \A y \in Keys : hash[y] = hash[x] => y = x,
         NEW b, x \in In(b),
         NEW p, p \notin DOMAIN stack, DOMAIN stack' = DOMAIN stack \cup {p},
         \A q \in DOMAIN stack : HashAt(q)' = HashAt(q) /\ PeeledFrom(q)' = PeeledFrom(q),
         HashAt(p)' = hash[x], PeeledFrom(p)' = b,
         NEW a
  PROVE  Counted(a)' = IF a = b THEN Counted(a) ELSE Counted(a) \ {x}
<1>1. In(a)' = In(a)
  BY SameKeys
<1>2. \A q \in DOMAIN stack : HashAt(q) # hash[x]
  BY DEF Left, Pushed
<1>3. ASSUME NEW y \in In(a), y # x
      PROVE  y \in Counted(a)' <=> y \in Counted(a)
  <2>1. y \in Keys /\ hash[y] # hash[x]
    BY <1>3 DEF In
  <2>2. (\E q \in DOMAIN stack' : HashAt(q)' = hash[y] /\ PeeledFrom(q)' = a)
          <=> (\E q \in DOMAIN stack : HashAt(q) = hash[y] /\ PeeledFrom(q) = a)
    BY <2>1
  <2>3. QED
    BY <1>1, <1>3, <2>2 DEF Counted
<1>4. x \in Counted(a)' <=> x \in In(a) /\ a = b
  <2>1. (\E q \in DOMAIN stack' : HashAt(q)' = hash[x] /\ PeeledFrom(q)' = a) <=> a = b
    BY <1>2
  <2>2. QED
    BY <1>1, <2>1 DEF Counted
<1>5. x \in Counted(a) <=> x \in In(a)
  BY DEF Counted
<1>6. Counted(a) \subseteq In(a) /\ Counted(a)' \subseteq In(a)
  BY <1>1 DEF Counted
<1>7. QED
  BY <1>3, <1>4, <1>5, <1>6

(* Standard: where one hash remains in a slot of the peeled hash h, it is  *)
(* that of the only key left there; and the queues that get it.            *)
RemainsOne(set, h, x, s) ==
  set[Slot(h, s)].counter = 1 =>
    /\ \E y \in Left \ {x} : /\ set[Slot(h, s)].hash = hash[y]
                            /\ Slot(hash[y], s) = Slot(h, s)
    /\ \A y \in Left \ {x} : Slot(hash[y], s) = Slot(h, s) => set[Slot(h, s)].hash = hash[y]

AppendedTo(q, e) == IF e.counter = 1 THEN Append(q, e.hash) ELSE q

Appended(q, set, h, s1, s2) ==
  q = [queue EXCEPT ![s1] = AppendedTo(queue[s1], set[Slot(h, s1)]),
                    ![s2] = AppendedTo(queue[s2], set[Slot(h, s2)])]

(* What the invariant of the queues comes to in the next state.            *)
LEMMA NewQueues ==
  ASSUME UNCHANGED <<variant, hash>>, begin' <= Len(queue'[set0']),
         NEW q, q = queue', NEW set, set = xor_set',
         \A s \in Sets : \A n \in DOMAIN q[s] :
           q[s][n] \in {hash[y] : y \in Keys} /\ set[Slot(q[s][n], s)].counter <= 1,
         \A s \in Sets : \A n, m \in DOMAIN q[s] : n # m => Slot(q[s][n], s) # Slot(q[s][m], s),
         \A s \in Sets : \A n \in Pending(s)' :
           set[Slot(q[s][n], s)].counter # 0 => q[s][n] \notin Pushed',
         \A s \in Sets : \A y \in Left' :
           set[Slot(hash[y], s)].counter = 1 => \E n \in Pending(s)' : q[s][n] = hash[y]
  PROVE  QueuesInv'
<1>1. \A g, s : Slot(g, s)' = Slot(g, s)
  BY SameKeys
<1>2. QED
  BY <1>1 DEF QueuesInv

(* Standard: the queues of the two other sets get the key that is alone in *)
(* a slot of the hash now, if there is one; that keeps the invariant of    *)
(* the queues.                                                             *)
LEMMA QueuesAfter ==
  ASSUME TypeOK, QueuesInv, Hashed, Peels, UNCHANGED <<variant, hash, set0>>,
         variant = "Standard", hash \in [Keys -> Hashes],
         NEW h \in Hashes, NEW x \in Left, hash[x] = h,
         NEW s0 \in Sets, s0 = set0, NEW s1 \in Sets, NEW s2 \in Sets,
         s1 # s0, s2 # s0, s1 # s2, \A s \in Sets : s \in {s0, s1, s2},
         begin + 1 \in DOMAIN queue[s0], queue[s0][begin+1] = h, begin' = begin + 1,
         Pushed' = Pushed \cup {h}, Left' = Left \ {x},
         NEW set \in [Slots -> [hash : Hashes, counter : Nat]], xor_set' = set,
         \A a \in Slots : set[a].counter = IF a \in {Slot(h, s1), Slot(h, s2)}
                                           THEN xor_set[a].counter - 1 ELSE xor_set[a].counter,
         RemainsOne(set, h, x, s1), RemainsOne(set, h, x, s2),
         Appended(queue', set, h, s1, s2)
  PROVE  QueuesInv' /\ queue' \in [Sets -> Seq(Hashes)]
<1>1. /\ queue \in [Sets -> Seq(Hashes)] /\ begin \in Nat /\ variant \in Variants
      /\ xor_set \in [Slots -> [hash : Hashes, counter : Nat]]
  BY DEF TypeOK
<1>2. PICK q : q = queue'
  OBVIOUS
<1>3. ASSUME NEW s \in Sets
      PROVE  /\ q[s] \in Seq(Hashes)
             /\ DOMAIN queue[s] \subseteq DOMAIN q[s]
             /\ \A n \in DOMAIN queue[s] : q[s][n] = queue[s][n]
             /\ \A n \in DOMAIN q[s] \ DOMAIN queue[s] :
                  /\ s \in {s1, s2}
                  /\ set[Slot(h, s)].counter = 1
                  /\ q[s][n] = set[Slot(h, s)].hash
             /\ \A n, m \in DOMAIN q[s] \ DOMAIN queue[s] : n = m
             /\ s \in {s1, s2} /\ set[Slot(h, s)].counter = 1
                  => \E n \in DOMAIN q[s] : q[s][n] = set[Slot(h, s)].hash
  <2>1. queue[s] \in Seq(Hashes) /\ Len(queue[s]) \in Nat /\ DOMAIN queue[s] = 1 .. Len(queue[s])
    BY <1>1
  <2>2. CASE s \in {s1, s2} /\ set[Slot(h, s)].counter = 1
    <3>1. PICK e : e = set[Slot(h, s)].hash
      OBVIOUS
    <3>2. e \in Hashes
      BY <2>2, <3>1 DEF Left, RemainsOne
    <3>3. q[s] = Append(queue[s], e)
      BY <1>1, <1>2, <2>2, <3>1 DEF Appended, AppendedTo
    <3>4. /\ q[s] \in Seq(Hashes) /\ Len(queue[s]) + 1 \in DOMAIN q[s]
          /\ DOMAIN q[s] = DOMAIN queue[s] \cup {Len(queue[s]) + 1}
          /\ \A n \in DOMAIN queue[s] : q[s][n] = queue[s][n]
          /\ q[s][Len(queue[s]) + 1] = e
      BY <2>1, <3>2, <3>3
    <3>5. QED
      BY <2>2, <3>1, <3>4
  <2>3. CASE ~ (s \in {s1, s2} /\ set[Slot(h, s)].counter = 1)
    <3>1. q[s] = queue[s]
      BY <1>1, <1>2, <2>3 DEF Appended, AppendedTo
    <3>2. QED
      BY <2>1, <2>3, <3>1
  <2>4. QED
    BY <2>2, <2>3
<1>4. q[s0] = queue[s0]
  BY <1>1, <1>2 DEF Appended
<1>5. \A s \in Sets : \A n \in DOMAIN queue[s] :
        /\ queue[s][n] \in Hashes
        /\ queue[s][n] \in {hash[y] : y \in Keys}
        /\ Slot(queue[s][n], s) \in Slots
        /\ xor_set[Slot(queue[s][n], s)].counter <= 1
        /\ xor_set[Slot(queue[s][n], s)].counter \in Nat
  <2>1. SUFFICES ASSUME NEW s \in Sets, NEW n \in DOMAIN queue[s]
                 PROVE  /\ queue[s][n] \in Hashes
                        /\ queue[s][n] \in {hash[y] : y \in Keys}
                        /\ Slot(queue[s][n], s) \in Slots
                        /\ xor_set[Slot(queue[s][n], s)].counter <= 1
                        /\ xor_set[Slot(queue[s][n], s)].counter \in Nat
    OBVIOUS
  <2>2. queue[s][n] \in Hashes
    BY <1>1, ElementOfSeq
  <2>3. Slot(queue[s][n], s) \in Slots
    BY <1>1, <2>2, SlotInArray
  <2>4. QED
    BY <1>1, <2>2, <2>3 DEF QueuesInv
<1>6. \A s \in Sets : Slot(h, s) \in Slots
  BY <1>1, SlotInArray
<1>7. \A s \in Sets : set[Slot(h, s)].counter = 1 /\ s \in {s1, s2} => xor_set[Slot(h, s)].counter = 2
  <2>1. \A s \in Sets : xor_set[Slot(h, s)].counter \in Nat
    BY <1>1, <1>6
  <2>2. QED
    BY <1>6, <2>1
<1>8. /\ Pending(s0)' = Pending(s0) \ {begin + 1}
      /\ \A s \in Sets : s # s0 => Pending(s)' = DOMAIN q[s] /\ Pending(s) = DOMAIN queue[s]
  <2>1. Pending(s0)' = {n \in DOMAIN queue[s0] : begin + 1 < n}
    BY <1>2, <1>4 DEF Pending
  <2>2. Pending(s0) = {n \in DOMAIN queue[s0] : begin < n}
    BY DEF Pending
  <2>3. queue[s0] \in Seq(Hashes)
    BY <1>1
  <2>4. \A n \in DOMAIN queue[s0] : begin + 1 < n <=> begin < n /\ n # begin + 1
    BY <1>1, <2>3
  <2>5. \A s \in Sets : s # s0 => Pending(s)' = DOMAIN q[s] /\ Pending(s) = DOMAIN queue[s]
    BY <1>2 DEF Pending
  <2>6. QED
    BY <2>1, <2>2, <2>4, <2>5
<1>9. begin' <= Len(queue'[set0'])
  BY <1>1, <1>2, <1>4
<1>10. ASSUME NEW s \in Sets, NEW n \in DOMAIN q[s]
       PROVE  q[s][n] \in {hash[y] : y \in Keys} /\ set[Slot(q[s][n], s)].counter <= 1
  <2>1. CASE n \in DOMAIN queue[s]
    <3>1. PICK a : a = Slot(queue[s][n], s)
      OBVIOUS
    <3>2. /\ q[s][n] = queue[s][n] /\ a \in Slots
          /\ xor_set[a].counter <= 1 /\ xor_set[a].counter \in Nat
          /\ queue[s][n] \in {hash[y] : y \in Keys}
      BY <1>3, <1>5, <2>1, <3>1
    <3>3. set[a].counter = xor_set[a].counter - 1 \/ set[a].counter = xor_set[a].counter
      BY <3>2
    <3>4. QED
      BY <3>1, <3>2, <3>3
  <2>2. CASE n \notin DOMAIN queue[s]
    <3>1. PICK a : a = Slot(h, s)
      OBVIOUS
    <3>2. /\ s \in {s1, s2} /\ set[a].counter = 1 /\ q[s][n] = set[a].hash
      BY <1>3, <2>2, <3>1
    <3>3. PICK y \in Left : set[a].hash = hash[y] /\ Slot(hash[y], s) = a
      BY <3>1, <3>2 DEF RemainsOne
    <3>4. y \in Keys
      BY <3>3 DEF Left
    <3>5. QED
      BY <3>2, <3>3, <3>4
  <2>3. QED
    BY <2>1, <2>2
<1>11. ASSUME NEW s \in Sets, NEW n \in DOMAIN q[s], NEW m \in DOMAIN q[s], n # m
       PROVE  Slot(q[s][n], s) # Slot(q[s][m], s)
  <2>1. ASSUME NEW i \in DOMAIN q[s], NEW j \in DOMAIN q[s],
               i \in DOMAIN queue[s], j \notin DOMAIN queue[s]
        PROVE  Slot(q[s][i], s) # Slot(q[s][j], s)
    <3>1. xor_set[Slot(q[s][i], s)].counter <= 1
      BY <1>3, <1>5, <2>1
    <3>2. Slot(q[s][j], s) = Slot(h, s) /\ xor_set[Slot(h, s)].counter = 2
      BY <1>3, <1>7, <2>1 DEF RemainsOne
    <3>3. QED
      BY <3>1, <3>2
  <2>2. CASE n \in DOMAIN queue[s] /\ m \in DOMAIN queue[s]
    BY <1>3, <1>11, <2>2 DEF QueuesInv
  <2>3. CASE n \notin DOMAIN queue[s] /\ m \notin DOMAIN queue[s]
    BY <1>3, <1>11, <2>3
  <2>4. QED
    BY <2>1, <2>2, <2>3
<1>12. ASSUME NEW s \in Sets, NEW n \in Pending(s)', set[Slot(q[s][n], s)].counter # 0
       PROVE  q[s][n] \notin Pushed'
  <2>1. CASE n \in DOMAIN queue[s]
    <3>1. n \in Pending(s) /\ q[s][n] = queue[s][n]
      BY <1>3, <1>8, <2>1
    <3>2. PICK a : a = Slot(queue[s][n], s) /\ a \in Slots
      BY <1>5, <2>1
    <3>3. /\ xor_set[a].counter <= 1 /\ xor_set[a].counter \in Nat
          /\ set[a].counter = IF a \in {Slot(h, s1), Slot(h, s2)}
                              THEN xor_set[a].counter - 1 ELSE xor_set[a].counter
      BY <1>5, <2>1, <3>2
    <3>4. xor_set[a].counter = 1
      <4>1. set[a].counter # 0 /\ set[a].counter \in Nat
        BY <1>12, <3>1, <3>2
      <4>2. QED
        BY <3>3, <4>1
    <3>5. queue[s][n] \notin Pushed
      BY <3>1, <3>2, <3>4 DEF QueuesInv
    <3>6. queue[s][n] # h
      <4>1. CASE s = s0
        <5>1. n # begin + 1
          BY <1>8, <4>1
        <5>2. Slot(queue[s][n], s0) # Slot(queue[s0][begin+1], s0)
          BY <2>1, <4>1, <5>1 DEF QueuesInv
        <5>3. QED
          BY <4>1, <5>2
      <4>2. CASE s # s0
        <5>1. queue[s][n] = h => set[a].counter = 0
          BY <3>2, <3>3, <3>4, <4>2
        <5>2. QED
          BY <1>12, <3>1, <3>2, <5>1
      <4>3. QED
        BY <4>1, <4>2
    <3>7. QED
      BY <3>1, <3>5, <3>6
  <2>2. CASE n \notin DOMAIN queue[s]
    <3>1. n \in DOMAIN q[s]
      BY <1>2, <1>12 DEF Pending
    <3>2. PICK y \in Left \ {x} : q[s][n] = hash[y]
      <4>1. /\ RemainsOne(set, h, x, s) /\ set[Slot(h, s)].counter = 1
            /\ q[s][n] = set[Slot(h, s)].hash
        BY <1>3, <2>2, <3>1
      <4>2. QED
        BY <4>1 DEF RemainsOne
    <3>3. y \in Left'
      BY <3>2
    <3>4. QED
      BY <3>2, <3>3 DEF Left
  <2>3. QED
    BY <2>1, <2>2
<1>13. ASSUME NEW s \in Sets, NEW y \in Left', set[Slot(hash[y], s)].counter = 1
       PROVE  \E n \in Pending(s)' : q[s][n] = hash[y]
  <2>1. /\ y \in Keys /\ y \in Left \ {x} /\ hash[y] \in Hashes /\ hash[y] # h
    BY <1>13 DEF Left
  <2>2. PICK a : a = Slot(hash[y], s) /\ a \in Slots
    BY <1>1, <2>1, SlotInArray
  <2>3. CASE xor_set[a].counter = 1
    <3>1. PICK n \in Pending(s) : queue[s][n] = hash[y]
      BY <2>1, <2>2, <2>3 DEF QueuesInv
    <3>2. n \in DOMAIN queue[s] /\ ~ (s = s0 /\ n = begin + 1)
      BY <2>1, <3>1 DEF Pending
    <3>3. n \in Pending(s)' /\ q[s][n] = hash[y]
      BY <1>3, <1>8, <3>1, <3>2
    <3>4. QED
      BY <3>3
  <2>4. CASE xor_set[a].counter # 1
    <3>1. a \in {Slot(h, s1), Slot(h, s2)}
      BY <1>13, <2>2, <2>4
    <3>2. s \in {s1, s2} /\ a = Slot(h, s)
      BY <1>1, <2>1, <2>2, <3>1, SlotsMeet
    <3>3. PICK n \in DOMAIN q[s] : q[s][n] = set[Slot(h, s)].hash
      BY <1>3, <1>13, <2>2, <3>2
    <3>4. set[Slot(h, s)].hash = hash[y]
      <4>1. set[Slot(h, s)].counter = 1 /\ Slot(hash[y], s) = Slot(h, s)
        BY <1>13, <2>2, <3>2
      <4>2. \A z \in Left \ {x} : Slot(hash[z], s) = Slot(h, s) => set[Slot(h, s)].hash = hash[z]
        BY <3>2, <4>1 DEF RemainsOne
      <4>3. QED
        BY <2>1, <4>1, <4>2
    <3>5. QED
      BY <1>8, <3>2, <3>3, <3>4
  <2>5. QED
    BY <2>3, <2>4
<1>14. queue' \in [Sets -> Seq(Hashes)]
  <2>1. q = [s \in Sets |-> q[s]]
    BY <1>1, <1>2 DEF Appended
  <2>2. QED
    BY <1>2, <1>3, <2>1
<1>15. QueuesInv'
  <2>1. \A s \in Sets : \A n \in DOMAIN q[s] :
          q[s][n] \in {hash[y] : y \in Keys} /\ set[Slot(q[s][n], s)].counter <= 1
    BY <1>10
  <2>2. \A s \in Sets : \A n, m \in DOMAIN q[s] : n # m => Slot(q[s][n], s) # Slot(q[s][m], s)
    BY <1>11
  <2>3. \A s \in Sets : \A n \in Pending(s)' :
          set[Slot(q[s][n], s)].counter # 0 => q[s][n] \notin Pushed'
    BY <1>12
  <2>4. \A s \in Sets : \A y \in Left' :
          set[Slot(hash[y], s)].counter = 1 => \E n \in Pending(s)' : q[s][n] = hash[y]
    BY <1>13
  <2>5. QED
    BY <1>2, <1>9, <2>1, <2>2, <2>3, <2>4, NewQueues
<1>16. QED
  BY <1>14, <1>15

(* Standard: peeling a hash. *)
LEMMA PeelKeeps ==
  ASSUME IInv, Peel, variant = "Standard"
  PROVE  IInv'
<1>1. /\ pc = "peel" /\ pc' = pc /\ Hashed /\ Hashed' /\ Peels
      /\ variant' = variant /\ hash' = hash /\ set0' = set0
  BY DEF Peel, Peeling, Hashed, Peels
<1>2. /\ attempt' = attempt /\ run' = run /\ UNCHANGED resultVars
      /\ begin < Len(queue[set0]) /\ begin' = begin + 1
  BY DEF Peel, Peeling
<1>3. /\ stack' = Append(stack, Head0)
      /\ runs' = [runs EXCEPT ![Len(runs)] = @ + 1]
  BY DEF Peel, Peeling
<1>4. /\ xor_set' = [xor_set EXCEPT ![Slot(Head0, Set1)] = Without(@, Head0),
                                    ![Slot(Head0, Set2)] = Without(@, Head0)]
      /\ queue' = [queue EXCEPT ![Set1] = Enqueued(Set1), ![Set2] = Enqueued(Set2)]
  BY DEF Peel, Peeling
<1>5. /\ TypeOK /\ ControlInv /\ RunsInv /\ StackInv /\ PeelOrder /\ EntriesInv
      /\ QueuesInv /\ AssignInv
  BY DEF IInv
<1>6. PICK h, s0, s1, s2, p : h = Head0 /\ s0 = set0 /\ s1 = Set1 /\ s2 = Set2 /\ p = Len(stack) + 1
  OBVIOUS
<1>7. PICK b, a1, a2 : b = Slot(h, s0) /\ a1 = Slot(h, s1) /\ a2 = Slot(h, s2)
  OBVIOUS
<1>8. PICK x \in Left : /\ h \in Hashes /\ hash[x] = h
                        /\ x \in In(b) /\ In(b) \cap Left = {x} /\ Counted(b) = {x}
  BY <1>1, <1>6, <1>7, PeelsOne
<1>9. /\ hash \in [Keys -> Hashes] /\ variant \in Variants /\ variant = "Standard"
      /\ s0 \in Sets /\ s1 \in Sets /\ s2 \in Sets
      /\ s1 # s0 /\ s2 # s0 /\ s1 # s2 /\ \A s \in Sets : s \in {s0, s1, s2}
      /\ begin + 1 \in DOMAIN queue[s0] /\ queue[s0][begin+1] = h
      /\ queue \in [Sets -> Seq(Hashes)] /\ xor_set \in [Slots -> [hash : Hashes, counter : Nat]]
      /\ x \in Keys
  <2>1. s0 \in 0..2 /\ s1 = (s0 + 1) % 3 /\ s2 = (s0 + 2) % 3
    BY <1>5, <1>6 DEF TypeOK, Set1, Set2, Sets
  <2>2. /\ s1 \in Sets /\ s2 \in Sets
        /\ s1 # s0 /\ s2 # s0 /\ s1 # s2 /\ \A s \in Sets : s \in {s0, s1, s2}
    BY <2>1 DEF Sets
  <2>3. begin \in Nat /\ queue \in [Sets -> Seq(Hashes)] /\ s0 \in Sets
    BY <1>5, <1>6 DEF TypeOK
  <2>4. begin + 1 \in DOMAIN queue[s0]
    BY <1>2, <1>6, <2>3
  <2>5. QED
    BY <1>1, <1>5, <1>6, <2>2, <2>3, <2>4 DEF TypeOK, ControlInv, Head0, Left
<1>10. /\ a1 \in Slots /\ a2 \in Slots /\ b \in Slots
       /\ a1 # a2 /\ a1 # b /\ a2 # b
  BY <1>7, <1>8, <1>9, SlotInArray, SlotsMeet
<1>11. /\ RunsCut' /\ Len(runs') = Len(runs)
       /\ stack' \in Seq(Hashes) /\ Pushes(p, hash[x], b)
  BY <1>1, <1>3, <1>5, <1>6, <1>7, <1>8, RunExtends
<1>12. Pushed' = Pushed \cup {h} /\ Left' = Left \ {x} /\ StackInv' /\ PeelOrder'
  <2>1. /\ DOMAIN stack' = DOMAIN stack \cup {p}
        /\ \A q \in DOMAIN stack : HashAt(q)' = HashAt(q) /\ PeeledFrom(q)' = PeeledFrom(q)
        /\ HashAt(p)' = hash[x] /\ PeeledFrom(p)' = b
    BY <1>11 DEF Pushes
  <2>2. b = Slot(hash[x], s0) /\ In(b) \cap Left = {x} /\ p = Len(stack) + 1
    BY <1>6, <1>7, <1>8
  <2>3. /\ Pushed' = Pushed \cup {hash[x]} /\ Left' = Left \ {x}
        /\ StackInv' /\ PeelOrder'
    BY <1>1, <1>5, <1>9, <2>1, <2>2, RemovalKeeps
  <2>4. QED
    BY <1>8, <2>3
<1>13. \A y \in Keys : hash[y] = hash[x] => y = x
  <2>1. SUFFICES ASSUME NEW y \in Keys, hash[y] = hash[x] PROVE y = x
    OBVIOUS
  <2>2. y \in In(b) /\ y \in Left
    BY <1>7, <1>8, <1>9, <2>1 DEF In, Left
  <2>3. QED
    BY <1>8, <2>2
<1>14. ASSUME NEW a
       PROVE  Counted(a)' = IF a = b THEN Counted(a) ELSE Counted(a) \ {x}
  <2>1. p \notin DOMAIN stack
    BY <1>5, <1>6, <1>9 DEF TypeOK
  <2>2. /\ DOMAIN stack' = DOMAIN stack \cup {p}
        /\ \A q \in DOMAIN stack : HashAt(q)' = HashAt(q) /\ PeeledFrom(q)' = PeeledFrom(q)
        /\ HashAt(p)' = hash[x] /\ PeeledFrom(p)' = b
    BY <1>11 DEF Pushes
  <2>3. x \in In(b) /\ Left' = Left \ {x}
    BY <1>8, <1>12
  <2>4. QED
    BY <1>1, <1>5, <1>9, <1>13, <2>1, <2>2, <2>3, CountedAfter
<1>15. \A a : a \in {a1, a2} => x \in In(a)
  BY <1>7, <1>8, <1>9 DEF In
<1>16. ASSUME NEW a \in Slots
       PROVE  Counted(a)' = IF a \in {a1, a2} THEN Counted(a) \ {x} ELSE Counted(a)
  <2>1. CASE a \in {a1, a2}
    BY <1>10, <1>14, <2>1
  <2>2. CASE a = b
    BY <1>10, <1>14, <2>2
  <2>3. CASE a \notin {a1, a2, b}
    <3>1. x \notin In(a)
      BY <1>7, <1>8, <1>9, <2>3 DEF In
    <3>2. x \notin Counted(a)
      BY <3>1 DEF Counted
    <3>3. QED
      BY <1>14, <2>3, <3>2
  <2>4. QED
    BY <2>1, <2>2, <2>3
<1>17. PICK set : set = xor_set'
  OBVIOUS
<1>18. set = [a \in Slots |-> IF a \in {a1, a2} THEN Without(xor_set[a], hash[x]) ELSE xor_set[a]]
  BY <1>4, <1>6, <1>7, <1>8, <1>9, <1>10, <1>17
<1>19. /\ EntriesInv'
       /\ set \in [Slots -> [hash : Hashes, counter : Nat]]
       /\ \A a \in Slots : set[a] = EntryOf(Counted(a)')
       /\ \A a \in Slots : set[a].counter = IF a \in {a1, a2} THEN xor_set[a].counter - 1
                                                             ELSE xor_set[a].counter
  <2>1. \A a \in {a1, a2} : x \in In(a)
    BY <1>15
  <2>2. \A a \in Slots : Counted(a)' = IF a \in {a1, a2} THEN Counted(a) \ {x} ELSE Counted(a)
    BY <1>16
  <2>3. PICK N : N = {a1, a2}
    OBVIOUS
  <2>4. \A a \in N : x \in In(a)
    BY <2>1, <2>3
  <2>5. \A a \in Slots : Counted(a)' = IF a \in N THEN Counted(a) \ {x} ELSE Counted(a)
    BY <2>2, <2>3
  <2>6. xor_set' = [a \in Slots |-> IF a \in N THEN Without(xor_set[a], hash[x]) ELSE xor_set[a]]
    BY <1>17, <1>18, <2>3
  <2>7. TypeOK /\ EntriesInv /\ hash \in [Keys -> Hashes]
    BY <1>5, <1>9
  <2>8. /\ EntriesInv'
        /\ xor_set' \in [Slots -> [hash : Hashes, counter : Nat]]
        /\ \A a \in Slots : xor_set'[a] = EntryOf(Counted(a)')
        /\ \A a \in Slots : xor_set'[a].counter = IF a \in N THEN xor_set[a].counter - 1
                                                               ELSE xor_set[a].counter
    BY <1>1, <2>4, <2>5, <2>6, <2>7, EntriesAfter
  <2>9. QED
    BY <1>17, <2>3, <2>8
<1>20. ASSUME NEW s \in {s1, s2}
       PROVE  RemainsOne(set, h, x, s)
  <2>1. SUFFICES ASSUME set[Slot(h, s)].counter = 1
                 PROVE  /\ \E y \in Left \ {x} : /\ set[Slot(h, s)].hash = hash[y]
                                                 /\ Slot(hash[y], s) = Slot(h, s)
                        /\ \A y \in Left \ {x} : Slot(hash[y], s) = Slot(h, s)
                                                   => set[Slot(h, s)].hash = hash[y]
    BY DEF RemainsOne
  <2>2. PICK a \in {a1, a2} : a = Slot(h, s) /\ a \in Slots /\ s \in Sets
    BY <1>7, <1>9, <1>10
  <2>3. /\ set[a] = EntryOf(Counted(a)') /\ Counted(a)' = Counted(a) \ {x}
        /\ Counted(a)' \in SUBSET Keys
    BY <1>16, <1>19, <2>2 DEF Counted, In
  <2>4. Counted(a)' \subseteq Left \ {x}
    <3>1. x \in In(a) /\ In(a)' = In(a)
      BY <1>1, <1>15, <2>2, SameKeys
    <3>2. \A q \in DOMAIN stack : PeeledFrom(q) # a
      BY <1>1, <1>5, <3>1 DEF StackInv
    <3>3. a # b
      BY <1>10, <2>2
    <3>4. \A y \in Counted(a) : y \in Left
      BY <3>2 DEF Counted
    <3>5. QED
      BY <2>3, <3>4
  <2>5. PICK y \in Counted(a)' : Counted(a)' = {y} /\ set[a].hash = hash[y]
    <3>1. PICK S \in SUBSET Keys : S = Counted(a)'
      BY <2>3
    <3>2. set[a] = EntryOf(S) /\ EntryOf(S).counter = 1
      BY <2>1, <2>2, <2>3, <3>1
    <3>3. PICK y \in S : S = {y}
      BY <1>9, <3>2, EntryFacts
    <3>4. EntryOf(S).hash = hash[y]
      BY <1>9, <3>3, EntryFacts
    <3>5. QED
      BY <3>1, <3>2, <3>3, <3>4
  <2>6. y \in Left \ {x} /\ y \in Keys
    BY <2>3, <2>4, <2>5
  <2>7. Slot(hash[y], s) = Slot(h, s)
    <3>1. y \in In(a)
      BY <2>3, <2>5 DEF Counted
    <3>2. PICK t \in Sets : Slot(hash[y], t) = a
      BY <3>1 DEF In
    <3>3. hash[y] \in Hashes
      BY <1>9, <2>6
    <3>4. t = s
      BY <1>8, <1>9, <2>2, <3>2, <3>3, SlotsMeet
    <3>5. QED
      BY <2>2, <3>2, <3>4
  <2>8. ASSUME NEW z \in Left \ {x}, Slot(hash[z], s) = Slot(h, s)
        PROVE  set[a].hash = hash[z]
    <3>1. z \in Counted(a)'
      BY <2>2, <2>3, <2>8 DEF Counted, In, Left
    <3>2. QED
      BY <2>5, <3>1
  <2>9. QED
    BY <2>2, <2>5, <2>6, <2>7, <2>8
<1>21. Appended(queue', set, h, s1, s2)
  <2>1. Enqueued(s1) = AppendedTo(queue[s1], set[a1])
    BY <1>6, <1>7, <1>8, <1>10, <1>18 DEF Enqueued, AppendedTo
  <2>2. Enqueued(s2) = AppendedTo(queue[s2], set[a2])
    BY <1>6, <1>7, <1>8, <1>10, <1>18 DEF Enqueued, AppendedTo
  <2>3. QED
    BY <1>4, <1>6, <1>7, <2>1, <2>2 DEF Appended
<1>22. QueuesInv' /\ queue' \in [Sets -> Seq(Hashes)]
  <2>1. \A a \in Slots : set[a].counter = IF a \in {Slot(h, s1), Slot(h, s2)}
                                          THEN xor_set[a].counter - 1 ELSE xor_set[a].counter
    BY <1>7, <1>19
  <2>2. RemainsOne(set, h, x, s1) /\ RemainsOne(set, h, x, s2)
    BY <1>20
  <2>3. QED
    <3>1. /\ TypeOK /\ QueuesInv /\ s0 = set0 /\ hash[x] = h /\ h \in Hashes
          /\ begin' = begin + 1 /\ xor_set' = set
          /\ Pushed' = Pushed \cup {h} /\ Left' = Left \ {x}
          /\ set \in [Slots -> [hash : Hashes, counter : Nat]]
      BY <1>2, <1>5, <1>6, <1>8, <1>12, <1>17, <1>19
    <3>2. QED
      BY <1>1, <1>9, <1>21, <2>1, <2>2, <3>1, QueuesAfter
<1>23. Slots' = Slots
  BY <1>1, SameKeys
<1>24. TypeOK'
  <2>1. begin' \in Nat
    BY <1>2, <1>5 DEF TypeOK
  <2>2. xor_set' \in [Slots -> [hash : Hashes, counter : Nat]]
    BY <1>17, <1>19
  <2>3. runs' \in Seq(Nat) /\ runs' # <<>> /\ stack' \in Seq(Hashes)
    BY <1>11 DEF RunsCut
  <2>4. QED
    BY <1>1, <1>2, <1>5, <1>9, <1>22, <1>23, <2>1, <2>2, <2>3 DEF TypeOK, resultVars
<1>25. ControlInv'
  BY <1>1, <1>2, <1>5 DEF ControlInv, Hashed, resultVars
<1>26. RunsInv'
  <2>1. Len(runs') >= 2 /\ (Len(runs') - 2) % 3 = set0'
    <3>1. Len(runs) >= 2 /\ (Len(runs) - 2) % 3 = set0
      BY <1>1, <1>5 DEF RunsInv
    <3>2. QED
      BY <1>1, <1>11, <3>1
  <2>2. QED
    BY <1>1, <1>11, <2>1 DEF RunsInv, RunsCut
<1>27. AssignInv' /\ AssignedStays' /\ SlotQueueInv' /\ OnlyCoreRejected'
  <2>1. AssignInv'
    BY <1>1, <1>2, <1>5, <1>23 DEF AssignInv, ControlInv, resultVars
  <2>2. QED
    BY <1>1, <2>1 DEF AssignedStays, Assigned, SlotQueueInv, OnlyCoreRejected
<1>28. QED
  BY <1>12, <1>19, <1>22, <1>24, <1>25, <1>26, <1>27 DEF IInv

(* A sequence that holds every member of a set once, and nothing else.     *)
Lists(q, T) ==
  /\ q \in Seq(T)
  /\ \A n, m \in DOMAIN q : n # m => q[n] # q[m]
  /\ \A a \in T : \E n \in DOMAIN q : q[n] = a

(* Two of them in a row list the union, if they share nothing.             *)
LEMMA ListsConcat ==
  ASSUME NEW T, NEW U, T \cap U = {}, NEW q, NEW e, Lists(q, T), Lists(e, U)
  PROVE  Lists(q \o e, T \cup U)
<1>1. PICK k, l \in Nat : k = Len(q) /\ l = Len(e) /\ DOMAIN q = 1 .. k /\ DOMAIN e = 1 .. l
  BY DEF Lists
<1>2. q \in Seq(T \cup U) /\ e \in Seq(T \cup U)
  <2>1. \A n \in DOMAIN q : q[n] \in T \cup U
    BY ElementOfSeq DEF Lists
  <2>2. \A n \in DOMAIN e : e[n] \in T \cup U
    BY ElementOfSeq DEF Lists
  <2>3. q = [n \in 1 .. k |-> q[n]] /\ e = [n \in 1 .. l |-> e[n]]
    BY <1>1 DEF Lists
  <2>4. QED
    BY <1>1, <2>1, <2>2, <2>3 DEF Lists
<1>3. PICK c : c = q \o e
  OBVIOUS
<1>4. /\ c \in Seq(T \cup U) /\ DOMAIN c = 1 .. k + l
      /\ \A n \in 1 .. k : c[n] = q[n]
      /\ \A n \in k+1 .. k + l : c[n] = e[n - k]
  BY <1>1, <1>2, <1>3
<1>5. \A n \in 1 .. k : n \in DOMAIN c /\ c[n] = q[n] /\ c[n] \in T
  <2>1. \A n \in 1 .. k : q[n] \in T
    BY <1>1, ElementOfSeq DEF Lists
  <2>2. QED
    BY <1>1, <1>4, <2>1
<1>6. \A n \in 1 .. l : k + n \in DOMAIN c /\ k + n \notin 1 .. k /\ c[k + n] = e[n] /\ c[k + n] \in U
  <2>1. \A n \in 1 .. l : e[n] \in U
    BY <1>1, ElementOfSeq DEF Lists
  <2>2. ASSUME NEW n \in 1 .. l
        PROVE  k + n \in 1 .. k + l /\ k + n \notin 1 .. k /\ c[k + n] = e[n]
    <3>1. PICK m : m = k + n
      OBVIOUS
    <3>2. m \in k+1 .. k + l /\ m - k = n /\ m \in 1 .. k + l /\ m \notin 1 .. k
      BY <1>1, <3>1
    <3>3. QED
      BY <1>4, <3>1, <3>2
  <2>3. QED
    BY <1>4, <2>1, <2>2
<1>7. \A n \in DOMAIN c : n \in 1 .. k \/ \E i \in 1 .. l : n = k + i
  <2>1. SUFFICES ASSUME NEW n \in DOMAIN c, n \notin 1 .. k
                 PROVE  \E i \in 1 .. l : n = k + i
    OBVIOUS
  <2>2. n - k \in 1 .. l /\ n = k + (n - k)
    BY <1>1, <1>4, <2>1
  <2>3. QED
    BY <2>2
<1>8. ASSUME NEW n \in DOMAIN c, NEW m \in DOMAIN c, n # m
      PROVE  c[n] # c[m]
  <2>1. CASE n \in 1 .. k /\ m \in 1 .. k
    BY <1>1, <1>5, <1>8, <2>1 DEF Lists
  <2>2. CASE n \in 1 .. k /\ m \notin 1 .. k
    BY <1>5, <1>6, <1>7, <2>2
  <2>3. CASE n \notin 1 .. k /\ m \in 1 .. k
    BY <1>5, <1>6, <1>7, <2>3
  <2>4. CASE n \notin 1 .. k /\ m \notin 1 .. k
    <3>1. PICK i \in 1 .. l, j \in 1 .. l : n = k + i /\ m = k + j
      BY <1>7, <2>4
    <3>2. i # j
      BY <1>8, <3>1
    <3>3. e[i] # e[j]
      BY <1>1, <3>2 DEF Lists
    <3>4. QED
      BY <1>6, <3>1, <3>3
  <2>5. QED
    BY <2>1, <2>2, <2>3, <2>4
<1>9. ASSUME NEW a \in T \cup U
      PROVE  \E n \in DOMAIN c : c[n] = a
  <2>1. CASE a \in T
    <3>1. PICK n \in DOMAIN q : q[n] = a
      BY <2>1 DEF Lists
    <3>2. QED
      BY <1>1, <1>5, <3>1
  <2>2. CASE a \in U
    <3>1. PICK n \in DOMAIN e : e[n] = a
      BY <2>2 DEF Lists
    <3>2. QED
      BY <1>1, <1>6, <3>1
  <2>3. QED
    BY <2>1, <2>2
<1>10. QED
  BY <1>3, <1>4, <1>8, <1>9 DEF Lists

(* Fuse: a peeled hash queues the slots of its own that hold one key now.  *)
LEMMA NowAloneLists ==
  ASSUME variant \in Variants, Hash0 \in Hashes, NEW set, NEW e, e = NowAlone(set)
  PROVE  Lists(e, {a \in Neighbours : set[a].counter = 1})
<1> DEFINE Single(s) == IF set[Slot(Hash0, s)].counter = 1 THEN <<Slot(Hash0, s)>> ELSE <<>>
           Alone(s) == {a \in {Slot(Hash0, s)} : set[a].counter = 1}
<1>1. ASSUME NEW s
      PROVE  Lists(Single(s), Alone(s))
  <2>1. CASE set[Slot(Hash0, s)].counter = 1
    <3>1. PICK a : a = Slot(Hash0, s)
      OBVIOUS
    <3>2. Single(s) = <<a>> /\ Alone(s) = {a}
      BY <2>1, <3>1
    <3>3. <<a>> \in Seq({a}) /\ DOMAIN <<a>> = {1} /\ <<a>>[1] = a
      OBVIOUS
    <3>4. Lists(<<a>>, {a})
      BY <3>3 DEF Lists
    <3>5. QED
      BY <3>2, <3>4
  <2>2. CASE set[Slot(Hash0, s)].counter # 1
    <3>1. Single(s) = <<>> /\ Alone(s) = {}
      BY <2>2
    <3>2. <<>> \in Seq({}) /\ DOMAIN <<>> = {}
      OBVIOUS
    <3>3. Lists(<<>>, {})
      BY <3>2 DEF Lists
    <3>4. QED
      BY <3>1, <3>3
  <2>3. QED
    BY <2>1, <2>2
<1>2. /\ Slot(Hash0, 0) # Slot(Hash0, 1)
      /\ Slot(Hash0, 0) # Slot(Hash0, 2)
      /\ Slot(Hash0, 1) # Slot(Hash0, 2)
  <2>1. 0 \in Sets /\ 1 \in Sets /\ 2 \in Sets
    BY DEF Sets
  <2>2. \A s, t \in Sets : Slot(Hash0, s) = Slot(Hash0, t) => s = t
    BY SlotsMeet
  <2>3. QED
    BY <2>1, <2>2
<1>3. e = Single(0) \o Single(1) \o Single(2)
  BY DEF NowAlone
<1>4. {a \in Neighbours : set[a].counter = 1} = (Alone(0) \cup Alone(1)) \cup Alone(2)
  <2>1. Neighbours = {Slot(Hash0, 0), Slot(Hash0, 1), Slot(Hash0, 2)}
    BY DEF Neighbours, Sets
  <2>2. QED
    BY <2>1
<1>5. Alone(0) \cap Alone(1) = {} /\ (Alone(0) \cup Alone(1)) \cap Alone(2) = {}
  BY <1>2
<1> HIDE DEF Single, Alone
<1>6. Lists(Single(0) \o Single(1), Alone(0) \cup Alone(1))
  BY <1>1, <1>5, ListsConcat
<1>7. Lists((Single(0) \o Single(1)) \o Single(2), (Alone(0) \cup Alone(1)) \cup Alone(2))
  BY <1>1, <1>5, <1>6, ListsConcat
<1>8. QED
  BY <1>3, <1>4, <1>7

(* Fuse: what an entry counts are the keys left of its slot.               *)
LEMMA CountedLeft ==
  ASSUME variant = "Fuse", NEW a
  PROVE  Counted(a) = In(a) \cap Left
BY DEF Counted

(* Fuse: an entry whose key is gone is skipped. *)
LEMMA SkipSlotKeeps ==
  ASSUME IInv, SkipSlot, variant = "Fuse"
  PROVE  IInv'
<1>1. /\ pc = "peel_slots" /\ pc' = pc /\ Hashed /\ Hashed' /\ Peels
      /\ UNCHANGED <<variant, attempt, hash, xor_set, queue, stack>>
      /\ UNCHANGED <<runs, set0, run>> /\ UNCHANGED resultVars
      /\ begin < Len(queue) /\ xor_set[queue[begin+1]].counter # 1
      /\ begin' = begin + 1
  BY DEF SkipSlot, Hashed, Peels, peelVars, Slot0
<1>2. /\ TypeOK /\ ControlInv /\ RunsInv /\ StackInv /\ EntriesInv /\ QueuesInv /\ SlotQueueInv
  BY DEF IInv
<1>3. \A p \in DOMAIN stack : PeeledFrom(p)' = PeeledFrom(p)
  BY <1>1, SameStack
<1>4. /\ ControlInv' /\ StackInv' /\ PeelOrder' /\ EntriesInv' /\ AssignInv' /\ AssignedStays'
      /\ Slots' = Slots
  BY <1>1, <1>3, NothingRemoved
<1>5. begin \in Nat /\ queue \in Seq(Slots) /\ Len(queue) \in Nat
  BY <1>2 DEF TypeOK
<1>6. TypeOK'
  BY <1>1, <1>2, <1>4, <1>5 DEF TypeOK, resultVars
<1>7. RunsInv'
  BY <1>1, <1>2 DEF RunsInv
<1>8. SlotQueueInv'
  <2>1. begin' <= Len(queue')
    BY <1>1, <1>5
  <2>2. ASSUME NEW a \in Slots, xor_set[a].counter = 1
        PROVE  \E n \in begin'+1 .. Len(queue) : queue[n] = a
    <3>1. PICK n \in begin+1 .. Len(queue) : queue[n] = a
      BY <1>1, <1>2, <2>2 DEF SlotQueueInv
    <3>2. n # begin + 1
      BY <1>1, <2>2, <3>1
    <3>3. n \in begin'+1 .. Len(queue)
      BY <1>1, <1>5, <3>1, <3>2
    <3>4. QED
      BY <3>1, <3>3
  <2>3. /\ \A n \in DOMAIN queue' : xor_set'[queue'[n]].counter <= 1
        /\ \A n, m \in DOMAIN queue' : n # m => queue'[n] # queue'[m]
    BY <1>1, <1>2 DEF SlotQueueInv
  <2>4. \A a \in Slots' : xor_set'[a].counter = 1 => \E n \in begin'+1 .. Len(queue') : queue'[n] = a
    BY <1>1, <1>4, <2>2
  <2>5. QED
    BY <2>1, <2>3, <2>4 DEF SlotQueueInv
<1>9. QueuesInv' /\ OnlyCoreRejected'
  BY <1>1 DEF QueuesInv, OnlyCoreRejected
<1>10. QED
  BY <1>4, <1>6, <1>7, <1>8, <1>9 DEF IInv

(* Fuse: when the queue is at its end, no slot holds a single key left.    *)
LEMMA QueueEmptyKeeps ==
  ASSUME IInv, QueueEmpty, variant = "Fuse"
  PROVE  IInv'
<1>1. /\ pc = "peel_slots" /\ pc' = "check" /\ Hashed /\ Hashed' /\ Peels
      /\ UNCHANGED <<variant, attempt, hash, xor_set, queue, stack>>
      /\ UNCHANGED <<runs, set0, run>> /\ UNCHANGED resultVars
      /\ begin = Len(queue) /\ begin' = begin
  BY DEF QueueEmpty, Hashed, Peels, peelVars
<1>2. /\ TypeOK /\ ControlInv /\ RunsInv /\ StackInv /\ EntriesInv /\ QueuesInv /\ SlotQueueInv
  BY DEF IInv
<1>3. \A p \in DOMAIN stack : PeeledFrom(p)' = PeeledFrom(p)
  BY <1>1, SameStack
<1>4. /\ ControlInv' /\ StackInv' /\ PeelOrder' /\ EntriesInv' /\ AssignInv' /\ AssignedStays'
      /\ Slots' = Slots
      /\ \A a : In(a)' = In(a)
      /\ Left' = Left
  BY <1>1, <1>3, NothingRemoved
<1>5. begin \in Nat /\ queue \in Seq(Slots) /\ Len(queue) \in Nat
  BY <1>2 DEF TypeOK
<1>6. TypeOK'
  BY <1>1, <1>2, <1>4, <1>5 DEF TypeOK, resultVars
<1>7. RunsInv'
  BY <1>1, <1>2 DEF RunsInv
<1>8. SlotQueueInv'
  <2>1. ~ Peels'
    BY <1>1 DEF Peels
  <2>2. QED
    BY <1>1, <1>2, <2>1 DEF SlotQueueInv
<1>9. OnlyCoreRejected'
  <2>1. ASSUME NEW a \in Slots, Cardinality(In(a) \cap Left) = 1
        PROVE  FALSE
    <3>1. xor_set[a].counter = Cardinality(In(a) \cap Left)
      <4>1. xor_set[a] = EntryOf(Counted(a))
        BY <1>1, <1>2 DEF EntriesInv
      <4>2. xor_set[a].counter = Cardinality(Counted(a))
        BY <4>1 DEF EntryOf
      <4>3. Counted(a) = In(a) \cap Left
        BY CountedLeft
      <4>4. QED
        BY <4>2, <4>3
    <3>2. PICK n \in begin+1 .. Len(queue) : queue[n] = a
      BY <1>1, <1>2, <2>1, <3>1 DEF SlotQueueInv
    <3>3. QED
      BY <1>1, <1>5, <3>2
  <2>2. \A a \in Slots' : Cardinality(In(a)' \cap Left') # 1
    BY <1>4, <2>1
  <2>3. QED
    BY <2>2 DEF OnlyCoreRejected, Left, Pushed
<1>10. QueuesInv'
  BY <1>1 DEF QueuesInv
<1>11. QED
  BY <1>4, <1>6, <1>7, <1>8, <1>9, <1>10 DEF IInv

(* Fuse: the entry at the head of the queue that holds one hash holds the  *)
(* hash of the only key left of its slot.                                  *)
LEMMA PeelsOneSlot ==
  ASSUME IInv, PeelSlot, variant = "Fuse"
  PROVE  /\ Hash0 \in Hashes /\ Slot0 \in Neighbours
         /\ \E x \in Left : hash[x] = Hash0 /\ In(Slot0) \cap Left = {x}
<1>1. /\ pc = "peel_slots" /\ Hashed /\ begin < Len(queue) /\ xor_set[Slot0].counter = 1
  BY DEF PeelSlot, Hashed
<1>2. TypeOK /\ ControlInv /\ EntriesInv
  BY DEF IInv
<1>3. hash \in [Keys -> Hashes]
  BY <1>1, <1>2 DEF ControlInv
<1>4. Slot0 \in Slots
  <2>1. queue \in Seq(Slots) /\ begin + 1 \in DOMAIN queue
    BY <1>1, <1>2 DEF TypeOK
  <2>2. QED
    BY <2>1, ElementOfSeq DEF Slot0
<1>5. PICK S \in SUBSET Keys : S = In(Slot0) \cap Left
  BY DEF In
<1>6. xor_set[Slot0] = EntryOf(S)
  BY <1>1, <1>2, <1>4, <1>5, CountedLeft DEF EntriesInv
<1>7. PICK x \in S : S = {x}
  BY <1>1, <1>3, <1>6, EntryFacts
<1>8. hash[x] = Hash0
  BY <1>3, <1>6, <1>7, EntryFacts DEF Hash0
<1>9. x \in Keys /\ x \in In(Slot0) /\ x \in Left
  BY <1>5, <1>7
<1>10. Hash0 \in Hashes /\ Slot0 \in Neighbours
  BY <1>3, <1>8, <1>9 DEF In, Neighbours
<1>11. QED
  BY <1>5, <1>7, <1>8, <1>9, <1>10

(* Fuse: the slots that hold one hash now are appended to the queue; that  *)
(* keeps the invariant of the queue.                                       *)
LEMMA SlotQueueAfter ==
  ASSUME TypeOK, SlotQueueInv, Hashed, Peels, UNCHANGED <<variant, hash>>, variant = "Fuse",
         begin < Len(queue), begin' = begin + 1,
         NEW N \in SUBSET Slots, queue[begin+1] \in N,
         NEW set \in [Slots -> [hash : Hashes, counter : Nat]], xor_set' = set,
         \A a \in Slots : set[a].counter = IF a \in N THEN xor_set[a].counter - 1
                                                      ELSE xor_set[a].counter,
         NEW e, Lists(e, {a \in N : set[a].counter = 1}), queue' = queue \o e
  PROVE  SlotQueueInv' /\ queue' \in Seq(Slots)
<1>1. /\ queue \in Seq(Slots) /\ Len(queue) \in Nat /\ DOMAIN queue = 1 .. Len(queue)
      /\ begin \in Nat /\ xor_set \in [Slots -> [hash : Hashes, counter : Nat]]
  <2>1. /\ queue \in Seq(Slots) /\ begin \in Nat
        /\ xor_set \in [Slots -> [hash : Hashes, counter : Nat]]
    BY DEF TypeOK
  <2>2. PICK T : T = Slots
    OBVIOUS
  <2>3. Len(queue) \in Nat /\ DOMAIN queue = 1 .. Len(queue)
    BY <2>1, <2>2
  <2>4. QED
    BY <2>1, <2>3
<1>2. /\ \A n \in DOMAIN queue : xor_set[queue[n]].counter <= 1
      /\ \A n, m \in DOMAIN queue : n # m => queue[n] # queue[m]
      /\ \A a \in Slots : xor_set[a].counter = 1 => \E n \in begin+1 .. Len(queue) : queue[n] = a
  BY DEF SlotQueueInv
<1>3. PICK T, U : /\ T = {queue[n] : n \in DOMAIN queue}
                  /\ U = {a \in N : set[a].counter = 1}
  OBVIOUS
<1>4. T \subseteq Slots /\ U \subseteq Slots
  <2>1. \A n \in DOMAIN queue : queue[n] \in Slots
    BY <1>1, ElementOfSeq
  <2>2. QED
    BY <1>3, <2>1
<1>5. \A a \in U : xor_set[a].counter = 2
  BY <1>1, <1>3, <1>4
<1>6. T \cap U = {}
  BY <1>2, <1>3, <1>5
<1>7. Lists(queue, T)
  <2>1. queue \in Seq(T)
    <3>1. queue = [n \in 1 .. Len(queue) |-> queue[n]]
      BY <1>1
    <3>2. \A n \in 1 .. Len(queue) : queue[n] \in T
      BY <1>1, <1>3
    <3>3. queue \in [1 .. Len(queue) -> T]
      BY <3>1, <3>2
    <3>4. PICK n : n = Len(queue)
      OBVIOUS
    <3>5. n \in Nat /\ queue \in [1 .. n -> T]
      BY <1>1, <3>3, <3>4
    <3>6. QED
      BY <3>5, SeqDef
  <2>2. QED
    BY <1>2, <1>3, <2>1 DEF Lists
<1>8. PICK q : q = queue'
  OBVIOUS
<1>9. Lists(q, T \cup U)
  BY <1>3, <1>6, <1>7, <1>8, ListsConcat
<1>10. q \in Seq(Slots) /\ DOMAIN q = 1 .. Len(q) /\ Len(q) \in Nat /\ \A n \in DOMAIN q : q[n] \in T \cup U
  <2>1. q \in Seq(T \cup U)
    BY <1>9 DEF Lists
  <2>2. \A n \in DOMAIN q : q[n] \in T \cup U
    BY <2>1, ElementOfSeq
  <2>3. QED
    BY <1>4, <2>1, <2>2
<1>11. Len(queue) <= Len(q) /\ \A n \in 1 .. Len(queue) : q[n] = queue[n]
  <2>1. PICK l \in Nat : l = Len(e) /\ e \in Seq(U)
    BY <1>3 DEF Lists
  <2>2. e \in Seq(Slots)
    BY <1>4, <2>1
  <2>3. QED
    BY <1>1, <1>8, <2>1, <2>2
<1>12. \A a \in T \cup U : set[a].counter <= 1
  <2>1. SUFFICES ASSUME NEW a \in T \cup U
                 PROVE  set[a].counter <= 1
    OBVIOUS
  <2>2. CASE a \in U
    BY <1>3, <2>2
  <2>3. CASE a \in T
    <3>1. xor_set[a].counter <= 1 /\ xor_set[a].counter \in Nat /\ a \in Slots
      BY <1>1, <1>2, <1>3, <1>4, <2>3
    <3>2. set[a].counter = xor_set[a].counter - 1 \/ set[a].counter = xor_set[a].counter
      BY <3>1
    <3>3. QED
      BY <3>1, <3>2
  <2>4. QED
    BY <2>2, <2>3
<1>13. ASSUME NEW a \in Slots, set[a].counter = 1
       PROVE  \E n \in begin'+1 .. Len(q) : q[n] = a
  <2>1. CASE xor_set[a].counter = 1
    <3>1. PICK n \in begin+1 .. Len(queue) : queue[n] = a
      BY <1>2, <2>1
    <3>2. a \notin N
      BY <1>13, <2>1
    <3>3. n # begin + 1
      BY <3>1, <3>2
    <3>4. n \in begin'+1 .. Len(q) /\ n \in 1 .. Len(queue)
      BY <1>1, <1>10, <1>11, <3>1, <3>3
    <3>5. QED
      BY <1>11, <3>1, <3>4
  <2>2. CASE xor_set[a].counter # 1
    <3>1. a \in U
      BY <1>3, <1>13, <2>2
    <3>2. PICK n \in DOMAIN q : q[n] = a
      BY <1>9, <3>1 DEF Lists
    <3>3. n \notin 1 .. Len(queue)
      BY <1>1, <1>3, <1>6, <1>11, <3>1, <3>2
    <3>4. n \in begin'+1 .. Len(q)
      BY <1>1, <1>10, <3>2, <3>3
    <3>5. QED
      BY <3>2, <3>4
  <2>3. QED
    BY <2>1, <2>2
<1>14. begin' <= Len(q)
  BY <1>1, <1>10, <1>11
<1>15. SlotQueueInv'
  <2>1. Slots' = Slots
    BY SameKeys
  <2>2. \A n \in DOMAIN queue' : xor_set'[queue'[n]].counter <= 1
    BY <1>8, <1>10, <1>12
  <2>3. \A n, m \in DOMAIN queue' : n # m => queue'[n] # queue'[m]
    BY <1>8, <1>9 DEF Lists
  <2>4. \A a \in Slots' : xor_set'[a].counter = 1 => \E n \in begin'+1 .. Len(queue') : queue'[n] = a
    BY <1>8, <1>13, <2>1
  <2>5. QED
    BY <1>8, <1>14, <2>2, <2>3, <2>4 DEF SlotQueueInv
<1>16. QED
  BY <1>8, <1>10, <1>15

(* Fuse: peeling a hash. *)
LEMMA PeelSlotKeeps ==
  ASSUME IInv, PeelSlot, variant = "Fuse"
  PROVE  IInv'
<1>1. /\ pc = "peel_slots" /\ pc' = pc /\ Hashed /\ Hashed' /\ Peels
      /\ variant' = variant /\ hash' = hash /\ runs' = runs /\ set0' = set0
  BY DEF PeelSlot, Hashed, Peels
<1>2. /\ attempt' = attempt /\ run' = run /\ UNCHANGED resultVars
      /\ begin < Len(queue) /\ begin' = begin + 1
  BY DEF PeelSlot
<1>3. /\ stack' = Append(stack, [hash |-> Hash0, address |-> Slot0])
      /\ xor_set' = RemoveHash
      /\ queue' = queue \o NowAlone(xor_set')
  BY DEF PeelSlot
<1>4. /\ TypeOK /\ ControlInv /\ RunsInv /\ StackInv /\ PeelOrder /\ EntriesInv
      /\ SlotQueueInv /\ AssignInv
  BY DEF IInv
<1>5. PICK h, b, p, N : h = Hash0 /\ b = Slot0 /\ p = Len(stack) + 1 /\ N = Neighbours
  OBVIOUS
<1>6. PICK x \in Left : hash[x] = h /\ In(b) \cap Left = {x} /\ h \in Hashes /\ b \in N
  BY <1>5, PeelsOneSlot
<1>7. /\ hash \in [Keys -> Hashes] /\ variant \in Variants /\ x \in Keys
      /\ b = queue[begin+1] /\ N = {Slot(h, s) : s \in Sets}
  BY <1>1, <1>4, <1>5 DEF TypeOK, ControlInv, Left, Slot0, Neighbours
<1>8. N \in SUBSET Slots /\ b \in Slots /\ \A a : a \in N <=> x \in In(a)
  <2>1. N \in SUBSET Slots
    BY <1>6, <1>7, SlotInArray
  <2>2. \A a : a \in N <=> x \in In(a)
    BY <1>6, <1>7 DEF In
  <2>3. QED
    BY <1>6, <2>1, <2>2
<1>9. /\ stack' \in Seq([hash : Hashes, address : Slots])
      /\ DOMAIN stack' = DOMAIN stack \cup {p}
      /\ \A q \in DOMAIN stack : HashAt(q)' = HashAt(q) /\ PeeledFrom(q)' = PeeledFrom(q)
      /\ HashAt(p)' = hash[x] /\ PeeledFrom(p)' = b
  <2>1. PICK R, e : R = [hash : Hashes, address : Slots] /\ e = [hash |-> h, address |-> b]
    OBVIOUS
  <2>2. stack \in Seq(R) /\ e \in R /\ stack' = Append(stack, e)
    BY <1>3, <1>4, <1>5, <1>6, <1>8, <2>1 DEF TypeOK
  <2>3. /\ stack' \in Seq(R) /\ DOMAIN stack' = DOMAIN stack \cup {p}
        /\ \A q \in DOMAIN stack : stack'[q] = stack[q]
        /\ stack'[p] = e
    BY <1>5, <2>2
  <2>4. variant' # "Standard" /\ variant # "Standard"
    BY <1>1
  <2>5. \A q \in DOMAIN stack : HashAt(q)' = HashAt(q) /\ PeeledFrom(q)' = PeeledFrom(q)
    BY <2>3, <2>4 DEF HashAt, PeeledFrom
  <2>6. HashAt(p)' = hash[x] /\ PeeledFrom(p)' = b
    BY <1>6, <2>1, <2>3, <2>4 DEF HashAt, PeeledFrom
  <2>7. QED
    BY <2>1, <2>3, <2>5, <2>6
<1>10. Pushed' = Pushed \cup {hash[x]} /\ Left' = Left \ {x} /\ StackInv' /\ PeelOrder'
  <2>1. PICK s \in Sets : b = Slot(hash[x], s)
    BY <1>6, <1>7
  <2>2. p = Len(stack) + 1 /\ In(b) \cap Left = {x}
    BY <1>5, <1>6
  <2>3. QED
    BY <1>1, <1>4, <1>9, <2>1, <2>2, RemovalKeeps
<1>11. ASSUME NEW a \in Slots
       PROVE  Counted(a)' = IF a \in N THEN Counted(a) \ {x} ELSE Counted(a)
  <2>1. In(a)' = In(a)
    BY <1>1, SameKeys
  <2>2. Counted(a) = In(a) \cap Left
    BY CountedLeft
  <2>3. Counted(a)' = In(a)' \cap Left'
    BY <1>1 DEF Counted
  <2>4. QED
    BY <1>8, <1>10, <2>1, <2>2, <2>3
<1>12. PICK set : set = xor_set'
  OBVIOUS
<1>13. /\ EntriesInv'
       /\ set \in [Slots -> [hash : Hashes, counter : Nat]]
       /\ \A a \in Slots : set[a].counter = IF a \in N THEN xor_set[a].counter - 1
                                                      ELSE xor_set[a].counter
  <2>1. xor_set' = [a \in Slots |-> IF a \in N THEN Without(xor_set[a], hash[x]) ELSE xor_set[a]]
    BY <1>3, <1>5, <1>6 DEF RemoveHash
  <2>2. \A a \in N : x \in In(a)
    BY <1>8
  <2>3. \A a \in Slots : Counted(a)' = IF a \in N THEN Counted(a) \ {x} ELSE Counted(a)
    BY <1>11
  <2>4. TypeOK /\ EntriesInv /\ hash \in [Keys -> Hashes]
    BY <1>4, <1>7
  <2>5. /\ EntriesInv'
        /\ xor_set' \in [Slots -> [hash : Hashes, counter : Nat]]
        /\ \A a \in Slots : xor_set'[a].counter = IF a \in N THEN xor_set[a].counter - 1
                                                             ELSE xor_set[a].counter
    BY <1>1, <2>1, <2>2, <2>3, <2>4, EntriesAfter
  <2>6. QED
    BY <1>12, <2>5
<1>14. SlotQueueInv' /\ queue' \in Seq(Slots)
  <2>1. PICK e : e = NowAlone(set)
    OBVIOUS
  <2>2. Lists(e, {a \in N : set[a].counter = 1})
    <3>1. Hash0 \in Hashes
      BY <1>5, <1>6
    <3>2. Lists(e, {a \in Neighbours : set[a].counter = 1})
      BY <1>7, <2>1, <3>1, NowAloneLists
    <3>3. QED
      BY <1>5, <3>2
  <2>3. queue' = queue \o e
    BY <1>3, <1>12, <2>1
  <2>4. queue[begin+1] \in N /\ xor_set' = set /\ TypeOK /\ SlotQueueInv
    BY <1>4, <1>6, <1>7, <1>12
  <2>5. QED
    BY <1>1, <1>2, <1>8, <1>13, <2>2, <2>3, <2>4, SlotQueueAfter
<1>15. Slots' = Slots
  BY <1>1, SameKeys
<1>16. TypeOK'
  <2>1. begin' \in Nat /\ xor_set' \in [Slots -> [hash : Hashes, counter : Nat]]
    BY <1>2, <1>4, <1>12, <1>13 DEF TypeOK
  <2>2. stack' \in Seq([hash : Hashes, address : Slots])
    BY <1>9
  <2>3. QED
    BY <1>1, <1>2, <1>4, <1>7, <1>14, <1>15, <2>1, <2>2 DEF TypeOK, resultVars
<1>17. ControlInv'
  BY <1>1, <1>2, <1>4 DEF ControlInv, Hashed, resultVars
<1>18. RunsInv'
  BY <1>1, <1>4 DEF RunsInv
<1>19. AssignInv' /\ AssignedStays' /\ QueuesInv' /\ OnlyCoreRejected'
  <2>1. AssignInv'
    BY <1>1, <1>2, <1>4, <1>15 DEF AssignInv, ControlInv, resultVars
  <2>2. QED
    BY <1>1, <2>1 DEF AssignedStays, Assigned, QueuesInv, OnlyCoreRejected
<1>20. QED
  BY <1>10, <1>13, <1>14, <1>16, <1>17, <1>18, <1>19 DEF IInv

-----------------------------------------------------------------------------
(* The invariant. *)

(* Every part of the invariant reads the state only.                       *)
LEMMA StutterKeeps ==
  ASSUME IInv, UNCHANGED vars
  PROVE  IInv'
<1>1. /\ UNCHANGED <<variant, pc, attempt, hash, xor_set, queue, stack, runs, set0>>
      /\ UNCHANGED <<begin, run, seed, fingerprints, success>>
  BY DEF vars, peelVars, resultVars
<1>2. /\ TypeOK /\ ControlInv /\ RunsInv /\ StackInv /\ PeelOrder /\ EntriesInv
      /\ QueuesInv /\ SlotQueueInv /\ OnlyCoreRejected /\ AssignInv /\ AssignedStays
  BY DEF IInv
<1>3. /\ Slots' = Slots
      /\ \A h, s : Slot(h, s)' = Slot(h, s)
      /\ \A a : In(a)' = In(a)
      /\ \A S : EntryOf(S)' = EntryOf(S)
  BY <1>1, SameKeys
<1>4. /\ \A p : HashAt(p)' = HashAt(p)
      /\ \A p : RunOf(p)' = RunOf(p)
      /\ \A p : PeeledFrom(p)' = PeeledFrom(p)
      /\ Pushed' = Pushed
      /\ Left' = Left
      /\ \A a : Counted(a)' = Counted(a)
  BY <1>1, SameStack
<1>5. TypeOK'
  BY <1>1, <1>2, <1>3 DEF TypeOK
<1>6. ControlInv' /\ (Hashed' <=> Hashed) /\ (Peels' <=> Peels)
  BY <1>1, <1>2 DEF ControlInv, Hashed, Peels, EmptyQueue
<1>7. RunsInv'
  BY <1>1, <1>2 DEF RunsInv
<1>8. StackInv'
  <2>1. \A p \in DOMAIN stack : In(PeeledFrom(p))' = In(PeeledFrom(p))
    BY <1>3, <1>4
  <2>2. QED
    BY <1>1, <1>2, <1>3, <1>4, <1>6, <2>1 DEF StackInv
<1>9. PeelOrder'
  BY <1>1, <1>2, <1>3, <1>4 DEF PeelOrder
<1>10. EntriesInv'
  BY <1>1, <1>2, <1>3, <1>4, <1>6 DEF EntriesInv
<1>11. QueuesInv'
  <2>1. \A s : Pending(s)' = Pending(s)
    BY <1>1 DEF Pending
  <2>2. QED
    BY <1>1, <1>2, <1>3, <1>4, <1>6, <2>1 DEF QueuesInv
<1>12. SlotQueueInv'
  BY <1>1, <1>2, <1>3, <1>6 DEF SlotQueueInv
<1>13. OnlyCoreRejected'
  BY <1>1, <1>2, <1>3, <1>4 DEF OnlyCoreRejected
<1>14. \A h : contains(h)' = contains(h)
  BY <1>1, SameContains
<1>15. AssignInv' /\ AssignedStays'
  BY <1>1, <1>2, <1>3, <1>4, <1>14 DEF AssignInv, AssignedStays, Assigned
<1>16. QED
  BY <1>5, <1>6, <1>7, <1>8, <1>9, <1>10, <1>11, <1>12, <1>13, <1>15 DEF IInv

(* Every step keeps it. *)
LEMMA StepKeeps == IInv /\ [Next]_vars => IInv'
<1> SUFFICES ASSUME IInv, [Next]_vars
             PROVE  IInv'
  OBVIOUS
<1>1. CASE Hash \/ Retry \/ GiveUp
  BY <1>1, HashKeeps, RetryKeeps, GiveUpKeeps
<1>2. CASE NextStandard
  <2>1. variant = "Standard"
    <3>1. ControlInv /\ variant \in Variants
      BY DEF IInv, TypeOK
    <3>2. variant = "Standard" \/ pc \in {"round", "peel", "assign"}
      BY <1>2 DEF NextStandard, Fill, Round, Peel, SkipPeeled, ClearQueue, Peeled, Assign,
         PreviousRun, Succeed
    <3>3. QED
      BY <3>1, <3>2 DEF ControlInv, Variants
  <2>2. QED
    BY <1>2, <2>1, FillKeeps, RoundKeeps, PeelKeeps, SkipPeeledKeeps, ClearQueueKeeps,
       PeeledKeeps, AssignKeeps, PreviousRunKeeps, SucceedKeeps DEF NextStandard
<1>3. CASE NextFuse
  <2>1. variant = "Fuse"
    <3>1. ControlInv /\ variant \in Variants
      BY DEF IInv, TypeOK
    <3>2. variant = "Fuse" \/ pc \in {"peel_slots", "assign_slots"}
      BY <1>3 DEF NextFuse, FillSegments, PeelSlot, SkipSlot, QueueEmpty, PeeledSlots,
         AssignSlot, SucceedSlots
    <3>3. QED
      BY <3>1, <3>2 DEF ControlInv, Variants
  <2>2. QED
    BY <1>3, <2>1, FillSegmentsKeeps, PeelSlotKeeps, SkipSlotKeeps, QueueEmptyKeeps,
       PeeledSlotsKeeps, AssignSlotKeeps, SucceedSlotsKeeps DEF NextFuse
<1>4. CASE UNCHANGED vars
  BY <1>4, StutterKeeps
<1>5. QED
  BY <1>1, <1>2, <1>3, <1>4 DEF Next

(* So every reachable state of a builder has the invariant.                *)
THEOREM Invariance == Spec => []IInv
<1>1. Init => IInv
  BY InitKeeps
<1>2. QED
  BY <1>1, StepKeeps, PTL DEF Spec

(* The variables keep their kinds, and no seed past max_n_retries is tried. *)
THEOREM BuildTypeCorrect == Spec => []TypeOK
<1>1. IInv => TypeOK
  BY DEF IInv
<1>2. QED
  BY <1>1, Invariance, PTL

(* The slot a hash is peeled from is a slot of no hash peeled after it,    *)
(* in both variants, for every partition, any hashes and any addresses.    *)
THEOREM PeeledInOrder == Spec => []PeelOrder
<1>1. IInv => PeelOrder
  BY DEF IInv
<1>2. QED
  BY <1>1, Invariance, PTL

(* An attempt is rejected only where the keys left cannot be peeled.       *)
THEOREM RejectionsJustified == Spec => []OnlyCoreRejected
<1>1. IInv => OnlyCoreRejected
  BY DEF IInv
<1>2. QED
  BY <1>1, Invariance, PTL

(* A fingerprint once assigned is right for good.                          *)
THEOREM AssignmentsStay == Spec => []AssignedStays
<1>1. IInv => AssignedStays
  BY DEF IInv
<1>2. QED
  BY <1>1, Invariance, PTL

-----------------------------------------------------------------------------
(* Counting: the stack against the keys, a queue against its slots.        *)

(* Distinct members of a finite set are no more than it has, and all of    *)
(* them if they are as many.                                               *)
LEMMA Pigeons ==
  ASSUME NEW n \in Nat, NEW T, IsFiniteSet(T), NEW f \in [1..n -> T],
         \A i, j \in 1..n : f[i] = f[j] => i = j
  PROVE  /\ n <= Cardinality(T)
         /\ n = Cardinality(T) => \A y \in T : \E i \in 1..n : f[i] = y
<1>1. f \in Injection(1..n, T)
  BY DEF Injection, IsInjective
<1>2. Cardinality(1..n) = n
  BY FS_Interval
<1>3. /\ Cardinality(1..n) <= Cardinality(T)
      /\ (Cardinality(1..n) = Cardinality(T) <=> f \in Surjection(1..n, T))
  BY <1>1, FS_Injection
<1>4. QED
  BY <1>2, <1>3 DEF Surjection

(* The stack holds no more hashes than there are keys, and when it holds   *)
(* as many, the hash of every key.                                         *)
LEMMA StackHoldsKeys ==
  ASSUME TypeOK, StackInv, Hashed
  PROVE  /\ Len(stack) <= Cardinality(Keys)
         /\ Len(stack) = Cardinality(Keys)
              => \A x \in Keys : \E p \in DOMAIN stack : HashAt(p) = hash[x]
<1>1. PICK n : n = Len(stack)
  OBVIOUS
<1>2. n \in Nat /\ n = Len(stack) /\ DOMAIN stack = 1..n
  BY <1>1 DEF TypeOK
<1>3. PICK f : f = [p \in 1..n |-> CHOOSE x \in Keys : hash[x] = HashAt(p)]
  OBVIOUS
<1>4. \A p \in 1..n : f[p] \in Keys /\ hash[f[p]] = HashAt(p)
  <2>1. SUFFICES ASSUME NEW p \in 1..n
                 PROVE  f[p] \in Keys /\ hash[f[p]] = HashAt(p)
    OBVIOUS
  <2>2. \E x \in Keys : hash[x] = HashAt(p)
    BY <1>2 DEF StackInv, Pushed
  <2>3. QED
    BY <1>3, <2>2
<1>5. f \in [1..n -> Keys] /\ \A i, j \in 1..n : f[i] = f[j] => i = j
  <2>1. f \in [1..n -> Keys]
    BY <1>3, <1>4
  <2>2. \A i, j \in 1..n : f[i] = f[j] => i = j
    BY <1>2, <1>4 DEF StackInv
  <2>3. QED
    BY <2>1, <2>2
<1>6. n <= Cardinality(Keys) /\ (n = Cardinality(Keys) => \A y \in Keys : \E i \in 1..n : f[i] = y)
  BY <1>2, <1>5, KeysAssumption, Pigeons
<1>7. QED
  BY <1>2, <1>4, <1>6

(* No false negative after a construct that reports success.               *)
LEMMA InvFindsAll == IInv => NoFalseNegatives
<1>1. SUFFICES ASSUME IInv, success
               PROVE  seed = attempt /\ \A x \in Keys : contains(hash[x])
  BY DEF NoFalseNegatives
<1>2. /\ seed = attempt /\ Hashed /\ Len(stack) = Cardinality(Keys)
      /\ \A p \in DOMAIN stack : contains(HashAt(p))
  BY <1>1 DEF IInv, ControlInv, AssignInv, Hashed
<1>3. TypeOK /\ StackInv
  BY <1>1 DEF IInv
<1>4. \A x \in Keys : \E p \in DOMAIN stack : HashAt(p) = hash[x]
  BY <1>2, <1>3, StackHoldsKeys
<1>5. QED
  BY <1>2, <1>4

(* A construct that reports success leaves no false negative, whatever the *)
(* keys, their hashes, the sizes and the number of retries.                *)
THEOREM BuiltFindsAll == Spec => []NoFalseNegatives
  BY InvFindsAll, Invariance, PTL

(* The entries of a queue are as many as their slots.                      *)
LEMMA QueueFits ==
  ASSUME NEW q, NEW n \in Nat, n = Len(q), DOMAIN q = 1..n, NEW k \in Nat, NEW lo \in Nat,
         NEW f \in [1..n -> lo .. lo + k-1], \A i, j \in 1..n : f[i] = f[j] => i = j
  PROVE  Len(q) <= k
<1>1. IsFiniteSet(lo .. lo + k-1) /\ Cardinality(lo .. lo + k-1) = k
  <2>1. lo \in Int /\ lo + k-1 \in Int
    OBVIOUS
  <2>2. IsFiniteSet(lo .. lo + k-1)
        /\ Cardinality(lo .. lo + k-1) = IF lo > lo + k-1 THEN 0 ELSE (lo + k-1) - lo + 1
    BY <2>1, FS_Interval
  <2>3. QED
    BY <2>2
<1>2. n <= Cardinality(lo .. lo + k-1)
  <2>1. PICK S : S = lo .. lo + k-1
    OBVIOUS
  <2>2. IsFiniteSet(S) /\ f \in [1..n -> S]
    BY <1>1, <2>1
  <2>3. n <= Cardinality(S)
    BY <2>2, Pigeons
  <2>4. QED
    BY <2>1, <2>3
<1>3. QED
  BY <1>1, <1>2

(* The arrays behind the stack and the queues are large enough.            *)
LEMMA InvFits == IInv => ArraysSuffice
<1> SUFFICES ASSUME IInv
             PROVE  ArraysSuffice
  OBVIOUS
<1>1. TypeOK /\ ControlInv /\ StackInv /\ QueuesInv /\ SlotQueueInv
  BY DEF IInv
<1>2. NSlots \in Nat /\ FuseSegments \in Nat /\ Cardinality(Keys) \in Nat
  BY SlotsAssumption, KeysAssumption, FS_CardinalityType
<1>3. Len(stack) <= Cardinality(Keys)
  <2>1. CASE Hashed
    BY <1>1, <2>1, StackHoldsKeys
  <2>2. CASE ~ Hashed
    BY <1>1, <1>2, <2>2 DEF ControlInv
  <2>3. QED
    BY <2>1, <2>2
<1>4. CASE variant = "Standard"
  <2>1. SUFFICES ASSUME NEW s \in Sets
                 PROVE  Len(queue[s]) <= NSlots
    BY <1>3, <1>4 DEF ArraysSuffice
  <2>2. PICK q, n : q = queue[s] /\ n = Len(q)
    OBVIOUS
  <2>3. q \in Seq(Hashes) /\ n \in Nat /\ DOMAIN q = 1..n
    BY <1>1, <1>4, <2>2 DEF TypeOK
  <2>4. CASE Hashed
    <3>1. \A i \in 1..n : Slot(q[i], s) \in s * NSlots .. s * NSlots + NSlots - 1
      BY <1>4, <2>3, ElementOfSeq, SlotOfSet
    <3>2. \A i, j \in 1..n : i # j => Slot(q[i], s) # Slot(q[j], s)
      BY <1>1, <1>4, <2>2, <2>3, <2>4 DEF QueuesInv
    <3>3. PICK f : f = [i \in 1..n |-> Slot(q[i], s)]
      OBVIOUS
    <3>4. PICK lo : lo = s * NSlots
      OBVIOUS
    <3>5. lo \in Nat
      BY <1>2, <3>4 DEF Sets
    <3>6. f \in [1..n -> lo .. lo + NSlots - 1]
      BY <3>1, <3>3, <3>4
    <3>7. \A i, j \in 1..n : f[i] = f[j] => i = j
      BY <3>2, <3>3
    <3>8. Len(q) <= NSlots
      <4>1. n \in Nat /\ n = Len(q) /\ DOMAIN q = 1..n /\ lo \in Nat /\ NSlots \in Nat
        BY <1>2, <2>2, <2>3, <3>5
      <4>2. QED
        BY <3>6, <3>7, <4>1, QueueFits
    <3>9. QED
      BY <2>2, <3>8
  <2>5. CASE ~ Hashed
    BY <1>1, <1>2, <1>4, <2>5 DEF ControlInv, EmptyQueue
  <2>6. QED
    BY <2>4, <2>5
<1>5. CASE variant # "Standard"
  <2>1. SUFFICES Len(queue) <= (FuseSegments + 2) * NSlots
    BY <1>3, <1>5 DEF ArraysSuffice
  <2>2. PICK n, k : n = Len(queue) /\ k = (FuseSegments + 2) * NSlots
    OBVIOUS
  <2>3. /\ queue \in Seq(Slots) /\ n \in Nat /\ DOMAIN queue = 1..n /\ k \in Nat
        /\ variant = "Fuse"
    BY <1>1, <1>2, <1>5, <2>2 DEF TypeOK, Variants
  <2>4. Slots = 0 .. 0 + k-1
    BY <1>5, <2>2, <2>3 DEF Slots
  <2>5. CASE Hashed
    <3>1. \A i \in 1..n : queue[i] \in Slots
      BY <2>3, ElementOfSeq
    <3>2. \A i, j \in 1..n : queue[i] = queue[j] => i = j
      BY <1>1, <2>3, <2>5 DEF SlotQueueInv
    <3>3. PICK f : f = [i \in 1..n |-> queue[i]]
      OBVIOUS
    <3>4. f \in [1..n -> 0 .. 0 + k-1]
      BY <2>4, <3>1, <3>3
    <3>5. \A i, j \in 1..n : f[i] = f[j] => i = j
      BY <3>2, <3>3
    <3>6. Len(queue) <= k
      BY <2>2, <2>3, <3>4, <3>5, QueueFits
    <3>7. QED
      BY <2>2, <3>6
  <2>6. CASE ~ Hashed
    BY <1>1, <1>5, <2>2, <2>3, <2>6 DEF ControlInv, EmptyQueue
  <2>7. QED
    BY <2>5, <2>6
<1>6. QED
  BY <1>4, <1>5

(* The queues and the stack never outgrow their arrays.                    *)
THEOREM ArraysNeverOverflow == Spec => []ArraysSuffice
  BY InvFits, Invariance, PTL

-----------------------------------------------------------------------------
(* The construction by peeling implements what PartitionBuild promises.    *)

(* A builder starts as PartitionBuild does.                                *)
LEMMA BuildInit == Init => Build!Init
BY RetriesAssumption DEF Init, Build!Init

(* Each of its steps is one of PartitionBuild or none.                     *)
LEMMA BuildStep == IInv /\ IInv' /\ [Next]_vars => [Build!Next]_(Build!vars)
<1> SUFFICES ASSUME IInv, IInv', [Next]_vars
             PROVE  [Build!Next]_(Build!vars)
  OBVIOUS
<1>1. /\ seed = attempt /\ seed' = attempt' /\ attempt \in Nat /\ MaxRetries \in Nat
      /\ success => pc = "done"
      /\ success' => pc' = "done"
      /\ success' => \A x \in Keys : contains(hash[x])'
      /\ success \in BOOLEAN /\ success' \in BOOLEAN
  <2>1. NoFalseNegatives'
    BY InvFindsAll, PTL
  <2>2. TypeOK /\ TypeOK' /\ ControlInv /\ ControlInv'
    BY DEF IInv
  <2>3. attempt \in Nat
    BY <2>2, RetriesAssumption DEF TypeOK
  <2>4. QED
    BY <2>1, <2>2, <2>3, RetriesAssumption DEF TypeOK, ControlInv, NoFalseNegatives
<1>2. ASSUME pc # "done", pc' # "done", UNCHANGED seed
      PROVE  UNCHANGED Build!vars
  BY <1>1, <1>2 DEF Build!vars
<1>3. CASE Retry
  <2>1. pc # "done" /\ pc' # "done" /\ seed < MaxRetries /\ seed' = seed + 1
    BY <1>1, <1>3 DEF Retry
  <2>2. ~ success /\ ~ success'
    BY <1>1, <2>1
  <2>3. Build!Retry
    BY <2>1, <2>2 DEF Build!Retry
  <2>4. QED
    BY <2>3 DEF Build!Next
<1>4. CASE GiveUp
  <2>1. pc # "done" /\ pc' = "done" /\ seed = MaxRetries /\ seed' = seed /\ success' = success
    BY <1>1, <1>4 DEF GiveUp, resultVars
  <2>2. ~ success /\ ~ success'
    BY <1>1, <2>1
  <2>3. Build!GiveUp
    BY <2>1, <2>2 DEF Build!GiveUp
  <2>4. QED
    BY <2>3 DEF Build!Next
<1>5. CASE Succeed \/ SucceedSlots
  <2>1. pc # "done" /\ pc' = "done" /\ success' = TRUE /\ seed' = seed
    BY <1>5 DEF Succeed, SucceedSlots, Finish
  <2>2. ~ success /\ \A x \in Keys : contains(hash[x])'
    BY <1>1, <2>1
  <2>3. Build!Succeed
    BY <2>1, <2>2 DEF Build!Succeed
  <2>4. QED
    BY <2>3 DEF Build!Next
<1>6. CASE \/ Hash \/ Fill \/ FillSegments \/ Round \/ Peel \/ SkipPeeled \/ ClearQueue
           \/ PeelSlot \/ SkipSlot \/ QueueEmpty
  <2>1. pc # "done" /\ pc' # "done" /\ UNCHANGED seed
    BY <1>6 DEF Hash, Fill, FillSegments, Round, Peel, Peeling, SkipPeeled, ClearQueue,
       PeelSlot, SkipSlot, QueueEmpty, resultVars
  <2>2. QED
    BY <1>2, <2>1
<1>7. CASE Peeled \/ PeeledSlots \/ Assign \/ PreviousRun \/ AssignSlot
  <2>1. pc # "done" /\ pc' # "done" /\ UNCHANGED seed
    BY <1>7 DEF Peeled, PeeledSlots, Assign, PreviousRun, AssignSlot, resultVars
  <2>2. QED
    BY <1>2, <2>1
<1>8. CASE UNCHANGED vars
  <2>1. UNCHANGED <<variant, pc, hash, seed, fingerprints, success>>
    BY <1>8 DEF vars, resultVars
  <2>2. \A h : contains(h)' = contains(h)
    BY <2>1, SameContains
  <2>3. (\A x \in Keys : contains(hash[x]))' <=> (\A x \in Keys : contains(hash[x]))
    BY <2>1, <2>2
  <2>4. QED
    BY <2>1, <2>3 DEF Build!vars
<1>9. QED
  BY <1>3, <1>4, <1>5, <1>6, <1>7, <1>8 DEF Next, NextStandard, NextFuse

(* Every construction, by runs or by slots, does what PartitionBuild says: *)
(* it succeeds with every key found under the seed it stores, and gives up *)
(* only after every seed.                                                  *)
THEOREM PeelingImplementsBuild == Spec => ImplementsBuild
  BY BuildInit, Invariance, BuildStep, PTL DEF Spec, ImplementsBuild, Build!Spec
====
