------------------------------ MODULE XorBuild ------------------------------
(***************************************************************************)
(* Building one partition of a xor filter, in either variant, and what     *)
(* must be true of it.                                                     *)
(***************************************************************************)
EXTENDS XorStandard, XorFuse

Next ==
  \/ Hash \/ Retry \/ GiveUp
  \/ NextStandard
  \/ NextFuse

Spec == Init /\ [][Next]_vars

(* The builder is one thread that runs to its end.                         *)
FairSpec == Spec /\ WF_vars(Next)

-----------------------------------------------------------------------------
(* Properties. *)

(* The kinds of values; seeds do not run past max_n_retries.               *)
TypeOK ==
  /\ variant \in Variants
  /\ pc \in {"hash", "fill", "round", "peel", "peel_slots", "check",
             "assign", "assign_slots", "done"}
  /\ attempt \in 0..MaxRetries /\ seed \in 0..MaxRetries
  /\ hash = Null \/ hash \in [Keys -> Hashes]
  /\ xor_set \in [Slots -> [hash : Hashes, counter : Nat]]
  /\ runs \in Seq(Nat) /\ runs # <<>>
  /\ set0 \in Sets
  /\ begin \in Nat /\ run \in Nat
  /\ IF variant = "Standard"
     THEN queue \in [Sets -> Seq(Hashes)] /\ stack \in Seq(Hashes)
     ELSE queue \in Seq(Slots) /\ stack \in Seq([hash : Hashes, address : Slots])
  /\ fingerprints \in [Slots -> SUBSET FingerprintBits]
  /\ success \in BOOLEAN

(* A construct that reports success leaves no false negative: every key is *)
(* found under the seed the container stores, which is the seed the        *)
(* fingerprints were built with.                                           *)
NoFalseNegatives ==
  success => seed = attempt /\ \A x \in Keys : contains(hash[x])

(* The queues and the stack are plain arrays of the size of their set and  *)
(* of the partition, written without a check: they never overflow.         *)
ArraysSuffice ==
  /\ Len(stack) <= Cardinality(Keys)
  /\ IF variant = "Standard"
     THEN \A s \in Sets : Len(queue[s]) <= NSlots
     ELSE Len(queue) <= (FuseSegments + 2) * NSlots

(* The run a position of the stack belongs to, the hash pushed there, and  *)
(* the slot that hash was peeled from.                                     *)
RunOf(p) == CHOOSE r \in 1 .. Len(runs)-1 : runs[r] < p /\ p <= runs[r+1]
HashAt(p) == IF variant = "Standard" THEN stack[p] ELSE stack[p].hash
PeeledFrom(p) ==
  IF variant = "Standard" THEN Slot(stack[p], SetOf(RunOf(p))) ELSE stack[p].address

(* The slot a hash was peeled from is a slot of no hash peeled after it:   *)
(* that is what makes assigning consistent, key by key backwards, and run  *)
(* by run backwards with the keys of a run forwards.                       *)
PeelOrder ==
  \A p, q \in DOMAIN stack :
    p < q => \A s \in Sets : Slot(HashAt(q), s) # PeeledFrom(p)

(* When an attempt is rejected the keys left cannot be peeled at all: no   *)
(* slot holds exactly one of them.  No key is forgotten by the queues.     *)
OnlyCoreRejected ==
  pc = "check" =>
    LET peeled == {HashAt(p) : p \in DOMAIN stack}
        left == {x \in Keys : hash[x] \notin peeled}
    IN  \A a \in Slots : Cardinality(In(a) \cap left) # 1

(* A fingerprint once assigned is right for good, while the others of its  *)
(* slots are still being assigned.                                         *)
Assigned(p) ==
  \/ pc = "assign" /\ RunOf(p) > run
  \/ pc = "assign" /\ RunOf(p) = run /\ p <= begin
  \/ pc = "assign_slots" /\ p > begin

AssignedStays == \A p \in DOMAIN stack : Assigned(p) => contains(HashAt(p))

(* Seen from outside, a builder is one that PartitionBuild describes.       *)
Build == INSTANCE PartitionBuild WITH
  status <- CASE pc # "done" -> "building" [] pc = "done" /\ success -> "built"
              [] pc = "done" /\ ~success -> "failed",
  found  <- success /\ \A x \in Keys : contains(hash[x])

(* The construction by peeling implements PartitionBuild: it succeeds only *)
(* with every key found, and gives up only after every seed.               *)
ImplementsBuild == Build!Spec

(* Every construction comes to an end.                                     *)
Terminates == <>(pc = "done")
=============================================================================
