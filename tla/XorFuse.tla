------------------------------ MODULE XorFuse -------------------------------
(***************************************************************************)
(* The fuse variant of the xor filter: the three slots of a key lie in     *)
(* three neighbouring segments, one queue holds slots instead of hashes,   *)
(* and the stack remembers with each hash the slot it was peeled from, so  *)
(* that it is assigned key by key backwards.                               *)
(***************************************************************************)
EXTENDS XorConstruct

FillSegments ==
  /\ variant = "Fuse"
  /\ pc = "fill"
  /\ xor_set' = [a \in Slots |-> Filled(a)]
  /\ queue' = AloneSlots(xor_set', 0, (FuseSegments + 2) * NSlots)
  /\ pc' = "peel_slots"
  /\ UNCHANGED <<variant, attempt, hash, stack, runs, set0, begin, run, resultVars>>

(* XorStack::fill, an entry of the queue.                                  *)

Slot0 == queue[begin+1]
Hash0 == xor_set[Slot0].hash
Neighbours == {Slot(Hash0, s) : s \in Sets}

(* The three slots of the hash, the one it is peeled from among them.      *)
RemoveHash ==
  [a \in Slots |-> IF a \in Neighbours THEN Without(xor_set[a], Hash0) ELSE xor_set[a]]

(* The slots of the hash in the order of the sets, if one hash is left.    *)
NowAlone(set) ==
  LET single(s) == IF set[Slot(Hash0, s)].counter = 1 THEN <<Slot(Hash0, s)>> ELSE <<>>
  IN  single(0) \o single(1) \o single(2)

PeelSlot ==
  /\ pc = "peel_slots"
  /\ begin < Len(queue)
  /\ xor_set[Slot0].counter = 1
  /\ stack' = Append(stack, [hash |-> Hash0, address |-> Slot0])
  /\ xor_set' = RemoveHash
  /\ queue' = queue \o NowAlone(xor_set')
  /\ begin' = begin + 1
  /\ UNCHANGED <<variant, pc, attempt, hash, runs, set0, run, resultVars>>

(* The key was peeled from another of its slots meanwhile.                 *)
SkipSlot ==
  /\ pc = "peel_slots"
  /\ begin < Len(queue)
  /\ xor_set[Slot0].counter # 1
  /\ begin' = begin + 1
  /\ UNCHANGED <<variant, pc, attempt, hash, peelVars, run, resultVars>>

QueueEmpty ==
  /\ pc = "peel_slots"
  /\ begin = Len(queue)
  /\ pc' = "check"
  /\ UNCHANGED <<variant, attempt, hash, peelVars, begin, run, resultVars>>

-----------------------------------------------------------------------------
(* assign_fuse: the stack backwards.                                       *)

PeeledSlots ==
  /\ variant = "Fuse"
  /\ pc = "check"
  /\ Len(stack) = Cardinality(Keys)
  /\ pc' = "assign_slots"
  /\ begin' = Len(stack)
  /\ UNCHANGED <<variant, attempt, hash, peelVars, run, resultVars>>

(* All three fingerprints are read: the one that is written must still be  *)
(* empty for the three to xor to the fingerprint of the key.               *)
AssignSlot ==
  /\ pc = "assign_slots"
  /\ begin > 0
  /\ LET e == stack[begin]
         stored == Xor(Xor(Stored(e.hash, 0), Stored(e.hash, 1)), Stored(e.hash, 2))
     IN  fingerprints' = [fingerprints EXCEPT ![e.address] = Xor(Fingerprint(e.hash), stored)]
  /\ begin' = begin - 1
  /\ UNCHANGED <<variant, pc, attempt, hash, peelVars, run, seed, success>>

SucceedSlots ==
  /\ pc = "assign_slots"
  /\ begin = 0
  /\ Finish

NextFuse ==
  \/ FillSegments
  \/ PeelSlot \/ SkipSlot \/ QueueEmpty
  \/ PeeledSlots \/ AssignSlot \/ SucceedSlots
=============================================================================
