---------------------------- MODULE XorStandard -----------------------------
(***************************************************************************)
(* The standard xor filter: a queue of hashes for each of the three sets,  *)
(* a stack that is a sequence of runs, and fingerprints assigned run by    *)
(* run, the runs backwards and the hashes of a run forwards.               *)
(***************************************************************************)
EXTENDS XorConstruct

(* XorQueue::fill: the hashes that are alone in a slot of set s.           *)
scan_for_single(set, s) ==
  LET alone == AloneSlots(set, s * NSlots, NSlots)
  IN  [n \in DOMAIN alone |-> set[alone[n]].hash]

Fill ==
  /\ variant = "Standard"
  /\ pc = "fill"
  /\ xor_set' = [a \in Slots |-> Filled(a)]
  /\ queue' = [s \in Sets |-> scan_for_single(xor_set', s)]
  /\ pc' = "round"
  /\ UNCHANGED <<variant, attempt, hash, stack, runs, set0, begin, run, resultVars>>

start_run == Append(runs, Last(runs))

(* XorStack::fill: the head of its loop.                                   *)
Round ==
  /\ pc = "round"
  /\ IF \E s \in Sets : queue[s] # <<>>
     THEN /\ pc' = "peel"
          /\ runs' = start_run
     ELSE /\ pc' = "check"
          /\ UNCHANGED runs
  /\ UNCHANGED <<variant, attempt, hash, xor_set, queue, stack, set0, begin, run, resultVars>>

(* process_queue: the hash at the head of the queue leaves the sets.       *)

Set1 == (set0 + 1) % 3
Set2 == (set0 + 2) % 3

Head0 == queue[set0][begin+1]

(* Faulty variant: only one of the two other queues is appended to.        *)
EnqueuedOnce(s) ==
  LET e == Without(xor_set[Slot(Head0, s)], Head0)
  IN  IF s = Set1 /\ e.counter = 1 THEN Append(queue[s], e.hash) ELSE queue[s]

(* Faulty variant: emptied slots are queued as well.                       *)
EnqueuedEmpty(s) ==
  LET e == Without(xor_set[Slot(Head0, s)], Head0)
  IN  IF e.counter <= 1 THEN Append(queue[s], e.hash) ELSE queue[s]

(* The queue of set s, with the hash left alone in its slot appended.      *)
Enqueued(s) ==
  LET e == Without(xor_set[Slot(Head0, s)], Head0)
  IN  IF e.counter = 1 THEN Append(queue[s], e.hash) ELSE queue[s]

Peeling ==
  /\ stack' = Append(stack, Head0)
  /\ runs' = [runs EXCEPT ![Len(runs)] = @ + 1]
  /\ xor_set' = [xor_set EXCEPT ![Slot(Head0, Set1)] = Without(@, Head0),
                                ![Slot(Head0, Set2)] = Without(@, Head0)]
  /\ queue' = [queue EXCEPT ![Set1] = Enqueued(Set1), ![Set2] = Enqueued(Set2)]
  /\ begin' = begin + 1
  /\ UNCHANGED <<variant, pc, attempt, hash, set0, run, resultVars>>

(* Faulty variant: the counter of the slot is not tested again.            *)
PeelUntested ==
  /\ pc = "peel"
  /\ begin < Len(queue[set0])
  /\ Peeling

Peel ==
  /\ pc = "peel"
  /\ begin < Len(queue[set0])
  /\ xor_set[Slot(Head0, set0)].counter # 0
  /\ Peeling

(* Another set has taken the key meanwhile.                                *)
SkipPeeled ==
  /\ pc = "peel"
  /\ begin < Len(queue[set0])
  /\ xor_set[Slot(Head0, set0)].counter = 0
  /\ begin' = begin + 1
  /\ UNCHANGED <<variant, pc, attempt, hash, peelVars, run, resultVars>>

(* clear<set0>, and the next process_queue.                                *)
ClearQueue ==
  /\ pc = "peel"
  /\ begin = Len(queue[set0])
  /\ queue' = [queue EXCEPT ![set0] = <<>>]
  /\ begin' = 0
  /\ set0' = Set1
  /\ IF set0 = 2
     THEN pc' = "round" /\ UNCHANGED runs
     ELSE runs' = start_run /\ UNCHANGED pc
  /\ UNCHANGED <<variant, attempt, hash, xor_set, stack, run, resultVars>>

-----------------------------------------------------------------------------
(* XorContainer::fill: the runs backwards, each of them forwards.          *)

Peeled ==
  /\ variant = "Standard"
  /\ pc = "check"
  /\ Len(stack) = Cardinality(Keys)
  /\ pc' = "assign"
  /\ run' = Len(runs) - 1
  /\ begin' = IF run' = 0 THEN 0 ELSE runs[run']
  /\ UNCHANGED <<variant, attempt, hash, peelVars, resultVars>>

(* Faulty variant: the sets in the wrong order.                            *)
SetOfNext(r) == r % 3

(* The set whose queue run r came from.                                    *)
SetOf(r) == (r - 1) % 3

Assign ==
  /\ pc = "assign"
  /\ run > 0
  /\ begin < runs[run+1]
  /\ LET h == stack[begin+1]
         s == SetOf(run)
         f == Xor(Xor(Fingerprint(h), Stored(h, (s+1) % 3)), Stored(h, (s+2) % 3))
     IN  fingerprints' = [fingerprints EXCEPT ![Slot(h, s)] = f]
  /\ begin' = begin + 1
  /\ UNCHANGED <<variant, pc, attempt, hash, peelVars, run, seed, success>>

PreviousRun ==
  /\ pc = "assign"
  /\ run > 0
  /\ begin = runs[run+1]
  /\ run' = run - 1
  /\ begin' = IF run' = 0 THEN 0 ELSE runs[run']
  /\ UNCHANGED <<variant, pc, attempt, hash, peelVars, resultVars>>

Succeed ==
  /\ pc = "assign"
  /\ run = 0
  /\ Finish

NextStandard ==
  \/ Fill
  \/ Round \/ Peel \/ SkipPeeled \/ ClearQueue
  \/ Peeled \/ Assign \/ PreviousRun \/ Succeed
=============================================================================
