---------------------------- MODULE PartitionSet ----------------------------
(***************************************************************************)
(* filters::partition::PartitionSet<Enabled>: the radix partitioning that  *)
(* precedes every construct and count of a partitioned filter.             *)
(*                                                                         *)
(* init(v, l, queue) submits four phases of tasks to the task queue: a     *)
(* histogram per slice of the input; the offsets of all windows; the       *)
(* scatter of each slice through cache line buffers that belong to the     *)
(* thread, not to the task; the clean-up.  The queue is the one that       *)
(* module PhasedExecution specifies and TaskQueue implements.              *)
(*                                                                         *)
(* A histogram, offset or clean-up task is one step: until the next        *)
(* barrier nobody else can see the arrays it fills.  The scatter tasks     *)
(* share the output array and proceed key by key.                          *)
(***************************************************************************)
EXTENDS Naturals, Sequences, FiniteSets, SequencesExt, Arithmetic

CONSTANTS
  NThreads,     \* n_threads of the queue
  NTasks,       \* its n_tasks_per_level
  NPartitions,  \* n_partitions
  LineSize,     \* CLB::n_tuples_per_cache_line_buffer
  Inputs,       \* the inputs init may be called with: sequences of keys
  Null,         \* an array that is not allocated
  Garbage       \* a cell nobody has written

ASSUME QueueAssumption == NThreads \in Nat \ {0} /\ NTasks \in Nat \ {0}
ASSUME LineAssumption == LineSize \in Nat \ {0}
ASSUME PartitionAssumption == \E e \in 0..NPartitions : NPartitions = PowerOf2(e)
ASSUME InputAssumption == Inputs \subseteq Seq(Nat)

VARIABLES
  plan, executing, begun, ended,    \* the task queue
  running,                          \* the task each thread runs, or Null
  iterator,                         \* how far a running scatter task has got
  v,                                \* the input, Null before init is called
  histogram, offsets,               \* per partition
  local_histograms, local_offsets,  \* per task, then per partition
  buffers,                          \* cacheLineBuffers, cut at buffer_offsets
  values                            \* the partitioned keys

queueVars == <<plan, executing, begun, ended>>
threadVars == <<running, iterator>>
localVars == <<local_histograms, local_offsets, buffers>>
resultVars == <<histogram, offsets, values>>
vars == <<queueVars, threadVars, v, localVars, resultVars>>

Threads == 0 .. NThreads-1
Slices == 0 .. NTasks-1
Partitions == 0 .. NPartitions-1

Tasks == ({"histogram", "scatter"} \X Slices) \cup {<<"offsets", 0>>, <<"cleanup", 0>>}

(* Faulty variant: no barrier between the offsets and the scatter tasks.   *)
PhaseOfTooFewBarriers(i) ==
  CASE i[1] = "histogram" -> 0 [] i[1] \in {"offsets", "scatter"} -> 1
    [] i[1] = "cleanup" -> 2

PhaseOf(i) == CASE i[1] = "histogram" -> 0 [] i[1] = "offsets" -> 1
                [] i[1] = "scatter" -> 2 [] i[1] = "cleanup" -> 3

Queue == INSTANCE PhasedExecution WITH TaskId <- Tasks, Phase <- 0..3

-----------------------------------------------------------------------------
(* math::get_number_of_bits: 1 for 1, else the logarithm rounded up.       *)
get_number_of_bits(n) ==
  CASE n = 0 -> 0
    [] n = 1 -> 1
    [] OTHER -> CHOOSE e \in 1..n : PowerOf2(e-1) < n /\ n <= PowerOf2(e)

(* key & partitioning_mask                                                 *)
PartitionOf(key) ==
  IF NPartitions > 1 THEN key % PowerOf2(get_number_of_bits(NPartitions)) ELSE 0

(* Where the slices of an input of l keys begin: slice i is the positions  *)
(* SliceBegin(l)[i] to SliceBegin(l)[i+1] - 1, counted from 0.             *)
SliceBegin(l) ==
  LET begin[i \in 0..NTasks] ==
        IF i = 0 THEN 0
        ELSE begin[i-1] + (l - begin[i-1]) \div (NTasks - (i-1))
  IN  begin

Slice(i) == LET begin == SliceBegin(Len(v)) IN begin[i]+1 .. begin[i+1]

Count(positions, p) == Cardinality({n \in positions : PartitionOf(v[n]) = p})

(* Faulty variant: no cells for the remainder.                             *)
WindowOfFullLines(n) == (n \div LineSize) * LineSize

(* Windows are whole cache line buffers, with at least one cell to spare.  *)
WindowSize(n) == (n \div LineSize + 1) * LineSize

(* The windows of the partitions lie side by side.                         *)
OffsetsOf(h) == [p \in Partitions |-> SumBelow([q \in Partitions |-> WindowSize(h[q])], p)]

(* The keys of each partition, counted. *)
HistogramOf(input) ==
  [p \in Partitions |-> Cardinality({n \in DOMAIN input : PartitionOf(input[n]) = p})]

Allocated(h) ==
  LET size == SumBelow([q \in Partitions |-> WindowSize(h[q])], NPartitions)
  IN  [c \in 0..size-1 |-> Garbage]

(* CacheLineBuffer::store: the keys of a buffer go to dst, dst + 1, ...     *)
Store(cells, dst, keys) ==
  [c \in DOMAIN cells |-> IF c \in dst .. dst+Len(keys)-1 THEN keys[c-dst+1] ELSE cells[c]]

ASSUME NullAssumption ==
  /\ Null \notin Tasks \cup Inputs
  /\ Null \notin [Partitions -> Nat \cup {Garbage}]
  /\ Null \notin [Slices -> {Null} \cup [Partitions -> Nat \cup {Garbage}]]
  /\ Null \notin [Threads -> [Partitions -> Seq(Nat)]]
  /\ \A input \in Inputs :
       Null \notin [DOMAIN Allocated(HistogramOf(input)) -> Nat \cup {Garbage}]
ASSUME GarbageAssumption == Garbage \notin Nat

Zeroes == [p \in Partitions |-> 0]
NoKeys == [p \in Partitions |-> <<>>]

Init ==
  /\ Queue!Init
  /\ running = [t \in Threads |-> Null]
  /\ iterator = [t \in Threads |-> 0]
  /\ v = Null
  /\ histogram = Zeroes /\ offsets = Zeroes
  /\ local_histograms = Null /\ local_offsets = Null
  /\ buffers = Null
  /\ values = Null

-----------------------------------------------------------------------------
(* init(v, l): one thread, whole buffers written by store_non_temporal.  A *)
(* buffer keeps its stale keys: only [0, fill) of its tuples are new.       *)

(* The buffers, as allocated, and start_pos. *)
Fresh(cells, start) ==
  [tuples |-> [p \in Partitions |-> [n \in 1..LineSize |-> Garbage]],
   fill |-> Zeroes, pos |-> start, cells |-> cells]

(* A key into its buffer, and a full buffer to the output. *)
Put(s, key) ==
  LET p == PartitionOf(key)
      tuples == [s.tuples[p] EXCEPT ![s.fill[p] + 1] = key]
  IN  IF s.fill[p] + 1 = LineSize
      THEN [tuples |-> [s.tuples EXCEPT ![p] = tuples],
            fill |-> [s.fill EXCEPT ![p] = 0],
            pos |-> [s.pos EXCEPT ![p] = @ + LineSize],
            cells |-> Store(s.cells, s.pos[p], tuples)]
      ELSE [s EXCEPT !.tuples[p] = tuples, !.fill[p] = @ + 1]

(* The last store of a partition. *)
Flush(s, p) ==
  IF s.fill[p] = 0 THEN s ELSE [s EXCEPT !.cells = Store(@, s.pos[p], s.tuples[p])]

Scatter(cells, start, input) ==
  LET put[n \in 0 .. Len(input)] ==
        IF n = 0 THEN Fresh(cells, start) ELSE Put(put[n-1], input[n])
      flushed[p \in 0..NPartitions] ==
        IF p = 0 THEN put[Len(input)] ELSE Flush(flushed[p-1], p-1)
  IN  flushed[NPartitions].cells

init_alone(input) ==
  /\ v = Null
  /\ v' = input
  /\ histogram' = HistogramOf(input)
  /\ offsets' = OffsetsOf(histogram')
  /\ values' = Scatter(Allocated(histogram'), offsets', input)
  /\ UNCHANGED <<queueVars, threadVars, localVars>>

-----------------------------------------------------------------------------
(* init(v, l, queue) and the tasks it submits.                             *)

Submitted == [i \in Tasks |-> PhaseOf(i)]

init(input) ==
  /\ v = Null
  /\ v' = input
  /\ local_histograms' = [i \in Slices |-> Null]
  /\ local_offsets' = [i \in Slices |-> Null]
  /\ buffers' = [t \in Threads |-> NoKeys]
  /\ plan' = Submitted
  /\ begun' = Queue!Zero(Tasks)
  /\ ended' = Queue!Zero(Tasks)
  /\ UNCHANGED <<executing, threadVars, resultVars>>

(* The caller has added its own tasks and executes the queue.               *)
Execute ==
  /\ DOMAIN plan # {}
  /\ Queue!Execute
  /\ UNCHANGED <<threadVars, v, localVars, resultVars>>

Return ==
  /\ Queue!Return
  /\ UNCHANGED <<threadVars, v, localVars, resultVars>>

Begin(t, i) ==
  /\ running[t] = Null
  /\ Queue!Begin(i)
  /\ running' = [running EXCEPT ![t] = i]
  /\ iterator' = [iterator EXCEPT ![t] = IF i[1] = "scatter"
                                         THEN SliceBegin(Len(v))[i[2]] ELSE 0]
  /\ UNCHANGED <<v, localVars, resultVars>>

End(t) ==
  /\ Queue!End(running[t])
  /\ running' = [running EXCEPT ![t] = Null]
  /\ iterator' = [iterator EXCEPT ![t] = 0]

Histogram(t, i) ==
  /\ running[t] = <<"histogram", i>>
  /\ local_histograms' = [local_histograms EXCEPT ![i] =
                            [p \in Partitions |-> Count(Slice(i), p)]]
  /\ local_offsets' = [local_offsets EXCEPT ![i] = [p \in Partitions |-> Garbage]]
  /\ End(t)
  /\ UNCHANGED <<v, buffers, resultVars>>

Offsets(t) ==
  /\ running[t] = <<"offsets", 0>>
  /\ LET Before(i, p) == SumBelow([j \in Slices |-> local_histograms[j][p]], i)
     IN  /\ histogram' = [p \in Partitions |-> Before(NTasks, p)]
         /\ offsets' = OffsetsOf(histogram')
         /\ local_offsets' = [i \in Slices |->
                                [p \in Partitions |-> offsets'[p] + Before(i, p)]]
  /\ values' = Allocated(histogram')
  /\ End(t)
  /\ UNCHANGED <<v, local_histograms, buffers>>

(* Faulty variant: the buffer is flushed one key too late.                 *)
ScatterKeyOverrun(t, i) ==
  /\ running[t] = <<"scatter", i>>
  /\ iterator[t] < SliceBegin(Len(v))[i+1]
  /\ LET key == v[iterator[t] + 1]
         p == PartitionOf(key)
         tuples == Append(buffers[t][p], key)
     IN  IF Len(tuples) > LineSize
         THEN /\ values' = Store(values, local_offsets[i][p], tuples)
              /\ local_offsets' = [local_offsets EXCEPT ![i][p] = @ + LineSize]
              /\ buffers' = [buffers EXCEPT ![t][p] = <<>>]
         ELSE /\ buffers' = [buffers EXCEPT ![t][p] = tuples]
              /\ UNCHANGED <<values, local_offsets>>
  /\ iterator' = [iterator EXCEPT ![t] = @ + 1]
  /\ UNCHANGED <<queueVars, running, v, local_histograms, histogram, offsets>>

(* Faulty variant: the destination does not advance past a flushed buffer. *)
ScatterKeyInPlace(t, i) ==
  /\ running[t] = <<"scatter", i>>
  /\ iterator[t] < SliceBegin(Len(v))[i+1]
  /\ LET key == v[iterator[t] + 1]
         p == PartitionOf(key)
         tuples == Append(buffers[t][p], key)
     IN  IF Len(tuples) = LineSize
         THEN /\ values' = Store(values, local_offsets[i][p], tuples)
              /\ buffers' = [buffers EXCEPT ![t][p] = <<>>]
         ELSE /\ buffers' = [buffers EXCEPT ![t][p] = tuples]
              /\ UNCHANGED values
  /\ iterator' = [iterator EXCEPT ![t] = @ + 1]
  /\ UNCHANGED <<queueVars, running, v, local_histograms, local_offsets, histogram, offsets>>

ScatterKey(t, i) ==
  /\ running[t] = <<"scatter", i>>
  /\ iterator[t] < SliceBegin(Len(v))[i+1]
  /\ LET key == v[iterator[t] + 1]
         p == PartitionOf(key)
         tuples == Append(buffers[t][p], key)
     IN  IF Len(tuples) = LineSize
         THEN /\ values' = Store(values, local_offsets[i][p], tuples)
              /\ local_offsets' = [local_offsets EXCEPT ![i][p] = @ + LineSize]
              /\ buffers' = [buffers EXCEPT ![t][p] = <<>>]
         ELSE /\ buffers' = [buffers EXCEPT ![t][p] = tuples]
              /\ UNCHANGED <<values, local_offsets>>
  /\ iterator' = [iterator EXCEPT ![t] = @ + 1]
  /\ UNCHANGED <<queueVars, running, v, local_histograms, histogram, offsets>>

(* The buffers of a thread go to dst, partition after partition.           *)
StoreBuffers(cells, dst, full) ==
  LET stored[p \in 0..NPartitions] ==
        IF p = 0 THEN cells ELSE Store(stored[p-1], dst[p-1], full[p-1])
  IN  stored[NPartitions]

(* Faulty variant: buffer_offsets keep their values after the last store.  *)
ScatterRestKeepingBuffers(t, i) ==
  /\ running[t] = <<"scatter", i>>
  /\ iterator[t] = SliceBegin(Len(v))[i+1]
  /\ values' = StoreBuffers(values, local_offsets[i], buffers[t])
  /\ local_histograms' = [local_histograms EXCEPT ![i] = Null]
  /\ local_offsets' = [local_offsets EXCEPT ![i] = Null]
  /\ End(t)
  /\ UNCHANGED <<v, buffers, histogram, offsets>>

ScatterRest(t, i) ==
  /\ running[t] = <<"scatter", i>>
  /\ iterator[t] = SliceBegin(Len(v))[i+1]
  /\ values' = StoreBuffers(values, local_offsets[i], buffers[t])
  /\ buffers' = [buffers EXCEPT ![t] = NoKeys]
  /\ local_histograms' = [local_histograms EXCEPT ![i] = Null]
  /\ local_offsets' = [local_offsets EXCEPT ![i] = Null]
  /\ End(t)
  /\ UNCHANGED <<v, histogram, offsets>>

Cleanup(t) ==
  /\ running[t] = <<"cleanup", 0>>
  /\ local_histograms' = Null /\ local_offsets' = Null
  /\ buffers' = Null
  /\ End(t)
  /\ UNCHANGED <<v, resultVars>>

Thread(t) ==
  \/ \E i \in DOMAIN plan : Begin(t, i)
  \/ Offsets(t) \/ Cleanup(t)
  \/ \E i \in Slices : Histogram(t, i) \/ ScatterKey(t, i) \/ ScatterRest(t, i)

(* One PartitionSet partitions one input.                                  *)
Finished == v # Null /\ DOMAIN plan = {} /\ UNCHANGED vars

Next ==
  \/ \E input \in Inputs : init_alone(input) \/ init(input)
  \/ Execute \/ Return
  \/ \E t \in Threads : Thread(t)
  \/ Finished

Spec == Init /\ [][Next]_vars

-----------------------------------------------------------------------------
(* Properties. *)

Array(S, R) == {Null} \cup [S -> R]
Keys == UNION {ToSet(input) : input \in Inputs}
Buffer == UNION {[1..n -> Keys] : n \in 0..LineSize-1}

TypeOK ==
  /\ running \in [Threads -> {Null} \cup Tasks]
  /\ iterator \in [Threads -> Nat]
  /\ v \in {Null} \cup Inputs
  /\ histogram \in [Partitions -> Nat] /\ offsets \in [Partitions -> Nat]
  /\ local_histograms \in Array(Slices, Array(Partitions, Nat))
  /\ local_offsets \in Array(Slices, Array(Partitions, Nat \cup {Garbage}))
  /\ buffers \in Array(Threads, [Partitions -> Buffer])
  /\ values = Null \/ values \in [DOMAIN Allocated(histogram) -> Keys \cup {Garbage}]

Window(p) == offsets[p] .. offsets[p] + histogram[p] - 1

(* The keys have reached the output. *)
Scattered ==
  /\ values # Null
  /\ \A i \in DOMAIN plan : i[1] = "scatter" => ended[i] = 1

(* Once the input is scattered, the window of each partition holds exactly *)
(* the keys of the input that belong to it, each as often as the input     *)
(* does, and starts on a cache line: what construct and count of every     *)
(* filter read as (values, offsets, histogram).                            *)
Partitioned ==
  Scattered =>
    \A p \in Partitions :
      /\ offsets[p] % LineSize = 0
      /\ Window(p) \subseteq DOMAIN values
      /\ \A key \in ToSet(v) :
           Cardinality({c \in Window(p) : values[c] = key}) =
             Cardinality({n \in DOMAIN v : v[n] = key /\ PartitionOf(key) = p})
      /\ \A c \in Window(p) : values[c] # Garbage

(* What scatter task i has still to write of partition p: the keys it has  *)
(* not read yet and those in the buffer of the thread that runs it.        *)
Pending(i, p) ==
  LET end == SliceBegin(Len(v))[i+1]
  IN  IF begun[<<"scatter", i>>] = 0 THEN Count(Slice(i), p)
      ELSE LET t == CHOOSE t \in Threads : running[t] = <<"scatter", i>>
           IN  Len(buffers[t][p]) + Count(iterator[t]+1 .. end, p)

PendingCells(i, p) ==
  local_offsets[i][p] .. local_offsets[i][p] + Pending(i, p) - 1

Unscattered ==
  {i \in Slices : <<"scatter", i>> \in DOMAIN plan /\ ended[<<"scatter", i>>] = 0}

(* The tasks that scatter concurrently never meet: the cells they have     *)
(* still to write are allocated, unwritten, inside the window of their     *)
(* partition and disjoint, although a thread carries its buffers from one  *)
(* task to the next and local_offsets advance a whole buffer at a time.    *)
DisjointWrites ==
  values # Null =>
    \A i \in Unscattered, p \in Partitions :
      /\ PendingCells(i, p) \subseteq Window(p)
      /\ \A c \in PendingCells(i, p) : c \in DOMAIN values /\ values[c] = Garbage
      /\ \A j \in Unscattered \ {i} :
           PendingCells(i, p) \cap PendingCells(j, p) = {}

(* The arrays the tasks share outlive every task that uses them, although  *)
(* the scatter tasks and the clean-up free them without a lock.            *)
NoUseAfterFree ==
  \A t \in Threads :
    /\ running[t] # Null =>
         buffers # Null /\ local_histograms # Null /\ local_offsets # Null
    /\ running[t] = <<"offsets", 0>> =>
         \A i \in Slices : local_histograms[i] # Null /\ local_offsets[i] # Null
    /\ \A i \in Slices : running[t] = <<"scatter", i>> =>
         values # Null /\ local_offsets[i] # Null

(* A thread between two tasks owns no keys: nothing of one scatter task is *)
(* written by the next task of the thread, into the wrong window.          *)
NoCarryOver ==
  \A t \in Threads : running[t] = Null /\ buffers # Null => buffers[t] = NoKeys
=============================================================================
