--------------------------- MODULE PartitionBuild ---------------------------
(***************************************************************************)
(* What building one partition promises the filter, whatever the           *)
(* algorithm: it tries seed 0 and then at most MaxRetries further seeds,   *)
(* the seed it stores is the seed it is trying, and when it reports        *)
(* success every key of the partition is found.                            *)
(***************************************************************************)
EXTENDS Naturals

CONSTANTS MaxRetries  \* seeds tried after seed 0

VARIABLES
  status,  \* is the partition being built, built, or given up?
  seed,    \* the seed a lookup in the partition uses
  found    \* the partition is built, and every key of it is found

vars == <<status, seed, found>>

TypeOK ==
  /\ status \in {"building", "built", "failed"}
  /\ seed \in 0..MaxRetries
  /\ found \in BOOLEAN

Init == status = "building" /\ seed = 0 /\ found = FALSE

(* The keys cannot be placed under this seed.                              *)
Retry ==
  /\ status = "building"
  /\ seed < MaxRetries
  /\ seed' = seed + 1
  /\ UNCHANGED <<status, found>>

Succeed ==
  /\ status = "building"
  /\ status' = "built"
  /\ found' = TRUE
  /\ UNCHANGED seed

GiveUp ==
  /\ status = "building"
  /\ seed = MaxRetries
  /\ status' = "failed"
  /\ UNCHANGED <<seed, found>>

Next == Retry \/ Succeed \/ GiveUp

Spec == Init /\ [][Next]_vars
=============================================================================
