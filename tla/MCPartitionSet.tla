--------------------------- MODULE MCPartitionSet ---------------------------
(* PartitionSet for TLC: every distribution of up to MaxLength keys over the *)
(* partitions.  The upper bits make the keys distinct.                       *)
EXTENDS PartitionSet

CONSTANTS MaxLength

MCInputs ==
  {[n \in DOMAIN low |-> NPartitions * n + low[n]] :
     low \in UNION {[1..len -> Partitions] : len \in 0..MaxLength}}
=============================================================================
