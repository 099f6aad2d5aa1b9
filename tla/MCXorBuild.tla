----------------------------- MODULE MCXorBuild -----------------------------
(* XorBuild for TLC: a hash has a bit for its address in each of the three  *)
(* sets and one more, which is its segment, and with another its            *)
(* fingerprint.  The keys of a partition are interchangeable: only hashes   *)
(* in ascending order are looked at.                                        *)
EXTENDS XorBuild

MCHashBits == 0..3
MCFingerprintBits == {3}
MCAddress(h, s) == IF s \in h THEN 1 ELSE 0
MCSegment(h) == IF 3 \in h THEN 1 ELSE 0
MCFingerprint(h) == IF (3 \in h) # (0 \in h) THEN {3} ELSE {}
Number(h) == SumSet({2^b : b \in h})
MCHashChoices ==
  {f \in [Keys -> SUBSET MCHashBits] :
     \A x, y \in Keys : x < y => Number(f[x]) <= Number(f[y])}
=============================================================================
