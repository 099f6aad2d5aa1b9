----------------------------- MODULE Arithmetic -----------------------------
(***************************************************************************)
(* Sums and powers, as loops of the code compute them.                     *)
(***************************************************************************)
EXTENDS Naturals

(* f[0] + ... + f[n-1]: the loops that turn sizes into offsets.            *)
SumBelow(f, n) ==
  LET sum[i \in 0..n] == IF i = 0 THEN 0 ELSE sum[i-1] + f[i-1]
  IN  sum[n]

(* 1 << n, without an end of the word.                                     *)
PowerOf2(n) ==
  LET power[i \in 0..n] == IF i = 0 THEN 1 ELSE 2 * power[i-1]
  IN  power[n]
=============================================================================
