----------------------------- MODULE Addressing -----------------------------
(***************************************************************************)
(* The addressers: how many buckets they make of the number asked for,     *)
(* which bucket the address bits of a hash name, and the alternative       *)
(* bucket of a fingerprint in a bucket.                                    *)
(*                                                                         *)
(* All arithmetic is on AddressBits bits (32 in the code), so that mulh is *)
(* the upper half of a product.  What the modes have in common, that a     *)
(* signature is multiplied by 0x5bd1e995 before it is used as an address,  *)
(* is left to the caller: a signature here is those address bits.          *)
(***************************************************************************)
EXTENDS Integers, FiniteSets, FiniteSetsExt, Bitwise

CONSTANTS
  AddressBits,  \* 32
  Chunks,       \* Vacuum: at most so many chunks, 16
  MinChunk      \* Vacuum: of at least so many buckets, 256

Modes == {"PowerOfTwo", "Lemire", "Magic", "Vacuum"}

Word == 2^AddressBits

mulh32(a, b) == (a * b) \div Word

next_power_of_two(n) ==
  IF n = 0 THEN 0 ELSE Min({2^i : i \in {j \in 0..AddressBits : 2^j >= n}})

-----------------------------------------------------------------------------
(* Vacuum: whole chunks, so that flipping bits within one stays in range.  *)
ChunkSize(n) == next_power_of_two(n) \div Chunks

Chunked(n) == ChunkSize(n) >= MinChunk

VacuumSize(n) ==
  IF Chunked(n)
  THEN ((n + ChunkSize(n) - 1) \div ChunkSize(n)) * ChunkSize(n)
  ELSE next_power_of_two(n)

-----------------------------------------------------------------------------
(* Magic: libdivide_u32_cheap_gen takes the next divisor, which is not a   *)
(* power of two, whose magic number fits a word without the add marker.    *)

Power(d) == Max({2^i : i \in {j \in 0..AddressBits-1 : 2^j <= d}})

Cheap(d) ==
  /\ Power(d) # d
  /\ d - ((Power(d) * Word) % d) < Power(d)

magic(d) == 1 + (Power(d) * Word) \div d

CheapDivisor(n) == Min({d \in Max({n, 2}) .. Word-1 : Cheap(d)})

(* libdivide_u32_recover: the divisor from its magic number.               *)
MagicSize(n) ==
  LET d == CheapDivisor(n) IN 1 + (Power(d) * Word) \div magic(d)

(* The remainder of the division by a multiplication and a shift.          *)
MagicAddress(n, bits) ==
  LET d == CheapDivisor(n)
  IN  bits - (mulh32(bits, magic(d)) \div Power(d)) * MagicSize(n)

-----------------------------------------------------------------------------
(* addresser.get_size, for n buckets asked for.                            *)
get_size(mode, n) ==
  CASE mode = "PowerOfTwo" -> next_power_of_two(n)
    [] mode = "Lemire"     -> n
    [] mode = "Magic"      -> MagicSize(n)
    [] mode = "Vacuum"     -> VacuumSize(n)

(* masks[index]; without buckets it is all ones.                           *)
Mask(mode, n) ==
  CASE mode = "PowerOfTwo" -> (next_power_of_two(n) - 1) % Word
    [] mode = "Vacuum"     -> ((IF Chunked(n) THEN ChunkSize(n) ELSE VacuumSize(n)) - 1) % Word

(* addresser.compute_address                                               *)
compute_address(mode, n, bits) ==
  CASE mode = "PowerOfTwo"           -> bits & Mask(mode, n)
    [] mode \in {"Lemire", "Vacuum"} -> mulh32(bits, get_size(mode, n))
    [] mode = "Magic"                -> MagicAddress(n, bits)

(* Faulty variant: what wraps below zero is not corrected.                 *)
NoWrap(sig, address, size) == IF sig < address THEN address - sig ELSE sig - address

(* sig - address modulo the size, without a division.                      *)
Wrapped(sig, address, size) == sig - address + (IF sig < address THEN size ELSE 0)

(* addresser.compute_alternative_address                                   *)
compute_alternative_address(mode, n, address, signature) ==
  CASE mode = "PowerOfTwo"          -> address ^^ compute_address(mode, n, signature)
    [] mode = "Vacuum"              -> address ^^ (signature & Mask(mode, n))
    [] mode \in {"Lemire", "Magic"} ->
         Wrapped(compute_address(mode, n, signature), address, get_size(mode, n))
=============================================================================
