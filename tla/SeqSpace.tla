------------------------------ MODULE SeqSpace ------------------------------
(***************************************************************************)
(* Arithmetic on the session sequence numbers of t2u (uint32_t in          *)
(* t2u_internal.h).  SeqSpan is 2^32 in the build; TLC uses a small value  *)
(* so that the wrap-around is reached.  Both operators equal the C         *)
(* expressions modulo SeqSpan for operands below SeqSpan; they are written *)
(* without % so that they stay linear for the provers.                     *)
(***************************************************************************)
EXTENDS Integers

CONSTANT SeqSpan

ASSUME SeqSpanAssumption == SeqSpan \in Nat \ {0}

SeqNum == 0 .. SeqSpan - 1

\* s + k as a uint32_t, for k <= SeqSpan.
SeqAdd(s, k) == IF s + k < SeqSpan THEN s + k ELSE s + k - SeqSpan

\* a - b as a uint32_t.
SeqDiff(a, b) == IF a >= b THEN a - b ELSE a - b + SeqSpan
=============================================================================
