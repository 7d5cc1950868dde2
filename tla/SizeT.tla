------------------------------- MODULE SizeT -------------------------------
(***************************************************************************)
(* size_t arithmetic: the type in which send_bytes keeps send()'s result   *)
(* and its running total.                                                  *)
(***************************************************************************)
EXTENDS Integers

CONSTANT SizeMod   \* number of values of size_t: 2^64 in the build, 2^w here

ASSUME SizeModAssumption == SizeMod \in Nat \ {0}

\* Mutant of AsSize: the result stays signed.
AsSize_Signed(n) == n

\* A signed result stored in a size_t: n % SizeMod for the n that occur.
AsSize(n) == IF n < 0 THEN n + SizeMod ELSE n

\* Mutant of AddSize: the sum kept without the type's width.
AddSize_NoWrap(a, b) == a + b

\* a += b on two size_t: (a + b) % SizeMod for operands in range.
AddSize(a, b) == IF a + b < SizeMod THEN a + b ELSE a + b - SizeMod
=============================================================================
