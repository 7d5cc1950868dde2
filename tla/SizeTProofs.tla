---------------------------- MODULE SizeTProofs -----------------------------
(***************************************************************************)
(* Facts about size_t arithmetic, for every width.                         *)
(***************************************************************************)
EXTENDS SizeT, TLAPS

\* The sum of two size_t is a size_t.
LEMMA AddSizeType ==
  ASSUME NEW a \in 0..(SizeMod - 1), NEW b \in 0..(SizeMod - 1)
  PROVE  AddSize(a, b) \in 0..(SizeMod - 1)
BY SizeModAssumption DEF AddSize

\* Adding -1 as a size_t is one step back, and from 0 the largest value.
LEMMA AddMinusOne ==
  ASSUME NEW a \in 0..(SizeMod - 1)
  PROVE  AddSize(a, AsSize(-1)) = IF a = 0 THEN SizeMod - 1 ELSE a - 1
BY SizeModAssumption DEF AddSize, AsSize
=============================================================================
