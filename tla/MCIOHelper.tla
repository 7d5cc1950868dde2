----------------------------- MODULE MCIOHelper -----------------------------
(***************************************************************************)
(* IOHelper on buffers of up to 3 bytes with up to 2 transient failures.   *)
(* A size_t of 4 bits is enough: what matters is that 2^w - 1 exceeds      *)
(* every len.                                                              *)
(***************************************************************************)
EXTENDS IOHelper

Width == 4

MCSizeMod == 2 ^ Width
=============================================================================
