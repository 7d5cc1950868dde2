---------------------- MODULE MCThreadsClientHandle -------------------------
(***************************************************************************)
(* Echo handlers on a table of one descriptor: every accept reuses the     *)
(* number of the connection before.                                        *)
(***************************************************************************)
EXTENDS ThreadsClientHandle

MCSizeMod == 2 ^ 3

OneFd == {3}
=============================================================================
