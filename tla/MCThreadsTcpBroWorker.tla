---------------------- MODULE MCThreadsTcpBroWorker -------------------------
(***************************************************************************)
(* Workers on a table of one descriptor (every accept reuses the number of *)
(* the connection before) or of two (connections side by side).            *)
(***************************************************************************)
EXTENDS ThreadsTcpBroWorker

MCSizeMod == 2 ^ 3

OneFd == {3}

TwoFds == {3, 4}
=============================================================================
