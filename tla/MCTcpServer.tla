---------------------------- MODULE MCTcpServer -----------------------------
(***************************************************************************)
(* The two servers of the older echo program, with a thread in start() for *)
(* each and another thread that starts and stops the IPv4 one.             *)
(***************************************************************************)
EXTENDS TcpServer, TLC

CONSTANTS s4, s6, run4, run6, control

FourFds == 3..6

PairProtocol == s4 :> "v4" @@ s6 :> "v6"

PairEngineOf == run4 :> s4 @@ run6 :> s6 @@ control :> s4
=============================================================================
