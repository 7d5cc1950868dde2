--------------------- MODULE MCITcpBrokerServerEngine -----------------------
(***************************************************************************)
(* The two engines of the echo server with a thread in start() for each, a *)
(* thread that stops or restarts the IPv4 one, and with or without one     *)
(* that configures the IPv6 one; or the IPv6 engine alone.                 *)
(***************************************************************************)
EXTENDS ITcpBrokerServerEngine, TLC

CONSTANTS v4, v6, run4, run6, control, config

FourFds == {3, 4, 5, 6}

PairProtocol == v4 :> "v4" @@ v6 :> "v6"

PairEngineOf == run4 :> v4 @@ run6 :> v6 @@ control :> v4 @@ config :> v6

\* The pair without the thread that configures.
StopEngineOf == run4 :> v4 @@ run6 :> v6 @@ control :> v4

\* Clients are interchangeable.
Interchangeable == Permutations(Clients)

SingleProtocol == v6 :> "v6"

SingleEngineOf == run6 :> v6 @@ control :> v6 @@ config :> v6
=============================================================================
