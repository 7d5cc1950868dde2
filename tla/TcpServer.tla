----------------------------- MODULE TcpServer ------------------------------
(***************************************************************************)
(* TcpServer with IPV4ThreadsTcpServer and IPV6ThreadsTcpServer, from      *)
(* which ITcpBrokerServerEngine was made.  Most steps of the socket set-up *)
(* and of the accept loop are the same, so they are the actions of that    *)
(* module, with a server for an engine.  What differs: start() returns at  *)
(* once when mFd is set; stop() also resets mFd, in a second step that no  *)
(* lock joins to the first; the IPv6 set-up takes a failed inet_pton() for *)
(* a success; the IPv4 loop sets two options on each client's socket;      *)
(* there is no queue of contexts, and the handlers of both families close  *)
(* what they serve (ThreadsClientHandle refines ConnectionLifecycle).      *)
(***************************************************************************)
EXTENDS ITcpBrokerServerEngine

VARIABLE stopping   \* the threads inside stop(), between its two statements

serverVars == <<vars, stopping>>

ServerTypeOK == TypeOK /\ stopping \subseteq Threads

ServerInit == Init /\ stopping = {}

-----------------------------------------------------------------------------
(***************************************************************************)
(* start().                                                                *)
(***************************************************************************)
CheckStarted(t) ==
  /\ Step(t, "check", IF mFd[EngineOf[t]] # INVALID_FD THEN "idle" ELSE "socket")
  /\ UNCHANGED <<kernel, mFd, address, call, contexts, history>>

SetUp(t) ==
  CreateSocket(t) \/ NoSocket(t) \/ Bind(t) \/ Listen(t) \/ SetupFails(t)
    \/ AssignFd(t)

IPV4InitSocket(t) == Protocol[EngineOf[t]] = "v4" /\ SetUp(t)

\* inet_pton() fails: return -1, which as a bool is true, so that start()
\* goes on to run() with mFd as it was and svr_sock is lost.
PtonFails(t) ==
  /\ Step(t, "bind", "load")
  /\ svr_sock' = [svr_sock EXCEPT ![t] = INVALID_FD]
  /\ abandoned' = abandoned + 1
  /\ UNCHANGED <<kernel, mFd, address, lfd, waitsOn, reserved, contexts,
                 starts, stops, stopped, caught, late>>

IPV6InitSocket(t) == Protocol[EngineOf[t]] = "v6" /\ (SetUp(t) \/ PtonFails(t))

\* One turn of the accept loop as far as the two families share it.
AcceptLoop(t) == LoadFd(t) \/ AcceptWaits(t) \/ AcceptRefused(t)

\* accept() is answered; handleClient gets a thread and the context.
Answered(t) ==
  \/ AcceptAborts(t)
  \/ \E c \in Clients : Admit(t, c) /\ UNCHANGED mSocketContextQueue

\* Setting SO_RCVTIMEO or SO_SNDTIMEO fails: run() returns false.  The
\* client's socket has no context ("other") and stays open for good.
OptionFails(t, c) ==
  /\ context[c] = "none"
  /\ AcceptEnds(t, "idle", c)
  /\ context' = [context EXCEPT ![c] = "other"]
  /\ mClientFd' = [mClientFd EXCEPT ![c] = reserved[t]]
  /\ UNCHANGED <<mSocketContextQueue, destroyed, late>>

IPV4Run(t) ==
  /\ Protocol[EngineOf[t]] = "v4"
  /\ AcceptLoop(t) \/ Answered(t) \/ \E c \in Clients : OptionFails(t, c)

IPV6Run(t) == Protocol[EngineOf[t]] = "v6" /\ (AcceptLoop(t) \/ Answered(t))

\* The handler of either family closes its connection.
HandlerEnds(c) == context[c] \in {"v4", "v6"} /\ CloseContext(c)

-----------------------------------------------------------------------------
(***************************************************************************)
(* stop(), without a test: CLOSE_SOCKET(mFd), then mFd = INVALID_FD.       *)
(***************************************************************************)
StopCloses(t) ==
  /\ t \in Stoppers
  /\ Step(t, "idle", "idle")
  /\ CloseListener(EngineOf[t])
  /\ stopping' = stopping \cup {t}

\* Mutants of StopResets: the number is kept; 0 is taken for invalid.
StopResets_KeepsFd(t) ==
  /\ t \in stopping
  /\ stopping' = stopping \ {t}
  /\ UNCHANGED vars

StopResets_Zero(t) ==
  /\ t \in stopping
  /\ mFd' = [mFd EXCEPT ![EngineOf[t]] = 0]
  /\ stopping' = stopping \ {t}
  /\ UNCHANGED <<kernel, address, pc, call, contexts, history>>

\* The reset drops a socket that start() assigned after the close.
StopResets(t) ==
  LET e == EngineOf[t] IN
  /\ t \in stopping
  /\ mFd' = [mFd EXCEPT ![e] = INVALID_FD]
  /\ abandoned' = IF IsOpen(fdTable, mFd[e]) THEN abandoned + 1 ELSE abandoned
  /\ stopping' = stopping \ {t}
  /\ UNCHANGED <<kernel, address, pc, call, contexts,
                 starts, stops, stopped, caught, late>>

-----------------------------------------------------------------------------
StartServer(t) ==
  /\ \/ CheckStarted(t)
     \/ IPV4InitSocket(t)
     \/ IPV6InitSocket(t)
     \/ IPV4Run(t)
     \/ IPV6Run(t)
  /\ UNCHANGED stopping

\* A thread calls start() or stop() when it is in neither.
Call(t) ==
  /\ t \notin stopping
  /\ (CallStart(t) /\ UNCHANGED stopping) \/ StopCloses(t)

ServerNext ==
  \/ \E t \in Threads : StartServer(t) \/ Call(t) \/ StopResets(t)
  \/ \E c \in Clients : HandlerEnds(c) /\ UNCHANGED stopping

ServerSpec == ServerInit /\ [][ServerNext]_serverVars

\* A thread inside start() or stop() that can run does; accept() waits for
\* clients that need not come.
ServerFairSpec ==
  /\ ServerSpec
  /\ \A t \in Threads :
       /\ WF_serverVars(pc[t] # "blocked" /\ StartServer(t))
       /\ WF_serverVars(StopResets(t))

-----------------------------------------------------------------------------
(***************************************************************************)
(* Properties.  ImplementsLifecycle and LeakBound are those of the engine: *)
(* one thread may stop a server any number of times and no connection is   *)
(* touched; a listening descriptor is lost only by a set-up that failed,   *)
(* or by a stop() that overtakes start() and resets the mFd just assigned. *)
(***************************************************************************)

(***************************************************************************)
(* start() after a stop() that is over makes the server listen again: mFd  *)
(* comes to name a listening socket, unless setting it up fails, the table *)
(* is full or the server is stopped once more.  The reset in stop() is     *)
(* what the later engine lost.                                             *)
(***************************************************************************)
StartsAgain ==
  \A t \in Starters :
    LET e == EngineOf[t] IN
    pc[t] = "check" /\ stopped[e] # {} /\ stopping = {}
      ~> \/ IsOpen(fdTable, mFd[e]) /\ fdTable[mFd[e]] \in listening
         \/ abandoned > 0
         \/ \A f \in Fds : fdTable[f] # Free
         \/ stopping # {}
=============================================================================
