-------------------------- MODULE TcpServerProofs ---------------------------
(***************************************************************************)
(* The older servers, for any number of servers, threads, clients and      *)
(* descriptors.  Their steps are mostly the engine's, so that most of the  *)
(* lemmas are those of ITcpBrokerServerEngineProofs.                       *)
(***************************************************************************)
EXTENDS TcpServer, ITcpBrokerServerEngineProofs

(***************************************************************************)
(* The steps of the servers, in the groups of the engine's proofs.         *)
(***************************************************************************)
LEMMA ServerSteps ==
  ASSUME ServerNext
  PROVE  \/ /\ stopping' = stopping
            /\ \/ \E t \in Threads :
                    \/ CallStart(t) \/ CheckStarted(t) \/ PtonFails(t)
                    \/ /\ Protocol[EngineOf[t]] \in {"v4", "v6"}
                       /\ SetUpStep(t)
                    \/ LoopStep(t) \/ AcceptAborts(t)
                    \/ \E c \in Clients : \/ OptionFails(t, c)
                                          \/ /\ Admit(t, c)
                                             /\ UNCHANGED mSocketContextQueue
               \/ \E c \in Clients : CloseContext(c)
         \/ \E t \in Threads : \/ t \notin stopping /\ StopCloses(t)
                               \/ StopResets(t)
<1>1. ASSUME NEW t \in Threads, StartServer(t)
      PROVE  /\ stopping' = stopping
             /\ \/ CheckStarted(t) \/ PtonFails(t)
                \/ Protocol[EngineOf[t]] \in {"v4", "v6"} /\ SetUpStep(t)
                \/ LoopStep(t) \/ AcceptAborts(t)
                \/ \E c \in Clients : \/ OptionFails(t, c)
                                      \/ /\ Admit(t, c)
                                         /\ UNCHANGED mSocketContextQueue
  BY <1>1 DEF StartServer, IPV4InitSocket, IPV6InitSocket, SetUp, SetUpStep,
              IPV4Run, IPV6Run, AcceptLoop, LoopStep, Answered
<1>2. ASSUME NEW t \in Threads, Call(t)
      PROVE  \/ stopping' = stopping /\ CallStart(t)
             \/ t \notin stopping /\ StopCloses(t)
  BY <1>2 DEF Call
<1>3. ASSUME NEW c \in Clients, HandlerEnds(c)
      PROVE  CloseContext(c)
  BY <1>3 DEF HandlerEnds
<1> QED
  BY <1>1, <1>2, <1>3 DEF ServerNext

-----------------------------------------------------------------------------
(***************************************************************************)
(* Types.                                                                  *)
(***************************************************************************)
LEMMA ServerType ==
  ASSUME ServerTypeOK, [ServerNext]_serverVars
  PROVE  ServerTypeOK'
<1> SUFFICES TypeOK' /\ stopping' \subseteq Threads
  BY DEF ServerTypeOK
<1>1. TypeOK /\ stopping \subseteq Threads
  BY DEF ServerTypeOK
<1>2. ASSUME NEW t \in Threads, CallStart(t) \/ CheckStarted(t) \/ PtonFails(t)
      PROVE  TypeOK'
  <2> USE EngineAssumption
      DEF TypeOK, Step, Number, kernel, call, contexts, history
  <2>1. CASE CallStart(t)
    BY <1>1, <2>1 DEF CallStart
  <2>2. CASE CheckStarted(t)
    BY <1>1, <2>2 DEF CheckStarted
  <2>3. CASE PtonFails(t)
    BY <1>1, <2>3 DEF PtonFails
  <2> HIDE DEF TypeOK
  <2> QED
    BY <1>2, <2>1, <2>2, <2>3
<1>3. ASSUME NEW t \in Threads, AcceptAborts(t)
      PROVE  TypeOK'
  BY <1>1, <1>3, AcceptType DEF AcceptAborts, contexts, TypeOK
<1>4. ASSUME NEW t \in Threads, NEW c \in Clients, OptionFails(t, c)
      PROVE  TypeOK'
  <2>1. /\ AcceptEnds(t, "idle", c)
        /\ context' \in [Clients -> {"none", "v4", "v6", "other"}]
        /\ mClientFd' \in [Clients -> Number]
        /\ UNCHANGED <<mSocketContextQueue, destroyed, late>>
    BY <1>1, <1>4 DEF OptionFails, TypeOK
  <2> QED
    BY <1>1, <2>1, AcceptType DEF TypeOK
<1>5. ASSUME NEW t \in Threads, NEW c \in Clients, Admit(t, c),
             UNCHANGED mSocketContextQueue
      PROVE  TypeOK'
  BY <1>1, <1>5, AdmitType DEF TypeOK
<1>6. ASSUME NEW t \in Threads, StopCloses(t)
      PROVE  TypeOK' /\ stopping' \subseteq Threads
  <2>1. CloseListener(EngineOf[t]) /\ EngineOf[t] \in Engines
    BY <1>6, EngineAssumption DEF StopCloses
  <2>2. pc' = pc /\ stopping' = stopping \cup {t}
    BY <1>1, <1>6 DEF StopCloses, Step, TypeOK
  <2> QED
    BY <1>1, <2>1, <2>2, CloseListenerType DEF TypeOK
<1>7. ASSUME NEW t \in Threads, StopResets(t)
      PROVE  TypeOK' /\ stopping' \subseteq Threads
  BY <1>1, <1>7, EngineAssumption
  DEF StopResets, TypeOK, Number, kernel, call, contexts
<1>8. CASE UNCHANGED serverVars
  BY <1>1, <1>8
  DEF serverVars, vars, TypeOK, kernel, call, contexts, history
<1> QED
  BY <1>1, <1>2, <1>3, <1>4, <1>5, <1>6, <1>7, <1>8, ServerSteps, SetUpType,
     LoopType, CloseContextType

(***************************************************************************)
(* start() and stop() of the older servers keep every variable within its  *)
(* type, for any number of servers and threads.                            *)
(***************************************************************************)
THEOREM ServerTypeCorrect == ServerSpec => []ServerTypeOK
<1>1. ServerInit => ServerTypeOK
  BY EngineAssumption DEF ServerInit, ServerTypeOK, Init, TypeOK, Number
<1> QED
  BY <1>1, ServerType, PTL DEF ServerSpec

-----------------------------------------------------------------------------
(***************************************************************************)
(* The connections.  The mFd of a server can be relied on unless stop() is *)
(* between its two statements: the reset is what makes it reliable again.  *)
(***************************************************************************)

\* Each server is stopped by one thread, as often as it likes.
OneStopper == \A t, u \in Stoppers : EngineOf[t] = EngineOf[u] => t = u

Settled == {e \in Engines : \A t \in stopping : EngineOf[t] # e}

ServerNames == stopping \subseteq Stoppers /\ Names(Settled)

\* An inet_pton() that fails gives the number of the socket up.
LEMMA PtonNaming ==
  ASSUME TypeOK, NEW L \in SUBSET Engines, Names(L),
         NEW t \in Threads, PtonFails(t)
  PROVE  Names(L)' /\ Untouched
<1>1. /\ pc[t] = "bind" /\ pc' = [pc EXCEPT ![t] = "load"]
      /\ svr_sock' = [svr_sock EXCEPT ![t] = INVALID_FD]
      /\ UNCHANGED <<fdTable, mFd, reserved, context, mClientFd>>
  BY DEF PtonFails, Step, kernel, contexts
<1> USE InvalidNumber
    DEF TypeOK, Number, Names, SetUpNames, EngineNames, AcceptNames,
        ContextNames, HoldsSocket
<1>2. SetUpNames'
  BY <1>1
<1>3. EngineNames(L)'
  BY <1>1
<1>4. AcceptNames' /\ ContextNames'
  BY <1>1
<1>5. Untouched
  BY <1>1, NoClientTouched
<1> QED
  BY <1>2, <1>3, <1>4, <1>5

\* Every step of the server keeps its names and is a step of the lifecycle or
\* leaves the connections alone.
LEMMA ServerNaming ==
  ASSUME OneStopper, ServerTypeOK, ServerNames, [ServerNext]_serverVars
  PROVE  ServerNames' /\ (Lifecycle!LifecycleNext \/ Untouched)
<1>1. TypeOK /\ stopping \subseteq Stoppers
  BY DEF ServerTypeOK, ServerNames
<1>2. PICK L \in SUBSET Engines : L = Settled
  BY DEF Settled
<1>3. Names(L)
  BY <1>2 DEF ServerNames
<1>4. ASSUME stopping' = stopping, Names(L)'
      PROVE  ServerNames'
  BY <1>1, <1>2, <1>4 DEF ServerNames, Names, EngineNames, Settled
<1>5. ASSUME stopping' = stopping,
             NEW t \in Threads, CallStart(t) \/ CheckStarted(t)
      PROVE  ServerNames' /\ Untouched
  <2>1. /\ UNCHANGED <<fdTable, mFd, svr_sock, reserved, context, mClientFd>>
        /\ \E from, to \in {"idle", "check", "socket", "load"} : Step(t, from, to)
    BY <1>5 DEF CallStart, CheckStarted, kernel, call, contexts
  <2> QED
    BY <1>1, <1>3, <1>4, <1>5, <2>1, QuietNaming
<1>6. ASSUME stopping' = stopping, NEW t \in Threads,
             \/ PtonFails(t) \/ SetUpStep(t) \/ LoopStep(t) \/ AcceptAborts(t)
      PROVE  ServerNames' /\ Untouched
  BY <1>1, <1>3, <1>4, <1>6, PtonNaming, SetUpNaming, LoopNaming, AbortNaming
<1>7. ASSUME stopping' = stopping,
             NEW t \in Threads, NEW c \in Clients, OptionFails(t, c)
      PROVE  ServerNames' /\ Lifecycle!OpenConnection(c)
  BY <1>1, <1>3, <1>4, <1>7, OpenNaming DEF OptionFails
<1>8. ASSUME stopping' = stopping,
             NEW t \in Threads, NEW c \in Clients, Admit(t, c)
      PROVE  ServerNames' /\ Lifecycle!OpenConnection(c)
  <2>1. PICK kind \in {"v4", "v6", "other"} : Protocol[EngineOf[t]] = kind
    BY EngineAssumption
  <2> QED
    BY <1>1, <1>3, <1>4, <1>8, <2>1, OpenNaming DEF Admit
<1>9. ASSUME stopping' = stopping, NEW c \in Clients, CloseContext(c)
      PROVE  ServerNames' /\ Lifecycle!CloseConnection(c)
  BY <1>1, <1>3, <1>4, <1>9, CloseContextNaming
<1>10. ASSUME NEW t \in Threads, t \notin stopping, StopCloses(t)
       PROVE  ServerNames' /\ Untouched
  <2>1. PICK e \in Engines : e = EngineOf[t]
    BY EngineAssumption
  <2>2. /\ t \in Stoppers /\ CloseListener(e) /\ Step(t, "idle", "idle")
        /\ stopping' = stopping \cup {t}
    BY <1>10, <2>1 DEF StopCloses
  <2>3. e \in L
    BY <1>1, <1>2, <1>10, <2>1, <2>2 DEF Settled, OneStopper
  <2>4. Names(L \ {e})' /\ Untouched
    BY <1>1, <1>3, <2>2, <2>3, CloseListenerNaming
  <2>5. Settled' = L \ {e}
    BY <1>2, <2>1, <2>2 DEF Settled
  <2> QED
    BY <1>1, <2>2, <2>4, <2>5 DEF ServerNames, Names, EngineNames
<1>11. ASSUME NEW t \in Threads, StopResets(t)
       PROVE  ServerNames' /\ Untouched
  <2>1. PICK e \in Engines : e = EngineOf[t]
    BY EngineAssumption
  <2>2. /\ t \in stopping /\ stopping' = stopping \ {t}
        /\ mFd' = [mFd EXCEPT ![e] = INVALID_FD]
        /\ UNCHANGED <<fdTable, svr_sock, reserved, context, mClientFd, pc>>
    BY <1>11, <2>1 DEF StopResets, kernel, call, contexts
  <2>3. Settled' = L \cup {e}
    <3>1. \A u \in stopping : EngineOf[u] = e => u = t
      BY <1>1, <2>1, <2>2 DEF OneStopper
    <3> QED
      BY <1>2, <2>1, <2>2, <3>1 DEF Settled
  <2>4. Names(L \cup {e})'
    BY <1>1, <1>3, <2>2
    DEF TypeOK, Names, SetUpNames, EngineNames, AcceptNames, ContextNames
  <2>5. Untouched
    BY <2>2, NoClientTouched
  <2> QED
    BY <1>1, <2>2, <2>3, <2>4, <2>5 DEF ServerNames, Names, EngineNames
<1>12. ASSUME UNCHANGED serverVars
       PROVE  ServerNames' /\ Untouched
  BY <1>1, <1>3, <1>4, <1>12, QuietNaming
  DEF serverVars, vars, kernel, call, contexts
<1> QED
  BY <1>5, <1>6, <1>7, <1>8, <1>9, <1>10, <1>11, <1>12, ServerSteps
  DEF Lifecycle!LifecycleNext

\* The server's names hold in every reachable state.
LEMMA ServerNamesInvariant ==
  ASSUME OneStopper
  PROVE  ServerSpec => [](ServerTypeOK /\ ServerNames)
<1>1. ServerInit => ServerNames
  <2>1. Settled \in SUBSET Engines
    BY DEF Settled
  <2> QED
    BY <2>1, InitNaming DEF ServerInit, ServerNames
<1>2. ServerTypeOK /\ ServerNames /\ [ServerNext]_serverVars => ServerNames'
  BY ServerNaming
<1>3. ServerSpec => []ServerTypeOK
  BY ServerTypeCorrect
<1> QED
  BY <1>1, <1>2, <1>3, PTL DEF ServerSpec

(***************************************************************************)
(* However often one thread stops each server, and whatever other threads  *)
(* call start() meanwhile, every connection is opened once and closed at   *)
(* most once, on its own descriptor: stop() forgets the number it closed   *)
(* before it can close it again.                                           *)
(***************************************************************************)
THEOREM ServerRefinement ==
  ASSUME OneStopper
  PROVE  ServerSpec => ImplementsLifecycle
<1>1. ServerInit => Lifecycle!LifecycleInit
  BY InitLifecycle DEF ServerInit
<1>2. ServerTypeOK /\ ServerNames /\ [ServerNext]_serverVars
        => [Lifecycle!LifecycleNext]_<<connectionStatus, connectionTable>>
  BY ServerNaming DEF Untouched
<1> QED
  BY <1>1, <1>2, ServerNamesInvariant, PTL
     DEF ServerSpec, ImplementsLifecycle, Lifecycle!LifecycleSpec,
         Lifecycle!lifecycleVars

-----------------------------------------------------------------------------
(***************************************************************************)
(* Listening descriptors that are lost.                                    *)
(***************************************************************************)

\* A step that brings no new listening socket into the table gives none a
\* second number.
LEMMA UniqueKept ==
  ASSUME UniqueName, NoNewSocket
  PROVE  UniqueName'
BY DEF UniqueName, NoNewSocket

\* Nor does the set-up, whose socket is new.
LEMMA SetUpUnique ==
  ASSUME TypeOK, UniqueName, NEW t \in Threads, SetUpStep(t)
  PROVE  UniqueName'
<1>1. CASE CreateSocket(t)
  <2>1. PICK f \in Fds, l \in Unused : fdTable' = [fdTable EXCEPT ![f] = l]
    BY <1>1, NewSocket
  <2>2. \A g \in Fds : fdTable[g] # l
    BY DEF Unused
  <2> QED
    BY <2>1, <2>2 DEF UniqueName, TypeOK
<1>2. CASE ~CreateSocket(t)
  <2>1. fdTable' = fdTable
    BY <1>2 DEF SetUpStep, NoSocket, Bind, Listen, SetupFails, AssignFd, kernel
  <2> QED
    BY <2>1 DEF UniqueName
<1> QED
  BY <1>1, <1>2

\* close() and the accept loop bring no new listening socket.
LEMMA QuietTable ==
  ASSUME TypeOK,
         \/ fdTable' = fdTable
         \/ \E fd : fdTable' = Closed(fdTable, fd)
         \/ \E t \in Threads : LoopStep(t)
         \/ \E t \in Threads, to \in {"idle", "load"},
               what \in Clients \cup {Free} : AcceptEnds(t, to, what)
  PROVE  NoNewSocket
BY EngineAssumption
DEF NoNewSocket, TypeOK, Closed, LoopStep, LoadFd, AcceptWaits, AcceptRefused,
    AcceptEnds, kernel

\* No server is ever destroyed.
ServerLeakInv == LeakInv /\ UniqueName /\ destroyed = {}

\* Every step of the server keeps the account of lost listening sockets.
LEMMA ServerLeak ==
  ASSUME ServerTypeOK, ServerNames, ServerNames', ServerLeakInv,
         [ServerNext]_serverVars
  PROVE  ServerLeakInv'
<1>1. /\ TypeOK /\ LeakInv /\ UniqueName /\ Running
      /\ SetUpNames /\ SetUpNames' /\ destroyed = {}
  BY DEF ServerTypeOK, ServerNames, ServerLeakInv, Names, Running
<1> USE DEF ServerLeakInv, Step, kernel, call, contexts, history
<1>2. ASSUME \/ fdTable' = fdTable
             \/ \E fd : fdTable' = Closed(fdTable, fd),
             UNCHANGED <<boundTo, listening, address, svr_sock, mFd, destroyed,
                         abandoned, waitsOn>>,
             \A t \in Threads : pc'[t] \in {"listen", "assign"} => pc'[t] = pc[t]
      PROVE  ServerLeakInv'
  BY <1>1, <1>2, CloseLeak, QuietTable, UniqueKept
<1>3. ASSUME NEW t \in Threads, CallStart(t) \/ CheckStarted(t)
      PROVE  ServerLeakInv'
  BY <1>1, <1>2, <1>3 DEF CallStart, CheckStarted, TypeOK
<1>4. ASSUME NEW t \in Threads, PtonFails(t)
      PROVE  ServerLeakInv'
  BY <1>1, <1>4, GiveUpLeak, QuietTable, UniqueKept DEF PtonFails
<1>5. ASSUME NEW t \in Threads, SetUpStep(t)
      PROVE  ServerLeakInv'
  <2>1. destroyed' = destroyed
    BY <1>5 DEF SetUpStep, CreateSocket, NoSocket, Bind, Listen, SetupFails,
                AssignFd
  <2> QED
    BY <1>1, <1>5, <2>1, SetUpLeak, SetUpUnique
<1>6. ASSUME NEW t \in Threads, LoopStep(t)
      PROVE  ServerLeakInv'
  <2>1. destroyed' = destroyed
    BY <1>6 DEF LoopStep, LoadFd, AcceptWaits, AcceptRefused
  <2> QED
    BY <1>1, <1>6, <2>1, LoopLeak, QuietTable, UniqueKept
<1>7. ASSUME NEW t \in Threads, NEW to \in {"idle", "load"},
             NEW what \in Clients \cup {Free}, AcceptEnds(t, to, what),
             destroyed' = destroyed
      PROVE  ServerLeakInv'
  BY <1>1, <1>7, AcceptLeak, QuietTable, UniqueKept
<1>8. ASSUME NEW t \in Threads, AcceptAborts(t)
      PROVE  ServerLeakInv'
  BY <1>7, <1>8 DEF AcceptAborts
<1>9. ASSUME NEW t \in Threads, NEW c \in Clients,
             OptionFails(t, c) \/ Admit(t, c)
      PROVE  ServerLeakInv'
  BY <1>7, <1>9 DEF OptionFails, Admit
<1>10. ASSUME NEW c \in Clients, CloseContext(c)
       PROVE  ServerLeakInv'
  BY <1>2, <1>10 DEF CloseContext
<1>11. ASSUME NEW t \in Threads, StopCloses(t)
       PROVE  ServerLeakInv'
  BY <1>1, <1>2, <1>11 DEF StopCloses, CloseListener, TypeOK
<1>12. ASSUME NEW t \in Threads, StopResets(t)
       PROVE  ServerLeakInv'
  <2>1. PICK e \in Engines : e = EngineOf[t]
    BY EngineAssumption
  <2>2. /\ \A d \in Engines \ {e} : mFd'[d] = mFd[d]
        /\ \/ abandoned' = abandoned + 1
           \/ abandoned' = abandoned /\ ~IsOpen(fdTable, mFd[e])
        /\ UNCHANGED <<fdTable, boundTo, listening, waitsOn, address, svr_sock,
                       pc, destroyed>>
    BY <1>1, <1>12, <2>1 DEF StopResets, TypeOK
  <2> QED
    BY <1>1, <2>2, DropLeak, QuietTable, UniqueKept
<1>13. CASE UNCHANGED serverVars
  BY <1>2, <1>13 DEF serverVars, vars
<1> HIDE DEF ServerLeakInv, Step, kernel, call, contexts, history
<1> QED
  BY <1>3, <1>4, <1>5, <1>6, <1>8, <1>9, <1>10, <1>11, <1>12, <1>13, ServerSteps

(***************************************************************************)
(* Threads that race through start() and stop() of the older servers lose  *)
(* no listening descriptor but for those of a set-up that failed and of a  *)
(* reset that overtook start(), one each, if one thread stops each server. *)
(***************************************************************************)
THEOREM ServerLeakBound ==
  ASSUME OneStopper
  PROVE  ServerSpec => []LeakBound
<1> DEFINE I == ServerTypeOK /\ ServerNames
<1>1. ServerInit => ServerLeakInv
  BY InitLeak, EngineAssumption DEF ServerInit, ServerLeakInv, Init, UniqueName
<1>2. I /\ I' /\ ServerLeakInv /\ [ServerNext]_serverVars => ServerLeakInv'
  BY ServerLeak
<1>3. I /\ ServerLeakInv => LeakBound
  BY OrphansCounted DEF ServerLeakInv, LeakInv, ServerTypeOK, TypeOK
<1>4. ServerSpec => []I
  BY ServerNamesInvariant
<1> HIDE DEF I
<1> QED
  BY <1>1, <1>2, <1>3, <1>4, PTL DEF ServerSpec
=============================================================================
