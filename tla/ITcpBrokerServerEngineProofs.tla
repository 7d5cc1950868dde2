-------------------- MODULE ITcpBrokerServerEngineProofs --------------------
(***************************************************************************)
(* What holds for any number of engines, threads, clients and descriptors. *)
(* The older TcpServer is made of the same steps, so the lemmas are about  *)
(* groups of steps: the set-up of a listening socket, a turn of the accept *)
(* loop, the end of an accept().                                           *)
(***************************************************************************)
EXTENDS ITcpBrokerServerEngine, FiniteSetTheorems, TLAPS

SetUpStep(t) ==
  \/ CreateSocket(t)
  \/ NoSocket(t)
  \/ Bind(t)
  \/ Listen(t)
  \/ SetupFails(t)
  \/ AssignFd(t)

LoopStep(t) == LoadFd(t) \/ AcceptWaits(t) \/ AcceptRefused(t)

\* The calls that configure an engine or take it away.
ConfigureStep ==
  \/ \E t \in Threads : \/ \E f \in Fds : SetListeningSocket(t, f)
                        \/ \E a \in Addresses : SetListeningAddress(t, a)
  \/ \E e \in Engines : DestroyEngine(e)

\* stop() and restart() by one thread.
StopStep(t) == CallStop(t) \/ CallRestart(t)

-----------------------------------------------------------------------------
(***************************************************************************)
(* Types.                                                                  *)
(***************************************************************************)

\* The steps of the socket set-up.
LEMMA SetUpType ==
  ASSUME TypeOK, NEW t \in Threads, Protocol[EngineOf[t]] \in {"v4", "v6"},
         SetUpStep(t)
  PROVE  TypeOK'
<1> USE EngineAssumption, FdsAssumption
    DEF TypeOK, Number, Step, kernel, call, contexts, history
<1>1. CASE CreateSocket(t)
  <2>1. /\ fdTable' \in [Fds -> Clients \cup Listeners \cup {Free, Reserved}]
        /\ svr_sock' \in [Threads -> Number]
        /\ pc' = [pc EXCEPT ![t] = "bind"]
    BY <1>1 DEF CreateSocket, Unused
  <2>2. UNCHANGED <<boundTo, listening, mFd, address, lfd, waitsOn, reserved,
                    contexts, history>>
    BY <1>1 DEF CreateSocket
  <2> QED
    BY <2>1, <2>2
<1>2. CASE NoSocket(t)
  BY <1>2 DEF NoSocket
<1>3. CASE Bind(t)
  <2>1. SocketAddress(EngineOf[t]) \in {"v4", "v6"} \X Addresses
    BY DEF SocketAddress
  <2> QED
    BY <1>3, <2>1 DEF Bind
<1>4. CASE Listen(t)
  BY <1>4 DEF Listen
<1>5. CASE SetupFails(t)
  BY <1>5 DEF SetupFails
<1>6. CASE AssignFd(t)
  BY <1>6 DEF AssignFd
<1> QED
  BY <1>1, <1>2, <1>3, <1>4, <1>5, <1>6 DEF SetUpStep

\* A turn of the accept loop up to accept().
LEMMA LoopType ==
  ASSUME TypeOK, NEW t \in Threads, LoopStep(t)
  PROVE  TypeOK'
<1> USE EngineAssumption, FdsAssumption
    DEF TypeOK, Number, Step, kernel, call, contexts, history
<1>1. CASE LoadFd(t)
  BY <1>1 DEF LoadFd
<1>2. CASE AcceptWaits(t)
  BY <1>2 DEF AcceptWaits, IsOpen
<1>3. CASE AcceptRefused(t)
  BY <1>3 DEF AcceptRefused
<1> QED
  BY <1>1, <1>2, <1>3 DEF LoopStep

\* The end of an accept(), with or without a client.
LEMMA AcceptType ==
  ASSUME TypeOK, NEW t \in Threads, NEW to \in {"idle", "load"},
         NEW what \in Clients \cup {Free}, AcceptEnds(t, to, what),
         context' \in [Clients -> {"none", "v4", "v6", "other"}],
         mClientFd' \in [Clients -> Number],
         mSocketContextQueue' \in [Engines -> SUBSET Clients],
         destroyed' \subseteq Engines,
         late' \in [Threads \X Listeners -> Nat]
  PROVE  TypeOK'
BY EngineAssumption, FdsAssumption DEF AcceptEnds, TypeOK, Number, Step

\* A new client is counted and gets the number that accept() returns.
LEMMA AdmitType ==
  ASSUME TypeOK, NEW t \in Threads, NEW c \in Clients, Admit(t, c),
         mSocketContextQueue' \in [Engines -> SUBSET Clients]
  PROVE  TypeOK'
<1>1. late' \in [Threads \X Listeners -> Nat]
  BY DEF TypeOK, Admit
<1>2. context' \in [Clients -> {"none", "v4", "v6", "other"}]
  BY EngineAssumption DEF TypeOK, Admit
<1>3. /\ mClientFd' \in [Clients -> Number]
      /\ destroyed' \subseteq Engines
      /\ AcceptEnds(t, "load", c)
  BY DEF TypeOK, Admit
<1> QED
  BY <1>1, <1>2, <1>3, AcceptType

\* close() of any number.
LEMMA ClosedType ==
  ASSUME NEW table \in [Fds -> Clients \cup Listeners \cup {Free, Reserved}],
         NEW fd
  PROVE  Closed(table, fd) \in [Fds -> Clients \cup Listeners \cup {Free, Reserved}]
BY DEF Closed

\* A context that is closed.
LEMMA CloseContextType ==
  ASSUME TypeOK, NEW c \in Clients, CloseContext(c)
  PROVE  TypeOK'
BY ClosedType DEF CloseContext, TypeOK, Number, call, history

\* A listening descriptor that is closed.
LEMMA CloseListenerType ==
  ASSUME TypeOK, NEW e \in Engines, CloseListener(e),
         pc' \in [Threads -> {"idle", "check", "socket", "bind", "listen",
                             "assign", "load", "accept", "blocked"}]
  PROVE  TypeOK'
<1>1. Named(mFd[e]) \subseteq Listeners
  BY DEF Named, TypeOK
<1>2. stopped' \in [Engines -> SUBSET Listeners]
  BY <1>1 DEF CloseListener, NoteStop, TypeOK
<1>3. caught' \subseteq Threads \X Listeners
  BY <1>1 DEF CloseListener, NoteStop, TypeOK
<1>4. /\ fdTable' \in [Fds -> Clients \cup Listeners \cup {Free, Reserved}]
      /\ stops' \in [Engines -> 0..MaxStops]
  BY ClosedType, EngineAssumption DEF CloseListener, TypeOK
<1>5. UNCHANGED <<boundTo, listening, mFd, address, call, contexts,
                  starts, late, abandoned>>
  BY DEF CloseListener
<1> QED
  BY <1>2, <1>3, <1>4, <1>5 DEF TypeOK, call, contexts

\* The setters, and an accept loop that counts as stopped, keep every variable
\* in its type.
LEMMA ConfigureType ==
  ASSUME TypeOK, ConfigureStep
  PROVE  TypeOK'
<1> USE EngineAssumption, FdsAssumption
    DEF TypeOK, Number, kernel, call, contexts, history
<1>1. ASSUME NEW t \in Threads, NEW f \in Fds, SetListeningSocket(t, f)
      PROVE  TypeOK'
  BY <1>1 DEF SetListeningSocket
<1>2. ASSUME NEW t \in Threads, NEW a \in Addresses, SetListeningAddress(t, a)
      PROVE  TypeOK'
  BY <1>2 DEF SetListeningAddress
<1>3. ASSUME NEW e \in Engines, DestroyEngine(e)
      PROVE  TypeOK'
  BY <1>3 DEF DestroyEngine
<1> QED
  BY <1>1, <1>2, <1>3 DEF ConfigureStep

-----------------------------------------------------------------------------
(***************************************************************************)
(* The steps of the engine in these groups.                                *)
(***************************************************************************)
LEMMA NextSteps ==
  ASSUME Next
  PROVE  \/ \E t \in Threads :
              \/ EngineOf[t] \notin destroyed /\ (CallStart(t) \/ StopStep(t))
              \/ CheckFd(t) \/ SetUpStep(t) \/ LoopStep(t) \/ AcceptAborts(t)
              \/ \E c \in Clients : AcceptReturns(t, c)
         \/ \E c \in Clients : CloseContext(c)
         \/ ConfigureStep
<1>1. CASE \E t \in Threads : StartThread(t)
  BY <1>1 DEF StartThread, SetUpStep, LoopStep
<1>2. CASE \E t \in Threads : Caller(t)
  BY <1>2 DEF Caller, StopStep, ConfigureStep
<1>3. CASE \E t \in Threads : Network(t)
  BY <1>3 DEF Network
<1>4. CASE \E c \in Clients : WorkerEnds(c) \/ ReleaseContext(c)
  BY <1>4 DEF WorkerEnds, ReleaseContext
<1>5. CASE \E e \in Engines : DestroyEngine(e)
  BY <1>5 DEF ConfigureStep
<1> QED
  BY <1>1, <1>2, <1>3, <1>4, <1>5 DEF Next

\* Only an engine of a known protocol sets up a socket.
KnownProtocol ==
  \A t \in Threads :
    pc[t] \in {"socket", "bind", "listen", "assign"} =>
      Protocol[EngineOf[t]] \in {"v4", "v6"}

EngineInv == TypeOK /\ KnownProtocol

\* The type invariant and the protocol of each engine's socket hold in every
\* reachable state.
LEMMA EngineInvariant == Spec => []EngineInv
<1>1. Init => EngineInv
  BY EngineAssumption DEF Init, EngineInv, TypeOK, KnownProtocol, Number
<1>2. EngineInv /\ [Next]_vars => EngineInv'
  <2> SUFFICES ASSUME TypeOK, KnownProtocol, [Next]_vars
               PROVE  TypeOK' /\ KnownProtocol'
    BY DEF EngineInv
  <2>1. ASSUME NEW t \in Threads, CallStart(t)
        PROVE  TypeOK' /\ KnownProtocol'
    BY <2>1, EngineAssumption
    DEF CallStart, Step, TypeOK, KnownProtocol, Number, kernel, call, contexts
  <2>2. ASSUME NEW t \in Threads, CheckFd(t)
        PROVE  TypeOK' /\ KnownProtocol'
    BY <2>2, EngineAssumption
    DEF CheckFd, Step, TypeOK, KnownProtocol, kernel, call, contexts, history
  <2>3. ASSUME NEW t \in Threads, SetUpStep(t)
        PROVE  TypeOK' /\ KnownProtocol'
    <3>1. Protocol[EngineOf[t]] \in {"v4", "v6"}
      BY <2>3 DEF SetUpStep, CreateSocket, NoSocket, Bind, Listen, SetupFails,
                  AssignFd, Step, KnownProtocol
    <3>2. KnownProtocol'
      BY <2>3, <3>1 DEF SetUpStep, CreateSocket, NoSocket, Bind, Listen,
                        SetupFails, AssignFd, Step, KnownProtocol, TypeOK
    <3> QED
      BY <2>3, <3>1, <3>2, SetUpType
  <2>4. ASSUME NEW t \in Threads, LoopStep(t)
        PROVE  TypeOK' /\ KnownProtocol'
    <3>1. KnownProtocol'
      BY <2>4 DEF LoopStep, LoadFd, AcceptWaits, AcceptRefused, Step,
                  KnownProtocol, TypeOK
    <3> QED
      BY <2>4, <3>1, LoopType
  <2>5. ASSUME NEW t \in Threads, AcceptAborts(t)
        PROVE  TypeOK' /\ KnownProtocol'
    <3>1. KnownProtocol'
      BY <2>5 DEF AcceptAborts, AcceptEnds, Step, KnownProtocol, TypeOK
    <3> QED
      BY <2>5, <3>1, AcceptType DEF AcceptAborts, contexts, TypeOK
  <2>6. ASSUME NEW t \in Threads, NEW c \in Clients, AcceptReturns(t, c)
        PROVE  TypeOK' /\ KnownProtocol'
    <3>1. KnownProtocol'
      BY <2>6 DEF AcceptReturns, Admit, AcceptEnds, Step, KnownProtocol, TypeOK
    <3>2. mSocketContextQueue' \in [Engines -> SUBSET Clients]
      BY <2>6, EngineAssumption DEF AcceptReturns, TypeOK
    <3> QED
      BY <2>6, <3>1, <3>2, AdmitType DEF AcceptReturns
  <2>7. ASSUME NEW t \in Threads, StopStep(t)
        PROVE  TypeOK' /\ KnownProtocol'
    <3>1. CloseListener(EngineOf[t]) /\ EngineOf[t] \in Engines
      BY <2>7, EngineAssumption DEF StopStep, CallStop, CallRestart
    <3>2. pc' \in [Threads -> {"idle", "check", "socket", "bind", "listen",
                              "assign", "load", "accept", "blocked"}]
      BY <2>7 DEF StopStep, CallStop, CallRestart, Step, TypeOK
    <3>3. KnownProtocol'
      BY <2>7 DEF StopStep, CallStop, CallRestart, Step, KnownProtocol, TypeOK
    <3> QED
      BY <3>1, <3>2, <3>3, CloseListenerType
  <2>8. ASSUME NEW c \in Clients, CloseContext(c)
        PROVE  TypeOK' /\ KnownProtocol'
    BY <2>8, CloseContextType DEF CloseContext, KnownProtocol
  <2>9. CASE ConfigureStep
    <3>1. KnownProtocol'
      BY <2>9 DEF ConfigureStep, SetListeningSocket, SetListeningAddress,
                  DestroyEngine, KnownProtocol
    <3> QED
      BY <2>9, <3>1, ConfigureType
  <2>10. CASE UNCHANGED vars
    BY <2>10 DEF TypeOK, KnownProtocol, vars, kernel, call, contexts, history
  <2> QED
    BY <2>1, <2>2, <2>3, <2>4, <2>5, <2>6, <2>7, <2>8, <2>9, <2>10, NextSteps
<1> QED
  BY <1>1, <1>2, PTL DEF Spec

(***************************************************************************)
(* start(), stop(), restart(), the setters and the destructor keep every   *)
(* variable within its type, for any number of engines and threads: a      *)
(* descriptor variable names a number of the table or is INVALID_FD.       *)
(***************************************************************************)
THEOREM EngineTypeCorrect == Spec => []TypeOK
<1>1. EngineInv => TypeOK
  BY DEF EngineInv
<1> QED
  BY <1>1, EngineInvariant, PTL

-----------------------------------------------------------------------------
(***************************************************************************)
(* The sockets that stop() closed.                                         *)
(***************************************************************************)

\* A listening socket has at most one number.
UniqueName ==
  \A f, g \in Fds : fdTable[f] \in Listeners /\ fdTable[f] = fdTable[g] => f = g

\* A socket that stop() closed has no number, and socket() never creates it
\* again.
Gone ==
  \A e \in Engines : \A l \in stopped[e] :
    l \in listening /\ \A f \in Fds : fdTable[f] # l

\* A thread waits on such a socket only if stop() caught it there, and once it
\* took a client from it, it waits on it no more.
Spent ==
  \A t \in Threads, l \in Listeners :
    /\ late[<<t, l>>] <= 1
    /\ late[<<t, l>>] > 0 =>
         ClosedByStop(l) /\ l \notin waitsOn[t] /\ <<t, l>> \in caught
    /\ ClosedByStop(l) /\ l \in waitsOn[t] => <<t, l>> \in caught

LateInv == UniqueName /\ Gone /\ Spent

\* socket() puts a socket that was never used on a free number.
LEMMA NewSocket ==
  ASSUME NEW t \in Threads, CreateSocket(t)
  PROVE  \E f \in Fds, l \in Unused :
           /\ fdTable[f] = Free /\ fdTable' = [fdTable EXCEPT ![f] = l]
           /\ svr_sock' = [svr_sock EXCEPT ![t] = f]
BY DEF CreateSocket, IsLowestFree

\* The set-up brings no closed socket back.
LEMMA SetUpLate ==
  ASSUME TypeOK, LateInv, NEW t \in Threads, SetUpStep(t)
  PROVE  LateInv'
<1> USE EngineAssumption, FdsAssumption
    DEF LateInv, UniqueName, Gone, Spent, ClosedByStop, TypeOK,
        Step, kernel, call, contexts, history
<1>1. CASE CreateSocket(t)
  <2>1. PICK f \in Fds, l \in Unused :
          fdTable[f] = Free /\ fdTable' = [fdTable EXCEPT ![f] = l]
    BY <1>1, NewSocket
  <2>2. UNCHANGED <<listening, stopped, caught, late, waitsOn>>
    BY <1>1 DEF CreateSocket
  <2>3. l \in Listeners \ listening /\ \A g \in Fds : fdTable[g] # l
    BY <2>1 DEF Unused
  <2>4. UniqueName'
    BY <2>1, <2>3
  <2>5. Gone'
    BY <2>1, <2>2, <2>3
  <2>6. Spent'
    BY <2>2
  <2> QED
    BY <2>4, <2>5, <2>6
<1>2. CASE NoSocket(t)
  BY <1>2 DEF NoSocket
<1>3. CASE Bind(t)
  BY <1>3 DEF Bind
<1>4. CASE Listen(t)
  BY <1>4 DEF Listen
<1>5. CASE SetupFails(t)
  BY <1>5 DEF SetupFails
<1>6. CASE AssignFd(t)
  BY <1>6 DEF AssignFd
<1> QED
  BY <1>1, <1>2, <1>3, <1>4, <1>5, <1>6 DEF SetUpStep

\* A thread's steps through accept() keep the account of late clients: only
\* accepting one spends what the thread was waiting for.
LEMMA LoopLate ==
  ASSUME TypeOK, LateInv, NEW t \in Threads, LoopStep(t)
  PROVE  LateInv'
<1> USE EngineAssumption, FdsAssumption
    DEF LateInv, UniqueName, Gone, Spent, ClosedByStop, TypeOK,
        Step, kernel, call, contexts, history
<1>1. CASE LoadFd(t)
  BY <1>1 DEF LoadFd
<1>2. CASE AcceptWaits(t)
  <2>1. PICK f \in Fds : fdTable' = [fdTable EXCEPT ![f] = Reserved]
    BY <1>2 DEF AcceptWaits
  <2>2. /\ UNCHANGED <<listening, stopped, caught, late>>
        /\ lfd[t] \in Fds
        /\ waitsOn' = [waitsOn EXCEPT ![t] = {fdTable[lfd[t]]}]
    BY <1>2 DEF AcceptWaits, IsOpen
  <2>3. UniqueName' /\ Gone'
    BY <2>1, <2>2
  <2>4. ~ClosedByStop(fdTable[lfd[t]])
    BY <2>2
  <2>5. Spent'
    BY <2>2, <2>4
  <2> QED
    BY <2>3, <2>5
<1>3. CASE AcceptRefused(t)
  BY <1>3 DEF AcceptRefused
<1> QED
  BY <1>1, <1>2, <1>3 DEF LoopStep

\* The end of an accept() that counts its late client, if it has one.
LEMMA AcceptLate ==
  ASSUME TypeOK, LateInv, NEW t \in Threads, NEW to,
         NEW what \in Clients \cup {Free}, AcceptEnds(t, to, what),
         \A u \in Threads, l \in Listeners :
           late'[<<u, l>>] =
             IF u = t /\ l \in waitsOn[t] /\ ClosedByStop(l) /\ what # Free
             THEN late[<<u, l>>] + 1 ELSE late[<<u, l>>]
  PROVE  LateInv'
<1>1. /\ UNCHANGED <<listening, stopped, caught>>
      /\ waitsOn' = [waitsOn EXCEPT ![t] = {}]
      /\ fdTable' = [fdTable EXCEPT ![reserved[t]] = what]
  BY DEF AcceptEnds
<1>2. what \notin Listeners
  BY EngineAssumption
<1>3. UniqueName' /\ Gone'
  BY <1>1, <1>2 DEF LateInv, UniqueName, Gone, TypeOK
<1>4. Spent'
  <2> SUFFICES ASSUME NEW u \in Threads, NEW l \in Listeners
               PROVE  /\ late'[<<u, l>>] <= 1
                      /\ late'[<<u, l>>] > 0 =>
                           /\ ClosedByStop(l)' /\ l \notin waitsOn'[u]
                           /\ <<u, l>> \in caught'
                      /\ ClosedByStop(l)' /\ l \in waitsOn'[u] =>
                           <<u, l>> \in caught'
    BY DEF Spent
  <2>1. /\ late[<<u, l>>] \in Nat /\ late[<<u, l>>] <= 1
        /\ late[<<u, l>>] > 0 =>
             ClosedByStop(l) /\ l \notin waitsOn[u] /\ <<u, l>> \in caught
        /\ ClosedByStop(l) /\ l \in waitsOn[u] => <<u, l>> \in caught
    BY DEF LateInv, Spent, TypeOK
  <2>2. ClosedByStop(l)' <=> ClosedByStop(l)
    BY <1>1 DEF ClosedByStop
  <2>3. waitsOn'[u] = IF u = t THEN {} ELSE waitsOn[u]
    BY <1>1 DEF TypeOK
  <2> QED
    BY <1>1, <2>1, <2>2, <2>3
<1> QED
  BY <1>3, <1>4 DEF LateInv

\* What close() of any number leaves of the listening sockets.
LEMMA ClosedNames ==
  ASSUME TypeOK, NEW fd, fdTable' = Closed(fdTable, fd)
  PROVE  /\ \A f \in Fds : fdTable'[f] \in {fdTable[f], Free}
         /\ fd \in Fds /\ fdTable[fd] \in Clients \cup Listeners =>
              fdTable'[fd] = Free
         /\ \A f \in Fds : f # fd => fdTable'[f] = fdTable[f]
BY EngineAssumption DEF Closed, IsOpen

\* Closing a listening socket puts it among the stopped ones, whose number no
\* descriptor names any more.
LEMMA CloseListenerLate ==
  ASSUME TypeOK, LateInv, NEW e \in Engines, CloseListener(e)
  PROVE  LateInv'
<1>1. /\ fdTable' = Closed(fdTable, mFd[e])
      /\ stopped' = [stopped EXCEPT ![e] = @ \cup Named(mFd[e])]
      /\ caught' = caught \cup {p \in Threads \X Named(mFd[e]) : p[2] \in waitsOn[p[1]]}
      /\ UNCHANGED <<listening, late, waitsOn>>
  BY DEF CloseListener, NoteStop, call
<1>2. UniqueName'
  BY <1>1, ClosedNames, EngineAssumption DEF LateInv, UniqueName, TypeOK
<1>3. Gone'
  <2> SUFFICES ASSUME NEW d \in Engines, NEW l \in stopped'[d]
               PROVE  l \in listening /\ \A f \in Fds : fdTable'[f] # l
    BY <1>1 DEF Gone
  <2>1. CASE l \in stopped[d]
    BY <2>1, <1>1, ClosedNames, EngineAssumption DEF LateInv, Gone, TypeOK
  <2>2. CASE l \in Named(mFd[e])
    <3>1. l \in listening /\ l \in Listeners /\ mFd[e] \in Fds
          /\ fdTable[mFd[e]] = l
      BY <2>2 DEF Named, TypeOK
    <3>2. fdTable'[mFd[e]] = Free
      BY <3>1, <1>1, ClosedNames
    <3> QED
      BY <3>1, <3>2, <1>1, ClosedNames, EngineAssumption
      DEF LateInv, UniqueName
  <2> QED
    BY <2>1, <2>2, <1>1 DEF TypeOK
<1>4. Spent'
  <2> SUFFICES ASSUME NEW t \in Threads, NEW l \in Listeners
               PROVE  /\ late[<<t, l>>] <= 1
                      /\ late[<<t, l>>] > 0 =>
                           /\ ClosedByStop(l)' /\ l \notin waitsOn[t]
                           /\ <<t, l>> \in caught'
                      /\ ClosedByStop(l)' /\ l \in waitsOn[t] =>
                           <<t, l>> \in caught'
    BY <1>1 DEF Spent
  <2>1. ClosedByStop(l) => ClosedByStop(l)'
    BY <1>1 DEF ClosedByStop, TypeOK
  <2>2. ClosedByStop(l)' => ClosedByStop(l) \/ l \in Named(mFd[e])
    BY <1>1 DEF ClosedByStop, TypeOK
  <2>3. l \in Named(mFd[e]) /\ l \in waitsOn[t] => <<t, l>> \in caught'
    BY <1>1
  <2> QED
    BY <1>1, <2>1, <2>2, <2>3 DEF LateInv, Spent
<1> QED
  BY <1>2, <1>3, <1>4 DEF LateInv

\* The account of late clients holds in every reachable state.
LEMMA LateInvariant == Spec => [](EngineInv /\ LateInv)
<1>1. Init => LateInv
  BY EngineAssumption
  DEF Init, LateInv, UniqueName, Gone, Spent, ClosedByStop
<1>2. EngineInv /\ LateInv /\ [Next]_vars => LateInv'
  <2> SUFFICES ASSUME TypeOK, LateInv, [Next]_vars
               PROVE  LateInv'
    BY DEF EngineInv
  <2>1. ASSUME UNCHANGED <<listening, stopped, caught, late, waitsOn, fdTable>>
        PROVE  LateInv'
    BY <2>1 DEF LateInv, UniqueName, Gone, Spent, ClosedByStop
  <2>2. ASSUME NEW t \in Threads, CallStart(t) \/ CheckFd(t)
        PROVE  LateInv'
    BY <2>1, <2>2 DEF CallStart, CheckFd, kernel, call, history
  <2>3. ASSUME NEW t \in Threads, AcceptAborts(t)
        PROVE  LateInv'
    <3>1. AcceptEnds(t, "idle", Free) /\ UNCHANGED late
      BY <2>3 DEF AcceptAborts
    <3> QED
      BY <3>1, AcceptLate
  <2>4. ASSUME NEW t \in Threads, NEW c \in Clients, AcceptReturns(t, c)
        PROVE  LateInv'
    <3>1. AcceptEnds(t, "load", c)
      BY <2>4 DEF AcceptReturns, Admit
    <3>2. c # Free
      BY EngineAssumption
    <3>3. \A u \in Threads, l \in Listeners :
            late'[<<u, l>>] =
              IF u = t /\ l \in waitsOn[t] /\ ClosedByStop(l) /\ c # Free
              THEN late[<<u, l>>] + 1 ELSE late[<<u, l>>]
      BY <2>4, <3>2 DEF AcceptReturns, Admit
    <3> QED
      BY <3>1, <3>3, AcceptLate
  <2>5. ASSUME NEW t \in Threads, StopStep(t)
        PROVE  LateInv'
    BY <2>5, CloseListenerLate, EngineAssumption
    DEF StopStep, CallStop, CallRestart
  <2>6. ASSUME NEW c \in Clients, CloseContext(c)
        PROVE  LateInv'
    <3>1. /\ fdTable' = Closed(fdTable, mClientFd[c])
          /\ UNCHANGED <<listening, stopped, caught, late, waitsOn>>
      BY <2>6 DEF CloseContext, call, history
    <3>2. \A f \in Fds : fdTable'[f] \in {fdTable[f], Free}
      BY <3>1, ClosedNames
    <3> QED
      BY <3>1, <3>2, EngineAssumption
      DEF LateInv, UniqueName, Gone, Spent, ClosedByStop, TypeOK
  <2>7. CASE ConfigureStep
    BY <2>1, <2>7 DEF ConfigureStep, SetListeningSocket, SetListeningAddress,
                      DestroyEngine, kernel, call, history
  <2>8. CASE UNCHANGED vars
    BY <2>1, <2>8 DEF vars, kernel, call, history
  <2> QED
    BY <2>2, <2>3, <2>4, <2>5, <2>6, <2>7, <2>8, NextSteps, SetUpLate, LoopLate
<1>3. Spec => []EngineInv
  BY EngineInvariant
<1> QED
  BY <1>1, <1>2, <1>3, PTL DEF Spec

(***************************************************************************)
(* However many threads race through start(), stop() and restart() of      *)
(* however many engines, a listening socket that stop() closed comes to    *)
(* its end: each thread that waited on it at that moment lets in at most   *)
(* one more client, and every other thread lets in none.                   *)
(***************************************************************************)
THEOREM StoppedSocketEnds == Spec => []LateClients
<1>1. EngineInv /\ LateInv => LateClients
  <2> SUFFICES ASSUME TypeOK, Spent, NEW t \in Threads, NEW l \in Listeners
               PROVE  late[<<t, l>>] <= IF <<t, l>> \in caught THEN 1 ELSE 0
    BY DEF EngineInv, LateInv, LateClients
  <2>1. late[<<t, l>>] \in Nat
    BY DEF TypeOK
  <2> QED
    BY <2>1 DEF Spent
<1> QED
  BY <1>1, LateInvariant, PTL

-----------------------------------------------------------------------------
(***************************************************************************)
(* Who names which number.  L is the set of the engines whose mFd can be   *)
(* relied on: not stopped yet, nor handed the socket of another engine.    *)
(***************************************************************************)
HoldsSocket == {"bind", "listen", "assign"}

\* A thread that sets up a socket has its number to itself.
SetUpNames ==
  \A t \in Threads :
    /\ svr_sock[t] # INVALID_FD => pc[t] \in HoldsSocket
    /\ pc[t] \in HoldsSocket =>
         /\ svr_sock[t] \in Fds
         /\ fdTable[svr_sock[t]] \in Listeners
         /\ \A u \in Threads : svr_sock[u] = svr_sock[t] => u = t

\* mFd names a socket of this engine only.
EngineNames(L) ==
  \A e \in L :
    mFd[e] # INVALID_FD =>
      /\ fdTable[mFd[e]] \in Listeners
      /\ \A t \in Threads : svr_sock[t] # mFd[e]
      /\ \A d \in L : mFd[d] = mFd[e] => d = e

\* An accept() that waits has its number to itself.
AcceptNames ==
  \A t \in Threads :
    pc[t] = "blocked" =>
      /\ reserved[t] \in Fds
      /\ fdTable[reserved[t]] = Reserved
      /\ \A u \in Threads : pc[u] = "blocked" /\ reserved[u] = reserved[t] => u = t

\* The number of a context and the entry of the table name each other.
ContextNames ==
  /\ \A c \in Clients :
       mClientFd[c] # INVALID_FD =>
         context[c] # "none" /\ fdTable[mClientFd[c]] = c
  /\ \A c \in Clients, f \in Fds : fdTable[f] = c => mClientFd[c] = f

Names(L) == SetUpNames /\ EngineNames(L) /\ AcceptNames /\ ContextNames

Untouched == UNCHANGED <<connectionStatus, connectionTable>>

\* At the start nothing is named.
LEMMA InitNaming ==
  ASSUME Init, NEW L \in SUBSET Engines
  PROVE  Names(L)
BY EngineAssumption
DEF Init, Names, SetUpNames, EngineNames, AcceptNames, ContextNames, HoldsSocket

\* At the start there is no connection.
LEMMA InitLifecycle ==
  ASSUME Init
  PROVE  Lifecycle!LifecycleInit
BY EngineAssumption
DEF Init, Lifecycle!LifecycleInit, Lifecycle!Free, Free, connectionStatus,
    connectionTable

\* A step that changes no entry of a client.
LEMMA NoClientTouched ==
  ASSUME UNCHANGED <<context, mClientFd>>,
         \A f \in Fds : \/ fdTable'[f] = fdTable[f]
                        \/ fdTable[f] \notin Clients /\ fdTable'[f] \notin Clients
  PROVE  Untouched
BY DEF Untouched, connectionStatus, connectionTable

\* The numbers of listening sockets and of clients are not INVALID_FD.
LEMMA InvalidNumber == INVALID_FD \notin Fds
BY FdsAssumption DEF INVALID_FD

\* start() and a failing start() touch no client: the number a start holds is
\* its own, and free or a listening socket's when it closes it.
LEMMA SetUpNaming ==
  ASSUME TypeOK, NEW L \in SUBSET Engines, Names(L),
         NEW t \in Threads, SetUpStep(t)
  PROVE  Names(L)' /\ Untouched
<1> USE EngineAssumption, InvalidNumber
    DEF TypeOK, Number, Names, SetUpNames, EngineNames, AcceptNames,
        ContextNames, HoldsSocket, Step, kernel, call, contexts, history
<1>1. CASE CreateSocket(t)
  <2>1. PICK f \in Fds, l \in Unused :
          /\ fdTable[f] = Free /\ fdTable' = [fdTable EXCEPT ![f] = l]
          /\ svr_sock' = [svr_sock EXCEPT ![t] = f]
    BY <1>1, NewSocket
  <2>2. /\ l \in Listeners /\ l # Reserved /\ l \notin Clients
        /\ Free \notin Listeners \cup Clients \cup {Reserved}
    BY DEF Unused, Free, Reserved
  <2>3. /\ pc[t] = "socket" /\ pc' = [pc EXCEPT ![t] = "bind"]
        /\ UNCHANGED <<mFd, reserved, context, mClientFd>>
    BY <1>1 DEF CreateSocket
  <2>4. SetUpNames'
    BY <2>1, <2>2, <2>3
  <2>5. EngineNames(L)'
    BY <2>1, <2>2, <2>3
  <2>6. AcceptNames'
    BY <2>1, <2>2, <2>3
  <2>7. ContextNames'
    BY <2>1, <2>2, <2>3
  <2>8. Untouched
    BY <2>1, <2>2, <2>3, NoClientTouched
  <2> QED
    BY <2>4, <2>5, <2>6, <2>7, <2>8
<1>2. ASSUME UNCHANGED <<fdTable, mClientFd, context, mFd, reserved>>,
             pc[t] \notin {"blocked"}, NEW to \in {"idle", "listen", "assign"},
             pc' = [pc EXCEPT ![t] = to],
             \/ to = "idle" /\ svr_sock' = [svr_sock EXCEPT ![t] = INVALID_FD]
             \/ to # "idle" /\ svr_sock' = svr_sock /\ pc[t] \in HoldsSocket
      PROVE  Names(L)' /\ Untouched
  <2>1. SetUpNames'
    BY <1>2
  <2>2. EngineNames(L)'
    BY <1>2
  <2>3. AcceptNames' /\ ContextNames'
    BY <1>2
  <2>4. Untouched
    BY <1>2, NoClientTouched
  <2> QED
    BY <2>1, <2>2, <2>3, <2>4
<1>3. CASE NoSocket(t)
  <2>1. svr_sock[t] = INVALID_FD
    BY <1>3 DEF NoSocket
  <2>2. svr_sock' = [svr_sock EXCEPT ![t] = INVALID_FD]
    BY <1>3, <2>1 DEF NoSocket
  <2> QED
    BY <1>2, <1>3, <2>2 DEF NoSocket
<1>4. CASE Bind(t)
  BY <1>2, <1>4 DEF Bind
<1>5. CASE Listen(t)
  BY <1>2, <1>5 DEF Listen
<1>6. CASE SetupFails(t)
  BY <1>2, <1>6 DEF SetupFails
<1>7. CASE AssignFd(t)
  <2>1. /\ pc[t] = "assign" /\ pc' = [pc EXCEPT ![t] = "load"]
        /\ mFd' = [mFd EXCEPT ![EngineOf[t]] = svr_sock[t]]
        /\ svr_sock' = [svr_sock EXCEPT ![t] = INVALID_FD]
        /\ UNCHANGED <<fdTable, reserved, context, mClientFd>>
    BY <1>7 DEF AssignFd
  <2>2. SetUpNames'
    BY <2>1
  <2>3. EngineNames(L)'
    BY <2>1
  <2>4. AcceptNames' /\ ContextNames'
    BY <2>1
  <2>5. Untouched
    BY <2>1, NoClientTouched
  <2> QED
    BY <2>2, <2>3, <2>4, <2>5
<1> QED
  BY <1>1, <1>3, <1>4, <1>5, <1>6, <1>7 DEF SetUpStep

\* The loop takes numbers of its own.
LEMMA LoopNaming ==
  ASSUME TypeOK, NEW L \in SUBSET Engines, Names(L),
         NEW t \in Threads, LoopStep(t)
  PROVE  Names(L)' /\ Untouched
<1> USE EngineAssumption, InvalidNumber
    DEF TypeOK, Number, Names, SetUpNames, EngineNames, AcceptNames,
        ContextNames, HoldsSocket, Step, kernel, call, contexts, history
<1>1. ASSUME UNCHANGED <<fdTable, mClientFd, context, mFd, reserved, svr_sock>>,
             pc[t] \in {"load", "accept"}, NEW to \in {"accept", "idle"},
             pc' = [pc EXCEPT ![t] = to]
      PROVE  Names(L)' /\ Untouched
  BY <1>1, NoClientTouched
<1>2. CASE LoadFd(t)
  BY <1>1, <1>2 DEF LoadFd
<1>3. CASE AcceptRefused(t)
  BY <1>1, <1>3 DEF AcceptRefused
<1>4. CASE AcceptWaits(t)
  <2>1. PICK f \in Fds :
          /\ fdTable[f] = Free /\ fdTable' = [fdTable EXCEPT ![f] = Reserved]
          /\ reserved' = [reserved EXCEPT ![t] = f]
    BY <1>4 DEF AcceptWaits, IsLowestFree
  <2>2. /\ {Free, Reserved} \cap (Listeners \cup Clients) = {}
        /\ Free # Reserved
    BY DEF Free, Reserved
  <2>3. /\ pc[t] = "accept" /\ pc' = [pc EXCEPT ![t] = "blocked"]
        /\ UNCHANGED <<mFd, svr_sock, context, mClientFd>>
    BY <1>4 DEF AcceptWaits
  <2>4. SetUpNames' /\ EngineNames(L)'
    BY <2>1, <2>2, <2>3
  <2>5. AcceptNames'
    BY <2>1, <2>2, <2>3
  <2>6. ContextNames' /\ Untouched
    BY <2>1, <2>2, <2>3, NoClientTouched
  <2> QED
    BY <2>4, <2>5, <2>6
<1> QED
  BY <1>2, <1>3, <1>4 DEF LoopStep

\* accept() ends without a client.
LEMMA AbortNaming ==
  ASSUME TypeOK, NEW L \in SUBSET Engines, Names(L),
         NEW t \in Threads, AcceptAborts(t)
  PROVE  Names(L)' /\ Untouched
<1>1. /\ pc[t] = "blocked" /\ pc' = [pc EXCEPT ![t] = "idle"]
      /\ fdTable' = [fdTable EXCEPT ![reserved[t]] = Free]
      /\ reserved' = [reserved EXCEPT ![t] = INVALID_FD]
      /\ UNCHANGED <<mFd, svr_sock, context, mClientFd>>
  BY DEF AcceptAborts, AcceptEnds, Step, contexts
<1>2. /\ {Free, Reserved} \cap (Listeners \cup Clients) = {}
      /\ Free # Reserved
  BY EngineAssumption DEF Free, Reserved
<1> USE EngineAssumption, InvalidNumber
    DEF TypeOK, Number, Names, SetUpNames, EngineNames, AcceptNames,
        ContextNames, HoldsSocket
<1>3. SetUpNames' /\ EngineNames(L)'
  BY <1>1, <1>2
<1>4. AcceptNames'
  BY <1>1, <1>2
<1>5. ContextNames' /\ Untouched
  BY <1>1, <1>2, NoClientTouched
<1> QED
  BY <1>3, <1>4, <1>5

\* accept() ends with a client, whose descriptor something takes charge of.
LEMMA OpenNaming ==
  ASSUME TypeOK, NEW L \in SUBSET Engines, Names(L),
         NEW t \in Threads, NEW to \in {"idle", "load"}, NEW c \in Clients,
         AcceptEnds(t, to, c), context[c] = "none",
         NEW kind \in {"v4", "v6", "other"},
         context' = [context EXCEPT ![c] = kind],
         mClientFd' = [mClientFd EXCEPT ![c] = reserved[t]]
  PROVE  Names(L)' /\ Lifecycle!OpenConnection(c)
<1>1. /\ pc[t] = "blocked" /\ pc' = [pc EXCEPT ![t] = to]
      /\ fdTable' = [fdTable EXCEPT ![reserved[t]] = c]
      /\ reserved' = [reserved EXCEPT ![t] = INVALID_FD]
      /\ UNCHANGED <<mFd, svr_sock>>
  BY DEF AcceptEnds, Step
<1>2. /\ {Free, Reserved} \cap (Listeners \cup Clients) = {}
      /\ Clients \cap Listeners = {} /\ Free # Reserved
  BY EngineAssumption DEF Free, Reserved
<1>3. PICK f \in Fds : /\ reserved[t] = f /\ fdTable[f] = Reserved
                       /\ f # INVALID_FD
  BY <1>1, InvalidNumber DEF Names, AcceptNames
<1> USE EngineAssumption, InvalidNumber
    DEF TypeOK, Number, Names, SetUpNames, EngineNames, AcceptNames,
        ContextNames, HoldsSocket
<1>4. SetUpNames' /\ EngineNames(L)'
  BY <1>1, <1>2, <1>3
<1>5. AcceptNames'
  BY <1>1, <1>2, <1>3
<1>6. mClientFd[c] = INVALID_FD
  BY DEF Names, ContextNames
<1>7. ContextNames'
  BY <1>1, <1>2, <1>3, <1>6
<1>8. \A g \in Fds : fdTable'[g] = IF g = f THEN c ELSE fdTable[g]
  BY <1>1, <1>3
<1>9. Names(L)'
  BY <1>4, <1>5, <1>7
<1> HIDE DEF TypeOK, Number, Names, SetUpNames, EngineNames, AcceptNames,
             ContextNames, HoldsSocket
<1>10. connectionStatus[c] = "absent"
  BY DEF connectionStatus
<1>11. \A d \in Clients : d # c => /\ context'[d] = context[d]
                                  /\ mClientFd'[d] = mClientFd[d]
  OBVIOUS
<1>12. context'[c] # "none" /\ mClientFd'[c] = f
  BY <1>3 DEF TypeOK
<1>13. connectionStatus' = [connectionStatus EXCEPT ![c] = "open"]
  BY <1>3, <1>11, <1>12 DEF connectionStatus
<1>14. connectionTable[f] = Free
  BY <1>2, <1>3 DEF connectionTable
<1>15. connectionTable' = [connectionTable EXCEPT ![f] = c]
  BY <1>3, <1>8 DEF connectionTable
<1> QED
  BY <1>9, <1>10, <1>13, <1>14, <1>15
  DEF Lifecycle!OpenConnection, Lifecycle!Free, Free

\* A context closes its own connection and no other.
LEMMA CloseContextNaming ==
  ASSUME TypeOK, NEW L \in SUBSET Engines, Names(L),
         NEW c \in Clients, CloseContext(c)
  PROVE  Names(L)' /\ Lifecycle!CloseConnection(c)
<1>1. PICK f \in Fds : mClientFd[c] = f /\ fdTable[f] = c
  BY DEF CloseContext, TypeOK, Number, Names, ContextNames
<1>2. /\ {Free, Reserved} \cap (Listeners \cup Clients) = {}
      /\ Clients \cap Listeners = {} /\ Free # Reserved
  BY EngineAssumption DEF Free, Reserved
<1>3. fdTable' = [fdTable EXCEPT ![f] = Free]
  BY <1>1, <1>2 DEF CloseContext, Closed, IsOpen, TypeOK
<1>4. /\ mClientFd' = [mClientFd EXCEPT ![c] = INVALID_FD]
      /\ UNCHANGED <<mFd, svr_sock, reserved, pc, context>>
      /\ mClientFd[c] # INVALID_FD
  BY DEF CloseContext, call
<1> USE EngineAssumption, InvalidNumber
    DEF TypeOK, Number, Names, SetUpNames, EngineNames, AcceptNames,
        ContextNames, HoldsSocket
<1>5. SetUpNames' /\ EngineNames(L)'
  BY <1>1, <1>2, <1>3, <1>4
<1>6. AcceptNames' /\ ContextNames'
  BY <1>1, <1>2, <1>3, <1>4
<1>7. \A g \in Fds : fdTable'[g] = IF g = f THEN Free ELSE fdTable[g]
  BY <1>3
<1>8. context[c] # "none" /\ mClientFd'[c] = INVALID_FD
  BY <1>4
<1>9. Names(L)'
  BY <1>5, <1>6
<1> HIDE DEF TypeOK, Number, Names, SetUpNames, EngineNames, AcceptNames,
             ContextNames, HoldsSocket
<1>10. connectionStatus[c] = "open"
  BY <1>4, <1>8 DEF connectionStatus
<1>11. connectionStatus' = [connectionStatus EXCEPT ![c] = "closed"]
  BY <1>4, <1>8 DEF connectionStatus, TypeOK
<1>12. connectionTable[f] = c
  BY <1>1 DEF connectionTable
<1>13. connectionTable' = [connectionTable EXCEPT ![f] = Free]
  BY <1>2, <1>7 DEF connectionTable
<1> QED
  BY <1>9, <1>10, <1>11, <1>12, <1>13
  DEF Lifecycle!CloseConnection, Lifecycle!Free, Free

\* Closing the listening descriptor of an engine that can be relied on.
LEMMA CloseListenerNaming ==
  ASSUME TypeOK, NEW L \in SUBSET Engines, Names(L),
         NEW e \in L, CloseListener(e), NEW t \in Threads, NEW to \in {"idle", "check"},
         Step(t, "idle", to)
  PROVE  Names(L \ {e})' /\ Untouched
<1>1. /\ {Free, Reserved} \cap (Listeners \cup Clients) = {}
      /\ Clients \cap Listeners = {} /\ Free # Reserved
  BY EngineAssumption DEF Free, Reserved
<1>2. /\ fdTable' = Closed(fdTable, mFd[e])
      /\ UNCHANGED <<mFd, svr_sock, reserved, context, mClientFd>>
      /\ pc[t] = "idle" /\ pc' = [pc EXCEPT ![t] = to]
  BY DEF CloseListener, Step, call, contexts
<1> USE EngineAssumption, InvalidNumber
    DEF TypeOK, Number, Names, SetUpNames, EngineNames, AcceptNames,
        ContextNames, HoldsSocket
<1>3. CASE mFd[e] = INVALID_FD
  <2>1. fdTable' = fdTable
    BY <1>2, <1>3 DEF Closed
  <2> QED
    BY <1>2, <2>1, NoClientTouched
<1>4. CASE mFd[e] # INVALID_FD
  <2>1. mFd[e] \in Fds /\ fdTable[mFd[e]] \in Listeners
    BY <1>4
  <2>2. fdTable' = [fdTable EXCEPT ![mFd[e]] = Free]
    BY <1>1, <1>2, <2>1 DEF Closed, IsOpen
  <2>3. SetUpNames'
    BY <1>1, <1>2, <2>1, <2>2
  <2>4. EngineNames(L \ {e})'
    BY <1>1, <1>2, <2>1, <2>2
  <2>5. AcceptNames' /\ ContextNames'
    BY <1>1, <1>2, <2>1, <2>2
  <2>6. Untouched
    BY <1>1, <1>2, <2>1, <2>2, NoClientTouched
  <2> QED
    BY <2>3, <2>4, <2>5, <2>6
<1> QED
  BY <1>3, <1>4

\* A call or a test that changes no number.
LEMMA QuietNaming ==
  ASSUME TypeOK, NEW L \in SUBSET Engines, Names(L),
         UNCHANGED <<fdTable, mFd, svr_sock, reserved, context, mClientFd>>,
         \/ pc' = pc
         \/ \E t \in Threads, from, to \in {"idle", "check", "socket", "load"} :
              Step(t, from, to)
  PROVE  Names(L)' /\ Untouched
BY NoClientTouched
DEF TypeOK, Names, SetUpNames, EngineNames, AcceptNames, ContextNames,
    HoldsSocket, Step

-----------------------------------------------------------------------------
(***************************************************************************)
(* The connections, until an engine is stopped a second time.              *)
(***************************************************************************)
StoppedAtMostOnce == \A e \in Engines : stops[e] <= 1

\* setListeningSocket() gives two engines one socket, after which even a
\* first stop() closes a number that the other one has given up.
SettersApart == \A t \in Setters, u \in Stoppers : EngineOf[t] # EngineOf[u]

NamesInv == StoppedAtMostOnce => Names(Reliable)

\* Until an engine is stopped twice, every step keeps the names of the reliable
\* engines and is a step of the lifecycle or leaves the connections alone.
LEMMA EngineNaming ==
  ASSUME SettersApart, TypeOK, NamesInv, [Next]_vars, StoppedAtMostOnce'
  PROVE  /\ StoppedAtMostOnce
         /\ Names(Reliable)'
         /\ Lifecycle!LifecycleNext \/ Untouched
<1>1. StoppedAtMostOnce /\ \A e \in Engines : stops[e] \in Nat /\ stops'[e] >= stops[e]
  <2>1. ASSUME NEW t \in Threads, StopStep(t)
        PROVE  \A e \in Engines : stops[e] \in Nat /\ stops'[e] >= stops[e]
    BY <2>1, EngineAssumption
    DEF StopStep, CallStop, CallRestart, CloseListener, TypeOK
  <2>2. ASSUME stops' = stops
        PROVE  \A e \in Engines : stops[e] \in Nat /\ stops'[e] >= stops[e]
    BY <2>2, EngineAssumption DEF TypeOK
  <2>3. \/ stops' = stops \/ \E t \in Threads : StopStep(t)
    <3> USE DEF kernel, call, contexts, history
    <3>1. ASSUME NEW t \in Threads, CallStart(t) \/ CheckFd(t)
          PROVE  stops' = stops
      BY <3>1 DEF CallStart, CheckFd
    <3>2. ASSUME NEW t \in Threads, SetUpStep(t) \/ LoopStep(t)
          PROVE  stops' = stops
      BY <3>2 DEF SetUpStep, CreateSocket, NoSocket, Bind, Listen, SetupFails,
                  AssignFd, LoopStep, LoadFd, AcceptWaits, AcceptRefused
    <3>3. ASSUME NEW t \in Threads,
                 AcceptAborts(t) \/ \E c \in Clients : AcceptReturns(t, c)
          PROVE  stops' = stops
      BY <3>3 DEF AcceptAborts, AcceptReturns, Admit, AcceptEnds
    <3>4. ASSUME NEW c \in Clients, CloseContext(c) PROVE stops' = stops
      BY <3>4 DEF CloseContext
    <3>5. CASE ConfigureStep
      BY <3>5 DEF ConfigureStep, SetListeningSocket, SetListeningAddress,
                  DestroyEngine
    <3>6. CASE UNCHANGED vars
      BY <3>6 DEF vars
    <3> QED
      BY <3>1, <3>2, <3>3, <3>4, <3>5, <3>6, NextSteps
  <2>4. \A e \in Engines : stops[e] \in Nat /\ stops'[e] >= stops[e]
    BY <2>1, <2>2, <2>3
  <2>5. \A e \in Engines : stops'[e] \in Int
    <3>1. ASSUME NEW t \in Threads, StopStep(t)
          PROVE  \A e \in Engines : stops'[e] \in Int
      BY <3>1, EngineAssumption
      DEF StopStep, CallStop, CallRestart, CloseListener, TypeOK
    <3> QED
      BY <2>3, <2>4, <3>1
  <2> QED
    BY <2>4, <2>5 DEF StoppedAtMostOnce
<1>2. PICK L \in SUBSET Engines : L = Reliable
  BY DEF Reliable
<1>3. Names(L)
  BY <1>1, <1>2 DEF NamesInv
<1>4. ASSUME stops' = stops, Names(L)'
      PROVE  Names(Reliable)'
  BY <1>2, <1>4 DEF Names, EngineNames, Reliable
<1>5. ASSUME NEW t \in Threads, CallStart(t) \/ CheckFd(t)
      PROVE  Names(Reliable)' /\ Untouched
  <2>1. /\ UNCHANGED <<fdTable, mFd, svr_sock, reserved, context, mClientFd>>
        /\ stops' = stops
        /\ \E from, to \in {"idle", "check", "socket", "load"} : Step(t, from, to)
    BY <1>5 DEF CallStart, CheckFd, kernel, call, contexts, history
  <2> QED
    BY <2>1, <1>3, <1>4, QuietNaming
<1>6. ASSUME NEW t \in Threads, SetUpStep(t) \/ LoopStep(t)
      PROVE  Names(Reliable)' /\ Untouched
  <2>1. stops' = stops
    BY <1>6 DEF SetUpStep, CreateSocket, NoSocket, Bind, Listen, SetupFails,
                AssignFd, LoopStep, LoadFd, AcceptWaits, AcceptRefused, history
  <2> QED
    BY <1>3, <1>4, <1>6, <2>1, SetUpNaming, LoopNaming
<1>7. ASSUME NEW t \in Threads, AcceptAborts(t)
      PROVE  Names(Reliable)' /\ Untouched
  <2>1. stops' = stops
    BY <1>7 DEF AcceptAborts, AcceptEnds
  <2> QED
    BY <1>3, <1>4, <1>7, <2>1, AbortNaming
<1>8. ASSUME NEW t \in Threads, NEW c \in Clients, AcceptReturns(t, c)
      PROVE  Names(Reliable)' /\ Lifecycle!OpenConnection(c)
  <2>1. PICK kind \in {"v4", "v6", "other"} : Protocol[EngineOf[t]] = kind
    BY EngineAssumption
  <2>2. /\ AcceptEnds(t, "load", c) /\ context[c] = "none"
        /\ context' = [context EXCEPT ![c] = kind]
        /\ mClientFd' = [mClientFd EXCEPT ![c] = reserved[t]]
        /\ stops' = stops
    BY <1>8, <2>1 DEF AcceptReturns, Admit, AcceptEnds
  <2> QED
    BY <1>3, <1>4, <2>2, OpenNaming
<1>9. ASSUME NEW c \in Clients, CloseContext(c)
      PROVE  Names(Reliable)' /\ Lifecycle!CloseConnection(c)
  <2>1. stops' = stops
    BY <1>9 DEF CloseContext, history
  <2> QED
    BY <1>3, <1>4, <1>9, <2>1, CloseContextNaming
<1>10. ASSUME NEW t \in Threads, StopStep(t)
       PROVE  Names(Reliable)' /\ Untouched
  <2>1. PICK e \in Engines, to \in {"idle", "check"} :
          e = EngineOf[t] /\ CloseListener(e) /\ Step(t, "idle", to)
    BY <1>10, EngineAssumption DEF StopStep, CallStop, CallRestart
  <2>2. t \in Stoppers
    BY <1>10 DEF StopStep, CallStop, CallRestart
  <2>3. stops' = [stops EXCEPT ![e] = @ + 1]
    BY <2>1 DEF CloseListener
  <2>4. stops[e] = 0
    BY <1>1, <2>3 DEF StoppedAtMostOnce, TypeOK
  <2>5. e \in L
    BY <1>2, <2>1, <2>2, <2>4 DEF Reliable, SettersApart
  <2>6. Names(L \ {e})' /\ Untouched
    BY <1>3, <2>1, <2>5, CloseListenerNaming
  <2>7. Reliable' = L \ {e}
    BY <1>2, <2>3, <2>4 DEF Reliable, TypeOK
  <2> QED
    BY <2>6, <2>7 DEF Names, EngineNames
<1>11. ASSUME ConfigureStep
       PROVE  Names(Reliable)' /\ Untouched
  <2>1. ASSUME NEW t \in Threads, NEW f \in Fds, SetListeningSocket(t, f)
        PROVE  Names(Reliable)' /\ Untouched
    <3>1. /\ UNCHANGED <<fdTable, svr_sock, reserved, context, mClientFd, pc, stops>>
          /\ t \in Setters /\ mFd' = [mFd EXCEPT ![EngineOf[t]] = f]
      BY <2>1 DEF SetListeningSocket, kernel, call, contexts
    <3>2. \A e \in L : mFd'[e] = mFd[e]
      BY <1>2, <3>1 DEF Reliable, TypeOK
    <3>3. Names(L)'
      BY <1>3, <3>1, <3>2
      DEF Names, SetUpNames, EngineNames, AcceptNames, ContextNames
    <3>4. Untouched
      BY <3>1, NoClientTouched
    <3> QED
      BY <1>4, <3>1, <3>3, <3>4
  <2>2. ASSUME UNCHANGED <<fdTable, mFd, svr_sock, reserved, context,
                           mClientFd, pc, stops>>
        PROVE  Names(Reliable)' /\ Untouched
    BY <1>3, <1>4, <2>2, QuietNaming
  <2>3. ASSUME NEW t \in Threads, NEW a \in Addresses, SetListeningAddress(t, a)
        PROVE  Names(Reliable)' /\ Untouched
    BY <2>2, <2>3 DEF SetListeningAddress, kernel, call, contexts, history
  <2>4. ASSUME NEW e \in Engines, DestroyEngine(e)
        PROVE  Names(Reliable)' /\ Untouched
    BY <2>2, <2>4 DEF DestroyEngine, kernel, call
  <2> QED
    BY <1>11, <2>1, <2>3, <2>4 DEF ConfigureStep
<1>12. ASSUME UNCHANGED vars
       PROVE  Names(Reliable)' /\ Untouched
  BY <1>3, <1>4, <1>12, QuietNaming DEF vars, kernel, call, contexts, history
<1> QED
  BY <1>1, <1>5, <1>6, <1>7, <1>8, <1>9, <1>10, <1>11, <1>12, NextSteps
  DEF Lifecycle!LifecycleNext

\* The names of the reliable engines hold in every state reached before an
\* engine is stopped twice.
LEMMA NamesInvariant ==
  ASSUME SettersApart
  PROVE  Spec => [](TypeOK /\ NamesInv)
<1>1. Init => NamesInv
  <2>1. Reliable \in SUBSET Engines
    BY DEF Reliable
  <2> QED
    BY <2>1, InitNaming DEF NamesInv
<1>2. TypeOK /\ NamesInv /\ [Next]_vars => NamesInv'
  BY EngineNaming DEF NamesInv
<1>3. Spec => []TypeOK
  BY EngineTypeCorrect
<1> QED
  BY <1>1, <1>2, <1>3, PTL DEF Spec

(***************************************************************************)
(* Engines that start, fail to start, stop once and are destroyed beside   *)
(* their workers leave every connection alone, for any number of engines,  *)
(* threads, clients and descriptors, if no engine that is stopped was      *)
(* given its socket by setListeningSocket(): the connections are opened    *)
(* once and closed once, each by its own context.                          *)
(***************************************************************************)
THEOREM EngineRefinement ==
  ASSUME SettersApart
  PROVE  Spec => LifecycleUntilSecondStop
<1>1. Init => Lifecycle!LifecycleInit
  BY InitLifecycle
<1>2. TypeOK /\ NamesInv /\ [Next]_vars =>
        [(\A e \in Engines : stops[e] <= 1)' =>
           \/ Lifecycle!LifecycleNext
           \/ UNCHANGED <<connectionStatus, connectionTable>>]_vars
  BY EngineNaming DEF StoppedAtMostOnce, Untouched
<1>3. Spec => [](TypeOK /\ NamesInv)
  BY NamesInvariant
<1> QED
  BY <1>1, <1>2, <1>3, PTL DEF Spec, LifecycleUntilSecondStop

-----------------------------------------------------------------------------
(***************************************************************************)
(* What the accept loops listen on.                                        *)
(***************************************************************************)

\* The sockets of the engines in L listen, and no one else will close the
\* number with which a thread is about to call accept().
ListenNames(L) ==
  /\ \A t \in Threads : pc[t] = "assign" => fdTable[svr_sock[t]] \in listening
  /\ \A e \in L : mFd[e] # INVALID_FD => fdTable[mFd[e]] \in listening
  /\ \A t \in Threads : EngineOf[t] \in L =>
       /\ pc[t] \in {"load", "accept", "blocked"} => mFd[EngineOf[t]] # INVALID_FD
       /\ pc[t] = "accept" =>
            /\ lfd[t] \in Fds /\ fdTable[lfd[t]] \in listening
            /\ \A d \in L : mFd[d] = lfd[t] => d = EngineOf[t]
            /\ \A u \in Threads : svr_sock[u] # lfd[t]

ListenInv == StoppedAtMostOnce => ListenNames(Reliable)

\* A step that closes no listening socket, and names one only in a set-up that
\* does not listen yet.
LEMMA QuietListen ==
  ASSUME TypeOK, NEW L \in SUBSET Engines, ListenNames(L),
         \A e \in L : mFd'[e] = mFd[e],
         listening' = listening,
         \A f \in Fds : fdTable[f] \in listening => fdTable'[f] = fdTable[f],
         \A t \in Threads :
           /\ \/ svr_sock'[t] = svr_sock[t]
              \/ /\ pc'[t] # "assign"
                 /\ svr_sock'[t] \in Fds => fdTable[svr_sock'[t]] \notin listening
           /\ pc'[t] = "assign" => pc[t] = "assign" /\ svr_sock[t] \in Fds
           /\ pc'[t] = "accept" => pc[t] = "accept" /\ lfd'[t] = lfd[t]
           /\ pc'[t] \in {"load", "accept", "blocked"} =>
                \/ pc[t] \in {"load", "accept", "blocked"}
                \/ mFd[EngineOf[t]] # INVALID_FD
  PROVE  ListenNames(L)'
<1> USE EngineAssumption, InvalidNumber DEF TypeOK, Number
<1>1. \A t \in Threads : pc'[t] = "assign" => fdTable'[svr_sock'[t]] \in listening'
  BY DEF ListenNames
<1>2. \A e \in L : mFd'[e] # INVALID_FD => fdTable'[mFd'[e]] \in listening'
  BY DEF ListenNames
<1>3. ASSUME NEW t \in Threads, EngineOf[t] \in L
      PROVE  /\ pc'[t] \in {"load", "accept", "blocked"} =>
                  mFd'[EngineOf[t]] # INVALID_FD
             /\ pc'[t] = "accept" =>
                  /\ lfd'[t] \in Fds /\ fdTable'[lfd'[t]] \in listening'
                  /\ \A d \in L : mFd'[d] = lfd'[t] => d = EngineOf[t]
                  /\ \A u \in Threads : svr_sock'[u] # lfd'[t]
  BY <1>3 DEF ListenNames
<1> QED
  BY <1>1, <1>2, <1>3 DEF ListenNames

\* The set-up of a socket ends when it listens, and then gives it to mFd.
LEMMA SetUpListen ==
  ASSUME TypeOK, NEW L \in SUBSET Engines, Names(L), ListenNames(L),
         NEW t \in Threads, SetUpStep(t)
  PROVE  ListenNames(L)'
<1> USE EngineAssumption, InvalidNumber
    DEF TypeOK, Number, Step, kernel, call, contexts, history
<1>1. CASE CreateSocket(t)
  <2>1. PICK f \in Fds, l \in Unused :
          /\ fdTable[f] = Free /\ fdTable' = [fdTable EXCEPT ![f] = l]
          /\ svr_sock' = [svr_sock EXCEPT ![t] = f]
    BY <1>1, NewSocket
  <2>2. /\ pc[t] = "socket" /\ pc' = [pc EXCEPT ![t] = "bind"]
        /\ UNCHANGED <<mFd, listening, lfd>>
    BY <1>1 DEF CreateSocket
  <2>3. \A u \in Threads : pc[u] = "assign" => svr_sock[u] \in Fds
    BY DEF Names, SetUpNames, HoldsSocket
  <2>4. Free \notin listening
    BY DEF Free
  <2>5. \A g \in Fds : fdTable[g] \in listening => fdTable'[g] = fdTable[g]
    BY <2>1, <2>4
  <2>6. \A u \in Threads :
          /\ \/ svr_sock'[u] = svr_sock[u]
             \/ /\ pc'[u] # "assign"
                /\ svr_sock'[u] \in Fds => fdTable[svr_sock'[u]] \notin listening
          /\ pc'[u] \in {"assign", "load", "accept", "blocked"} => pc'[u] = pc[u]
    BY <2>1, <2>2, <2>4
  <2> HIDE DEF TypeOK, Step
  <2> QED
    BY <2>2, <2>3, <2>5, <2>6, QuietListen
<1>2. ASSUME UNCHANGED <<fdTable, mFd, listening, lfd>>,
             NEW to \in {"idle", "listen"}, pc' = [pc EXCEPT ![t] = to],
             \/ svr_sock' = svr_sock
             \/ to = "idle" /\ svr_sock' = [svr_sock EXCEPT ![t] = INVALID_FD]
      PROVE  ListenNames(L)'
  <2>1. \A u \in Threads : pc[u] = "assign" => svr_sock[u] \in Fds
    BY DEF Names, SetUpNames, HoldsSocket
  <2>2. /\ \A u \in Threads \ {t} : pc'[u] = pc[u]
        /\ pc'[t] = to
    BY <1>2
  <2>3. /\ \A u \in Threads \ {t} : svr_sock'[u] = svr_sock[u]
        /\ svr_sock'[t] = svr_sock[t] \/ svr_sock'[t] = INVALID_FD
    BY <1>2
  <2> HIDE DEF TypeOK, Step
  <2> QED
    BY <1>2, <2>1, <2>2, <2>3, QuietListen
<1>3. CASE Listen(t)
  <2>1. /\ UNCHANGED <<fdTable, mFd, svr_sock, lfd>>
        /\ pc' = [pc EXCEPT ![t] = "assign"]
        /\ listening' = listening \cup {fdTable[svr_sock[t]]}
    BY <1>3 DEF Listen
  <2> QED
    BY <2>1 DEF ListenNames
<1>4. CASE AssignFd(t)
  <2>1. /\ UNCHANGED <<fdTable, listening, lfd>>
        /\ pc[t] = "assign" /\ pc' = [pc EXCEPT ![t] = "load"]
        /\ mFd' = [mFd EXCEPT ![EngineOf[t]] = svr_sock[t]]
        /\ svr_sock' = [svr_sock EXCEPT ![t] = INVALID_FD]
    BY <1>4 DEF AssignFd
  <2>2. svr_sock[t] \in Fds /\ fdTable[svr_sock[t]] \in listening
    BY <2>1 DEF Names, SetUpNames, HoldsSocket, ListenNames
  <2>3. \A u \in Threads : pc'[u] = "assign" => fdTable'[svr_sock'[u]] \in listening'
    BY <2>1 DEF ListenNames
  <2>4. \A e \in L : mFd'[e] # INVALID_FD => fdTable'[mFd'[e]] \in listening'
    BY <2>1, <2>2 DEF ListenNames
  <2>5. ASSUME NEW u \in Threads, EngineOf[u] \in L
        PROVE  /\ pc'[u] \in {"load", "accept", "blocked"} =>
                    mFd'[EngineOf[u]] # INVALID_FD
               /\ pc'[u] = "accept" =>
                    /\ lfd'[u] \in Fds /\ fdTable'[lfd'[u]] \in listening'
                    /\ \A d \in L : mFd'[d] = lfd'[u] => d = EngineOf[u]
                    /\ \A v \in Threads : svr_sock'[v] # lfd'[u]
    BY <2>1, <2>2, <2>5 DEF ListenNames
  <2> QED
    BY <2>3, <2>4, <2>5 DEF ListenNames
<1>5. CASE NoSocket(t)
  BY <1>2, <1>5 DEF NoSocket
<1>6. CASE Bind(t)
  BY <1>2, <1>6 DEF Bind
<1>7. CASE SetupFails(t)
  BY <1>2, <1>7 DEF SetupFails
<1> QED
  BY <1>1, <1>3, <1>4, <1>5, <1>6, <1>7 DEF SetUpStep

\* The loop reads the number of a socket that listens.
LEMMA LoopListen ==
  ASSUME TypeOK, NEW L \in SUBSET Engines, Names(L), ListenNames(L),
         NEW t \in Threads, LoopStep(t)
  PROVE  ListenNames(L)'
<1> USE EngineAssumption, InvalidNumber
    DEF TypeOK, Number, Step, kernel, call, contexts, history
<1>1. \A u \in Threads : pc[u] = "assign" => svr_sock[u] \in Fds
  BY DEF Names, SetUpNames, HoldsSocket
<1>2. CASE LoadFd(t)
  <2>1. /\ UNCHANGED <<fdTable, listening, mFd, svr_sock>>
        /\ pc[t] = "load" /\ pc' = [pc EXCEPT ![t] = "accept"]
        /\ lfd' = [lfd EXCEPT ![t] = mFd[EngineOf[t]]]
    BY <1>2 DEF LoadFd
  <2>2. ASSUME EngineOf[t] \in L
        PROVE  /\ lfd'[t] \in Fds /\ fdTable[lfd'[t]] \in listening
               /\ \A d \in L : mFd[d] = lfd'[t] => d = EngineOf[t]
               /\ \A u \in Threads : svr_sock[u] # lfd'[t]
    BY <2>1, <2>2 DEF Names, EngineNames, ListenNames
  <2> QED
    BY <2>1, <2>2 DEF ListenNames
<1>3. CASE AcceptWaits(t)
  <2>1. PICK f \in Fds : fdTable[f] = Free /\ fdTable' = [fdTable EXCEPT ![f] = Reserved]
    BY <1>3 DEF AcceptWaits, IsLowestFree
  <2>2. /\ UNCHANGED <<listening, mFd, svr_sock>>
        /\ pc[t] = "accept" /\ pc' = [pc EXCEPT ![t] = "blocked"]
        /\ lfd' = [lfd EXCEPT ![t] = INVALID_FD]
    BY <1>3 DEF AcceptWaits
  <2>3. Free \notin listening
    BY DEF Free
  <2> QED
    BY <1>1, <2>1, <2>2, <2>3, QuietListen
<1>4. CASE AcceptRefused(t)
  <2>1. /\ UNCHANGED <<fdTable, listening, mFd, svr_sock>>
        /\ pc' = [pc EXCEPT ![t] = "idle"]
        /\ lfd' = [lfd EXCEPT ![t] = INVALID_FD]
    BY <1>4 DEF AcceptRefused
  <2> QED
    BY <1>1, <2>1, QuietListen
<1> QED
  BY <1>2, <1>3, <1>4 DEF LoopStep

\* The end of an accept() fills or frees the number it had reserved.
LEMMA AcceptListen ==
  ASSUME TypeOK, NEW L \in SUBSET Engines, Names(L), ListenNames(L),
         NEW t \in Threads, NEW to \in {"idle", "load"}, NEW what,
         AcceptEnds(t, to, what)
  PROVE  ListenNames(L)'
<1> USE EngineAssumption DEF TypeOK, Number, Step
<1>1. /\ fdTable' = [fdTable EXCEPT ![reserved[t]] = what]
      /\ pc[t] = "blocked" /\ pc' = [pc EXCEPT ![t] = to]
      /\ UNCHANGED <<listening, mFd, svr_sock, lfd>>
  BY DEF AcceptEnds
<1>2. fdTable[reserved[t]] \notin listening
  BY <1>1 DEF Names, AcceptNames, Reserved
<1>3. \A u \in Threads : pc[u] = "assign" => svr_sock[u] \in Fds
  BY DEF Names, SetUpNames, HoldsSocket
<1> QED
  BY <1>1, <1>2, <1>3, QuietListen

\* The first stop() of an engine takes the socket of no other.
LEMMA CloseListenerListen ==
  ASSUME TypeOK, NEW L \in SUBSET Engines, Names(L), ListenNames(L),
         NEW e \in L, CloseListener(e), NEW t \in Threads, NEW to \in {"idle", "check"},
         Step(t, "idle", to)
  PROVE  ListenNames(L \ {e})'
<1>1. /\ fdTable' = Closed(fdTable, mFd[e])
      /\ UNCHANGED <<listening, mFd, svr_sock, lfd>>
      /\ pc[t] = "idle" /\ pc' = [pc EXCEPT ![t] = to]
  BY DEF CloseListener, Step, call
<1>2. \A f \in Fds : f # mFd[e] => fdTable'[f] = fdTable[f]
  BY <1>1, ClosedNames
<1> USE EngineAssumption, InvalidNumber DEF TypeOK, Number
<1>3. \A u \in Threads : pc'[u] = "assign" =>
        svr_sock[u] \in Fds /\ svr_sock[u] # mFd[e]
  BY <1>1 DEF Names, SetUpNames, EngineNames, HoldsSocket
<1>4. \A d \in L \ {e} : mFd[d] # INVALID_FD => mFd[d] \in Fds /\ mFd[d] # mFd[e]
  BY DEF Names, EngineNames
<1>5. ASSUME NEW u \in Threads, EngineOf[u] \in L \ {e}
      PROVE  /\ pc'[u] \in {"load", "accept", "blocked"} =>
                  mFd'[EngineOf[u]] # INVALID_FD
             /\ pc'[u] = "accept" =>
                  /\ lfd'[u] \in Fds /\ fdTable'[lfd'[u]] \in listening'
                  /\ \A d \in L \ {e} : mFd'[d] = lfd'[u] => d = EngineOf[u]
                  /\ \A v \in Threads : svr_sock'[v] # lfd'[u]
  BY <1>1, <1>2, <1>5 DEF ListenNames
<1> QED
  BY <1>1, <1>2, <1>3, <1>4, <1>5 DEF ListenNames

\* Until an engine is stopped twice, every step leaves the accept loops of the
\* reliable engines their sockets.
LEMMA EngineListen ==
  ASSUME SettersApart, TypeOK, NamesInv, ListenInv, [Next]_vars, StoppedAtMostOnce'
  PROVE  ListenNames(Reliable)'
<1>1. StoppedAtMostOnce
  BY EngineNaming
<1>2. PICK L \in SUBSET Engines : L = Reliable
  BY DEF Reliable
<1>3. Names(L) /\ ListenNames(L)
  BY <1>1, <1>2 DEF NamesInv, ListenInv
<1>4. \A u \in Threads : pc[u] = "assign" => svr_sock[u] \in Fds
  BY <1>3 DEF Names, SetUpNames, HoldsSocket
<1>5. ASSUME stops' = stops, ListenNames(L)'
      PROVE  ListenNames(Reliable)'
  BY <1>2, <1>5 DEF ListenNames, Reliable
<1>6. ASSUME NEW t \in Threads, CallStart(t) \/ CheckFd(t)
      PROVE  ListenNames(Reliable)'
  <2>1. /\ UNCHANGED <<fdTable, listening, mFd, svr_sock, lfd, stops>>
        /\ \/ pc' = [pc EXCEPT ![t] = "load"] /\ mFd[EngineOf[t]] # INVALID_FD
           \/ \E to \in {"idle", "check", "socket"} : pc' = [pc EXCEPT ![t] = to]
    BY <1>6 DEF CallStart, CheckFd, Step, kernel, call, history
  <2> QED
    BY <1>3, <1>4, <1>5, <2>1, QuietListen DEF TypeOK
<1>7. ASSUME NEW t \in Threads, SetUpStep(t) \/ LoopStep(t)
      PROVE  ListenNames(Reliable)'
  <2>1. stops' = stops
    BY <1>7 DEF SetUpStep, CreateSocket, NoSocket, Bind, Listen, SetupFails,
                AssignFd, LoopStep, LoadFd, AcceptWaits, AcceptRefused, history
  <2> QED
    BY <1>3, <1>5, <1>7, <2>1, SetUpListen, LoopListen
<1>8. ASSUME NEW t \in Threads,
             AcceptAborts(t) \/ \E c \in Clients : AcceptReturns(t, c)
      PROVE  ListenNames(Reliable)'
  <2>1. PICK to \in {"idle", "load"}, what \in Clients \cup {Free} :
          AcceptEnds(t, to, what)
    BY <1>8 DEF AcceptAborts, AcceptReturns, Admit
  <2>2. stops' = stops
    BY <2>1 DEF AcceptEnds
  <2> QED
    BY <1>3, <1>5, <2>1, <2>2, AcceptListen
<1>9. ASSUME NEW c \in Clients, CloseContext(c)
      PROVE  ListenNames(Reliable)'
  <2>1. /\ fdTable' = Closed(fdTable, mClientFd[c])
        /\ mClientFd[c] # INVALID_FD
        /\ UNCHANGED <<listening, mFd, svr_sock, lfd, stops, pc>>
    BY <1>9 DEF CloseContext, call, history
  <2>2. fdTable[mClientFd[c]] = c
    BY <1>3, <2>1 DEF Names, ContextNames
  <2>3. c \notin listening
    BY EngineAssumption DEF TypeOK
  <2>4. \A f \in Fds : fdTable[f] \in listening => fdTable'[f] = fdTable[f]
    BY <2>1, <2>2, <2>3, ClosedNames
  <2> QED
    BY <1>3, <1>4, <1>5, <2>1, <2>4, QuietListen
<1>10. ASSUME NEW t \in Threads, StopStep(t)
       PROVE  ListenNames(Reliable)'
  <2>1. PICK e \in Engines, to \in {"idle", "check"} :
          e = EngineOf[t] /\ CloseListener(e) /\ Step(t, "idle", to)
    BY <1>10, EngineAssumption DEF StopStep, CallStop, CallRestart
  <2>2. t \in Stoppers
    BY <1>10 DEF StopStep, CallStop, CallRestart
  <2>3. stops' = [stops EXCEPT ![e] = @ + 1]
    BY <2>1 DEF CloseListener
  <2>4. stops[e] = 0
    BY <2>3 DEF StoppedAtMostOnce, TypeOK
  <2>5. e \in L
    BY <1>2, <2>1, <2>2, <2>4 DEF Reliable, SettersApart
  <2>6. ListenNames(L \ {e})'
    BY <1>3, <2>1, <2>5, CloseListenerListen
  <2>7. Reliable' = L \ {e}
    BY <1>2, <2>3, <2>4 DEF Reliable, TypeOK
  <2> QED
    BY <2>6, <2>7 DEF ListenNames
<1>11. ASSUME ConfigureStep
       PROVE  ListenNames(Reliable)'
  <2>1. /\ UNCHANGED <<fdTable, listening, svr_sock, lfd, stops, pc>>
        /\ \A e \in L : mFd'[e] = mFd[e]
    BY <1>2, <1>11
    DEF ConfigureStep, SetListeningSocket, SetListeningAddress, DestroyEngine,
        Reliable, TypeOK, kernel, call, history
  <2> QED
    BY <1>3, <1>4, <1>5, <2>1, QuietListen
<1>12. ASSUME UNCHANGED vars
       PROVE  ListenNames(Reliable)'
  BY <1>3, <1>4, <1>5, <1>12, QuietListen DEF vars, kernel, call, history
<1> QED
  BY <1>6, <1>7, <1>8, <1>9, <1>10, <1>11, <1>12, NextSteps

(***************************************************************************)
(* However many engines start, fail to start, are stopped once and are     *)
(* destroyed, with however many threads, an engine that is not stopped     *)
(* keeps its socket under every accept() that its threads call.            *)
(***************************************************************************)
THEOREM EngineKeepsListener ==
  ASSUME SettersApart
  PROVE  Spec => []LoopKeepsListener
<1>1. Init => ListenInv
  BY EngineAssumption DEF Init, ListenInv, ListenNames, Reliable
<1>2. TypeOK /\ NamesInv /\ ListenInv /\ [Next]_vars => ListenInv'
  BY EngineListen DEF ListenInv
<1>3. TypeOK /\ ListenInv => LoopKeepsListener
  <2> SUFFICES ASSUME TypeOK, ListenInv, StoppedAtMostOnce,
                      NEW t \in Threads, pc[t] = "accept", EngineOf[t] \in Reliable
               PROVE  IsOpen(fdTable, lfd[t]) /\ fdTable[lfd[t]] \in listening
    BY DEF LoopKeepsListener, StoppedAtMostOnce
  <2>1. lfd[t] \in Fds /\ fdTable[lfd[t]] \in listening
    BY DEF ListenInv, ListenNames
  <2>2. {Free, Reserved} \cap listening = {}
    BY EngineAssumption DEF TypeOK
  <2> QED
    BY <2>1, <2>2 DEF IsOpen
<1>4. Spec => [](TypeOK /\ NamesInv)
  BY NamesInvariant
<1> QED
  BY <1>1, <1>2, <1>3, <1>4, PTL DEF Spec

-----------------------------------------------------------------------------
(***************************************************************************)
(* Listening descriptors that are lost.  A number is kept by the set-up    *)
(* that holds it, or by an mFd that names a listening socket on the        *)
(* engine's own address; a stale mFd that names it by chance does not      *)
(* keep it, so that what is lost once stays counted.                       *)
(***************************************************************************)
Kept(f) ==
  \/ \E t \in Threads : svr_sock[t] = f
  \/ \E e \in Engines \ destroyed :
       /\ mFd[e] = f
       /\ fdTable[f] \in listening
       /\ boundTo[fdTable[f]] = {SocketAddress(e)}

Lost == {f \in Fds : fdTable[f] \in Listeners /\ ~Kept(f)}

LostInv == IsFiniteSet(Lost) /\ Cardinality(Lost) <= abandoned

\* How far a set-up has come.
Progress ==
  \A t \in Threads :
    /\ pc[t] \in {"listen", "assign"} =>
         boundTo[fdTable[svr_sock[t]]] = {SocketAddress(EngineOf[t])}
    /\ pc[t] = "assign" => fdTable[svr_sock[t]] \in listening

\* The kernel lets one socket listen on an address.
OneListener ==
  \A k, l \in listening :
    IsAlive(k) /\ IsAlive(l) /\ boundTo[k] \cap boundTo[l] # {} => k = l

LeakInv == LostInv /\ Progress /\ OneListener

\* Nothing runs on an engine that is gone.
Running == \A t \in Threads : pc[t] # "idle" => EngineOf[t] \notin destroyed

\* No number comes to name a listening socket.
NoNewSocket ==
  \A f \in Fds : fdTable'[f] \in Listeners => fdTable'[f] = fdTable[f]

\* A step that loses nothing.
LEMMA NothingLost ==
  ASSUME LostInv, Lost' \subseteq Lost, abandoned' = abandoned,
         abandoned \in Nat
  PROVE  LostInv'
<1>1. IsFiniteSet(Lost') /\ Cardinality(Lost') <= Cardinality(Lost)
  BY FS_Subset DEF LostInv
<1>2. Cardinality(Lost) \in Nat /\ Cardinality(Lost') \in Nat
  BY <1>1, FS_CardinalityType DEF LostInv
<1> QED
  BY <1>1, <1>2 DEF LostInv

\* A step that loses one number and counts it.
LEMMA OneLost ==
  ASSUME LostInv, NEW x, Lost' \subseteq Lost \cup {x},
         abandoned' = abandoned + 1, abandoned \in Nat
  PROVE  LostInv'
<1>1. /\ IsFiniteSet(Lost \cup {x})
      /\ Cardinality(Lost \cup {x}) \in {Cardinality(Lost), Cardinality(Lost) + 1}
  BY FS_AddElement DEF LostInv
<1>2. IsFiniteSet(Lost') /\ Cardinality(Lost') <= Cardinality(Lost \cup {x})
  BY <1>1, FS_Subset
<1>3. Cardinality(Lost) \in Nat /\ Cardinality(Lost') \in Nat
  BY <1>2, FS_CardinalityType DEF LostInv
<1> QED
  BY <1>1, <1>2, <1>3 DEF LostInv

\* A step that leaves the set-ups, mFd and the sockets alone.
LEMMA QuietLeak ==
  ASSUME TypeOK, LeakInv, SetUpNames, SetUpNames', NoNewSocket,
         UNCHANGED <<boundTo, listening, address, svr_sock, mFd, destroyed,
                     abandoned>>,
         \A t \in Threads : pc'[t] \in {"listen", "assign"} => pc'[t] = pc[t],
         \A l \in listening : IsAlive(l)' => IsAlive(l)
  PROVE  LeakInv'
<1>1. LostInv'
  <2>1. Lost' \subseteq Lost
    BY DEF Lost, Kept, NoNewSocket, SocketAddress
  <2> QED
    BY <2>1, NothingLost DEF LeakInv, TypeOK
<1>2. Progress'
  BY DEF LeakInv, Progress, SetUpNames, HoldsSocket, NoNewSocket, SocketAddress
<1>3. OneListener'
  BY DEF LeakInv, OneListener
<1> QED
  BY <1>1, <1>2, <1>3 DEF LeakInv

\* A set-up that fails and does not close its socket.
LEMMA GiveUpLeak ==
  ASSUME TypeOK, LeakInv, NEW t \in Threads, NEW to \in {"idle", "load"},
         pc' = [pc EXCEPT ![t] = to],
         svr_sock' = [svr_sock EXCEPT ![t] = INVALID_FD],
         abandoned' = abandoned + 1,
         UNCHANGED <<fdTable, boundTo, listening, waitsOn, address, mFd, destroyed>>
  PROVE  LeakInv'
<1>1. LostInv'
  <2>1. Lost' \subseteq Lost \cup {svr_sock[t]}
    BY DEF Lost, Kept, SocketAddress, TypeOK
  <2> QED
    BY <2>1, OneLost DEF LeakInv, TypeOK
<1>2. Progress'
  BY DEF LeakInv, Progress, SocketAddress, TypeOK
<1>3. OneListener'
  BY DEF LeakInv, OneListener, IsAlive
<1> QED
  BY <1>1, <1>2, <1>3 DEF LeakInv

\* An engine whose mFd is set to something else, or that is destroyed.
LEMMA DropLeak ==
  ASSUME TypeOK, LeakInv, NEW e \in Engines,
         \A d \in Engines \ {e} : mFd'[d] = mFd[d] /\ (d \in destroyed' <=> d \in destroyed),
         \/ abandoned' = abandoned + 1
         \/ abandoned' = abandoned /\ ~IsOpen(fdTable, mFd[e]),
         UNCHANGED <<fdTable, boundTo, listening, waitsOn, address, svr_sock, pc>>
  PROVE  LeakInv'
<1>1. LostInv'
  <2>1. Lost' \subseteq Lost \cup {mFd[e]}
    BY DEF Lost, Kept, SocketAddress
  <2>2. ASSUME ~IsOpen(fdTable, mFd[e])
        PROVE  Lost' \subseteq Lost
    BY <2>1, <2>2, EngineAssumption DEF Lost, IsOpen
  <2> QED
    BY <2>1, <2>2, OneLost, NothingLost DEF LeakInv, TypeOK
<1>2. Progress'
  BY DEF LeakInv, Progress, SocketAddress
<1>3. OneListener'
  BY DEF LeakInv, OneListener, IsAlive
<1> QED
  BY <1>1, <1>2, <1>3 DEF LeakInv

\* The steps of the set-up: two that race for one address cannot both come
\* to assign mFd.
LEMMA SetUpLeak ==
  ASSUME TypeOK, LeakInv, UniqueName, Running, SetUpNames, SetUpNames',
         NEW t \in Threads, SetUpStep(t)
  PROVE  LeakInv'
<1> USE InvalidNumber
    DEF TypeOK, Number, Step, kernel, call, contexts, history, HoldsSocket
<1>1. CASE CreateSocket(t)
  <2>1. PICK f \in Fds, l \in Unused :
          /\ fdTable[f] = Free /\ fdTable' = [fdTable EXCEPT ![f] = l]
          /\ svr_sock' = [svr_sock EXCEPT ![t] = f]
    BY <1>1, NewSocket
  <2>2. /\ l \in Listeners \ listening
        /\ Free \notin Listeners
    BY EngineAssumption DEF Unused
  <2>3. /\ pc[t] = "socket" /\ pc' = [pc EXCEPT ![t] = "bind"]
        /\ svr_sock[t] = INVALID_FD
        /\ UNCHANGED <<boundTo, listening, waitsOn, mFd, address, destroyed,
                        abandoned>>
    BY <1>1 DEF CreateSocket, SetUpNames
  <2>4. LostInv'
    <3>1. Lost' \subseteq Lost
      BY <2>1, <2>2, <2>3 DEF Lost, Kept, SocketAddress
    <3> QED
      BY <2>3, <3>1, NothingLost DEF LeakInv
  <2>5. Progress'
    BY <2>1, <2>2, <2>3 DEF LeakInv, Progress, SetUpNames, SocketAddress
  <2>6. OneListener'
    <3>1. \A k \in listening : IsAlive(k)' => IsAlive(k)
      BY <2>1, <2>2, <2>3 DEF IsAlive
    <3> QED
      BY <2>3, <3>1 DEF LeakInv, OneListener
  <2> QED
    BY <2>4, <2>5, <2>6 DEF LeakInv
<1>2. CASE NoSocket(t)
  <2>1. \A u \in Threads : pc'[u] \in {"listen", "assign"} => pc'[u] = pc[u]
    BY <1>2 DEF NoSocket
  <2>2. /\ UNCHANGED <<fdTable, boundTo, listening, address, svr_sock, mFd,
                        destroyed, abandoned, waitsOn>>
    BY <1>2 DEF NoSocket
  <2> QED
    BY <2>1, <2>2, QuietLeak DEF NoNewSocket, IsAlive
<1>3. CASE Bind(t)
  <2>1. PICK l \in Listeners \ listening :
          /\ l = fdTable[svr_sock[t]]
          /\ boundTo' = [boundTo EXCEPT ![l] = {SocketAddress(EngineOf[t])}]
    BY <1>3 DEF Bind
  <2>2. /\ pc[t] = "bind" /\ pc' = [pc EXCEPT ![t] = "listen"]
        /\ UNCHANGED <<fdTable, listening, waitsOn, svr_sock, mFd, address,
                        destroyed, abandoned>>
    BY <1>3 DEF Bind
  <2>3. LostInv'
    <3>1. Lost' \subseteq Lost
      BY <2>1, <2>2 DEF Lost, Kept, SocketAddress
    <3> QED
      BY <2>2, <3>1, NothingLost DEF LeakInv
  <2>4. Progress'
    <3> SUFFICES ASSUME NEW u \in Threads, pc'[u] \in {"listen", "assign"}
                 PROVE  /\ boundTo'[fdTable[svr_sock[u]]] = {SocketAddress(EngineOf[u])}
                        /\ pc'[u] = "assign" => fdTable[svr_sock[u]] \in listening
      BY <2>2 DEF Progress, SocketAddress
    <3>1. CASE u = t
      BY <2>1, <2>2, <3>1
    <3>2. CASE u # t
      <4>1. /\ svr_sock[u] # svr_sock[t]
            /\ svr_sock[u] \in Fds /\ svr_sock[t] \in Fds
            /\ fdTable[svr_sock[u]] \in Listeners
            /\ pc[u] = pc'[u]
        BY <2>2, <3>2 DEF SetUpNames
      <4>2. fdTable[svr_sock[u]] # l
        BY <2>1, <4>1 DEF UniqueName
      <4>3. boundTo'[fdTable[svr_sock[u]]] = boundTo[fdTable[svr_sock[u]]]
        BY <2>1, <4>1, <4>2
      <4> QED
        BY <4>1, <4>3 DEF LeakInv, Progress
    <3> QED
      BY <3>1, <3>2
  <2>5. OneListener'
    BY <2>1, <2>2 DEF LeakInv, OneListener, IsAlive
  <2> QED
    BY <2>3, <2>4, <2>5 DEF LeakInv
<1>4. CASE Listen(t)
  <2>1. PICK l \in Listeners :
          /\ l = fdTable[svr_sock[t]]
          /\ \A a \in boundTo[l] : ~InUse(a)
          /\ listening' = listening \cup {l}
    BY <1>4 DEF Listen
  <2>2. /\ pc[t] = "listen" /\ pc' = [pc EXCEPT ![t] = "assign"]
        /\ UNCHANGED <<fdTable, boundTo, waitsOn, svr_sock, mFd, address,
                        destroyed, abandoned>>
    BY <1>4 DEF Listen
  <2>3. LostInv'
    <3>1. listening \subseteq listening'
      BY <2>1
    <3>2. \A f \in Fds : Kept(f) => Kept(f)'
      BY <2>2, <3>1 DEF Kept, SocketAddress
    <3>3. Lost' \subseteq Lost
      BY <2>2, <3>2 DEF Lost
    <3> QED
      BY <2>2, <3>3, NothingLost DEF LeakInv
  <2>4. Progress'
    BY <2>1, <2>2 DEF LeakInv, Progress, SocketAddress
  <2>5. OneListener'
    <3>1. \A k \in Listeners : IsAlive(k)' <=> IsAlive(k)
      BY <2>2 DEF IsAlive
    <3>2. \A k \in listening : IsAlive(k) => boundTo[k] \cap boundTo[l] = {}
      BY <2>1 DEF InUse
    <3>3. listening \subseteq Listeners
      OBVIOUS
    <3>4. ASSUME NEW j \in listening', NEW k \in listening',
                 IsAlive(j)', IsAlive(k)', (boundTo[j] \cap boundTo[k])' # {}
          PROVE  j = k
      <4>1. /\ j \in listening \/ j = l
            /\ k \in listening \/ k = l
        BY <2>1
      <4>2. IsAlive(j) /\ IsAlive(k) /\ boundTo[j] \cap boundTo[k] # {}
        BY <2>2, <3>1, <3>3, <3>4, <4>1
      <4>3. CASE j \in listening /\ k \in listening
        BY <4>2, <4>3 DEF LeakInv, OneListener
      <4> QED
        BY <3>2, <4>1, <4>2, <4>3
    <3> QED
      BY <3>4 DEF OneListener
  <2> QED
    BY <2>3, <2>4, <2>5 DEF LeakInv
<1>5. CASE SetupFails(t)
  BY <1>5, GiveUpLeak DEF SetupFails
<1>6. CASE AssignFd(t)
  <2> DEFINE e == EngineOf[t]
             l == fdTable[svr_sock[t]]
  <2>1. /\ pc[t] = "assign" /\ pc' = [pc EXCEPT ![t] = "load"]
        /\ mFd' = [mFd EXCEPT ![e] = svr_sock[t]]
        /\ svr_sock' = [svr_sock EXCEPT ![t] = INVALID_FD]
        /\ UNCHANGED <<fdTable, boundTo, listening, waitsOn, address,
                        destroyed, abandoned>>
    BY <1>6 DEF AssignFd
  <2>2. /\ e \in Engines \ destroyed /\ svr_sock[t] \in Fds
        /\ l \in listening /\ boundTo[l] = {SocketAddress(e)}
    BY <2>1, EngineAssumption DEF LeakInv, Progress, Running, SetUpNames
  <2>3. ASSUME NEW f \in Fds, mFd[e] = f, fdTable[f] \in listening,
               boundTo[fdTable[f]] = {SocketAddress(e)}
        PROVE  f = svr_sock[t]
    <3>1. IsAlive(l) /\ IsAlive(fdTable[f])
      BY <2>2, <2>3 DEF IsAlive
    <3>2. fdTable[f] = l
      BY <2>2, <2>3, <3>1 DEF LeakInv, OneListener
    <3> QED
      BY <2>2, <2>3, <3>2 DEF UniqueName
  <2>4. LostInv'
    <3>1. ASSUME NEW f \in Fds, Kept(f)
          PROVE  Kept(f)'
      <4>1. CASE f = svr_sock[t]
        BY <2>1, <2>2, <4>1 DEF Kept, SocketAddress
      <4>2. CASE f # svr_sock[t]
        <5>1. CASE \E u \in Threads : svr_sock[u] = f
          BY <2>1, <4>2, <5>1 DEF Kept
        <5>2. ASSUME NEW d \in Engines \ destroyed, mFd[d] = f,
                     fdTable[f] \in listening,
                     boundTo[fdTable[f]] = {SocketAddress(d)}
              PROVE  Kept(f)'
          <6>1. d # e
            BY <2>3, <4>2, <5>2
          <6> QED
            BY <2>1, <5>2, <6>1 DEF Kept, SocketAddress
        <5> QED
          BY <3>1, <5>1, <5>2 DEF Kept
      <4> QED
        BY <4>1, <4>2
    <3>2. Lost' \subseteq Lost
      BY <2>1, <3>1 DEF Lost
    <3> QED
      BY <2>1, <3>2, NothingLost DEF LeakInv
  <2>5. Progress'
    BY <2>1 DEF LeakInv, Progress, SocketAddress
  <2>6. OneListener'
    BY <2>1 DEF LeakInv, OneListener, IsAlive
  <2> QED
    BY <2>4, <2>5, <2>6 DEF LeakInv
<1> QED
  BY <1>1, <1>2, <1>3, <1>4, <1>5, <1>6 DEF SetUpStep

\* A turn of the accept loop.
LEMMA LoopLeak ==
  ASSUME TypeOK, LeakInv, SetUpNames, SetUpNames', NEW t \in Threads, LoopStep(t)
  PROVE  LeakInv'
<1>1. /\ UNCHANGED <<boundTo, listening, address, svr_sock, mFd, destroyed,
                      abandoned>>
      /\ \A u \in Threads : pc'[u] \in {"listen", "assign"} => pc'[u] = pc[u]
  BY DEF LoopStep, LoadFd, AcceptWaits, AcceptRefused, Step, kernel, contexts,
         history, TypeOK
<1>2. NoNewSocket
  BY EngineAssumption
  DEF LoopStep, LoadFd, AcceptWaits, AcceptRefused, kernel, NoNewSocket, TypeOK
<1>3. \A l \in listening : IsAlive(l)' => IsAlive(l)
  <2>1. \A u \in Threads : \A l \in waitsOn'[u] :
          l \in waitsOn[u] \/ \E f \in Fds : fdTable[f] = l
    BY DEF LoopStep, LoadFd, AcceptWaits, AcceptRefused, IsOpen, TypeOK
  <2> QED
    BY <1>2, <2>1 DEF IsAlive, NoNewSocket, TypeOK
<1> QED
  BY <1>1, <1>2, <1>3, QuietLeak

\* The end of an accept().
LEMMA AcceptLeak ==
  ASSUME TypeOK, LeakInv, SetUpNames, SetUpNames', NEW t \in Threads,
         NEW to \in {"idle", "load"}, NEW what \in Clients \cup {Free},
         AcceptEnds(t, to, what), destroyed' = destroyed
  PROVE  LeakInv'
<1>1. /\ UNCHANGED <<boundTo, listening, address, svr_sock, mFd, abandoned>>
      /\ \A u \in Threads : pc'[u] \in {"listen", "assign"} => pc'[u] = pc[u]
  BY DEF AcceptEnds, Step, TypeOK
<1>2. NoNewSocket
  BY EngineAssumption DEF AcceptEnds, NoNewSocket, TypeOK
<1>3. \A l \in listening : IsAlive(l)' => IsAlive(l)
  BY <1>2 DEF AcceptEnds, IsAlive, NoNewSocket, TypeOK
<1> QED
  BY <1>1, <1>2, <1>3, QuietLeak

\* close() of any number, and calls that change no number.
LEMMA CloseLeak ==
  ASSUME TypeOK, LeakInv, SetUpNames, SetUpNames',
         \/ fdTable' = fdTable
         \/ \E fd : fdTable' = Closed(fdTable, fd),
         UNCHANGED <<boundTo, listening, address, svr_sock, mFd, destroyed,
                     abandoned, waitsOn>>,
         \A t \in Threads : pc'[t] \in {"listen", "assign"} => pc'[t] = pc[t]
  PROVE  LeakInv'
<1>1. NoNewSocket
  BY EngineAssumption DEF NoNewSocket, Closed
<1>2. \A l \in listening : IsAlive(l)' => IsAlive(l)
  BY <1>1 DEF IsAlive, NoNewSocket, TypeOK
<1> QED
  BY <1>1, <1>2, QuietLeak

\* No thread runs inside an engine that was destroyed.
LEMMA RunningInvariant == Spec => []Running
<1>1. Init => Running
  BY DEF Init, Running
<1>2. TypeOK /\ Running /\ [Next]_vars => Running'
  <2> SUFFICES ASSUME TypeOK, Running, [Next]_vars
               PROVE  Running'
    OBVIOUS
  <2> USE DEF TypeOK, Running
  <2>1. ASSUME NEW t \in Threads, destroyed' = destroyed, NEW to,
               pc' = [pc EXCEPT ![t] = to],
               pc[t] # "idle" \/ to = "idle" \/ EngineOf[t] \notin destroyed
        PROVE  Running'
    BY <2>1
  <2> USE DEF Step, contexts
  <2>2. ASSUME NEW t \in Threads, EngineOf[t] \notin destroyed,
               CallStart(t) \/ StopStep(t)
        PROVE  Running'
    BY <2>1, <2>2 DEF CallStart, StopStep, CallStop, CallRestart, CloseListener
  <2>3. ASSUME NEW t \in Threads, CheckFd(t)
        PROVE  Running'
    BY <2>1, <2>3 DEF CheckFd
  <2>4. ASSUME NEW t \in Threads, SetUpStep(t)
        PROVE  Running'
    BY <2>1, <2>4 DEF SetUpStep, CreateSocket, NoSocket, Bind, Listen,
                      SetupFails, AssignFd
  <2>5. ASSUME NEW t \in Threads, LoopStep(t)
        PROVE  Running'
    BY <2>1, <2>5 DEF LoopStep, LoadFd, AcceptWaits, AcceptRefused
  <2>6. ASSUME NEW t \in Threads,
               AcceptAborts(t) \/ \E c \in Clients : AcceptReturns(t, c)
        PROVE  Running'
    BY <2>1, <2>6 DEF AcceptAborts, AcceptReturns, Admit, AcceptEnds
  <2>7. ASSUME NEW c \in Clients, CloseContext(c)
        PROVE  Running'
    BY <2>7 DEF CloseContext
  <2>8. CASE ConfigureStep
    BY <2>8 DEF ConfigureStep, SetListeningSocket, SetListeningAddress,
                DestroyEngine
  <2>9. CASE UNCHANGED vars
    BY <2>9 DEF vars
  <2> HIDE DEF TypeOK, Running, Step, contexts
  <2> QED
    BY <2>2, <2>3, <2>4, <2>5, <2>6, <2>7, <2>8, <2>9, NextSteps
<1>3. Spec => []TypeOK
  BY EngineTypeCorrect
<1> QED
  BY <1>1, <1>2, <1>3, PTL DEF Spec

\* While addresses stay as they are, every step keeps the account of lost
\* listening sockets.
LEMMA EngineLeak ==
  ASSUME TypeOK, LeakInv, UniqueName, Running, SetUpNames, SetUpNames',
         [Next]_vars, address' = address
  PROVE  LeakInv'
<1> USE DEF TypeOK, Step, kernel, call, contexts, history
<1>1. ASSUME UNCHANGED <<fdTable, boundTo, listening, address, svr_sock, mFd,
                         destroyed, abandoned, waitsOn>>,
             \A t \in Threads : pc'[t] \in {"listen", "assign"} => pc'[t] = pc[t]
      PROVE  LeakInv'
  BY <1>1, CloseLeak
<1>2. ASSUME NEW t \in Threads, CallStart(t) \/ CheckFd(t)
      PROVE  LeakInv'
  BY <1>1, <1>2 DEF CallStart, CheckFd
<1>3. ASSUME NEW t \in Threads, StopStep(t)
      PROVE  LeakInv'
  BY <1>3, CloseLeak DEF StopStep, CallStop, CallRestart, CloseListener
<1>4. ASSUME NEW t \in Threads, AcceptAborts(t)
      PROVE  LeakInv'
  BY <1>4, AcceptLeak DEF AcceptAborts
<1>5. ASSUME NEW t \in Threads, NEW c \in Clients, AcceptReturns(t, c)
      PROVE  LeakInv'
  BY <1>5, AcceptLeak DEF AcceptReturns, Admit
<1>6. ASSUME NEW c \in Clients, CloseContext(c)
      PROVE  LeakInv'
  BY <1>6, CloseLeak DEF CloseContext
<1>7. ASSUME NEW t \in Threads, NEW f \in Fds, SetListeningSocket(t, f)
      PROVE  LeakInv'
  <2>1. /\ EngineOf[t] \in Engines
        /\ \A d \in Engines \ {EngineOf[t]} : mFd'[d] = mFd[d]
        /\ abandoned' = abandoned + 1
        /\ UNCHANGED <<fdTable, boundTo, listening, waitsOn, svr_sock, pc,
                       destroyed>>
    BY <1>7, EngineAssumption DEF SetListeningSocket
  <2> QED
    BY <2>1, DropLeak
<1>8. ASSUME NEW t \in Threads, NEW a \in Addresses, SetListeningAddress(t, a)
      PROVE  LeakInv'
  BY <1>1, <1>8 DEF SetListeningAddress
<1>9. ASSUME NEW e \in Engines, DestroyEngine(e)
      PROVE  LeakInv'
  <2>1. /\ \A d \in Engines \ {e} : mFd'[d] = mFd[d]
        /\ destroyed' = destroyed \cup {e}
        /\ \/ abandoned' = abandoned + 1
           \/ abandoned' = abandoned /\ ~IsOpen(fdTable, mFd[e])
        /\ UNCHANGED <<fdTable, boundTo, listening, waitsOn, svr_sock, pc>>
    BY <1>9 DEF DestroyEngine
  <2> QED
    BY <2>1, DropLeak
<1>10. CASE UNCHANGED vars
  BY <1>1, <1>10 DEF vars
<1> HIDE DEF TypeOK, Step, kernel, call, contexts, history
<1> QED
  BY <1>2, <1>3, <1>4, <1>5, <1>6, <1>7, <1>8, <1>9, <1>10, NextSteps,
     SetUpLeak, LoopLeak
  DEF ConfigureStep

\* No listening descriptor without an owner escapes the count.
LEMMA OrphansCounted ==
  ASSUME LostInv, abandoned \in Nat
  PROVE  LeakBound
<1>1. Orphans \subseteq Lost
  BY DEF Orphans, Lost, Kept
<1>2. IsFiniteSet(Orphans) /\ Cardinality(Orphans) <= Cardinality(Lost)
  BY <1>1, FS_Subset DEF LostInv
<1>3. Cardinality(Orphans) \in Nat /\ Cardinality(Lost) \in Nat
  BY <1>2, FS_CardinalityType DEF LostInv
<1> QED
  BY <1>2, <1>3 DEF LostInv, LeakBound

\* What holds of the set-ups before anything was created.
LEMMA InitLeak ==
  ASSUME Init
  PROVE  LeakInv
<1>1. Lost = {}
  BY EngineAssumption DEF Init, Lost
<1>2. LostInv
  BY <1>1, FS_EmptySet DEF LostInv, Init
<1> QED
  BY <1>2 DEF Init, LeakInv, Progress, OneListener

(***************************************************************************)
(* As long as no engine is stopped twice, none that is stopped was given   *)
(* its socket by setListeningSocket() and no address is changed, threads   *)
(* that race through start() of any number of engines lose no listening    *)
(* descriptor but for those that a failed set-up, setListeningSocket() or  *)
(* a destructor leaves, one each.                                          *)
(***************************************************************************)
THEOREM EngineLeakBound ==
  ASSUME SettersApart
  PROVE  Spec /\ [][address' = address]_vars
           => []((\A e \in Engines : stops[e] <= 1) => LeakBound)
<1> DEFINE I == /\ TypeOK /\ NamesInv /\ Running
                /\ EngineInv /\ LateInv
           J == StoppedAtMostOnce => LeakInv
<1>1. Init => J
  BY InitLeak
<1>2. I /\ I' /\ J /\ [Next]_vars /\ [address' = address]_vars => J'
  <2> SUFFICES ASSUME I, I', J, [Next]_vars, [address' = address]_vars,
                      StoppedAtMostOnce'
               PROVE  LeakInv'
    OBVIOUS
  <2>1. StoppedAtMostOnce
    BY EngineNaming
  <2>2. SetUpNames /\ SetUpNames'
    BY <2>1 DEF NamesInv, Names
  <2>3. address' = address
    BY DEF vars
  <2> QED
    BY <2>1, <2>2, <2>3, EngineLeak DEF LateInv
<1>3. I /\ J => ((\A e \in Engines : stops[e] <= 1) => LeakBound)
  BY OrphansCounted DEF StoppedAtMostOnce, LeakInv, TypeOK
<1>4. Spec => []I
  BY NamesInvariant, RunningInvariant, LateInvariant, PTL
<1> HIDE DEF I, J
<1> QED
  BY <1>1, <1>2, <1>3, <1>4, PTL DEF Spec
=============================================================================
