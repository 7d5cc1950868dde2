---------------------- MODULE ITcpBrokerServerEngine ------------------------
(***************************************************************************)
(* ITcpBrokerServerEngine with the accept loops of its two subclasses,     *)
(* ThreadsTcpBroServer (IPv4) and ThreadsTcp6BroServer (IPv6).  start()    *)
(* creates the listening socket unless mFd is set and runs the accept      *)
(* loop; stop() closes mFd and keeps its number; restart() is stop() and   *)
(* then start().  Nothing synchronises the threads that call them.         *)
(*                                                                         *)
(* A worker is reduced to what it does to the descriptor table: on an      *)
(* IPv4 context it ends some time and closes the context's descriptor      *)
(* (ThreadsTcpBroWorker refines ConnectionLifecycle), on an IPv6 context   *)
(* both its threads return at once.  mSocketContextQueue keeps every       *)
(* context, so an IPv6 one is closed only by its destructor, when the      *)
(* engine is destroyed; a program may do that once start() has returned.   *)
(***************************************************************************)
EXTENDS SocketTable, FiniteSets

CONSTANTS
  Engines,
  Protocol,      \* mProtocolType of each engine: "v4", "v6" or "other"
  Threads,
  EngineOf,      \* the engine whose methods a thread calls
  Starters, Stoppers, Setters,  \* the threads that call these methods
  Destroyable,   \* the engines that the program destroys
  Clients,
  Listeners,     \* bound: the sockets that socket() may create
  Addresses,     \* values of (mIP, mPort)
  MaxStarts,     \* bound: calls of start() by one thread
  MaxStops,      \* bound: calls of stop() and restart() on one engine
  MaxAbandoned   \* bound: setListeningSocket() is called below this count

ASSUME EngineAssumption ==
  /\ Protocol \in [Engines -> {"v4", "v6", "other"}]
  /\ EngineOf \in [Threads -> Engines]
  /\ Starters \cup Stoppers \cup Setters \subseteq Threads
  /\ Destroyable \subseteq Engines
  /\ Clients \cap Listeners = {}
  /\ {Free, Reserved} \cap (Clients \cup Listeners) = {}
  /\ Addresses # {}
  /\ MaxStarts \in Nat
  /\ MaxStops \in Nat
  /\ MaxAbandoned \in Nat

VARIABLES
  \* the kernel
  fdTable,
  boundTo,    \* the family and address each socket is bound to, or {}
  listening,  \* the sockets on which listen() succeeded
  \* ITcpBrokerServerEngine
  mFd, address, mSocketContextQueue,
  \* the threads inside start()
  pc,
  svr_sock,   \* the local of initIPV4Socket and initIPV6Socket
  lfd,        \* accept()'s argument
  waitsOn,    \* the sockets accept() waits on: none or one
  reserved,   \* the number accept() will return
  \* the contexts
  context,    \* "none", or the kind of context that serves the client
  mClientFd,
  destroyed,  \* the engines that are gone
  \* history
  starts, stops,
  stopped,    \* the listening sockets that stop() of an engine closed
  caught,     \* the threads that waited on such a socket when it was closed
  late,       \* clients that a thread let in from such a socket afterwards
  abandoned   \* calls that left a listening descriptor without an owner

kernel == <<fdTable, boundTo, listening>>
call == <<svr_sock, lfd, waitsOn, reserved>>
contexts == <<context, mClientFd, mSocketContextQueue, destroyed>>
history == <<starts, stops, stopped, caught, late, abandoned>>
vars == <<kernel, mFd, address, pc, call, contexts, history>>

Number == Fds \cup {INVALID_FD}

TypeOK ==
  /\ fdTable \in [Fds -> Clients \cup Listeners \cup {Free, Reserved}]
  /\ boundTo \in [Listeners -> SUBSET ({"v4", "v6"} \X Addresses)]
  /\ listening \subseteq Listeners
  /\ mFd \in [Engines -> Number]
  /\ address \in [Engines -> Addresses]
  /\ mSocketContextQueue \in [Engines -> SUBSET Clients]
  /\ pc \in [Threads -> {"idle", "check", "socket", "bind", "listen",
                         "assign", "load", "accept", "blocked"}]
  /\ svr_sock \in [Threads -> Number]
  /\ lfd \in [Threads -> Number]
  /\ waitsOn \in [Threads -> SUBSET Listeners]
  /\ reserved \in [Threads -> Number]
  /\ context \in [Clients -> {"none", "v4", "v6", "other"}]
  /\ mClientFd \in [Clients -> Number]
  /\ destroyed \subseteq Engines
  /\ starts \in [Threads -> 0..MaxStarts]
  /\ stops \in [Engines -> 0..MaxStops]
  /\ stopped \in [Engines -> SUBSET Listeners]
  /\ caught \subseteq Threads \X Listeners
  /\ late \in [Threads \X Listeners -> Nat]
  /\ abandoned \in Nat

Init ==
  /\ fdTable = [f \in Fds |-> Free]
  /\ boundTo = [l \in Listeners |-> {}]
  /\ listening = {}
  /\ mFd = [e \in Engines |-> INVALID_FD]
  /\ address \in [Engines -> Addresses]
  /\ mSocketContextQueue = [e \in Engines |-> {}]
  /\ pc = [t \in Threads |-> "idle"]
  /\ svr_sock = [t \in Threads |-> INVALID_FD]
  /\ lfd = [t \in Threads |-> INVALID_FD]
  /\ waitsOn = [t \in Threads |-> {}]
  /\ reserved = [t \in Threads |-> INVALID_FD]
  /\ context = [c \in Clients |-> "none"]
  /\ mClientFd = [c \in Clients |-> INVALID_FD]
  /\ destroyed = {}
  /\ starts = [t \in Threads |-> 0]
  /\ stops = [e \in Engines |-> 0]
  /\ stopped = [e \in Engines |-> {}]
  /\ caught = {}
  /\ late = [p \in Threads \X Listeners |-> 0]
  /\ abandoned = 0

Step(t, from, to) ==
  /\ pc[t] = from
  /\ pc' = [pc EXCEPT ![t] = to]

-----------------------------------------------------------------------------
(***************************************************************************)
(* start(): the listening socket.                                          *)
(***************************************************************************)
CallStart(t) ==
  /\ t \in Starters
  /\ starts[t] < MaxStarts
  /\ Step(t, "idle", "check")
  /\ starts' = [starts EXCEPT ![t] = @ + 1]
  /\ UNCHANGED <<kernel, mFd, address, call, contexts,
                 stops, stopped, caught, late, abandoned>>

\* if (mFd == INVALID_FD) initListeningSocket(), which knows two protocols.
CheckFd(t) ==
  LET e == EngineOf[t] IN
  /\ Step(t, "check",
          IF mFd[e] # INVALID_FD THEN "load"
          ELSE IF Protocol[e] = "other" THEN "idle"
          ELSE "socket")
  /\ UNCHANGED <<kernel, mFd, address, call, contexts, history>>

\* The sockets not yet created; which of them comes next makes no difference.
Unused ==
  {l \in Listeners \ listening :
     boundTo[l] = {} /\ \A f \in Fds : fdTable[f] # l}

\* socket(): a new one, on the lowest free number.
CreateSocket(t) ==
  \E f \in Fds :
    /\ IsLowestFree(fdTable, f)
    /\ Unused # {}
    /\ Step(t, "socket", "bind")
    /\ fdTable' = [fdTable EXCEPT ![f] = CHOOSE l \in Unused : TRUE]
    /\ svr_sock' = [svr_sock EXCEPT ![t] = f]
    /\ UNCHANGED <<boundTo, listening, mFd, address, lfd, waitsOn, reserved,
                   contexts, history>>

NoSocket(t) ==
  /\ \A f \in Fds : fdTable[f] # Free
  /\ Step(t, "socket", "idle")
  /\ UNCHANGED <<kernel, mFd, address, call, contexts, history>>

\* A socket lives while a number or a waiting accept() refers to it.
IsAlive(l) ==
  (\E f \in Fds : fdTable[f] = l) \/ (\E t \in Threads : l \in waitsOn[t])

\* IPV6_V6ONLY: the two families do not share addresses.
SocketAddress(e) == <<Protocol[e], address[e]>>

\* SO_REUSEADDR: only a listening socket keeps others off its address.
InUse(a) == \E l \in listening : IsAlive(l) /\ a \in boundTo[l]

\* The options and bind().
Bind(t) ==
  LET l == fdTable[svr_sock[t]]
      a == SocketAddress(EngineOf[t])
  IN
  /\ Step(t, "bind", "listen")
  /\ l \in Listeners \ listening /\ boundTo[l] = {}
  /\ ~InUse(a)
  /\ boundTo' = [boundTo EXCEPT ![l] = {a}]
  /\ UNCHANGED <<fdTable, listening, mFd, address, call, contexts, history>>

Listen(t) ==
  LET l == fdTable[svr_sock[t]] IN
  /\ Step(t, "listen", "assign")
  /\ l \in Listeners
  /\ \A a \in boundTo[l] : ~InUse(a)
  /\ listening' = listening \cup {l}
  /\ UNCHANGED <<fdTable, boundTo, mFd, address, call, contexts, history>>

\* setsockopt(), inet_pton(), bind() or listen() fails: return false, and
\* svr_sock is not closed.
SetupFails(t) ==
  /\ pc[t] \in {"bind", "listen"}
  /\ pc' = [pc EXCEPT ![t] = "idle"]
  /\ svr_sock' = [svr_sock EXCEPT ![t] = INVALID_FD]
  /\ abandoned' = abandoned + 1
  /\ UNCHANGED <<kernel, mFd, address, lfd, waitsOn, reserved, contexts,
                 starts, stops, stopped, caught, late>>

\* Mutant of AssignFd: the socket goes to the unused parameter fd instead.
AssignFd_Lost(t) ==
  /\ Step(t, "assign", "load")
  /\ svr_sock' = [svr_sock EXCEPT ![t] = INVALID_FD]
  /\ UNCHANGED <<kernel, mFd, address, lfd, waitsOn, reserved, contexts,
                 history>>

\* mFd = svr_sock.
AssignFd(t) ==
  /\ Step(t, "assign", "load")
  /\ mFd' = [mFd EXCEPT ![EngineOf[t]] = svr_sock[t]]
  /\ svr_sock' = [svr_sock EXCEPT ![t] = INVALID_FD]
  /\ UNCHANGED <<kernel, address, lfd, waitsOn, reserved, contexts, history>>

-----------------------------------------------------------------------------
(***************************************************************************)
(* run(): the accept loop.                                                 *)
(***************************************************************************)
LoadFd(t) ==
  /\ Step(t, "load", "accept")
  /\ lfd' = [lfd EXCEPT ![t] = mFd[EngineOf[t]]]
  /\ UNCHANGED <<kernel, mFd, address, svr_sock, waitsOn, reserved, contexts,
                 history>>

\* accept() takes its number, then waits on the socket it found; close()
\* by another thread does not end that wait.
AcceptWaits(t) ==
  /\ IsOpen(fdTable, lfd[t])
  /\ fdTable[lfd[t]] \in listening
  /\ Step(t, "accept", "blocked")
  /\ \E f \in Fds :
       /\ IsLowestFree(fdTable, f)
       /\ fdTable' = [fdTable EXCEPT ![f] = Reserved]
       /\ reserved' = [reserved EXCEPT ![t] = f]
  /\ waitsOn' = [waitsOn EXCEPT ![t] = {fdTable[lfd[t]]}]
  /\ lfd' = [lfd EXCEPT ![t] = INVALID_FD]
  /\ UNCHANGED <<boundTo, listening, mFd, address, svr_sock, contexts, history>>

\* EBADF, EINVAL (not a listening socket) or EMFILE: run() returns false.
AcceptRefused(t) ==
  /\ \/ ~IsOpen(fdTable, lfd[t])
     \/ IsOpen(fdTable, lfd[t]) /\ fdTable[lfd[t]] \notin listening
     \/ \A f \in Fds : fdTable[f] # Free
  /\ Step(t, "accept", "idle")
  /\ lfd' = [lfd EXCEPT ![t] = INVALID_FD]
  /\ UNCHANGED <<kernel, mFd, address, svr_sock, waitsOn, reserved, contexts,
                 history>>

\* accept() is over; its number now holds what.
AcceptEnds(t, to, what) ==
  /\ Step(t, "blocked", to)
  /\ fdTable' = [fdTable EXCEPT ![reserved[t]] = what]
  /\ reserved' = [reserved EXCEPT ![t] = INVALID_FD]
  /\ waitsOn' = [waitsOn EXCEPT ![t] = {}]
  /\ UNCHANGED <<boundTo, listening, mFd, address, svr_sock, lfd,
                 starts, stops, stopped, caught, abandoned>>

\* Any error while waiting, ECONNABORTED and EINTR included: return false.
AcceptAborts(t) ==
  /\ AcceptEnds(t, "idle", Free)
  /\ UNCHANGED <<contexts, late>>

ClosedByStop(l) == \E e \in Engines : l \in stopped[e]

\* A client comes and gets a context.
Admit(t, c) ==
  LET e == EngineOf[t] IN
  /\ context[c] = "none"
  /\ AcceptEnds(t, "load", c)
  /\ context' = [context EXCEPT ![c] = Protocol[e]]
  /\ mClientFd' = [mClientFd EXCEPT ![c] = reserved[t]]
  /\ late' = [p \in Threads \X Listeners |->
                IF p[1] = t /\ p[2] \in waitsOn[t] /\ ClosedByStop(p[2])
                THEN late[p] + 1 ELSE late[p]]
  /\ UNCHANGED destroyed

\* The context is queued for good and given to a new worker.
AcceptReturns(t, c) ==
  /\ Admit(t, c)
  /\ mSocketContextQueue' =
       [mSocketContextQueue EXCEPT ![EngineOf[t]] = @ \cup {c}]

\* Mutants of CloseContext: the number is not reset; 0 is taken for the
\* invalid descriptor.
CloseContext_KeepsFd(c) ==
  /\ mClientFd[c] # INVALID_FD
  /\ fdTable' = Closed(fdTable, mClientFd[c])
  /\ UNCHANGED <<boundTo, listening, mFd, address, pc, call, contexts, history>>

CloseContext_ZeroFd(c) ==
  /\ mClientFd[c] # INVALID_FD
  /\ fdTable' = Closed(fdTable, mClientFd[c])
  /\ mClientFd' = [mClientFd EXCEPT ![c] = 0]
  /\ UNCHANGED <<boundTo, listening, mFd, address, pc, call, context,
                 mSocketContextQueue, destroyed, history>>

\* A context gives up its descriptor.
CloseContext(c) ==
  /\ mClientFd[c] # INVALID_FD
  /\ fdTable' = Closed(fdTable, mClientFd[c])
  /\ mClientFd' = [mClientFd EXCEPT ![c] = INVALID_FD]
  /\ UNCHANGED <<boundTo, listening, mFd, address, pc, call, context,
                 mSocketContextQueue, destroyed, history>>

\* The worker of an IPv4 context closes its connection.
WorkerEnds(c) == context[c] = "v4" /\ CloseContext(c)

\* The members of an engine are destroyed, one context after the other.  An
\* IPv4 context lives on in its worker; for an IPv6 one the queue's is the
\* last pointer.
ReleaseContext(c) ==
  /\ \E e \in destroyed : c \in mSocketContextQueue[e]
  /\ context[c] = "v6"
  /\ CloseContext(c)

\* Mutant of DestroyEngine: the destructor closes mFd, which stop() may have
\* closed before.
DestroyEngine_ClosesFd(e) ==
  /\ e \in Destroyable \ destroyed
  /\ \A t \in Threads : EngineOf[t] = e => pc[t] = "idle"
  /\ \E t \in Threads : EngineOf[t] = e /\ starts[t] > 0
  /\ destroyed' = destroyed \cup {e}
  /\ fdTable' = Closed(fdTable, mFd[e])
  /\ UNCHANGED <<boundTo, listening, mFd, address, pc, call, context, mClientFd,
                 mSocketContextQueue, history>>

\* ~ITcpBrokerServerEngine() does not close mFd.
DestroyEngine(e) ==
  /\ e \in Destroyable \ destroyed
  /\ \A t \in Threads : EngineOf[t] = e => pc[t] = "idle"
  /\ \E t \in Threads : EngineOf[t] = e /\ starts[t] > 0
  /\ destroyed' = destroyed \cup {e}
  /\ abandoned' = IF IsOpen(fdTable, mFd[e]) THEN abandoned + 1 ELSE abandoned
  /\ UNCHANGED <<kernel, mFd, address, pc, call, context, mClientFd,
                 mSocketContextQueue, starts, stops, stopped, caught, late>>

-----------------------------------------------------------------------------
(***************************************************************************)
(* stop(), restart() and the setters.                                      *)
(***************************************************************************)

\* The listening socket that a number names: none or one.
Named(fd) == {l \in listening : fd \in Fds /\ fdTable[fd] = l}

\* stop() of e closes the socket that mFd names, beside those who wait on it.
NoteStop(e) ==
  /\ stopped' = [stopped EXCEPT ![e] = @ \cup Named(mFd[e])]
  /\ caught' = caught \cup {p \in Threads \X Named(mFd[e]) : p[2] \in waitsOn[p[1]]}

\* Mutant of CloseListener: the descriptor is left to the blocked accept().
CloseListener_Omitted(e) ==
  /\ stops[e] < MaxStops
  /\ stops' = [stops EXCEPT ![e] = @ + 1]
  /\ NoteStop(e)
  /\ UNCHANGED <<kernel, mFd, address, call, contexts, starts, late, abandoned>>

\* if (mFd != INVALID_FD) close(mFd); mFd is not reset.
CloseListener(e) ==
  /\ stops[e] < MaxStops
  /\ fdTable' = Closed(fdTable, mFd[e])
  /\ stops' = [stops EXCEPT ![e] = @ + 1]
  /\ NoteStop(e)
  /\ UNCHANGED <<boundTo, listening, mFd, address, call, contexts,
                 starts, late, abandoned>>

CallStop(t) ==
  /\ t \in Stoppers
  /\ Step(t, "idle", "idle")
  /\ CloseListener(EngineOf[t])

CallRestart(t) ==
  /\ t \in Stoppers
  /\ Step(t, "idle", "check")
  /\ CloseListener(EngineOf[t])

\* setListeningSocket(fd), with a socket that another engine listens on: it
\* takes effect only on an engine that already has one.
SetListeningSocket(t, f) ==
  LET e == EngineOf[t] IN
  /\ t \in Setters
  /\ abandoned < MaxAbandoned
  /\ pc[t] = "idle"
  /\ fdTable[f] \in listening /\ mFd[e] # f
  /\ mFd[e] # INVALID_FD
  /\ mFd' = [mFd EXCEPT ![e] = f]
  /\ abandoned' = abandoned + 1
  /\ UNCHANGED <<kernel, address, pc, call, contexts,
                 starts, stops, stopped, caught, late>>

\* setListeningAddress() and setListeningPort().
SetListeningAddress(t, a) ==
  /\ t \in Setters
  /\ pc[t] = "idle"
  /\ address' = [address EXCEPT ![EngineOf[t]] = a]
  /\ UNCHANGED <<kernel, mFd, pc, call, contexts, history>>

-----------------------------------------------------------------------------
StartThread(t) ==
  \/ CheckFd(t)
  \/ CreateSocket(t)
  \/ NoSocket(t)
  \/ Bind(t)
  \/ Listen(t)
  \/ SetupFails(t)
  \/ AssignFd(t)
  \/ LoadFd(t)
  \/ AcceptWaits(t)
  \/ AcceptRefused(t)

Caller(t) ==
  /\ EngineOf[t] \notin destroyed
  /\ \/ CallStart(t)
     \/ CallStop(t)
     \/ CallRestart(t)
     \/ \E f \in Fds : SetListeningSocket(t, f)
     \/ \E a \in Addresses : SetListeningAddress(t, a)

Network(t) == AcceptAborts(t) \/ \E c \in Clients : AcceptReturns(t, c)

Next ==
  \/ \E t \in Threads : StartThread(t) \/ Caller(t) \/ Network(t)
  \/ \E c \in Clients : WorkerEnds(c) \/ ReleaseContext(c)
  \/ \E e \in Engines : DestroyEngine(e)

Spec == Init /\ [][Next]_vars

\* A thread inside start() that can run does; clients come when they like.
FairSpec == Spec /\ \A t \in Threads : WF_vars(StartThread(t))

-----------------------------------------------------------------------------
(***************************************************************************)
(* Properties.                                                             *)
(***************************************************************************)
connectionStatus ==
  [c \in Clients |-> IF context[c] = "none" THEN "absent"
                     ELSE IF mClientFd[c] # INVALID_FD THEN "open"
                     ELSE "closed"]

connectionTable ==
  [f \in Fds |-> IF fdTable[f] \in Clients THEN fdTable[f] ELSE Free]

Lifecycle == INSTANCE ConnectionLifecycle
               WITH status <- connectionStatus, fdTable <- connectionTable

(***************************************************************************)
(* However often start() and stop() are called, connections are left       *)
(* alone.  True of TcpServer, whose stop() forgets the number it closed;   *)
(* of the engine as far as the next property says.                         *)
(***************************************************************************)
ImplementsLifecycle == Lifecycle!LifecycleSpec

(***************************************************************************)
(* Engines that start, fail to start, stop and are destroyed beside their  *)
(* workers leave the connections alone, until one engine is stopped a      *)
(* second time: no failed start(), no first stop() of a descriptor that    *)
(* accept() still uses and no engine that ends frees or renames another's  *)
(* client, although all of them draw on one table.  A second stop() closes *)
(* whatever the number kept in mFd names by then; so does a first stop()   *)
(* of an engine that setListeningSocket() gave the number of another, so   *)
(* that setters and stoppers are taken to work on different engines.       *)
(***************************************************************************)
LifecycleUntilSecondStop ==
  /\ Lifecycle!LifecycleInit
  /\ [][(\A e \in Engines : stops[e] <= 1)' =>
          \/ Lifecycle!LifecycleNext
          \/ UNCHANGED <<connectionStatus, connectionTable>>]_vars

\* The listening descriptors that no engine and no running start() names.
Orphans ==
  {f \in Fds : /\ fdTable[f] \in Listeners
               /\ \A e \in Engines \ destroyed : mFd[e] # f
               /\ \A t \in Threads : svr_sock[t] # f}

(***************************************************************************)
(* A listening descriptor is lost only by a start() that failed after      *)
(* socket(), a setListeningSocket() that replaced it or an engine that was *)
(* destroyed, one for each: threads that race through start() of one       *)
(* engine lose no other, as long as nobody gives it another address        *)
(* between two of them, when both may bind, and no second stop() has put   *)
(* a stale number back into play.                                          *)
(***************************************************************************)
LeakBound == Cardinality(Orphans) <= abandoned

(***************************************************************************)
(* Once stop() has closed a listening socket, a thread that was waiting in *)
(* accept() on it at that moment lets in at most one more of its clients,  *)
(* and every other thread lets in none, the one that had read mFd and not  *)
(* yet called accept() included: no later socket() and no number that is   *)
(* used again brings a closed socket back.                                 *)
(***************************************************************************)
LateClients ==
  \A p \in Threads \X Listeners : late[p] <= IF p \in caught THEN 1 ELSE 0

\* The engines that were neither stopped nor given the socket of another.
Reliable == {e \in Engines : stops[e] = 0 /\ \A t \in Setters : EngineOf[t] # e}

(***************************************************************************)
(* One engine does not end another's accept loop: accept() finds the       *)
(* socket its engine listens on, although the number was read before, and  *)
(* although other engines on the same table fail to start, are stopped,    *)
(* and are destroyed with a number in mFd that is long closed.  Excepted   *)
(* are an engine that was itself stopped or given another socket, and a    *)
(* second stop() of any, which closes whatever has the number by then.     *)
(***************************************************************************)
LoopKeepsListener ==
  (\A e \in Engines : stops[e] <= 1) =>
    \A t \in Threads :
      pc[t] = "accept" /\ EngineOf[t] \in Reliable =>
        IsOpen(fdTable, lfd[t]) /\ fdTable[lfd[t]] \in listening

(***************************************************************************)
(* A thread that comes back to the accept loop of a stopped engine leaves  *)
(* it, unless the number that stop() keeps in mFd has come to name a       *)
(* listening socket again, another engine's or that of a start() which was *)
(* past its check: then it serves that one.  It never waits again on a     *)
(* socket that stop() closed.                                              *)
(***************************************************************************)
StopTakesEffect ==
  \A t \in Threads :
    stopped[EngineOf[t]] # {} /\ pc[t] \in {"load", "accept"}
      ~> pc[t] = "idle" \/ \E l \in waitsOn[t] : ~ClosedByStop(l)

(***************************************************************************)
(* What restart() is for: the thread that calls it on a running engine     *)
(* waits for clients again, unless setting up the socket fails.            *)
(***************************************************************************)
RestartListens ==
  \A t \in Stoppers :
    stopped[EngineOf[t]] # {} /\ pc[t] = "check"
      ~> pc[t] = "blocked" \/ abandoned > 0
=============================================================================
