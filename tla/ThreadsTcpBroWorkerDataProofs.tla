------------------- MODULE ThreadsTcpBroWorkerDataProofs --------------------
(***************************************************************************)
(* What becomes of the bytes and of the connection itself, for any number  *)
(* of workers: whom a response reaches, what mRequest holds, and which     *)
(* connections doWork leaves open.  All three rest on the ownership of     *)
(* descriptors that ThreadsTcpBroWorkerProofs shows.                       *)
(***************************************************************************)
EXTENDS ThreadsTcpBroWorkerProofs

-----------------------------------------------------------------------------
(***************************************************************************)
(* Where the threads of one worker may be at the same time.                *)
(***************************************************************************)

\* The scope guard has reset mClientFd.
PastReset == {"enable", "interrupt", "notify", "done"}

\* An IPv6 context's threads return at once and leave mClientFd alone; an
\* IPv4 one's recv thread is past its guard only with mClientFd reset; doWork
\* joins the recv thread and then the send thread.
ThreadInv ==
  \A c \in Clients :
    /\ c \in V6Clients =>
         rpc[c] \in {"none", "done"} /\ spc[c] \in {"none", "done"}
    /\ c \in V6Clients /\ dpc[c] # "none" => mClientFd[c] # INVALID_FD
    /\ c \notin V6Clients /\ rpc[c] \in PastReset => mClientFd[c] = INVALID_FD
    /\ dpc[c] \notin {"none", "startRecv"} => rpc[c] # "none"
    /\ dpc[c] \in {"joinSend", "done"} => rpc[c] = "done"
    /\ dpc[c] = "done" => spc[c] = "done"

\* The number that send_bytes keeps is still mClientFd, unless the recv
\* thread has left its loop.
KeptInv ==
  \A c \in Clients :
    spc[c] = "send" /\ rpc[c] \notin ExitPc => sfd[c] = mClientFd[c]

\* The recv thread that has left its loop does not return to it.
RecvLeavesForGood == \A c \in Clients : rpc[c] \in ExitPc => rpc'[c] \in ExitPc

\* The thread in doWork.
LEMMA DoWorkThreads ==
  ASSUME TypeOK, GuardInv, ThreadInv, KeptInv, NEW c \in Clients, DoWork(c)
  PROVE  ThreadInv' /\ KeptInv' /\ RecvLeavesForGood
<1> USE DEF TypeOK, GuardInv, ThreadInv, KeptInv, RecvLeavesForGood, PastReset,
            DoWorkStep, DoWorkPc, ThreadEntry, ExitPc,
            env, ctx, flags, recvVars, sendVars
<1>1. CASE StartRecv(c)
  BY <1>1 DEF StartRecv
<1>2. CASE StartSend(c)
  BY <1>2 DEF StartSend
<1>3. CASE AssignSend(c)
  BY <1>3 DEF AssignSend
<1>4. CASE JoinRecv(c)
  BY <1>4 DEF JoinRecv
<1>5. CASE JoinSend(c)
  BY <1>5 DEF JoinSend
<1> HIDE DEF TypeOK, GuardInv, ThreadInv, KeptInv, RecvLeavesForGood
<1> QED
  BY <1>1, <1>2, <1>3, <1>4, <1>5 DEF DoWork

\* The recv thread.
LEMMA RecvThreads ==
  ASSUME TypeOK, GuardInv, ThreadInv, KeptInv, NEW c \in Clients, RecvThread(c)
  PROVE  ThreadInv' /\ KeptInv' /\ RecvLeavesForGood
<1> USE DEF TypeOK, GuardInv, ThreadInv, KeptInv, RecvLeavesForGood, PastReset,
            RecvStep, RecvReturns, ExitPc,
            env, ctx, flags, recvVars, sendVars
<1>1. CASE RecvInterruptionPoint(c)
  BY <1>1 DEF RecvInterruptionPoint
<1>2. CASE RecvGate(c)
  BY <1>2 DEF RecvGate
<1>3. CASE RecvLoadFd(c)
  BY <1>3 DEF RecvLoadFd
<1>4. CASE RecvCall(c)
  <2>1. /\ rpc[c] = "recv" /\ rpc' = [rpc EXCEPT ![c] = "blocked"]
        /\ UNCHANGED <<mClientFd, dpc, spc, sfd>>
    BY <1>4 DEF RecvCall
  <2> QED
    BY <2>1
<1>5. CASE RecvBadFd(c)
  BY <1>5 DEF RecvBadFd
<1>6. ASSUME NEW n \in 1..MaxSent, RecvData(c, n)
      PROVE  ThreadInv' /\ KeptInv' /\ RecvLeavesForGood
  <2>1. /\ rpc[c] = "blocked" /\ rpc' = [rpc EXCEPT ![c] = "loop"]
        /\ UNCHANGED <<mClientFd, dpc, spc, sfd>>
    BY <1>6 DEF RecvData
  <2> QED
    BY <2>1
<1>7. CASE RecvAgain(c)
  <2>1. /\ rpc[c] = "blocked" /\ rpc' = [rpc EXCEPT ![c] = "loop"]
        /\ UNCHANGED <<mClientFd, dpc, spc, sfd>>
    BY <1>7 DEF RecvAgain
  <2> QED
    BY <2>1
<1>8. CASE RecvEnd(c)
  <2>1. /\ rpc[c] = "blocked" /\ rpc' = [rpc EXCEPT ![c] = "close"]
        /\ UNCHANGED <<mClientFd, dpc, spc, sfd>>
    BY <1>8 DEF RecvEnd
  <2> QED
    BY <2>1
<1>9. CASE RecvClose(c)
  BY <1>9 DEF RecvClose
<1>10. CASE RecvReset(c)
  BY <1>10 DEF RecvReset
<1>11. CASE RecvEnablesWrite(c)
  BY <1>11 DEF RecvEnablesWrite
<1>12. CASE RecvInterruptsSend(c)
  BY <1>12 DEF RecvInterruptsSend
<1>13. CASE RecvNotifiesSend(c)
  BY <1>13 DEF RecvNotifiesSend
<1> HIDE DEF TypeOK, GuardInv, ThreadInv, KeptInv, RecvLeavesForGood
<1> QED
  BY <1>1, <1>2, <1>3, <1>4, <1>5, <1>6, <1>7, <1>8, <1>9, <1>10, <1>11,
     <1>12, <1>13 DEF RecvThread

\* The send thread.
LEMMA SendThreads ==
  ASSUME TypeOK, GuardInv, ThreadInv, KeptInv, NEW c \in Clients, SendThread(c)
  PROVE  ThreadInv' /\ KeptInv' /\ RecvLeavesForGood
<1> USE WorkerAssumption
    DEF TypeOK, GuardInv, ThreadInv, KeptInv, RecvLeavesForGood, PastReset,
        SendStep, SendBytesReturns, SendCallFails, ExitPc,
        env, ctx, flags, recvVars, sendVars
<1>1. CASE SendInterruptionPoint(c)
  BY <1>1 DEF SendInterruptionPoint
<1>2. CASE SendGate(c)
  BY <1>2 DEF SendGate
<1>3. CASE SendCopiesResponse(c)
  BY <1>3 DEF SendCopiesResponse
<1>4. CASE SendLoadFd(c)
  BY <1>4 DEF SendLoadFd
<1>5. ASSUME NEW n \in 1..MaxResponse, SendSome(c, n)
      PROVE  ThreadInv' /\ KeptInv' /\ RecvLeavesForGood
  BY <1>5 DEF SendSome
<1>6. CASE SendFails(c)
  BY <1>6 DEF SendFails
<1>7. CASE SendSigPipe(c)
  BY <1>7 DEF SendSigPipe
<1>8. CASE SendReturnsFalse(c)
  BY <1>8 DEF SendReturnsFalse
<1>9. CASE SendReturnsTrue(c)
  BY <1>9 DEF SendReturnsTrue
<1>10. CASE SendClose(c)
  BY <1>10 DEF SendClose
<1>11. CASE SendReset(c)
  BY <1>11 DEF SendReset
<1>12. CASE SendEnablesRead(c)
  BY <1>12 DEF SendEnablesRead
<1>13. CASE SendInterruptsRecv(c)
  BY <1>13 DEF SendInterruptsRecv
<1>14. CASE SendNotifiesRecv(c)
  BY <1>14 DEF SendNotifiesRecv
<1> HIDE DEF TypeOK, GuardInv, ThreadInv, KeptInv, RecvLeavesForGood
<1> QED
  BY <1>1, <1>2, <1>3, <1>4, <1>5, <1>6, <1>7, <1>8, <1>9, <1>10, <1>11,
     <1>12, <1>13, <1>14 DEF SendThread

\* The accept loop, the program, the peers and the condition variables.
LEMMA EnvironmentThreads ==
  ASSUME TypeOK, GuardInv, ThreadInv, KeptInv, NEW c \in Clients, Environment(c)
  PROVE  ThreadInv' /\ KeptInv' /\ RecvLeavesForGood
<1> USE WorkerAssumption, FdsAssumption
    DEF TypeOK, GuardInv, ThreadInv, KeptInv, RecvLeavesForGood, PastReset,
        RecvStep, SendStep, ExitPc, INVALID_FD,
        env, ctx, flags, recvVars, sendVars
<1>1. CASE Accept(c)
  <2>1. PICK f \in Fds : ServeOn(c, f)
    BY <1>1 DEF Accept
  <2> QED
    BY <2>1 DEF ServeOn
<1>2. CASE App(c)
  <2>1. UNCHANGED <<mClientFd, dpc, rpc, spc, sfd>>
    BY <1>2 DEF App, SetReadEvent, SetWriteEvent, SetResponse
  <2> QED
    BY <2>1
<1>3. CASE PeerSends(c)
  BY <1>3 DEF PeerSends
<1>4. CASE PeerCloses(c)
  BY <1>4 DEF PeerCloses
<1>5. CASE RecvSpuriousWakeup(c)
  BY <1>5 DEF RecvSpuriousWakeup
<1>6. CASE SendSpuriousWakeup(c)
  BY <1>6 DEF SendSpuriousWakeup
<1> HIDE DEF TypeOK, GuardInv, ThreadInv, KeptInv, RecvLeavesForGood
<1> QED
  BY <1>1, <1>2, <1>3, <1>4, <1>5, <1>6 DEF Environment

\* Every step of the system.
LEMMA NextThreads ==
  ASSUME TypeOK, GuardInv, ThreadInv, KeptInv, [Next]_vars
  PROVE  ThreadInv' /\ KeptInv' /\ RecvLeavesForGood
<1>1. CASE UNCHANGED vars
  BY <1>1 DEF vars, ctx, recvVars, sendVars, ThreadInv, KeptInv,
              RecvLeavesForGood
<1>2. CASE Next
  BY <1>2, DoWorkThreads, RecvThreads, SendThreads, EnvironmentThreads DEF Next
<1> QED
  BY <1>1, <1>2

\* The control of every worker, on top of who owns which descriptor.
ControlInv == OwnerInv /\ ThreadInv /\ KeptInv

\* ControlInv holds in every reachable state.
LEMMA ControlInvariant == Spec => []ControlInv
<1>1. Init => ThreadInv /\ KeptInv
  BY DEF Init, ThreadInv, KeptInv, PastReset
<1>2. OwnerInv /\ ThreadInv /\ KeptInv /\ [Next]_vars => ThreadInv' /\ KeptInv'
  BY NextThreads DEF OwnerInv
<1> QED
  BY <1>1, <1>2, OwnerInvariant, PTL DEF Spec, ControlInv

\* When doWork returns, every IPv4 connection has been closed by one of its
\* threads and no IPv6 connection has, whatever the schedule and whatever
\* else the process accepted in the meantime.
THEOREM DoWorkReleases == Spec => []DoneWorkerReleases
<1>1. ControlInv => DoneWorkerReleases
  <2> SUFFICES ASSUME ControlInv, NEW c \in Clients, dpc[c] = "done"
               PROVE  connectionStatus[c] = "closed" <=> c \notin V6Clients
    BY DEF DoneWorkerReleases
  <2>1. rpc[c] = "done" /\ spc[c] = "done"
    BY DEF ControlInv, ThreadInv
  <2>2. mMutex[c] = "unlocked"
    BY <2>1 DEF ControlInv, OwnerInv, GuardInv, TypeOK
  <2>3. c \in V6Clients <=> mClientFd[c] # INVALID_FD
    BY <2>1 DEF ControlInv, ThreadInv, PastReset
  <2> QED
    BY <2>2, <2>3 DEF connectionStatus, IsServed
<1> QED
  BY <1>1, ControlInvariant, PTL

-----------------------------------------------------------------------------
(***************************************************************************)
(* Responses.                                                              *)
(***************************************************************************)

\* While neither guard has run, the number send_bytes keeps is that of the
\* worker's own connection.
LEMMA KeptNumberIsOwn ==
  ASSUME ControlInv, NEW c \in Clients,
         spc[c] = "send", rpc[c] \notin ExitPc, sfd[c] \in Fds
  PROVE  fdTable[sfd[c]] = c
<1>1. sfd[c] = mClientFd[c]
  BY DEF ControlInv, KeptInv
<1>2. dpc[c] # "none"
  BY DEF ControlInv, OwnerInv, GuardInv
<1>3. mMutex[c] = "unlocked"
  BY DEF ControlInv, OwnerInv, GuardInv, TypeOK, ExitPc
<1>4. IsServed(c)
  BY <1>1, <1>2, <1>3, FdsAssumption DEF IsServed, INVALID_FD
<1> QED
  BY <1>1, <1>4 DEF ControlInv, OwnerInv, DescriptorOwnership

\* Only send() adds to what a peer receives.
LEMMA InboxStep ==
  ASSUME [Next]_vars
  PROVE  \/ UNCHANGED inbox
         \/ \E c \in Clients : \E n \in 1..MaxResponse : SendSome(c, n)
<1> USE DEF env
<1>1. ASSUME NEW c \in Clients, DoWork(c) PROVE UNCHANGED inbox
  BY <1>1 DEF DoWork, StartRecv, StartSend, AssignSend, JoinRecv, JoinSend
<1>2. ASSUME NEW c \in Clients, RecvThread(c) PROVE UNCHANGED inbox
  BY <1>2 DEF RecvThread, RecvInterruptionPoint, RecvGate, RecvLoadFd, RecvCall,
         RecvBadFd, RecvData, RecvAgain, RecvEnd, RecvClose, RecvReset,
         RecvEnablesWrite, RecvInterruptsSend, RecvNotifiesSend
<1>3. ASSUME NEW c \in Clients, SendThread(c)
      PROVE  UNCHANGED inbox \/ \E n \in 1..MaxResponse : SendSome(c, n)
  BY <1>3 DEF SendThread, SendInterruptionPoint, SendGate, SendCopiesResponse,
         SendLoadFd, SendFails, SendSigPipe, SendReturnsFalse, SendReturnsTrue,
         SendClose, SendReset, SendEnablesRead, SendInterruptsRecv,
         SendNotifiesRecv
<1>4. ASSUME NEW c \in Clients, Environment(c) PROVE UNCHANGED inbox
  BY <1>4 DEF Environment, Accept, ServeOn, App, SetReadEvent, SetWriteEvent,
         SetResponse, PeerSends, PeerCloses, RecvSpuriousWakeup,
         SendSpuriousWakeup
<1>5. CASE UNCHANGED vars
  BY <1>5 DEF vars
<1> QED
  BY <1>1, <1>2, <1>3, <1>4, <1>5 DEF Next

\* A response of one client reaches another one only from a worker whose
\* recv thread has left its loop, however numbers are reused.
THEOREM ResponsesReachOwner == Spec => []ResponseReachesOwner
<1>1. Init => ResponseReachesOwner
  BY DEF Init, ResponseReachesOwner
<1>2. ResponseReachesOwner /\ ControlInv /\ [Next]_vars => ResponseReachesOwner'
  <2> SUFFICES ASSUME ResponseReachesOwner, ControlInv, [Next]_vars,
                      NEW c \in Clients, NEW d \in Clients,
                      c \in inbox'[d], c # d
               PROVE  rpc'[c] \in ExitPc
    BY DEF ResponseReachesOwner
  <2>1. RecvLeavesForGood
    BY NextThreads DEF ControlInv, OwnerInv
  <2>2. SUFFICES rpc[c] \in ExitPc
    BY <2>1 DEF RecvLeavesForGood
  <2>3. CASE c \in inbox[d]
    BY <2>3 DEF ResponseReachesOwner
  <2>4. CASE c \notin inbox[d]
    <3>1. PICK e \in Clients : \E n \in 1..MaxResponse : SendSome(e, n)
      BY <2>4, InboxStep
    <3>2. /\ spc[e] = "send" /\ sfd[e] \in Fds
          /\ inbox' = [inbox EXCEPT ![fdTable[sfd[e]]] = @ \cup {e}]
      BY <3>1 DEF SendSome, IsOpen
    <3>3. e = c /\ fdTable[sfd[e]] = d
      BY <3>2, <2>4 DEF ControlInv, OwnerInv, TypeOK
    <3> QED
      BY <3>2, <3>3, KeptNumberIsOwn
  <2> QED
    BY <2>3, <2>4
<1> QED
  BY <1>1, <1>2, ControlInvariant, PTL DEF Spec

-----------------------------------------------------------------------------
(***************************************************************************)
(* Requests, on sockets whose send() never returns 0 for a nonempty        *)
(* buffer: then the send thread leaves its loop only when interrupted.     *)
(***************************************************************************)

\* The send thread never leaves before the recv thread; what recv() is
\* called with is mClientFd, and the socket it waits on is the worker's.
StreamInv ==
  \A c \in Clients :
    /\ sendInterrupted[c] \/ spc[c] \in ExitPc => rpc[c] \in ExitPc
    /\ rpc[c] = "recv" => rfd[c] = mClientFd[c]
    /\ rsock[c] = c

\* The thread in doWork.
LEMMA DoWorkStream ==
  ASSUME ControlInv, StreamInv, NEW c \in Clients, DoWork(c)
  PROVE  StreamInv'
<1> USE DEF ControlInv, OwnerInv, TypeOK, GuardInv, ThreadInv, StreamInv,
            DoWorkStep, ThreadEntry, ExitPc,
            env, ctx, flags, recvVars, sendVars
<1>1. CASE StartRecv(c)
  BY <1>1 DEF StartRecv
<1>2. CASE StartSend(c)
  <2>1. /\ dpc[c] = "startSend" /\ spc' = [spc EXCEPT ![c] = ThreadEntry(c)]
        /\ UNCHANGED <<sendInterrupted, mClientFd, rpc, rfd, rsock>>
    BY <1>2 DEF StartSend
  <2>2. c \in V6Clients => rpc[c] = "done"
    BY <2>1
  <2> QED
    BY <2>1, <2>2
<1>3. CASE AssignSend(c)
  BY <1>3 DEF AssignSend
<1>4. CASE JoinRecv(c)
  BY <1>4 DEF JoinRecv
<1>5. CASE JoinSend(c)
  BY <1>5 DEF JoinSend
<1> HIDE DEF ControlInv, StreamInv
<1> QED
  BY <1>1, <1>2, <1>3, <1>4, <1>5 DEF DoWork

\* The recv thread.
LEMMA RecvStream ==
  ASSUME ControlInv, StreamInv, NEW c \in Clients, RecvThread(c)
  PROVE  StreamInv'
<1>0. TypeOK
  BY DEF ControlInv, OwnerInv
<1> USE <1>0 DEF TypeOK, StreamInv, RecvStep, RecvReturns, ExitPc,
            env, ctx, flags, recvVars, sendVars
<1>1. CASE RecvInterruptionPoint(c)
  BY <1>1 DEF RecvInterruptionPoint
<1>2. CASE RecvGate(c)
  BY <1>2 DEF RecvGate
<1>3. CASE RecvLoadFd(c)
  BY <1>3 DEF RecvLoadFd
<1>4. CASE RecvCall(c)
  <2>1. /\ rpc[c] = "recv" /\ rfd[c] \in Fds
        /\ rpc' = [rpc EXCEPT ![c] = "blocked"]
        /\ rsock' = [rsock EXCEPT ![c] = fdTable[rfd[c]]]
        /\ UNCHANGED <<sendInterrupted, spc, rfd, mClientFd>>
    BY <1>4 DEF RecvCall, IsOpen
  <2>2. rfd[c] = mClientFd[c] /\ spc[c] \notin ExitPc
    BY <2>1
  <2>3. dpc[c] # "none" /\ mMutex[c] = "unlocked"
    BY <2>1, <2>2 DEF ControlInv, OwnerInv, GuardInv
  <2>4. fdTable[rfd[c]] = c
    BY <2>1, <2>2, <2>3, FdsAssumption
       DEF ControlInv, OwnerInv, DescriptorOwnership, IsServed, INVALID_FD
  <2> QED
    BY <2>1, <2>4
<1>5. CASE RecvBadFd(c)
  BY <1>5 DEF RecvBadFd
<1>6. ASSUME NEW n \in 1..MaxSent, RecvData(c, n) PROVE StreamInv'
  <2>1. /\ rpc[c] = "blocked" /\ rpc' = [rpc EXCEPT ![c] = "loop"]
        /\ rfd' = [rfd EXCEPT ![c] = INVALID_FD]
        /\ rsock' = [rsock EXCEPT ![c] = c]
        /\ UNCHANGED <<sendInterrupted, spc, mClientFd>>
    BY <1>6 DEF RecvData
  <2> QED
    BY <2>1
<1>7. CASE RecvAgain(c)
  BY <1>7 DEF RecvAgain
<1>8. CASE RecvEnd(c)
  BY <1>8 DEF RecvEnd
<1>9. CASE RecvClose(c)
  BY <1>9 DEF RecvClose
<1>10. CASE RecvReset(c)
  BY <1>10 DEF RecvReset
<1>11. CASE RecvEnablesWrite(c)
  BY <1>11 DEF RecvEnablesWrite
<1>12. CASE RecvInterruptsSend(c)
  BY <1>12 DEF RecvInterruptsSend
<1>13. CASE RecvNotifiesSend(c)
  BY <1>13 DEF RecvNotifiesSend
<1> HIDE DEF StreamInv
<1> QED
  BY <1>1, <1>2, <1>3, <1>4, <1>5, <1>6, <1>7, <1>8, <1>9, <1>10, <1>11,
     <1>12, <1>13 DEF RecvThread

\* The send thread.
LEMMA SendStream ==
  ASSUME ~ZeroSend, ControlInv, StreamInv, NEW c \in Clients, SendThread(c)
  PROVE  StreamInv'
<1>0. TypeOK
  BY DEF ControlInv, OwnerInv
<1> USE <1>0 DEF TypeOK, StreamInv, SendStep, SendBytesReturns, SendCallFails,
            ExitPc, env, ctx, flags, recvVars, sendVars
<1>1. CASE SendInterruptionPoint(c)
  BY <1>1 DEF SendInterruptionPoint
<1>2. CASE SendGate(c)
  BY <1>2 DEF SendGate
<1>3. CASE SendCopiesResponse(c)
  BY <1>3 DEF SendCopiesResponse
<1>4. CASE SendLoadFd(c)
  BY <1>4 DEF SendLoadFd
<1>5. ASSUME NEW n \in 1..MaxResponse, SendSome(c, n) PROVE StreamInv'
  BY <1>5 DEF SendSome
<1>6. CASE SendFails(c)
  BY <1>6 DEF SendFails
<1>7. CASE SendSigPipe(c)
  BY <1>7 DEF SendSigPipe
<1>8. CASE SendReturnsFalse(c)
  BY <1>8 DEF SendReturnsFalse
<1>9. CASE SendReturnsTrue(c)
  BY <1>9 DEF SendReturnsTrue
<1>10. CASE SendClose(c)
  BY <1>10 DEF SendClose
<1>11. CASE SendReset(c)
  BY <1>11 DEF SendReset
<1>12. CASE SendEnablesRead(c)
  BY <1>12 DEF SendEnablesRead
<1>13. CASE SendInterruptsRecv(c)
  BY <1>13 DEF SendInterruptsRecv
<1>14. CASE SendNotifiesRecv(c)
  BY <1>14 DEF SendNotifiesRecv
<1> HIDE DEF StreamInv
<1> QED
  BY <1>1, <1>2, <1>3, <1>4, <1>5, <1>6, <1>7, <1>8, <1>9, <1>10, <1>11,
     <1>12, <1>13, <1>14 DEF SendThread

\* The accept loop, the program, the peers and the condition variables.
LEMMA EnvironmentStream ==
  ASSUME ControlInv, StreamInv, NEW c \in Clients, Environment(c)
  PROVE  StreamInv'
<1>0. TypeOK /\ GuardInv
  BY DEF ControlInv, OwnerInv
<1> USE <1>0 DEF TypeOK, StreamInv, RecvStep, SendStep, ExitPc,
            env, ctx, flags, recvVars, sendVars
<1>1. CASE Accept(c)
  <2>1. PICK f \in Fds : ServeOn(c, f)
    BY <1>1 DEF Accept
  <2>2. /\ rpc[c] = "none"
        /\ mClientFd' = [mClientFd EXCEPT ![c] = f]
        /\ UNCHANGED <<sendInterrupted, spc, rpc, rfd, rsock>>
    BY <2>1 DEF ServeOn, GuardInv
  <2> QED
    BY <2>2
<1>2. CASE App(c)
  <2>1. UNCHANGED <<sendInterrupted, mClientFd, spc, rpc, rfd, rsock>>
    BY <1>2 DEF App, SetReadEvent, SetWriteEvent, SetResponse
  <2> QED
    BY <2>1
<1>3. CASE PeerSends(c)
  BY <1>3 DEF PeerSends
<1>4. CASE PeerCloses(c)
  BY <1>4 DEF PeerCloses
<1>5. CASE RecvSpuriousWakeup(c)
  BY <1>5 DEF RecvSpuriousWakeup
<1>6. CASE SendSpuriousWakeup(c)
  BY <1>6 DEF SendSpuriousWakeup
<1> HIDE DEF StreamInv
<1> QED
  BY <1>1, <1>2, <1>3, <1>4, <1>5, <1>6 DEF Environment

\* StreamInv holds in every reachable state when send() never returns 0.
LEMMA StreamInvariant ==
  ASSUME ~ZeroSend
  PROVE  Spec => []StreamInv
<1>1. Init => StreamInv
  BY DEF Init, StreamInv, ExitPc
<1>2. ControlInv /\ StreamInv /\ [Next]_vars => StreamInv'
  <2> SUFFICES ASSUME ControlInv, StreamInv, [Next]_vars PROVE StreamInv'
    OBVIOUS
  <2>1. CASE UNCHANGED vars
    BY <2>1 DEF vars, ctx, flags, recvVars, sendVars, StreamInv
  <2>2. CASE Next
    BY <2>2, DoWorkStream, RecvStream, SendStream, EnvironmentStream DEF Next
  <2> QED
    BY <2>1, <2>2
<1> QED
  BY <1>1, <1>2, ControlInvariant, PTL DEF Spec

\* Only recv() takes from a stream or adds to a request.
LEMMA RequestStep ==
  ASSUME [Next]_vars
  PROVE  \/ UNCHANGED <<mRequest, consumed>>
         \/ \E c \in Clients : \E n \in 1..MaxSent : RecvData(c, n)
<1> USE DEF env, ctx
<1>1. ASSUME NEW c \in Clients, DoWork(c) PROVE UNCHANGED <<mRequest, consumed>>
  BY <1>1 DEF DoWork, StartRecv, StartSend, AssignSend, JoinRecv, JoinSend
<1>2. ASSUME NEW c \in Clients, RecvThread(c)
      PROVE  \/ UNCHANGED <<mRequest, consumed>>
             \/ \E n \in 1..MaxSent : RecvData(c, n)
  BY <1>2 DEF RecvThread, RecvInterruptionPoint, RecvGate, RecvLoadFd, RecvCall,
         RecvBadFd, RecvAgain, RecvEnd, RecvClose, RecvReset,
         RecvEnablesWrite, RecvInterruptsSend, RecvNotifiesSend
<1>3. ASSUME NEW c \in Clients, SendThread(c)
      PROVE  UNCHANGED <<mRequest, consumed>>
  BY <1>3 DEF SendThread, SendInterruptionPoint, SendGate, SendCopiesResponse,
         SendLoadFd, SendSome, SendFails, SendSigPipe, SendReturnsFalse,
         SendReturnsTrue, SendClose, SendReset, SendEnablesRead,
         SendInterruptsRecv, SendNotifiesRecv
<1>4. ASSUME NEW c \in Clients, Environment(c)
      PROVE  UNCHANGED <<mRequest, consumed>>
  BY <1>4 DEF Environment, Accept, ServeOn, App, SetReadEvent, SetWriteEvent,
         SetResponse, PeerSends, PeerCloses, RecvSpuriousWakeup,
         SendSpuriousWakeup
<1>5. CASE UNCHANGED vars
  BY <1>5 DEF vars
<1> QED
  BY <1>1, <1>2, <1>3, <1>4, <1>5 DEF Next

\* The first k bytes of a stream followed by the next n are its first k + n.
LEMMA StreamGrows ==
  ASSUME NEW c, NEW k \in Nat, NEW n \in Nat
  PROVE  [i \in 1..k |-> <<c, i>>] \o [i \in 1..n |-> <<c, k + i>>]
           = [i \in 1..(k + n) |-> <<c, i>>]
<1> DEFINE T == {c} \X Nat
           s == [i \in 1..k |-> <<c, i>>]
           t == [i \in 1..n |-> <<c, k + i>>]
           u == [i \in 1..(k + n) |-> <<c, i>>]
<1>1. s \in Seq(T) /\ Len(s) = k /\ \A i \in 1..k : s[i] = <<c, i>>
  OBVIOUS
<1>2. t \in Seq(T) /\ Len(t) = n /\ \A i \in 1..n : t[i] = <<c, k + i>>
  OBVIOUS
<1>3. u \in Seq(T) /\ Len(u) = k + n /\ \A i \in 1..(k + n) : u[i] = <<c, i>>
  OBVIOUS
<1> HIDE DEF T, s, t, u
<1>4. /\ s \o t \in Seq(T) /\ Len(s \o t) = k + n
      /\ \A i \in 1..(k + n) :
           (s \o t)[i] = IF i <= k THEN s[i] ELSE t[i - k]
  BY <1>1, <1>2, ConcatProperties
<1>5. \A i \in 1..(k + n) : (s \o t)[i] = u[i]
  <2> SUFFICES ASSUME NEW i \in 1..(k + n) PROVE (s \o t)[i] = u[i]
    OBVIOUS
  <2>0. i \in Nat /\ 1 <= i /\ i <= k + n /\ u[i] = <<c, i>>
    BY <1>3
  <2>1. CASE i <= k
    <3>1. i \in 1..k
      BY <2>0, <2>1
    <3>2. (s \o t)[i] = s[i]
      BY <2>1, <1>4
    <3> QED
      BY <2>0, <3>1, <3>2, <1>1
  <2>2. CASE i > k
    <3>1. i - k \in 1..n /\ k + (i - k) = i
      BY <2>0, <2>2
    <3>2. (s \o t)[i] = t[i - k]
      BY <2>0, <2>2, <1>4
    <3> QED
      BY <2>0, <3>1, <3>2, <1>2
  <2>3. i <= k \/ i > k
    BY <2>0
  <2> QED
    BY <2>1, <2>2, <2>3, Zenon
<1>6. s \o t = u
  BY <1>3, <1>4, <1>5, SeqEqual
<1> QED
  BY <1>6 DEF s, t, u

\* mRequest is exactly the stream of the context's own peer as far as recv()
\* has taken it, for any number of connections and any reuse of numbers.
THEOREM RequestsFaithful ==
  ASSUME ~ZeroSend
  PROVE  Spec => []RequestFaithful
<1>1. Init => RequestFaithful
  BY DEF Init, RequestFaithful
<1>2. RequestFaithful /\ ControlInv /\ StreamInv /\ [Next]_vars => RequestFaithful'
  <2> SUFFICES ASSUME RequestFaithful, ControlInv, StreamInv, [Next]_vars
               PROVE  RequestFaithful'
    OBVIOUS
  <2>1. CASE UNCHANGED <<mRequest, consumed>>
    BY <2>1 DEF RequestFaithful
  <2>2. ASSUME NEW c \in Clients, NEW n \in 1..MaxSent, RecvData(c, n)
        PROVE  RequestFaithful'
    <3>1. rsock[c] = c
      BY DEF StreamInv
    <3>2. consumed[c] \in Nat /\ n \in Nat
      BY WorkerAssumption DEF ControlInv, OwnerInv, TypeOK
    <3>3. /\ mRequest' = [mRequest EXCEPT ![c] =
                mRequest[c] \o [i \in 1..n |-> <<c, consumed[c] + i>>]]
          /\ consumed' = [consumed EXCEPT ![c] = consumed[c] + n]
      BY <2>2, <3>1 DEF RecvData
    <3>4. mRequest[c] = [i \in 1..consumed[c] |-> <<c, i>>]
      BY DEF RequestFaithful
    <3>5. mRequest[c] \o [i \in 1..n |-> <<c, consumed[c] + i>>]
            = [i \in 1..(consumed[c] + n) |-> <<c, i>>]
      <4> DEFINE k == consumed[c]
      <4>1. k \in Nat
        BY <3>2
      <4> HIDE DEF k
      <4>2. [i \in 1..k |-> <<c, i>>] \o [i \in 1..n |-> <<c, k + i>>]
              = [i \in 1..(k + n) |-> <<c, i>>]
        BY <4>1, <3>2, StreamGrows
      <4> QED
        BY <4>2, <3>4 DEF k
    <3>6. mRequest' = [mRequest EXCEPT ![c] =
                         [i \in 1..(consumed[c] + n) |-> <<c, i>>]]
      BY <3>3, <3>5
    <3>7. mRequest'[c] = [i \in 1..consumed'[c] |-> <<c, i>>]
      BY <3>3, <3>6 DEF ControlInv, OwnerInv, TypeOK
    <3>8. \A d \in Clients : d # c => /\ mRequest'[d] = mRequest[d]
                                      /\ consumed'[d] = consumed[d]
      BY <3>3, <3>6 DEF ControlInv, OwnerInv, TypeOK
    <3> QED
      BY <3>7, <3>8 DEF RequestFaithful
  <2> QED
    BY <2>1, <2>2, RequestStep
<1> QED
  BY <1>1, <1>2, ControlInvariant, StreamInvariant, PTL DEF Spec
=============================================================================
