--------------------- MODULE ThreadsTcpBroWorkerProofs ----------------------
(***************************************************************************)
(* ThreadsTcpBroWorker for any number of connections and descriptors, any  *)
(* amount of data, with and without a program that drives the workers.     *)
(*                                                                         *)
(* The argument about descriptors looks only at fdTable, mClientFd,        *)
(* mMutex, dpc, and whether a thread is between the close() and the reset  *)
(* of its scope guard.  A step either leaves all of that alone (Quiet), or *)
(* is an Accept, a close or a reset; three lemmas treat those.             *)
(***************************************************************************)
EXTENDS ThreadsTcpBroWorker, SizeTProofs, SequenceTheorems

-----------------------------------------------------------------------------
(***************************************************************************)
(* Types.                                                                  *)
(***************************************************************************)

\* The steps of the thread in doWork.
LEMMA DoWorkType ==
  ASSUME TypeOK, NEW c \in Clients, DoWork(c)
  PROVE  TypeOK'
<1> USE DEF TypeOK, DoWorkStep, DoWorkPc, RecvPc, SendPc, ExitPc, ThreadEntry,
            env, ctx, flags, recvVars, sendVars
<1>1. CASE StartRecv(c)
  BY <1>1 DEF StartRecv
<1>2. CASE StartSend(c)
  BY <1>2 DEF StartSend
<1>3. CASE AssignSend(c)
  BY <1>3 DEF AssignSend
<1>4. CASE JoinRecv(c)
  BY <1>4 DEF JoinRecv
<1>5. CASE JoinSend(c)
  BY <1>5 DEF JoinSend
<1> QED
  BY <1>1, <1>2, <1>3, <1>4, <1>5 DEF DoWork

\* recv() takes no byte that the peer p of the stream has not written.
LEMMA WithinStream ==
  ASSUME NEW p \in 0..MaxSent, NEW k \in 0..MaxSent, NEW n \in 1..MaxSent,
         n <= p - k
  PROVE  k \in Nat /\ n \in Nat /\ k + n <= MaxSent
  BY WorkerAssumption

\* The n bytes of d's stream after byte k, as mRequest records them.
LEMMA RecvChunkType ==
  ASSUME NEW d \in Clients, NEW k \in Nat, NEW n \in Nat, k + n <= MaxSent
  PROVE  [i \in 1..n |-> <<d, k + i>>] \in Seq(Clients \X (1..MaxSent))
<1>1. \A i \in 1..n : k + i \in 1..MaxSent
  BY WorkerAssumption
<1>2. [i \in 1..n |-> <<d, k + i>>] \in [1..n -> Clients \X (1..MaxSent)]
  BY <1>1
<1> QED
  BY <1>2

\* The steps of the recv thread.
LEMMA RecvThreadType ==
  ASSUME TypeOK, NEW c \in Clients, RecvThread(c)
  PROVE  TypeOK'
<1> USE WorkerAssumption, FdsAssumption, SizeModAssumption
    DEF TypeOK, RecvStep, RecvReturns, RecvPc, SendPc, ExitPc, IsOpen, Closed,
        env, ctx, flags, recvVars, sendVars
<1>1. CASE RecvInterruptionPoint(c)
  BY <1>1 DEF RecvInterruptionPoint
<1>2. CASE RecvGate(c)
  BY <1>2 DEF RecvGate
<1>3. CASE RecvLoadFd(c)
  BY <1>3 DEF RecvLoadFd
<1>4. CASE RecvCall(c)
  BY <1>4 DEF RecvCall
<1>5. CASE RecvBadFd(c)
  BY <1>5 DEF RecvBadFd
<1>6. ASSUME NEW n \in 1..MaxSent, RecvData(c, n)
      PROVE  TypeOK'
  <2> DEFINE d == rsock[c]
             chunk == [i \in 1..n |-> <<d, consumed[d] + i>>]
  <2>1. /\ d \in Clients /\ consumed[d] \in Nat /\ n \in Nat
        /\ consumed[d] + n <= MaxSent
    <3>1. d \in Clients
      OBVIOUS
    <3>2. peerSent[d] \in 0..MaxSent /\ consumed[d] \in 0..MaxSent
      BY <3>1
    <3>3. n <= peerSent[d] - consumed[d]
      BY <1>6 DEF RecvData
    <3> HIDE DEF d
    <3> QED
      BY <3>1, <3>2, <3>3, WithinStream, Zenon
  <2>2. chunk \in Seq(Clients \X (1..MaxSent))
    BY <2>1, RecvChunkType
  <2>3. mRequest[c] \in Seq(Clients \X (1..MaxSent))
    OBVIOUS
  <2>4. mRequest[c] \o chunk \in Seq(Clients \X (1..MaxSent))
    BY <2>2, <2>3, ConcatProperties, Zenon
  <2>5. mRequest' = [mRequest EXCEPT ![c] = mRequest[c] \o chunk]
    BY <1>6 DEF RecvData
  <2> HIDE DEF chunk
  <2>6. mRequest' \in [Clients -> Seq(Clients \X (1..MaxSent))]
    BY <2>4, <2>5
  <2>7. consumed' \in [Clients -> 0..MaxSent]
    <3>1. consumed' = [consumed EXCEPT ![d] = consumed[d] + n]
      BY <1>6 DEF RecvData
    <3>2. consumed[d] + n \in 0..MaxSent
      BY <2>1
    <3> QED
      BY <3>1, <3>2
  <2>8. /\ rpc' \in [Clients -> RecvPc]
        /\ rfd' \in [Clients -> Fds \cup {INVALID_FD}]
        /\ rsock' \in [Clients -> Clients]
    BY <1>6 DEF RecvData
  <2>9. UNCHANGED <<process, fdTable, peerSent, peerClosed, inbox, mClientFd,
                    mMutex, mResponse, flags, dpc, sendVars>>
    BY <1>6 DEF RecvData
  <2> QED
    BY <2>6, <2>7, <2>8, <2>9
<1>7. CASE RecvAgain(c)
  BY <1>7 DEF RecvAgain
<1>8. CASE RecvEnd(c)
  BY <1>8 DEF RecvEnd
<1>9. CASE RecvClose(c)
  BY <1>9 DEF RecvClose
<1>10. CASE RecvReset(c)
  BY <1>10 DEF RecvReset
<1>11. CASE RecvEnablesWrite(c)
  BY <1>11 DEF RecvEnablesWrite
<1>12. CASE RecvInterruptsSend(c)
  BY <1>12 DEF RecvInterruptsSend, SendAssigned
<1>13. CASE RecvNotifiesSend(c)
  BY <1>13 DEF RecvNotifiesSend
<1> QED
  BY <1>1, <1>2, <1>3, <1>4, <1>5, <1>6, <1>7, <1>8, <1>9, <1>10, <1>11,
     <1>12, <1>13 DEF RecvThread

\* The steps of the send thread.
LEMMA SendThreadType ==
  ASSUME TypeOK, NEW c \in Clients, SendThread(c)
  PROVE  TypeOK'
<1> USE WorkerAssumption, FdsAssumption, SizeModAssumption
    DEF TypeOK, SendStep, SendBytesReturns, SendCallFails, RecvPc, SendPc,
        ExitPc, IsOpen, Closed, env, ctx, flags, recvVars, sendVars
<1>1. CASE SendInterruptionPoint(c)
  BY <1>1 DEF SendInterruptionPoint
<1>2. CASE SendGate(c)
  BY <1>2 DEF SendGate
<1>3. CASE SendCopiesResponse(c)
  BY <1>3 DEF SendCopiesResponse
<1>4. CASE SendLoadFd(c)
  BY <1>4 DEF SendLoadFd
<1>5. ASSUME NEW n \in 1..MaxResponse, SendSome(c, n)
      PROVE  TypeOK'
  <2>1. n \in 0..(SizeMod - 1) /\ total[c] \in 0..(SizeMod - 1)
    OBVIOUS
  <2>2. AddSize(total[c], n) \in 0..(SizeMod - 1)
    BY <2>1, AddSizeType, Zenon
  <2>3. fdTable[sfd[c]] \in Clients
    BY <1>5 DEF SendSome
  <2>4. /\ total' = [total EXCEPT ![c] = AddSize(total[c], n)]
        /\ inbox' = [inbox EXCEPT ![fdTable[sfd[c]]] = @ \cup {c}]
        /\ UNCHANGED <<process, fdTable, peerSent, peerClosed, consumed, ctx,
                       flags, dpc, recvVars, spc, sfd, slen>>
    BY <1>5 DEF SendSome
  <2>5. total' \in [Clients -> 0..(SizeMod - 1)]
    BY <2>2, <2>4
  <2>6. inbox' \in [Clients -> SUBSET Clients]
    <3> DEFINE d == fdTable[sfd[c]]
    <3>1. inbox[d] \cup {c} \in SUBSET Clients
      BY <2>3
    <3>2. inbox' = [inbox EXCEPT ![d] = inbox[d] \cup {c}]
      BY <2>4
    <3> HIDE DEF d
    <3> QED
      BY <3>1, <3>2
  <2>7. UNCHANGED <<process, fdTable, peerSent, peerClosed, consumed, ctx,
                    flags, dpc, recvVars, spc, sfd, slen>>
    BY <2>4
  <2> QED
    BY <2>5, <2>6, <2>7
<1>6. CASE SendFails(c)
  <2>1. AddSize(total[c], AsSize(-1)) \in 0..(SizeMod - 1)
    BY AddMinusOne
  <2>2. /\ total' = [total EXCEPT ![c] = AddSize(total[c], AsSize(-1))]
        /\ process' \in {"up", "killed"}
        /\ UNCHANGED <<fdTable, env, ctx, flags, dpc, recvVars, spc, sfd, slen>>
    BY <1>6 DEF SendFails
  <2> QED
    BY <2>1, <2>2
<1>7. CASE SendSigPipe(c)
  BY <1>7 DEF SendSigPipe
<1>8. CASE SendReturnsFalse(c)
  BY <1>8 DEF SendReturnsFalse
<1>9. CASE SendReturnsTrue(c)
  <2>1. /\ spc' = [spc EXCEPT ![c] = "loop"]
        /\ sfd' = [sfd EXCEPT ![c] = INVALID_FD]
        /\ slen' = [slen EXCEPT ![c] = 0]
        /\ total' = [total EXCEPT ![c] = 0]
        /\ UNCHANGED <<process, fdTable, env, ctx, flags, dpc, recvVars>>
    BY <1>9 DEF SendReturnsTrue
  <2>2. spc' \in [Clients -> SendPc]
    BY <2>1
  <2>3. sfd' \in [Clients -> Fds \cup {INVALID_FD}]
    BY <2>1
  <2>4. slen' \in [Clients -> 0..MaxResponse]
    BY <2>1
  <2>5. total' \in [Clients -> 0..(SizeMod - 1)]
    BY <2>1
  <2>6. UNCHANGED <<process, fdTable, env, ctx, flags, dpc, recvVars>>
    BY <2>1
  <2> QED
    BY <2>2, <2>3, <2>4, <2>5, <2>6
<1>10. CASE SendClose(c)
  BY <1>10 DEF SendClose
<1>11. CASE SendReset(c)
  BY <1>11 DEF SendReset
<1>12. CASE SendEnablesRead(c)
  BY <1>12 DEF SendEnablesRead
<1>13. CASE SendInterruptsRecv(c)
  BY <1>13 DEF SendInterruptsRecv
<1>14. CASE SendNotifiesRecv(c)
  BY <1>14 DEF SendNotifiesRecv
<1> QED
  BY <1>1, <1>2, <1>3, <1>4, <1>5, <1>6, <1>7, <1>8, <1>9, <1>10, <1>11,
     <1>12, <1>13, <1>14 DEF SendThread

\* The steps of the accept loop, the program, the peers and the condition
\* variables.
LEMMA EnvironmentType ==
  ASSUME TypeOK, NEW c \in Clients, Environment(c)
  PROVE  TypeOK'
<1> USE WorkerAssumption, FdsAssumption
    DEF TypeOK, RecvStep, SendStep, DoWorkPc, RecvPc, SendPc, ExitPc,
        env, ctx, flags, recvVars, sendVars
<1>1. CASE Accept(c)
  BY <1>1 DEF Accept, ServeOn
<1>2. CASE App(c)
  <2>1. ASSUME NEW b \in BOOLEAN, SetReadEvent(c, b) PROVE TypeOK'
    BY <2>1 DEF SetReadEvent
  <2>2. ASSUME NEW b \in BOOLEAN, SetWriteEvent(c, b) PROVE TypeOK'
    BY <2>2 DEF SetWriteEvent
  <2>3. ASSUME NEW n \in 0..MaxResponse, SetResponse(c, n) PROVE TypeOK'
    BY <2>3 DEF SetResponse
  <2> HIDE DEF TypeOK
  <2> QED
    BY <1>2, <2>1, <2>2, <2>3 DEF App
<1>3. CASE PeerSends(c)
  <2>1. peerSent[c] + 1 \in 0..MaxSent
    BY <1>3 DEF PeerSends
  <2>2. peerSent' = [peerSent EXCEPT ![c] = peerSent[c] + 1]
    BY <1>3 DEF PeerSends
  <2>3. peerSent' \in [Clients -> 0..MaxSent]
    BY <2>1, <2>2
  <2>4. UNCHANGED <<process, fdTable, peerClosed, consumed, inbox, ctx, flags,
                    dpc, recvVars, sendVars>>
    BY <1>3 DEF PeerSends
  <2> QED
    BY <2>3, <2>4
<1>4. CASE PeerCloses(c)
  BY <1>4 DEF PeerCloses
<1>5. CASE RecvSpuriousWakeup(c)
  BY <1>5 DEF RecvSpuriousWakeup
<1>6. CASE SendSpuriousWakeup(c)
  BY <1>6 DEF SendSpuriousWakeup
<1> QED
  BY <1>1, <1>2, <1>3, <1>4, <1>5, <1>6 DEF Environment

-----------------------------------------------------------------------------
\* The initial state has the types.
LEMMA InitType == Init => TypeOK
  BY WorkerAssumption, FdsAssumption, SizeModAssumption
     DEF Init, TypeOK, DoWorkPc, RecvPc, SendPc, ExitPc

\* Every variable keeps its type: no thread appends to mRequest, advances
\* total_send or stores a descriptor beyond its range.
THEOREM TypeCorrect == Spec => []TypeOK
<1>1. TypeOK /\ [Next]_vars => TypeOK'
  <2> SUFFICES ASSUME TypeOK, [Next]_vars PROVE TypeOK'
    OBVIOUS
  <2>1. CASE UNCHANGED vars
    BY <2>1 DEF TypeOK, vars, env, ctx, flags, recvVars, sendVars
  <2>2. CASE Next
    BY <2>2, DoWorkType, RecvThreadType, SendThreadType, EnvironmentType
       DEF Next
  <2> QED
    BY <2>1, <2>2
<1> QED
  BY <1>1, InitType, PTL DEF Spec
-----------------------------------------------------------------------------
(***************************************************************************)
(* Descriptors.                                                            *)
(***************************************************************************)

\* Whoever holds mMutex is between the close() and the reset of its scope
\* guard; a thread does not run before doWork creates it.
GuardInv ==
  \A c \in Clients :
    /\ mMutex[c] = "recv" <=> rpc[c] = "reset"
    /\ mMutex[c] = "send" <=> spc[c] = "reset"
    /\ dpc[c] \in {"none", "startRecv"} => rpc[c] = "none"
    /\ dpc[c] \in {"none", "startRecv", "startSend"} => spc[c] = "none"
    /\ dpc[c] = "none" => mClientFd[c] = INVALID_FD

\* What a step does to the descriptors.
Quiet ==
  /\ UNCHANGED <<fdTable, mClientFd, mMutex>>
  /\ \A c \in Clients : dpc'[c] = "none" <=> dpc[c] = "none"

CloseStep(c) ==
  /\ dpc[c] # "none"
  /\ mMutex[c] = "unlocked"
  /\ \E who \in {"recv", "send"} : mMutex' = [mMutex EXCEPT ![c] = who]
  /\ fdTable' = Closed(fdTable, mClientFd[c])
  /\ UNCHANGED <<mClientFd, dpc>>

ResetStep(c) ==
  /\ mMutex[c] # "unlocked"
  /\ mMutex' = [mMutex EXCEPT ![c] = "unlocked"]
  /\ mClientFd' = [mClientFd EXCEPT ![c] = INVALID_FD]
  /\ UNCHANGED <<fdTable, dpc>>

StepKind ==
  \/ Quiet
  \/ \E c \in Clients : Accept(c) \/ CloseStep(c) \/ ResetStep(c)

\* The thread in doWork never touches a descriptor.
LEMMA DoWorkKind ==
  ASSUME TypeOK, GuardInv, NEW c \in Clients, DoWork(c)
  PROVE  GuardInv' /\ StepKind
<1> USE DEF TypeOK, GuardInv, StepKind, Quiet, CloseStep, ResetStep,
            DoWorkStep, DoWorkPc, ThreadEntry,
            env, ctx, flags, recvVars, sendVars
<1>1. CASE StartRecv(c)
  BY <1>1 DEF StartRecv
<1>2. CASE StartSend(c)
  BY <1>2 DEF StartSend
<1>3. CASE AssignSend(c)
  BY <1>3 DEF AssignSend
<1>4. CASE JoinRecv(c)
  BY <1>4 DEF JoinRecv
<1>5. CASE JoinSend(c)
  BY <1>5 DEF JoinSend
<1> HIDE DEF TypeOK, GuardInv, StepKind
<1> QED
  BY <1>1, <1>2, <1>3, <1>4, <1>5 DEF DoWork

\* The recv thread touches one only in its scope guard.
LEMMA RecvThreadKind ==
  ASSUME TypeOK, GuardInv, NEW c \in Clients, RecvThread(c)
  PROVE  GuardInv' /\ StepKind
<1> USE DEF TypeOK, GuardInv, StepKind, Quiet, CloseStep, ResetStep,
            RecvStep, RecvReturns,
            env, ctx, flags, recvVars, sendVars
<1>1. CASE RecvInterruptionPoint(c)
  BY <1>1 DEF RecvInterruptionPoint
<1>2. CASE RecvGate(c)
  BY <1>2 DEF RecvGate
<1>3. CASE RecvLoadFd(c)
  BY <1>3 DEF RecvLoadFd
<1>4. CASE RecvCall(c)
  BY <1>4 DEF RecvCall
<1>5. CASE RecvBadFd(c)
  BY <1>5 DEF RecvBadFd
<1>6. ASSUME NEW n \in 1..MaxSent, RecvData(c, n)
      PROVE  GuardInv' /\ StepKind
  BY <1>6 DEF RecvData
<1>7. CASE RecvAgain(c)
  BY <1>7 DEF RecvAgain
<1>8. CASE RecvEnd(c)
  BY <1>8 DEF RecvEnd
<1>9. CASE RecvClose(c)
  BY <1>9 DEF RecvClose
<1>10. CASE RecvReset(c)
  BY <1>10 DEF RecvReset
<1>11. CASE RecvEnablesWrite(c)
  BY <1>11 DEF RecvEnablesWrite
<1>12. CASE RecvInterruptsSend(c)
  BY <1>12 DEF RecvInterruptsSend
<1>13. CASE RecvNotifiesSend(c)
  BY <1>13 DEF RecvNotifiesSend
<1> HIDE DEF TypeOK, GuardInv, StepKind
<1> QED
  BY <1>1, <1>2, <1>3, <1>4, <1>5, <1>6, <1>7, <1>8, <1>9, <1>10, <1>11,
     <1>12, <1>13 DEF RecvThread

\* The send thread touches one only in its scope guard.
LEMMA SendThreadKind ==
  ASSUME TypeOK, GuardInv, NEW c \in Clients, SendThread(c)
  PROVE  GuardInv' /\ StepKind
<1> USE DEF TypeOK, GuardInv, StepKind, Quiet, CloseStep, ResetStep,
            SendStep, SendBytesReturns,
            SendCallFails, env, ctx, flags, recvVars, sendVars
<1>1. CASE SendInterruptionPoint(c)
  BY <1>1 DEF SendInterruptionPoint
<1>2. CASE SendGate(c)
  BY <1>2 DEF SendGate
<1>3. CASE SendCopiesResponse(c)
  BY <1>3 DEF SendCopiesResponse
<1>4. CASE SendLoadFd(c)
  BY <1>4 DEF SendLoadFd
<1>5. ASSUME NEW n \in 1..MaxResponse, SendSome(c, n)
      PROVE  GuardInv' /\ StepKind
  BY <1>5 DEF SendSome
<1>6. CASE SendFails(c)
  BY <1>6 DEF SendFails
<1>7. CASE SendSigPipe(c)
  BY <1>7 DEF SendSigPipe
<1>8. CASE SendReturnsFalse(c)
  BY <1>8 DEF SendReturnsFalse
<1>9. CASE SendReturnsTrue(c)
  BY <1>9 DEF SendReturnsTrue
<1>10. CASE SendClose(c)
  BY <1>10 DEF SendClose
<1>11. CASE SendReset(c)
  BY <1>11 DEF SendReset
<1>12. CASE SendEnablesRead(c)
  BY <1>12 DEF SendEnablesRead
<1>13. CASE SendInterruptsRecv(c)
  BY <1>13 DEF SendInterruptsRecv
<1>14. CASE SendNotifiesRecv(c)
  BY <1>14 DEF SendNotifiesRecv
<1> HIDE DEF TypeOK, GuardInv, StepKind
<1> QED
  BY <1>1, <1>2, <1>3, <1>4, <1>5, <1>6, <1>7, <1>8, <1>9, <1>10, <1>11,
     <1>12, <1>13, <1>14 DEF SendThread

\* Outside the threads only accept() touches one.
LEMMA EnvironmentKind ==
  ASSUME TypeOK, GuardInv, NEW c \in Clients, Environment(c)
  PROVE  GuardInv' /\ StepKind
<1> USE DEF TypeOK, GuardInv, StepKind, Quiet, CloseStep, ResetStep,
            RecvStep, SendStep,
            env, ctx, flags, recvVars, sendVars
<1>1. CASE Accept(c)
  <2>1. StepKind
    BY <1>1
  <2>2. PICK f \in Fds : ServeOn(c, f)
    BY <1>1 DEF Accept
  <2>3. GuardInv'
    BY <2>2 DEF ServeOn
  <2> QED
    BY <2>1, <2>3
<1>2. CASE App(c)
  BY <1>2 DEF App, SetReadEvent, SetWriteEvent, SetResponse
<1>3. CASE PeerSends(c)
  BY <1>3 DEF PeerSends
<1>4. CASE PeerCloses(c)
  BY <1>4 DEF PeerCloses
<1>5. CASE RecvSpuriousWakeup(c)
  BY <1>5 DEF RecvSpuriousWakeup
<1>6. CASE SendSpuriousWakeup(c)
  BY <1>6 DEF SendSpuriousWakeup
<1> HIDE DEF TypeOK, GuardInv, StepKind
<1> QED
  BY <1>1, <1>2, <1>3, <1>4, <1>5, <1>6 DEF Environment

\* Nothing is open and nothing is locked at the start.
LEMMA InitGuard == Init => GuardInv /\ DescriptorOwnership
  BY FdsAssumption DEF Init, GuardInv, DescriptorOwnership, IsServed

\* Every step of the system keeps GuardInv and is of one of the kinds.
LEMMA NextKind ==
  ASSUME TypeOK, GuardInv, [Next]_vars
  PROVE  GuardInv' /\ StepKind
<1>1. CASE UNCHANGED vars
  BY <1>1 DEF vars, ctx, flags, recvVars, sendVars, GuardInv, StepKind, Quiet
<1>2. CASE Next
  BY <1>2, DoWorkKind, RecvThreadKind, SendThreadKind, EnvironmentKind DEF Next
<1> QED
  BY <1>1, <1>2

\* DescriptorOwnership, one client and one number at a time.
Owns(c) ==
  dpc[c] # "none" /\ mClientFd[c] # INVALID_FD /\ mMutex[c] = "unlocked"
    => fdTable[mClientFd[c]] = c

OwnedBy(f, c) ==
  fdTable[f] = c => /\ dpc[c] # "none" /\ mMutex[c] = "unlocked"
                    /\ mClientFd[c] = f

\* The two forms agree, as every open number names a client.
LEMMA OwnershipPointwise ==
  ASSUME TypeOK
  PROVE  DescriptorOwnership <=> /\ \A c \in Clients : Owns(c)
                                 /\ \A f \in Fds, c \in Clients : OwnedBy(f, c)
  BY WorkerAssumption, FdsAssumption
     DEF TypeOK, DescriptorOwnership, IsServed, Owns, OwnedBy, INVALID_FD

\* Each kind of step keeps every open descriptor with its one owner.
LEMMA OwnershipStep ==
  ASSUME TypeOK, GuardInv, DescriptorOwnership, TypeOK', StepKind
  PROVE  DescriptorOwnership'
<1> USE WorkerAssumption, FdsAssumption DEF INVALID_FD
<1>0. /\ \A d \in Clients : /\ mClientFd[d] \in Fds \cup {INVALID_FD}
                            /\ mMutex[d] \in {"unlocked", "recv", "send"}
                            /\ d # Free
      /\ \A g \in Fds : fdTable[g] \in Clients \cup {Free}
  BY DEF TypeOK
<1>1. /\ \A d \in Clients : Owns(d)
      /\ \A g \in Fds, d \in Clients : OwnedBy(g, d)
  BY OwnershipPointwise
<1>2. SUFFICES /\ \A d \in Clients : Owns(d)'
               /\ \A g \in Fds, d \in Clients : OwnedBy(g, d)'
  <2>1. \A g \in Fds : fdTable'[g] \in Clients \cup {Free}
    BY DEF TypeOK
  <2> QED
    BY <2>1 DEF DescriptorOwnership, IsServed, Owns, OwnedBy
<1>3. CASE Quiet
  BY <1>1, <1>3 DEF Quiet, Owns, OwnedBy, TypeOK
<1>4. ASSUME NEW c \in Clients, Accept(c)
      PROVE  /\ \A d \in Clients : Owns(d)'
             /\ \A g \in Fds, d \in Clients : OwnedBy(g, d)'
  <2>1. PICK f \in Fds : fdTable[f] = Free /\ ServeOn(c, f)
    BY <1>4 DEF Accept
  <2>2. /\ dpc[c] = "none" /\ dpc'[c] = "startRecv"
        /\ fdTable'[f] = c /\ mClientFd'[c] = f
        /\ mMutex' = mMutex
        /\ \A g \in Fds : g # f => fdTable'[g] = fdTable[g]
        /\ \A d \in Clients : d # c => /\ mClientFd'[d] = mClientFd[d]
                                       /\ dpc'[d] = dpc[d]
    BY <2>1 DEF ServeOn, TypeOK
  <2>3. mMutex[c] = "unlocked"
    BY <1>0, <2>2 DEF GuardInv
  <2>4. ASSUME NEW d \in Clients PROVE Owns(d)'
    <3>1. CASE d = c
      BY <3>1, <2>2 DEF Owns
    <3>2. CASE d # c
      BY <3>2, <1>0, <1>1, <2>1, <2>2 DEF Owns
    <3> QED
      BY <3>1, <3>2
  <2>5. \A g \in Fds, d \in Clients : OwnedBy(g, d)'
    BY <1>1, <2>2, <2>3 DEF OwnedBy
  <2> QED
    BY <2>4, <2>5
<1>5. ASSUME NEW c \in Clients, CloseStep(c)
      PROVE  /\ \A d \in Clients : Owns(d)'
             /\ \A g \in Fds, d \in Clients : OwnedBy(g, d)'
  <2>1. /\ mMutex[c] = "unlocked" /\ mMutex'[c] # "unlocked"
        /\ \A d \in Clients : d # c => mMutex'[d] = mMutex[d]
        /\ mClientFd' = mClientFd /\ dpc' = dpc /\ dpc[c] # "none"
    BY <1>5 DEF CloseStep, TypeOK
  <2>2. ASSUME NEW g \in Fds PROVE fdTable[g] = c <=> g = mClientFd[c]
    <3>1. fdTable[g] = c => g = mClientFd[c]
      BY <1>1 DEF OwnedBy
    <3>2. g = mClientFd[c] => fdTable[g] = c
      BY <1>1, <2>1 DEF Owns
    <3> QED
      BY <3>1, <3>2
  <2>3. ASSUME NEW g \in Fds
        PROVE  fdTable'[g] = IF fdTable[g] = c THEN Free ELSE fdTable[g]
    <3>1. fdTable'[g] = IF g = mClientFd[c] /\ IsOpen(fdTable, mClientFd[c])
                        THEN Free ELSE fdTable[g]
      BY <1>5 DEF CloseStep, Closed
    <3>2. fdTable[g] = c => IsOpen(fdTable, g)
      BY DEF IsOpen
    <3> QED
      BY <2>2, <3>1, <3>2
  <2>4. ASSUME NEW d \in Clients PROVE Owns(d)'
    <3>1. CASE d = c
      BY <3>1, <2>1 DEF Owns
    <3>2. CASE d # c
      BY <3>2, <1>0, <1>1, <2>1, <2>3 DEF Owns
    <3> QED
      BY <3>1, <3>2
  <2>5. ASSUME NEW g \in Fds, NEW d \in Clients PROVE OwnedBy(g, d)'
    <3>1. fdTable'[g] = d => d # c /\ fdTable[g] = d
      BY <1>0, <2>3
    <3>2. OwnedBy(g, d)
      BY <1>1
    <3> QED
      BY <3>1, <3>2, <2>1 DEF OwnedBy
  <2> QED
    BY <2>4, <2>5
<1>6. ASSUME NEW c \in Clients, ResetStep(c)
      PROVE  /\ \A d \in Clients : Owns(d)'
             /\ \A g \in Fds, d \in Clients : OwnedBy(g, d)'
  <2>1. /\ fdTable' = fdTable /\ dpc' = dpc
        /\ mClientFd'[c] = INVALID_FD /\ mMutex[c] # "unlocked"
        /\ \A d \in Clients : d # c => /\ mMutex'[d] = mMutex[d]
                                       /\ mClientFd'[d] = mClientFd[d]
    BY <1>6 DEF ResetStep, TypeOK
  <2>2. \A d \in Clients : Owns(d)'
    BY <1>1, <2>1 DEF Owns
  <2>3. \A g \in Fds, d \in Clients : OwnedBy(g, d)'
    BY <1>1, <2>1 DEF OwnedBy
  <2> QED
    BY <2>2, <2>3
<1> QED
  BY <1>3, <1>4, <1>5, <1>6 DEF StepKind

\* The inductive invariant.
OwnerInv == TypeOK /\ GuardInv /\ DescriptorOwnership

\* OwnerInv holds in every reachable state.
THEOREM OwnerInvariant == Spec => []OwnerInv
<1>1. Init => OwnerInv
  BY InitType, InitGuard DEF OwnerInv
<1>2. OwnerInv /\ [Next]_vars /\ TypeOK' => OwnerInv'
  BY NextKind, OwnershipStep DEF OwnerInv
<1> QED
  BY <1>1, <1>2, TypeCorrect, PTL DEF Spec

\* However the two scope guards of each worker interleave and however the
\* numbers are reused, each open descriptor has exactly one context.
THEOREM Ownership == Spec => []DescriptorOwnership
<1>1. OwnerInv => DescriptorOwnership
  BY DEF OwnerInv
<1> QED
  BY <1>1, OwnerInvariant, PTL

-----------------------------------------------------------------------------
(***************************************************************************)
(* The connection lifecycle.                                               *)
(***************************************************************************)

\* Before the first accept every connection is absent.
LEMMA LifecycleStart == Init => Lifecycle!LifecycleInit
  BY DEF Init, Lifecycle!LifecycleInit, connectionStatus, IsServed,
         Lifecycle!Free, Free

\* An accept opens its connection, the first close closes it, and every
\* other step is invisible.
LEMMA LifecycleStep ==
  ASSUME OwnerInv, OwnerInv', StepKind
  PROVE  [Lifecycle!LifecycleNext]_<<connectionStatus, fdTable>>
<1> USE WorkerAssumption, FdsAssumption DEF OwnerInv, INVALID_FD
<1>1. CASE Quiet
  <2>1. connectionStatus' = connectionStatus
    BY <1>1 DEF Quiet, connectionStatus, IsServed
  <2> QED
    BY <1>1, <2>1 DEF Quiet
<1>2. ASSUME NEW c \in Clients, Accept(c)
      PROVE  Lifecycle!OpenConnection(c)
  <2>1. PICK f \in Fds : fdTable[f] = Free /\ ServeOn(c, f)
    BY <1>2 DEF Accept
  <2>2. /\ fdTable' = [fdTable EXCEPT ![f] = c]
        /\ mClientFd' = [mClientFd EXCEPT ![c] = f]
        /\ dpc' = [dpc EXCEPT ![c] = "startRecv"]
        /\ mMutex' = mMutex
        /\ dpc[c] = "none"
    BY <2>1 DEF ServeOn
  <2>3. mMutex[c] = "unlocked"
    BY <2>2 DEF GuardInv, TypeOK
  <2>4. connectionStatus[c] = "absent"
    BY <2>2 DEF connectionStatus
  <2>5. connectionStatus' = [connectionStatus EXCEPT ![c] = "open"]
    <3>1. /\ dpc'[c] # "none" /\ mClientFd'[c] # INVALID_FD
          /\ mMutex'[c] = "unlocked"
      BY <2>2, <2>3 DEF TypeOK
    <3>2. \A d \in Clients : d # c => /\ dpc'[d] = dpc[d]
                                      /\ mClientFd'[d] = mClientFd[d]
                                      /\ mMutex'[d] = mMutex[d]
      BY <2>2 DEF TypeOK
    <3> QED
      BY <3>1, <3>2 DEF connectionStatus, IsServed
  <2> QED
    BY <2>1, <2>2, <2>4, <2>5 DEF Lifecycle!OpenConnection, Lifecycle!Free, Free
<1>3. ASSUME NEW c \in Clients, CloseStep(c)
      PROVE  \/ Lifecycle!CloseConnection(c)
             \/ UNCHANGED <<connectionStatus, fdTable>>
  <2>1. /\ fdTable' = Closed(fdTable, mClientFd[c])
        /\ mMutex'[c] # "unlocked" /\ mMutex[c] = "unlocked"
        /\ \A d \in Clients : d # c => mMutex'[d] = mMutex[d]
        /\ mClientFd' = mClientFd /\ dpc' = dpc /\ dpc[c] # "none"
    BY <1>3 DEF CloseStep, TypeOK
  <2>2. CASE mClientFd[c] = INVALID_FD
    <3>1. fdTable' = fdTable
      BY <2>1, <2>2 DEF Closed, TypeOK
    <3>2. connectionStatus' = connectionStatus
      BY <2>1, <2>2 DEF connectionStatus, IsServed
    <3> QED
      BY <3>1, <3>2
  <2>3. CASE mClientFd[c] # INVALID_FD
    <3>1. IsServed(c) /\ mClientFd[c] \in Fds /\ fdTable[mClientFd[c]] = c
      BY <2>1, <2>3 DEF IsServed, DescriptorOwnership, TypeOK
    <3>2. fdTable' = [fdTable EXCEPT ![mClientFd[c]] = Free]
      BY <2>1, <3>1 DEF Closed, IsOpen, TypeOK
    <3>3. connectionStatus[c] = "open"
      BY <2>1, <3>1 DEF connectionStatus
    <3>4. connectionStatus' = [connectionStatus EXCEPT ![c] = "closed"]
      BY <2>1 DEF connectionStatus, IsServed
    <3> QED
      BY <3>1, <3>2, <3>3, <3>4
         DEF Lifecycle!CloseConnection, Lifecycle!Free, Free
  <2> QED
    BY <2>2, <2>3
<1>4. ASSUME NEW c \in Clients, ResetStep(c)
      PROVE  UNCHANGED <<connectionStatus, fdTable>>
  <2>1. /\ fdTable' = fdTable /\ dpc' = dpc
        /\ mClientFd'[c] = INVALID_FD /\ mMutex[c] # "unlocked"
        /\ \A d \in Clients : d # c => /\ mMutex'[d] = mMutex[d]
                                       /\ mClientFd'[d] = mClientFd[d]
    BY <1>4 DEF ResetStep, TypeOK
  <2>2. connectionStatus' = connectionStatus
    BY <2>1 DEF connectionStatus, IsServed
  <2> QED
    BY <2>1, <2>2
<1> QED
  BY <1>1, <1>2, <1>3, <1>4 DEF StepKind, Lifecycle!LifecycleNext

\* The workers implement the connection lifecycle: each connection is opened
\* once and closed at most once, and only its own descriptor is freed.
THEOREM Refinement == Spec => ImplementsLifecycle
<1>1. OwnerInv /\ OwnerInv' /\ [Next]_vars
        => [Lifecycle!LifecycleNext]_<<connectionStatus, fdTable>>
  BY NextKind, LifecycleStep DEF OwnerInv
<1> QED
  BY <1>1, LifecycleStart, OwnerInvariant, PTL
     DEF Spec, ImplementsLifecycle, Lifecycle!LifecycleSpec,
         Lifecycle!lifecycleVars
=============================================================================
