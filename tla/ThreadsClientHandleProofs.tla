--------------------- MODULE ThreadsClientHandleProofs ----------------------
(***************************************************************************)
(* Proofs about the echo handlers of the older servers, for any number of  *)
(* clients of either family.                                               *)
(***************************************************************************)
EXTENDS ThreadsClientHandle, SizeTProofs, SequenceTheorems,
        WellFoundedInduction

(***************************************************************************)
(* What makes OnlyIPV6BringsDown inductive: an IPv4 send thread is never   *)
(* past its wait by a wakeup alone.                                        *)
(***************************************************************************)
WaitInv ==
  /\ spc \in [Clients -> SendPc]
  /\ \A c \in Clients \ V6Clients : spc[c] # "woken"
  /\ OnlyIPV6BringsDown

\* The steps of the recv thread: they change spc by a notify at most.
LEMMA RecvKeepsWait ==
  ASSUME WaitInv, NEW c \in Clients, RecvThread(c)
  PROVE  WaitInv'
<1>1. process = "up" /\ process' = "up"
  BY DEF RecvThread, RecvLoadFd, RecvCall, RecvBadFd, RecvData, RecvTimesOut,
         RecvEnd, RecvNotify, RecvClose, RecvReset, RecvWake
<1>2. \/ spc' = spc
      \/ spc' = [spc EXCEPT ![c] = IF @ = "asleep" THEN Awake(c) ELSE @]
  BY DEF RecvThread, RecvLoadFd, RecvCall, RecvBadFd, RecvData, RecvTimesOut,
         RecvEnd, RecvNotify, RecvClose, RecvReset, RecvWake, NotifySend,
         sendVars
<1>3. OnlyIPV6BringsDown'
  BY <1>1 DEF OnlyIPV6BringsDown
<1>4. CASE spc' = spc
  BY <1>3, <1>4 DEF WaitInv
<1>5. CASE spc' = [spc EXCEPT ![c] = IF @ = "asleep" THEN Awake(c) ELSE @]
  BY <1>3, <1>5 DEF WaitInv, Awake, SendPc
<1>6. QED
  BY <1>2, <1>4, <1>5

\* The steps of the send thread: two of them end the process.
LEMMA SendKeepsWait ==
  ASSUME WaitInv, NEW c \in Clients, SendThread(c)
  PROVE  WaitInv'
<1>1. process = "up"
  BY DEF SendThread
<1>2. CASE SendTakesNothing(c)
  <2>1. spc[c] = "woken" /\ spc' = spc /\ mMessageQueue' = mMessageQueue
    BY <1>2 DEF SendTakesNothing, PastWait, sendVars, ctx
  <2>2. c \in V6Clients /\ process' = "undefined"
    BY <1>2, <2>1 DEF WaitInv, SendTakesNothing
  <2>3. mMessageQueue[c] = <<>>
    BY <1>2 DEF SendTakesNothing
  <2>4. QED
    BY <2>1, <2>2, <2>3 DEF WaitInv, OnlyIPV6BringsDown, PastWait
<1>3. CASE SendSigPipe(c)
  <2>1. spc[c] = "send" /\ spc' = spc /\ c \in V6Clients /\ process' = "killed"
    BY <1>3 DEF SendSigPipe, sendVars
  <2>2. QED
    BY <2>1 DEF WaitInv, OnlyIPV6BringsDown
<1>4. CASE \/ SendWaits(c) \/ SendLeaves(c) \/ SendTakes(c) \/ SendLoadFd(c)
           \/ \E n \in 1..MaxSent : SendSome(c, n)
           \/ SendFails(c) \/ SendZero(c) \/ SendClose(c) \/ SendReset(c)
           \/ SendEnds(c)
  <2>1. process' = "up"
    BY <1>1, <1>4 DEF SendWaits, SendLeaves, SendTakes, SendLoadFd, SendSome,
           SendFails, SendZero, SendClose, SendReset, SendEnds
  <2>2. \/ spc' = [spc EXCEPT ![c] = "asleep"]
        \/ spc' = [spc EXCEPT ![c] = "gate"]
        \/ spc' = [spc EXCEPT ![c] = "loop"]
        \/ spc' = [spc EXCEPT ![c] = "send"]
        \/ spc' = [spc EXCEPT ![c] = "close"]
        \/ spc' = [spc EXCEPT ![c] = "reset"]
        \/ spc' = [spc EXCEPT ![c] = "done"]
    BY <1>4 DEF SendWaits, SendLeaves, SendTakes, SendLoadFd, SendSome,
           SendFails, SendZero, SendClose, SendReset, SendEnds, SendReturns,
           SendStep
  <2>3. PICK to \in SendPc \ {"woken"} : spc' = [spc EXCEPT ![c] = to]
    BY <2>2 DEF SendPc
  <2>4. OnlyIPV6BringsDown'
    BY <2>1 DEF OnlyIPV6BringsDown
  <2>5. QED
    BY <2>3, <2>4 DEF WaitInv
<1>5. QED
  BY <1>2, <1>3, <1>4 DEF SendThread

\* What the client and the acceptor do keeps the wait of the send thread in
\* order.
LEMMA EnvironmentKeepsWait ==
  ASSUME WaitInv, NEW c \in Clients, Environment(c)
  PROVE  WaitInv'
<1>1. process' = "up"
  BY DEF Environment, Accept, SpuriousWakeup, PeerSends, PeerCloses
<1>2. \/ spc' = spc
      \/ spc' = [spc EXCEPT ![c] = "gate"]
      \/ spc' = [spc EXCEPT ![c] = Awake(c)]
  BY DEF Environment, Accept, SpuriousWakeup, SendStep, PeerSends, PeerCloses,
         sendVars
<1>3. OnlyIPV6BringsDown'
  BY <1>1 DEF OnlyIPV6BringsDown
<1>4. CASE spc' = spc
  BY <1>3, <1>4 DEF WaitInv
<1>5. CASE spc' = [spc EXCEPT ![c] = "gate"]
  BY <1>3, <1>5 DEF WaitInv, SendPc
<1>6. CASE spc' = [spc EXCEPT ![c] = Awake(c)]
  BY <1>3, <1>6 DEF WaitInv, Awake, SendPc
<1>7. QED
  BY <1>2, <1>4, <1>5, <1>6

(***************************************************************************)
(* With any number of connections, whatever their peers, the scheduler and *)
(* mCond do, only an IPv6 handler can end the process: no IPv4 handler     *)
(* calls front() on an empty queue or takes a SIGPIPE.                     *)
(***************************************************************************)
THEOREM IPV4NeverBringsDown == Spec => []OnlyIPV6BringsDown
<1>1. Init => WaitInv
  BY DEF Init, WaitInv, OnlyIPV6BringsDown, SendPc
<1>2. WaitInv /\ [Next]_vars => WaitInv'
  <2>1. ASSUME WaitInv, Next PROVE WaitInv'
    BY <2>1, RecvKeepsWait, SendKeepsWait, EnvironmentKeepsWait DEF Next
  <2>2. ASSUME WaitInv, UNCHANGED vars PROVE WaitInv'
    BY <2>2 DEF WaitInv, OnlyIPV6BringsDown, PastWait, vars, ctx, sendVars
  <2>3. QED
    BY <2>1, <2>2
<1>3. WaitInv => OnlyIPV6BringsDown
  BY DEF WaitInv
<1>4. QED
  BY <1>1, <1>2, <1>3, PTL DEF Spec

-----------------------------------------------------------------------------
(***************************************************************************)
(* Messages.  What RecvMsg and SubSeq make of the bytes read from one      *)
(* stream consists of bytes of that stream; the lemmas are stated for any  *)
(* set S of bytes, to be used for the types and for who wrote what.        *)
(***************************************************************************)

\* A nonempty set of numbers has a smallest element.
LEMMA MinIsMember ==
  ASSUME NEW T \in SUBSET Nat, T # {}
  PROVE  Min(T) \in T /\ \A y \in T : Min(T) <= y
<1> DEFINE LessThan == {p \in Nat \X Nat : p[1] < p[2]}
<1>1. IsWellFoundedOn(LessThan, Nat)
  BY NatLessThanWellFounded, Zenon DEF OpToRel
<1>2. ASSUME NEW x \in T, NEW y \in T, ~(<<y, x>> \in LessThan)
      PROVE  x <= y
  <2>1. x \in Nat /\ y \in Nat
    OBVIOUS
  <2>2. ~(y < x)
    BY <1>2, <2>1
  <2> QED
    BY <2>1, <2>2
<1> HIDE DEF LessThan
<1>3. PICK x \in T : \A y \in T : ~(<<y, x>> \in LessThan)
  BY <1>1, WFMin
<1>4. \A y \in T : x <= y
  BY <1>2, <1>3
<1> QED
  BY <1>4 DEF Min

\* string(buf) is what comes before the first '\0'.
LEMMA CStringPrefix ==
  ASSUME NEW S, NEW buf \in Seq(S)
  PROVE  \E n \in 0..Len(buf) :
           /\ CString(buf) = SubSeq(buf, 1, n)
           /\ \A i \in 1..n : ~IsNul(buf[i])
           /\ n < Len(buf) => IsNul(buf[n + 1])
<1> DEFINE I == {i \in 1..Len(buf) : IsNul(buf[i])}
           k == SelectInSeq(buf, IsNul)
<1>0. k = IF I # {} THEN Min(I) ELSE 0
  BY DEF SelectInSeq
<1>1. CASE I = {}
  <2>1. CString(buf) = buf
    BY <1>0, <1>1 DEF CString
  <2>2. CString(buf) = SubSeq(buf, 1, Len(buf))
    BY <2>1, SubSeqFull
  <2>3. \A i \in 1..Len(buf) : ~IsNul(buf[i])
    BY <1>1
  <2> QED
    BY <2>2, <2>3
<1>2. CASE I # {}
  <2>1. I \in SUBSET Nat
    OBVIOUS
  <2>2. Min(I) \in I /\ \A i \in I : Min(I) <= i
    BY <1>2, <2>1, MinIsMember
  <2> DEFINE m == Min(I)
  <2>3. m \in 1..Len(buf) /\ IsNul(buf[m])
    BY <2>2
  <2>4. \A i \in 1..Len(buf) : IsNul(buf[i]) => m <= i
    BY <2>2
  <2>5. k = m
    BY <1>0, <1>2
  <2> HIDE DEF I, m, k
  <2>6. CString(buf) = SubSeq(buf, 1, m - 1)
    BY <2>3, <2>5 DEF CString, k
  <2>7. m - 1 \in 0..Len(buf) /\ (m - 1) + 1 = m
    BY <2>3
  <2>8. \A i \in 1..(m - 1) : ~IsNul(buf[i])
    BY <2>3, <2>4
  <2> QED
    BY <2>3, <2>6, <2>7, <2>8
<1> QED
  BY <1>1, <1>2

\* A message is made of the bytes read.
LEMMA RecvMsgType ==
  ASSUME NEW c, NEW S, NEW buf \in Seq(S)
  PROVE  RecvMsg(c, buf) \in Seq(S)
<1>1. PICK n \in 0..Len(buf) : CString(buf) = SubSeq(buf, 1, n)
  BY CStringPrefix
<1>2. \A i \in 1..n : buf[i] \in S
  OBVIOUS
<1>3. SubSeq(buf, 1, n) \in Seq(S)
  BY <1>2, SubSeqProperties
<1> QED
  BY <1>1, <1>3 DEF RecvMsg

\* The bytes recv() reads are the next ones of the stream it reads.
LEMMA BytesType ==
  ASSUME NEW d \in Clients, NEW n \in 1..MaxSent,
         peerSent[d] \in 0..MaxSent, consumed[d] \in 0..MaxSent,
         n <= peerSent[d] - consumed[d]
  PROVE  Bytes(d, n) \in Seq({d} \X (1..MaxSent))
<1> DEFINE k == consumed[d]
<1>1. k \in Nat /\ n \in Nat /\ k + n <= MaxSent
  BY HandleAssumption
<1> HIDE DEF k
<1>2. \A i \in 1..n : k + i \in 1..MaxSent
  BY <1>1, HandleAssumption
<1>3. [i \in 1..n |-> <<d, k + i>>] \in [1..n -> {d} \X (1..MaxSent)]
  BY <1>2
<1>4. [i \in 1..n |-> <<d, k + i>>] \in Seq({d} \X (1..MaxSent))
  BY <1>1, <1>3
<1> QED
  BY <1>4 DEF Bytes, k

\* What send() takes of a message is part of it.
LEMMA PartType ==
  ASSUME NEW S, NEW m \in Seq(S), NEW t \in Nat, NEW n \in Nat,
         n <= Len(m) - t
  PROVE  SubSeq(m, t + 1, t + n) \in Seq(S)
<1>1. \A i \in (t + 1)..(t + n) : m[i] \in S
  OBVIOUS
<1> QED
  BY <1>1, SubSeqProperties

\* The bytes that a handler's own peer wrote.
Own(c) == Seq({c} \X (1..MaxSent))

\* They are bytes that some peer wrote.
LEMMA OwnIsMessage ==
  ASSUME NEW c \in Clients
  PROVE  Own(c) \subseteq Message
<1>1. {c} \X (1..MaxSent) \subseteq Clients \X (1..MaxSent)
  OBVIOUS
<1> QED
  BY <1>1 DEF Own, Message

-----------------------------------------------------------------------------
(***************************************************************************)
(* Types.                                                                  *)
(***************************************************************************)

\* What recv() makes of the next bytes is a message of their stream.
LEMMA RecvDataMessage ==
  ASSUME TypeOK, NEW c \in Clients, NEW n \in 1..MaxSent, RecvData(c, n)
  PROVE  RecvMsg(c, Bytes(rsock[c], n)) \in Own(rsock[c])
<1> DEFINE d == rsock[c]
<1>1. d \in Clients
  BY DEF TypeOK
<1>2. peerSent[d] \in 0..MaxSent /\ consumed[d] \in 0..MaxSent
  BY <1>1 DEF TypeOK
<1>3. n <= peerSent[d] - consumed[d]
  BY DEF RecvData
<1> HIDE DEF d
<1>4. Bytes(d, n) \in Seq({d} \X (1..MaxSent))
  BY <1>1, <1>2, <1>3, BytesType
<1>5. RecvMsg(c, Bytes(d, n)) \in Seq({d} \X (1..MaxSent))
  BY <1>4, RecvMsgType
<1> QED
  BY <1>5 DEF Own, d

\* The steps of the recv thread.
LEMMA RecvThreadType ==
  ASSUME TypeOK, NEW c \in Clients, RecvThread(c)
  PROVE  TypeOK'
<1> USE DEF TypeOK, RecvStep, RecvReturns, ExitPc, Number, NotifySend, Awake,
            SendPc, peers, ctx, sendCall, sendVars
<1>1. CASE RecvLoadFd(c)
  BY <1>1 DEF RecvLoadFd
<1>2. CASE RecvCall(c)
  BY <1>2, HandleAssumption DEF RecvCall, IsOpen
<1>3. CASE RecvBadFd(c)
  BY <1>3 DEF RecvBadFd
<1>4. ASSUME NEW n \in 1..MaxSent, RecvData(c, n) PROVE TypeOK'
  <2> DEFINE d == rsock[c]
             m == RecvMsg(c, Bytes(d, n))
  <2>1. d \in Clients
    OBVIOUS
  <2>2. m \in Message
    BY <1>4, <2>1, RecvDataMessage, OwnIsMessage
  <2>3. /\ mMessageQueue' = [mMessageQueue EXCEPT ![c] = Append(mMessageQueue[c], m)]
        /\ consumed' = [consumed EXCEPT ![d] = consumed[d] + n]
        /\ n <= peerSent[d] - consumed[d]
    BY <1>4 DEF RecvData
  <2>4. mMessageQueue' \in [Clients -> Seq(Message)]
    <3> HIDE DEF m
    <3>1. Append(mMessageQueue[c], m) \in Seq(Message)
      BY <2>2, AppendProperties
    <3> QED
      BY <2>3, <3>1
  <2>5. consumed' \in [Clients -> 0..MaxSent]
    <3>1. consumed[d] + n \in 0..MaxSent
      BY <2>1, <2>3, HandleAssumption
    <3> QED
      BY <2>3, <3>1
  <2>6. /\ rpc' \in [Clients -> {"none", "load", "recv", "blocked", "notify"}
                                   \cup ExitPc]
        /\ rfd' \in [Clients -> Number]
        /\ rsock' \in [Clients -> Clients]
    BY <1>4 DEF RecvData
  <2>7. UNCHANGED <<process, fdTable, peerSent, nul, peer, echo, mClientFd,
                    sendVars>>
    BY <1>4 DEF RecvData
  <2> QED
    BY <2>4, <2>5, <2>6, <2>7
<1>5. CASE RecvTimesOut(c)
  BY <1>5 DEF RecvTimesOut
<1>6. CASE RecvEnd(c)
  BY <1>6 DEF RecvEnd
<1>7. CASE RecvNotify(c)
  BY <1>7 DEF RecvNotify
<1>8. CASE RecvClose(c)
  BY <1>8 DEF RecvClose, Closed
<1>9. CASE RecvReset(c)
  BY <1>9 DEF RecvReset
<1>10. CASE RecvWake(c)
  BY <1>10 DEF RecvWake
<1> HIDE DEF TypeOK
<1> QED
  BY <1>1, <1>2, <1>3, <1>4, <1>5, <1>6, <1>7, <1>8, <1>9, <1>10
     DEF RecvThread

\* total_send stays a size_t when bytes are added to it.
LEMMA TotalType ==
  ASSUME NEW t \in 0..(SizeMod - 1), NEW n \in 1..MaxSent
  PROVE  AddSize(t, n) \in 0..(SizeMod - 1)
<1>1. n \in 0..(SizeMod - 1)
  BY HandleAssumption, SizeModAssumption
<1> QED
  BY <1>1, AddSizeType

\* Likewise the -1 of a failed send().
LEMMA TotalBackType ==
  ASSUME NEW t \in 0..(SizeMod - 1)
  PROVE  AddSize(t, AsSize(-1)) \in 0..(SizeMod - 1)
BY AddMinusOne, SizeModAssumption

\* The steps of the send thread.
LEMMA SendThreadType ==
  ASSUME TypeOK, NEW c \in Clients, SendThread(c)
  PROVE  TypeOK'
<1> USE HandleAssumption
    DEF TypeOK, SendStep, SendReturns, CountError, SendPc, Number,
        peers, ctx, recvVars, sendCall, sendVars
<1>0. <<>> \in Message
  BY DEF Message
<1>1. CASE SendWaits(c)
  BY <1>1 DEF SendWaits
<1>2. CASE SendLeaves(c)
  BY <1>2 DEF SendLeaves
<1>3. CASE SendTakes(c)
  <2>1. mMessageQueue[c] \in Seq(Message) /\ mMessageQueue[c] # <<>>
    BY <1>3 DEF SendTakes
  <2>2. /\ Head(mMessageQueue[c]) \in Message
        /\ Tail(mMessageQueue[c]) \in Seq(Message)
    BY <2>1, HeadTailProperties
  <2>3. /\ msg' = [msg EXCEPT ![c] = Head(mMessageQueue[c])]
        /\ mMessageQueue' = [mMessageQueue EXCEPT ![c] = Tail(mMessageQueue[c])]
        /\ spc' = [spc EXCEPT ![c] = "loop"]
        /\ UNCHANGED <<process, fdTable, peers, mClientFd, recvVars,
                       sfd, total, sendErrors>>
    BY <1>3 DEF SendTakes
  <2>4. msg' \in [Clients -> Message] /\ mMessageQueue' \in [Clients -> Seq(Message)]
    BY <2>2, <2>3
  <2> QED
    BY <2>3, <2>4
<1>4. CASE SendTakesNothing(c)
  BY <1>4 DEF SendTakesNothing
<1>5. CASE SendLoadFd(c)
  BY <1>5 DEF SendLoadFd
<1>6. ASSUME NEW n \in 1..MaxSent, SendSome(c, n) PROVE TypeOK'
  <2>1. PICK d \in Clients :
          /\ n <= Len(msg[c]) - total[c]
          /\ SendReturns(c, "loop")
          /\ echo' = [echo EXCEPT ![d] =
                IF peer[d] # "open" THEN echo[d]
                ELSE echo[d] \o SubSeq(msg[c], total[c] + 1, total[c] + n)]
          /\ total' = [total EXCEPT ![c] = AddSize(total[c], n)]
          /\ UNCHANGED <<process, fdTable, peerSent, nul, peer, consumed, ctx,
                         recvVars, msg, sendErrors>>
    BY <1>6 DEF SendSome
  <2>2. total' \in [Clients -> 0..(SizeMod - 1)]
    BY <2>1, TotalType
  <2>3. SubSeq(msg[c], total[c] + 1, total[c] + n) \in Message
    <3> DEFINE m == msg[c]
               t == total[c]
    <3>1. m \in Seq(Clients \X (1..MaxSent)) /\ t \in Nat /\ n \in Nat
      BY DEF Message
    <3>2. n <= Len(m) - t
      BY <2>1
    <3> HIDE DEF m, t
    <3>3. SubSeq(m, t + 1, t + n) \in Seq(Clients \X (1..MaxSent))
      BY <3>1, <3>2, PartType
    <3> QED
      BY <3>3 DEF Message, m, t
  <2>4. echo' \in [Clients -> Message]
    <3> DEFINE part == SubSeq(msg[c], total[c] + 1, total[c] + n)
    <3>1. part \in Message /\ echo[d] \in Message
      BY <2>3
    <3> HIDE DEF part
    <3>2. echo[d] \o part \in Message
      BY <3>1, ConcatProperties DEF Message
    <3>3. echo' = [echo EXCEPT ![d] =
                     IF peer[d] # "open" THEN echo[d] ELSE echo[d] \o part]
      BY <2>1 DEF part
    <3> QED
      BY <3>1, <3>2, <3>3
  <2>5. spc' \in [Clients -> SendPc] /\ sfd' \in [Clients -> Number]
    BY <2>1
  <2>6. UNCHANGED <<process, fdTable, peerSent, nul, peer, consumed, ctx,
                    recvVars, msg, sendErrors>>
    BY <2>1
  <2> QED
    BY <2>2, <2>4, <2>5, <2>6
<1>7. CASE SendFails(c)
  <2>1. total' = [total EXCEPT ![c] = AddSize(total[c], AsSize(-1))]
    BY <1>7 DEF SendFails
  <2>2. AddSize(total[c], AsSize(-1)) \in 0..(SizeMod - 1)
    BY TotalBackType
  <2>3. total' \in [Clients -> 0..(SizeMod - 1)]
    BY <2>1, <2>2
  <2>4. peer' \in [Clients -> {"open", "closed", "gone"}]
    BY <1>7 DEF SendFails
  <2>5. /\ spc' \in [Clients -> SendPc] /\ sfd' \in [Clients -> Number]
        /\ sendErrors' \in [Clients -> 0..MaxErrors]
    BY <1>7 DEF SendFails
  <2>6. UNCHANGED <<process, fdTable, peerSent, nul, consumed, echo, ctx,
                    recvVars, msg>>
    BY <1>7 DEF SendFails
  <2> QED
    BY <2>3, <2>4, <2>5, <2>6
<1>8. CASE SendSigPipe(c)
  BY <1>8 DEF SendSigPipe
<1>9. CASE SendZero(c)
  <2>1. /\ spc' \in [Clients -> SendPc] /\ sfd' \in [Clients -> Number]
        /\ sendErrors' \in [Clients -> 0..MaxErrors]
    BY <1>9 DEF SendZero
  <2>2. msg' \in [Clients -> Message] /\ total' \in [Clients -> 0..(SizeMod - 1)]
    BY <1>0, <1>9, SizeModAssumption DEF SendZero
  <2>3. UNCHANGED <<process, fdTable, peers, ctx, recvVars>>
    BY <1>9 DEF SendZero
  <2> QED
    BY <2>1, <2>2, <2>3
<1>10. CASE SendClose(c)
  BY <1>10 DEF SendClose, Closed
<1>11. CASE SendReset(c)
  BY <1>11 DEF SendReset
<1>12. CASE SendEnds(c)
  <2>1. spc' \in [Clients -> SendPc]
    BY <1>12 DEF SendEnds
  <2>2. msg' \in [Clients -> Message] /\ total' \in [Clients -> 0..(SizeMod - 1)]
    BY <1>0, <1>12, SizeModAssumption DEF SendEnds
  <2>3. UNCHANGED <<process, fdTable, peers, ctx, recvVars, sfd, sendErrors>>
    BY <1>12 DEF SendEnds
  <2> QED
    BY <2>1, <2>2, <2>3
<1> HIDE DEF TypeOK
<1> QED
  BY <1>1, <1>2, <1>3, <1>4, <1>5, <1>6, <1>7, <1>8, <1>9, <1>10, <1>11, <1>12
     DEF SendThread

\* The steps of the accept loop, mCond and the peers.
LEMMA EnvironmentType ==
  ASSUME TypeOK, NEW c \in Clients, Environment(c)
  PROVE  TypeOK'
<1> USE HandleAssumption
    DEF TypeOK, SendStep, Awake, SendPc, ExitPc, Number,
        peers, ctx, recvVars, sendCall, sendVars
<1>1. CASE Accept(c)
  BY <1>1 DEF Accept
<1>2. CASE SpuriousWakeup(c)
  BY <1>2 DEF SpuriousWakeup
<1>3. ASSUME NEW isNul \in BOOLEAN, PeerSends(c, isNul) PROVE TypeOK'
  <2>1. /\ peerSent' = [peerSent EXCEPT ![c] = peerSent[c] + 1]
        /\ peerSent[c] + 1 \in 1..MaxSent
    BY <1>3 DEF PeerSends
  <2>2. peerSent' \in [Clients -> 0..MaxSent] /\ peerSent'[c] \in 1..MaxSent
    BY <2>1
  <2>3. nul' \in [Clients -> SUBSET (1..MaxSent)]
    <3>1. nul' = [nul EXCEPT ![c] = IF isNul THEN nul[c] \cup {peerSent'[c]}
                                    ELSE nul[c]]
      BY <1>3 DEF PeerSends
    <3>2. nul[c] \cup {peerSent'[c]} \in SUBSET (1..MaxSent)
      BY <2>2
    <3> QED
      BY <3>1, <3>2
  <2>4. UNCHANGED <<process, fdTable, peer, consumed, echo, ctx, recvVars,
                    sendVars>>
    BY <1>3 DEF PeerSends
  <2> QED
    BY <2>2, <2>3, <2>4
<1>4. CASE PeerCloses(c)
  BY <1>4 DEF PeerCloses
<1> HIDE DEF TypeOK
<1> QED
  BY <1>1, <1>2, <1>3, <1>4 DEF Environment

\* Every variable keeps its type: a message holds only bytes that some peer
\* wrote, whatever recv(), string(buf) and send() cut it into, and
\* total_send stays within size_t although -1 is added to it.
THEOREM HandleTypeCorrect == Spec => []TypeOK
<1>1. Init => TypeOK
  BY HandleAssumption, SizeModAssumption
     DEF Init, TypeOK, Message, Number, SendPc, ExitPc
<1>2. TypeOK /\ [Next]_vars => TypeOK'
  <2> SUFFICES ASSUME TypeOK, [Next]_vars PROVE TypeOK'
    OBVIOUS
  <2>1. CASE UNCHANGED vars
    BY <2>1 DEF TypeOK, vars, peers, ctx, recvVars, sendCall, sendVars
  <2>2. CASE Next
    BY <2>2, RecvThreadType, SendThreadType, EnvironmentType DEF Next
  <2> QED
    BY <2>1, <2>2
<1> QED
  BY <1>1, <1>2, PTL DEF Spec

-----------------------------------------------------------------------------
(***************************************************************************)
(* Descriptors, on sockets whose send() never returns 0 for a nonempty     *)
(* buffer: then the send thread closes nothing.                            *)
(***************************************************************************)

\* The recv thread alone closes; the numbers that recv() and send() are
\* called with are mClientFd as long as the recv thread is in its loop.
HandleInv ==
  \A c \in Clients :
    /\ spc[c] \notin {"close", "reset"}
    /\ rpc[c] = "none" => mClientFd[c] = INVALID_FD /\ spc[c] = "none"
    /\ rpc[c] = "recv" => rfd[c] = mClientFd[c]
    /\ rsock[c] = c
    /\ spc[c] = "send" /\ rpc[c] \notin ExitPc => sfd[c] = mClientFd[c]

\* An open connection's number is its own and nobody else's.
Owned ==
  /\ \A c \in Clients : connectionStatus[c] = "open" =>
       mClientFd[c] \in Fds /\ fdTable[mClientFd[c]] = c
  /\ \A f \in Fds, c \in Clients : fdTable[f] = c =>
       connectionStatus[c] = "open" /\ mClientFd[c] = f

\* The recv thread that has left its loop does not return to it.
RecvLeavesForGood == \A c \in Clients : rpc[c] \in ExitPc => rpc'[c] \in ExitPc

\* What a step does to the descriptors.
Quiet == UNCHANGED <<fdTable, mClientFd, connectionStatus>>

HandleKind ==
  \/ Quiet
  \/ \E c \in Clients : Accept(c) \/ RecvClose(c) \/ RecvReset(c)

\* The steps of the recv thread.
LEMMA RecvHandle ==
  ASSUME TypeOK, HandleInv, Owned, NEW c \in Clients, RecvThread(c)
  PROVE  HandleInv' /\ RecvLeavesForGood /\ HandleKind
<1> DEFINE Goal == HandleInv' /\ RecvLeavesForGood /\ HandleKind
<1> USE DEF TypeOK, HandleInv, RecvLeavesForGood, RecvStep, RecvReturns,
            NotifySend, Awake, ExitPc, peers, ctx, sendCall, sendVars
<1>0. ASSUME UNCHANGED <<fdTable, mClientFd>>,
             \A d \in Clients : /\ rpc'[d] = "none" <=> rpc[d] = "none"
                                /\ rpc'[d] = "reset" <=> rpc[d] = "reset"
      PROVE  HandleKind
  BY <1>0 DEF HandleKind, Quiet, connectionStatus
<1>1. CASE RecvLoadFd(c)
  BY <1>0, <1>1 DEF RecvLoadFd
<1>2. CASE RecvCall(c)
  <2>1. rpc[c] = "recv" /\ rfd[c] \in Fds /\ rfd[c] = mClientFd[c]
    BY <1>2 DEF RecvCall, IsOpen
  <2>2. connectionStatus[c] = "open"
    BY <2>1, FdsAssumption DEF connectionStatus, INVALID_FD
  <2>3. fdTable[rfd[c]] = c
    BY <2>1, <2>2 DEF Owned
  <2> QED
    BY <1>0, <1>2, <2>3 DEF RecvCall
<1>3. CASE RecvBadFd(c)
  BY <1>0, <1>3 DEF RecvBadFd
<1>4. ASSUME NEW n \in 1..MaxSent, RecvData(c, n) PROVE Goal
  <2>1. /\ rpc[c] = "blocked" /\ rpc' = [rpc EXCEPT ![c] = "notify"]
        /\ rfd' = [rfd EXCEPT ![c] = INVALID_FD]
        /\ rsock' = [rsock EXCEPT ![c] = c]
        /\ UNCHANGED <<fdTable, mClientFd, spc, sfd>>
    BY <1>4 DEF RecvData
  <2> QED
    BY <1>0, <2>1
<1>5. CASE RecvTimesOut(c)
  BY <1>0, <1>5 DEF RecvTimesOut
<1>6. CASE RecvEnd(c)
  BY <1>0, <1>6 DEF RecvEnd
<1>7. CASE RecvNotify(c)
  BY <1>0, <1>7 DEF RecvNotify
<1>8. CASE RecvClose(c)
  <2>1. HandleKind
    BY <1>8 DEF HandleKind
  <2> QED
    BY <1>8, <2>1 DEF RecvClose
<1>9. CASE RecvReset(c)
  <2>1. HandleKind
    BY <1>9 DEF HandleKind
  <2> QED
    BY <1>9, <2>1 DEF RecvReset
<1>10. CASE RecvWake(c)
  BY <1>0, <1>10 DEF RecvWake
<1> HIDE DEF TypeOK, HandleInv, RecvLeavesForGood
<1> QED
  BY <1>1, <1>2, <1>3, <1>4, <1>5, <1>6, <1>7, <1>8, <1>9, <1>10
     DEF RecvThread

\* The steps of the send thread.
LEMMA SendHandle ==
  ASSUME ~ZeroSend, TypeOK, HandleInv, NEW c \in Clients, SendThread(c)
  PROVE  HandleInv' /\ RecvLeavesForGood /\ HandleKind
<1> DEFINE Goal == HandleInv' /\ RecvLeavesForGood /\ HandleKind
<1> USE DEF TypeOK, HandleInv, RecvLeavesForGood, SendStep, SendReturns, PastWait,
            peers, ctx, recvVars, sendCall, sendVars
<1>0. ASSUME UNCHANGED <<fdTable, mClientFd, rpc>> PROVE HandleKind
  BY <1>0 DEF HandleKind, Quiet, connectionStatus
<1>1. CASE SendWaits(c)
  BY <1>0, <1>1 DEF SendWaits
<1>2. CASE SendLeaves(c)
  BY <1>0, <1>2 DEF SendLeaves
<1>3. CASE SendTakes(c)
  BY <1>0, <1>3 DEF SendTakes
<1>4. CASE SendTakesNothing(c)
  BY <1>0, <1>4 DEF SendTakesNothing
<1>5. CASE SendLoadFd(c)
  BY <1>0, <1>5 DEF SendLoadFd
<1>6. ASSUME NEW n \in 1..MaxSent, SendSome(c, n) PROVE Goal
  <2>1. /\ spc[c] = "send" /\ spc' = [spc EXCEPT ![c] = "loop"]
        /\ sfd' = [sfd EXCEPT ![c] = INVALID_FD]
        /\ UNCHANGED <<fdTable, mClientFd, rpc, rfd, rsock>>
    BY <1>6 DEF SendSome
  <2> QED
    BY <1>0, <2>1
<1>7. CASE SendFails(c)
  <2>1. /\ spc[c] = "send" /\ spc' = [spc EXCEPT ![c] = "loop"]
        /\ sfd' = [sfd EXCEPT ![c] = INVALID_FD]
        /\ UNCHANGED <<fdTable, mClientFd, rpc, rfd, rsock>>
    BY <1>7 DEF SendFails
  <2> QED
    BY <1>0, <2>1
<1>8. CASE SendSigPipe(c)
  BY <1>0, <1>8 DEF SendSigPipe
<1>9. CASE SendZero(c)
  BY <1>9 DEF SendZero
<1>10. CASE SendClose(c)
  BY <1>10 DEF SendClose
<1>11. CASE SendReset(c)
  BY <1>11 DEF SendReset
<1>12. CASE SendEnds(c)
  BY <1>0, <1>12 DEF SendEnds
<1> HIDE DEF TypeOK, HandleInv, RecvLeavesForGood
<1> QED
  BY <1>1, <1>2, <1>3, <1>4, <1>5, <1>6, <1>7, <1>8, <1>9, <1>10, <1>11, <1>12
     DEF SendThread

\* The steps of the accept loop, mCond and the peers.
LEMMA EnvironmentHandle ==
  ASSUME TypeOK, HandleInv, NEW c \in Clients, Environment(c)
  PROVE  HandleInv' /\ RecvLeavesForGood /\ HandleKind
<1> DEFINE Goal == HandleInv' /\ RecvLeavesForGood /\ HandleKind
<1> USE DEF TypeOK, HandleInv, RecvLeavesForGood, SendStep, Awake, ExitPc,
            peers, ctx, recvVars, sendCall, sendVars
<1>0. ASSUME UNCHANGED <<fdTable, mClientFd, rpc>> PROVE HandleKind
  BY <1>0 DEF HandleKind, Quiet, connectionStatus
<1>1. CASE Accept(c)
  <2>1. HandleKind
    BY <1>1 DEF HandleKind
  <2>2. PICK f \in Fds : mClientFd' = [mClientFd EXCEPT ![c] = f]
    BY <1>1 DEF Accept
  <2>3. /\ rpc[c] = "none" /\ rpc' = [rpc EXCEPT ![c] = "load"]
        /\ spc' = [spc EXCEPT ![c] = "gate"]
        /\ UNCHANGED <<rfd, rsock, sfd>>
    BY <1>1 DEF Accept
  <2> QED
    BY <2>1, <2>2, <2>3
<1>2. CASE SpuriousWakeup(c)
  BY <1>0, <1>2 DEF SpuriousWakeup
<1>3. ASSUME NEW isNul \in BOOLEAN, PeerSends(c, isNul) PROVE Goal
  <2>1. UNCHANGED <<fdTable, mClientFd, rpc, rfd, rsock, spc, sfd>>
    BY <1>3 DEF PeerSends
  <2> QED
    BY <1>0, <2>1
<1>4. CASE PeerCloses(c)
  BY <1>0, <1>4 DEF PeerCloses
<1> HIDE DEF TypeOK, HandleInv, RecvLeavesForGood
<1> QED
  BY <1>1, <1>2, <1>3, <1>4 DEF Environment

\* Every step of the system.
LEMMA NextHandle ==
  ASSUME ~ZeroSend, TypeOK, HandleInv, Owned, [Next]_vars
  PROVE  HandleInv' /\ RecvLeavesForGood /\ HandleKind
<1>1. CASE UNCHANGED vars
  BY <1>1 DEF vars, ctx, recvVars, sendVars, sendCall, HandleInv,
              RecvLeavesForGood, HandleKind, Quiet, connectionStatus
<1>2. CASE Next
  BY <1>2, RecvHandle, SendHandle, EnvironmentHandle DEF Next
<1> QED
  BY <1>1, <1>2

\* What the three steps that touch descriptors do to connectionStatus.
LEMMA AcceptStatus ==
  ASSUME TypeOK, HandleInv, NEW c \in Clients, Accept(c)
  PROVE  /\ connectionStatus[c] = "absent"
         /\ connectionStatus' = [connectionStatus EXCEPT ![c] = "open"]
<1>1. PICK f \in Fds : mClientFd' = [mClientFd EXCEPT ![c] = f]
  BY DEF Accept
<1>2. rpc[c] = "none" /\ rpc' = [rpc EXCEPT ![c] = "load"]
  BY DEF Accept
<1>3. /\ rpc'[c] = "load" /\ mClientFd'[c] # INVALID_FD
      /\ \A d \in Clients : d # c => /\ rpc'[d] = rpc[d]
                                     /\ mClientFd'[d] = mClientFd[d]
  BY <1>1, <1>2, FdsAssumption DEF TypeOK, INVALID_FD
<1>4. connectionStatus' = [connectionStatus EXCEPT ![c] = "open"]
  BY <1>3 DEF connectionStatus
<1> QED
  BY <1>2, <1>4 DEF connectionStatus

\* The receive thread's close() ends the connection of its client and of no
\* other.
LEMMA CloseStatus ==
  ASSUME TypeOK, NEW c \in Clients, RecvClose(c)
  PROVE  connectionStatus' = [connectionStatus EXCEPT ![c] = "closed"]
<1>1. /\ rpc[c] = "close" /\ rpc' = [rpc EXCEPT ![c] = "reset"]
      /\ mClientFd' = mClientFd
  BY DEF RecvClose, RecvStep, ctx
<1> QED
  BY <1>1 DEF TypeOK, connectionStatus

\* Forgetting the number after close() changes no connection.
LEMMA ResetStatus ==
  ASSUME TypeOK, NEW c \in Clients, RecvReset(c)
  PROVE  /\ connectionStatus[c] = "closed"
         /\ UNCHANGED <<connectionStatus, fdTable>>
         /\ \A d \in Clients : d # c => mClientFd'[d] = mClientFd[d]
<1>1. /\ rpc[c] = "reset" /\ rpc' = [rpc EXCEPT ![c] = "wake"]
      /\ mClientFd' = [mClientFd EXCEPT ![c] = INVALID_FD]
      /\ fdTable' = fdTable
  BY DEF RecvReset, RecvStep
<1> QED
  BY <1>1 DEF TypeOK, connectionStatus

\* A close frees the number of the connection, if it was open.
LEMMA CloseTable ==
  ASSUME TypeOK, Owned, NEW c \in Clients, RecvClose(c), NEW f \in Fds
  PROVE  fdTable'[f] = IF fdTable[f] = c THEN Free ELSE fdTable[f]
<1>1. rpc[c] = "close"
      /\ fdTable'[f] = IF f = mClientFd[c] /\ IsOpen(fdTable, mClientFd[c])
                       THEN Free ELSE fdTable[f]
  BY DEF RecvClose, RecvStep, Closed
<1>2. fdTable[f] = c => f = mClientFd[c]
  BY DEF Owned
<1>3. f = mClientFd[c] => connectionStatus[c] = "open"
  BY <1>1, FdsAssumption DEF connectionStatus, INVALID_FD
<1>4. f = mClientFd[c] => fdTable[f] = c
  BY <1>3 DEF Owned
<1>5. fdTable[f] = c => IsOpen(fdTable, f)
  BY HandleAssumption DEF IsOpen
<1> QED
  BY <1>1, <1>2, <1>4, <1>5

\* Every open descriptor stays with its one owner.
LEMMA OwnedStep ==
  ASSUME TypeOK, HandleInv, Owned, TypeOK', HandleKind
  PROVE  Owned'
<1>0. \A d \in Clients : mClientFd[d] \in Number /\ d # Free
  BY HandleAssumption DEF TypeOK
<1>1. CASE Quiet
  BY <1>1 DEF Quiet, Owned
<1>2. ASSUME NEW c \in Clients, Accept(c) PROVE Owned'
  <2>1. PICK f \in Fds : /\ fdTable[f] = Free
                        /\ fdTable' = [fdTable EXCEPT ![f] = c]
                        /\ mClientFd' = [mClientFd EXCEPT ![c] = f]
    BY <1>2 DEF Accept
  <2>2. /\ fdTable'[f] = c /\ mClientFd'[c] = f
        /\ \A g \in Fds : g # f => fdTable'[g] = fdTable[g]
        /\ \A d \in Clients : d # c => mClientFd'[d] = mClientFd[d]
    BY <2>1 DEF TypeOK
  <2>3. /\ connectionStatus[c] = "absent" /\ connectionStatus'[c] = "open"
        /\ \A d \in Clients : d # c => connectionStatus'[d] = connectionStatus[d]
    BY <1>2, AcceptStatus DEF connectionStatus
  <2>4. ASSUME NEW d \in Clients, connectionStatus'[d] = "open"
        PROVE  mClientFd'[d] \in Fds /\ fdTable'[mClientFd'[d]] = d
    <3>1. CASE d = c
      BY <2>2, <3>1
    <3>2. CASE d # c
      BY <1>0, <2>1, <2>2, <2>3, <2>4, <3>2 DEF Owned
    <3> QED
      BY <3>1, <3>2
  <2>5. ASSUME NEW g \in Fds, NEW d \in Clients, fdTable'[g] = d
        PROVE  connectionStatus'[d] = "open" /\ mClientFd'[d] = g
    <3>1. CASE g = f
      BY <2>2, <2>3, <2>5, <3>1
    <3>2. CASE g # f
      <4>1. fdTable[g] = d /\ connectionStatus[d] = "open"
        BY <2>2, <2>5, <3>2 DEF Owned
      <4>2. d # c
        BY <2>3, <4>1
      <4> QED
        BY <2>2, <2>3, <4>1, <4>2 DEF Owned
    <3> QED
      BY <3>1, <3>2
  <2> QED
    BY <2>4, <2>5 DEF Owned
<1>3. ASSUME NEW c \in Clients, RecvClose(c) PROVE Owned'
  <2>1. /\ connectionStatus'[c] = "closed"
        /\ \A d \in Clients : d # c => connectionStatus'[d] = connectionStatus[d]
    BY <1>3, CloseStatus DEF connectionStatus
  <2>2. \A g \in Fds : fdTable'[g] = IF fdTable[g] = c THEN Free ELSE fdTable[g]
    BY <1>3, CloseTable
  <2>3. mClientFd' = mClientFd
    BY <1>3 DEF RecvClose, ctx
  <2>4. ASSUME NEW d \in Clients, connectionStatus'[d] = "open"
        PROVE  mClientFd'[d] \in Fds /\ fdTable'[mClientFd'[d]] = d
    <3>1. d # c /\ connectionStatus[d] = "open"
      BY <2>1, <2>4
    <3> QED
      BY <2>2, <2>3, <3>1 DEF Owned
  <2>5. ASSUME NEW g \in Fds, NEW d \in Clients, fdTable'[g] = d
        PROVE  connectionStatus'[d] = "open" /\ mClientFd'[d] = g
    <3>1. d # c /\ fdTable[g] = d
      BY <1>0, <2>2, <2>5
    <3> QED
      BY <2>1, <2>3, <3>1 DEF Owned
  <2> QED
    BY <2>4, <2>5 DEF Owned
<1>4. ASSUME NEW c \in Clients, RecvReset(c) PROVE Owned'
  BY <1>4, ResetStatus DEF Owned
<1> QED
  BY <1>1, <1>2, <1>3, <1>4 DEF HandleKind

\* The inductive invariant.
OwnerInv == TypeOK /\ HandleInv /\ Owned

\* OwnerInv holds in every reachable state when send() never returns 0.
LEMMA OwnerInvariant ==
  ASSUME ~ZeroSend
  PROVE  Spec => []OwnerInv
<1>1. Init => HandleInv /\ Owned
  BY HandleAssumption
     DEF Init, HandleInv, Owned, connectionStatus
<1>2. TypeOK /\ TypeOK' /\ HandleInv /\ Owned /\ [Next]_vars
        => HandleInv' /\ Owned'
  BY NextHandle, OwnedStep
<1> QED
  BY <1>1, <1>2, HandleTypeCorrect, PTL DEF Spec, OwnerInv

\* An accept opens its connection, close() closes it, and every other step
\* is invisible.
LEMMA LifecycleStep ==
  ASSUME OwnerInv, HandleKind
  PROVE  [Lifecycle!LifecycleNext]_<<connectionStatus, fdTable>>
<1> USE DEF OwnerInv
<1>1. CASE Quiet
  BY <1>1 DEF Quiet
<1>2. ASSUME NEW c \in Clients, Accept(c) PROVE Lifecycle!OpenConnection(c)
  <2>1. PICK f \in Fds : fdTable[f] = Free /\ fdTable' = [fdTable EXCEPT ![f] = c]
    BY <1>2 DEF Accept
  <2> QED
    BY <1>2, <2>1, AcceptStatus DEF Lifecycle!OpenConnection, Lifecycle!Free, Free
<1>3. ASSUME NEW c \in Clients, RecvClose(c)
      PROVE  \/ Lifecycle!CloseConnection(c)
             \/ UNCHANGED <<connectionStatus, fdTable>>
  <2>1. connectionStatus' = [connectionStatus EXCEPT ![c] = "closed"]
    BY <1>3, CloseStatus
  <2>2. rpc[c] = "close" /\ fdTable' = Closed(fdTable, mClientFd[c])
    BY <1>3 DEF RecvClose, RecvStep
  <2>3. CASE mClientFd[c] = INVALID_FD
    <3>1. connectionStatus[c] = "closed"
      BY <2>2, <2>3 DEF connectionStatus
    <3>2. connectionStatus' = connectionStatus
      BY <2>1, <3>1 DEF connectionStatus
    <3>3. fdTable' = fdTable
      BY <2>2, <2>3, FdsAssumption DEF Closed, INVALID_FD, TypeOK
    <3> QED
      BY <3>2, <3>3
  <2>4. CASE mClientFd[c] # INVALID_FD
    <3>1. connectionStatus[c] = "open"
      BY <2>2, <2>4 DEF connectionStatus
    <3>2. mClientFd[c] \in Fds /\ fdTable[mClientFd[c]] = c
      BY <3>1 DEF Owned
    <3>3. fdTable' = [fdTable EXCEPT ![mClientFd[c]] = Free]
      BY <2>2, <3>2, HandleAssumption DEF Closed, IsOpen, TypeOK
    <3> QED
      BY <2>1, <3>1, <3>2, <3>3
         DEF Lifecycle!CloseConnection, Lifecycle!Free, Free
  <2> QED
    BY <2>3, <2>4
<1>4. ASSUME NEW c \in Clients, RecvReset(c)
      PROVE  UNCHANGED <<connectionStatus, fdTable>>
  BY <1>4, ResetStatus
<1> QED
  BY <1>1, <1>2, <1>3, <1>4 DEF HandleKind, Lifecycle!LifecycleNext

\* The handlers implement the connection lifecycle: each connection is opened
\* once and closed at most once, and only its own descriptor is freed, although
\* mClientFd is read, closed and reset without a lock.
THEOREM HandleRefinement ==
  ASSUME ~ZeroSend
  PROVE  Spec => ImplementsLifecycle
<1>1. Init => Lifecycle!LifecycleInit
  BY DEF Init, Lifecycle!LifecycleInit, connectionStatus, Lifecycle!Free, Free
<1>2. OwnerInv /\ [Next]_vars
        => [Lifecycle!LifecycleNext]_<<connectionStatus, fdTable>>
  BY NextHandle, LifecycleStep DEF OwnerInv
<1> QED
  BY <1>1, <1>2, OwnerInvariant, PTL
     DEF Spec, ImplementsLifecycle, Lifecycle!LifecycleSpec,
         Lifecycle!lifecycleVars

-----------------------------------------------------------------------------
(***************************************************************************)
(* Who gets which bytes back.                                              *)
(***************************************************************************)

\* What a handler has queued or is sending is its own peer's.
OwnBytes ==
  \A c \in Clients :
    msg[c] \in Own(c) /\ mMessageQueue[c] \in Seq(Own(c))

\* The steps that change a message or the queue, and those that send.
LEMMA MessageStep ==
  ASSUME [Next]_vars
  PROVE  /\ \/ UNCHANGED <<msg, mMessageQueue>>
            \/ \E c \in Clients :
                  \/ \E n \in 1..MaxSent : RecvData(c, n)
                  \/ SendTakes(c) \/ SendZero(c) \/ SendEnds(c)
         /\ \/ UNCHANGED echo
            \/ \E c \in Clients : \E n \in 1..MaxSent : SendSome(c, n)
<1> USE DEF peers, ctx, sendCall, sendVars
<1>1. ASSUME NEW c \in Clients, RecvThread(c)
      PROVE  /\ \/ UNCHANGED <<msg, mMessageQueue>>
                \/ \E n \in 1..MaxSent : RecvData(c, n)
             /\ UNCHANGED echo
  <2>1. CASE \E n \in 1..MaxSent : RecvData(c, n)
    BY <2>1 DEF RecvData
  <2>2. CASE ~ \E n \in 1..MaxSent : RecvData(c, n)
    BY <1>1, <2>2
       DEF RecvThread, RecvLoadFd, RecvCall, RecvBadFd, RecvTimesOut, RecvEnd,
           RecvNotify, RecvClose, RecvReset, RecvWake
  <2> QED
    BY <2>1, <2>2
<1>2. ASSUME NEW c \in Clients, SendThread(c)
      PROVE  /\ \/ UNCHANGED <<msg, mMessageQueue>>
                \/ SendTakes(c) \/ SendZero(c) \/ SendEnds(c)
             /\ UNCHANGED echo \/ \E n \in 1..MaxSent : SendSome(c, n)
  <2>1. CASE SendTakes(c) \/ SendZero(c) \/ SendEnds(c)
    BY <2>1 DEF SendTakes, SendZero, SendEnds
  <2>2. CASE \E n \in 1..MaxSent : SendSome(c, n)
    BY <2>2 DEF SendSome
  <2>3. CASE ~ \/ SendTakes(c) \/ SendZero(c) \/ SendEnds(c)
               \/ \E n \in 1..MaxSent : SendSome(c, n)
    BY <1>2, <2>3
       DEF SendThread, SendWaits, SendLeaves, SendTakesNothing, SendLoadFd,
           SendFails, SendSigPipe, SendClose, SendReset
  <2> QED
    BY <2>1, <2>2, <2>3
<1>3. ASSUME NEW c \in Clients, Environment(c)
      PROVE  UNCHANGED <<msg, mMessageQueue, echo>>
  BY <1>3 DEF Environment, Accept, SpuriousWakeup, PeerSends, PeerCloses
<1>4. CASE UNCHANGED vars
  BY <1>4 DEF vars
<1> QED
  BY <1>1, <1>2, <1>3, <1>4 DEF Next

\* Reading, taking and ending a message keep it its peer's own.
LEMMA OwnBytesStep ==
  ASSUME OwnerInv, OwnBytes, [Next]_vars
  PROVE  OwnBytes'
<1>0. \A c \in Clients : <<>> \in Own(c)
  BY DEF Own
<1>1. CASE UNCHANGED <<msg, mMessageQueue>>
  BY <1>1 DEF OwnBytes
<1>2. ASSUME NEW c \in Clients, NEW n \in 1..MaxSent, RecvData(c, n)
      PROVE  OwnBytes'
  <2> DEFINE m == RecvMsg(c, Bytes(c, n))
  <2>1. rsock[c] = c
    BY DEF OwnerInv, HandleInv
  <2>2. m \in Own(c)
    BY <1>2, <2>1, RecvDataMessage DEF OwnerInv
  <2>3. /\ mMessageQueue' = [mMessageQueue EXCEPT ![c] = Append(mMessageQueue[c], m)]
        /\ msg' = msg
    BY <1>2, <2>1 DEF RecvData, sendVars, sendCall
  <2> HIDE DEF m
  <2>4. mMessageQueue[c] \in Seq(Own(c))
    BY DEF OwnBytes
  <2>5. Append(mMessageQueue[c], m) \in Seq(Own(c))
    BY <2>2, <2>4, AppendProperties
  <2> QED
    BY <2>3, <2>5 DEF OwnBytes, OwnerInv, TypeOK
<1>3. ASSUME NEW c \in Clients, SendTakes(c) PROVE OwnBytes'
  <2>1. mMessageQueue[c] \in Seq(Own(c)) /\ mMessageQueue[c] # <<>>
    BY <1>3 DEF SendTakes, OwnBytes
  <2>2. /\ Head(mMessageQueue[c]) \in Own(c)
        /\ Tail(mMessageQueue[c]) \in Seq(Own(c))
    BY <2>1, HeadTailProperties
  <2>3. /\ msg' = [msg EXCEPT ![c] = Head(mMessageQueue[c])]
        /\ mMessageQueue' = [mMessageQueue EXCEPT ![c] = Tail(mMessageQueue[c])]
    BY <1>3 DEF SendTakes
  <2> QED
    BY <2>2, <2>3 DEF OwnBytes, OwnerInv, TypeOK
<1>4. ASSUME NEW c \in Clients, SendZero(c) \/ SendEnds(c) PROVE OwnBytes'
  <2>1. msg' = [msg EXCEPT ![c] = <<>>] /\ mMessageQueue' = mMessageQueue
    BY <1>4 DEF SendZero, SendEnds, ctx
  <2> QED
    BY <1>0, <2>1 DEF OwnBytes, OwnerInv, TypeOK
<1> QED
  BY <1>1, <1>2, <1>3, <1>4, MessageStep

\* A handler holds only its own peer's bytes in every reachable state.
LEMMA OwnBytesInvariant ==
  ASSUME ~ZeroSend
  PROVE  Spec => [](OwnerInv /\ OwnBytes)
<1>1. Init => OwnBytes
  BY DEF Init, OwnBytes, Own
<1>2. OwnerInv /\ OwnBytes /\ [Next]_vars => OwnBytes'
  BY OwnBytesStep
<1> QED
  BY <1>1, <1>2, OwnerInvariant, PTL DEF Spec

\* While the recv thread is in its loop, send() is called with the number of
\* the handler's own connection.
LEMMA SendsToOwn ==
  ASSUME OwnerInv, NEW c \in Clients, NEW d \in Clients,
         spc[c] = "send", rpc[c] \notin ExitPc, SendsTo(c, d)
  PROVE  d = c
<1>1. sfd[c] = mClientFd[c] /\ sfd[c] \in Fds /\ fdTable[sfd[c]] = d
  BY DEF OwnerInv, HandleInv, SendsTo, IsOpen
<1>2. rpc[c] # "none" /\ rpc[c] # "reset"
  BY DEF OwnerInv, HandleInv, ExitPc
<1>3. connectionStatus[c] = "open"
  BY <1>1, <1>2, FdsAssumption DEF connectionStatus, INVALID_FD
<1> QED
  BY <1>1, <1>3 DEF OwnerInv, Owned

\* What one send() adds to what a peer gets back: bytes of the sender's own
\* peer.
LEMMA EchoGrows ==
  ASSUME OwnerInv, OwnBytes, NEW c \in Clients, NEW n \in 1..MaxSent,
         SendSome(c, n),
         NEW d \in Clients, NEW k \in 1..Len(echo'[d])
  PROVE  \/ k \in 1..Len(echo[d]) /\ echo'[d][k] = echo[d][k]
         \/ SendsTo(c, d) /\ echo'[d][k][1] = c
<1>1. PICK e \in Clients :
        /\ SendsTo(c, e)
        /\ n <= Len(msg[c]) - total[c]
        /\ echo' = [echo EXCEPT ![e] =
              IF peer[e] # "open" THEN echo[e]
              ELSE echo[e] \o SubSeq(msg[c], total[c] + 1, total[c] + n)]
  BY DEF SendSome
<1> DEFINE part == SubSeq(msg[c], total[c] + 1, total[c] + n)
           T == Clients \X (1..MaxSent)
<1>2. part \in Seq({c} \X (1..MaxSent))
  <2> DEFINE m == msg[c]
             t == total[c]
  <2>1. m \in Seq({c} \X (1..MaxSent)) /\ t \in Nat /\ n \in Nat
    BY HandleAssumption DEF OwnerInv, TypeOK, OwnBytes, Own
  <2>2. n <= Len(m) - t
    BY <1>1
  <2> HIDE DEF m, t
  <2>3. SubSeq(m, t + 1, t + n) \in Seq({c} \X (1..MaxSent))
    BY <2>1, <2>2, PartType
  <2> QED
    BY <2>3 DEF m, t
<1>3. echo[d] \in Seq(T)
  BY DEF OwnerInv, TypeOK, Message
<1>4. echo' = [echo EXCEPT ![e] = IF peer[e] # "open" THEN echo[e]
                                  ELSE echo[e] \o part]
  BY <1>1
<1> HIDE DEF part
<1>5. CASE d # e \/ peer[e] # "open"
  BY <1>4, <1>5 DEF OwnerInv, TypeOK
<1>6. CASE d = e /\ peer[e] = "open"
  <2>1. echo'[d] = echo[d] \o part
    BY <1>4, <1>6 DEF OwnerInv, TypeOK
  <2> DEFINE s == echo[d]
  <2>2. s \in Seq(T) /\ part \in Seq(T)
    <3>1. \A i \in 1..Len(part) : part[i] \in T
      BY <1>2
    <3>2. part \in Seq(T)
      BY <1>2, <3>1
    <3> QED
      BY <1>3, <3>2
  <2> HIDE DEF s, T
  <2>3. /\ Len(s \o part) = Len(s) + Len(part)
        /\ \A i \in 1..(Len(s) + Len(part)) :
             (s \o part)[i] = IF i <= Len(s) THEN s[i] ELSE part[i - Len(s)]
    BY <2>2, ConcatProperties
  <2>4. k \in 1..(Len(s) + Len(part)) /\ Len(s) \in Nat /\ Len(part) \in Nat
    BY <2>1, <2>2, <2>3 DEF s
  <2>5. CASE k <= Len(s)
    <3>1. k \in 1..Len(s) /\ (s \o part)[k] = s[k]
      BY <2>3, <2>4, <2>5
    <3> QED
      BY <2>1, <3>1 DEF s
  <2>6. CASE ~(k <= Len(s))
    <3>1. k - Len(s) \in 1..Len(part) /\ (s \o part)[k] = part[k - Len(s)]
      BY <2>3, <2>4, <2>6
    <3>2. part[k - Len(s)] \in {c} \X (1..MaxSent)
      BY <1>2, <3>1
    <3>3. (s \o part)[k][1] = c
      BY <3>1, <3>2
    <3> QED
      BY <1>1, <1>6, <2>1, <3>3 DEF s
  <2> QED
    BY <2>5, <2>6
<1> QED
  BY <1>5, <1>6

\* A peer gets a stranger's bytes only from a send thread whose recv thread
\* has already left its loop, however recv() and send() cut the streams and
\* however numbers are reused.
THEOREM EchoesReachOwner ==
  ASSUME ~ZeroSend
  PROVE  Spec => []EchoReachesOwner
<1>1. Init => EchoReachesOwner
  BY DEF Init, EchoReachesOwner
<1>2. EchoReachesOwner /\ OwnerInv /\ OwnBytes /\ [Next]_vars => EchoReachesOwner'
  <2> SUFFICES ASSUME EchoReachesOwner, OwnerInv, OwnBytes, [Next]_vars,
                      NEW d \in Clients, NEW k \in 1..Len(echo'[d]),
                      echo'[d][k][1] # d
               PROVE  rpc'[echo'[d][k][1]] \in ExitPc
    BY DEF EchoReachesOwner
  <2> DEFINE e == echo'[d][k][1]
  <2>1. RecvLeavesForGood
    BY NextHandle DEF OwnerInv
  <2>2. ASSUME k \in 1..Len(echo[d]), echo'[d][k] = echo[d][k]
        PROVE  rpc'[e] \in ExitPc
    <3>1. echo[d][k] \in Clients \X (1..MaxSent)
      BY <2>2 DEF OwnerInv, TypeOK, Message
    <3>2. e \in Clients /\ rpc[e] \in ExitPc
      BY <2>2, <3>1 DEF EchoReachesOwner
    <3> QED
      BY <2>1, <3>2 DEF RecvLeavesForGood
  <2>3. CASE UNCHANGED echo
    BY <2>2, <2>3
  <2>4. ASSUME NEW c \in Clients, NEW n \in 1..MaxSent, SendSome(c, n)
        PROVE  rpc'[e] \in ExitPc
    <3>1. CASE SendsTo(c, d) /\ e = c
      <4>1. spc[c] = "send"
        BY <2>4 DEF SendSome, SendReturns, SendStep
      <4>2. rpc[c] \in ExitPc
        BY <3>1, <4>1, SendsToOwn
      <4> QED
        BY <2>1, <3>1, <4>2 DEF RecvLeavesForGood
    <3>2. CASE k \in 1..Len(echo[d]) /\ echo'[d][k] = echo[d][k]
      BY <2>2, <3>2
    <3> QED
      BY <2>4, <3>1, <3>2, EchoGrows
  <2> QED
    BY <2>3, <2>4, MessageStep
<1> QED
  BY <1>1, <1>2, OwnBytesInvariant, PTL DEF Spec
=============================================================================
