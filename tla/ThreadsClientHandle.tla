------------------------ MODULE ThreadsClientHandle ------------------------
(***************************************************************************)
(* ThreadsClientHandle: the echo handler of the older TcpServer family.    *)
(* One recv thread (handleReadEvent) queues what the peer writes, one send *)
(* thread (handleWriteEvent) writes it back.  IPV4ThreadsClientHandle and  *)
(* IPV6ThreadsClientHandle are two copies of one program that differ in    *)
(* how they wait on mCond, how they make a message of recv()'s buffer,     *)
(* the flags of send() and the time limits of the socket.                  *)
(*                                                                         *)
(* A step is the code between two accesses to state that another thread    *)
(* can see.  mMutex covers mMessageQueue only: what runs under it is one   *)
(* step, notify_one() comes after it is released, and mClientFd is read,   *)
(* closed and reset outside it, each a step of its own.                    *)
(***************************************************************************)
EXTENDS SocketTable, SizeT, SequencesExt, FiniteSets

CONSTANTS
  Clients,         \* the connections; one context and one handler for each
  V6Clients,       \* those served by an IPV6ThreadsClientHandle
  MaxAccepted,     \* bound: connections that are accepted
  MaxSent,         \* bound: bytes a peer writes
  MaxErrors,       \* bound: send() times out below this count of failures
  ZeroSend,        \* send() may return 0 for a nonempty buffer
  SpuriousWakeups  \* mCond may wake without a notify

ASSUME HandleAssumption ==
  /\ V6Clients \subseteq Clients
  /\ {Free, Reserved} \cap Clients = {}
  /\ MaxAccepted \in Nat
  /\ MaxSent \in Nat
  /\ MaxErrors \in Nat \ {0}
  /\ SizeMod > MaxSent + 1
  /\ ZeroSend \in BOOLEAN
  /\ SpuriousWakeups \in BOOLEAN

VARIABLES
  process,        \* "up", "killed" by a signal, or "undefined": see below
  fdTable,        \* the socket behind each descriptor
  \* the connections, at the peers' end
  peerSent,       \* bytes the peer has written
  nul,            \* the positions of those that are '\0'
  peer,           \* "open", "closed", or "gone": send() has failed for it
  consumed,       \* bytes of the peer's stream that recv() has taken
  echo,           \* what send() took for this peer before it closed
  \* the context and the handler
  mClientFd, mMessageQueue,
  rpc, rfd, rsock,      \* the recv thread, its fd argument, its socket
  spc, sfd, msg, total, \* the send thread, its fd argument, send_msg
  sendErrors            \* history: calls of send() that returned -1 or 0

peers == <<peerSent, nul, peer, consumed, echo>>
ctx == <<mClientFd, mMessageQueue>>
recvVars == <<rpc, rfd, rsock>>
sendCall == <<sfd, msg, total, sendErrors>>
sendVars == <<spc, sendCall>>
vars == <<process, fdTable, peers, ctx, recvVars, sendVars>>

Number == Fds \cup {INVALID_FD}

\* A byte is a client and a position in the stream its peer wrote.
Message == Seq(Clients \X (1..MaxSent))

\* The recv thread has left its loop.
ExitPc == {"close", "reset", "wake", "done"}

\* Where the send thread may be.
SendPc == {"none", "gate", "asleep", "woken", "loop", "send", "close", "reset",
           "done"}

TypeOK ==
  /\ process \in {"up", "killed", "undefined"}
  /\ fdTable \in [Fds -> Clients \cup {Free}]
  /\ peerSent \in [Clients -> 0..MaxSent]
  /\ nul \in [Clients -> SUBSET (1..MaxSent)]
  /\ peer \in [Clients -> {"open", "closed", "gone"}]
  /\ consumed \in [Clients -> 0..MaxSent]
  /\ echo \in [Clients -> Message]
  /\ mClientFd \in [Clients -> Number]
  /\ mMessageQueue \in [Clients -> Seq(Message)]
  /\ rpc \in [Clients -> {"none", "load", "recv", "blocked", "notify"}
                           \cup ExitPc]
  /\ rfd \in [Clients -> Number]
  /\ rsock \in [Clients -> Clients]
  /\ spc \in [Clients -> SendPc]
  /\ sfd \in [Clients -> Number]
  /\ msg \in [Clients -> Message]
  /\ total \in [Clients -> 0..(SizeMod - 1)]
  /\ sendErrors \in [Clients -> 0..MaxErrors]

Init ==
  /\ process = "up"
  /\ fdTable = [f \in Fds |-> Free]
  /\ peerSent = [c \in Clients |-> 0]
  /\ nul = [c \in Clients |-> {}]
  /\ peer = [c \in Clients |-> "open"]
  /\ consumed = [c \in Clients |-> 0]
  /\ echo = [c \in Clients |-> <<>>]
  /\ mClientFd = [c \in Clients |-> INVALID_FD]
  /\ mMessageQueue = [c \in Clients |-> <<>>]
  /\ rpc = [c \in Clients |-> "none"]
  /\ rfd = [c \in Clients |-> INVALID_FD]
  /\ rsock = [c \in Clients |-> c]
  /\ spc = [c \in Clients |-> "none"]
  /\ sfd = [c \in Clients |-> INVALID_FD]
  /\ msg = [c \in Clients |-> <<>>]
  /\ total = [c \in Clients |-> 0]
  /\ sendErrors = [c \in Clients |-> 0]

\* run() accepts a connection on some free number; handleClient's thread
\* runs doWork, which starts both threads.
Accept(c) ==
  /\ rpc[c] = "none"
  /\ Cardinality({d \in Clients : rpc[d] # "none"}) < MaxAccepted
  /\ \E f \in Fds :
       /\ fdTable[f] = Free
       /\ fdTable' = [fdTable EXCEPT ![f] = c]
       /\ mClientFd' = [mClientFd EXCEPT ![c] = f]
  /\ rpc' = [rpc EXCEPT ![c] = "load"]
  /\ spc' = [spc EXCEPT ![c] = "gate"]
  /\ UNCHANGED <<process, peers, mMessageQueue, rfd, rsock, sendCall>>

-----------------------------------------------------------------------------
(***************************************************************************)
(* handleReadEvent.                                                        *)
(***************************************************************************)
RecvStep(c, from, to) ==
  /\ rpc[c] = from
  /\ rpc' = [rpc EXCEPT ![c] = to]

RecvReturns(c, from, to) ==
  /\ RecvStep(c, from, to)
  /\ rfd' = [rfd EXCEPT ![c] = INVALID_FD]
  /\ rsock' = [rsock EXCEPT ![c] = c]

RecvLoadFd(c) ==
  /\ RecvStep(c, "load", "recv")
  /\ rfd' = [rfd EXCEPT ![c] = mClientFd[c]]
  /\ UNCHANGED <<process, fdTable, peers, ctx, rsock, sendVars>>

\* recv() resolves the number and waits on that socket.
RecvCall(c) ==
  /\ IsOpen(fdTable, rfd[c])
  /\ RecvStep(c, "recv", "blocked")
  /\ rsock' = [rsock EXCEPT ![c] = fdTable[rfd[c]]]
  /\ UNCHANGED <<process, fdTable, peers, ctx, rfd, sendVars>>

RecvBadFd(c) ==
  /\ ~IsOpen(fdTable, rfd[c])
  /\ RecvReturns(c, "recv", "close")
  /\ UNCHANGED <<process, fdTable, peers, ctx, sendVars>>

\* The next n bytes of the stream of d's peer.
Bytes(d, n) == [i \in 1..n |-> <<d, consumed[d] + i>>]

IsNul(b) == b[2] \in nul[b[1]]

\* The bytes before the first '\0'.
CString(buf) ==
  LET k == SelectInSeq(buf, IsNul)
  IN  IF k = 0 THEN buf ELSE SubSeq(buf, 1, k - 1)

\* Mutant of RecvMsg: the IPv4 handler makes its message the same way.
RecvMsg_CString(c, buf) == CString(buf)

\* recv_msg: string(buf, rb) on IPv4; on IPv6 string(buf), which ends at
\* the first '\0', at the latest in the zeros that follow the bytes read.
RecvMsg(c, buf) == IF c \in V6Clients THEN CString(buf) ELSE buf

RecvData(c, n) ==
  LET d == rsock[c] IN
  /\ n <= peerSent[d] - consumed[d]
  /\ RecvReturns(c, "blocked", "notify")
  /\ mMessageQueue' = [mMessageQueue EXCEPT
                         ![c] = Append(@, RecvMsg(c, Bytes(d, n)))]
  /\ consumed' = [consumed EXCEPT ![d] = @ + n]
  /\ UNCHANGED <<process, fdTable, peerSent, nul, peer, echo, mClientFd,
                 sendVars>>

\* SO_RCVTIMEO, which only the IPv4 server sets: continue.
RecvTimesOut(c) ==
  /\ c \notin V6Clients
  /\ peer[rsock[c]] = "open"
  /\ consumed[rsock[c]] = peerSent[rsock[c]]
  /\ RecvReturns(c, "blocked", "load")
  /\ UNCHANGED <<process, fdTable, peers, ctx, sendVars>>

\* Mutant of RecvEnd: the end of the stream is handled like a timeout.
RecvEnd_Continues(c) ==
  /\ peer[rsock[c]] # "open"
  /\ RecvReturns(c, "blocked", "load")
  /\ UNCHANGED <<process, fdTable, peers, ctx, sendVars>>

\* End of stream, or an error (a reset may discard what was not yet read).
RecvEnd(c) ==
  /\ peer[rsock[c]] # "open"
  /\ RecvReturns(c, "blocked", "close")
  /\ UNCHANGED <<process, fdTable, peers, ctx, sendVars>>

\* Mutant of Awake: IPv4 also waits without the predicate.
Awake_NoPredicate(c) == "woken"

\* Where notify_one() takes a thread that sleeps: IPv4 tests the queue
\* again, IPv6 goes on.
Awake(c) == IF c \in V6Clients THEN "woken" ELSE "gate"

\* Mutant of RecvNotify: no message wakes the send thread.
RecvNotify_Omitted(c) ==
  /\ RecvStep(c, "notify", "load")
  /\ UNCHANGED <<process, fdTable, peers, ctx, rfd, rsock, sendVars>>

\* mCond.notify_one() is lost unless the send thread sleeps by now.
NotifySend(c) ==
  spc' = [spc EXCEPT ![c] = IF @ = "asleep" THEN Awake(c) ELSE @]

RecvNotify(c) ==
  /\ RecvStep(c, "notify", "load")
  /\ NotifySend(c)
  /\ UNCHANGED <<process, fdTable, peers, ctx, rfd, rsock, sendCall>>

RecvClose(c) ==
  /\ RecvStep(c, "close", "reset")
  /\ fdTable' = Closed(fdTable, mClientFd[c])
  /\ UNCHANGED <<process, peers, ctx, rfd, rsock, sendVars>>

\* Mutant of RecvReset: the context keeps the number it closed.
RecvReset_KeepsFd(c) ==
  /\ RecvStep(c, "reset", "wake")
  /\ UNCHANGED <<process, fdTable, peers, ctx, rfd, rsock, sendVars>>

RecvReset(c) ==
  /\ RecvStep(c, "reset", "wake")
  /\ mClientFd' = [mClientFd EXCEPT ![c] = INVALID_FD]
  /\ UNCHANGED <<process, fdTable, peers, mMessageQueue, rfd, rsock, sendVars>>

RecvWake(c) ==
  /\ RecvStep(c, "wake", "done")
  /\ NotifySend(c)
  /\ UNCHANGED <<process, fdTable, peers, ctx, rfd, rsock, sendCall>>

RecvThread(c) ==
  /\ process = "up"
  /\ \/ RecvLoadFd(c)
     \/ RecvCall(c)
     \/ RecvBadFd(c)
     \/ \E n \in 1..MaxSent : RecvData(c, n)
     \/ RecvTimesOut(c)
     \/ RecvEnd(c)
     \/ RecvNotify(c)
     \/ RecvClose(c)
     \/ RecvReset(c)
     \/ RecvWake(c)

-----------------------------------------------------------------------------
(***************************************************************************)
(* handleWriteEvent.                                                       *)
(***************************************************************************)
SendStep(c, from, to) ==
  /\ spc[c] = from
  /\ spc' = [spc EXCEPT ![c] = to]

\* The wait, under mMutex.
SendWaits(c) ==
  /\ mMessageQueue[c] = <<>>
  /\ SendStep(c, "gate", "asleep")
  /\ UNCHANGED <<process, fdTable, peers, ctx, recvVars, sendCall>>

\* The wait is over.
PastWait(c) ==
  \/ spc[c] = "gate" /\ mMessageQueue[c] # <<>>
  \/ spc[c] = "woken"

\* The socket has been closed: leave.  IPv6 then closes INVALID_FD.
SendLeaves(c) ==
  /\ PastWait(c)
  /\ mClientFd[c] = INVALID_FD
  /\ spc' = [spc EXCEPT ![c] = "done"]
  /\ UNCHANGED <<process, fdTable, peers, ctx, recvVars, sendCall>>

\* Mutant of SendTakes: the message taken is the last one queued.
SendTakes_Last(c) ==
  /\ PastWait(c)
  /\ mClientFd[c] # INVALID_FD
  /\ mMessageQueue[c] # <<>>
  /\ spc' = [spc EXCEPT ![c] = "loop"]
  /\ msg' = [msg EXCEPT ![c] = Last(mMessageQueue[c])]
  /\ mMessageQueue' = [mMessageQueue EXCEPT ![c] = Front(@)]
  /\ UNCHANGED <<process, fdTable, peers, mClientFd, recvVars,
                 sfd, total, sendErrors>>

SendTakes(c) ==
  /\ PastWait(c)
  /\ mClientFd[c] # INVALID_FD
  /\ mMessageQueue[c] # <<>>
  /\ spc' = [spc EXCEPT ![c] = "loop"]
  /\ msg' = [msg EXCEPT ![c] = Head(mMessageQueue[c])]
  /\ mMessageQueue' = [mMessageQueue EXCEPT ![c] = Tail(@)]
  /\ UNCHANGED <<process, fdTable, peers, mClientFd, recvVars,
                 sfd, total, sendErrors>>

\* front() and pop() on an empty queue: nothing is claimed of what follows.
SendTakesNothing(c) ==
  /\ PastWait(c)
  /\ mClientFd[c] # INVALID_FD
  /\ mMessageQueue[c] = <<>>
  /\ process' = "undefined"
  /\ UNCHANGED <<fdTable, peers, ctx, recvVars, sendVars>>

\* Every turn of the inner loop reads mClientFd again.
SendLoadFd(c) ==
  /\ total[c] < Len(msg[c])
  /\ SendStep(c, "loop", "send")
  /\ sfd' = [sfd EXCEPT ![c] = mClientFd[c]]
  /\ UNCHANGED <<process, fdTable, peers, ctx, recvVars,
                 msg, total, sendErrors>>

SendReturns(c, to) ==
  /\ SendStep(c, "send", to)
  /\ sfd' = [sfd EXCEPT ![c] = INVALID_FD]

\* send()'s argument names the socket of d's peer.
SendsTo(c, d) == IsOpen(fdTable, sfd[c]) /\ fdTable[sfd[c]] = d

SendSome(c, n) ==
  \E d \in Clients :
    /\ SendsTo(c, d) /\ peer[d] # "gone"
    /\ n <= Len(msg[c]) - total[c]
    /\ SendReturns(c, "loop")
    /\ echo' = [echo EXCEPT ![d] =
                  IF peer[d] # "open" THEN @
                  ELSE @ \o SubSeq(msg[c], total[c] + 1, total[c] + n)]
    /\ total' = [total EXCEPT ![c] = AddSize(@, n)]
    /\ UNCHANGED <<process, fdTable, peerSent, nul, peer, consumed, ctx,
                   recvVars, msg, sendErrors>>

\* send() returns -1: EBADF, the peer is gone, or SO_SNDTIMEO, which only
\* the IPv4 server sets.
SendCallFails(c) ==
  \/ ~IsOpen(fdTable, sfd[c])
  \/ \E d \in Clients : SendsTo(c, d) /\ peer[d] # "open"
  \/ c \notin V6Clients /\ sendErrors[c] < MaxErrors

\* The history counts no further than the bound.
CountError(c) ==
  sendErrors' = [sendErrors EXCEPT ![c] = IF @ < MaxErrors THEN @ + 1 ELSE @]

\* Mutant of SendFails: sb is an int, and the branch for sb < 0 closes the
\* socket but lacks the reset and the break.
SendFails_Closes(c) ==
  /\ SendCallFails(c)
  /\ SendReturns(c, "loop")
  /\ fdTable' = Closed(fdTable, mClientFd[c])
  /\ CountError(c)
  /\ UNCHANGED <<process, peers, ctx, recvVars, msg, total>>

\* sb is a size_t, so the test sb < 0 never succeeds and the -1 is added to
\* total_send: the message ends early, or goes back by one byte.
SendFails(c) ==
  /\ SendCallFails(c)
  /\ SendReturns(c, "loop")
  /\ total' = [total EXCEPT ![c] = AddSize(@, AsSize(-1))]
  /\ peer' = [d \in Clients |->
                IF SendsTo(c, d) /\ peer[d] # "open" THEN "gone" ELSE peer[d]]
  /\ CountError(c)
  /\ UNCHANGED <<process, fdTable, peerSent, nul, consumed, echo, ctx, recvVars,
                 msg>>

\* EPIPE with flags = 0; IPv4 passes MSG_NOSIGNAL.
SendSigPipe(c) ==
  /\ c \in V6Clients
  /\ spc[c] = "send"
  /\ \E d \in Clients : SendsTo(c, d) /\ peer[d] # "open"
  /\ process' = "killed"
  /\ UNCHANGED <<fdTable, peers, ctx, recvVars, sendVars>>

\* send() returns 0.  IPv6 drops the rest of the message.
SendZero(c) ==
  /\ ZeroSend
  /\ IsOpen(fdTable, sfd[c])
  /\ SendReturns(c, IF c \in V6Clients THEN "gate" ELSE "close")
  /\ msg' = [msg EXCEPT ![c] = <<>>]
  /\ total' = [total EXCEPT ![c] = 0]
  /\ CountError(c)
  /\ UNCHANGED <<process, fdTable, peers, ctx, recvVars>>

\* IPv4 closes the socket, resets mClientFd and therefore leaves.
SendClose(c) ==
  /\ SendStep(c, "close", "reset")
  /\ fdTable' = Closed(fdTable, mClientFd[c])
  /\ UNCHANGED <<process, peers, ctx, recvVars, sendCall>>

SendReset(c) ==
  /\ SendStep(c, "reset", "done")
  /\ mClientFd' = [mClientFd EXCEPT ![c] = INVALID_FD]
  /\ UNCHANGED <<process, fdTable, peers, mMessageQueue, recvVars, sendCall>>

\* The message is sent; IPv4 then looks at mClientFd once more.
SendEnds(c) ==
  /\ total[c] >= Len(msg[c])
  /\ SendStep(c, "loop",
              IF c \notin V6Clients /\ mClientFd[c] = INVALID_FD
              THEN "done" ELSE "gate")
  /\ msg' = [msg EXCEPT ![c] = <<>>]
  /\ total' = [total EXCEPT ![c] = 0]
  /\ UNCHANGED <<process, fdTable, peers, ctx, recvVars, sfd, sendErrors>>

SendThread(c) ==
  /\ process = "up"
  /\ \/ SendWaits(c)
     \/ SendLeaves(c)
     \/ SendTakes(c)
     \/ SendTakesNothing(c)
     \/ SendLoadFd(c)
     \/ \E n \in 1..MaxSent : SendSome(c, n)
     \/ SendFails(c)
     \/ SendSigPipe(c)
     \/ SendZero(c)
     \/ SendClose(c)
     \/ SendReset(c)
     \/ SendEnds(c)

-----------------------------------------------------------------------------
SpuriousWakeup(c) ==
  /\ SpuriousWakeups
  /\ SendStep(c, "asleep", Awake(c))
  /\ UNCHANGED <<process, fdTable, peers, ctx, recvVars, sendCall>>

PeerSends(c, isNul) ==
  /\ rpc[c] # "none" /\ peer[c] = "open"
  /\ peerSent[c] < MaxSent
  /\ peerSent' = [peerSent EXCEPT ![c] = @ + 1]
  /\ nul' = [nul EXCEPT ![c] = IF isNul THEN @ \cup {peerSent'[c]} ELSE @]
  /\ UNCHANGED <<process, fdTable, peer, consumed, echo, ctx, recvVars,
                 sendVars>>

PeerCloses(c) ==
  /\ rpc[c] # "none" /\ peer[c] = "open"
  /\ peer' = [peer EXCEPT ![c] = "closed"]
  /\ UNCHANGED <<process, fdTable, peerSent, nul, consumed, echo, ctx,
                 recvVars, sendVars>>

Environment(c) ==
  /\ process = "up"
  /\ \/ Accept(c)
     \/ SpuriousWakeup(c)
     \/ \E isNul \in BOOLEAN : PeerSends(c, isNul)
     \/ PeerCloses(c)

Next == \E c \in Clients : RecvThread(c) \/ SendThread(c) \/ Environment(c)

Spec == Init /\ [][Next]_vars

\* Both threads of a handler run when they can; peers may do nothing, but
\* read what is sent to them or let send() time out or fail.
FairSpec ==
  /\ Spec
  /\ \A c \in Clients : WF_vars(RecvThread(c)) /\ WF_vars(SendThread(c))

-----------------------------------------------------------------------------
(***************************************************************************)
(* Properties.                                                             *)
(***************************************************************************)

\* Where in echo[c] a byte of c's own is, and the places in its stream that
\* came back.
OwnAt(c) == {k \in 1..Len(echo[c]) : echo[c][k][1] = c}
Returned(c) == {echo[c][k][2] : k \in OwnAt(c)}

InOrder(c) ==
  \A k, l \in OwnAt(c) : k < l => echo[c][k][2] < echo[c][l][2]

\* Of the bytes in S, those from some '\0' up to i are missing.
CutOff(c, i, S) ==
  c \in V6Clients /\ \E j \in nul[c] : j <= i /\ (j..i) \cap S = {}

NoGap(c) ==
  \A b \in Returned(c) : \A i \in 1..b :
    i \in Returned(c) \/ CutOff(c, i, Returned(c))

(***************************************************************************)
(* Unless a send() failed, a peer gets its own bytes back in order, once   *)
(* each and, on IPv4, without a gap, however recv() cuts the stream into   *)
(* messages and send() cuts the messages; on IPv6 the bytes missing before *)
(* one that came back are missing from some '\0' on.                       *)
(***************************************************************************)
EchoInOrder ==
  \A c \in Clients : sendErrors[c] = 0 => InOrder(c) /\ NoGap(c)

(***************************************************************************)
(* A peer gets another peer's bytes only from a send thread whose recv     *)
(* thread has already left: mClientFd is read without a lock, so the       *)
(* number may be closed and reused between that read and send().           *)
(***************************************************************************)
EchoReachesOwner ==
  \A d \in Clients : \A k \in 1..Len(echo[d]) :
    echo[d][k][1] # d => rpc[echo[d][k][1]] \in ExitPc

(***************************************************************************)
(* Only an IPv6 handler can bring the process down: it alone is past its   *)
(* wait with an empty queue, or sends without MSG_NOSIGNAL to a peer that  *)
(* is gone.  The predicate of the IPv4 wait holds off both the notify that *)
(* comes after its message was taken and the spurious wakeup.              *)
(***************************************************************************)
OnlyIPV6BringsDown ==
  /\ process = "undefined" =>
       \E c \in V6Clients : PastWait(c) /\ mMessageQueue[c] = <<>>
  /\ process = "killed" => \E c \in V6Clients : spc[c] = "send"

(***************************************************************************)
(* The handler as the abstract connection sees it: the connection is       *)
(* closed from close() on, one step before mClientFd says so.              *)
(***************************************************************************)
connectionStatus ==
  [c \in Clients |->
     IF rpc[c] = "none" THEN "absent"
     ELSE IF mClientFd[c] # INVALID_FD /\ rpc[c] # "reset" THEN "open"
     ELSE "closed"]

Lifecycle == INSTANCE ConnectionLifecycle WITH status <- connectionStatus

(***************************************************************************)
(* While send() never returns 0, the recv thread alone closes the socket,  *)
(* so that close and reset without a lock still implement the connection   *)
(* lifecycle: one close, of the right descriptor.                          *)
(***************************************************************************)
ImplementsLifecycle == Lifecycle!LifecycleSpec

(***************************************************************************)
(* A peer that closes its connection frees the descriptor.                 *)
(***************************************************************************)
PeerCloseReleases ==
  \A c \in Clients :
    rpc[c] # "none" /\ peer[c] # "open"
      ~> connectionStatus[c] = "closed" \/ process # "up"

(***************************************************************************)
(* Every byte that recv() took is sent back, unless a send() fails, the    *)
(* connection ends first, or an IPv6 message had a '\0': no message is     *)
(* left in the queue with the send thread asleep.                          *)
(***************************************************************************)
EchoDelivered ==
  \A c \in Clients : \A i \in 1..MaxSent :
    consumed[c] >= i
      ~> \/ \E k \in 1..Len(echo[c]) : echo[c][k] = <<c, i>>
         \/ sendErrors[c] > 0 \/ rpc[c] \in ExitPc \/ process # "up"
         \/ c \in V6Clients /\ nul[c] # {}

(***************************************************************************)
(* When the recv thread is done the send thread ends too, unless it sleeps *)
(* with every message taken: whatever is still queued, and wherever the    *)
(* close finds the send thread, no other one stays behind.  (An IPv4 one   *)
(* that does sleep stays for ever: its predicate asks only for a message.) *)
(***************************************************************************)
OnlyIdleSendThreadStays ==
  \A c \in Clients :
    rpc[c] = "done"
      ~> \/ spc[c] = "done"
         \/ spc[c] = "asleep" /\ mMessageQueue[c] = <<>>
         \/ process # "up"
=============================================================================
