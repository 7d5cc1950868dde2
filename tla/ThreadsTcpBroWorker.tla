------------------------ MODULE ThreadsTcpBroWorker ------------------------
(***************************************************************************)
(* ThreadsTcpBroWorker: the two threads that serve one accepted client.    *)
(* ThreadsTcpBroProcessor::process hands each context to a detached thread *)
(* whose worker starts a recv thread (handleReadEvent) and a send thread   *)
(* (handleWriteEvent) and joins both.  The two share the SocketContext,    *)
(* the two event flags with their condition variables, and a shutdown      *)
(* protocol: whichever thread ends first closes the descriptor, raises the *)
(* other's event flag, interrupts it and notifies its condition variable.  *)
(*                                                                         *)
(* All clients are modelled together because they share the descriptor     *)
(* table of the process.  A step is the code between two accesses to state *)
(* another thread can see; what runs under mReadMutex, mWriteMutex,        *)
(* mRequestMutex or mResponseMutex is one step, as the mutex makes it.     *)
(* mMutex is explicit: close() and the reset of mClientFd are two steps    *)
(* under it, and the threads read mClientFd without it.                    *)
(***************************************************************************)
EXTENDS SocketTable, SizeT, Sequences

CONSTANTS
  Clients,         \* the connections; one context and one worker for each
  V6Clients,       \* those whose context is an IPV6SocketContext
  AppClients,      \* those whose worker's public methods a program calls
  MaxSent,         \* bound: bytes a peer writes
  MaxResponse,     \* bound: length of mResponse
  ZeroSend,        \* send() may return 0 for a nonempty buffer
  SpuriousWakeups, \* condition variables may wake without a notify
  TraceEnabled     \* the "SysLog" logger is at TRACE

ASSUME WorkerAssumption ==
  /\ V6Clients \subseteq Clients
  /\ AppClients \subseteq Clients
  /\ {Free, Reserved} \cap Clients = {}
  /\ MaxSent \in Nat
  /\ MaxResponse \in Nat
  /\ SizeMod > MaxResponse + 1
  /\ ZeroSend \in BOOLEAN
  /\ SpuriousWakeups \in BOOLEAN
  /\ TraceEnabled \in BOOLEAN

VARIABLES
  \* the process and the kernel
  process,          \* "up", or "killed" by a signal
  fdTable,          \* the socket behind each descriptor
  \* the connections, at the peers' end
  peerSent,         \* bytes the peer has written
  peerClosed,       \* the peer has closed or reset the connection
  consumed,         \* bytes of the peer's stream that recv() has taken
  inbox,            \* the contexts whose response bytes went to this peer
  \* SocketContext
  mClientFd, mMutex, mRequest, mResponse,
  \* ThreadsTcpBroWorker
  mIsReadEnabled, mIsWriteEnabled,
  recvInterrupted, sendInterrupted,  \* boost's interruption requests
  dpc,              \* the thread in doWork
  rpc, rfd, rsock,  \* the recv thread, its fd argument, the socket it waits on
  spc, sfd, slen, total  \* the send thread, its send_bytes call

env  == <<peerSent, peerClosed, consumed, inbox>>
ctx  == <<mClientFd, mMutex, mRequest, mResponse>>
flags == <<mIsReadEnabled, mIsWriteEnabled, recvInterrupted, sendInterrupted>>
recvVars == <<rpc, rfd, rsock>>
sendVars == <<spc, sfd, slen, total>>
vars == <<process, fdTable, env, ctx, flags, dpc, recvVars, sendVars>>

DoWorkPc == {"none", "startRecv", "startSend", "assignSend",
             "joinRecv", "joinSend", "done"}
ExitPc   == {"close", "reset", "enable", "interrupt", "notify", "done"}
RecvPc   == {"none", "loop", "gate", "asleep", "load", "recv", "blocked"}
              \cup ExitPc
SendPc   == {"none", "loop", "gate", "asleep", "copy", "load", "send"}
              \cup ExitPc

TypeOK ==
  /\ process \in {"up", "killed"}
  /\ fdTable \in [Fds -> Clients \cup {Free}]
  /\ peerSent \in [Clients -> 0..MaxSent]
  /\ peerClosed \in [Clients -> BOOLEAN]
  /\ consumed \in [Clients -> 0..MaxSent]
  /\ inbox \in [Clients -> SUBSET Clients]
  /\ mClientFd \in [Clients -> Fds \cup {INVALID_FD}]
  /\ mMutex \in [Clients -> {"unlocked", "recv", "send"}]
  /\ mRequest \in [Clients -> Seq(Clients \X (1..MaxSent))]
  /\ mResponse \in [Clients -> 0..MaxResponse]
  /\ mIsReadEnabled \in [Clients -> BOOLEAN]
  /\ mIsWriteEnabled \in [Clients -> BOOLEAN]
  /\ recvInterrupted \in [Clients -> BOOLEAN]
  /\ sendInterrupted \in [Clients -> BOOLEAN]
  /\ dpc \in [Clients -> DoWorkPc]
  /\ rpc \in [Clients -> RecvPc]
  /\ rfd \in [Clients -> Fds \cup {INVALID_FD}]
  /\ rsock \in [Clients -> Clients]
  /\ spc \in [Clients -> SendPc]
  /\ sfd \in [Clients -> Fds \cup {INVALID_FD}]
  /\ slen \in [Clients -> 0..MaxResponse]
  /\ total \in [Clients -> 0..(SizeMod - 1)]

Init ==
  /\ process = "up"
  /\ fdTable = [f \in Fds |-> Free]
  /\ peerSent = [c \in Clients |-> 0]
  /\ peerClosed = [c \in Clients |-> FALSE]
  /\ consumed = [c \in Clients |-> 0]
  /\ inbox = [c \in Clients |-> {}]
  /\ mClientFd = [c \in Clients |-> INVALID_FD]
  /\ mMutex = [c \in Clients |-> "unlocked"]
  /\ mRequest = [c \in Clients |-> <<>>]
  /\ mResponse = [c \in Clients |-> 0]
  /\ mIsReadEnabled = [c \in Clients |-> TRUE]
  /\ mIsWriteEnabled = [c \in Clients |-> FALSE]
  /\ recvInterrupted = [c \in Clients |-> FALSE]
  /\ sendInterrupted = [c \in Clients |-> FALSE]
  /\ dpc = [c \in Clients |-> "none"]
  /\ rpc = [c \in Clients |-> "none"]
  /\ rfd = [c \in Clients |-> INVALID_FD]
  /\ rsock = [c \in Clients |-> c]
  /\ spc = [c \in Clients |-> "none"]
  /\ sfd = [c \in Clients |-> INVALID_FD]
  /\ slen = [c \in Clients |-> 0]
  /\ total = [c \in Clients |-> 0]

-----------------------------------------------------------------------------
(***************************************************************************)
(* Acceptance and the thread in doWork.                                    *)
(***************************************************************************)

\* accept() returned f: a context holds it and a detached thread enters
\* doWork with a new worker.
ServeOn(c, f) ==
  /\ dpc[c] = "none"
  /\ fdTable' = [fdTable EXCEPT ![f] = c]
  /\ mClientFd' = [mClientFd EXCEPT ![c] = f]
  /\ dpc' = [dpc EXCEPT ![c] = "startRecv"]
  /\ UNCHANGED <<process, env, mMutex, mRequest, mResponse, flags,
                 recvVars, sendVars>>

\* Mutant of Accept: accept()'s result is not checked, so with the table
\* full the context keeps the number of the connection before.
Accept_Unchecked(c) ==
  \E f \in Fds :
    \/ fdTable[f] = Free /\ ServeOn(c, f)
    \/ /\ \A g \in Fds : IsOpen(fdTable, g)
       /\ dpc[c] = "none"
       /\ mClientFd' = [mClientFd EXCEPT ![c] = f]
       /\ dpc' = [dpc EXCEPT ![c] = "startRecv"]
       /\ UNCHANGED <<process, fdTable, env, mMutex, mRequest, mResponse,
                      flags, recvVars, sendVars>>

\* accept() reserves its number before it waits, so the number need not be
\* the lowest free one when the connection comes: any free number may be.
Accept(c) == \E f \in Fds : fdTable[f] = Free /\ ServeOn(c, f)

\* Mutant of ThreadEntry: the cast is to IPV6SocketContext.
ThreadEntry_WrongCast(c) == IF c \in V6Clients THEN "loop" ELSE "done"

\* The first statement of either thread is a cast to IPV4SocketContext: on
\* an IPv6 context it fails and the thread returns, before the scope guard
\* that would close the descriptor exists.
ThreadEntry(c) == IF c \in V6Clients THEN "done" ELSE "loop"

DoWorkStep(c, from, to) ==
  /\ dpc[c] = from
  /\ dpc' = [dpc EXCEPT ![c] = to]

StartRecv(c) ==
  /\ DoWorkStep(c, "startRecv", "startSend")
  /\ rpc' = [rpc EXCEPT ![c] = ThreadEntry(c)]
  /\ UNCHANGED <<process, fdTable, env, ctx, flags, rfd, rsock, sendVars>>

\* The send thread runs before mSendThread is assigned: two steps.
StartSend(c) ==
  /\ DoWorkStep(c, "startSend", "assignSend")
  /\ spc' = [spc EXCEPT ![c] = ThreadEntry(c)]
  /\ UNCHANGED <<process, fdTable, env, ctx, flags, recvVars, sfd, slen, total>>

AssignSend(c) ==
  /\ DoWorkStep(c, "assignSend", "joinRecv")
  /\ UNCHANGED <<process, fdTable, env, ctx, flags, recvVars, sendVars>>

\* mSendThread names the send thread.
SendAssigned(c) == dpc[c] \in {"joinRecv", "joinSend", "done"}

JoinRecv(c) ==
  /\ rpc[c] = "done"
  /\ DoWorkStep(c, "joinRecv", "joinSend")
  /\ UNCHANGED <<process, fdTable, env, ctx, flags, recvVars, sendVars>>

JoinSend(c) ==
  /\ spc[c] = "done"
  /\ DoWorkStep(c, "joinSend", "done")
  /\ UNCHANGED <<process, fdTable, env, ctx, flags, recvVars, sendVars>>

DoWork(c) ==
  /\ process = "up"
  /\ \/ StartRecv(c)
     \/ StartSend(c)
     \/ AssignSend(c)
     \/ JoinRecv(c)
     \/ JoinSend(c)

-----------------------------------------------------------------------------
(***************************************************************************)
(* handleReadEvent.                                                        *)
(***************************************************************************)
RecvStep(c, from, to) ==
  /\ rpc[c] = from
  /\ rpc' = [rpc EXCEPT ![c] = to]

\* recv() has returned: its argument and the socket it waited on are gone.
RecvReturns(c, from, to) ==
  /\ RecvStep(c, from, to)
  /\ rfd' = [rfd EXCEPT ![c] = INVALID_FD]
  /\ rsock' = [rsock EXCEPT ![c] = c]

\* boost::this_thread::interruption_point(): a pending request is taken.
RecvInterruptionPoint(c) ==
  /\ RecvStep(c, "loop", IF recvInterrupted[c] THEN "close" ELSE "gate")
  /\ recvInterrupted' = [recvInterrupted EXCEPT ![c] = FALSE]
  /\ UNCHANGED <<process, fdTable, env, ctx, mIsReadEnabled, mIsWriteEnabled,
                 sendInterrupted, dpc, rfd, rsock, sendVars>>

\* while (!mIsReadEnabled) mReadCond.wait(lk): under mReadMutex the test
\* and falling asleep are one step.
RecvGate(c) ==
  /\ RecvStep(c, "gate", IF mIsReadEnabled[c] THEN "load" ELSE "asleep")
  /\ UNCHANGED <<process, fdTable, env, ctx, flags, dpc, rfd, rsock, sendVars>>

\* The fd argument of recv() is read without mMutex.
RecvLoadFd(c) ==
  /\ RecvStep(c, "load", "recv")
  /\ rfd' = [rfd EXCEPT ![c] = mClientFd[c]]
  /\ UNCHANGED <<process, fdTable, env, ctx, flags, dpc, rsock, sendVars>>

\* recv() resolves the number; from then on it waits on that socket, which
\* close() by another thread does not end.
RecvCall(c) ==
  /\ IsOpen(fdTable, rfd[c])
  /\ RecvStep(c, "recv", "blocked")
  /\ rsock' = [rsock EXCEPT ![c] = fdTable[rfd[c]]]
  /\ UNCHANGED <<process, fdTable, env, ctx, flags, dpc, rfd, sendVars>>

\* EBADF is an error like any other: leave the loop.
RecvBadFd(c) ==
  /\ ~IsOpen(fdTable, rfd[c])
  /\ RecvReturns(c, "recv", "close")
  /\ UNCHANGED <<process, fdTable, env, ctx, flags, dpc, sendVars>>

\* rb = n: the bytes are appended to mRequest.
RecvData(c, n) ==
  LET d == rsock[c] IN
  /\ n <= peerSent[d] - consumed[d]
  /\ RecvReturns(c, "blocked", "loop")
  /\ mRequest' = [mRequest EXCEPT
                    ![c] = @ \o [i \in 1..n |-> <<d, consumed[d] + i>>]]
  /\ consumed' = [consumed EXCEPT ![d] = @ + n]
  /\ UNCHANGED <<process, fdTable, peerSent, peerClosed, inbox, mClientFd,
                 mMutex, mResponse, flags, dpc, sendVars>>

\* EAGAIN or EWOULDBLOCK: continue.
RecvAgain(c) ==
  /\ ~peerClosed[rsock[c]]
  /\ consumed[rsock[c]] = peerSent[rsock[c]]
  /\ RecvReturns(c, "blocked", "loop")
  /\ UNCHANGED <<process, fdTable, env, ctx, flags, dpc, sendVars>>

\* Mutant of RecvEnd: end of stream is handled like EAGAIN.
RecvEnd_Continues(c) ==
  /\ peerClosed[rsock[c]]
  /\ RecvReturns(c, "blocked", "loop")
  /\ UNCHANGED <<process, fdTable, env, ctx, flags, dpc, sendVars>>

\* rb = 0, or another error (a reset may discard what was not yet read).
RecvEnd(c) ==
  /\ peerClosed[rsock[c]]
  /\ RecvReturns(c, "blocked", "close")
  /\ UNCHANGED <<process, fdTable, env, ctx, flags, dpc, sendVars>>

\* The scope guard, under mMutex: close(mClientFd), then the reset.
RecvClose(c) ==
  /\ mMutex[c] = "unlocked"
  /\ RecvStep(c, "close", "reset")
  /\ mMutex' = [mMutex EXCEPT ![c] = "recv"]
  /\ fdTable' = Closed(fdTable, mClientFd[c])
  /\ UNCHANGED <<process, env, mClientFd, mRequest, mResponse, flags, dpc,
                 rfd, rsock, sendVars>>

\* Mutant of RecvReset: mClientFd keeps the number that was closed.
RecvReset_KeepsFd(c) ==
  /\ RecvStep(c, "reset", "enable")
  /\ mMutex' = [mMutex EXCEPT ![c] = "unlocked"]
  /\ UNCHANGED <<process, fdTable, env, mClientFd, mRequest, mResponse, flags,
                 dpc, rfd, rsock, sendVars>>

RecvReset(c) ==
  /\ RecvStep(c, "reset", "enable")
  /\ mClientFd' = [mClientFd EXCEPT ![c] = INVALID_FD]
  /\ mMutex' = [mMutex EXCEPT ![c] = "unlocked"]
  /\ UNCHANGED <<process, fdTable, env, mRequest, mResponse, flags, dpc,
                 rfd, rsock, sendVars>>

\* The rest of the guard: enableWriteEvent(), mSendThread.interrupt() and
\* mWriteCond.notify_one(), in this order.
RecvEnablesWrite(c) ==
  /\ RecvStep(c, "enable", "interrupt")
  /\ mIsWriteEnabled' = [mIsWriteEnabled EXCEPT ![c] = TRUE]
  /\ UNCHANGED <<process, fdTable, env, ctx, mIsReadEnabled, recvInterrupted,
                 sendInterrupted, dpc, rfd, rsock, sendVars>>

\* interrupt() on a boost::thread that is not yet assigned does nothing.
RecvInterruptsSend(c) ==
  /\ RecvStep(c, "interrupt", "notify")
  /\ sendInterrupted' = [sendInterrupted EXCEPT ![c] = @ \/ SendAssigned(c)]
  /\ UNCHANGED <<process, fdTable, env, ctx, mIsReadEnabled, mIsWriteEnabled,
                 recvInterrupted, dpc, rfd, rsock, sendVars>>

\* Mutant of RecvNotifiesSend: the condition variable is not notified.
RecvNotifiesSend_Omitted(c) ==
  /\ RecvStep(c, "notify", "done")
  /\ UNCHANGED <<process, fdTable, env, ctx, flags, dpc, rfd, rsock, sendVars>>

\* A notify wakes a sleeping thread, which tests its predicate again; with
\* no thread asleep it is lost.
RecvNotifiesSend(c) ==
  /\ RecvStep(c, "notify", "done")
  /\ spc' = [spc EXCEPT ![c] = IF @ = "asleep" THEN "gate" ELSE @]
  /\ UNCHANGED <<process, fdTable, env, ctx, flags, dpc, rfd, rsock,
                 sfd, slen, total>>

RecvThread(c) ==
  /\ process = "up"
  /\ \/ RecvInterruptionPoint(c)
     \/ RecvGate(c)
     \/ RecvLoadFd(c)
     \/ RecvCall(c)
     \/ RecvBadFd(c)
     \/ \E n \in 1..MaxSent : RecvData(c, n)
     \/ RecvAgain(c)
     \/ RecvEnd(c)
     \/ RecvClose(c)
     \/ RecvReset(c)
     \/ RecvEnablesWrite(c)
     \/ RecvInterruptsSend(c)
     \/ RecvNotifiesSend(c)

-----------------------------------------------------------------------------
(***************************************************************************)
(* handleWriteEvent, with the loop of IOHelper::send_bytes it calls.       *)
(***************************************************************************)
SendStep(c, from, to) ==
  /\ spc[c] = from
  /\ spc' = [spc EXCEPT ![c] = to]

\* send_bytes has returned: its arguments, the copy of the response and
\* total_send are gone.
SendBytesReturns(c, to) ==
  /\ SendStep(c, "send", to)
  /\ sfd' = [sfd EXCEPT ![c] = INVALID_FD]
  /\ slen' = [slen EXCEPT ![c] = 0]
  /\ total' = [total EXCEPT ![c] = 0]

SendInterruptionPoint(c) ==
  /\ SendStep(c, "loop", IF sendInterrupted[c] THEN "close" ELSE "gate")
  /\ sendInterrupted' = [sendInterrupted EXCEPT ![c] = FALSE]
  /\ UNCHANGED <<process, fdTable, env, ctx, mIsReadEnabled, mIsWriteEnabled,
                 recvInterrupted, dpc, recvVars, sfd, slen, total>>

\* mWriteCond.wait(lk, predicate), and the flag is taken.
SendGate(c) ==
  /\ SendStep(c, "gate", IF mIsWriteEnabled[c] THEN "copy" ELSE "asleep")
  /\ mIsWriteEnabled' = [mIsWriteEnabled EXCEPT ![c] = FALSE]
  /\ UNCHANGED <<process, fdTable, env, ctx, mIsReadEnabled, recvInterrupted,
                 sendInterrupted, dpc, recvVars, sfd, slen, total>>

SendCopiesResponse(c) ==
  /\ SendStep(c, "copy", "load")
  /\ slen' = [slen EXCEPT ![c] = mResponse[c]]
  /\ UNCHANGED <<process, fdTable, env, ctx, flags, dpc, recvVars, sfd, total>>

\* send_bytes is called: it keeps the number by value, read without mMutex.
SendLoadFd(c) ==
  /\ SendStep(c, "load", "send")
  /\ sfd' = [sfd EXCEPT ![c] = mClientFd[c]]
  /\ UNCHANGED <<process, fdTable, env, ctx, flags, dpc, recvVars, slen, total>>

\* send() takes n bytes, for whatever socket the number names by now.
SendSome(c, n) ==
  /\ spc[c] = "send"
  /\ IsOpen(fdTable, sfd[c])
  /\ n <= slen[c] - total[c]
  /\ inbox' = [inbox EXCEPT ![fdTable[sfd[c]]] = @ \cup {c}]
  /\ total' = [total EXCEPT ![c] = AddSize(@, n)]
  /\ UNCHANGED <<process, fdTable, peerSent, peerClosed, consumed, ctx, flags,
                 dpc, recvVars, spc, sfd, slen>>

\* send() fails: EBADF, or the peer is gone.
SendCallFails(c) ==
  /\ spc[c] = "send"
  /\ total[c] < slen[c]
  /\ IsOpen(fdTable, sfd[c]) => peerClosed[fdTable[sfd[c]]]

\* Mutant of SendFails: the result is an int, so the test sb < 0 works and
\* the send thread leaves.
SendFails_Returns(c) ==
  /\ SendCallFails(c)
  /\ SendBytesReturns(c, "close")
  /\ UNCHANGED <<process, fdTable, env, ctx, flags, dpc, recvVars>>

\* The -1 is added to total_send as a size_t.  With TRACE on, hexdump of
\* 2^w - 1 bytes ends the process.
SendFails(c) ==
  /\ SendCallFails(c)
  /\ process' = IF TraceEnabled THEN "killed" ELSE "up"
  /\ total' = [total EXCEPT ![c] = AddSize(@, AsSize(-1))]
  /\ UNCHANGED <<fdTable, env, ctx, flags, dpc, recvVars, spc, sfd, slen>>

\* flags = 0: EPIPE comes with a SIGPIPE nothing handles.
SendSigPipe(c) ==
  /\ SendCallFails(c)
  /\ IsOpen(fdTable, sfd[c])
  /\ process' = "killed"
  /\ UNCHANGED <<fdTable, env, ctx, flags, dpc, recvVars, sendVars>>

\* send() returns 0: send_bytes returns false and the send thread leaves.
SendReturnsFalse(c) ==
  /\ ZeroSend
  /\ total[c] < slen[c]
  /\ IsOpen(fdTable, sfd[c])
  /\ SendBytesReturns(c, "close")
  /\ UNCHANGED <<process, fdTable, env, ctx, flags, dpc, recvVars>>

SendReturnsTrue(c) ==
  /\ total[c] >= slen[c]
  /\ SendBytesReturns(c, "loop")
  /\ UNCHANGED <<process, fdTable, env, ctx, flags, dpc, recvVars>>

\* Mutant of SendClose: the guard does not take mMutex.
SendClose_Unlocked(c) ==
  /\ SendStep(c, "close", "reset")
  /\ fdTable' = Closed(fdTable, mClientFd[c])
  /\ UNCHANGED <<process, env, ctx, flags, dpc, recvVars, sfd, slen, total>>

\* The scope guard of the send thread mirrors that of the recv thread.
SendClose(c) ==
  /\ mMutex[c] = "unlocked"
  /\ SendStep(c, "close", "reset")
  /\ mMutex' = [mMutex EXCEPT ![c] = "send"]
  /\ fdTable' = Closed(fdTable, mClientFd[c])
  /\ UNCHANGED <<process, env, mClientFd, mRequest, mResponse, flags, dpc,
                 recvVars, sfd, slen, total>>

SendReset(c) ==
  /\ SendStep(c, "reset", "enable")
  /\ mClientFd' = [mClientFd EXCEPT ![c] = INVALID_FD]
  /\ mMutex' = [mMutex EXCEPT ![c] = "unlocked"]
  /\ UNCHANGED <<process, fdTable, env, mRequest, mResponse, flags, dpc,
                 recvVars, sfd, slen, total>>

SendEnablesRead(c) ==
  /\ SendStep(c, "enable", "interrupt")
  /\ mIsReadEnabled' = [mIsReadEnabled EXCEPT ![c] = TRUE]
  /\ UNCHANGED <<process, fdTable, env, ctx, mIsWriteEnabled, recvInterrupted,
                 sendInterrupted, dpc, recvVars, sfd, slen, total>>

\* mRecvThread was assigned before the send thread was created.  Once
\* joined it names no thread.
SendInterruptsRecv(c) ==
  /\ SendStep(c, "interrupt", "notify")
  /\ recvInterrupted' = [recvInterrupted EXCEPT ![c] = @ \/ dpc[c] # "joinSend"]
  /\ UNCHANGED <<process, fdTable, env, ctx, mIsReadEnabled, mIsWriteEnabled,
                 sendInterrupted, dpc, recvVars, sfd, slen, total>>

SendNotifiesRecv(c) ==
  /\ SendStep(c, "notify", "done")
  /\ rpc' = [rpc EXCEPT ![c] = IF @ = "asleep" THEN "gate" ELSE @]
  /\ UNCHANGED <<process, fdTable, env, ctx, flags, dpc, rfd, rsock,
                 sfd, slen, total>>

SendThread(c) ==
  /\ process = "up"
  /\ \/ SendInterruptionPoint(c)
     \/ SendGate(c)
     \/ SendCopiesResponse(c)
     \/ SendLoadFd(c)
     \/ \E n \in 1..MaxResponse : SendSome(c, n)
     \/ SendFails(c)
     \/ SendSigPipe(c)
     \/ SendReturnsFalse(c)
     \/ SendReturnsTrue(c)
     \/ SendClose(c)
     \/ SendReset(c)
     \/ SendEnablesRead(c)
     \/ SendInterruptsRecv(c)
     \/ SendNotifiesRecv(c)

-----------------------------------------------------------------------------
(***************************************************************************)
(* Everybody else: the condition variables, a program that uses the        *)
(* worker's methods and the context's mResponse, and the peers.            *)
(***************************************************************************)
RecvSpuriousWakeup(c) ==
  /\ RecvStep(c, "asleep", "gate")
  /\ UNCHANGED <<process, fdTable, env, ctx, flags, dpc, rfd, rsock, sendVars>>

SendSpuriousWakeup(c) ==
  /\ SendStep(c, "asleep", "gate")
  /\ UNCHANGED <<process, fdTable, env, ctx, flags, dpc, recvVars,
                 sfd, slen, total>>

\* enableReadEvent and disbaleReadEvent: the flag only, no notify.
SetReadEvent(c, b) ==
  /\ mIsReadEnabled' = [mIsReadEnabled EXCEPT ![c] = b]
  /\ UNCHANGED <<process, fdTable, env, ctx, mIsWriteEnabled, recvInterrupted,
                 sendInterrupted, dpc, recvVars, sendVars>>

\* enableWriteEvent and disbaleWriteEvent.
SetWriteEvent(c, b) ==
  /\ mIsWriteEnabled' = [mIsWriteEnabled EXCEPT ![c] = b]
  /\ UNCHANGED <<process, fdTable, env, ctx, mIsReadEnabled, recvInterrupted,
                 sendInterrupted, dpc, recvVars, sendVars>>

SetResponse(c, n) ==
  /\ mResponse' = [mResponse EXCEPT ![c] = n]
  /\ UNCHANGED <<process, fdTable, env, mClientFd, mMutex, mRequest, flags, dpc,
                 recvVars, sendVars>>

App(c) ==
  /\ c \in AppClients
  /\ dpc[c] \notin {"none", "done"}
  /\ \/ \E b \in BOOLEAN : SetReadEvent(c, b) \/ SetWriteEvent(c, b)
     \/ \E n \in 0..MaxResponse : SetResponse(c, n)

PeerSends(c) ==
  /\ ~peerClosed[c]
  /\ peerSent[c] < MaxSent
  /\ peerSent' = [peerSent EXCEPT ![c] = @ + 1]
  /\ UNCHANGED <<process, fdTable, peerClosed, consumed, inbox, ctx, flags, dpc,
                 recvVars, sendVars>>

PeerCloses(c) ==
  /\ ~peerClosed[c]
  /\ peerClosed' = [peerClosed EXCEPT ![c] = TRUE]
  /\ UNCHANGED <<process, fdTable, peerSent, consumed, inbox, ctx, flags, dpc,
                 recvVars, sendVars>>

Environment(c) ==
  /\ process = "up"
  /\ \/ Accept(c)
     \/ App(c)
     \/ dpc[c] # "none" /\ (PeerSends(c) \/ PeerCloses(c))
     \/ SpuriousWakeups /\ (RecvSpuriousWakeup(c) \/ SendSpuriousWakeup(c))

Next ==
  \E c \in Clients :
    DoWork(c) \/ RecvThread(c) \/ SendThread(c) \/ Environment(c)

Spec == Init /\ [][Next]_vars

\* recv() and send() wait for the peer of the socket they were called on.
RecvWaits(c) ==
  /\ rpc[c] = "blocked"
  /\ ~peerClosed[rsock[c]]
  /\ consumed[rsock[c]] = peerSent[rsock[c]]

SendWaits(c) ==
  spc[c] = "send" /\ total[c] < slen[c] /\ ~SendCallFails(c)

\* Every thread that can run does; peers, programs and new connections are
\* free to do nothing.
FairSpec ==
  /\ Spec
  /\ \A c \in Clients :
       /\ WF_vars(DoWork(c))
       /\ WF_vars(RecvThread(c) /\ ~RecvWaits(c))
       /\ WF_vars(SendThread(c) /\ ~SendWaits(c))

-----------------------------------------------------------------------------
(***************************************************************************)
(* Properties.                                                             *)
(***************************************************************************)

\* mClientFd may be used: the connection was accepted and no scope guard
\* has begun to close it.
IsServed(c) ==
  dpc[c] # "none" /\ mClientFd[c] # INVALID_FD /\ mMutex[c] = "unlocked"

(***************************************************************************)
(* Outside the scope guards a context names its own connection's           *)
(* descriptor and nobody else's, and an open descriptor is always named by *)
(* exactly one context, its own: two guards of one worker, running in any  *)
(* order beside other connections that reuse the number, neither lose a    *)
(* descriptor nor close a stranger's.                                      *)
(***************************************************************************)
DescriptorOwnership ==
  /\ \A c \in Clients : IsServed(c) => fdTable[mClientFd[c]] = c
  /\ \A f \in Fds : fdTable[f] # Free =>
       /\ IsServed(fdTable[f])
       /\ mClientFd[fdTable[f]] = f

(***************************************************************************)
(* mRequest holds exactly what recv() has taken of the context's own       *)
(* stream, in order: nothing of another peer's, and nothing is lost,       *)
(* although recv() is called with a number read earlier and without a      *)
(* lock.  The send thread, the only other one that could free the number,  *)
(* never leaves before the recv thread does.                               *)
(***************************************************************************)
RequestFaithful ==
  \A c \in Clients : mRequest[c] = [i \in 1..consumed[c] |-> <<c, i>>]

(***************************************************************************)
(* A response can reach another client only through the number send_bytes  *)
(* kept while its own recv thread, done with the connection, closed it.    *)
(***************************************************************************)
ResponseReachesOwner ==
  \A c, d \in Clients : c \in inbox[d] /\ c # d => rpc[c] \in ExitPc

(***************************************************************************)
(* The worker as the abstract connection sees it.                          *)
(***************************************************************************)
connectionStatus ==
  [c \in Clients |-> IF dpc[c] = "none" THEN "absent"
                     ELSE IF IsServed(c) THEN "open"
                     ELSE "closed"]

Lifecycle == INSTANCE ConnectionLifecycle WITH status <- connectionStatus

(***************************************************************************)
(* When doWork returns, an IPv4 connection is closed whichever thread left *)
(* first, and an IPv6 one is not: its descriptor stays open as long as the *)
(* engine's queue keeps the context.                                       *)
(***************************************************************************)
DoneWorkerReleases ==
  \A c \in Clients :
    dpc[c] = "done" => (connectionStatus[c] = "closed" <=> c \notin V6Clients)

(***************************************************************************)
(* The accept loop and the two threads of every worker implement the       *)
(* connection lifecycle: one open, one close, of the right descriptor.     *)
(***************************************************************************)
ImplementsLifecycle == Lifecycle!LifecycleSpec

(***************************************************************************)
(* When the peer of an IPv4 connection closes it, the descriptor is        *)
(* released: whether the send thread waits, sends, fails or leaves first,  *)
(* and with wakeups nobody asked for.  The exception is a recv thread that *)
(* found reading disabled by disbaleReadEvent(): it may wait for good,     *)
(* since enableReadEvent() does not notify it, and an end of the stream is *)
(* seen only by recv().                                                    *)
(***************************************************************************)
PeerCloseReleases ==
  \A c \in Clients \ V6Clients :
    dpc[c] # "none" /\ peerClosed[c]
      ~> \/ \A f \in Fds : fdTable[f] # c
         \/ process = "killed"
         \/ c \in AppClients /\ [](rpc[c] \in {"gate", "asleep"})

\* When the recv thread has asked for it, the send thread is leaving already,
\* or the request waits for it and it will come by its interruption point.
ShutdownHeard(c) ==
  \/ spc[c] \in ExitPc
  \/ /\ sendInterrupted[c]
     /\ mIsWriteEnabled[c] \/ spc[c] \notin {"gate", "asleep"}

\* send() waits for the peer of another connection, which got the number.
SendsToStranger(c) ==
  spc[c] = "send" /\ IsOpen(fdTable, sfd[c]) /\ fdTable[sfd[c]] # c

(***************************************************************************)
(* Whether a worker ends is decided when its recv thread has raised the    *)
(* flag and requested the interruption.  If the send thread has then not   *)
(* yet taken the flag, or is on its way from there back to the             *)
(* interruption point, doWork returns, unless send() waits for a stranger, *)
(* or a program takes the flag away with disbaleWriteEvent().  If it has   *)
(* taken the flag and waits again, doWork never returns unless a program   *)
(* raises it once more with enableWriteEvent(): neither the notify that    *)
(* follows nor a spurious wakeup helps.  If the request came before        *)
(* mSendThread was assigned, nothing helps but a response that the program *)
(* left and a send() that returns 0 for it.                                *)
(***************************************************************************)
ShutdownDecided ==
  \A c \in Clients :
    /\ rpc[c] = "notify" /\ ShutdownHeard(c)
         ~> \/ dpc[c] = "done"
            \/ process = "killed"
            \/ []SendsToStranger(c)
            \/ /\ c \in AppClients /\ ~mIsWriteEnabled[c]
               /\ [](spc[c] \in {"gate", "asleep"})
    /\ [](rpc[c] = "notify" /\ ~ShutdownHeard(c) =>
             \/ [](dpc[c] # "done")
             \/ c \in AppClients /\ sendInterrupted[c] /\ <>mIsWriteEnabled[c]
             \/ ZeroSend /\ ~sendInterrupted[c]
                  /\ <>(spc[c] = "send" /\ slen[c] > 0))

(***************************************************************************)
(* What interrupting and notifying the send thread is for: when the peer   *)
(* has closed the connection both threads quit and doWork returns.         *)
(***************************************************************************)
WorkerQuits ==
  \A c \in Clients : dpc[c] # "none" /\ peerClosed[c] ~> dpc[c] = "done"
=============================================================================
