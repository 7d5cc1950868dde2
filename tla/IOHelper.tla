------------------------------ MODULE IOHelper ------------------------------
(***************************************************************************)
(* IOHelper::send_bytes and IOHelper::recv_bytes: the loops that repeat    *)
(* send() and recv() until len bytes are through.  A behaviour is one call *)
(* of either function; the steps are the iterations of its loop, and the   *)
(* kernel chooses what each system call returns.                           *)
(*                                                                         *)
(* send_bytes stores send()'s result in a size_t, so the test "sb < 0"     *)
(* never holds: a failed send adds 2^w - 1 to total_send, which is one     *)
(* step back, or past every len when total_send is 0.                      *)
(***************************************************************************)
EXTENDS SizeT, Sequences

CONSTANTS
  MaxLen,        \* bound: longest buffer of a call
  MaxFaults      \* bound: transient failures (EINTR, EAGAIN) in a call

ASSUME IOAssumption ==
  /\ MaxLen \in Nat
  /\ MaxFaults \in Nat
  /\ SizeMod > MaxLen + 1

VARIABLES
  op,        \* the function called: "send" or "recv"
  len,       \* its len argument
  total,     \* total_send or total_rb
  result,    \* "run", then the value returned, or "killed"
  wire,      \* send: the buffer positions handed to the kernel, in order
  buf,       \* recv: the stream byte each buffer position holds, 0 if none
  consumed,  \* recv: how many bytes of the stream recv() has taken
  faults,    \* transient failures so far
  broken,    \* the connection is gone: every later call fails
  trace      \* the "SysLog" logger is at TRACE: each chunk is hexdumped

vars == <<op, len, total, result, wire, buf, consumed, faults, broken, trace>>

TypeOK ==
  /\ op \in {"send", "recv"}
  /\ len \in 0..MaxLen
  /\ total \in 0..(SizeMod - 1)
  /\ result \in {"run", "true", "false", "killed"}
  /\ wire \in Seq(1..MaxLen)
  /\ buf \in [1..len -> 0..MaxLen]
  /\ consumed \in 0..MaxLen
  /\ faults \in 0..MaxFaults
  /\ broken \in BOOLEAN
  /\ trace \in BOOLEAN

Init ==
  /\ op \in {"send", "recv"}
  /\ len \in 0..MaxLen
  /\ total = 0
  /\ result = "run"
  /\ wire = <<>>
  /\ buf = [i \in 1..len |-> 0]
  /\ consumed = 0
  /\ faults = 0
  /\ broken = FALSE
  /\ trace \in BOOLEAN

\* The loop condition total < len of both functions.
InLoop(o) == op = o /\ result = "run" /\ total < len

-----------------------------------------------------------------------------
\* Mutant of SendSome: the chunk is sent from data, not data + total_send.
SendSome_FromStart(n) ==
  /\ InLoop("send")
  /\ ~broken
  /\ n <= len - total
  /\ wire' = wire \o [i \in 1..n |-> i]
  /\ total' = AddSize(total, n)
  /\ UNCHANGED <<op, len, result, buf, consumed, faults, broken, trace>>

\* send() takes n of the left_len bytes from data + total_send.
SendSome(n) ==
  /\ InLoop("send")
  /\ ~broken
  /\ n <= len - total
  /\ wire' = wire \o [i \in 1..n |-> total + i]
  /\ total' = AddSize(total, n)
  /\ UNCHANGED <<op, len, result, buf, consumed, faults, broken, trace>>

\* A failed send, with next the total_send it leaves.
SendFailsWith(next) ==
  /\ InLoop("send")
  /\ \/ broken /\ UNCHANGED faults
     \/ ~broken /\ faults < MaxFaults /\ faults' = faults + 1
  /\ total' = next
  /\ result' = IF trace THEN "killed" ELSE "run"
  /\ UNCHANGED <<op, len, wire, buf, consumed, broken, trace>>

\* Mutants of SendFails: the failure counts as a byte sent, restarts the
\* buffer, or stores left_len in total_send.
SendFails_Skips == SendFailsWith(AddSize(total, 1))

SendFails_Restarts == SendFailsWith(0)

SendFails_LeftLen == SendFailsWith(len - total)

\* send() returns -1: as a size_t it is neither negative nor zero, so the
\* loop adds it to total_send.  With TRACE on, hexdump(data, sb) reads
\* 2^w - 1 bytes from a buffer of len: the process dies there.
SendFails == SendFailsWith(AddSize(total, AsSize(-1)))

\* EPIPE without MSG_NOSIGNAL raises SIGPIPE, which nothing handles.
SendSigPipe ==
  /\ InLoop("send")
  /\ broken
  /\ result' = "killed"
  /\ UNCHANGED <<op, len, total, wire, buf, consumed, faults, broken, trace>>

\* send() returns 0, read as "connection was closed by peer".
SendZero ==
  /\ InLoop("send")
  /\ result' = "false"
  /\ UNCHANGED <<op, len, total, wire, buf, consumed, faults, broken, trace>>

-----------------------------------------------------------------------------
\* Mutant of RecvSome: the chunk is stored at data, not data + total_rb.
RecvSome_AtStart(n) ==
  /\ InLoop("recv")
  /\ ~broken
  /\ n <= len - total
  /\ buf' = [i \in 1..len |-> IF i \in 1..n THEN consumed + i ELSE buf[i]]
  /\ consumed' = consumed + n
  /\ total' = total + n
  /\ UNCHANGED <<op, len, result, wire, faults, broken, trace>>

\* recv() puts the next n bytes of the stream at data + total_rb.
RecvSome(n) ==
  /\ InLoop("recv")
  /\ ~broken
  /\ n <= len - total
  /\ buf' = [i \in 1..len |-> IF i \in (total + 1)..(total + n)
                              THEN consumed + i - total
                              ELSE buf[i]]
  /\ consumed' = consumed + n
  /\ total' = total + n
  /\ UNCHANGED <<op, len, result, wire, faults, broken, trace>>

\* EAGAIN or EWOULDBLOCK: continue.
RecvAgain ==
  /\ InLoop("recv")
  /\ ~broken
  /\ faults < MaxFaults
  /\ faults' = faults + 1
  /\ UNCHANGED <<op, len, total, result, wire, buf, consumed, broken, trace>>

\* Any other error, or end of stream: return false.
RecvFails ==
  /\ InLoop("recv")
  /\ result' = "false"
  /\ UNCHANGED <<op, len, total, wire, buf, consumed, faults, broken, trace>>

-----------------------------------------------------------------------------
\* The loop ends with total >= len: both functions return true.
ReturnTrue ==
  /\ result = "run"
  /\ total >= len
  /\ result' = "true"
  /\ UNCHANGED <<op, len, total, wire, buf, consumed, faults, broken, trace>>

\* The peer or the network ends the connection.
Break ==
  /\ result = "run"
  /\ ~broken
  /\ broken' = TRUE
  /\ UNCHANGED <<op, len, total, result, wire, buf, consumed, faults, trace>>

Iterate ==
  \/ \E n \in 1..MaxLen : SendSome(n) \/ RecvSome(n)
  \/ SendFails
  \/ SendSigPipe
  \/ SendZero
  \/ RecvAgain
  \/ RecvFails
  \/ ReturnTrue

Next == Iterate \/ Break

Spec == Init /\ [][Next]_vars

\* The calling thread keeps running; the peer owes nothing.
FairSpec == Spec /\ WF_vars(Iterate)

-----------------------------------------------------------------------------
(***************************************************************************)
(* Whatever sequence of partial sends and failures a call of send_bytes    *)
(* meets, the peer never receives a byte before all the bytes that precede *)
(* it in the buffer: each chunk starts at or before the first byte not yet *)
(* sent.  A failed send may repeat bytes, never skip one.                  *)
(***************************************************************************)
SendLeavesNoGap ==
  \A i \in 1..Len(wire) : wire[i] <= (IF i = 1 THEN 1 ELSE wire[i - 1] + 1)

(***************************************************************************)
(* The wraparound of total_send costs at most one repeated byte for each   *)
(* transient failure.                                                      *)
(***************************************************************************)
ResendBound == Len(wire) <= len + faults

(***************************************************************************)
(* With no failure, true from send_bytes means the whole buffer was handed *)
(* to the kernel exactly once and in order, whatever the chunks were.      *)
(***************************************************************************)
CleanSendIsExact ==
  op = "send" /\ result = "true" /\ faults = 0 /\ ~broken
    => wire = [i \in 1..len |-> i]

(***************************************************************************)
(* True from recv_bytes means position i holds byte i of the stream for    *)
(* every i, and not one byte beyond len was taken from the stream.         *)
(***************************************************************************)
RecvIsExact ==
  op = "recv" /\ result = "true"
    => consumed = len /\ \A i \in 1..len : buf[i] = i

(***************************************************************************)
(* A call never outlives its connection: on a broken one send_bytes counts *)
(* total_send down through 0 and leaves its loop, recv_bytes returns.      *)
(***************************************************************************)
BrokenCallReturns == broken ~> result # "run"

(***************************************************************************)
(* What the failure branch of send_bytes is written to ensure: true means  *)
(* every byte of the buffer was handed to the kernel.                      *)
(***************************************************************************)
TrueMeansSent ==
  op = "send" /\ result = "true"
    => \A i \in 1..len : \E j \in 1..Len(wire) : wire[j] = i
=============================================================================
