--------------------------- MODULE IOHelperProofs ---------------------------
(***************************************************************************)
(* IOHelper's invariants for buffers of every length, every number of      *)
(* transient failures and every width of size_t that exceeds the buffer.   *)
(***************************************************************************)
EXTENDS IOHelper, SizeTProofs

\* What is handed to the kernel follows total_send, which a failed send
\* moves back, or beyond every length when it was 0.
SendInv ==
  op = "send" =>
    /\ total <= len \/ total = SizeMod - 1
    /\ total < len => /\ Len(wire) = 0 => total = 0
                      /\ Len(wire) > 0 => total <= wire[Len(wire)]
    /\ ~broken /\ total <= len => Len(wire) <= total + faults
    /\ ~broken /\ faults = 0 => /\ total <= len
                                /\ Len(wire) = total
                                /\ \A i \in 1..total : wire[i] = i

\* The buffer holds exactly what was taken from the stream.
RecvInv ==
  op = "recv" =>
    /\ Len(wire) = 0
    /\ consumed = total
    /\ total <= len
    /\ \A i \in 1..total : buf[i] = i

ResultInv == result = "true" => total >= len

IOInv ==
  /\ TypeOK
  /\ SendInv
  /\ RecvInv
  /\ ResultInv
  /\ SendLeavesNoGap
  /\ ResendBound

-----------------------------------------------------------------------------
\* A chunk of n buffer positions after position t.
LEMMA ChunkType ==
  ASSUME NEW t \in Nat, NEW n \in Nat, NEW m \in Nat, t + n <= m
  PROVE  /\ [i \in 1..n |-> t + i] \in Seq(1..m)
         /\ Len([i \in 1..n |-> t + i]) = n
<1> DEFINE chunk == [i \in 1..n |-> t + i]
<1>1. chunk \in [1..n -> 1..m]
  OBVIOUS
<1>2. chunk \in Seq(1..m)
  BY <1>1
<1>3. DOMAIN chunk = 1..n
  OBVIOUS
<1>4. Len(chunk) = n
  BY <1>2, <1>3
<1> QED
  BY <1>2, <1>4

-----------------------------------------------------------------------------
\* A call starts with nothing sent and nothing received.
LEMMA IOInit == Init => IOInv
<1> SUFFICES ASSUME Init PROVE IOInv
  OBVIOUS
<1> USE SizeModAssumption, IOAssumption DEF Init
<1>1. TypeOK
  <2>1. wire \in Seq(1..MaxLen)
    OBVIOUS
  <2>2. /\ total \in 0..(SizeMod - 1)
        /\ consumed \in 0..MaxLen
        /\ faults \in 0..MaxFaults
    OBVIOUS
  <2>3. buf \in [1..len -> 0..MaxLen]
    OBVIOUS
  <2> QED
    BY <2>1, <2>2, <2>3, Zenon DEF TypeOK
<1>2. SendInv /\ RecvInv /\ ResultInv
  BY DEF SendInv, RecvInv, ResultInv
<1>3. SendLeavesNoGap /\ ResendBound
  BY DEF SendLeavesNoGap, ResendBound
<1> QED
  BY <1>1, <1>2, <1>3 DEF IOInv

\* A chunk is handed to the kernel: it starts where total_send points.
LEMMA IOSendSome ==
  ASSUME IOInv, NEW n \in 1..MaxLen, SendSome(n)
  PROVE  IOInv'
<1> DEFINE chunk == [i \in 1..n |-> total + i]
<1> USE SizeModAssumption, IOAssumption
<1>1. /\ op = "send" /\ ~broken /\ total < len /\ n <= len - total
      /\ total' = total + n
      /\ UNCHANGED <<op, len, result, buf, consumed, faults, broken, trace>>
  BY DEF IOInv, TypeOK, SendSome, InLoop, AddSize
<1>0. wire' = wire \o chunk
  BY DEF SendSome
<1>2. /\ total \in Nat /\ len \in 0..MaxLen /\ faults \in Nat
      /\ wire \in Seq(1..MaxLen) /\ Len(wire) \in Nat
  BY DEF IOInv, TypeOK
<1>3. chunk \in Seq(1..MaxLen) /\ Len(chunk) = n
  <2>1. n \in Nat /\ MaxLen \in Nat /\ total + n <= MaxLen
    BY <1>1, <1>2
  <2> QED
    BY <2>1, <1>2, ChunkType, Zenon
<1>4. \A i \in 1..n : chunk[i] = total + i
  OBVIOUS
<1> HIDE DEF chunk
<1>5. wire' \in Seq(1..MaxLen) /\ Len(wire') = Len(wire) + n
  <2>1. wire \o chunk \in Seq(1..MaxLen)
    BY <1>2, <1>3
  <2>2. Len(wire \o chunk) = Len(wire) + Len(chunk)
    BY <1>2, <1>3
  <2> QED
    BY <1>0, <1>3, <2>1, <2>2
<1>6. \A i \in 1..Len(wire) : wire'[i] = wire[i]
  BY <1>0, <1>2, <1>3
<1>7. \A i \in (Len(wire) + 1)..(Len(wire) + n) :
         wire'[i] = total + i - Len(wire)
  <2> SUFFICES ASSUME NEW i \in (Len(wire) + 1)..(Len(wire) + n)
               PROVE  wire'[i] = total + i - Len(wire)
    OBVIOUS
  <2>1. wire'[i] = chunk[i - Len(wire)]
    BY <1>0, <1>2, <1>3
  <2>2. i - Len(wire) \in 1..n
    BY <1>2
  <2> QED
    BY <1>2, <1>4, <2>1, <2>2
<1>8. /\ Len(wire) = 0 => total = 0
      /\ Len(wire) > 0 => total <= wire[Len(wire)]
      /\ Len(wire) <= total + faults
      /\ faults = 0 => Len(wire) = total /\ \A i \in 1..total : wire[i] = i
  BY <1>1, <1>2 DEF IOInv, SendInv
<1>9. TypeOK'
  BY <1>1, <1>2, <1>5 DEF IOInv, TypeOK
<1>10. SendInv'
  <2>1. total' <= len'
    BY <1>1, <1>2
  <2>2. Len(wire') > 0 /\ total' = wire'[Len(wire')]
    <3>1. Len(wire) + n \in (Len(wire) + 1)..(Len(wire) + n)
      BY <1>2
    <3>2. wire'[Len(wire) + n] = total + (Len(wire) + n) - Len(wire)
      BY <3>1, <1>7
    <3> QED
      BY <3>2, <1>1, <1>2, <1>5
  <2>3. Len(wire') <= total' + faults'
    BY <1>1, <1>2, <1>5, <1>8
  <2>4. ASSUME faults' = 0
        PROVE  Len(wire') = total' /\ \A i \in 1..total' : wire'[i] = i
    <3>1. faults = 0 /\ Len(wire) = total /\ \A i \in 1..total : wire[i] = i
      BY <2>4, <1>1, <1>8
    <3>2. Len(wire') = total'
      BY <3>1, <1>1, <1>5
    <3>3. ASSUME NEW i \in 1..total'
          PROVE  wire'[i] = i
      <4>1. i \in 1..total \/ i \in (total + 1)..(total + n)
        BY <1>1, <1>2
      <4>2. CASE i \in 1..total
        BY <4>2, <3>1, <1>6
      <4>3. CASE i \in (total + 1)..(total + n)
        BY <4>3, <3>1, <1>2, <1>7
      <4> QED
        BY <4>1, <4>2, <4>3
    <3> QED
      BY <3>2, <3>3
  <2>5. total' \in Nat /\ Len(wire') \in Nat
    BY <1>1, <1>2, <1>5
  <2> QED
    BY <2>1, <2>2, <2>3, <2>4, <2>5 DEF SendInv
<1>11. RecvInv' /\ ResultInv'
  BY <1>1, <1>2 DEF RecvInv, ResultInv, IOInv, SendSome, InLoop
<1>12. SendLeavesNoGap'
  <2> SUFFICES ASSUME NEW i \in 1..Len(wire')
               PROVE  wire'[i] <= IF i = 1 THEN 1 ELSE wire'[i - 1] + 1
    BY DEF SendLeavesNoGap
  <2>1. CASE i \in 1..Len(wire)
    <3>1. wire[i] <= IF i = 1 THEN 1 ELSE wire[i - 1] + 1
      BY <2>1 DEF IOInv, SendLeavesNoGap
    <3>2. wire'[i] = wire[i] /\ (i # 1 => wire'[i - 1] = wire[i - 1])
      BY <2>1, <1>2, <1>6
    <3> QED
      BY <3>1, <3>2
  <2>2. CASE i = Len(wire) + 1
    <3>1. wire'[i] = total + 1
      BY <2>2, <1>2, <1>7
    <3>2. CASE Len(wire) = 0
      BY <3>1, <3>2, <2>2, <1>2, <1>8
    <3>3. CASE Len(wire) > 0
      <4>1. wire'[i - 1] = wire[Len(wire)]
        BY <3>3, <2>2, <1>2, <1>6
      <4>2. wire[Len(wire)] \in Nat
        BY <3>3, <1>2
      <4> QED
        BY <4>1, <4>2, <3>1, <3>3, <2>2, <1>2, <1>8
    <3> QED
      BY <3>2, <3>3, <1>2
  <2>3. CASE i \in (Len(wire) + 2)..(Len(wire) + n)
    <3>1. /\ i \in (Len(wire) + 1)..(Len(wire) + n)
          /\ i - 1 \in (Len(wire) + 1)..(Len(wire) + n)
          /\ i # 1
      BY <2>3, <1>2
    <3>2. /\ wire'[i] = total + i - Len(wire)
          /\ wire'[i - 1] = total + (i - 1) - Len(wire)
      BY <3>1, <1>7
    <3> HIDE DEF IOInv
    <3> QED
      BY <3>1, <3>2, <1>2
  <2>4. \/ i \in 1..Len(wire)
        \/ i = Len(wire) + 1
        \/ i \in (Len(wire) + 2)..(Len(wire) + n)
    <3>1. i \in 1..(Len(wire) + n)
      BY <1>5
    <3> HIDE DEF IOInv
    <3> QED
      BY <3>1, <1>2
  <2> QED
    BY <2>1, <2>2, <2>3, <2>4
<1>13. ResendBound'
  BY <1>1, <1>2, <1>5, <1>8 DEF ResendBound
<1> QED
  BY <1>9, <1>10, <1>11, <1>12, <1>13 DEF IOInv

\* A failed send: total_send goes one back, or beyond len.
LEMMA IOSendFails ==
  ASSUME IOInv, SendFails
  PROVE  IOInv'
<1> USE SizeModAssumption, IOAssumption
<1>1. /\ op = "send" /\ total < len /\ result = "run"
      /\ total' = IF total = 0 THEN SizeMod - 1 ELSE total - 1
      /\ result' \in {"run", "killed"}
      /\ UNCHANGED <<op, len, wire, buf, consumed, broken, trace>>
  BY AddMinusOne DEF IOInv, TypeOK, SendFails, SendFailsWith, InLoop
<1>2. \/ broken /\ faults' = faults
      \/ ~broken /\ faults < MaxFaults /\ faults' = faults + 1
  BY DEF SendFails, SendFailsWith
<1>3. /\ total \in Nat /\ len \in 0..MaxLen /\ faults \in 0..MaxFaults
      /\ wire \in Seq(1..MaxLen) /\ Len(wire) \in Nat
  BY DEF IOInv, TypeOK
<1>4. TypeOK'
  <2>1. total' \in 0..(SizeMod - 1) /\ faults' \in 0..MaxFaults
    BY <1>1, <1>2, <1>3
  <2> QED
    BY <2>1, <1>1, <1>3 DEF IOInv, TypeOK
<1>5. SendInv'
  <2>1. Len(wire) > 0 => wire[Len(wire)] \in Nat
    BY <1>3
  <2> QED
    BY <2>1, <1>1, <1>2, <1>3 DEF IOInv, SendInv
<1>6. RecvInv' /\ ResultInv'
  BY <1>1 DEF RecvInv, ResultInv
<1>7. SendLeavesNoGap' /\ ResendBound'
  BY <1>1, <1>2, <1>3 DEF IOInv, SendLeavesNoGap, ResendBound
<1> QED
  BY <1>4, <1>5, <1>6, <1>7 DEF IOInv

\* A chunk is received behind what the buffer holds.
LEMMA IORecvSome ==
  ASSUME IOInv, NEW n \in 1..MaxLen, RecvSome(n)
  PROVE  IOInv'
<1> USE SizeModAssumption, IOAssumption
<1>1. /\ op = "recv" /\ total < len /\ n <= len - total /\ result = "run"
      /\ buf' = [i \in 1..len |-> IF i \in (total + 1)..(total + n)
                                  THEN consumed + i - total ELSE buf[i]]
      /\ consumed' = consumed + n /\ total' = total + n
      /\ UNCHANGED <<op, len, result, wire, faults, broken, trace>>
  BY DEF RecvSome, InLoop
<1>2. /\ total \in Nat /\ len \in 0..MaxLen /\ consumed = total
      /\ buf \in [1..len -> 0..MaxLen] /\ \A i \in 1..total : buf[i] = i
      /\ Len(wire) = 0
  BY <1>1 DEF IOInv, TypeOK, RecvInv
<1>3. buf' \in [1..len' -> 0..MaxLen] /\ \A i \in 1..total' : buf'[i] = i
  BY <1>1, <1>2
<1>4. total' <= len' /\ consumed' = total' /\ Len(wire') = 0
  BY <1>1, <1>2
<1>5. TypeOK'
  <2>1. total' \in 0..(SizeMod - 1) /\ consumed' \in 0..MaxLen
    BY <1>1, <1>2, <1>4
  <2> QED
    BY <2>1, <1>1, <1>3 DEF IOInv, TypeOK
<1>6. SendInv' /\ RecvInv' /\ ResultInv'
  BY <1>1, <1>3, <1>4 DEF SendInv, RecvInv, ResultInv
<1>7. SendLeavesNoGap' /\ ResendBound'
  BY <1>1 DEF IOInv, SendLeavesNoGap, ResendBound
<1> QED
  BY <1>5, <1>6, <1>7 DEF IOInv

\* The steps that move no data.
LEMMA IOOther ==
  ASSUME IOInv,
         \/ SendSigPipe \/ SendZero \/ RecvAgain \/ RecvFails \/ ReturnTrue
         \/ Break \/ UNCHANGED vars
  PROVE  IOInv'
<1> USE SizeModAssumption, IOAssumption
<1>1. /\ UNCHANGED <<op, len, total, wire, buf, consumed, trace>>
      /\ faults' \in 0..MaxFaults /\ faults' >= faults
      /\ broken' \in BOOLEAN /\ (broken => broken')
      /\ result' \in {"run", "true", "false", "killed"}
      /\ op = "send" => faults' = faults
      /\ result' = "true" => total >= len
  <2> USE DEF IOInv, TypeOK, ResultInv
  <2>1. CASE SendSigPipe
    BY <2>1 DEF SendSigPipe
  <2>2. CASE SendZero
    BY <2>2 DEF SendZero
  <2>3. CASE RecvAgain
    BY <2>3 DEF RecvAgain, InLoop
  <2>4. CASE RecvFails
    BY <2>4 DEF RecvFails
  <2>5. CASE ReturnTrue
    BY <2>5 DEF ReturnTrue
  <2>6. CASE Break
    BY <2>6 DEF Break
  <2>7. CASE UNCHANGED vars
    BY <2>7 DEF vars
  <2> QED
    BY <2>1, <2>2, <2>3, <2>4, <2>5, <2>6, <2>7
<1>2. TypeOK'
  BY <1>1 DEF IOInv, TypeOK
<1>3. SendInv' /\ RecvInv' /\ ResultInv'
  BY <1>1 DEF IOInv, TypeOK, SendInv, RecvInv, ResultInv
<1>4. SendLeavesNoGap'
  BY <1>1 DEF IOInv, SendLeavesNoGap
<1>5. ResendBound'
  BY <1>1 DEF IOInv, TypeOK, ResendBound
<1> QED
  BY <1>2, <1>3, <1>4, <1>5 DEF IOInv

\* Every step of a call preserves the invariant.
LEMMA IOStep == IOInv /\ [Next]_vars => IOInv'
  BY IOSendSome, IOSendFails, IORecvSome, IOOther DEF Next, Iterate

-----------------------------------------------------------------------------
\* IOInv holds throughout every call of send_bytes and recv_bytes.
THEOREM IOInvariant == Spec => []IOInv
<1> QED
  BY IOInit, IOStep, PTL DEF Spec

\* Every call of send_bytes and recv_bytes keeps its variables in range; in
\* particular it stores no byte beyond the buffer.
THEOREM IOTypeCorrect == Spec => []TypeOK
<1>1. IOInv => TypeOK
  BY DEF IOInv
<1> QED
  BY <1>1, IOInvariant, PTL

\* No sequence of partial and failed sends makes send_bytes skip a byte.
THEOREM SendNeverSkips == Spec => []SendLeavesNoGap
<1>1. IOInv => SendLeavesNoGap
  BY DEF IOInv
<1> QED
  BY <1>1, IOInvariant, PTL

\* Each transient failure costs at most one repeated byte.
THEOREM SendRepeatsLittle == Spec => []ResendBound
<1>1. IOInv => ResendBound
  BY DEF IOInv
<1> QED
  BY <1>1, IOInvariant, PTL

\* Without failures, true from send_bytes means the buffer was sent exactly.
THEOREM CleanSendExact == Spec => []CleanSendIsExact
<1>1. IOInv => CleanSendIsExact
  <2> SUFFICES ASSUME IOInv, op = "send", result = "true", faults = 0, ~broken
               PROVE  wire = [i \in 1..len |-> i]
    BY DEF CleanSendIsExact
  <2>1. /\ wire \in Seq(1..MaxLen) /\ len \in Nat /\ total \in Nat
        /\ total = len /\ Len(wire) = total
        /\ \A i \in 1..total : wire[i] = i
    BY IOAssumption, SizeModAssumption DEF IOInv, TypeOK, SendInv, ResultInv
  <2>2. wire = [i \in 1..len |-> wire[i]]
    BY <2>1
  <2> QED
    BY <2>1, <2>2
<1> QED
  BY <1>1, IOInvariant, PTL

\* True from recv_bytes means exactly len bytes were taken, in order.
THEOREM RecvExact == Spec => []RecvIsExact
<1>1. IOInv => RecvIsExact
  BY IOAssumption, SizeModAssumption
     DEF IOInv, TypeOK, RecvInv, ResultInv, RecvIsExact
<1> QED
  BY <1>1, IOInvariant, PTL
=============================================================================
