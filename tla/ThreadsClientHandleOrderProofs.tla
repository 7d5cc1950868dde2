------------------- MODULE ThreadsClientHandleOrderProofs -------------------
(***************************************************************************)
(* Proof that the echo handlers give a peer its bytes back in order, for   *)
(* any number of clients of either family and streams of any length.       *)
(***************************************************************************)
EXTENDS ThreadsClientHandleProofs

(***************************************************************************)
(* While a connection is open, the bytes recv() has taken stand in one     *)
(* line: those that came back, the rest of the message that is being sent, *)
(* and the messages in the queue.                                          *)
(***************************************************************************)
Places(m) == {m[k][2] : k \in 1..Len(m)}
Piece(m) ==
  /\ Len(m) <= MaxSent
  /\ \A k, l \in 1..Len(m) : k < l => m[k][2] < m[l][2]
Before(A, B) == \A i \in A, j \in B : i < j

Rest(c) == {msg[c][k][2] : k \in (total[c] + 1)..Len(msg[c])}
Queued(c) ==
  UNION {Places(mMessageQueue[c][q]) : q \in 1..Len(mMessageQueue[c])}
Line(c) == Returned(c) \cup Rest(c) \cup Queued(c)

MessagesInOrder(c) ==
  /\ Piece(msg[c])
  /\ \A q \in 1..Len(mMessageQueue[c]) : Piece(mMessageQueue[c][q])
  /\ \A q, r \in 1..Len(mMessageQueue[c]) : q < r =>
       Before(Places(mMessageQueue[c][q]), Places(mMessageQueue[c][r]))

LineInOrder(c) ==
  /\ Before(Returned(c), Rest(c) \cup Queued(c))
  /\ Before(Rest(c), Queued(c))
  /\ Line(c) \subseteq 1..consumed[c]

NoneLost(c) == \A i \in 1..consumed[c] : i \in Line(c) \/ CutOff(c, i, Line(c))

LineInv(c) ==
  /\ rpc[c] \notin ExitPc
  /\ total[c] <= Len(msg[c])
  /\ InOrder(c) /\ MessagesInOrder(c) /\ LineInOrder(c) /\ NoneLost(c)

\* A handler whose recv thread is in its loop has a number, and a message is
\* in hand only while it is sent.
Connected ==
  \A c \in Clients :
    rpc[c] \in ExitPc \/ rpc[c] = "none" \/ mClientFd[c] # INVALID_FD

InHand == \A c \in Clients : spc[c] \in {"loop", "send"} \/ msg[c] = <<>>

\* The inductive invariant: after a failure nothing is claimed, and when the
\* peer has closed nothing more comes back.
OrderInv ==
  /\ Connected /\ InHand
  /\ \A c \in Clients : sendErrors[c] = 0 =>
       /\ InOrder(c)
       /\ IF peer[c] = "open" THEN LineInv(c) ELSE NoGap(c)

-----------------------------------------------------------------------------
(***************************************************************************)
(* What the parts of the invariant say of each other.                      *)
(***************************************************************************)

\* A line in order without losses has no gap before what came back.
LEMMA LineHasNoGap ==
  ASSUME TypeOK, NEW c \in Clients, LineInOrder(c), NoneLost(c)
  PROVE  NoGap(c)
<1> SUFFICES ASSUME NEW b \in Returned(c), NEW i \in 1..b
             PROVE  i \in Returned(c) \/ CutOff(c, i, Returned(c))
  BY DEF NoGap
<1>1. consumed[c] \in Nat
  BY HandleAssumption DEF TypeOK
<1>2. b \in 1..consumed[c]
  BY DEF LineInOrder, Line
<1>3. i \in 1..consumed[c]
  BY <1>1, <1>2
<1>4. i \notin Rest(c) \cup Queued(c)
  BY <1>1, <1>2, <1>3 DEF LineInOrder, Before
<1>5. CASE i \in Line(c)
  BY <1>4, <1>5 DEF Line
<1>6. CASE CutOff(c, i, Line(c))
  BY <1>6 DEF CutOff, Line
<1> QED
  BY <1>3, <1>5, <1>6 DEF NoneLost

\* What came back of c's own bytes is as it was.
EchoSame(c) ==
  /\ OwnAt(c)' = OwnAt(c)
  /\ \A k \in OwnAt(c) : echo'[c][k] = echo[c][k]

\* Nothing happens to c's line, but its peer may write on.
Kept(c) ==
  /\ EchoSame(c)
  /\ nul[c] \subseteq nul'[c]
  /\ msg'[c] = msg[c] /\ total'[c] = total[c]
  /\ mMessageQueue'[c] = mMessageQueue[c]
  /\ consumed'[c] = consumed[c]

\* Then the same bytes came back, in the same order.
LEMMA ReturnedSame ==
  ASSUME NEW c \in Clients, EchoSame(c)
  PROVE  /\ Returned(c)' = Returned(c)
         /\ InOrder(c) => InOrder(c)'
BY DEF EchoSame, Returned, InOrder

\* A gap that a '\0' excuses stays excused.
LEMMA NoGapKept ==
  ASSUME NEW c \in Clients, EchoSame(c), nul[c] \subseteq nul'[c], NoGap(c)
  PROVE  NoGap(c)'
<1>1. Returned(c)' = Returned(c)
  BY ReturnedSame
<1> QED
  BY <1>1 DEF NoGap, CutOff

\* A line that nothing happens to keeps its invariant.
LEMMA LineKept ==
  ASSUME NEW c \in Clients, LineInv(c), Kept(c), rpc'[c] \notin ExitPc
  PROVE  LineInv(c)'
<1>1. Returned(c)' = Returned(c) /\ InOrder(c)'
  BY ReturnedSame DEF Kept, LineInv
<1>2. Rest(c)' = Rest(c) /\ Queued(c)' = Queued(c)
  BY DEF Rest, Queued, Kept
<1>3. Line(c)' = Line(c)
  BY <1>1, <1>2 DEF Line
<1>4. MessagesInOrder(c)'
  BY DEF LineInv, MessagesInOrder, Kept
<1>5. LineInOrder(c)'
  BY <1>1, <1>2, <1>3 DEF LineInv, LineInOrder, Kept
<1>6. NoneLost(c)'
  BY <1>3 DEF LineInv, NoneLost, CutOff, Kept
<1>7. total'[c] <= Len(msg'[c])
  BY DEF LineInv, Kept
<1> QED
  BY <1>1, <1>4, <1>5, <1>6, <1>7 DEF LineInv

-----------------------------------------------------------------------------
(***************************************************************************)
(* The steps that move bytes along the line of their peer.                 *)
(***************************************************************************)

\* The message at the head of the queue becomes the one that is sent.
LEMMA TakesLine ==
  ASSUME TypeOK, NEW c \in Clients, LineInv(c), msg[c] = <<>>, SendTakes(c)
  PROVE  LineInv(c)'
<1> DEFINE Q == mMessageQueue[c]
           n == Len(Q)
<1>1. /\ Q # <<>> /\ Q \in Seq(Message)
      /\ msg'[c] = Head(Q) /\ mMessageQueue'[c] = Tail(Q)
      /\ total'[c] = total[c] /\ consumed' = consumed
      /\ rpc' = rpc /\ nul' = nul /\ echo' = echo
  BY DEF SendTakes, TypeOK, peers, recvVars
<1>2. /\ n \in Nat \ {0} /\ msg'[c] = Q[1]
      /\ Len(Tail(Q)) = n - 1
      /\ \A q \in 1..(n - 1) : Tail(Q)[q] = Q[q + 1]
  BY <1>1
<1>3. total[c] = 0 /\ total'[c] = 0
  BY <1>1 DEF TypeOK, LineInv
<1> HIDE DEF Q, n
<1>4. /\ Len(mMessageQueue'[c]) = n - 1
      /\ \A q \in 1..(n - 1) : mMessageQueue'[c][q] = Q[q + 1]
  BY <1>1, <1>2
<1>5. Rest(c) = {}
  BY <1>3 DEF Rest
<1>6. Rest(c)' = Places(Q[1])
  BY <1>2, <1>3 DEF Rest, Places
<1>7. Queued(c)' = UNION {Places(Q[q]) : q \in 2..n}
  <2>1. Queued(c)' = UNION {Places(Q[q + 1]) : q \in 1..(n - 1)}
    BY <1>4 DEF Queued, Places
  <2>2. \A q \in 1..(n - 1) : q + 1 \in 2..n
    BY <1>2
  <2>3. \A q \in 2..n : q - 1 \in 1..(n - 1) /\ q = (q - 1) + 1
    BY <1>2
  <2> QED
    BY <2>1, <2>2, <2>3
<1>8. Queued(c) = UNION {Places(Q[q]) : q \in 1..n}
  BY DEF Queued, Q, n
<1>9. Queued(c) = Rest(c)' \cup Queued(c)'
  BY <1>2, <1>6, <1>7, <1>8
<1>10. Returned(c)' = Returned(c) /\ InOrder(c)'
  BY <1>1 DEF Returned, OwnAt, InOrder, LineInv
<1>11. Line(c)' = Line(c)
  BY <1>5, <1>9, <1>10 DEF Line
<1>12. /\ \A q \in 1..n : Piece(Q[q])
       /\ \A q, r \in 1..n : q < r => Before(Places(Q[q]), Places(Q[r]))
  BY DEF LineInv, MessagesInOrder, Q, n
<1>13. MessagesInOrder(c)'
  <2>1. Piece(msg'[c])
    BY <1>2, <1>12
  <2>2. \A q \in 1..(n - 1) : q + 1 \in 1..n
    BY <1>2
  <2>3. \A q \in 1..(n - 1) : Piece(mMessageQueue'[c][q])
    BY <1>4, <1>12, <2>2
  <2>4. \A q, r \in 1..(n - 1) : q < r =>
          Before(Places(mMessageQueue'[c][q]), Places(mMessageQueue'[c][r]))
    BY <1>2, <1>4, <1>12, <2>2
  <2> QED
    BY <1>4, <2>1, <2>3, <2>4 DEF MessagesInOrder
<1>14. LineInOrder(c)'
  <2>1. Before(Rest(c)', Queued(c)')
    <3>1. \A q \in 2..n : 1 \in 1..n /\ q \in 1..n /\ 1 < q
      BY <1>2
    <3>2. \A q \in 2..n : Before(Places(Q[1]), Places(Q[q]))
      BY <1>12, <3>1
    <3> QED
      BY <1>6, <1>7, <3>2 DEF Before
  <2>2. Before(Returned(c)', Rest(c)' \cup Queued(c)')
    BY <1>5, <1>9, <1>10 DEF LineInv, LineInOrder
  <2>3. Line(c)' \subseteq 1..consumed'[c]
    BY <1>1, <1>11 DEF LineInv, LineInOrder
  <2> QED
    BY <2>1, <2>2, <2>3 DEF LineInOrder
<1>15. NoneLost(c)'
  BY <1>1, <1>11 DEF LineInv, NoneLost, CutOff
<1>16. total'[c] <= Len(msg'[c])
  <2>1. Q[1] \in Message
    BY <1>1, <1>2 DEF n
  <2>2. Len(Q[1]) \in Nat
    BY <2>1 DEF Message
  <2> QED
    BY <1>2, <1>3, <2>2
<1> QED
  BY <1>1, <1>10, <1>13, <1>14, <1>15, <1>16 DEF LineInv

\* A message that has been sent leaves nothing behind.
LEMMA EndsLine ==
  ASSUME TypeOK, NEW c \in Clients, LineInv(c), SendEnds(c)
  PROVE  LineInv(c)'
<1>1. /\ total[c] >= Len(msg[c])
      /\ msg'[c] = <<>> /\ total'[c] = 0
      /\ mMessageQueue' = mMessageQueue /\ consumed' = consumed
      /\ rpc' = rpc /\ nul' = nul /\ echo' = echo
  BY DEF SendEnds, TypeOK, peers, ctx, recvVars
<1>2. Len(msg[c]) \in Nat /\ total[c] \in Int
  BY SizeModAssumption DEF TypeOK, Message
<1>3. Rest(c) = {}
  BY <1>1, <1>2 DEF Rest
<1>4. Rest(c)' = {}
  BY <1>1 DEF Rest
<1>5. Queued(c)' = Queued(c)
  BY <1>1 DEF Queued
<1>6. Returned(c)' = Returned(c) /\ InOrder(c)'
  BY <1>1 DEF Returned, OwnAt, InOrder, LineInv
<1>7. Line(c)' = Line(c)
  BY <1>3, <1>4, <1>5, <1>6 DEF Line
<1>8. MessagesInOrder(c)'
  <2>1. Piece(<<>>)
    BY HandleAssumption DEF Piece
  <2> QED
    BY <1>1, <2>1 DEF LineInv, MessagesInOrder
<1>9. LineInOrder(c)'
  BY <1>1, <1>3, <1>4, <1>5, <1>6, <1>7 DEF LineInv, LineInOrder
<1>10. NoneLost(c)'
  BY <1>1, <1>7 DEF LineInv, NoneLost, CutOff
<1>11. total'[c] <= Len(msg'[c])
  BY <1>1
<1> QED
  BY <1>1, <1>6, <1>8, <1>9, <1>10, <1>11 DEF LineInv

\* What send() takes of the message joins what came back.
LEMMA SendsLine ==
  ASSUME TypeOK, OwnBytes, NEW c \in Clients, LineInv(c), NEW n \in 1..MaxSent,
         n <= Len(msg[c]) - total[c],
         echo'[c] = echo[c] \o SubSeq(msg[c], total[c] + 1, total[c] + n),
         total'[c] = AddSize(total[c], n),
         UNCHANGED <<rpc, nul, msg, mMessageQueue, consumed>>
  PROVE  LineInv(c)'
<1> DEFINE m == msg[c]
           t == total[c]
           e == echo[c]
           L == Len(e)
           T == Clients \X (1..MaxSent)
<1>1. m \in Seq({c} \X (1..MaxSent)) /\ m \in Seq(T) /\ e \in Seq(T)
  <2>1. m \in Seq({c} \X (1..MaxSent))
    BY DEF OwnBytes, Own
  <2>2. m \in Seq(T) /\ e \in Seq(T)
    BY DEF TypeOK, Message
  <2> QED
    BY <2>1, <2>2
<1>2. /\ t \in Nat /\ n \in Nat /\ n > 0 /\ MaxSent \in Nat
      /\ Len(m) \in Nat /\ L \in Nat /\ t + n <= Len(m)
  <2>1. t \in Nat
    BY SizeModAssumption DEF TypeOK
  <2>2. n \in Nat /\ n > 0 /\ MaxSent \in Nat
    BY HandleAssumption
  <2> HIDE DEF m, t, e, T
  <2>3. Len(m) \in Nat /\ L \in Nat
    BY <1>1
  <2>4. n <= Len(m) - t
    BY DEF m, t
  <2> QED
    BY <2>1, <2>2, <2>3, <2>4
<1> HIDE DEF m, t, e, T
<1> HIDE DEF L
<1>3. /\ Len(echo'[c]) = L + n
      /\ \A k \in 1..L : echo'[c][k] = e[k]
      /\ \A k \in (L + 1)..(L + n) : echo'[c][k] = m[t + k - L]
  <2> DEFINE part == SubSeq(m, t + 1, t + n)
  <2>0. n <= Len(m) - t
    BY <1>2
  <2>1. part \in Seq(T)
    BY <1>1, <1>2, <2>0, PartType
  <2>2. Len(part) = n /\ \A i \in 1..n : part[i] = m[t + i]
    BY <1>2
  <2> HIDE DEF part
  <2>3. /\ Len(e \o part) = L + n
        /\ \A k \in 1..(L + n) :
             (e \o part)[k] = IF k <= L THEN e[k] ELSE part[k - L]
    BY <1>1, <1>2, <2>1, <2>2, ConcatProperties DEF L
  <2>4. echo'[c] = e \o part
    BY DEF e, part, m, t
  <2>5. \A k \in (L + 1)..(L + n) : (e \o part)[k] = m[t + k - L]
    <3> SUFFICES ASSUME NEW k \in (L + 1)..(L + n)
                 PROVE  (e \o part)[k] = m[t + k - L]
      OBVIOUS
    <3>1. k \in 1..(L + n) /\ ~(k <= L) /\ k - L \in 1..n
      BY <1>2
    <3>2. t + (k - L) = t + k - L
      BY <1>2
    <3> QED
      BY <2>2, <2>3, <3>1, <3>2
  <2>6. \A k \in 1..L : k \in 1..(L + n) /\ k <= L
    BY <1>2
  <2> QED
    BY <2>3, <2>4, <2>5, <2>6
<1>4. Piece(m)
  BY DEF LineInv, MessagesInOrder, m
<1>5. total'[c] = t + n
  BY <1>1, <1>2, <1>4, HandleAssumption, SizeModAssumption DEF AddSize, Piece, t
<1> DEFINE new == {m[k][2] : k \in (t + 1)..(t + n)}
<1> HIDE DEF new
<1>6. \A k \in (L + 1)..(L + n) : /\ t + k - L \in (t + 1)..(t + n)
                                  /\ t + k - L \in 1..Len(m)
  BY <1>2
<1>7. \A k \in (L + 1)..(L + n) : echo'[c][k][1] = c /\ echo'[c][k][2] \in new
  <2> SUFFICES ASSUME NEW k \in (L + 1)..(L + n)
               PROVE  echo'[c][k][1] = c /\ echo'[c][k][2] \in new
    OBVIOUS
  <2>1. echo'[c][k] = m[t + k - L]
    BY <1>3
  <2>2. m[t + k - L] \in {c} \X (1..MaxSent)
    BY <1>1, <1>6
  <2> QED
    BY <1>6, <2>1, <2>2 DEF new
<1>8. OwnAt(c)' = OwnAt(c) \cup ((L + 1)..(L + n))
  <2>1. 1..(L + n) = (1..L) \cup ((L + 1)..(L + n))
    BY <1>2
  <2>2. OwnAt(c)' = {k \in 1..(L + n) : echo'[c][k][1] = c}
    BY <1>3 DEF OwnAt
  <2>3. OwnAt(c) = {k \in 1..L : e[k][1] = c}
    BY DEF OwnAt, L, e
  <2> QED
    BY <1>3, <1>7, <2>1, <2>2, <2>3
<1>9. \A k \in OwnAt(c) : k \in 1..L /\ echo'[c][k] = echo[c][k]
  BY <1>3 DEF OwnAt, L, e
<1>10. Returned(c)' = Returned(c) \cup new
  <2>1. \A j \in (t + 1)..(t + n) : /\ j - t + L \in (L + 1)..(L + n)
                                    /\ t + (j - t + L) - L = j
    BY <1>2
  <2>2. \A j \in (t + 1)..(t + n) :
          \E k \in (L + 1)..(L + n) : echo'[c][k][2] = m[j][2]
    BY <1>3, <2>1
  <2>3. Returned(c)' = {echo'[c][k][2] : k \in OwnAt(c)'}
    BY DEF Returned
  <2>4. Returned(c) = {echo[c][k][2] : k \in OwnAt(c)}
    BY DEF Returned
  <2>5. \A i \in new : \E k \in (L + 1)..(L + n) : echo'[c][k][2] = i
    BY <2>2 DEF new
  <2>6. \A k \in OwnAt(c)' : echo'[c][k][2] \in Returned(c) \cup new
    BY <1>7, <1>8, <1>9, <2>4
  <2>7. \A i \in Returned(c) : \E k \in OwnAt(c)' : echo'[c][k][2] = i
    BY <1>8, <1>9, <2>4
  <2>8. \A i \in new : \E k \in OwnAt(c)' : echo'[c][k][2] = i
    BY <1>8, <2>5
  <2> QED
    BY <2>3, <2>6, <2>7, <2>8
<1>11. Rest(c) = new \cup Rest(c)'
  <2>1. (t + 1)..Len(m) = ((t + 1)..(t + n)) \cup ((t + n + 1)..Len(m))
    BY <1>2
  <2>2. Rest(c)' = {m[k][2] : k \in (t + n + 1)..Len(m)}
    BY <1>5 DEF Rest, m
  <2>3. Rest(c) = {m[k][2] : k \in (t + 1)..Len(m)}
    BY DEF Rest, m, t
  <2> QED
    BY <2>1, <2>2, <2>3 DEF new
<1>12. Queued(c)' = Queued(c)
  BY DEF Queued
<1>13. Line(c)' = Line(c)
  BY <1>10, <1>11, <1>12 DEF Line
<1>14. Before(new, Rest(c)')
  <2>1. \A j \in (t + 1)..(t + n), k \in (t + n + 1)..Len(m) :
          j \in 1..Len(m) /\ k \in 1..Len(m) /\ j < k
    BY <1>2
  <2>2. Rest(c)' = {m[k][2] : k \in (t + n + 1)..Len(m)}
    BY <1>5 DEF Rest, m
  <2>3. \A j \in (t + 1)..(t + n), k \in (t + n + 1)..Len(m) : m[j][2] < m[k][2]
    BY <1>4, <2>1 DEF Piece
  <2> QED
    BY <2>2, <2>3 DEF Before, new
<1>15. Before(Returned(c), new)
  BY <1>11 DEF LineInv, LineInOrder, Before
<1>16. InOrder(c)'
  <2> SUFFICES ASSUME NEW k \in OwnAt(c)', NEW l \in OwnAt(c)', k < l
               PROVE  echo'[c][k][2] < echo'[c][l][2]
    BY DEF InOrder
  <2>1. CASE k \in OwnAt(c) /\ l \in OwnAt(c)
    BY <1>9, <2>1 DEF LineInv, InOrder
  <2>2. CASE k \in OwnAt(c) /\ l \in (L + 1)..(L + n)
    <3>1. echo'[c][k][2] \in Returned(c) /\ echo'[c][l][2] \in new
      BY <1>7, <1>9, <2>2 DEF Returned
    <3> QED
      BY <1>15, <3>1 DEF Before
  <2>3. CASE k \in (L + 1)..(L + n) /\ l \in (L + 1)..(L + n)
    <3>1. t + k - L < t + l - L
      BY <1>1, <1>2, <2>3
    <3> QED
      BY <1>3, <1>4, <1>6, <2>3, <3>1 DEF Piece
  <2>4. ~(k \in (L + 1)..(L + n) /\ l \in OwnAt(c))
    BY <1>2, <1>9
  <2> QED
    BY <1>8, <2>1, <2>2, <2>3, <2>4
<1>17. MessagesInOrder(c)'
  BY DEF LineInv, MessagesInOrder
<1>18. LineInOrder(c)'
  <2>1. /\ Before(Returned(c), Rest(c) \cup Queued(c))
        /\ Before(Rest(c), Queued(c))
        /\ Line(c) \subseteq 1..consumed[c]
    BY DEF LineInv, LineInOrder
  <2>2. Before(Returned(c)', Rest(c)' \cup Queued(c)')
    BY <1>10, <1>11, <1>12, <1>14, <2>1 DEF Before
  <2>3. Before(Rest(c)', Queued(c)')
    BY <1>11, <1>12, <2>1 DEF Before
  <2> QED
    BY <1>13, <2>1, <2>2, <2>3 DEF LineInOrder
<1>19. NoneLost(c)'
  BY <1>13 DEF LineInv, NoneLost, CutOff
<1> QED
  BY <1>2, <1>5, <1>16, <1>17, <1>18, <1>19 DEF LineInv, m

\* What recv() reads stands at the end of the line; of an IPv6 message, the
\* bytes from a '\0' on are cut off.
LEMMA ReadsLine ==
  ASSUME TypeOK, NEW c \in Clients, rsock[c] = c, LineInv(c),
         NEW n \in 1..MaxSent, RecvData(c, n)
  PROVE  LineInv(c)'
<1> DEFINE Q == mMessageQueue[c]
           buf == Bytes(c, n)
           m == RecvMsg(c, buf)
           p == consumed[c]
           h == Len(m)
           T == {c} \X (1..MaxSent)
<1>1. /\ mMessageQueue'[c] = Append(Q, m) /\ consumed'[c] = p + n
      /\ n <= peerSent[c] - p
      /\ UNCHANGED <<msg, total, echo, nul>>
      /\ rpc' = [rpc EXCEPT ![c] = "notify"]
  BY DEF RecvData, RecvReturns, RecvStep, TypeOK, sendVars, sendCall
<1>2. /\ p \in Nat /\ n \in Nat /\ n > 0 /\ MaxSent \in Nat /\ p + n <= MaxSent
      /\ Q \in Seq(Message)
  <2>1. p \in 0..MaxSent /\ peerSent[c] \in 0..MaxSent /\ Q \in Seq(Message)
    BY DEF TypeOK
  <2> QED
    BY <1>1, <2>1, HandleAssumption
<1>3. /\ buf \in Seq(T) /\ Len(buf) = n
      /\ \A i \in 1..n : buf[i] = <<c, p + i>>
  <2>1. peerSent[c] \in 0..MaxSent /\ consumed[c] \in 0..MaxSent
    BY DEF TypeOK
  <2>2. buf \in Seq(T)
    BY <1>1, <2>1, BytesType
  <2> QED
    BY <1>2, <2>2 DEF Bytes
<1> HIDE DEF buf, p, T
<1>4. /\ h \in 0..n
      /\ \A i \in 1..h : m[i] = <<c, p + i>>
      /\ h < n => c \in V6Clients /\ p + h + 1 \in nul[c]
  <2>1. CASE c \notin V6Clients
    BY <1>2, <1>3, <2>1 DEF RecvMsg
  <2>2. CASE c \in V6Clients
    <3>1. PICK k \in 0..n : /\ CString(buf) = SubSeq(buf, 1, k)
                            /\ k < n => IsNul(buf[k + 1])
      BY <1>3, CStringPrefix
    <3>2. m = SubSeq(buf, 1, k)
      BY <2>2, <3>1 DEF RecvMsg
    <3>3. k \in Nat /\ k <= n
      BY <1>2, <3>1
    <3>4. Len(SubSeq(buf, 1, k)) = k /\ \A i \in 1..k : SubSeq(buf, 1, k)[i] = buf[i]
      BY <1>2, <1>3, <3>3
    <3>5. k < n => p + k + 1 \in nul[c]
      <4> SUFFICES ASSUME k < n PROVE p + k + 1 \in nul[c]
        OBVIOUS
      <4>1. k + 1 \in 1..n /\ p + (k + 1) = p + k + 1
        BY <1>2, <3>3
      <4>2. buf[k + 1] = <<c, p + k + 1>>
        BY <1>3, <4>1
      <4> QED
        BY <3>1, <4>2 DEF IsNul
    <3>6. \A i \in 1..k : i \in 1..n
      BY <1>2, <3>3
    <3> HIDE DEF m
    <3> QED
      BY <1>3, <2>2, <3>1, <3>2, <3>4, <3>5, <3>6
  <2> QED
    BY <2>1, <2>2
<1> HIDE DEF m, h
<1>5. Piece(m)
  <2>1. h = Len(m) /\ h <= MaxSent
    BY <1>2, <1>4 DEF h
  <2>2. \A k, l \in 1..h : k < l => m[k][2] < m[l][2]
    <3> SUFFICES ASSUME NEW k \in 1..h, NEW l \in 1..h, k < l
                 PROVE  m[k][2] < m[l][2]
      OBVIOUS
    <3>1. m[k] = <<c, p + k>> /\ m[l] = <<c, p + l>>
      BY <1>4
    <3>2. p + k < p + l
      BY <1>2, <1>4
    <3> QED
      BY <3>1, <3>2
  <2> QED
    BY <2>1, <2>2 DEF Piece
<1>6. Places(m) = (p + 1)..(p + h)
  <2>1. \A k \in 1..h : m[k][2] = p + k /\ p + k \in (p + 1)..(p + h)
    BY <1>2, <1>4
  <2>2. \A i \in (p + 1)..(p + h) : i - p \in 1..h /\ p + (i - p) = i
    BY <1>2, <1>4
  <2> QED
    BY <2>1, <2>2 DEF Places, h
<1> DEFINE N == Len(Q)
<1>7. /\ N \in Nat /\ Len(mMessageQueue'[c]) = N + 1
      /\ \A q \in 1..N : mMessageQueue'[c][q] = Q[q]
      /\ mMessageQueue'[c][N + 1] = m
  BY <1>1, <1>2
<1> HIDE DEF Q, N
<1>8. 1..(N + 1) = (1..N) \cup {N + 1}
  BY <1>7
<1>9. Queued(c) = UNION {Places(Q[q]) : q \in 1..N}
  BY DEF Queued, Q, N
<1>10. Queued(c)' = Queued(c) \cup Places(m)
  <2>1. Queued(c)' = UNION {Places(mMessageQueue'[c][q]) : q \in 1..(N + 1)}
    BY <1>7 DEF Queued, Places
  <2> QED
    BY <1>7, <1>8, <1>9, <2>1
<1>11. /\ Returned(c)' = Returned(c) /\ Rest(c)' = Rest(c) /\ InOrder(c)'
  BY <1>1 DEF Returned, OwnAt, Rest, InOrder, LineInv
<1>12. Line(c)' = Line(c) \cup ((p + 1)..(p + h))
  BY <1>6, <1>10, <1>11 DEF Line
<1>13. Line(c) \subseteq 1..p
  BY DEF LineInv, LineInOrder, p
<1>14. Before(Line(c), Places(m))
  BY <1>2, <1>4, <1>6, <1>13 DEF Before
<1>15. MessagesInOrder(c)'
  <2>1. /\ Piece(msg[c])
        /\ \A q \in 1..N : Piece(Q[q])
        /\ \A q, r \in 1..N : q < r => Before(Places(Q[q]), Places(Q[r]))
    BY DEF LineInv, MessagesInOrder, Q, N
  <2>2. \A q \in 1..(N + 1) : Piece(mMessageQueue'[c][q])
    BY <1>5, <1>7, <1>8, <2>1
  <2>3. ASSUME NEW q \in 1..(N + 1), NEW r \in 1..(N + 1), q < r
        PROVE  Before(Places(mMessageQueue'[c][q]), Places(mMessageQueue'[c][r]))
    <3>1. q \in 1..N
      BY <1>7, <2>3
    <3>2. CASE r \in 1..N
      BY <1>7, <2>1, <2>3, <3>1, <3>2
    <3>3. CASE r = N + 1
      <4>1. Places(Q[q]) \subseteq Line(c)
        BY <1>9, <3>1 DEF Line
      <4>2. Before(Places(Q[q]), Places(m))
        BY <1>14, <4>1 DEF Before
      <4> QED
        BY <1>7, <3>1, <3>3, <4>2
    <3> QED
      BY <1>8, <3>2, <3>3
  <2> QED
    BY <1>1, <1>7, <2>1, <2>2, <2>3 DEF MessagesInOrder
<1>16. LineInOrder(c)'
  <2>1. /\ Before(Returned(c), Rest(c) \cup Queued(c))
        /\ Before(Rest(c), Queued(c))
    BY DEF LineInv, LineInOrder
  <2>2. Before(Returned(c)', Rest(c)' \cup Queued(c)')
    BY <1>10, <1>11, <1>14, <2>1 DEF Before, Line
  <2>3. Before(Rest(c)', Queued(c)')
    BY <1>10, <1>11, <1>14, <2>1 DEF Before, Line
  <2>4. (1..p) \cup ((p + 1)..(p + h)) \subseteq 1..(p + n)
    BY <1>2, <1>4
  <2>5. Line(c)' \subseteq 1..consumed'[c]
    BY <1>1, <1>12, <1>13, <2>4
  <2> QED
    BY <2>2, <2>3, <2>5 DEF LineInOrder
<1>17. NoneLost(c)'
  <2> SUFFICES ASSUME NEW i \in 1..(p + n)
               PROVE  i \in Line(c)' \/ CutOff(c, i, Line(c))'
    BY <1>1 DEF NoneLost
  <2>1. CASE i \in 1..p
    <3>1. i \in Line(c) \/ CutOff(c, i, Line(c))
      BY <2>1 DEF LineInv, NoneLost, p
    <3>2. ASSUME NEW j \in nul[c], j <= i, (j..i) \cap Line(c) = {}
          PROVE  (j..i) \cap Line(c)' = {}
      <4>1. (j..i) \cap ((p + 1)..(p + h)) = {}
        BY <1>2, <1>4, <2>1
      <4> QED
        BY <1>12, <3>2, <4>1
    <3> QED
      BY <1>1, <1>12, <3>1, <3>2 DEF CutOff
  <2>2. CASE i \in (p + 1)..(p + h)
    BY <1>12, <2>2
  <2>3. CASE i \in (p + h + 1)..(p + n)
    <3>1. h < n /\ p + h + 1 <= i
      BY <1>2, <1>4, <2>3
    <3>2. ((p + h + 1)..i) \cap ((1..p) \cup ((p + 1)..(p + h))) = {}
      BY <1>2, <1>4
    <3>3. ((p + h + 1)..i) \cap Line(c)' = {}
      BY <1>12, <1>13, <3>2
    <3> QED
      BY <1>1, <1>4, <3>1, <3>3 DEF CutOff
  <2>4. i \in (1..p) \cup ((p + 1)..(p + h)) \cup ((p + h + 1)..(p + n))
    BY <1>2, <1>4
  <2> QED
    BY <2>1, <2>2, <2>3, <2>4
<1>18. rpc'[c] \notin ExitPc
  BY <1>1 DEF TypeOK, ExitPc
<1>19. total'[c] <= Len(msg'[c])
  BY <1>1 DEF LineInv
<1> QED
  BY <1>11, <1>15, <1>16, <1>17, <1>18, <1>19 DEF LineInv

-----------------------------------------------------------------------------
(***************************************************************************)
(* What every step does to the line of a client c, whoever takes it.       *)
(***************************************************************************)

\* A send() takes nothing back, and adds to c's own bytes only in c's
\* handler while its peer is open.
LEMMA SendSomeEcho ==
  ASSUME OwnerInv, OwnBytes, NEW c \in Clients, NEW e \in Clients,
         NEW n \in 1..MaxSent, SendSome(e, n)
  PROVE  EchoSame(c) \/ (e = c /\ peer[c] = "open")
<1> SUFFICES ASSUME ~(e = c /\ peer[c] = "open") PROVE EchoSame(c)
  OBVIOUS
<1>1. PICK d \in Clients :
        /\ n <= Len(msg[e]) - total[e]
        /\ echo' = [echo EXCEPT ![d] =
              IF peer[d] # "open" THEN echo[d]
              ELSE echo[d] \o SubSeq(msg[e], total[e] + 1, total[e] + n)]
  BY DEF SendSome
<1>2. CASE d # c \/ peer[c] # "open"
  <2>1. echo'[c] = echo[c]
    BY <1>1, <1>2 DEF OwnerInv, TypeOK
  <2> QED
    BY <2>1 DEF EchoSame, OwnAt
<1>3. CASE d = c /\ peer[c] = "open"
  <2> DEFINE s == echo[c]
             m == msg[e]
             t == total[e]
             part == SubSeq(m, t + 1, t + n)
             T == Clients \X (1..MaxSent)
  <2>1. e # c
    BY <1>3
  <2>2. /\ m \in Seq({e} \X (1..MaxSent)) /\ s \in Seq(T)
        /\ t \in Nat /\ n \in Nat /\ n <= Len(m) - t
    <3>1. m \in Seq({e} \X (1..MaxSent))
      BY DEF OwnBytes, Own
    <3>2. s \in Seq(T)
      BY DEF OwnerInv, TypeOK, Message
    <3>3. t \in Nat
      BY SizeModAssumption DEF OwnerInv, TypeOK
    <3> QED
      BY <1>1, <3>1, <3>2, <3>3, HandleAssumption
  <2>3. echo'[c] = s \o part
    BY <1>1, <1>3 DEF OwnerInv, TypeOK
  <2> HIDE DEF s, m, t
  <2>4. part \in Seq({e} \X (1..MaxSent))
    BY <2>2, PartType
  <2>5. \A i \in 1..Len(part) : part[i] \in {e} \X (1..MaxSent)
    BY <2>4
  <2>6. \A i \in 1..Len(part) : part[i][1] # c /\ part[i] \in T
    BY <2>1, <2>5
  <2>7. part \in Seq(T)
    BY <2>4, <2>6
  <2> HIDE DEF part, T
  <2>8. /\ Len(s \o part) = Len(s) + Len(part)
        /\ \A k \in 1..(Len(s) + Len(part)) :
             (s \o part)[k] = IF k <= Len(s) THEN s[k] ELSE part[k - Len(s)]
    BY <2>2, <2>7, ConcatProperties
  <2>9. Len(s) \in Nat /\ Len(part) \in Nat
    BY <2>2, <2>7
  <2>10. \A k \in 1..(Len(s) + Len(part)) :
           \/ k \in 1..Len(s) /\ (s \o part)[k] = s[k]
           \/ (s \o part)[k][1] # c /\ k \notin 1..Len(s)
    <3> SUFFICES ASSUME NEW k \in 1..(Len(s) + Len(part)), ~(k <= Len(s))
                 PROVE  (s \o part)[k][1] # c
      BY <2>8, <2>9
    <3>1. k - Len(s) \in 1..Len(part)
      BY <2>9
    <3> QED
      BY <2>6, <2>8, <3>1
  <2>11. 1..Len(s) \subseteq 1..(Len(s) + Len(part))
    BY <2>9
  <2>12. OwnAt(c)' = {k \in 1..(Len(s) + Len(part)) : (s \o part)[k][1] = c}
    BY <2>3, <2>8 DEF OwnAt
  <2>13. OwnAt(c) = {k \in 1..Len(s) : s[k][1] = c}
    BY DEF OwnAt, s
  <2>14. OwnAt(c)' = OwnAt(c)
    BY <2>10, <2>11, <2>12, <2>13
  <2>15. \A k \in OwnAt(c) : echo'[c][k] = echo[c][k]
    BY <2>3, <2>10, <2>11, <2>13 DEF s
  <2> QED
    BY <2>14, <2>15 DEF EchoSame
<1> QED
  BY <1>2, <1>3

\* The steps of a recv thread.
LEMMA RecvKinds ==
  ASSUME OwnerInv, Connected, NEW c \in Clients, NEW e \in Clients,
         RecvThread(e)
  PROVE  /\ UNCHANGED <<echo, nul, peer, sendErrors, msg>>
         /\ peer[c] = "open" /\ rpc[c] \notin ExitPc => rpc'[c] \notin ExitPc
         /\ spc'[c] \in {"loop", "send"} <=> spc[c] \in {"loop", "send"}
         /\ Kept(c) \/ \E n \in 1..MaxSent : RecvData(c, n)
<1> USE DEF RecvStep, RecvReturns, NotifySend, Awake, ExitPc, peers, ctx,
            sendCall, sendVars
<1>1. /\ rpc \in [Clients -> {"none", "load", "recv", "blocked", "notify"}
                               \cup ExitPc]
      /\ spc \in [Clients -> SendPc] /\ consumed \in [Clients -> 0..MaxSent]
      /\ mMessageQueue \in [Clients -> Seq(Message)] /\ rsock[e] = e
  BY DEF OwnerInv, TypeOK, HandleInv
<1>2. CASE RecvLoadFd(e) \/ RecvCall(e) \/ RecvTimesOut(e)
           \/ RecvClose(e) \/ RecvReset(e)
  BY <1>1, <1>2 DEF RecvLoadFd, RecvCall, RecvTimesOut, RecvClose, RecvReset,
                    Kept, EchoSame, OwnAt
<1>3. CASE RecvEnd(e)
  BY <1>1, <1>3 DEF RecvEnd, Kept, EchoSame, OwnAt
<1>4. ~RecvBadFd(e)
  <2> SUFFICES ASSUME RecvBadFd(e) PROVE FALSE
    OBVIOUS
  <2>1. rpc[e] = "recv" /\ ~IsOpen(fdTable, rfd[e])
    BY DEF RecvBadFd
  <2>2. rfd[e] = mClientFd[e] /\ mClientFd[e] # INVALID_FD
    BY <2>1 DEF OwnerInv, HandleInv, Connected
  <2>3. connectionStatus[e] = "open"
    BY <2>1, <2>2 DEF connectionStatus
  <2> QED
    BY <2>1, <2>2, <2>3, HandleAssumption DEF OwnerInv, Owned, IsOpen
<1>5. CASE RecvNotify(e) \/ RecvWake(e)
  <2>1. /\ UNCHANGED <<echo, nul, peer, sendErrors, msg, total, mMessageQueue,
                       consumed>>
        /\ \/ spc' = spc
           \/ spc[e] = "asleep" /\ spc' = [spc EXCEPT ![e] = "woken"]
           \/ spc[e] = "asleep" /\ spc' = [spc EXCEPT ![e] = "gate"]
        /\ \/ rpc[e] = "notify" /\ rpc' = [rpc EXCEPT ![e] = "load"]
           \/ rpc[e] = "wake" /\ rpc' = [rpc EXCEPT ![e] = "done"]
    BY <1>1, <1>5 DEF RecvNotify, RecvWake
  <2> QED
    BY <1>1, <2>1 DEF Kept, EchoSame, OwnAt
<1>6. ASSUME NEW n \in 1..MaxSent, RecvData(e, n)
      PROVE  /\ UNCHANGED <<echo, nul, peer, sendErrors, msg, spc>>
             /\ rpc[c] \notin ExitPc => rpc'[c] \notin ExitPc
             /\ e # c => Kept(c)
  <2>1. /\ UNCHANGED <<echo, nul, peer, sendErrors, msg, total, spc>>
        /\ rpc' = [rpc EXCEPT ![e] = "notify"]
        /\ mMessageQueue' = [mMessageQueue EXCEPT
                               ![e] = Append(@, RecvMsg(e, Bytes(rsock[e], n)))]
        /\ consumed' = [consumed EXCEPT ![e] = @ + n]
    BY <1>1, <1>6 DEF RecvData
  <2> QED
    BY <1>1, <2>1 DEF Kept, EchoSame, OwnAt
<1> QED
  BY <1>2, <1>3, <1>4, <1>5, <1>6 DEF RecvThread

\* The steps of a send thread.
LEMMA SendKinds ==
  ASSUME ~ZeroSend, OwnerInv, OwnBytes, InHand,
         NEW c \in Clients, NEW e \in Clients, SendThread(e)
  PROVE  /\ UNCHANGED <<nul, rpc>>
         /\ peer'[c] = "open" <=> peer[c] = "open"
         /\ sendErrors'[c] = 0 => sendErrors[c] = 0
         /\ spc'[c] \in {"loop", "send"} \/ msg'[c] = <<>>
         /\ peer[c] # "open" => EchoSame(c)
         /\ \/ Kept(c) \/ sendErrors'[c] # 0
            \/ SendTakes(c) /\ msg[c] = <<>>
            \/ SendEnds(c)
            \/ \E n \in 1..MaxSent : SendSome(c, n)
<1> USE DEF SendStep, SendReturns, PastWait, peers, ctx, recvVars, sendCall,
            sendVars
<1>1. /\ spc \in [Clients -> SendPc] /\ msg \in [Clients -> Message]
      /\ total \in [Clients -> 0..(SizeMod - 1)]
      /\ mMessageQueue \in [Clients -> Seq(Message)]
      /\ sendErrors \in [Clients -> 0..MaxErrors]
      /\ peer \in [Clients -> {"open", "closed", "gone"}]
      /\ spc[e] \notin {"close", "reset"}
      /\ \A d \in Clients : spc[d] \in {"loop", "send"} \/ msg[d] = <<>>
  BY DEF OwnerInv, TypeOK, HandleInv, InHand
<1>2. CASE SendWaits(e) \/ SendLeaves(e) \/ SendTakesNothing(e)
  BY <1>1, <1>2 DEF SendWaits, SendLeaves, SendTakesNothing, Kept, EchoSame, OwnAt
<1>3. CASE SendLoadFd(e) \/ SendSigPipe(e)
  BY <1>1, <1>3 DEF SendLoadFd, SendSigPipe, Kept, EchoSame, OwnAt
<1>4. CASE SendTakes(e)
  BY <1>1, <1>4 DEF SendTakes, Kept, EchoSame, OwnAt
<1>5. CASE SendEnds(e)
  BY <1>1, <1>5 DEF SendEnds, Kept, EchoSame, OwnAt
<1>6. ~(SendZero(e) \/ SendClose(e) \/ SendReset(e))
  BY <1>1 DEF SendZero, SendClose, SendReset
<1>7. CASE SendFails(e)
  <2>1. /\ UNCHANGED <<nul, rpc, echo, msg, mMessageQueue, consumed>>
        /\ spc' = [spc EXCEPT ![e] = "loop"]
        /\ peer' = [d \in Clients |-> IF SendsTo(e, d) /\ peer[d] # "open"
                                      THEN "gone" ELSE peer[d]]
        /\ sendErrors' = [sendErrors EXCEPT ![e] = IF @ < MaxErrors THEN @ + 1
                                                   ELSE @]
        /\ total' = [total EXCEPT ![e] = AddSize(total[e], AsSize(-1))]
    BY <1>7 DEF SendFails, CountError
  <2>2. sendErrors'[e] # 0 /\ \A d \in Clients : d # e => sendErrors'[d] = sendErrors[d]
    BY <1>1, <2>1, HandleAssumption
  <2>3. EchoSame(c)
    BY <2>1 DEF EchoSame, OwnAt
  <2>4. e # c => Kept(c)
    BY <1>1, <2>1, <2>3 DEF Kept
  <2>5. spc'[c] \in {"loop", "send"} \/ msg'[c] = <<>>
    BY <1>1, <2>1
  <2> QED
    BY <1>1, <2>1, <2>2, <2>3, <2>4, <2>5
<1>8. ASSUME NEW n \in 1..MaxSent, SendSome(e, n)
      PROVE  /\ UNCHANGED <<nul, rpc, peer, sendErrors>>
             /\ spc'[c] \in {"loop", "send"} \/ msg'[c] = <<>>
             /\ peer[c] # "open" => EchoSame(c)
             /\ e # c => Kept(c)
  <2>1. /\ UNCHANGED <<nul, rpc, peer, sendErrors, msg, mMessageQueue, consumed>>
        /\ spc' = [spc EXCEPT ![e] = "loop"]
        /\ total' = [total EXCEPT ![e] = AddSize(@, n)]
    BY <1>8 DEF SendSome
  <2>2. EchoSame(c) \/ (e = c /\ peer[c] = "open")
    BY <1>8, SendSomeEcho
  <2> QED
    BY <1>1, <2>1, <2>2 DEF Kept
<1> QED
  BY <1>2, <1>3, <1>4, <1>5, <1>6, <1>7, <1>8 DEF SendThread

\* The steps of the accept loop, mCond and the peers.
LEMMA EnvironmentKinds ==
  ASSUME OwnerInv, NEW c \in Clients, NEW e \in Clients, Environment(e)
  PROVE  /\ UNCHANGED <<sendErrors, msg>>
         /\ peer'[c] = "open" => peer[c] = "open"
         /\ rpc[c] \notin ExitPc => rpc'[c] \notin ExitPc
         /\ spc'[c] \in {"loop", "send"} <=> spc[c] \in {"loop", "send"}
         /\ Kept(c)
<1> USE DEF peers, ctx, recvVars, sendCall, sendVars, Kept, EchoSame, OwnAt
<1>1. /\ rpc \in [Clients -> {"none", "load", "recv", "blocked", "notify"}
                               \cup ExitPc]
      /\ spc \in [Clients -> SendPc] /\ nul \in [Clients -> SUBSET (1..MaxSent)]
      /\ peer \in [Clients -> {"open", "closed", "gone"}]
      /\ \A d \in Clients : rpc[d] = "none" => spc[d] = "none"
  BY DEF OwnerInv, TypeOK, HandleInv
<1>2. CASE Accept(e)
  BY <1>1, <1>2 DEF Accept, ExitPc
<1>3. CASE SpuriousWakeup(e)
  BY <1>1, <1>3 DEF SpuriousWakeup, SendStep, Awake
<1>4. ASSUME NEW isNul \in BOOLEAN, PeerSends(e, isNul)
      PROVE  /\ UNCHANGED <<sendErrors, msg, peer, rpc, spc>>
             /\ Kept(c)
  BY <1>1, <1>4 DEF PeerSends
<1>5. CASE PeerCloses(e)
  BY <1>1, <1>5 DEF PeerCloses
<1> HIDE DEF Kept
<1> QED
  BY <1>2, <1>3, <1>4, <1>5 DEF Environment

-----------------------------------------------------------------------------
\* Every step keeps the handlers connected and their messages in hand.
LEMMA HandStep ==
  ASSUME ~ZeroSend, OwnerInv, OwnBytes, Connected, InHand, [Next]_vars
  PROVE  Connected' /\ InHand'
<1>1. HandleKind /\ RecvLeavesForGood
  BY NextHandle DEF OwnerInv
<1>2. Connected'
  <2>1. /\ rpc \in [Clients -> {"none", "load", "recv", "blocked", "notify"}
                                 \cup ExitPc]
        /\ mClientFd \in [Clients -> Number]
    BY DEF OwnerInv, TypeOK
  <2>2. CASE Quiet
    <3> SUFFICES ASSUME NEW c \in Clients
                 PROVE  \/ rpc'[c] \in ExitPc \/ rpc'[c] = "none"
                        \/ mClientFd'[c] # INVALID_FD
      BY DEF Connected
    <3>1. rpc[c] = "none" => connectionStatus[c] = "absent"
      BY DEF connectionStatus
    <3>2. connectionStatus'[c] = "absent" => rpc'[c] = "none"
      BY DEF connectionStatus
    <3>3. connectionStatus' = connectionStatus /\ mClientFd' = mClientFd
      BY <2>2 DEF Quiet
    <3> QED
      BY <1>1, <3>1, <3>2, <3>3 DEF Connected, RecvLeavesForGood
  <2>3. ASSUME NEW e \in Clients, Accept(e) PROVE Connected'
    <3>1. PICK f \in Fds : /\ mClientFd' = [mClientFd EXCEPT ![e] = f]
                           /\ rpc' = [rpc EXCEPT ![e] = "load"]
      BY <2>3 DEF Accept
    <3>2. f # INVALID_FD
      BY FdsAssumption DEF INVALID_FD
    <3> QED
      BY <2>1, <3>1, <3>2 DEF Connected
  <2>4. ASSUME NEW e \in Clients, RecvClose(e) PROVE Connected'
    BY <2>1, <2>4 DEF RecvClose, RecvStep, ctx, Connected, ExitPc
  <2>5. ASSUME NEW e \in Clients, RecvReset(e) PROVE Connected'
    BY <2>1, <2>5 DEF RecvReset, RecvStep, Connected, ExitPc
  <2> QED
    BY <1>1, <2>2, <2>3, <2>4, <2>5 DEF HandleKind
<1>3. InHand'
  <2> SUFFICES ASSUME NEW c \in Clients
               PROVE  spc'[c] \in {"loop", "send"} \/ msg'[c] = <<>>
    BY DEF InHand
  <2>1. CASE UNCHANGED vars
    BY <2>1 DEF vars, sendVars, sendCall, InHand
  <2>2. ASSUME NEW e \in Clients, RecvThread(e) \/ Environment(e)
        PROVE  spc'[c] \in {"loop", "send"} \/ msg'[c] = <<>>
    BY <2>2, RecvKinds, EnvironmentKinds DEF InHand
  <2>3. ASSUME NEW e \in Clients, SendThread(e)
        PROVE  spc'[c] \in {"loop", "send"} \/ msg'[c] = <<>>
    BY <2>3, SendKinds
  <2> QED
    BY <2>1, <2>2, <2>3 DEF Next
<1> QED
  BY <1>2, <1>3

\* What a step does to the line of one client.
LEMMA LineKinds ==
  ASSUME ~ZeroSend, OwnerInv, OwnBytes, Connected, InHand, [Next]_vars,
         NEW c \in Clients
  PROVE  /\ nul[c] \subseteq nul'[c]
         /\ peer'[c] = "open" => peer[c] = "open"
         /\ sendErrors'[c] = 0 => sendErrors[c] = 0
         /\ peer'[c] = "open" /\ rpc[c] \notin ExitPc => rpc'[c] \notin ExitPc
         /\ peer'[c] # "open" => EchoSame(c)
         /\ \/ Kept(c) \/ sendErrors'[c] # 0
            \/ SendTakes(c) /\ msg[c] = <<>>
            \/ SendEnds(c)
            \/ \E n \in 1..MaxSent : SendSome(c, n) \/ RecvData(c, n)
<1>1. CASE UNCHANGED vars
  BY <1>1 DEF vars, peers, ctx, recvVars, sendVars, sendCall, Kept, EchoSame,
              OwnAt
<1>2. ASSUME NEW e \in Clients, RecvThread(e)
      PROVE  /\ UNCHANGED <<nul, peer, sendErrors>> /\ EchoSame(c)
             /\ peer[c] = "open" /\ rpc[c] \notin ExitPc => rpc'[c] \notin ExitPc
             /\ Kept(c) \/ \E n \in 1..MaxSent : RecvData(c, n)
  BY <1>2, RecvKinds DEF EchoSame, OwnAt
<1>3. ASSUME NEW e \in Clients, Environment(e)
      PROVE  /\ sendErrors' = sendErrors /\ Kept(c)
             /\ peer'[c] = "open" => peer[c] = "open"
             /\ rpc[c] \notin ExitPc => rpc'[c] \notin ExitPc
  BY <1>3, EnvironmentKinds
<1>4. ASSUME NEW e \in Clients, SendThread(e)
      PROVE  /\ UNCHANGED <<nul, rpc>>
             /\ peer'[c] = "open" <=> peer[c] = "open"
             /\ sendErrors'[c] = 0 => sendErrors[c] = 0
             /\ peer[c] # "open" => EchoSame(c)
             /\ \/ Kept(c) \/ sendErrors'[c] # 0
                \/ SendTakes(c) /\ msg[c] = <<>>
                \/ SendEnds(c)
                \/ \E n \in 1..MaxSent : SendSome(c, n)
  BY <1>4, SendKinds
<1>5. CASE \E e \in Clients : RecvThread(e)
  BY <1>2, <1>5
<1>6. CASE \E e \in Clients : Environment(e)
  BY <1>3, <1>6 DEF Kept
<1>7. CASE \E e \in Clients : SendThread(e)
  BY <1>4, <1>7
<1> QED
  BY <1>1, <1>5, <1>6, <1>7 DEF Next

\* A handler whose peer is open sends what it has in hand to that peer.
LEMMA SendSomeLine ==
  ASSUME OwnerInv, OwnBytes, NEW c \in Clients, LineInv(c), peer[c] = "open",
         NEW n \in 1..MaxSent, SendSome(c, n)
  PROVE  LineInv(c)'
<1>1. PICK d \in Clients :
        /\ SendsTo(c, d) /\ n <= Len(msg[c]) - total[c]
        /\ echo' = [echo EXCEPT ![d] =
              IF peer[d] # "open" THEN echo[d]
              ELSE echo[d] \o SubSeq(msg[c], total[c] + 1, total[c] + n)]
        /\ total' = [total EXCEPT ![c] = AddSize(total[c], n)]
        /\ spc[c] = "send"
        /\ UNCHANGED <<rpc, nul, msg, mMessageQueue, consumed>>
  BY DEF SendSome, SendReturns, SendStep, ctx, recvVars
<1>2. d = c
  BY <1>1, SendsToOwn DEF LineInv
<1>3. /\ echo'[c] = echo[c] \o SubSeq(msg[c], total[c] + 1, total[c] + n)
      /\ total'[c] = AddSize(total[c], n)
  BY <1>1, <1>2 DEF OwnerInv, TypeOK
<1> QED
  BY <1>1, <1>3, SendsLine DEF OwnerInv

\* Unless a send() failed, a peer gets its own bytes back in order, once each
\* and without a gap but for what an IPv6 handler cuts off at a '\0', however
\* recv() and send() cut the stream and whoever else draws on the descriptors.
THEOREM EchoesInOrder ==
  ASSUME ~ZeroSend
  PROVE  Spec => []EchoInOrder
<1>1. Init => OrderInv
  <2> SUFFICES ASSUME Init PROVE OrderInv
    OBVIOUS
  <2>1. Connected /\ InHand
    BY DEF Init, Connected, InHand
  <2>2. ASSUME NEW c \in Clients PROVE InOrder(c) /\ LineInv(c)
    <3>1. /\ echo[c] = <<>> /\ msg[c] = <<>> /\ mMessageQueue[c] = <<>>
          /\ total[c] = 0 /\ consumed[c] = 0 /\ rpc[c] = "none"
      BY DEF Init
    <3>2. OwnAt(c) = {}
      BY <3>1 DEF OwnAt
    <3>3. Returned(c) = {} /\ Rest(c) = {} /\ Queued(c) = {}
      BY <3>1, <3>2 DEF Returned, Rest, Queued
    <3>4. Piece(<<>>)
      BY HandleAssumption DEF Piece
    <3>5. LineInOrder(c)
      BY <3>3 DEF LineInOrder, Line, Before
    <3>6. NoneLost(c) /\ MessagesInOrder(c)
      BY <3>1, <3>4 DEF NoneLost, MessagesInOrder
    <3> QED
      BY <3>1, <3>2, <3>5, <3>6 DEF LineInv, InOrder, ExitPc
  <2> QED
    BY <2>1, <2>2 DEF Init, OrderInv
<1>2. OrderInv /\ OwnerInv /\ OwnBytes /\ [Next]_vars => OrderInv'
  <2> SUFFICES ASSUME OrderInv, OwnerInv, OwnBytes, [Next]_vars
               PROVE  OrderInv'
    OBVIOUS
  <2>1. Connected /\ InHand /\ TypeOK /\ Connected' /\ InHand'
    BY HandStep DEF OrderInv, OwnerInv
  <2>2. ASSUME NEW c \in Clients, sendErrors'[c] = 0
        PROVE  /\ InOrder(c)'
               /\ IF peer'[c] = "open" THEN LineInv(c)' ELSE NoGap(c)'
    <3>1. /\ nul[c] \subseteq nul'[c]
          /\ peer'[c] = "open" => peer[c] = "open"
          /\ sendErrors[c] = 0
          /\ peer'[c] = "open" /\ rpc[c] \notin ExitPc => rpc'[c] \notin ExitPc
          /\ peer'[c] # "open" => EchoSame(c)
          /\ \/ Kept(c)
             \/ SendTakes(c) /\ msg[c] = <<>>
             \/ SendEnds(c)
             \/ \E n \in 1..MaxSent : SendSome(c, n) \/ RecvData(c, n)
      BY <2>1, <2>2, LineKinds
    <3>2. InOrder(c) /\ IF peer[c] = "open" THEN LineInv(c) ELSE NoGap(c)
      BY <3>1 DEF OrderInv
    <3>3. CASE peer'[c] = "open"
      <4>1. LineInv(c) /\ peer[c] = "open"
        BY <3>1, <3>2, <3>3
      <4>2. CASE Kept(c)
        <5>1. rpc'[c] \notin ExitPc
          BY <3>1, <3>3, <4>1 DEF LineInv
        <5> QED
          BY <4>1, <4>2, <5>1, LineKept, <3>3 DEF LineInv
      <4>3. CASE SendTakes(c) /\ msg[c] = <<>>
        BY <2>1, <3>3, <4>1, <4>3, TakesLine DEF LineInv
      <4>4. CASE SendEnds(c)
        BY <2>1, <3>3, <4>1, <4>4, EndsLine DEF LineInv
      <4>5. ASSUME NEW n \in 1..MaxSent, SendSome(c, n)
            PROVE  LineInv(c)'
        BY <4>1, <4>5, SendSomeLine
      <4>6. ASSUME NEW n \in 1..MaxSent, RecvData(c, n)
            PROVE  LineInv(c)'
        <5>1. rsock[c] = c
          BY DEF OwnerInv, HandleInv
        <5> QED
          BY <2>1, <4>1, <4>6, <5>1, ReadsLine
      <4> QED
        BY <3>1, <3>3, <4>2, <4>3, <4>4, <4>5, <4>6 DEF LineInv
    <3>4. CASE peer'[c] # "open"
      <4>1. NoGap(c)
        BY <2>1, <3>2, LineHasNoGap DEF LineInv
      <4> QED
        BY <3>1, <3>2, <3>4, <4>1, ReturnedSame, NoGapKept
    <3> QED
      BY <3>3, <3>4
  <2> QED
    BY <2>1, <2>2 DEF OrderInv
<1>3. OrderInv /\ OwnerInv => EchoInOrder
  BY LineHasNoGap DEF OrderInv, OwnerInv, LineInv, EchoInOrder
<1> QED
  BY <1>1, <1>2, <1>3, OwnBytesInvariant, PTL DEF Spec
=============================================================================
