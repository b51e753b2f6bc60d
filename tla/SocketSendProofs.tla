-------------------------- MODULE SocketSendProofs --------------------------
(***************************************************************************)
(* Theorems about SocketSend, for data of every length and for any number  *)
(* of full send buffers.                                                   *)
(***************************************************************************)
EXTENDS SocketSend, SequenceTheorems, TLAPS

\* Every byte in front of the position was sent, and none from beyond the data; the position
\* is behind the data when the function returns len.  What was sent is as long as the way to
\* the position and the way it went back.
Progress ==
  /\ Len(peer) = (len - to_write) + blocked
  /\ \A b \in 1..(ByteAt - 1) : \E i \in 1..Len(peer) : peer[i] = b
  /\ \A i \in 1..Len(peer) : peer[i] <= len
  /\ result = "len" => to_write = 0

\* Byte i of what was sent is byte i of the data or one that many before it as there were
\* full buffers.
FallsBehindByBlocked ==
  \A i \in 1..Len(peer) : i - blocked <= peer[i] /\ peer[i] <= i

IInv == TypeOK /\ NoByteSkipped /\ Progress /\ FallsBehindByBlocked

LEMMA IInvInit == Init => IInv
<1> SUFFICES ASSUME Init PROVE IInv
  OBVIOUS
<1>1. peer = << >> /\ Len(peer) = 0 /\ to_write = len /\ ByteAt = 1
  BY SocketSendAssumption DEF Init, ByteAt
<1> QED
  BY <1>1, SocketSendAssumption
  DEF Init, IInv, TypeOK, NoByteSkipped, Progress, FallsBehindByBlocked

\* The bytes of one call are consecutive numbers.
LEMMA BytesAre ==
  ASSUME NEW i \in Int, NEW n \in Nat
  PROVE  /\ Bytes(i, n) \in Seq(Int)
         /\ Len(Bytes(i, n)) = n
         /\ \A k \in 1..n : Bytes(i, n)[k] = i + k - 1
  BY DEF Bytes

\* What was sent before stays, and the new bytes follow from the position on.
LEMMA WrittenAppends ==
  ASSUME TypeOK, NEW n \in 1..to_write, Written(n)
  PROVE  /\ peer' \in Seq(Int)
         /\ Len(peer') = Len(peer) + n
         /\ \A i \in 1..Len(peer) : peer'[i] = peer[i]
         /\ \A k \in 1..n : peer'[Len(peer) + k] = ByteAt + k - 1
         /\ to_write' = to_write - n
<1>1. ByteAt \in Int /\ n \in Nat /\ peer \in Seq(Int)
  BY SocketSendAssumption DEF TypeOK, ByteAt
<1>2. peer' = peer \o Bytes(ByteAt, n)
  BY DEF Written
<1> DEFINE more == Bytes(ByteAt, n)
<1>3. /\ more \in Seq(Int) /\ Len(more) = n
      /\ \A k \in 1..n : more[k] = ByteAt + k - 1
  BY <1>1, BytesAre
<1>4. peer' = peer \o more
  BY <1>2
<1> HIDE DEF more
<1>5. /\ peer' \in Seq(Int)
      /\ Len(peer') = Len(peer) + n
      /\ \A i \in 1..(Len(peer) + n) :
           peer'[i] = IF i <= Len(peer) THEN peer[i] ELSE more[i - Len(peer)]
  BY <1>1, <1>3, <1>4, ConcatProperties
<1>6. ASSUME NEW i \in 1..Len(peer) PROVE peer'[i] = peer[i]
  BY <1>1, <1>5
<1>7. ASSUME NEW k \in 1..n PROVE peer'[Len(peer) + k] = ByteAt + k - 1
  <2>1. Len(peer) + k \in 1..(Len(peer) + n) /\ ~(Len(peer) + k <= Len(peer))
    BY <1>1
  <2>2. (Len(peer) + k) - Len(peer) = k
    BY <1>1
  <2>3. peer'[Len(peer) + k] = more[k]
    BY <1>5, <2>1, <2>2
  <2> QED BY <1>3, <2>3
<1> QED BY <1>5, <1>6, <1>7 DEF Written, NextToWrite

LEMMA WrittenKeeps == ASSUME IInv, NEW n \in 1..to_write, Written(n) PROVE IInv'
<1>1. /\ peer' \in Seq(Int)
      /\ Len(peer') = Len(peer) + n
      /\ \A i \in 1..Len(peer) : peer'[i] = peer[i]
      /\ \A k \in 1..n : peer'[Len(peer) + k] = ByteAt + k - 1
      /\ to_write' = to_write - n
  BY WrittenAppends DEF IInv
<1>2. /\ to_write \in Nat /\ n \in Nat /\ n > 0 /\ n <= to_write
      /\ peer \in Seq(Int) /\ Len(peer) \in Nat
      /\ blocked \in Nat /\ len \in Nat
  BY SocketSendAssumption DEF IInv, TypeOK
<1>3. ByteAt' = ByteAt + n /\ ByteAt \in Int /\ ByteAt = len - to_write + 1
  BY <1>1, <1>2 DEF ByteAt
<1>4. result = "none" /\ result' = "none" /\ blocked' = blocked
  BY DEF Written, Sending
\* A byte of the new sequence is an old one or one of the n new ones.
<1>5. ASSUME NEW i \in 1..Len(peer')
      PROVE  \/ i \in 1..Len(peer) /\ peer'[i] = peer[i]
             \/ i - Len(peer) \in 1..n /\ peer'[i] = ByteAt + (i - Len(peer)) - 1
  <2>1. CASE i <= Len(peer)
    BY <1>1, <1>2, <2>1
  <2>2. CASE i > Len(peer)
    <3> DEFINE k == i - Len(peer)
    <3>1. k \in 1..n /\ i = Len(peer) + k
      BY <1>1, <1>2, <2>2
    <3>2. peer'[Len(peer) + k] = ByteAt + k - 1
      BY <1>1, <3>1
    <3> QED BY <3>1, <3>2
  <2> QED BY <1>1, <1>2, <2>1, <2>2
<1>6. TypeOK'
  <2>1. to_write' \in 0..(len + MaxBlocked)
    BY <1>1, <1>2, SocketSendAssumption DEF IInv, TypeOK
  <2> QED BY <1>1, <1>4, <2>1 DEF IInv, TypeOK
<1>7. ASSUME NEW i \in 1..Len(peer')
      PROVE  peer'[i] <= 1 + (IF i = 1 THEN 0 ELSE peer'[i - 1])
  <2>1. CASE i \in 1..Len(peer)
    <3>1. i # 1 => i - 1 \in 1..Len(peer)
      BY <1>2, <2>1
    <3> QED BY <1>1, <2>1, <3>1 DEF IInv, NoByteSkipped
  <2>2. CASE i = Len(peer) + 1
    <3>1. peer'[i] = ByteAt
      <4>1. 1 \in 1..n /\ peer'[Len(peer) + 1] = ByteAt + 1 - 1
        BY <1>1, <1>2
      <4> QED BY <1>3, <2>2, <4>1
    <3>2. CASE i = 1
      <4>1. peer = << >>
        BY <1>2, <2>2, <3>2
      <4> QED BY <3>1, <3>2, <4>1 DEF IInv, NoByteSkipped
    <3>3. CASE i # 1
      <4>1. peer # << >> /\ i - 1 = Len(peer) /\ Len(peer) \in 1..Len(peer)
        BY <1>2, <2>2, <3>3
      <4>2. peer'[i - 1] = peer[Len(peer)]
        BY <1>1, <4>1
      <4> QED BY <3>1, <3>3, <4>1, <4>2 DEF IInv, NoByteSkipped
    <3> QED BY <3>2, <3>3
  <2>3. CASE i > Len(peer) + 1
    <3>1. i - 1 \in 1..Len(peer') /\ i - 1 > Len(peer) /\ i # 1
      BY <1>1, <1>2, <2>3
    <3> DEFINE k == i - Len(peer)
    <3>2. k \in 1..n /\ k - 1 \in 1..n /\ i = Len(peer) + k /\ i - 1 = Len(peer) + (k - 1)
      BY <1>1, <1>2, <2>3
    <3>3. peer'[i] = ByteAt + k - 1 /\ peer'[i - 1] = ByteAt + (k - 1) - 1
      BY <1>1, <3>2
    <3> HIDE DEF k
    <3>4. k \in Int
      BY <3>2
    <3> QED BY <1>3, <3>1, <3>3, <3>4
  <2>4. i \in 1..Len(peer) \/ i = Len(peer) + 1 \/ i > Len(peer) + 1
    <3>1. i \in 1..(Len(peer) + n)
      BY <1>1
    <3>2. i \in Int /\ i >= 1
      BY <1>2, <3>1
    <3> QED BY <1>2, <3>2
  <2> QED BY <2>1, <2>2, <2>3, <2>4
<1>8. NoByteSkipped'
  <2>1. n \in 1..n /\ peer'[Len(peer')] = ByteAt + n - 1
    BY <1>1, <1>2
  <2>2. peer' # << >>
    BY <1>1, <1>2
  <2>3. ByteAt' <= 1 + peer'[Len(peer')]
    BY <1>3, <1>2, <2>1
  <2> QED BY <1>7, <2>2, <2>3 DEF NoByteSkipped
<1>9. ASSUME NEW b \in 1..(ByteAt' - 1) PROVE \E i \in 1..Len(peer') : peer'[i] = b
  <2>1. CASE b < ByteAt
    <3>1. b \in 1..(ByteAt - 1)
      BY <1>3, <2>1
    <3>2. PICK i \in 1..Len(peer) : peer[i] = b
      BY <3>1 DEF IInv, Progress
    <3>3. i \in 1..Len(peer') /\ peer'[i] = b
      BY <1>1, <1>2, <3>2
    <3> QED BY <3>3
  <2>2. CASE b >= ByteAt
    <3> DEFINE k == b - ByteAt + 1
    <3>1. k \in 1..n /\ ByteAt + k - 1 = b
      BY <1>2, <1>3, <2>2
    <3>2. peer'[Len(peer) + k] = b
      BY <1>1, <3>1
    <3>3. Len(peer) + k \in 1..Len(peer')
      BY <1>1, <1>2, <3>1
    <3> QED BY <3>2, <3>3
  <2> QED BY <1>2, <1>3, <2>1, <2>2
<1>10. ASSUME NEW i \in 1..Len(peer') PROVE peer'[i] <= len
  <2>1. CASE i \in 1..Len(peer) /\ peer'[i] = peer[i]
    BY <2>1 DEF IInv, Progress
  <2>2. CASE i - Len(peer) \in 1..n /\ peer'[i] = ByteAt + (i - Len(peer)) - 1
    BY <1>2, <1>3, <2>2
  <2> QED BY <1>5, <2>1, <2>2
<1>11. Progress'
  <2>1. Len(peer') = (len - to_write') + blocked'
    BY <1>1, <1>2, <1>4 DEF IInv, Progress
  <2> QED BY <1>4, <1>9, <1>10, <2>1 DEF Progress
<1>12. ASSUME NEW i \in 1..Len(peer') PROVE i - blocked <= peer'[i] /\ peer'[i] <= i
  <2>1. CASE i \in 1..Len(peer) /\ peer'[i] = peer[i]
    BY <2>1 DEF IInv, FallsBehindByBlocked
  <2>2. CASE i - Len(peer) \in 1..n /\ peer'[i] = ByteAt + (i - Len(peer)) - 1
    <3>1. i \in Int /\ peer'[i] = i - blocked
      BY <1>2, <1>3, <2>2 DEF IInv, Progress
    <3> QED BY <1>2, <3>1
  <2> QED BY <1>5, <2>1, <2>2
<1> QED BY <1>4, <1>6, <1>8, <1>11, <1>12 DEF IInv, FallsBehindByBlocked

LEMMA WouldBlockKeeps == ASSUME IInv, WouldBlock PROVE IInv'
<1>1. /\ to_write \in Nat /\ len \in Nat /\ blocked \in Nat /\ MaxBlocked \in Nat
      /\ to_write' = to_write + 1 /\ blocked' = blocked + 1 /\ blocked < MaxBlocked
      /\ result = "none" /\ result' = result /\ peer' = peer /\ peer \in Seq(Int)
      /\ Len(peer) = (len - to_write) + blocked
  BY SocketSendAssumption DEF IInv, TypeOK, Progress, WouldBlock, Sending
<1>2. ByteAt' = ByteAt - 1 /\ ByteAt \in Int
  BY <1>1 DEF ByteAt
<1>3. TypeOK'
  BY <1>1 DEF TypeOK
<1>4. NoByteSkipped'
  <2>1. peer # << >> => peer[Len(peer)] \in Int
    BY <1>1
  <2> QED BY <1>1, <1>2, <2>1 DEF IInv, NoByteSkipped
<1>5. Progress'
  BY <1>1, <1>2 DEF IInv, Progress
<1>6. FallsBehindByBlocked'
  <2>1. \A i \in 1..Len(peer) : peer[i] \in Int
    BY <1>1
  <2> QED BY <1>1, <2>1 DEF IInv, FallsBehindByBlocked
<1> QED BY <1>3, <1>4, <1>5, <1>6 DEF IInv

\* Every step keeps the invariant.
LEMMA IInvStep == IInv /\ [Next]_vars => IInv'
<1> SUFFICES ASSUME IInv, [Next]_vars PROVE IInv'
  OBVIOUS
<1>1. CASE \E n \in 1..to_write : Written(n)
  BY <1>1, WrittenKeeps
<1>2. CASE WouldBlock
  BY <1>2, WouldBlockKeeps
<1>3. CASE Error
  BY <1>3
  DEF Error, IInv, TypeOK, NoByteSkipped, Progress, FallsBehindByBlocked, ByteAt
<1>4. CASE Return
  <2>1. to_write' = 0 /\ UNCHANGED <<to_write, peer, blocked>> /\ result' = "len"
    BY <1>4, SocketSendAssumption DEF Return, IInv, TypeOK
  <2>2. TypeOK' /\ NoByteSkipped' /\ FallsBehindByBlocked'
    BY <2>1 DEF IInv, TypeOK, NoByteSkipped, FallsBehindByBlocked, ByteAt
  <2>3. Progress'
    BY <2>1 DEF IInv, Progress, ByteAt
  <2> QED BY <2>2, <2>3 DEF IInv
<1>5. CASE UNCHANGED vars
  BY <1>5
  DEF vars, IInv, TypeOK, NoByteSkipped, Progress, FallsBehindByBlocked, ByteAt
<1> QED BY <1>1, <1>2, <1>3, <1>4, <1>5 DEF Next

LEMMA IInvCorrect == Spec => []IInv
  BY IInvInit, IInvStep, PTL DEF Spec

\* The counters stay in their ranges: the position goes back once for each full send buffer.
THEOREM TypeCorrect == Spec => []TypeOK
<1>1. IInv => TypeOK
  BY DEF IInv
<1> QED BY <1>1, IInvCorrect, PTL

\* However send divides the data and however often its buffer is full, no byte is passed over.
THEOREM NoByteSkippedCorrect == Spec => []NoByteSkipped
<1>1. IInv => NoByteSkipped
  BY DEF IInv
<1> QED BY <1>1, IInvCorrect, PTL

\* When socket_send returns len, every byte was sent and the last one came last; the peer
\* got as many bytes too many as there were full buffers.
THEOREM SuccessSendsAllCorrect == Spec => []SuccessSendsAll
<1>1. IInv => SuccessSendsAll
  <2> SUFFICES ASSUME IInv, result = "len" PROVE SuccessSendsAll
    BY DEF SuccessSendsAll
  <2>1. /\ len \in Nat /\ len > 0 /\ to_write = 0 /\ ByteAt = len + 1
        /\ peer \in Seq(Int) /\ Len(peer) \in Nat
    BY SocketSendAssumption DEF IInv, TypeOK, Progress, ByteAt
  <2>2. \A b \in 1..len : \E i \in 1..Len(peer) : peer[i] = b
    BY <2>1 DEF IInv, Progress
  <2>3. peer # << >> /\ Len(peer) \in 1..Len(peer)
    <3>1. PICK i \in 1..Len(peer) : peer[i] = len
      BY <2>1, <2>2
    <3> QED BY <2>1, <3>1
  <2>4. peer[Len(peer)] \in Int /\ peer[Len(peer)] >= len /\ peer[Len(peer)] <= len
    BY <2>1, <2>3 DEF IInv, NoByteSkipped, Progress
  <2>5. Len(peer) = len + blocked
    BY <2>1 DEF IInv, TypeOK, Progress
  <2> QED BY <2>1, <2>2, <2>4, <2>5 DEF SuccessSendsAll
<1> QED BY <1>1, IInvCorrect, PTL

\* A peer is sent the data up to some byte and nothing else, as long as its send buffer was
\* never full.
PrefixUnlessFull == blocked = 0 => SendsThePrefix

\* What run send_prefix refutes holds but for the full send buffers, so these are its only
\* cause; and with them no byte is further from its place than there were.
THEOREM PrefixUnlessFullCorrect == Spec => [](PrefixUnlessFull /\ FallsBehindByBlocked)
<1>1. IInv => PrefixUnlessFull
  <2> SUFFICES ASSUME IInv, blocked = 0 PROVE IsPrefix(peer, Bytes(1, len))
    BY DEF PrefixUnlessFull, SendsThePrefix
  <2>1. /\ peer \in Seq(Int) /\ Len(peer) \in Nat /\ len \in Nat /\ to_write \in Nat
        /\ Len(peer) = len - to_write
    BY SocketSendAssumption DEF IInv, TypeOK, Progress
  <2> DEFINE data == Bytes(1, len)
  <2>2. data \in Seq(Int) /\ Len(data) = len /\ \A k \in 1..len : data[k] = k
    <3>1. 1 \in Int /\ len \in Nat
      BY <2>1
    <3>2. /\ data \in Seq(Int) /\ Len(data) = len
          /\ \A k \in 1..len : data[k] = 1 + k - 1
      BY <3>1, BytesAre
    <3> HIDE DEF data
    <3> QED BY <3>2
  <2>3. \A i \in 1..Len(peer) : peer[i] = data[i]
    <3>1. \A i \in 1..Len(peer) : i \in 1..len /\ peer[i] \in Int
      BY <2>1
    <3> QED BY <2>2, <3>1 DEF IInv, FallsBehindByBlocked
  <2> HIDE DEF data
  <2>4. Len(peer) <= Len(data) /\ SubSeq(peer, 1, Len(peer)) = SubSeq(data, 1, Len(peer))
    BY <2>1, <2>2, <2>3
  <2> QED BY <2>4 DEF IsPrefix, data
<1>2. IInv => FallsBehindByBlocked
  BY DEF IInv
<1> QED BY <1>1, <1>2, IInvCorrect, PTL

=============================================================================
