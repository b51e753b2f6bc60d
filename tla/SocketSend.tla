----------------------------- MODULE SocketSend -----------------------------
(***************************************************************************)
(* socket_send of src/builtin_sse_server/sse_server.c, byte by byte.  The  *)
(* bytes of `data' are numbered from 1, so data + (len - to_write) points  *)
(* to byte len - to_write + 1; the peer is sent a sequence of byte numbers. *)
(***************************************************************************)
EXTENDS Integers, Sequences, SequencesExt

CONSTANTS
  len,        \* length of data
  MaxBlocked  \* bound on the calls that find the send buffer full

ASSUME SocketSendAssumption == len \in Nat \ {0} /\ MaxBlocked \in Nat

VARIABLES
  to_write,
  result,  \* "none" while the function runs, then "len" or "-1"
  peer,    \* what was sent so far
  blocked

vars == <<to_write, result, peer, blocked>>

Init == to_write = len /\ result = "none" /\ peer = << >> /\ blocked = 0

ByteAt == len - to_write + 1

Sending == result = "none" /\ to_write > 0

\* The numbers of n bytes from the i-th on.
Bytes(i, n) == [k \in 1..n |-> i + k - 1]

\* mutant: one byte too many is counted
NextSkips(n) == to_write - n - 1

NextToWrite(n) == to_write - n

\* send takes in the first n bytes, or all.
Written(n) ==
  /\ Sending
  /\ peer' = peer \o Bytes(ByteAt, n)
  /\ to_write' = NextToWrite(n)
  /\ UNCHANGED <<result, blocked>>

\* send returns -1 with EAGAIN, EWOULDBLOCK or EINPROGRESS: the test for errors lets it
\* through, and -1 is subtracted like a count.
WouldBlock ==
  /\ Sending /\ blocked < MaxBlocked
  /\ to_write' = to_write - (-1)
  /\ blocked' = blocked + 1
  /\ UNCHANGED <<result, peer>>

\* send fails otherwise.
Error ==
  /\ Sending
  /\ result' = "-1"
  /\ UNCHANGED <<to_write, peer, blocked>>

ReturnEarly ==   \* mutant: the loop ends with one byte to write
  /\ result = "none" /\ to_write <= 1
  /\ result' = "len"
  /\ UNCHANGED <<to_write, peer, blocked>>

Return ==
  /\ result = "none" /\ to_write <= 0
  /\ result' = "len"
  /\ UNCHANGED <<to_write, peer, blocked>>

Next == (\E n \in 1..to_write : Written(n)) \/ WouldBlock \/ Error \/ Return

Spec == Init /\ [][Next]_vars

-----------------------------------------------------------------------------
TypeOK ==
  /\ to_write \in 0..(len + MaxBlocked)
  /\ result \in {"none", "len", "-1"}
  /\ peer \in Seq(Int)
  /\ blocked \in 0..MaxBlocked

\* Bytes may be sent again after a full send buffer, but none is passed over: each byte
\* sent is at most one ahead of the one before it, and sending goes on where it stopped or
\* earlier.
NoByteSkipped ==
  /\ \A i \in 1..Len(peer) : peer[i] <= 1 + (IF i = 1 THEN 0 ELSE peer[i - 1])
  /\ ByteAt <= 1 + (IF peer = << >> THEN 0 ELSE peer[Len(peer)])

\* When the function returns len, the last byte sent is the last byte of the data, every
\* byte was sent, and one more than there are for each full send buffer.
SuccessSendsAll ==
  result = "len" =>
    /\ peer[Len(peer)] = len /\ Len(peer) = len + blocked
    /\ \A b \in 1..len : \E i \in 1..Len(peer) : peer[i] = b

\* What the peer receives is the data up to some byte and nothing else.
SendsThePrefix == IsPrefix(peer, Bytes(1, len))

=============================================================================
