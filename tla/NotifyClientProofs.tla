------------------------- MODULE NotifyClientProofs -------------------------
(***************************************************************************)
(* Proofs about NotifyClient, for any number of calls of init, sockets and *)
(* lines, for each of the four files and every build.                      *)
(***************************************************************************)
EXTENDS NotifyClient, TLAPS

\* Before the notification, and after it.
SettingUp == {"starting", "setup", "connect", "clear", "wait", "stop", "give"}
InLoop == Serving \cup {"close"}

\* init and its buffer; a task exists only once its init has created it.
InitInv ==
  /\ caller # "idle" => handle = calls /\ calls # 0 /\ lines = <<>>
  /\ handle # 0 /\ caller # "forgetting" => handle \in exists
  /\ \A n \in Tasks : n > calls \/ (caller = "created" /\ n = calls) => pc[n] = "none"

\* A socket belongs to a task that has made it and not closed it.
SocketInv ==
  \A n \in sock : pc[n] \in {"connect", "give", "refused"} \cup InLoop

\* Who has a client, what its events tell, and that the bit is never set without one.
ClientInv ==
  /\ kind # "mqtt" => ~bit
  /\ \A n \in Tasks :
       /\ pc[n] = "connect" => kind = "tcp"
       /\ client[n] # "off" =>
            kind = "mqtt" /\ pc[n] \in {"clear", "wait", "stop", "give"} \cup InLoop
       /\ event[n] = "up" => client[n] = "connected"
       /\ event[n] = "down" => client[n] = "started"

\* Without an overrun only the last task is alive, and until it gives its notification init
\* has not kept the buffer.
SetupInv ==
  ~overrun =>
    /\ \A n \in Tasks : Alive(n) => n = calls
    /\ \A n \in Tasks : pc[n] \in SettingUp => ~given /\ (caller = "idle" => handle = 0)

\* In its loop it reads from the handle, and init has seen its notification or will.
LoopInv ==
  ~overrun =>
    /\ \A n \in Tasks : pc[n] \in InLoop =>
         handle = calls /\ (caller = "idle" \/ (caller = "waiting" /\ given))
    /\ \A n \in Tasks : pc[n] = "blocked" => from[n] = handle
    /\ \A n \in Tasks : pc[n] = "close" => lines # <<>> /\ TooLong(Head(lines))
    /\ given => caller = "waiting" /\ pc[calls] \in {"receive", "blocked"}

\* The bit is the broker's from the moment the task has waited for it, but for an event.
BitInv ==
  ~overrun =>
    \A n \in Tasks : event[n] = "none" =>
      /\ pc[n] \in {"clear", "wait"} => (bit => client[n] = "connected")
      /\ pc[n] \in {"give"} \cup InLoop => (bit <=> client[n] = "connected")

IInv ==
  /\ TypeOK /\ InitInv /\ SocketInv /\ ClientInv
  /\ SetupInv /\ LoopInv /\ BitInv /\ KeptBufferHasReader

USE NotifyClientAssumption
USE DEF Tasks, build, cvars, tvars, mvars, Serving, InLoop, SettingUp, Goto, Alive, TooLong

Fresh ==
  /\ kind \in {"udp", "tcp", "http", "mqtt"} /\ ring \in BOOLEAN /\ asserts \in BOOLEAN
  /\ caller = "idle" /\ calls = 0 /\ handle = 0 /\ exists = {} /\ lines = <<>>
  /\ given = FALSE /\ overrun = FALSE
  /\ pc = [n \in Tasks |-> "none"] /\ from = [n \in Tasks |-> 0] /\ sock = {}
  /\ client = [n \in Tasks |-> "off"] /\ event = [n \in Tasks |-> "none"] /\ bit = FALSE

LEMMA FreshInv == Fresh => IInv
<1> SUFFICES ASSUME Fresh PROVE IInv
  OBVIOUS
<1>1. /\ \A n \in Tasks : pc[n] = "none" /\ client[n] = "off" /\ event[n] = "none"
      /\ sock = {} /\ ~bit /\ ~given /\ caller = "idle" /\ handle = 0 /\ calls = 0
  BY DEF Fresh
<1>2. InitInv /\ SocketInv /\ ClientInv
  BY <1>1 DEF InitInv, SocketInv, ClientInv
<1>3. SetupInv /\ LoopInv /\ BitInv /\ KeptBufferHasReader
  BY <1>1 DEF SetupInv, LoopInv, BitInv, KeptBufferHasReader
<1>4. given \in BOOLEAN /\ overrun \in BOOLEAN /\ bit \in BOOLEAN
  BY DEF Fresh
<1>5. TypeOK
  BY <1>4 DEF Fresh, TypeOK
<1> QED BY <1>2, <1>3, <1>5 DEF IInv

LEMMA InitHolds == Init => IInv
  BY FreshInv DEF Init, Fresh

LEMMA RebootInv == IInv /\ Reboot => IInv'
<1>1. IInv /\ Reboot => Fresh'
  BY DEF IInv, TypeOK, Reboot, Fresh
<1> QED BY <1>1, FreshInv, PTL

\* What is appended does not change the head.
LEMMA HeadStays ==
  ASSUME NEW S, NEW q \in Seq(S), NEW e \in S, q # <<>>
  PROVE  Append(q, e) # <<>> /\ Head(Append(q, e)) = Head(q)
  OBVIOUS

LEMMA StepInv == IInv /\ [Next]_vars => IInv'
<1> SUFFICES ASSUME IInv, [Next]_vars PROVE IInv'
  OBVIOUS
<1>0. /\ TypeOK /\ InitInv /\ SocketInv /\ ClientInv
      /\ SetupInv /\ LoopInv /\ BitInv /\ KeptBufferHasReader
  BY DEF IInv
<1>1. CASE CallInit
  <2>1. TypeOK'
    BY <1>0, <1>1 DEF CallInit, TypeOK
  <2>2. InitInv'
    BY <1>0, <1>1 DEF CallInit, TypeOK, InitInv, SetupInv
  <2>3. SocketInv'
    BY <1>0, <1>1 DEF CallInit, TypeOK, InitInv, SocketInv
  <2>4. ClientInv'
    BY <1>0, <1>1 DEF CallInit, TypeOK, InitInv, ClientInv
  <2>5. SetupInv' /\ LoopInv' /\ BitInv'
    <3> SUFFICES ASSUME ~overrun' PROVE SetupInv' /\ LoopInv' /\ BitInv'
      BY DEF SetupInv, LoopInv, BitInv
    <3>1. ~overrun /\ Late = {} /\ caller = "idle" /\ handle = 0 /\ pc' = pc /\ given' = given
      BY <1>1 DEF CallInit
    <3>2. ASSUME NEW n \in Tasks, Alive(n) PROVE FALSE
      <4>1. n # handle /\ n \in Late
        BY <3>1, <3>2 DEF Late
      <4> QED BY <3>1, <4>1
    <3>3. ~given
      BY <1>0, <3>1 DEF LoopInv
    <3> QED BY <3>1, <3>2, <3>3 DEF SetupInv, LoopInv, BitInv
  <2>6. KeptBufferHasReader'
    BY <1>0, <1>1 DEF CallInit, TypeOK, InitInv, SetupInv, LoopInv, KeptBufferHasReader
  <2> QED BY <2>1, <2>2, <2>3, <2>4, <2>5, <2>6 DEF IInv
<1>2. CASE InitAborts
  BY <1>2, RebootInv DEF InitAborts
<1>3. CASE CreateTask
  <2>1. TypeOK'
    BY <1>0, <1>3 DEF CreateTask, TypeOK
  <2>2. InitInv'
    BY <1>0, <1>3 DEF CreateTask, TypeOK, InitInv, SetupInv
  <2>3. SocketInv'
    BY <1>0, <1>3 DEF CreateTask, TypeOK, InitInv, SocketInv
  <2>4. ClientInv'
    BY <1>0, <1>3 DEF CreateTask, TypeOK, InitInv, ClientInv
  <2>5. SetupInv'
    BY <1>0, <1>3 DEF CreateTask, TypeOK, InitInv, SetupInv, LoopInv
  <2>6. LoopInv'
    BY <1>0, <1>3 DEF CreateTask, TypeOK, InitInv, SetupInv, LoopInv
  <2>7. BitInv'
    BY <1>0, <1>3 DEF CreateTask, TypeOK, InitInv, ClientInv, SetupInv, BitInv
  <2>8. KeptBufferHasReader'
    BY <1>0, <1>3 DEF CreateTask, TypeOK, InitInv, SetupInv, LoopInv, KeptBufferHasReader
  <2> QED BY <2>1, <2>2, <2>3, <2>4, <2>5, <2>6, <2>7, <2>8 DEF IInv
<1>4. CASE Notified
  BY <1>0, <1>4
     DEF Notified, IInv, TypeOK, InitInv, SocketInv, ClientInv, SetupInv, LoopInv, BitInv,
          KeptBufferHasReader
<1>5. CASE Timeout
  BY <1>0, <1>5
     DEF Timeout, IInv, TypeOK, InitInv, SocketInv, ClientInv, SetupInv, LoopInv, BitInv,
          KeptBufferHasReader
<1>6. CASE DeleteBuffer
  BY <1>0, <1>6
     DEF DeleteBuffer, IInv, TypeOK, InitInv, SocketInv, ClientInv, SetupInv, LoopInv, BitInv,
          KeptBufferHasReader
<1>7. CASE Forget
  BY <1>0, <1>7
     DEF Forget, IInv, TypeOK, InitInv, SocketInv, ClientInv, SetupInv, LoopInv, BitInv,
          KeptBufferHasReader
<1>8. CASE Log
  <2>1. TypeOK'
    BY <1>0, <1>8 DEF Log, TypeOK
  <2>2. InitInv'
    BY <1>0, <1>8 DEF Log, TypeOK, InitInv, SetupInv
  <2>3. SocketInv'
    BY <1>0, <1>8 DEF Log, TypeOK, InitInv, SocketInv
  <2>4. ClientInv'
    BY <1>0, <1>8 DEF Log, TypeOK, InitInv, ClientInv
  <2>5. SetupInv'
    BY <1>0, <1>8 DEF Log, TypeOK, InitInv, SetupInv, LoopInv
  <2>6. LoopInv'
    <3>1. PICK m \in {"short", "long"} : lines' = Append(lines, m)
      BY <1>8 DEF Log
    <3>2. lines \in Seq({"short", "long"})
      BY <1>0 DEF TypeOK
    <3>3. lines # <<>> => lines' # <<>> /\ Head(lines') = Head(lines)
      BY <3>1, <3>2, HeadStays
    <3> QED BY <1>0, <1>8, <3>3 DEF Log, LoopInv
  <2>7. BitInv'
    BY <1>0, <1>8 DEF Log, TypeOK, InitInv, ClientInv, SetupInv, BitInv
  <2>8. KeptBufferHasReader'
    <3>1. PICK m \in {"short", "long"} : lines' = Append(lines, m)
      BY <1>8 DEF Log
    <3>2. lines \in Seq({"short", "long"})
      BY <1>0 DEF TypeOK
    <3>3. lines # <<>> => lines' # <<>> /\ Head(lines') = Head(lines)
      BY <3>1, <3>2, HeadStays
    <3> QED BY <1>0, <1>8, <3>3 DEF Log, KeptBufferHasReader
  <2> QED BY <2>1, <2>2, <2>3, <2>4, <2>5, <2>6, <2>7, <2>8 DEF IInv
<1>9. ASSUME NEW n \in Tasks, Start(n) PROVE IInv'
  <2>1. TypeOK'
    BY <1>0, <1>9 DEF Start, FrameLives, TypeOK
  <2>2. InitInv'
    BY <1>0, <1>9 DEF Start, FrameLives, TypeOK, InitInv, SetupInv
  <2>3. SocketInv'
    BY <1>0, <1>9 DEF Start, FrameLives, TypeOK, InitInv, SocketInv
  <2>4. ClientInv'
    BY <1>0, <1>9 DEF Start, FrameLives, TypeOK, InitInv, ClientInv
  <2>5. SetupInv'
    BY <1>0, <1>9 DEF Start, FrameLives, TypeOK, InitInv, SetupInv, LoopInv
  <2>6. LoopInv'
    BY <1>0, <1>9 DEF Start, FrameLives, TypeOK, InitInv, SetupInv, LoopInv
  <2>7. BitInv'
    BY <1>0, <1>9 DEF Start, FrameLives, TypeOK, InitInv, ClientInv, SetupInv, BitInv
  <2>8. KeptBufferHasReader'
    BY <1>0, <1>9 DEF Start, FrameLives, TypeOK, InitInv, SetupInv, LoopInv, KeptBufferHasReader
  <2> QED BY <2>1, <2>2, <2>3, <2>4, <2>5, <2>6, <2>7, <2>8 DEF IInv
<1>10. ASSUME NEW n \in Tasks, UdpSetup(n) PROVE IInv'
  <2>1. TypeOK'
    BY <1>0, <1>10 DEF UdpSetup, TypeOK
  <2>2. InitInv'
    BY <1>0, <1>10 DEF UdpSetup, TypeOK, InitInv, SetupInv
  <2>3. SocketInv'
    <3>1. sock' \subseteq sock \cup {n} /\ pc' = [pc EXCEPT ![n] = "give"]
      BY <1>10 DEF UdpSetup
    <3> QED BY <1>0, <3>1 DEF TypeOK, SocketInv
  <2>4. ClientInv'
    BY <1>0, <1>10 DEF UdpSetup, TypeOK, InitInv, ClientInv
  <2>5. SetupInv'
    BY <1>0, <1>10 DEF UdpSetup, TypeOK, InitInv, SetupInv, LoopInv
  <2>6. LoopInv'
    BY <1>0, <1>10 DEF UdpSetup, TypeOK, InitInv, SetupInv, LoopInv
  <2>7. BitInv'
    BY <1>0, <1>10 DEF UdpSetup, TypeOK, InitInv, ClientInv, SetupInv, BitInv
  <2>8. KeptBufferHasReader'
    BY <1>0, <1>10 DEF UdpSetup, TypeOK, InitInv, SetupInv, LoopInv, KeptBufferHasReader
  <2> QED BY <2>1, <2>2, <2>3, <2>4, <2>5, <2>6, <2>7, <2>8 DEF IInv
<1>11. ASSUME NEW n \in Tasks, TcpSocket(n) PROVE IInv'
  <2>1. TypeOK'
    BY <1>0, <1>11 DEF TcpSocket, TypeOK
  <2>2. InitInv'
    BY <1>0, <1>11 DEF TcpSocket, TypeOK, InitInv, SetupInv
  <2>3. SocketInv'
    BY <1>0, <1>11 DEF TcpSocket, TypeOK, InitInv, SocketInv
  <2>4. ClientInv'
    BY <1>0, <1>11 DEF TcpSocket, TypeOK, InitInv, ClientInv
  <2>5. SetupInv'
    BY <1>0, <1>11 DEF TcpSocket, TypeOK, InitInv, SetupInv, LoopInv
  <2>6. LoopInv'
    BY <1>0, <1>11 DEF TcpSocket, TypeOK, InitInv, SetupInv, LoopInv
  <2>7. BitInv'
    BY <1>0, <1>11 DEF TcpSocket, TypeOK, InitInv, ClientInv, SetupInv, BitInv
  <2>8. KeptBufferHasReader'
    BY <1>0, <1>11 DEF TcpSocket, TypeOK, InitInv, SetupInv, LoopInv, KeptBufferHasReader
  <2> QED BY <2>1, <2>2, <2>3, <2>4, <2>5, <2>6, <2>7, <2>8 DEF IInv
<1>12. ASSUME NEW n \in Tasks, TcpConnect(n) PROVE IInv'
  <2>0. PICK to \in {"give", "refused"} : Goto(n, "connect", to)
    BY <1>12 DEF TcpConnect
  <2>1. TypeOK'
    <3>1. pc' \in [Tasks -> {"none", "starting", "setup", "connect", "clear", "wait", "give",
                            "stop", "receive", "blocked", "send", "publish", "close", "ended",
                            "refused"}]
      BY <1>0, <2>0 DEF TypeOK
    <3> QED BY <1>0, <1>12, <3>1 DEF TcpConnect, TypeOK
  <2>2. InitInv'
    BY <1>0, <1>12, <2>0 DEF TcpConnect, TypeOK, InitInv, SetupInv
  <2>3. SocketInv'
    BY <1>0, <1>12, <2>0 DEF TcpConnect, TypeOK, InitInv, SocketInv
  <2>4. ClientInv'
    BY <1>0, <1>12, <2>0 DEF TcpConnect, TypeOK, InitInv, ClientInv
  <2>5. SetupInv'
    BY <1>0, <1>12, <2>0 DEF TcpConnect, TypeOK, InitInv, SetupInv, LoopInv
  <2>6. LoopInv'
    BY <1>0, <1>12, <2>0 DEF TcpConnect, TypeOK, InitInv, SetupInv, LoopInv
  <2>7. BitInv'
    BY <1>0, <1>12, <2>0 DEF TcpConnect, TypeOK, InitInv, ClientInv, SetupInv, BitInv
  <2>8. KeptBufferHasReader'
    BY <1>0, <1>12, <2>0 DEF TcpConnect, TypeOK, InitInv, SetupInv, LoopInv, KeptBufferHasReader
  <2> QED BY <2>1, <2>2, <2>3, <2>4, <2>5, <2>6, <2>7, <2>8 DEF IInv
<1>13. ASSUME NEW n \in Tasks, HttpSetup(n) PROVE IInv'
  <2>1. TypeOK'
    BY <1>0, <1>13 DEF HttpSetup, TypeOK
  <2>2. InitInv'
    BY <1>0, <1>13 DEF HttpSetup, TypeOK, InitInv, SetupInv
  <2>3. SocketInv'
    BY <1>0, <1>13 DEF HttpSetup, TypeOK, InitInv, SocketInv
  <2>4. ClientInv'
    BY <1>0, <1>13 DEF HttpSetup, TypeOK, InitInv, ClientInv
  <2>5. SetupInv'
    BY <1>0, <1>13 DEF HttpSetup, TypeOK, InitInv, SetupInv, LoopInv
  <2>6. LoopInv'
    BY <1>0, <1>13 DEF HttpSetup, TypeOK, InitInv, SetupInv, LoopInv
  <2>7. BitInv'
    BY <1>0, <1>13 DEF HttpSetup, TypeOK, InitInv, ClientInv, SetupInv, BitInv
  <2>8. KeptBufferHasReader'
    BY <1>0, <1>13 DEF HttpSetup, TypeOK, InitInv, SetupInv, LoopInv, KeptBufferHasReader
  <2> QED BY <2>1, <2>2, <2>3, <2>4, <2>5, <2>6, <2>7, <2>8 DEF IInv
<1>14. ASSUME NEW n \in Tasks, SetupFails(n) PROVE IInv'
  <2>1. TypeOK'
    BY <1>0, <1>14 DEF SetupFails, TypeOK
  <2>2. InitInv'
    BY <1>0, <1>14 DEF SetupFails, TypeOK, InitInv, SetupInv
  <2>3. SocketInv'
    BY <1>0, <1>14 DEF SetupFails, TypeOK, InitInv, SocketInv
  <2>4. ClientInv'
    BY <1>0, <1>14 DEF SetupFails, TypeOK, InitInv, ClientInv
  <2>5. SetupInv'
    BY <1>0, <1>14 DEF SetupFails, TypeOK, InitInv, SetupInv, LoopInv
  <2>6. LoopInv'
    BY <1>0, <1>14 DEF SetupFails, TypeOK, InitInv, SetupInv, LoopInv
  <2>7. BitInv'
    BY <1>0, <1>14 DEF SetupFails, TypeOK, InitInv, ClientInv, SetupInv, BitInv
  <2>8. KeptBufferHasReader'
    BY <1>0, <1>14 DEF SetupFails, TypeOK, InitInv, SetupInv, LoopInv, KeptBufferHasReader
  <2> QED BY <2>1, <2>2, <2>3, <2>4, <2>5, <2>6, <2>7, <2>8 DEF IInv
<1>15. ASSUME NEW n \in Tasks, MqttStart(n) PROVE IInv'
  <2>1. TypeOK'
    BY <1>0, <1>15 DEF MqttStart, TypeOK
  <2>2. InitInv'
    BY <1>0, <1>15 DEF MqttStart, TypeOK, InitInv, SetupInv
  <2>3. SocketInv'
    BY <1>0, <1>15 DEF MqttStart, TypeOK, InitInv, SocketInv
  <2>4. ClientInv'
    BY <1>0, <1>15 DEF MqttStart, TypeOK, InitInv, ClientInv
  <2>5. SetupInv'
    BY <1>0, <1>15 DEF MqttStart, TypeOK, InitInv, SetupInv, LoopInv
  <2>6. LoopInv'
    BY <1>0, <1>15 DEF MqttStart, TypeOK, InitInv, SetupInv, LoopInv
  <2>7. BitInv'
    <3>1. ~bit' /\ pc' = [pc EXCEPT ![n] = "clear"] /\ pc[n] = "setup" /\ overrun' = overrun
      BY <1>15 DEF MqttStart
    <3>2. ~overrun => \A k \in Tasks \ {n} : ~Alive(k)
      BY <1>0, <3>1 DEF SetupInv
    <3>3. pc \in [Tasks -> {"none", "starting", "setup", "connect", "clear", "wait", "give",
                           "stop", "receive", "blocked", "send", "publish", "close", "ended",
                           "refused"}]
      BY <1>0 DEF TypeOK
    <3> QED BY <3>1, <3>2, <3>3 DEF BitInv
  <2>8. KeptBufferHasReader'
    BY <1>0, <1>15 DEF MqttStart, TypeOK, InitInv, SetupInv, LoopInv, KeptBufferHasReader
  <2> QED BY <2>1, <2>2, <2>3, <2>4, <2>5, <2>6, <2>7, <2>8 DEF IInv
<1>16. ASSUME NEW n \in Tasks, MqttClear(n) PROVE IInv'
  <2>1. TypeOK'
    BY <1>0, <1>16 DEF MqttClear, TypeOK
  <2>2. InitInv'
    BY <1>0, <1>16 DEF MqttClear, TypeOK, InitInv, SetupInv
  <2>3. SocketInv'
    BY <1>0, <1>16 DEF MqttClear, TypeOK, InitInv, SocketInv
  <2>4. ClientInv'
    BY <1>0, <1>16 DEF MqttClear, TypeOK, InitInv, ClientInv
  <2>5. SetupInv'
    BY <1>0, <1>16 DEF MqttClear, TypeOK, InitInv, SetupInv, LoopInv
  <2>6. LoopInv'
    BY <1>0, <1>16 DEF MqttClear, TypeOK, InitInv, SetupInv, LoopInv
  <2>7. BitInv'
    <3>1. ~bit' /\ pc' = [pc EXCEPT ![n] = "wait"] /\ pc[n] = "clear" /\ overrun' = overrun
      BY <1>16 DEF MqttClear
    <3>2. ~overrun => \A k \in Tasks \ {n} : ~Alive(k)
      BY <1>0, <3>1 DEF SetupInv
    <3>3. pc \in [Tasks -> {"none", "starting", "setup", "connect", "clear", "wait", "give",
                           "stop", "receive", "blocked", "send", "publish", "close", "ended",
                           "refused"}]
      BY <1>0 DEF TypeOK
    <3> QED BY <3>1, <3>2, <3>3 DEF BitInv
  <2>8. KeptBufferHasReader'
    BY <1>0, <1>16 DEF MqttClear, TypeOK, InitInv, SetupInv, LoopInv, KeptBufferHasReader
  <2> QED BY <2>1, <2>2, <2>3, <2>4, <2>5, <2>6, <2>7, <2>8 DEF IInv
<1>17. ASSUME NEW n \in Tasks, MqttConnected(n) PROVE IInv'
  <2>1. TypeOK'
    BY <1>0, <1>17 DEF MqttConnected, TypeOK
  <2>2. InitInv'
    BY <1>0, <1>17 DEF MqttConnected, TypeOK, InitInv, SetupInv
  <2>3. SocketInv'
    BY <1>0, <1>17 DEF MqttConnected, TypeOK, InitInv, SocketInv
  <2>4. ClientInv'
    BY <1>0, <1>17 DEF MqttConnected, TypeOK, InitInv, ClientInv
  <2>5. SetupInv'
    BY <1>0, <1>17 DEF MqttConnected, TypeOK, InitInv, SetupInv, LoopInv
  <2>6. LoopInv'
    BY <1>0, <1>17 DEF MqttConnected, TypeOK, InitInv, SetupInv, LoopInv
  <2>7. BitInv'
    BY <1>0, <1>17 DEF MqttConnected, TypeOK, InitInv, ClientInv, SetupInv, BitInv
  <2>8. KeptBufferHasReader'
    BY <1>0, <1>17 DEF MqttConnected, TypeOK, InitInv, SetupInv, LoopInv, KeptBufferHasReader
  <2> QED BY <2>1, <2>2, <2>3, <2>4, <2>5, <2>6, <2>7, <2>8 DEF IInv
<1>18. ASSUME NEW n \in Tasks, MqttGivesUp(n) PROVE IInv'
  <2>1. TypeOK'
    BY <1>0, <1>18 DEF MqttGivesUp, TypeOK
  <2>2. InitInv'
    BY <1>0, <1>18 DEF MqttGivesUp, TypeOK, InitInv, SetupInv
  <2>3. SocketInv'
    BY <1>0, <1>18 DEF MqttGivesUp, TypeOK, InitInv, SocketInv
  <2>4. ClientInv'
    BY <1>0, <1>18 DEF MqttGivesUp, TypeOK, InitInv, ClientInv
  <2>5. SetupInv'
    BY <1>0, <1>18 DEF MqttGivesUp, TypeOK, InitInv, SetupInv, LoopInv
  <2>6. LoopInv'
    BY <1>0, <1>18 DEF MqttGivesUp, TypeOK, InitInv, SetupInv, LoopInv
  <2>7. BitInv'
    BY <1>0, <1>18 DEF MqttGivesUp, TypeOK, InitInv, ClientInv, SetupInv, BitInv
  <2>8. KeptBufferHasReader'
    BY <1>0, <1>18 DEF MqttGivesUp, TypeOK, InitInv, SetupInv, LoopInv, KeptBufferHasReader
  <2> QED BY <2>1, <2>2, <2>3, <2>4, <2>5, <2>6, <2>7, <2>8 DEF IInv
<1>19. ASSUME NEW n \in Tasks, Give(n) PROVE IInv'
  <2>1. TypeOK'
    BY <1>0, <1>19 DEF Give, TypeOK
  <2>2. InitInv'
    BY <1>0, <1>19 DEF Give, TypeOK, InitInv, SetupInv
  <2>3. SocketInv'
    BY <1>0, <1>19 DEF Give, TypeOK, InitInv, SocketInv
  <2>4. ClientInv'
    BY <1>0, <1>19 DEF Give, TypeOK, InitInv, ClientInv
  <2>5. SetupInv'
    BY <1>0, <1>19 DEF Give, TypeOK, InitInv, SetupInv, LoopInv
  <2>6. LoopInv'
    BY <1>0, <1>19 DEF Give, TypeOK, InitInv, SetupInv, LoopInv
  <2>7. BitInv'
    BY <1>0, <1>19 DEF Give, TypeOK, InitInv, ClientInv, SetupInv, BitInv
  <2>8. KeptBufferHasReader'
    BY <1>0, <1>19 DEF Give, TypeOK, InitInv, SetupInv, LoopInv, KeptBufferHasReader
  <2> QED BY <2>1, <2>2, <2>3, <2>4, <2>5, <2>6, <2>7, <2>8 DEF IInv
<1>20. ASSUME NEW n \in Tasks, ReadHandle(n) PROVE IInv'
  <2>1. TypeOK'
    BY <1>0, <1>20 DEF ReadHandle, TypeOK
  <2>2. InitInv'
    BY <1>0, <1>20 DEF ReadHandle, TypeOK, InitInv, SetupInv
  <2>3. SocketInv'
    BY <1>0, <1>20 DEF ReadHandle, TypeOK, InitInv, SocketInv
  <2>4. ClientInv'
    BY <1>0, <1>20 DEF ReadHandle, TypeOK, InitInv, ClientInv
  <2>5. SetupInv'
    BY <1>0, <1>20 DEF ReadHandle, TypeOK, InitInv, SetupInv, LoopInv
  <2>6. LoopInv'
    BY <1>0, <1>20 DEF ReadHandle, TypeOK, InitInv, SetupInv, LoopInv
  <2>7. BitInv'
    BY <1>0, <1>20 DEF ReadHandle, TypeOK, InitInv, ClientInv, SetupInv, BitInv
  <2>8. KeptBufferHasReader'
    BY <1>0, <1>20 DEF ReadHandle, TypeOK, InitInv, SetupInv, LoopInv, KeptBufferHasReader
  <2> QED BY <2>1, <2>2, <2>3, <2>4, <2>5, <2>6, <2>7, <2>8 DEF IInv
<1>21. ASSUME NEW n \in Tasks, Receive(n) PROVE IInv'
  <2>1. TypeOK'
    BY <1>0, <1>21 DEF Receive, Readable, TypeOK
  <2>2. InitInv'
    BY <1>0, <1>21 DEF Receive, Readable, TypeOK, InitInv, SetupInv
  <2>3. SocketInv'
    BY <1>0, <1>21 DEF Receive, Readable, TypeOK, InitInv, SocketInv
  <2>4. ClientInv'
    BY <1>0, <1>21 DEF Receive, Readable, TypeOK, InitInv, ClientInv
  <2>5. SetupInv'
    BY <1>0, <1>21 DEF Receive, Readable, TypeOK, InitInv, SetupInv, LoopInv
  <2>6. LoopInv'
    BY <1>0, <1>21 DEF Receive, Readable, TypeOK, InitInv, SetupInv, LoopInv
  <2>7. BitInv'
    BY <1>0, <1>21 DEF Receive, Readable, TypeOK, InitInv, ClientInv, SetupInv, BitInv
  <2>8. KeptBufferHasReader'
    BY <1>0, <1>21 DEF Receive, Readable, TypeOK, InitInv, SetupInv, LoopInv, KeptBufferHasReader
  <2> QED BY <2>1, <2>2, <2>3, <2>4, <2>5, <2>6, <2>7, <2>8 DEF IInv
<1>22. ASSUME NEW n \in Tasks, ReceiveFails(n) PROVE IInv'
  <2>1. TypeOK'
    BY <1>0, <1>22 DEF ReceiveFails, Readable, TypeOK
  <2>2. InitInv'
    BY <1>0, <1>22 DEF ReceiveFails, Readable, TypeOK, InitInv, SetupInv
  <2>3. SocketInv'
    BY <1>0, <1>22 DEF ReceiveFails, Readable, TypeOK, InitInv, SocketInv
  <2>4. ClientInv'
    BY <1>0, <1>22 DEF ReceiveFails, Readable, TypeOK, InitInv, ClientInv
  <2>5. SetupInv'
    BY <1>0, <1>22 DEF ReceiveFails, Readable, TypeOK, InitInv, SetupInv, LoopInv
  <2>6. LoopInv'
    BY <1>0, <1>22 DEF ReceiveFails, Readable, TypeOK, InitInv, SetupInv, LoopInv
  <2>7. BitInv'
    BY <1>0, <1>22 DEF ReceiveFails, Readable, TypeOK, InitInv, ClientInv, SetupInv, BitInv
  <2>8. KeptBufferHasReader'
    BY <1>0, <1>22 DEF ReceiveFails, Readable, TypeOK, InitInv, SetupInv, LoopInv,
                        KeptBufferHasReader
  <2> QED BY <2>1, <2>2, <2>3, <2>4, <2>5, <2>6, <2>7, <2>8 DEF IInv
<1>23. ASSUME NEW n \in Tasks, Send(n) PROVE IInv'
  <2>1. TypeOK'
    BY <1>0, <1>23 DEF Send, TypeOK
  <2>2. InitInv'
    BY <1>0, <1>23 DEF Send, TypeOK, InitInv, SetupInv
  <2>3. SocketInv'
    BY <1>0, <1>23 DEF Send, TypeOK, InitInv, SocketInv
  <2>4. ClientInv'
    BY <1>0, <1>23 DEF Send, TypeOK, InitInv, ClientInv
  <2>5. SetupInv'
    BY <1>0, <1>23 DEF Send, TypeOK, InitInv, SetupInv, LoopInv
  <2>6. LoopInv'
    BY <1>0, <1>23 DEF Send, TypeOK, InitInv, SetupInv, LoopInv
  <2>7. BitInv'
    BY <1>0, <1>23 DEF Send, TypeOK, InitInv, ClientInv, SetupInv, BitInv
  <2>8. KeptBufferHasReader'
    BY <1>0, <1>23 DEF Send, TypeOK, InitInv, SetupInv, LoopInv, KeptBufferHasReader
  <2> QED BY <2>1, <2>2, <2>3, <2>4, <2>5, <2>6, <2>7, <2>8 DEF IInv
<1>24. ASSUME NEW n \in Tasks, Close(n) PROVE IInv'
  <2>1. TypeOK'
    BY <1>0, <1>24 DEF Close, TypeOK
  <2>2. InitInv'
    BY <1>0, <1>24 DEF Close, TypeOK, InitInv, SetupInv
  <2>3. SocketInv'
    BY <1>0, <1>24 DEF Close, TypeOK, InitInv, SocketInv
  <2>4. ClientInv'
    BY <1>0, <1>24 DEF Close, TypeOK, InitInv, ClientInv
  <2>5. SetupInv'
    BY <1>0, <1>24 DEF Close, TypeOK, InitInv, SetupInv, LoopInv
  <2>6. LoopInv'
    BY <1>0, <1>24 DEF Close, TypeOK, InitInv, SetupInv, LoopInv
  <2>7. BitInv'
    BY <1>0, <1>24 DEF Close, TypeOK, InitInv, ClientInv, SetupInv, BitInv
  <2>8. KeptBufferHasReader'
    BY <1>0, <1>24 DEF Close, TypeOK, InitInv, SetupInv, LoopInv, KeptBufferHasReader
  <2> QED BY <2>1, <2>2, <2>3, <2>4, <2>5, <2>6, <2>7, <2>8 DEF IInv
<1>25. ASSUME NEW n \in Tasks, TaskAborts(n) PROVE IInv'
  BY <1>25, RebootInv DEF TaskAborts
<1>26. ASSUME NEW n \in Tasks, BrokerConnects(n) PROVE IInv'
  <2>1. TypeOK'
    BY <1>0, <1>26 DEF BrokerConnects, TypeOK
  <2>2. InitInv'
    BY <1>0, <1>26 DEF BrokerConnects, TypeOK, InitInv, SetupInv
  <2>3. SocketInv'
    BY <1>0, <1>26 DEF BrokerConnects, TypeOK, InitInv, SocketInv
  <2>4. ClientInv'
    BY <1>0, <1>26 DEF BrokerConnects, TypeOK, InitInv, ClientInv
  <2>5. SetupInv'
    BY <1>0, <1>26 DEF BrokerConnects, TypeOK, InitInv, SetupInv, LoopInv
  <2>6. LoopInv'
    BY <1>0, <1>26 DEF BrokerConnects, TypeOK, InitInv, SetupInv, LoopInv
  <2>7. BitInv'
    BY <1>0, <1>26 DEF BrokerConnects, TypeOK, InitInv, ClientInv, SetupInv, BitInv
  <2>8. KeptBufferHasReader'
    BY <1>0, <1>26 DEF BrokerConnects, TypeOK, InitInv, SetupInv, LoopInv, KeptBufferHasReader
  <2> QED BY <2>1, <2>2, <2>3, <2>4, <2>5, <2>6, <2>7, <2>8 DEF IInv
<1>27. ASSUME NEW n \in Tasks, BrokerLost(n) PROVE IInv'
  <2>1. TypeOK'
    BY <1>0, <1>27 DEF BrokerLost, TypeOK
  <2>2. InitInv'
    BY <1>0, <1>27 DEF BrokerLost, TypeOK, InitInv, SetupInv
  <2>3. SocketInv'
    BY <1>0, <1>27 DEF BrokerLost, TypeOK, InitInv, SocketInv
  <2>4. ClientInv'
    BY <1>0, <1>27 DEF BrokerLost, TypeOK, InitInv, ClientInv
  <2>5. SetupInv'
    BY <1>0, <1>27 DEF BrokerLost, TypeOK, InitInv, SetupInv, LoopInv
  <2>6. LoopInv'
    BY <1>0, <1>27 DEF BrokerLost, TypeOK, InitInv, SetupInv, LoopInv
  <2>7. BitInv'
    BY <1>0, <1>27 DEF BrokerLost, TypeOK, InitInv, ClientInv, SetupInv, BitInv
  <2>8. KeptBufferHasReader'
    BY <1>0, <1>27 DEF BrokerLost, TypeOK, InitInv, SetupInv, LoopInv, KeptBufferHasReader
  <2> QED BY <2>1, <2>2, <2>3, <2>4, <2>5, <2>6, <2>7, <2>8 DEF IInv
<1>28. CASE UNCHANGED vars
  <2>1. TypeOK'
    BY <1>0, <1>28 DEF vars, TypeOK
  <2>2. InitInv'
    BY <1>0, <1>28 DEF vars, InitInv
  <2>3. SocketInv'
    BY <1>0, <1>28 DEF vars, SocketInv
  <2>4. ClientInv'
    BY <1>0, <1>28 DEF vars, ClientInv
  <2>5. SetupInv'
    BY <1>0, <1>28 DEF vars, SetupInv
  <2>6. LoopInv'
    BY <1>0, <1>28 DEF vars, LoopInv
  <2>7. BitInv'
    BY <1>0, <1>28 DEF vars, BitInv
  <2>8. KeptBufferHasReader'
    BY <1>0, <1>28 DEF vars, KeptBufferHasReader
  <2> QED BY <2>1, <2>2, <2>3, <2>4, <2>5, <2>6, <2>7, <2>8 DEF IInv
<1>29. ASSUME NEW n \in Tasks, MqttStop(n) PROVE IInv'
  <2>1. TypeOK'
    BY <1>0, <1>29 DEF MqttStop, TypeOK
  <2>2. InitInv'
    BY <1>0, <1>29 DEF MqttStop, TypeOK, InitInv, SetupInv
  <2>3. SocketInv'
    BY <1>0, <1>29 DEF MqttStop, TypeOK, InitInv, SocketInv
  <2>4. ClientInv'
    BY <1>0, <1>29 DEF MqttStop, TypeOK, InitInv, ClientInv
  <2>5. SetupInv'
    BY <1>0, <1>29 DEF MqttStop, TypeOK, InitInv, SetupInv, LoopInv
  <2>6. LoopInv'
    BY <1>0, <1>29 DEF MqttStop, TypeOK, InitInv, SetupInv, LoopInv
  <2>7. BitInv'
    BY <1>0, <1>29 DEF MqttStop, TypeOK, InitInv, ClientInv, SetupInv, BitInv
  <2>8. KeptBufferHasReader'
    BY <1>0, <1>29 DEF MqttStop, TypeOK, InitInv, SetupInv, LoopInv, KeptBufferHasReader
  <2> QED BY <2>1, <2>2, <2>3, <2>4, <2>5, <2>6, <2>7, <2>8 DEF IInv
<1>30. ASSUME NEW n \in Tasks, CheckBit(n) PROVE IInv'
  <2>1. TypeOK'
    BY <1>0, <1>30 DEF CheckBit, TypeOK
  <2>2. InitInv'
    BY <1>0, <1>30 DEF CheckBit, TypeOK, InitInv, SetupInv
  <2>3. SocketInv'
    BY <1>0, <1>30 DEF CheckBit, TypeOK, InitInv, SocketInv
  <2>4. ClientInv'
    BY <1>0, <1>30 DEF CheckBit, TypeOK, InitInv, ClientInv
  <2>5. SetupInv'
    BY <1>0, <1>30 DEF CheckBit, TypeOK, InitInv, SetupInv, LoopInv
  <2>6. LoopInv'
    BY <1>0, <1>30 DEF CheckBit, TypeOK, InitInv, SetupInv, LoopInv
  <2>7. BitInv'
    BY <1>0, <1>30 DEF CheckBit, TypeOK, InitInv, ClientInv, SetupInv, BitInv
  <2>8. KeptBufferHasReader'
    BY <1>0, <1>30 DEF CheckBit, TypeOK, InitInv, SetupInv, LoopInv, KeptBufferHasReader
  <2> QED BY <2>1, <2>2, <2>3, <2>4, <2>5, <2>6, <2>7, <2>8 DEF IInv
<1>31. ASSUME NEW n \in Tasks, HandleEvent(n) PROVE IInv'
  <2>1. TypeOK'
    BY <1>0, <1>31 DEF HandleEvent, TypeOK
  <2>2. InitInv'
    BY <1>0, <1>31 DEF HandleEvent, TypeOK, InitInv, SetupInv
  <2>3. SocketInv'
    BY <1>0, <1>31 DEF HandleEvent, TypeOK, InitInv, SocketInv
  <2>4. ClientInv'
    BY <1>0, <1>31 DEF HandleEvent, TypeOK, InitInv, ClientInv
  <2>5. SetupInv'
    BY <1>0, <1>31 DEF HandleEvent, TypeOK, InitInv, SetupInv, LoopInv
  <2>6. LoopInv'
    BY <1>0, <1>31 DEF HandleEvent, TypeOK, InitInv, SetupInv, LoopInv
  <2>7. BitInv'
    BY <1>0, <1>31 DEF HandleEvent, TypeOK, InitInv, ClientInv, SetupInv, BitInv
  <2>8. KeptBufferHasReader'
    BY <1>0, <1>31 DEF HandleEvent, TypeOK, InitInv, SetupInv, LoopInv, KeptBufferHasReader
  <2> QED BY <2>1, <2>2, <2>3, <2>4, <2>5, <2>6, <2>7, <2>8 DEF IInv
<1> QED
  BY <1>1, <1>2, <1>3, <1>4, <1>5, <1>6, <1>7, <1>8, <1>9, <1>10, <1>11, <1>12, <1>13,
     <1>14, <1>15, <1>16, <1>17, <1>18, <1>19, <1>20, <1>21, <1>22, <1>23, <1>24, <1>25,
     <1>26, <1>27, <1>28, <1>29, <1>30, <1>31 DEF Next, InitStep, TaskStep

LEMMA IInvCorrect == Spec => []IInv
  BY InitHolds, StepInv, PTL DEF Spec

\* Every variable has its type, overrun or not.
THEOREM TypeCorrect == Spec => []TypeOK
<1>1. IInv => TypeOK
  BY DEF IInv
<1> QED BY <1>1, IInvCorrect, PTL

\* Without an overrun no task reads from a deleted buffer.
THEOREM UsesLiveBufferCorrect == Spec => []UsesLiveBuffer
<1>1. IInv => UsesLiveBuffer
  BY DEF IInv, InitInv, SetupInv, LoopInv, UsesLiveBuffer
<1> QED BY <1>1, IInvCorrect, PTL

\* Without an overrun a buffer that init keeps has its reader, until a line is too long for it.
THEOREM KeptBufferHasReaderCorrect == Spec => []KeptBufferHasReader
<1>1. IInv => KeptBufferHasReader
  BY DEF IInv
<1> QED BY <1>1, IInvCorrect, PTL

\* Only a refused TCP connection leaves a socket behind, overrun or not.
THEOREM SocketsAreHeldCorrect == Spec => []SocketsAreHeld
<1>1. IInv => SocketsAreHeld
  BY DEF IInv, TypeOK, SocketInv, SocketsAreHeld
<1> QED BY <1>1, IInvCorrect, PTL

\* Without an overrun the bit is what the broker is, but for the event under way.
THEOREM BitIsTrueCorrect == Spec => []BitIsTrue
<1>1. IInv => BitIsTrue
  BY DEF IInv, BitInv, BitIsTrue
<1> QED BY <1>1, IInvCorrect, PTL

-----------------------------------------------------------------------------
(* What init does with its buffers. *)

\* The only buffer there is belongs to the handle, until init has deleted it.
NoBufferLost == exists = IF handle # 0 /\ caller # "forgetting" THEN {handle} ELSE {}

LEMMA NoBufferLostStep == TypeOK /\ InitInv /\ NoBufferLost /\ [Next]_vars => NoBufferLost'
<1> SUFFICES ASSUME TypeOK, InitInv, NoBufferLost, [Next]_vars PROVE NoBufferLost'
  OBVIOUS
<1> USE DEF NoBufferLost
<1>1. CASE CallInit
  <2>1. exists = {} /\ handle' = calls + 1 /\ exists' = {} \cup {calls + 1} /\ caller' = "created"
    BY <1>1 DEF CallInit
  <2>2. calls + 1 # 0
    BY DEF TypeOK
  <2> QED BY <2>1, <2>2
<1>2. CASE Reboot
  BY <1>2 DEF Reboot
<1>3. CASE DeleteBuffer
  BY <1>3 DEF DeleteBuffer
<1>4. CASE Forget
  BY <1>4 DEF Forget
<1>5. CASE CreateTask \/ Notified \/ Timeout
  BY <1>5 DEF CreateTask, Notified, Timeout
<1>6. CASE ~(CallInit \/ Reboot \/ InitStep)
  <2>1. UNCHANGED cvars
    BY <1>6
    DEF vars, Next, InitAborts, Log, BrokerConnects, BrokerLost, HandleEvent, TaskStep, Start,
        MqttStop, CheckBit, UdpSetup,
        TcpSocket, TcpConnect, HttpSetup, SetupFails, MqttStart, MqttClear, MqttConnected,
        MqttGivesUp, Give, ReadHandle, Receive, ReceiveFails, Send, Close, TaskAborts
  <2> QED BY <2>1
<1> QED BY <1>1, <1>2, <1>3, <1>4, <1>5, <1>6 DEF InitStep

\* However many calls of init give up, in whatever order their tasks and they go on, no
\* buffer stays behind that nothing refers to, and none is deleted twice.
THEOREM NoBufferLostCorrect == Spec => []NoBufferLost
<1>1. Init => NoBufferLost
  BY DEF Init, NoBufferLost
<1>2. IInv => TypeOK /\ InitInv
  BY DEF IInv
<1> QED BY <1>1, <1>2, NoBufferLostStep, IInvCorrect, PTL DEF Spec

=============================================================================
