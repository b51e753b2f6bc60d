---------------------------- MODULE NotifyClient ----------------------------
(***************************************************************************)
(* The senders that start with a handshake: udp_client.c, tcp_client.c and *)
(* http_client.c of src/builtin_client, and mqtt_pub.c of the examples.    *)
(* Their init creates a buffer and a task and waits a second for the task  *)
(* to notify it; without a notification it deletes the buffer again.       *)
(*                                                                         *)
(* The four files are one program but for what a task does between its     *)
(* start and its notification, and with a line.  Task n is the one that    *)
(* the n-th call of init starts, buffer n the one it creates.  An          *)
(* application that finds the handle NULL after init may call init again;  *)
(* one that does not registers the buffer with net_logging.c.              *)
(***************************************************************************)
EXTENDS Naturals, Sequences, FiniteSets

CONSTANTS
  MaxCalls,  \* bound on the calls of init between two reboots
  Sockets,   \* sockets lwIP has for these senders
  Capacity   \* lines a buffer has room for

ASSUME NotifyClientAssumption ==
  MaxCalls \in Nat \ {0} /\ Sockets \in Nat /\ Capacity \in Nat \ {0}

VARIABLES
  kind,     \* which of the four files
  ring,     \* CONFIG_NETLOGGING_USE_RINGBUFFER
  asserts,  \* a failing LWIP_ASSERT aborts; the build may leave it out
  caller,   \* the place in init, "idle" outside
  calls,    \* calls of init since the last boot
  handle,   \* the global xMessageBuffer.. or xRingBuffer.., 0 for NULL
  exists,   \* buffers that are not deleted
  lines,    \* lines in buffer `handle'
  given,    \* the caller's notification value is not 0
  overrun,  \* a task was late for its init: see Late
  pc,       \* each task's place
  from,     \* the buffer a task reads
  sock,     \* tasks whose socket is open
  client,   \* each task's MQTT client
  event,    \* its event that mqtt_event_handler has not handled yet
  bit       \* MQTT_CONNECTED_BIT

build == <<kind, ring, asserts>>
cvars == <<caller, calls, handle, exists>>
tvars == <<pc, from, sock>>
mvars == <<client, event, bit>>
vars == <<build, cvars, lines, given, overrun, tvars, mvars>>

Tasks == 1..MaxCalls

Init ==
  /\ kind \in {"udp", "tcp", "http", "mqtt"} /\ ring \in BOOLEAN /\ asserts \in BOOLEAN
  /\ caller = "idle" /\ calls = 0 /\ handle = 0 /\ exists = {} /\ lines = <<>>
  /\ given = FALSE /\ overrun = FALSE
  /\ pc = [n \in Tasks |-> "none"] /\ from = [n \in Tasks |-> 0] /\ sock = {}
  /\ client = [n \in Tasks |-> "off"] /\ event = [n \in Tasks |-> "none"] /\ bit = FALSE

\* abort(), and the application starts anew.
Reboot ==
  /\ caller' = "idle" /\ calls' = 0 /\ handle' = 0 /\ exists' = {} /\ lines' = <<>>
  /\ given' = FALSE /\ overrun' = FALSE
  /\ pc' = [n \in Tasks |-> "none"] /\ from' = [n \in Tasks |-> 0] /\ sock' = {}
  /\ client' = [n \in Tasks |-> "off"] /\ event' = [n \in Tasks |-> "none"] /\ bit' = FALSE
  /\ UNCHANGED build

-----------------------------------------------------------------------------
(* init: xxx_logging_init. *)

Alive(n) == pc[n] \notin {"none", "ended", "refused"}

\* Tasks that are still on their way although their init is over and has deleted the buffer.
\* An overrun: such a task starts, or notifies, or the application calls init again meanwhile.
Late == {n \in Tasks : Alive(n) /\ n # handle}

CallInit ==
  /\ caller = "idle" /\ handle = 0 /\ calls < MaxCalls
  /\ caller' = "created" /\ calls' = calls + 1
  /\ handle' = calls' /\ exists' = exists \cup {calls'} /\ lines' = <<>>
  /\ overrun' = (overrun \/ Late # {})
  /\ UNCHANGED <<build, given, tvars, mvars>>

\* The buffer cannot be created: configASSERT.
InitAborts == caller = "idle" /\ handle = 0 /\ calls < MaxCalls /\ Reboot

\* The result of xTaskCreate is not looked at.
CreateTask ==
  /\ caller = "created"
  /\ caller' = "waiting"
  /\ pc' \in {pc, [pc EXCEPT ![calls] = "starting"]}
  /\ UNCHANGED <<build, calls, handle, exists, lines, given, overrun, from, sock, mvars>>

NotifiedDeletes ==   \* mutant: the test for a timeout is inverted
  /\ caller = "waiting" /\ given
  /\ caller' = "deleting" /\ given' = FALSE
  /\ UNCHANGED <<build, calls, handle, exists, lines, overrun, tvars, mvars>>

\* ulTaskNotifyTake(pdTRUE): the value is cleared.
Notified ==
  /\ caller = "waiting" /\ given
  /\ caller' = "idle" /\ given' = FALSE
  /\ UNCHANGED <<build, calls, handle, exists, lines, overrun, tvars, mvars>>

TimeoutKeeps ==   \* mutant: a timeout is taken for a notification
  /\ caller = "waiting" /\ ~given
  /\ caller' = "idle"
  /\ UNCHANGED <<build, calls, handle, exists, lines, given, overrun, tvars, mvars>>

\* The second is over.  It may end before the task has run at all: it has a low priority, and
\* nothing makes init wait for it.
Timeout ==
  /\ caller = "waiting" /\ ~given
  /\ caller' = "deleting"
  /\ UNCHANGED <<build, calls, handle, exists, lines, given, overrun, tvars, mvars>>

\* The buffer is deleted, then the handle set to NULL.
DeleteBuffer ==
  /\ caller = "deleting"
  /\ caller' = "forgetting" /\ exists' = exists \ {handle}
  /\ UNCHANGED <<build, calls, handle, lines, given, overrun, tvars, mvars>>

Forget ==
  /\ caller = "forgetting"
  /\ caller' = "idle" /\ handle' = 0
  /\ UNCHANGED <<build, calls, exists, lines, given, overrun, tvars, mvars>>

-----------------------------------------------------------------------------
(* The task, up to its notification. *)

Goto(n, a, b) == pc[n] = a /\ pc' = [pc EXCEPT ![n] = b]

\* init has not returned: its stack frame still holds the parameters of task n.
FrameLives(n) == caller # "idle" /\ calls = n

\* The parameters are copied out of the frame, or out of what is left of it: TaskAborts stands
\* for a copy that is of no use.
Start(n) ==
  /\ Goto(n, "starting", "setup")
  /\ overrun' = (overrun \/ ~FrameLives(n))
  /\ UNCHANGED <<build, cvars, lines, given, from, sock, mvars>>

HasSocket == Cardinality(sock) < Sockets

\* A UDP socket; without one the assertion aborts, or the task goes on.
UdpSetup(n) ==
  /\ kind = "udp" /\ Goto(n, "setup", "give")
  /\ \/ HasSocket /\ sock' = sock \cup {n}
     \/ ~asserts /\ sock' = sock
  /\ UNCHANGED <<build, cvars, lines, given, overrun, from, mvars>>

TcpSocket(n) ==
  /\ kind = "tcp" /\ HasSocket /\ Goto(n, "setup", "connect")
  /\ sock' = sock \cup {n}
  /\ UNCHANGED <<build, cvars, lines, given, overrun, from, mvars>>

\* connect; a refused task deletes itself and keeps its socket.
TcpConnect(n) ==
  /\ Goto(n, "connect", "give") \/ Goto(n, "connect", "refused")
  /\ UNCHANGED <<build, cvars, lines, given, overrun, from, sock, mvars>>

\* An empty POST tells whether there is a server.
HttpSetup(n) ==
  /\ kind = "http" /\ Goto(n, "setup", "give")
  /\ UNCHANGED <<build, cvars, lines, given, overrun, from, sock, mvars>>

\* No host or no socket for TCP, no answer for HTTP: the task deletes itself.
SetupFails(n) ==
  /\ kind \in {"tcp", "http"} /\ Goto(n, "setup", "ended")
  /\ UNCHANGED <<build, cvars, lines, given, overrun, from, sock, mvars>>

\* A new event group, with no bit set, and a client, whose init and start may fail unnoticed.
MqttStart(n) ==
  /\ kind = "mqtt" /\ Goto(n, "setup", "clear")
  /\ \E c \in {"started", "off"} : client' = [client EXCEPT ![n] = c]
  /\ bit' = FALSE
  /\ UNCHANGED <<build, cvars, lines, given, overrun, from, sock, event>>

\* xEventGroupClearBits comes after the start: a broker that was faster is forgotten.
MqttClear(n) ==
  /\ Goto(n, "clear", "wait")
  /\ bit' = FALSE
  /\ UNCHANGED <<build, cvars, lines, given, overrun, from, sock, client, event>>

MqttConnected(n) ==
  /\ bit /\ Goto(n, "wait", "give")
  /\ UNCHANGED <<build, cvars, lines, given, overrun, from, sock, mvars>>

\* No bit within a second; after an overrun the bit may be in another task's group.
MqttGivesUp(n) ==
  /\ ~bit \/ overrun
  /\ Goto(n, "wait", "stop")
  /\ UNCHANGED <<build, cvars, lines, given, overrun, from, sock, mvars>>

\* esp_mqtt_client_stop waits for the client's own task, and so for the event it is handling.
MqttStop(n) ==
  /\ event[n] = "none" /\ Goto(n, "stop", "ended")
  /\ client' = [client EXCEPT ![n] = "off"]
  /\ UNCHANGED <<build, cvars, lines, given, overrun, from, sock, event, bit>>

\* xTaskNotifyGive, whether anyone waits or not.
Give(n) ==
  /\ Goto(n, "give", "receive")
  /\ given' = TRUE
  /\ overrun' = (overrun \/ caller # "waiting" \/ calls # n)
  /\ UNCHANGED <<build, cvars, lines, from, sock, mvars>>

-----------------------------------------------------------------------------
(* The loop. *)

\* The handle is read for every receive.
ReadHandle(n) ==
  /\ handle # 0 /\ Goto(n, "receive", "blocked")
  /\ from' = [from EXCEPT ![n] = handle]
  /\ UNCHANGED <<build, cvars, lines, given, overrun, sock, mvars>>

TooLong(m) == m = "long" /\ ~ring

Readable(n) == pc[n] = "blocked" /\ from[n] \in exists /\ lines # <<>>

Receive(n) ==
  /\ Readable(n) /\ ~TooLong(Head(lines))
  /\ Goto(n, "blocked", "send")
  /\ lines' = Tail(lines)
  /\ UNCHANGED <<build, cvars, given, overrun, from, sock, mvars>>

\* A message buffer returns 0 for a message that does not fit: the loop is left.
ReceiveFails(n) ==
  /\ Readable(n) /\ TooLong(Head(lines))
  /\ Goto(n, "blocked", "close")
  /\ UNCHANGED <<build, cvars, lines, given, overrun, from, sock, mvars>>

SendGivesUp(n) ==   \* mutant: the task ends when it cannot send
  /\ \/ kind # "mqtt" /\ (Goto(n, "send", "receive") \/ Goto(n, "send", "close"))
     \/ Goto(n, "publish", "receive") \/ Goto(n, "publish", "close")
  /\ UNCHANGED <<build, cvars, lines, given, overrun, from, sock, mvars>>

\* The MQTT task looks at the bit: without a broker it skips the line.
CheckBit(n) ==
  /\ kind = "mqtt" /\ Goto(n, "send", IF bit THEN "publish" ELSE "receive")
  /\ UNCHANGED <<build, cvars, lines, given, overrun, from, sock, mvars>>

\* A POST or a publish that fails, by now perhaps without a broker, and, where no assertion is
\* built in, a failing send are passed over.
Send(n) ==
  /\ (kind # "mqtt" /\ Goto(n, "send", "receive")) \/ Goto(n, "publish", "receive")
  /\ UNCHANGED <<build, cvars, lines, given, overrun, from, sock, mvars>>

CloseNot(n) ==   \* mutant: the task deletes itself with an open socket
  /\ Goto(n, "close", "ended")
  /\ UNCHANGED <<build, cvars, lines, given, overrun, from, sock, mvars>>

Close(n) ==
  /\ event[n] = "none" /\ Goto(n, "close", "ended")
  /\ sock' = sock \ {n} /\ client' = [client EXCEPT ![n] = "off"]
  /\ UNCHANGED <<build, cvars, lines, given, overrun, from, event, bit>>

\* Parameters that are gone; LWIP_ASSERT on a failed socket, send or close; no event group or
\* no MAC address for MQTT; a receive from NULL, or from a deleted buffer.
TaskAborts(n) ==
  /\ \/ pc[n] = "starting" /\ ~FrameLives(n)
     \/ asserts /\ kind = "udp" /\ pc[n] \in {"setup", "close"}
     \/ kind = "mqtt" /\ pc[n] = "setup"
     \/ asserts /\ kind \in {"udp", "tcp"} /\ pc[n] = "send"
     \/ pc[n] = "receive" /\ handle = 0
     \/ pc[n] = "blocked" /\ from[n] \notin exists
  /\ Reboot

-----------------------------------------------------------------------------
(* The broker, and the tasks that log. *)

\* The client's own task dispatches an event and waits until it is handled.
BrokerConnects(n) ==
  /\ client[n] = "started" /\ event[n] = "none"
  /\ client' = [client EXCEPT ![n] = "connected"] /\ event' = [event EXCEPT ![n] = "up"]
  /\ UNCHANGED <<build, cvars, lines, given, overrun, tvars, bit>>

\* The connection is lost, or did not come about.
BrokerLost(n) ==
  /\ client[n] # "off" /\ event[n] = "none"
  /\ client' = [client EXCEPT ![n] = "started"] /\ event' = [event EXCEPT ![n] = "down"]
  /\ UNCHANGED <<build, cvars, lines, given, overrun, tvars, bit>>

LostIgnored(n) ==   \* mutant: MQTT_EVENT_DISCONNECTED is not handled
  /\ event[n] # "none"
  /\ event' = [event EXCEPT ![n] = "none"] /\ bit' = (bit \/ event[n] = "up")
  /\ UNCHANGED <<build, cvars, lines, given, overrun, tvars, client>>

\* mqtt_event_handler.
HandleEvent(n) ==
  /\ event[n] # "none"
  /\ event' = [event EXCEPT ![n] = "none"] /\ bit' = (event[n] = "up")
  /\ UNCHANGED <<build, cvars, lines, given, overrun, tvars, client>>

\* The application has registered the buffer; a line that does not fit is dropped.
Log ==
  /\ caller = "idle" /\ handle # 0 /\ Len(lines) < Capacity
  /\ \E m \in {"short", "long"} : lines' = Append(lines, m)
  /\ UNCHANGED <<build, cvars, given, overrun, tvars, mvars>>

-----------------------------------------------------------------------------
InitStep == CreateTask \/ Notified \/ Timeout \/ DeleteBuffer \/ Forget

TaskStep(n) ==
  \/ Start(n) \/ UdpSetup(n) \/ TcpSocket(n) \/ TcpConnect(n) \/ HttpSetup(n)
  \/ SetupFails(n) \/ MqttStart(n) \/ MqttClear(n) \/ MqttConnected(n) \/ MqttGivesUp(n)
  \/ MqttStop(n) \/ Give(n) \/ ReadHandle(n) \/ Receive(n) \/ ReceiveFails(n)
  \/ CheckBit(n) \/ Send(n) \/ Close(n) \/ TaskAborts(n)

Next ==
  \/ CallInit \/ InitAborts \/ InitStep \/ Log
  \/ \E n \in Tasks : TaskStep(n) \/ BrokerConnects(n) \/ BrokerLost(n) \/ HandleEvent(n)

Spec == Init /\ [][Next]_vars

\* A TCP send to a peer that takes nothing in, but answers, has no timeout.
InTcpSend(n) == kind = "tcp" /\ pc[n] = "send"

\* Tasks are scheduled, and what they wait for has a timeout, but for that send.
FairSpec ==
  Spec /\ WF_vars(InitStep) /\ \A n \in Tasks : WF_vars(TaskStep(n) /\ ~InTcpSend(n))

-----------------------------------------------------------------------------
(* Properties.  Those that begin with ~overrun hold until a task starts or notifies after  *)
(* its init has returned, or the application calls init again while one is on its way:     *)
(* nothing in the code keeps either from happening.                                        *)

TypeOK ==
  /\ kind \in {"udp", "tcp", "http", "mqtt"} /\ ring \in BOOLEAN /\ asserts \in BOOLEAN
  /\ caller \in {"idle", "created", "waiting", "deleting", "forgetting"}
  /\ calls \in 0..MaxCalls /\ handle \in {0, calls} /\ exists \in SUBSET Tasks
  /\ lines \in Seq({"short", "long"}) /\ Len(lines) <= Capacity
  /\ given \in BOOLEAN /\ overrun \in BOOLEAN /\ bit \in BOOLEAN
  /\ pc \in [Tasks -> {"none", "starting", "setup", "connect", "clear", "wait", "give",
                       "stop", "receive", "blocked", "send", "publish", "close", "ended",
                       "refused"}]
  /\ from \in [Tasks -> 0..MaxCalls] /\ sock \in SUBSET Tasks
  /\ client \in [Tasks -> {"off", "started", "connected"}]
  /\ event \in [Tasks -> {"none", "up", "down"}]

\* A task does not read from a buffer that init has deleted.
UsesLiveBuffer == ~overrun => \A n \in Tasks : pc[n] = "blocked" => from[n] \in exists

\* Places in the loop.
Serving == {"receive", "blocked", "send", "publish"}

\* A buffer that init leaves behind has a task that empties it, until a line comes that the
\* task cannot take.
KeptBufferHasReader ==
  ~overrun /\ caller = "idle" /\ handle # 0 =>
    pc[handle] \in Serving \/ (lines # <<>> /\ TooLong(Head(lines)))

\* Only a refused TCP connection leaves a socket behind.
SocketsAreHeld == \A n \in sock : Alive(n) \/ pc[n] = "refused"

\* In the loop of the MQTT task the bit is never wrong for longer than an event takes to be
\* handled.  So a line is skipped only while there is no broker or it has just come; one may
\* still be published when the broker has gone since the bit was read.
BitIsTrue ==
  ~overrun =>
    \A n \in Tasks : pc[n] \in Serving /\ event[n] = "none" => (bit <=> client[n] = "connected")

\* A full buffer gets room again, unless the line at its head is too long for the task or the
\* task stays in a TCP send for ever.
KeptBufferDrains ==
  ~overrun /\ Len(lines) = Capacity ~>
    Len(lines) < Capacity \/ TooLong(Head(lines)) \/ overrun \/ [](\E n \in Tasks : InTcpSend(n))

=============================================================================
