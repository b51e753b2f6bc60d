----------------------------- MODULE SseServer -----------------------------
(***************************************************************************)
(* The built-in HTTP server, src/builtin_sse_server/sse_server.c: its task, *)
(* the application that starts, stops and frees it, the handler of network *)
(* events, and the remote peers.                                           *)
(*                                                                         *)
(* A peer stands for one connection at a time; req[p] is the request that  *)
(* waits in its socket.  Of a log line only its length matters here:       *)
(* src/net_logging.c offers each line to every registered buffer and drops *)
(* it where it does not fit, as NetLogging and LogBroadcast say in full.   *)
(* A line is long if it does not fit the array of the receiver, which only *)
(* a message buffer minds: a build with ring buffers behaves as one that   *)
(* never logs a long line.                                                 *)
(***************************************************************************)
EXTENDS Naturals, Sequences, FiniteSets

CONSTANTS
  Peers,           \* remote ends
  MaxClients,      \* MAX_CLIENTS
  Sockets,         \* sockets lwIP has for this server
  NumSlots,        \* slots of logBuffers that other senders leave to it
  Capacity,        \* lines a client's buffer holds
  MaxFailures,     \* bound on failing fcntl, bind and listen calls
  ChecksStop,      \* the application acts on the result of netlogging_sse_server_stop
  RunsAgain,       \* the application starts a stopped server again before freeing it
  NULL

ASSUME SseServerAssumption ==
  /\ MaxClients \in Nat \ {0}
  /\ Sockets \in Nat /\ Sockets > MaxClients
  /\ NumSlots \in Nat /\ Capacity \in Nat \ {0} /\ MaxFailures \in Nat
  /\ ChecksStop \in BOOLEAN /\ RunsAgain \in BOOLEAN
  /\ NULL \notin Peers

VARIABLES
  app,        \* the application: which call returned last
  server,     \* server # NULL
  task_run,
  started,    \* start_count > 0
  stopped,    \* STOPPED_BIT
  netChanged, \* NET_CHANGED_BIT
  pc,         \* the task's place in server_task
  listening,  \* listen_sock is open
  stale,      \* the network changed after listen_sock was created
  leaked,     \* listening sockets that were never closed
  failures,
  slot,       \* i of the serving loop
  sending,    \* what socket_send is sending to client[slot]
  sock,       \* client[i].sock: the peer at its other end, or NULL
  buffer,     \* client[i].buffer: none, or registered with net_logging.c
  lines,      \* the lines in client[i].buffer
  conn,       \* each peer's connection
  req,        \* the request in its socket
  reading     \* whether it takes in what it is sent

avars == <<app, server, task_run, started, stopped>>
cvars == <<sock, buffer, lines>>
pvars == <<conn, req, reading>>
svars == <<listening, stale, leaked, failures>>
tvars == <<pc, slot, sending>>
vars == <<avars, netChanged, svars, tvars, cvars, pvars>>

Clients == 1..MaxClients
Lines == {"short", "long"}

Init ==
  /\ app = "none" /\ server = FALSE
  /\ task_run = FALSE /\ started = FALSE /\ stopped = FALSE /\ netChanged = FALSE
  /\ pc = "none" /\ slot = 1 /\ sending = "none"
  /\ listening = FALSE /\ stale = FALSE /\ leaked = 0 /\ failures = 0
  /\ sock = [i \in Clients |-> NULL]
  /\ buffer = [i \in Clients |-> "none"]
  /\ lines = [i \in Clients |-> <<>>]
  /\ conn = [p \in Peers |-> "idle"]
  /\ req = [p \in Peers |-> "none"]
  /\ reading = [p \in Peers |-> TRUE]

-----------------------------------------------------------------------------
(* The application. *)

\* netlogging_sse_server_init; when an allocation fails nothing is left behind.
ServerInit ==
  /\ app = "none"
  /\ app' = "ready" /\ server' = TRUE
  /\ task_run' = FALSE /\ started' = FALSE /\ stopped' = FALSE /\ netChanged' = FALSE
  /\ UNCHANGED <<svars, tvars, cvars, pvars>>

\* netlogging_sse_server_run.  The event group is left as it is.
Run ==
  /\ app = "ready" \/ (app = "stopped" /\ RunsAgain)
  /\ pc = "none"
  /\ task_run' = TRUE /\ started' = FALSE
  /\ app' = "running" /\ pc' = "outer"
  /\ UNCHANGED <<server, stopped, netChanged, svars, slot, sending, cvars, pvars>>

\* xTaskCreate fails: ESP_FAIL.
RunFails ==
  /\ app = "ready"
  /\ task_run' = FALSE /\ started' = FALSE
  /\ UNCHANGED <<app, server, stopped, netChanged, svars, tvars, cvars, pvars>>

\* netlogging_sse_server_stop, up to the wait; after a timeout it may be called again.
StopCall ==
  /\ app \in {"running", "timedout"}
  /\ task_run' = FALSE
  /\ app' = "stopping"
  /\ UNCHANGED <<server, started, stopped, netChanged, svars, tvars, cvars, pvars>>

\* wait_for_stop: the bit is read and not cleared.
StopOk ==
  /\ app = "stopping" /\ stopped
  /\ app' = "stopped"
  /\ UNCHANGED <<server, task_run, started, stopped, netChanged, svars, tvars, cvars, pvars>>

\* The wait runs out.
StopTimeout ==
  /\ app = "stopping" /\ ~stopped
  /\ app' = "timedout"
  /\ UNCHANGED <<server, task_run, started, stopped, netChanged, svars, tvars, cvars, pvars>>

\* netlogging_sse_server_deinit.
Deinit ==
  /\ app \in {"ready", "stopped"} \/ (app = "timedout" /\ ~ChecksStop)
  /\ app' = "none" /\ server' = FALSE
  /\ UNCHANGED <<task_run, started, stopped, netChanged, svars, tvars, cvars, pvars>>

\* network_changed_handler.
NetworkChanged ==
  /\ server
  /\ netChanged' = TRUE
  /\ stale' = listening
  /\ UNCHANGED <<avars, listening, leaked, failures, tvars, cvars, pvars>>

-----------------------------------------------------------------------------
(* server_task.  A task whose server was freed has no defined next step. *)

At(label) == server /\ pc = label

InUse == Cardinality({i \in Clients : sock[i] # NULL})
Open == InUse + leaked + (IF listening THEN 1 ELSE 0)

\* The outer loop ends: the last thing the task does is to set the bit.
Exit ==
  /\ At("outer") /\ ~task_run
  /\ stopped' = TRUE
  /\ pc' = "none"
  /\ UNCHANGED <<app, server, task_run, started, netChanged, svars, slot, sending, cvars, pvars>>

\* A round of the outer loop begins with the retry delay, unless it is the first.
EnterOuter ==
  /\ At("outer") /\ task_run
  /\ pc' = "create"
  /\ UNCHANGED <<avars, netChanged, svars, slot, sending, cvars, pvars>>

\* The round goes on up to socket().  The client array is
\* overwritten: a socket still in it would be lost.
Restart ==
  /\ At("create")
  /\ started' = TRUE
  /\ leaked' = leaked + InUse
  /\ sock' = [i \in Clients |-> NULL] /\ buffer' = [i \in Clients |-> "none"]
  /\ IF Open < Sockets
     THEN listening' = TRUE /\ stale' = FALSE /\ pc' = "bind"
     ELSE pc' = "outer" /\ UNCHANGED <<listening, stale>>
  /\ UNCHANGED <<app, server, task_run, stopped, netChanged, failures, slot, sending, lines, pvars>>

BindGivesUp ==   \* mutant: return instead of continue
  /\ At("bind") /\ failures < MaxFailures
  /\ failures' = failures + 1
  /\ listening' = FALSE /\ leaked' = leaked + 1
  /\ pc' = "none"
  /\ UNCHANGED <<avars, netChanged, stale, slot, sending, cvars, pvars>>

\* fcntl, bind or listen fails: `continue', and nothing refers to the socket any more.
BindFails ==
  /\ At("bind") /\ failures < MaxFailures
  /\ failures' = failures + 1
  /\ listening' = FALSE /\ leaked' = leaked + 1
  /\ pc' = "outer"
  /\ UNCHANGED <<avars, netChanged, stale, slot, sending, cvars, pvars>>

\* The socket listens; network changes from before this point are forgotten.
Listen ==
  /\ At("bind")
  /\ netChanged' = FALSE
  /\ pc' = "accept"
  /\ UNCHANGED <<avars, svars, slot, sending, cvars, pvars>>

\* The inner loop is left by its condition.
LeaveInner ==
  /\ At("accept") /\ ~task_run
  /\ pc' = "close"
  /\ UNCHANGED <<avars, netChanged, svars, slot, sending, cvars, pvars>>

FreeButLast(i) ==   \* mutant: the search ends one entry early
  i < MaxClients /\ sock[i] = NULL /\ \A j \in 1..(i - 1) : sock[j] # NULL

FreeClient(i) == sock[i] = NULL /\ \A j \in 1..(i - 1) : sock[j] # NULL

Pending == {p \in Peers : conn[p] = "pending"}

AcceptNoneAlways ==   \* mutant: task_run is not looked at
  /\ At("accept")
  /\ Pending = {} \/ ~\E i \in Clients : FreeClient(i)
  /\ pc' = "serve" /\ slot' = 1
  /\ UNCHANGED <<avars, netChanged, svars, sending, cvars, pvars>>

\* No free entry, or no connection to accept: straight to the serving loop.
AcceptNone ==
  /\ At("accept") /\ task_run
  /\ Pending = {} \/ ~\E i \in Clients : FreeClient(i)
  /\ pc' = "serve" /\ slot' = 1
  /\ UNCHANGED <<avars, netChanged, svars, sending, cvars, pvars>>

\* accept gives the connection the first free entry.
TakeConnection ==
  /\ Open < Sockets
  /\ \E i \in Clients, p \in Pending :
       /\ FreeClient(i)
       /\ sock' = [sock EXCEPT ![i] = p]
       /\ conn' = [conn EXCEPT ![p] = "open"]
  /\ UNCHANGED <<buffer, lines, req, reading>>

Accept ==
  /\ At("accept") /\ task_run
  /\ TakeConnection
  /\ pc' = "serve" /\ slot' = 1
  /\ UNCHANGED <<avars, netChanged, svars, sending>>

\* accept fails, as it does when there is no socket for the new connection: back to the
\* outer loop.
AcceptFails ==
  /\ At("accept") /\ task_run
  /\ \E i \in Clients, p \in Pending :
       FreeClient(i) /\ conn' = [conn EXCEPT ![p] = "idle"]
  /\ pc' = "close"
  /\ UNCHANGED <<avars, netChanged, svars, slot, sending, cvars, req, reading>>

\* The new socket cannot be made non-blocking: back to the outer loop, with an open client.
AcceptBlocking ==
  /\ At("accept") /\ task_run
  /\ TakeConnection
  /\ pc' = "close"
  /\ UNCHANGED <<avars, netChanged, svars, slot, sending>>

-----------------------------------------------------------------------------
(* serve_client and socket_send, for client[slot]. *)

Serving(i) == At("serve") /\ slot = i

NextClient == slot' = slot + 1 /\ pc' = "serve"

\* The peer's end of a connection that the server closes.
Hangup(p) ==
  /\ conn' = [conn EXCEPT ![p] = "idle"]
  /\ req' = [req EXCEPT ![p] = "none"]
  /\ reading' = [reading EXCEPT ![p] = TRUE]

CleanupForgetsBuffer(i) ==   \* mutant: the socket is closed, the buffer stays
  /\ sock' = [sock EXCEPT ![i] = NULL] /\ Hangup(sock[i]) /\ UNCHANGED <<buffer, lines>>

\* cleanup_client: close the socket, unregister and delete the buffer.
Cleanup(i) ==
  /\ sock' = [sock EXCEPT ![i] = NULL]
  /\ buffer' = [buffer EXCEPT ![i] = "none"]
  /\ lines' = [lines EXCEPT ![i] = <<>>]
  /\ Hangup(sock[i])

SkipFree(i) ==
  /\ Serving(i) /\ sock[i] = NULL
  /\ NextClient
  /\ UNCHANGED <<avars, netChanged, svars, sending, cvars, pvars>>

\* Using a socket whose peer has closed its end finds out: from then on calls fail.
Touch(p) == conn' = [conn EXCEPT ![p] = IF @ = "closed" THEN "reset" ELSE @]

\* What is sent to a peer that vanished is not acknowledged, and TCP begins to repeat it.
TouchBySend(p) ==
  conn' = [conn EXCEPT ![p] = CASE @ = "closed" -> "reset" [] @ = "gone" -> "dying" [] OTHER -> @]

\* try_receive finds nothing.  Where the peer has closed its end, recv returns 0, which is
\* taken for `no data', and lwIP reports the socket as not connected from then on.  Of a
\* peer that vanished recv knows nothing: EAGAIN, for ever.
ReceiveNothing(i) ==
  /\ Serving(i) /\ sock[i] # NULL /\ buffer[i] = "none"
  /\ req[sock[i]] = "none" /\ conn[sock[i]] # "reset"
  /\ Touch(sock[i])
  /\ NextClient
  /\ UNCHANGED <<avars, netChanged, svars, sending, cvars, req, reading>>

ReceiveError(i) ==
  /\ Serving(i) /\ sock[i] # NULL /\ buffer[i] = "none"
  /\ req[sock[i]] = "none" /\ conn[sock[i]] = "reset"
  /\ Cleanup(i)
  /\ NextClient
  /\ UNCHANGED <<avars, netChanged, svars, sending>>

StartSend(what) == pc' = "send" /\ sending' = what /\ UNCHANGED slot

\* A request: for the event stream, or for the page or anything else, which is answered.
ReceiveRequest(i) ==
  /\ Serving(i) /\ sock[i] # NULL /\ buffer[i] = "none"
  /\ req[sock[i]] # "none"
  /\ StartSend(IF req[sock[i]] = "events" THEN "headers" ELSE "data")
  /\ req' = [req EXCEPT ![sock[i]] = "none"]
  /\ UNCHANGED <<avars, netChanged, svars, cvars, conn, reading>>

\* The line at the head of the buffer does not fit the array: a receive returns 0 and leaves
\* it where it is, in front of all that come later.
Jammed(i) == lines[i] # <<>> /\ Head(lines[i]) = "long"

\* The receive without waiting returns a line.
Received(i) == lines[i] # <<>> /\ ~Jammed(i)

SendLineAgain(i) ==   \* mutant: the line stays in the buffer
  /\ Serving(i) /\ sock[i] # NULL /\ buffer[i] # "none"
  /\ Received(i)
  /\ StartSend("data")
  /\ UNCHANGED <<avars, netChanged, svars, cvars, pvars>>

\* A client with a buffer: its next line, the line is gone from the buffer before it is sent.
SendLine(i) ==
  /\ Serving(i) /\ sock[i] # NULL /\ buffer[i] # "none"
  /\ Received(i)
  /\ lines' = [lines EXCEPT ![i] = Tail(@)]
  /\ StartSend("data")
  /\ UNCHANGED <<avars, netChanged, svars, sock, buffer, pvars>>

\* Nothing received, and the keep-alive time is over; or it is not.
SendKeepalive(i) ==
  /\ Serving(i) /\ sock[i] # NULL /\ buffer[i] # "none" /\ ~Received(i)
  /\ StartSend("data")
  /\ UNCHANGED <<avars, netChanged, svars, cvars, pvars>>

NothingToSend(i) ==
  /\ Serving(i) /\ sock[i] # NULL /\ buffer[i] # "none" /\ ~Received(i)
  /\ NextClient
  /\ UNCHANGED <<avars, netChanged, svars, sending, cvars, pvars>>

Registered == {i \in Clients : buffer[i] = "registered"}

\* The event stream: create a buffer and register it.  No memory and no free slot both end
\* the connection.
OpenStream(i) ==
  \/ /\ Cardinality(Registered) < NumSlots
     /\ buffer' = [buffer EXCEPT ![i] = "registered"]
     /\ TouchBySend(sock[i])
     /\ UNCHANGED <<sock, lines, req, reading>>
  \/ Cleanup(i)

\* The task is inside socket_send and the peer takes nothing in: it tries again, without end.
Blocked == pc = "send" /\ conn[sock[slot]] = "open" /\ ~reading[sock[slot]]

SendReturns(i) ==
  /\ At("send") /\ slot = i
  /\ sending' = "none" /\ NextClient
  /\ UNCHANGED <<avars, netChanged, svars>>

\* socket_send returns; for the headers of the event stream the result is not looked at.
StreamHeadersSent(i) ==
  /\ SendReturns(i) /\ sending = "headers" /\ ~Blocked
  /\ OpenStream(i)

SendDone(i) ==
  /\ SendReturns(i) /\ sending = "data" /\ ~Blocked
  /\ conn[sock[i]] # "reset"
  /\ TouchBySend(sock[i])
  /\ UNCHANGED <<cvars, req, reading>>

SendFailsIgnored(i) ==   \* mutant: the client is kept
  /\ SendReturns(i) /\ sending = "data"
  /\ conn[sock[i]] = "reset"
  /\ UNCHANGED <<cvars, pvars>>

SendFails(i) ==
  /\ SendReturns(i) /\ sending = "data"
  /\ conn[sock[i]] = "reset"
  /\ Cleanup(i)

-----------------------------------------------------------------------------
(* The end of a round. *)

RoundDone == At("serve") /\ slot > MaxClients

\* NET_CHANGED_BIT is set: it is cleared and the server restarts.
CheckChanged ==
  /\ RoundDone /\ netChanged
  /\ netChanged' = FALSE
  /\ pc' = "close"
  /\ UNCHANGED <<avars, svars, slot, sending, cvars, pvars>>

CheckNothing ==   \* mutant: the bit is not looked at
  /\ RoundDone
  /\ pc' = "accept"
  /\ UNCHANGED <<avars, netChanged, svars, slot, sending, cvars, pvars>>

CheckUnchanged ==
  /\ RoundDone /\ ~netChanged
  /\ pc' = "accept"
  /\ UNCHANGED <<avars, netChanged, svars, slot, sending, cvars, pvars>>

CloseListener == listening' = FALSE /\ stale' = FALSE

CloseAllButClients ==   \* mutant: only the listening socket is closed
  /\ CloseListener
  /\ conn' = [p \in Peers |-> IF conn[p] = "pending" THEN "idle" ELSE conn[p]]
  /\ UNCHANGED <<cvars, req, reading>>

CloseAllButBuffers ==   \* mutant: the clients' buffers stay registered
  /\ CloseListener
  /\ sock' = [i \in Clients |-> NULL]
  /\ conn' = [p \in Peers |-> "idle"]
  /\ req' = [p \in Peers |-> "none"]
  /\ reading' = [p \in Peers |-> TRUE]
  /\ UNCHANGED <<buffer, lines>>

\* The listening socket and every client; connections that were not accepted are refused.
CloseAll ==
  /\ CloseListener
  /\ sock' = [i \in Clients |-> NULL]
  /\ buffer' = [i \in Clients |-> "none"]
  /\ lines' = [i \in Clients |-> <<>>]
  /\ conn' = [p \in Peers |-> "idle"]
  /\ req' = [p \in Peers |-> "none"]
  /\ reading' = [p \in Peers |-> TRUE]

Close ==
  /\ At("close")
  /\ CloseAll
  /\ pc' = "outer"
  /\ UNCHANGED <<avars, netChanged, leaked, failures, slot, sending>>

-----------------------------------------------------------------------------
(* Everyone else: the peers, and the tasks that log. *)

ServerUnchanged == UNCHANGED <<avars, netChanged, svars, tvars>>

Connect(p) ==
  /\ conn[p] = "idle" /\ listening /\ pc # "bind"
  /\ conn' = [conn EXCEPT ![p] = "pending"]
  /\ ServerUnchanged /\ UNCHANGED <<cvars, req, reading>>

Request(p, r) ==
  /\ conn[p] = "open" /\ req[p] = "none"
  /\ req' = [req EXCEPT ![p] = r]
  /\ ServerUnchanged /\ UNCHANGED <<cvars, conn, reading>>

\* The peer's receive window fills up, or opens again.
Stall(p) ==
  /\ conn[p] = "open" /\ reading[p]
  /\ reading' = [reading EXCEPT ![p] = FALSE]
  /\ ServerUnchanged /\ UNCHANGED <<cvars, conn, req>>

Resume(p) ==
  /\ conn[p] = "open" /\ ~reading[p]
  /\ reading' = [reading EXCEPT ![p] = TRUE]
  /\ ServerUnchanged /\ UNCHANGED <<cvars, conn, req>>

\* The peer closes its end (FIN), breaks the connection off (RST), or vanishes without a word.
PeerLeaves(p) ==
  /\ conn[p] = "open"
  /\ \E how \in {"closed", "reset", "gone"} : conn' = [conn EXCEPT ![p] = how]
  /\ ServerUnchanged /\ UNCHANGED <<cvars, req, reading>>

\* TCP has repeated what a vanished peer does not acknowledge often enough.
TcpGivesUp(p) ==
  /\ conn[p] = "dying"
  /\ conn' = [conn EXCEPT ![p] = "reset"]
  /\ ServerUnchanged /\ UNCHANGED <<cvars, req, reading>>

HasRoom(i) == Len(lines[i]) < Capacity

\* A line is offered to every registered buffer, and dropped where it does not fit.
Log ==
  /\ \E i \in Registered : HasRoom(i)
  /\ \E m \in Lines :
       lines' = [i \in Clients |-> IF i \in Registered /\ HasRoom(i)
                                  THEN Append(lines[i], m) ELSE lines[i]]
  /\ ServerUnchanged /\ UNCHANGED <<sock, buffer, pvars>>

-----------------------------------------------------------------------------
ServeStep(i) ==
  \/ SkipFree(i) \/ ReceiveNothing(i) \/ ReceiveError(i) \/ ReceiveRequest(i)
  \/ SendLine(i) \/ SendKeepalive(i) \/ NothingToSend(i)
  \/ StreamHeadersSent(i) \/ SendDone(i) \/ SendFails(i)

TaskStep ==
  \/ Exit \/ EnterOuter \/ Restart \/ BindFails \/ Listen
  \/ LeaveInner \/ AcceptNone \/ Accept \/ AcceptFails \/ AcceptBlocking
  \/ \E i \in Clients : ServeStep(i)
  \/ CheckChanged \/ CheckUnchanged \/ Close

AppStep == ServerInit \/ Run \/ RunFails \/ StopCall \/ StopOk \/ StopTimeout \/ Deinit

PeerStep(p) ==
  \/ Connect(p) \/ \E r \in {"page", "events"} : Request(p, r)
  \/ Stall(p) \/ Resume(p) \/ PeerLeaves(p) \/ TcpGivesUp(p)

Next == AppStep \/ NetworkChanged \/ TaskStep \/ (\E p \in Peers : PeerStep(p)) \/ Log

Spec == Init /\ [][Next]_vars

\* The task is scheduled.  A peer that takes data in again and again gets all of a response,
\* which has an end.  A client that is served again and again is sent a line or, when ten
\* seconds have passed without one, a keep-alive.  TCP stops repeating.  Nothing makes a peer
\* that has stopped reading resume, and TCP does not give it up while it acknowledges.
Fairness ==
  /\ WF_vars(TaskStep)
  /\ SF_vars(\E i \in Clients : StreamHeadersSent(i) \/ SendDone(i))
  /\ \A i \in Clients : SF_vars(SendLine(i) \/ SendKeepalive(i))
  /\ \A p \in Peers : WF_vars(TcpGivesUp(p))

FairSpec == Spec /\ Fairness

-----------------------------------------------------------------------------
(* Properties. *)

\* A connection that a peer has left is closed, reset, gone, or gone and being given up.
Left == {"closed", "reset", "gone", "dying"}
Conns == {"idle", "pending", "open"} \cup Left

TypeOK ==
  /\ app \in {"none", "ready", "running", "stopping", "stopped", "timedout"}
  /\ server \in BOOLEAN /\ task_run \in BOOLEAN /\ started \in BOOLEAN
  /\ stopped \in BOOLEAN /\ netChanged \in BOOLEAN
  /\ pc \in {"none", "outer", "create", "bind", "accept", "serve", "send", "close"}
  /\ listening \in BOOLEAN /\ stale \in BOOLEAN
  /\ leaked \in Nat /\ failures \in 0..MaxFailures
  /\ slot \in 1..(MaxClients + 1)
  /\ sending \in {"none", "headers", "data"}
  /\ sock \in [Clients -> Peers \cup {NULL}]
  /\ buffer \in [Clients -> {"none", "registered"}]
  /\ lines \in [Clients -> Seq(Lines)] /\ \A i \in Clients : Len(lines[i]) <= Capacity
  /\ conn \in [Peers -> Conns]
  /\ req \in [Peers -> {"none", "page", "events"}]
  /\ reading \in [Peers -> BOOLEAN]

\* Before the client array is overwritten, and once the task is gone, no connection is open
\* and no buffer is registered: a restart or a stop leaves nothing behind in net_logging.c.
NothingLeftBehind ==
  pc \in {"none", "outer", "create", "bind"} =>
    \A i \in Clients : sock[i] = NULL /\ buffer[i] = "none"

\* A registered buffer belongs to a connection, and a connection to one entry of the array,
\* so every buffer has someone to empty it and to free it.
EveryBufferHasAClient ==
  /\ \A i \in Clients : buffer[i] # "none" => sock[i] # NULL
  /\ \A i, j \in Clients : sock[i] # NULL /\ sock[i] = sock[j] => i = j
  /\ \A p \in Peers : conn[p] \in {"open"} \cup Left <=> \E i \in Clients : sock[i] = p

Inner == {"accept", "serve", "send"}

\* Restarts lose no socket: those that are open are the clients', the listening socket
\* while clients are served, and the ones that failed starts lost; never more than lwIP has.
SocketsAccounted ==
  Open <= Sockets /\ leaked = failures /\ (pc \in Inner => listening)

\* The liveness properties say what happens unless HeldUp: a client takes nothing in for
\* ever, and the task is in socket_send with it for ever.
HeldUp == []Blocked

\* A stopped task ends, whatever its clients do short of holding it up.
TaskStops == ~task_run /\ pc # "none" ~> pc = "none" \/ task_run \/ HeldUp

\* A connection whose peer has left gives its entry back, also when no line is logged.  It
\* is a stream, or its peer closed or reset it: of another one that vanished without a word
\* the server never learns.
GoneClientsAreReclaimed ==
  \A i \in Clients, p \in Peers :
    /\ sock[i] = p /\ conn[p] \in Left
    /\ conn[p] = "gone" => buffer[i] = "registered"
    ~> sock[i] # p \/ HeldUp

\* A full buffer is emptied, so its client does not lose every later line, until a line comes
\* to its head that the server cannot receive.
FullBufferDrains ==
  \A i \in Clients : ~HasRoom(i) ~> HasRoom(i) \/ Jammed(i) \/ HeldUp

\* After a failure the server gets as far as listening again, until failed starts have cost
\* it every socket there is.
ServerComesBack ==
  pc \in {"outer", "create", "bind"} /\ task_run ~>
    pc = "accept" \/ ~task_run \/ failures >= Sockets

\* A network change that is signalled while clients are served restarts the server.
SignalledChangeRestarts == netChanged /\ pc \in Inner ~> pc = "close" \/ HeldUp

\* A connection waits only while all entries are taken: one that is reclaimed goes to a peer
\* that waits for it.
FreeEntriesAreTaken ==
  Pending # {} ~> Pending = {} \/ (\A i \in Clients : sock[i] # NULL) \/ HeldUp

\* What LogSender promises: the application is told the truth about the task, and only a
\* running task has buffers registered.
SenderPromise ==
  INSTANCE LogSender WITH
    Buffers <- Clients, alive <- pc # "none", registered <- Registered

KeepsPromise == SenderPromise!Spec

\* A listening socket from before a network change is replaced.
NetworkChangeRestarts == stale ~> ~stale

=============================================================================
