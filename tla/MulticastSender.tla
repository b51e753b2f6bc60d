--------------------------- MODULE MulticastSender ---------------------------
(***************************************************************************)
(* The UDP multicast sender, src/builtin_client/multicast_log_sender.c:    *)
(* its task, and the application that starts, stops and frees it.  Of a    *)
(* line only its length matters: a long one does not fit the array that a  *)
(* message buffer's receiver has.  NetLogging says how lines get here.     *)
(***************************************************************************)
EXTENDS Naturals, Sequences

CONSTANTS
  Sockets,       \* sockets lwIP has for this sender
  Capacity,      \* lines the buffer has room for
  MaxFailures,   \* bound on failing bind, getaddrinfo and sendto calls
  ChecksStop     \* the application acts on the result of netlogging_multicast_sender_stop

ASSUME MulticastSenderAssumption ==
  /\ Sockets \in Nat \ {0} /\ Capacity \in Nat \ {0} /\ MaxFailures \in Nat
  /\ ChecksStop \in BOOLEAN

VARIABLES
  ring,     \* CONFIG_NETLOGGING_USE_RINGBUFFER: the build is of one kind or the other
  app,      \* the application: which call returned last
  server,   \* server # NULL
  task_run,
  stopped,  \* STOPPED_BIT
  pc,       \* the task's place in multicast_log_sender
  sock,       \* the task holds an open socket
  addr,     \* and the result of getaddrinfo
  leaked,   \* sockets nothing refers to any more
  failures,
  unresolved, \* those of them that were in getaddrinfo
  buffer,   \* the buffer: none, created, or registered with net_logging.c
  queue,    \* the lines in it that were not received yet
  used,     \* lines it has no room for, being taken up
  stuck     \* a received ring buffer item was never returned

avars == <<app, server, task_run, stopped>>
svars == <<sock, addr, leaked, failures, unresolved>>
bvars == <<ring, buffer, queue, used, stuck>>
vars == <<avars, pc, svars, bvars>>

Lines == {"short", "long"}

Init ==
  /\ app = "none" /\ server = FALSE /\ task_run = FALSE /\ stopped = FALSE
  /\ pc = "none"
  /\ sock = FALSE /\ addr = FALSE /\ leaked = 0 /\ failures = 0 /\ unresolved = 0
  /\ ring \in BOOLEAN
  /\ buffer = "none" /\ queue = <<>> /\ used = 0 /\ stuck = FALSE

-----------------------------------------------------------------------------
(* The application. *)

SenderInit ==
  /\ app = "none"
  /\ app' = "ready" /\ server' = TRUE /\ task_run' = FALSE /\ stopped' = FALSE
  /\ UNCHANGED <<pc, svars, bvars>>

Run ==
  /\ app = "ready" /\ pc = "none"
  /\ app' = "running" /\ task_run' = TRUE /\ pc' = "create"
  /\ UNCHANGED <<server, stopped, svars, bvars>>

RunFails ==   \* xTaskCreate
  /\ app = "ready"
  /\ task_run' = FALSE
  /\ UNCHANGED <<app, server, stopped, pc, svars, bvars>>

\* netlogging_multicast_sender_stop, up to the wait; after a timeout it may be called again.
StopCall ==
  /\ app \in {"running", "timedout"}
  /\ app' = "stopping" /\ task_run' = FALSE
  /\ UNCHANGED <<server, stopped, pc, svars, bvars>>

\* wait_for_stop.
StopOk ==
  /\ app = "stopping" /\ stopped
  /\ app' = "stopped"
  /\ UNCHANGED <<server, task_run, stopped, pc, svars, bvars>>

\* The wait runs out: getaddrinfo and sendto may take longer than STOP_WAITTIME.
StopTimeout ==
  /\ app = "stopping" /\ ~stopped
  /\ app' = "timedout"
  /\ UNCHANGED <<server, task_run, stopped, pc, svars, bvars>>

Deinit ==
  /\ app \in {"ready", "stopped"} \/ (app = "timedout" /\ ~ChecksStop)
  /\ app' = "none" /\ server' = FALSE
  /\ UNCHANGED <<task_run, stopped, pc, svars, bvars>>

-----------------------------------------------------------------------------
(* The task.  One whose server was freed has no defined next step. *)

Goto(from, to) == server /\ pc = from /\ pc' = to

CreateBuffer ==
  /\ Goto("create", "register")
  /\ buffer' = "created" /\ queue' = <<>> /\ used' = 0 /\ stuck' = FALSE
  /\ UNCHANGED <<avars, svars, ring>>

CreateFails == Goto("create", "cleanup") /\ UNCHANGED <<avars, svars, bvars>>

Register ==
  /\ Goto("register", "outer")
  /\ buffer' = "registered"
  /\ UNCHANGED <<avars, svars, ring, queue, used, stuck>>

RegisterFails == Goto("register", "cleanup") /\ UNCHANGED <<avars, svars, bvars>>

EnterOuter == task_run /\ Goto("outer", "setup") /\ UNCHANGED <<avars, svars, bvars>>

LeaveOuter == ~task_run /\ Goto("outer", "cleanup") /\ UNCHANGED <<avars, svars, bvars>>

Open == leaked + (IF sock THEN 1 ELSE 0)

\* multicast_setup.
Setup ==
  /\ Open < Sockets
  /\ Goto("setup", "inner")
  /\ sock' = TRUE /\ addr' = TRUE
  /\ UNCHANGED <<avars, leaked, failures, unresolved, bvars>>

\* getaddrinfo fails after the socket was created and bound: the socket stays open.
SetupFails ==
  /\ Open < Sockets /\ failures < MaxFailures
  /\ Goto("setup", "outer")
  /\ failures' = failures + 1 /\ unresolved' = unresolved + 1 /\ leaked' = leaked + 1
  /\ UNCHANGED <<avars, sock, addr, bvars>>

\* socket or bind fails, and what was opened is closed again.
NoSocket ==
  /\ Open >= Sockets \/ failures < MaxFailures
  /\ Goto("setup", "outer")
  /\ failures' = IF Open < Sockets THEN failures + 1 ELSE failures
  /\ UNCHANGED <<avars, sock, addr, leaked, unresolved, bvars>>

EnterInner == task_run /\ Goto("inner", "receive") /\ UNCHANGED <<avars, svars, bvars>>

LeaveInnerLate ==   \* mutant: only with nothing to send
  /\ ~task_run /\ queue = <<>>
  /\ Goto("inner", "close") /\ UNCHANGED <<avars, svars, bvars>>

LeaveInner == ~task_run /\ Goto("inner", "close") /\ UNCHANGED <<avars, svars, bvars>>

\* A message buffer whose first line is too long for the array: it is not received, and stays
\* in front of all that come later.
Jammed == ~ring /\ queue # <<>> /\ Head(queue) = "long"

\* A line is received; a message buffer is rid of it at once, a ring buffer only when the
\* item is returned.
Receive ==
  /\ queue # <<>> /\ ~Jammed
  /\ Goto("receive", "send")
  /\ queue' = Tail(queue)
  /\ used' = IF ring THEN used ELSE used - 1
  /\ UNCHANGED <<avars, svars, ring, buffer, stuck>>

ReceiveTimeoutAlways ==   \* mutant: a line that is there is not waited for
  /\ Goto("receive", "inner")
  /\ UNCHANGED <<avars, svars, bvars>>

\* Nothing received within a second: back to look at task_run.
ReceiveTimeout ==
  /\ queue = <<>> \/ Jammed
  /\ Goto("receive", "inner")
  /\ UNCHANGED <<avars, svars, bvars>>

\* sendto, and vRingbufferReturnItem: space is given back in order, so behind an item that
\* was not returned nothing is.
Send ==
  /\ Goto("send", "inner")
  /\ used' = IF ring /\ ~stuck THEN used - 1 ELSE used
  /\ UNCHANGED <<avars, svars, ring, buffer, queue, stuck>>

\* sendto fails: out of the inner loop, past vRingbufferReturnItem.
SendFails ==
  /\ failures < MaxFailures
  /\ Goto("send", "close")
  /\ failures' = failures + 1
  /\ stuck' = ring
  /\ UNCHANGED <<avars, sock, addr, leaked, unresolved, ring, buffer, queue, used>>

CloseOnlyAddr ==   \* mutant: the socket is forgotten
  /\ Goto("close", "outer")
  /\ addr' = FALSE
  /\ UNCHANGED <<avars, sock, leaked, failures, unresolved, bvars>>

CloseLeaks ==   \* mutant: the handle is cleared without a close
  /\ Goto("close", "outer")
  /\ sock' = FALSE /\ addr' = FALSE
  /\ leaked' = IF sock THEN leaked + 1 ELSE leaked
  /\ UNCHANGED <<avars, failures, unresolved, bvars>>

Close ==
  /\ Goto("close", "outer")
  /\ sock' = FALSE /\ addr' = FALSE
  /\ UNCHANGED <<avars, leaked, failures, unresolved, bvars>>

CleanupNoUnregister ==   \* mutant: the buffer stays registered
  /\ Goto("cleanup", "end")
  /\ UNCHANGED <<avars, svars, bvars>>

\* Whatever way the task came here: unregister and delete the buffer.
Cleanup ==
  /\ Goto("cleanup", "end")
  /\ buffer' = "none" /\ queue' = <<>> /\ used' = 0 /\ stuck' = FALSE
  /\ UNCHANGED <<avars, svars, ring>>

\* STOPPED_BIT, and the task deletes itself.
End ==
  /\ Goto("end", "none")
  /\ stopped' = TRUE
  /\ UNCHANGED <<app, server, task_run, svars, bvars>>

-----------------------------------------------------------------------------
\* A task logs a line; it is dropped when it does not fit.
Log ==
  /\ buffer = "registered" /\ used < Capacity
  /\ \E m \in Lines : queue' = Append(queue, m)
  /\ used' = used + 1
  /\ UNCHANGED <<avars, pc, svars, ring, buffer, stuck>>

AppStep == SenderInit \/ Run \/ RunFails \/ StopCall \/ StopOk \/ StopTimeout \/ Deinit

TaskStep ==
  \/ CreateBuffer \/ CreateFails \/ Register \/ RegisterFails
  \/ EnterOuter \/ LeaveOuter \/ Setup \/ SetupFails \/ NoSocket \/ Close \/ Cleanup \/ End
  \/ EnterInner \/ LeaveInner \/ Receive \/ ReceiveTimeout \/ Send \/ SendFails

Next == AppStep \/ TaskStep \/ Log

Spec == Init /\ [][Next]_vars

\* The task is scheduled.
FairSpec == Spec /\ WF_vars(TaskStep)

-----------------------------------------------------------------------------
TypeOK ==
  /\ ring \in BOOLEAN
  /\ app \in {"none", "ready", "running", "stopping", "stopped", "timedout"}
  /\ server \in BOOLEAN /\ task_run \in BOOLEAN /\ stopped \in BOOLEAN
  /\ pc \in {"none", "create", "register", "outer", "setup", "inner", "receive",
            "send", "close", "cleanup", "end"}
  /\ sock \in BOOLEAN /\ addr \in BOOLEAN
  /\ leaked \in Nat /\ failures \in 0..MaxFailures /\ unresolved \in 0..MaxFailures
  /\ buffer \in {"none", "created", "registered"}
  /\ queue \in Seq(Lines) /\ Len(queue) <= Capacity /\ used \in 0..Capacity
  /\ stuck \in BOOLEAN

\* Whichever way the task ends (no memory, no slot, a stop in the middle of a line) its own
\* socket is closed and its address and buffer are freed.  What it does leave open is one
\* socket for each getaddrinfo that failed, and no other.
TaskLeavesNothing ==
  /\ pc \in {"none", "cleanup", "end"} => Open = unresolved /\ ~addr
  /\ pc \in {"none", "end"} => buffer = "none"

\* The task ends once it was told to.
TaskStops == ~task_run /\ pc # "none" ~> pc = "none"

\* Failed calls of getaddrinfo have cost the sender every socket there is.
SocketsLost == unresolved >= Sockets

\* A full buffer gets room again, with three exceptions, in which every later line is lost: a
\* ring buffer after a failed sendto, because the `break' skips vRingbufferReturnItem, a
\* message buffer that has come to a line it cannot hand out, and a sender that has lost its
\* sockets.
FullBufferDrains == used = Capacity ~> used < Capacity \/ stuck \/ Jammed \/ SocketsLost

\* What LogSender promises: the application is told the truth about the task, and only a
\* running task has its buffer registered.
SenderPromise ==
  INSTANCE LogSender WITH
    Buffers <- {1},
    alive <- pc # "none",
    registered <- IF buffer = "registered" THEN {1} ELSE {}

KeepsPromise == SenderPromise!Spec

\* After failed attempts the sender gets a socket again, unless it is stopped or has lost them.
SenderComesBack == pc \in {"outer", "setup"} ~> pc \in {"inner", "none"} \/ SocketsLost

=============================================================================
