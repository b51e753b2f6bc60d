# Specification of esp-idf-net-logging

TLA+ modules, TLC runs and TLAPS proofs for the ESP-IDF component
`esp-idf-net-logging`, which redirects log output to network clients. Paths are
relative to the repository root: `src/net_logging.c` is the core.

    tlc -config MCNetLogging_safety.cfg MCNetLogging     # a run; PROJECT.json lists all
    tlapm NetLoggingProofs.tla                           # a proof module, see Proofs

## The system

Every ESP_LOGx call ends in `logging_vprintf`, in the context of the task that
logs. The callback formats the line, takes the mutex, offers the line to up to
six *receive buffers* and gives the mutex back, then writes to stdout. Each log
sender is a task that creates a FreeRTOS message (or ring) buffer, registers it,
forwards what it receives, and unregisters and deletes the buffer at its end.

    tasks that log --> logging_vprintf --+--> buffer --> multicast task --> UDP group
                       (mutex, table)    +--> buffer --+
                                         +--> buffer --+> SSE server task --> browsers

| component | state | operations |
|---|---|---|
| log core, `src/net_logging.c` | callback, mutex, table of six slots, `writeToStdout` | init, deinit, register, unregister, the callback |
| SSE server, `src/builtin_sse_server/sse_server.c` | `server` (event group, `task_run`), listening socket, array of clients (socket, buffer, last activity) | init, run, stop, deinit; `server_task`, `serve_client`, `cleanup_client`, `socket_send`; network event handler |
| multicast sender, `src/builtin_client/multicast_log_sender.c` | `server`, socket, address, buffer | init, run, stop, deinit; `multicast_log_sender`, `multicast_setup` |
| TCP, UDP, HTTP clients, `src/builtin_client/{tcp,udp,http}_client.c` | a parameter block, a buffer, a socket | init (with a notification from the new task), the receive loop |
| MQTT example, `examples/mqtt_pub/mqtt_pub.c` | the same, and a client and an event group | the same, and the event handler |
| example applications, `examples/{basic,sse_server,uart_select}` | the place in `app_main` | init, run, stop and deinit of core, SSE server and multicast sender |
| page, Python receivers, build | | |

How they interact: registration and deletion of buffers against a walk over the
table (mutex); lines (buffers, which drop what does not fit); stop (a flag read
by the server task, and an event bit set by it); network events (another bit);
peers (sockets, which block, fail or are closed at any time).

### What makes each part correct, and what is hard about it

* **Log core.** The callback runs concurrently with itself, with register and
  unregister and with deinit. It must never send to a deleted buffer, send a
  line twice to one buffer, lose a slot, use a deleted mutex, or wait for a slow
  receiver; all receivers must see the lines in one order.
* **SSE server.** One task serves every connection, restarts on failures and
  network changes, and is stopped by another task through a flag and a bit with
  a timeout. Connections, buffers and sockets must be released on each of these
  paths; a client that left must be noticed; stop must mean stopped. One client that
  takes nothing in holds everything up.
* **Multicast sender.** Four ways out of its task, failures with half of the
  resources in hand, recovery after failures.
* **Legacy clients.** Their start handshake has a timeout that races the answer;
  the new task uses its parent's stack frame, handle and notification value.
* **Applications.** Core and senders have to be started and ended in one order,
  whichever call fails, and the library trusts them to do so.

`PROJECT.json` lists the hazards, line by line.

## Modules

| module | models | used by |
|---|---|---|
| `LogBroadcast` | what the core promises: one line at a time is offered to each registered receiver | refined by `NetLogging` |
| `NetLogging` | `net_logging.c` and how a sender uses it | `MCNetLogging`, proofs |
| `LogSender` | what a sender promises: init, run, stop, deinit, and buffers only while its task lives | refined by `SseServer` and `MulticastSender`, used by `Application` |
| `SseServer` | the server task, its application, network events, peers | `MCSseServer`, proofs |
| `SocketSend` | the byte arithmetic of `socket_send` | proofs |
| `Keepalive` | the keep-alive clock of `serve_client` | proofs |
| `MulticastSender` | the multicast task and its application | proofs |
| `NotifyClient` | init and task of the UDP, TCP, HTTP and MQTT clients | proofs |
| `Application` | `app_main` of three examples, over the core and two senders | `MCApplication`, proofs |
| `NetLoggingProofs`, `NetLoggingRefinement` | theorems about `NetLogging`: invariants and order; refinement of `LogBroadcast` | |
| `SseServerProofs`, `SocketSendProofs`, `KeepaliveProofs`, `MulticastSenderProofs`, `NotifyClientProofs`, `ApplicationProofs` | theorems about the module of that name | |

The system in layers: `NetLogging` shows what the callback does with a table of
buffers, and gives `LogBroadcast`. `SseServer` and `MulticastSender` show what a
sender does with its buffers and its application with it, and give `LogSender`.
`Application` puts core and senders together, each sender as `LogSender`, and shows
that `app_main` uses them as `LogSender` allows and the core as `NetLogging`
assumes (no buffer registered at deinit, a mutex wherever one is taken). Where one of
them fails to keep its part, the section on code and documentation says so.

Each definition's lines are in the `map` of `PROJECT.json`. Operators marked
`mutant` are not part of the specification: they are wrong variants of the
definition that follows them. Putting one in its place makes TLC report the
property that `PROJECT.json` names for it, so the property is able to fail.

**NetLogging.** A buffer is identified with the task that receives from it. A
logging task passes through *take* (waits for the mutex), *send* (in the loop,
one slot a step), *stdout*, *idle*. A receiving task creates its buffer, takes
the mutex, registers (or finds the table full and goes to its cleanup), receives,
closes, takes the mutex, unregisters, deletes. A line is a model value and
stands for one call, so it is logged once; with that `SameOrder` and
`ImplementsBroadcast` can tell a line that is sent twice from two equal lines.
A buffer is the sequence of what it accepted and a count of what was received;
a line is dropped when `Capacity` lines wait. A failed malloc and an empty line
leave no trace and are stuttering. Deinit is two steps, because a task can run
between the restoration of the callback and the deletion of the mutex.

**SseServer.** `pc` is the place in `server_task`: *outer*, *create* (reached
after the retry delay, up to `socket()`), *bind* (up to the clearing of the
change bit), *accept*, *serve* (client `slot`), *send* (inside `socket_send`),
*close*. Peers connect, ask for the event stream or for something else, stop and resume reading, and leave
in one of three ways. One that closes its end (FIN, *closed*) looks like "no data" to the
server at first, since `recv` returns 0 and `try_receive` takes that for nothing; lwIP
reports the socket as not connected from the next call on (`Touch`). One that breaks the
connection off (RST, *reset*) makes every call fail. One that vanishes without a word
(*gone*) never makes `recv` fail; only what is sent to it goes unacknowledged (*dying*),
until TCP gives up (`TcpGivesUp`). A peer that stays but takes nothing in keeps the task in
`socket_send` (`Blocked`), and nothing makes it resume. Lines are short or long: a long one
does not fit the array of a message buffer's receiver and jams the buffer (`Jammed`); a ring
buffer hands out both, so a build with ring buffers is one without long lines. Creating a
buffer and registering it is one step here, because the server task does nothing in between
that another task sees.

**MulticastSender.** `pc` follows the two nested loops of the task; message
buffer or ring buffer is chosen in `Init` (`ring`). With a ring buffer a received
item keeps its room until it is returned, in order; `used` and `stuck` express
that. With a message buffer a long line jams it, and `xMessageBufferReceive` times out in
front of a buffer that is not empty. `leaked` counts the sockets that nothing refers to any
more, `unresolved` the failed calls of `getaddrinfo`. Stop may time out at any time:
`getaddrinfo` and `sendto` may take longer than it waits.

**NotifyClient.** The four files are one program but for what a task does between
its start and its notification, and with a line; `kind`, `ring` and `asserts` (does
a failing `LWIP_ASSERT` abort, or has the build left it out) are chosen in `Init`.
Task n is the one of the n-th call of init. The notification value of the caller
is one Boolean, as `xTaskNotifyGive` and `ulTaskNotifyTake(pdTRUE)` use it, and
nothing ties a notification to the call that waits. Init's wait may end at any time
without a notification, also before the new task has run at all: that task has a low
priority, and its parameters are on the stack of an init that does not wait for them to be
copied (`FrameLives`). `overrun` remembers that a task started or notified after its init had
given up, or that an init began while an earlier task was on its way. What happens
next is in the model up to the point where the task takes the system down.
The MQTT task looks at the bit (`CheckBit`) and publishes in a later step; the broker comes and
goes, its events wait for `mqtt_event_handler` (`event`, `HandleEvent`), and
`esp_mqtt_client_stop` waits for the event that is being handled. The room of a ring
buffer item is given back when it is received, not when it is returned: these tasks return
every item.

**Application.** `example` and `repeats` (logging is started again after it was
ended) are chosen in `Init`. Each call may fail; `ESP_ERROR_CHECK` reboots, and
`examples/sse_server`, which checks nothing, goes on and sets `ignored`. A stop times out
when the sender's task is still there; for the multicast sender that reboots, for the SSE
server, whose result of stop no example looks at, it sets `ignored`. The senders are
numbered in the order in which `app_main` handles them. Both options of the basic example
are on, SSE server and multicast.

**SocketSend.** Bytes of `data` are numbered from 1. `send` takes in some bytes,
fails, or reports a full send buffer; the last is let through the error test and
-1 is subtracted from `to_write` like a count, which is why a byte may be sent
twice.

**Keepalive.** Ticks wrap at `TickTypes`; the comparison is the one of the code,
of absolute times. `quiet` remembers, for the properties, how long the stream has
been without an event.

## Runs

| run | what it shows | states |
|---|---|---|
| `core_safety` | table, mutex and order of lines through init, deinit, registration and removal; the code implements `LogBroadcast` | 148 k |
| `core_liveness` | a line that entered the callback reaches stdout whatever the receivers do, also one that is stuck with a long line; only a deinit that deletes the mutex under the logging task stops it, and the run lets that happen | 7 k |
| `core_long_line` | violation: with a message buffer, a line longer than the maximum blocks its receiver | |
| `sse_resources` | no connection or buffer is lost by restarts, failures and stops, and a socket only by a failed start, even if the application ignores the result of stop or runs the server twice | 1.6 M |
| `sse_liveness` | unless a client that takes nothing in holds the task up for ever: it stops, restarts, reclaims entries of peers that left, gives free entries to those who wait, and empties buffers up to a line that jams them; after failed starts it comes back as long as there is a socket; the server implements `LogSender` | 47 k |
| `sse_missed_change` | violation: a network change before the bit is cleared is lost | |
| `send_data` | no byte is passed over, and success means that everything was sent | 1 k |
| `send_prefix` | violation: a full send buffer makes a byte go out twice | |
| `keepalive_uptime` | keep-alive events are neither late nor early before the tick counter wraps | 0.2 k |
| `multicast_lifecycle` | the task leaves nothing behind but one socket per failed `getaddrinfo`, ends when told to, recovers from failures as long as there is a socket, and implements `LogSender`, with either kind of buffer | 3 k |
| `notify_client` | the start handshake of four clients, each build: buffer, socket and broker are there when the task uses them, and a kept buffer is emptied, up to an overrun | 169 k |
| `application` | three examples, every call failing or not, stops that time out, reboots and second rounds: the core is there while a sender uses it and is given back, until a failure is passed over, and the senders are used as they ask | 0.5 k |

**Bounds.** Two loggers suffice for two callbacks to interleave, three senders
and two slots for a full table, a lost slot and a freed slot in front of a used
one, two lines for order and duplication, which are about pairs of lines, a
capacity of one for buffers that are full as soon as they hold a line. Two peers and two
entries with one slot give a server that runs out of slots, of entries and, with three
sockets and one failure, of sockets. Liveness of the server is checked with two peers that
compete for one entry: one is served while the other waits in the backlog, and is held up
when the first one takes nothing in. (A second entry would add one more client that can
do so; with fairness that state space is out of reach. With one entry the exception `HeldUp`
of `FreeEntriesAreTaken` is not needed, since a client that holds the server up has the
entry; with two it is.) `MaxFailures` is as large as
`Sockets` there, and larger in `multicast_lifecycle`, so failing calls use up every socket.
`NotifyClient` has two calls of init, one whose task is late and one that meets
it, with one socket for both, so that a leaked socket is missed. `Application` has
two SSE clients and the multicast sender compete for two slots. In `SocketSend` five bytes and three
full buffers let the position go back more than once from each end; in
`Keepalive` one tick stands for about two seconds.
`MaxFailures`, `MaxBlocked`, `MaxUptime` and `Capacity` are bounds of the checked
instances. `CHECK_DEADLOCK FALSE` is set where the modelled function returns
(`SocketSend`), the bound on the uptime ends the behaviour (`Keepalive`), the
clients' tasks have ended (`NotifyClient`) or `app_main` returns (`Application`).
Symmetry is used in runs without liveness properties only.

**Fairness.** The scheduler runs every ready task, hence weak fairness of each
task's own steps. FreeRTOS hands a mutex to the waiter with the highest priority
that has waited longest, so among tasks of equal priority one that keeps waiting
gets it: strong fairness of the steps that take it. (A system whose
high-priority tasks log without a pause has no such guarantee, and no log
component can give it one.) For the server: ten seconds
without a line pass sooner or later (`SendKeepalive`); a response has an end, so a peer
that takes in data again and again gets all of it (`StreamHeadersSent`, `SendDone`); TCP
stops repeating what nobody acknowledges (`TcpGivesUp`). That a peer that has stopped
reading goes on, or is given up, is not assumed: `socket_send` tries again without end, and
TCP keeps a peer that acknowledges its probes. The properties name this case, as `HeldUp`.
For the multicast sender: its task is scheduled, and `getaddrinfo` and `sendto` return.
For `NotifyClient`: init and each task are scheduled, and what waits for the
network returns, with an answer or without one, except for the `send` of the TCP client,
which has no timeout (`InTcpSend`). For `Application`: `app_main` is scheduled; that a sender
ends when it is told to is not assumed.
Nothing obliges an application to log, start or stop anything, nor a peer to
connect, ask, read or leave.

**Assumptions on the application.** Senders run only between init and deinit of
the core and unregister before deinit, as the header asks. `QuiescentDeinit` (in
`core_safety`): no task is inside the callback when deinit is called. `ChecksStop` (in
`sse_liveness` and `multicast_lifecycle`): the application does not free a sender whose stop
timed out, but calls stop again. `RunsAgain = FALSE` (in `sse_liveness`): a stopped
server is initialised anew before it is run again. A sender is not run while its
earlier task still lives. The library ensures
none of this, and the examples do not keep `ChecksStop` for the SSE server: see the next
section.

## Where code and documentation part

The three violation runs, quoted in full in `PROJECT.json`:

1. The length sent for a truncated line is that of the line before truncation, so a
   message buffer never gives it to a receiver whose array has the configured
   size (`core_long_line`).
2. A network change between `socket()` and `xEventGroupClearBits` is lost
   (`sse_missed_change`).
3. -1 for a full send buffer is subtracted like a count (`send_prefix`).

The rest holds under a value of a constant, with an exception, or until an event, that the
code does not rule out. These are the limits of what the runs show; each can be seen by
changing what is named:

* **Deinit under a running callback.** `netlogging_deinit` deletes the mutex
  (`net_logging.c:160`) under a task that entered the callback before. `core_liveness`
  includes this (`QuiescentDeinit = FALSE`), and `LineReachesStdout` without its exception
  fails. `core_safety` assumes it away: with `FALSE`, `MutualExclusion` fails.
* **Too long lines.** With a message buffer, `FullBufferDrains` of both senders excepts
  `Jammed`. `SseServer` goes on with keep-alive events, `MulticastSender` with timeouts.
* **Clients that take nothing in.** `socket_send` (`sse_server.c:110`) has no timeout: every
  liveness property of the serving loop excepts `HeldUp`. A stop then times out again and again.
* **Stop that timed out.** The documented "stop, deinit" sequence (`README.md:160-161`) and
  the examples free the server without looking at the result. With `ChecksStop = FALSE`,
  `KeepsPromise` fails: the server is gone under its task. `Application` includes this step and
  claims nothing of the core after it.
* **A second run.** With `RunsAgain = TRUE`, `KeepsPromise` fails, since nothing clears
  `STOPPED_BIT` before a second run.
* **Lost sockets.** Each failing `fcntl`, `bind` or `listen` leaves its socket open
  (`sse_server.c:396`), and so does each failing `getaddrinfo` (`multicast_log_sender.c:114`).
  Both are retried without a bound. `ServerComesBack` and `SenderComesBack` except that every
  socket is lost, and fail without the exception.
* **Clients that vanish.** A client without a stream that vanishes silently is never
  reported (`sse_server.c:83`), and its entry is lost until the next restart.
  `GoneClientsAreReclaimed` leaves it out, and fails otherwise. So it is with peers that keep
  a connection open after "Connection: close"; `FreeEntriesAreTaken` is about free entries.
* **A ring buffer item that is not returned.** The `break` after a failed `sendto` passes
  `vRingbufferReturnItem` (`multicast_log_sender.c:192`), and once the buffer is full no line
  gets in: `stuck` in `FullBufferDrains`.
* **Overruns.** `NotifyClient` without `~overrun`: `UsesLiveBuffer` and the properties beside
  it fail. A task that gets to run after init's second copies parameters from a stack frame
  that is gone (`tcp_client.c:37`). A TCP connection that succeeds after more than a second
  notifies an init that has deleted the buffer (`tcp_client.c:136`), and its task goes on to
  receive; or its notification ends the wait of the next init, whose own task is not there
  yet. A refused TCP connection leaves its socket open whatever happens (`tcp_client.c:77`),
  which `SocketsAreHeld` excepts.
* **TCP send.** A peer of the TCP client that takes nothing in keeps its task in `send`
  (`tcp_client.c:95`): `KeptBufferDrains` excepts it.
* **Passed-over failures.** `Application` without `~ignored`: `CoreOutlivesSenders` and
  `DeinitFindsNoBuffer` fail. `examples/sse_server` starts its server after a failed
  `netlogging_init` (`main.c:47`), and at the end installs the NULL in `old_vprintf`, where
  `README.md:175` says that "The original logging vprintf will be restored":
  `HookIsGivenBack` without `mutex` fails.
* **The clock.** `keepalive_uptime` with `MaxUptime` beyond `TickTypes`: both properties fail.
  When `last_activity + timeout` is close to the top of the counter's range, the
  comparison is not true before the counter wraps; when the sum itself has
  wrapped, keep-alive events are sent in every round until the counter follows.
  Also, a stream opened in the first ten seconds after the boot is not sent the
  event that `last_activity = 0` is meant to force (`sse_server.c:254`).

## Proofs

TLC checks the instances above; the theorems hold for every value of the
constants. `TypeOK` of each concrete module is proved (`TypeCorrect`, in `Keepalive` as
part of its `IInv`) and only `NetLogging`'s is also checked by a run. Every invariant that a run
checks is proved, and so are the refinements of `LogBroadcast` and `LogSender`.

### NetLogging

For every number of tasks, buffers, lines and slots, every capacity, and both
kinds of buffer:

* `TypeCorrect`: `Spec => []TypeOK`, with no assumption on the application. It
  needs `HasLine`, that a task inside the callback has a line.
* Under `QuiescentDeinit`: `ListedBuffersExistCorrect`, `TableIsExactCorrect`,
  `MutualExclusionCorrect`.
* `WithinCapacityCorrect`: no buffer holds more lines than it has room for, and no
  receiver takes more than went in. `OnlyLoggedLinesCorrect`: what is in a buffer, on
  stdout or inside the callback is a line that a task logged. Neither assumes anything of
  the application: a deinit under a running callback endangers the table, not the lines.
* Under `QuiescentDeinit`: `SameOrderCorrect`.
* Under `QuiescentDeinit`: `BroadcastCorrect`, that `NetLogging` implements
  `LogBroadcast`.

The inductive invariant is

    IInv == TypeInv /\ Ownership /\ Lifecycle /\ ListedBuffersExist /\ TableIsExact

None of the safety properties is inductive alone. `Ownership` (a task is in its
critical section exactly if it holds the mutex) is what makes the walk over the
table and an edit of it exclusive; it gives `MutualExclusion`, and it makes the
edits of `TableIsExact` atomic. It survives only because the mutex is not
recreated or deleted while someone uses it, which is `Lifecycle`: outside of
init and deinit nobody logs and no buffer is anywhere, and between them the mutex
exists. `Lifecycle` in turn needs the assumption on deinit. `ListedBuffersExist`
needs `TableIsExact`: unregistering clears one slot, so the buffer
must have been in no other.

The refinement maps the registered receivers to the contents of the table, the
line under way to the line of the logging task that holds the mutex, and the
receivers it is still to be offered to to the contents of the slots from its
index on. Taking the mutex is `Publish`, a turn of the loop over a used slot
`Offer`, over an empty one a stutter, and giving the mutex `Finish`. That
`Offer` removes exactly one receiver is `TableIsExact`; that `Register` and `Unregister` find no
line under way is `Ownership`.

`SameOrder` is not inductive either. What keeps it is that the line under way is
the last one of each buffer that has it and is in none that the walk has yet to
come to (`WalkIsLast`), so a push can only put it behind everything else
(`PushKeepsOrder`). A line that waits for the mutex is nowhere (`WaitingIsNew`),
a line is one call of one task (`LinesAreCalls`), and the table lists no buffer
twice (`TableIsExact`); while a task walks, `Ownership` keeps others out.

### SseServer

For any number of peers, entries, sockets, slots and failures, and whatever the
application does: `NothingLeftBehindCorrect`, `EveryBufferHasAClientCorrect`,
`SocketsAccountedCorrect`. The three and `TypeOK` are inductive together with
`Places`: the listening socket is open between its creation and the closing of
everything, and a send goes to an entry in use. `SocketsAccounted` counts with
the library's theorems on cardinalities: an accepted connection is one more entry in
use, a cleanup one fewer, and a start that fails is one lost socket and one
failure. From the same invariant follows an action property,
`EntriesAreGivenUpCorrect`: in no step does an entry pass from one connection to another,
and in the step in which it is given up, its connection is closed and its buffer deleted.

Under `Heeds` (the application acts on the result of stop, and initialises the server
before each run): `KeepsPromiseCorrect`, that the server implements `LogSender`; and
`StoppedIsCleanCorrect`: a server that was stopped, or not yet run, has no task, connection,
buffer or listening socket, and the sockets still open are those of its failed starts, one
for each. Both rest on `Lifecycle`: a server that is not running has no task, and STOPPED_BIT
is set by no living task.

### Keepalive

For every width of the counter, every timeout, every time between rounds and every uptime
under `BeforeTheWrap == MaxUptime + Timeout < TickTypes`, that is up to ten seconds before
the counter wraps after 2^32 ticks: `KeepaliveInTimeCorrect`, `KeepaliveNotTooSoonCorrect`,
`GapIsBoundedCorrect` (two events of a stream are at most the timeout and one round apart)
and `FirstEventIsForcedCorrect` (a stream gets an event in its first round,
when that is later than one timeout after the boot). The hypothesis is needed: beyond it the code keeps neither of
the first two, as the list above says. The invariant adds `ClockIsRight`: `last_activity`
is not in the future, and once an event was sent it is as long ago as the stream is quiet.
`TicksAreTrue` and `DueWhenTimedOut` say that before the wrap the comparison of the code is
the one of the true times.

### MulticastSender, SocketSend

`MulticastSender`, for any number of sockets and failures, any capacity and both
kinds of buffer: `TaskLeavesNothingCorrect`, whatever the application does, and
`KeepsPromiseCorrect` for an application that acts on the result of stop (`ChecksStop`). The
invariant adds what the task holds at each place (`Holds`), the room in the buffer (`Room`)
and `Lifecycle` as above. `Room` is exact and a theorem of its own (`RoomCorrect`): until a
`sendto` fails, the room that is gone is that of the lines that wait and, in a ring buffer,
of the one on its way. It is the reason why `FullBufferDrains` needs `stuck` only after such
a failure. `SocketsAccountedCorrect`: the lost sockets are exactly those of the failed calls
of `getaddrinfo`, and never more are open than there are. `StoppedIsCleanCorrect`, under
`ChecksStop`: after stop no task, address or buffer of the sender is left, and no socket but
the lost ones.

`SocketSend`, for data of any length and any number of full send buffers:
`NoByteSkippedCorrect` and `SuccessSendsAllCorrect`. `Progress` says that each byte in
front of the position has been sent: a full buffer moves the position back, never
forward, so what is sent again leaves nothing out. It counts exactly: the peer has got what
the position says and one byte more for each full buffer, also at a successful return
(`SuccessSendsAll`). `PrefixUnlessFullCorrect` is the converse of what `send_prefix` refutes:
as long as no send buffer was full the peer has a prefix of the data, and after that no byte
is further from its place than there were full buffers.

### NotifyClient, Application

`NotifyClient`, for any number of calls of init, sockets and lines, each of the four
files and every build: `UsesLiveBufferCorrect`,
`KeptBufferHasReaderCorrect`, `SocketsAreHeldCorrect`, `BitIsTrueCorrect`. The invariant
splits into what holds always (`InitInv`, `SocketInv`, `ClientInv`) and what holds up
to an overrun (`SetupInv`, `LoopInv`, `BitInv`): only the last task is alive, it is in
its loop only after its notification was seen or while it waits to be seen, and it
reads from the handle. Overrun or not, `SocketsAreHeldCorrect` and
`NoBufferLostCorrect`: no call of init that gives up leaves a buffer behind. No kind of client
is safe from overruns, as nothing makes init wait for its task to run.

`Application`, for any buffers and any number of slots:
`CoreOutlivesSendersCorrect`, `DeinitFindsNoBufferCorrect`, `HookHasMutexCorrect`,
`UsesSendersCorrect`. `HookInv` follows callback, predecessor and mutex through
`app_main`; `TableInv` says that the table lists what living tasks registered;
`CallsInv` and `CarefulInv` say how far each sender is at each place, with and
without passed-over failures. Two theorems say what that is good for, as long as no
failure was passed over: `CrashFreeCorrect`, that no task uses a mutex or a server that is
not there and no message meets a NULL callback, so the step `Crash` is never taken; and
`LeavesAsFoundCorrect`, that `netlogging_deinit` is called with every sender ended and freed
(the first conjunct of `MayDeinit` in `NetLogging`) and gives back the callback it found.

`UsesSendersCorrect` is half of the composition, the other half being
`KeepsPromiseCorrect` of the two senders. The halves meet exactly for the multicast sender:
it keeps its promise for an application that acts on the result of stop, and the examples
abort when it times out. `Application` uses the SSE server as
`LogSender` with `ChecksStop = FALSE`, because no example looks at the result of stop, while
the server keeps the promise under `Heeds`. They meet as long as no stop times out; one that
does sets `ignored`, and from then on `Application` claims nothing but `HookHasMutex`,
`HookIsGivenBack` and the order of the calls. There is no more to claim: with
`ChecksStop = FALSE` TLC refutes `KeepsPromise`.
A server that is freed while its task is in `socket_send` and initialised again has its new
`STOPPED_BIT` set by the old task, and the next stop returns under a living one.

Only model-checked: the liveness properties, which need fairness and are out of the
prover's reach. There is no recursive definition to prove anything of.

## Not modelled

* In the legacy clients: the handling of HTTP responses (`_http_event_handler`,
  which stores what nothing reads) and `udp_dump`, which nothing calls.
  `CMakeLists.txt` has these files commented out, and none of them registers its
  buffer with the core: the application does, as in the MQTT example.
* In the examples: the calls for UDP, TCP and HTTP, which have no implementation in
  the library that is built, and `uart_select_task`, which has nothing to do with it.
* Two calls of `netlogging_init` in a row, which no example makes: the second
  would save the callback itself as `old_vprintf`.
* The event handler of the server running while the server is freed: `esp_event`
  runs handlers and their unregistration under one lock.
* HTTP parsing and the page beyond these two kinds of request; the contents of
  lines; the Python receivers, the asset tool and the build.
* FreeRTOS, lwIP, `esp_event` and the MQTT library: as external behaviour, as far as
  the code uses it.

## Plan

1. Done: the core, the senders, the legacy clients and the applications, with the
   abstract specifications between them; proofs of every invariant, of the action
   properties and of the refinements.
2. Left: the composition of `Application` with the core's callback (tasks that log during
   init and deinit) in one state space; the HTTP client's responses, if something
   comes to read them.
