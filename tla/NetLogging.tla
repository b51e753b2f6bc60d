----------------------------- MODULE NetLogging -----------------------------
(***************************************************************************)
(* The core of the component, src/net_logging.c: a vprintf callback that   *)
(* runs in the context of every task that logs, a table of six slots with  *)
(* the receive buffers of the log senders, and the mutex around the table. *)
(*                                                                         *)
(* A receive buffer is identified with the task that owns it (one SSE      *)
(* client, the multicast sender, or an application's own handler), so      *)
(* Buffers doubles as the set of receiving tasks.  A message stands for    *)
(* one formatted line: two calls that print the same text are two          *)
(* messages, which is why a message is logged at most once.                *)
(***************************************************************************)
EXTENDS Integers, Sequences

CONSTANTS
  Loggers,         \* tasks that call ESP_LOGx
  Buffers,         \* buffer handles, each with the task that receives from it
  Messages,        \* log lines, each the argument of one call
  LongMessages,    \* lines whose formatted size exceeds CONFIG_NETLOGGING_MESSAGE_MAX_LENGTH
  NumSlots,        \* length of logBuffers, 6 in the code
  Capacity,        \* messages a buffer of CONFIG_NETLOGGING_BUFFER_SIZE bytes holds
  UseRingbuffer,   \* CONFIG_NETLOGGING_USE_RINGBUFFER
  QuiescentDeinit, \* the application deinitialises only while no task is logging
  NULL

ASSUME NetLoggingAssumption ==
  /\ NumSlots \in Nat \ {0}
  /\ Capacity \in Nat \ {0}
  /\ LongMessages \subseteq Messages
  /\ UseRingbuffer \in BOOLEAN
  /\ QuiescentDeinit \in BOOLEAN
  /\ Loggers \cap Buffers = {}
  /\ NULL \notin Loggers \cup Buffers \cup Messages

VARIABLES
  hook,            \* the function esp_log calls: "default" or "netlogging"
  writeToStdout,
  logBuffersMutex, \* whether the mutex exists (the handle is not NULL)
  holder,          \* the task that holds it, or NULL
  logBuffers,      \* the table
  app,             \* where the application is between init and deinit
  lpc, line, idx,  \* each logger's place in logging_vprintf, its line, its loop index
  logged,          \* lines handed to the callback so far
  printed,         \* lines written to stdout
  bpc,             \* each receiving task's place in its buffer's life
  accepted, taken  \* what a buffer took in since its creation, and how much was received

lvars == <<lpc, line, idx, logged, printed>>
bvars == <<bpc, taken>>
mvars == <<hook, writeToStdout, logBuffersMutex, app>>
vars == <<hook, writeToStdout, logBuffersMutex, holder, logBuffers, app,
          lpc, line, idx, logged, printed, bpc, accepted, taken>>

Slots == 1..NumSlots
Tasks == Loggers \cup Buffers

Init ==
  /\ hook = "default" /\ writeToStdout = FALSE
  /\ logBuffersMutex = FALSE /\ holder = NULL
  /\ logBuffers = [i \in Slots |-> NULL]
  /\ app = "down"
  /\ lpc = [l \in Loggers |-> "idle"]
  /\ line = [l \in Loggers |-> NULL]
  /\ idx = [l \in Loggers |-> 1]
  /\ logged = {} /\ printed = {}
  /\ bpc = [b \in Buffers |-> "none"]
  /\ accepted = [b \in Buffers |-> << >>]
  /\ taken = [b \in Buffers |-> 0]

-----------------------------------------------------------------------------
(* The application: netlogging_init and netlogging_deinit. *)

\* ESP_OK: the mutex exists, the table is empty and the callback is installed last.
InitOk(enableStdout) ==
  /\ app = "down"
  /\ writeToStdout' = enableStdout
  /\ logBuffersMutex' = TRUE /\ holder' = NULL
  /\ logBuffers' = [i \in Slots |-> NULL]
  /\ hook' = "netlogging"
  /\ app' = "up"
  /\ UNCHANGED <<lvars, bvars, accepted>>

\* ESP_ERR_NO_MEM: returns before the table and the callback are touched.
InitNoMem(enableStdout) ==
  /\ app = "down"
  /\ writeToStdout' = enableStdout
  /\ logBuffersMutex' = FALSE
  /\ UNCHANGED <<hook, holder, logBuffers, app, lvars, bvars, accepted>>

\* What the header asks of the caller (every buffer is unregistered) and, when
\* QuiescentDeinit, what the code leaves to luck: nobody is inside the callback.
MayDeinit ==
  /\ \A b \in Buffers : bpc[b] = "none"
  /\ QuiescentDeinit => \A l \in Loggers : lpc[l] = "idle"

\* First half of netlogging_deinit: the previous callback is restored.
DeinitUnhook ==
  /\ app = "up" /\ MayDeinit
  /\ hook' = "default"
  /\ app' = "stopping"
  /\ UNCHANGED <<writeToStdout, logBuffersMutex, holder, logBuffers, lvars, bvars, accepted>>

\* Second half: the mutex is deleted and its handle cleared, whoever holds it or waits for it.
DeinitDelete ==
  /\ app = "stopping"
  /\ logBuffersMutex' = FALSE /\ holder' = NULL
  /\ app' = "down"
  /\ UNCHANGED <<hook, writeToStdout, logBuffers, lvars, bvars, accepted>>

-----------------------------------------------------------------------------
(* xSemaphoreTake(logBuffersMutex, portMAX_DELAY) and xSemaphoreGive. *)

TakeMutex(t) == logBuffersMutex /\ holder = NULL /\ holder' = t
GiveMutex(t) == holder = t /\ holder' = NULL

-----------------------------------------------------------------------------
(* logging_vprintf, run by the task that logs.  A failed malloc and an     *)
(* empty line return at once and leave no trace: they are stuttering.      *)

\* esp_log reads the callback and calls it; the line is formatted.
LogCall(l, m) ==
  /\ lpc[l] = "idle" /\ hook = "netlogging"
  /\ m \notin logged
  /\ logged' = logged \cup {m}
  /\ line' = [line EXCEPT ![l] = m]
  /\ lpc' = [lpc EXCEPT ![l] = "take"]
  /\ UNCHANGED <<mvars, holder, logBuffers, idx, printed, bvars, accepted>>

LogTakeAnyway(l) ==   \* mutant: the result of xSemaphoreTake is not looked at
  /\ lpc[l] = "take" /\ logBuffersMutex
  /\ holder' = IF holder = NULL THEN l ELSE holder
  /\ idx' = [idx EXCEPT ![l] = 1]
  /\ lpc' = [lpc EXCEPT ![l] = "send"]
  /\ UNCHANGED <<mvars, logBuffers, line, logged, printed, bvars, accepted>>

LogTakeNoReset(l) ==   \* mutant: the loop goes on where the last call ended
  /\ lpc[l] = "take"
  /\ TakeMutex(l)
  /\ lpc' = [lpc EXCEPT ![l] = "send"]
  /\ UNCHANGED <<mvars, logBuffers, line, idx, logged, printed, bvars, accepted>>

LogTake(l) ==
  /\ lpc[l] = "take"
  /\ TakeMutex(l)
  /\ idx' = [idx EXCEPT ![l] = 1]
  /\ lpc' = [lpc EXCEPT ![l] = "send"]
  /\ UNCHANGED <<mvars, logBuffers, line, logged, printed, bvars, accepted>>

HasRoom(b) == Len(accepted[b]) - taken[b] < Capacity

\* mutant: the sender waits until the line fits
PushWhileRoom(b, m) == HasRoom(b) /\ accepted' = [accepted EXCEPT ![b] = Append(@, m)]

\* The FromISR sends never wait: a line that does not fit is dropped.
Push(b, m) ==
  accepted' = IF HasRoom(b) THEN [accepted EXCEPT ![b] = Append(@, m)] ELSE accepted

\* One iteration of the loop over the table.
LogSend(l) ==
  /\ lpc[l] = "send" /\ idx[l] <= NumSlots
  /\ \/ /\ logBuffers[idx[l]] # NULL
        /\ Push(logBuffers[idx[l]], line[l])
     \/ /\ logBuffers[idx[l]] = NULL
        /\ UNCHANGED accepted
  /\ idx' = [idx EXCEPT ![l] = @ + 1]
  /\ UNCHANGED <<mvars, holder, logBuffers, lpc, line, logged, printed, bvars>>

LogGiveFrees(l) ==   \* mutant: the line is freed before it is written to stdout
  /\ lpc[l] = "send" /\ idx[l] > NumSlots
  /\ GiveMutex(l)
  /\ lpc' = [lpc EXCEPT ![l] = "stdout"]
  /\ line' = [line EXCEPT ![l] = NULL]
  /\ UNCHANGED <<mvars, logBuffers, idx, logged, printed, bvars, accepted>>

LogGive(l) ==
  /\ lpc[l] = "send" /\ idx[l] > NumSlots
  /\ GiveMutex(l)
  /\ lpc' = [lpc EXCEPT ![l] = "stdout"]
  /\ UNCHANGED <<mvars, logBuffers, line, idx, logged, printed, bvars, accepted>>

\* After the mutex: stdout, free, return.
LogStdout(l) ==
  /\ lpc[l] = "stdout"
  /\ printed' = IF writeToStdout THEN printed \cup {line[l]} ELSE printed
  /\ line' = [line EXCEPT ![l] = NULL]
  /\ lpc' = [lpc EXCEPT ![l] = "idle"]
  /\ UNCHANGED <<mvars, holder, logBuffers, idx, logged, bvars, accepted>>

-----------------------------------------------------------------------------
(* A receiving task: it creates a buffer, registers it, receives, and      *)
(* unregisters it before it deletes it.                                    *)

Goto(b, from, to) == bpc[b] = from /\ bpc' = [bpc EXCEPT ![b] = to]

\* The application starts senders only between init and deinit.
Create(b) ==
  /\ app = "up"
  /\ Goto(b, "none", "created")
  /\ accepted' = [accepted EXCEPT ![b] = << >>]
  /\ taken' = [taken EXCEPT ![b] = 0]
  /\ UNCHANGED <<mvars, holder, logBuffers, lvars>>

RegisterTake(b) ==
  /\ Goto(b, "created", "registering")
  /\ TakeMutex(b)
  /\ UNCHANGED <<mvars, logBuffers, lvars, accepted, taken>>

FirstAny(i) == \A j \in 1..(i - 1) : logBuffers[j] # NULL   \* mutant: slot 1, empty or not

FirstEmpty(i) == logBuffers[i] = NULL /\ \A j \in 1..(i - 1) : logBuffers[j] # NULL

\* ESP_OK: the first empty slot takes the buffer.
RegisterOk(b) ==
  /\ Goto(b, "registering", "registered")
  /\ \E i \in Slots : FirstEmpty(i) /\ logBuffers' = [logBuffers EXCEPT ![i] = b]
  /\ GiveMutex(b)
  /\ UNCHANGED <<mvars, lvars, accepted, taken>>

\* ESP_ERR_NO_MEM: every caller in the repository goes on to its cleanup.
RegisterNoMem(b) ==
  /\ Goto(b, "registering", "closing")
  /\ \A i \in Slots : logBuffers[i] # NULL
  /\ GiveMutex(b)
  /\ UNCHANGED <<mvars, logBuffers, lvars, accepted, taken>>

\* A message buffer leaves a message that is longer than the receiver's array where it is.
Receivable(m) == UseRingbuffer \/ m \notin LongMessages

Receive(b) ==
  /\ bpc[b] = "registered"
  /\ taken[b] < Len(accepted[b])
  /\ Receivable(accepted[b][taken[b] + 1])
  /\ taken' = [taken EXCEPT ![b] = @ + 1]
  /\ UNCHANGED <<mvars, holder, logBuffers, lvars, bpc, accepted>>

\* The sender stops or its connection fails.
Close(b) ==
  /\ Goto(b, "registered", "closing")
  /\ UNCHANGED <<mvars, holder, logBuffers, lvars, accepted, taken>>

UnregisterTake(b) ==
  /\ Goto(b, "closing", "unregistering")
  /\ TakeMutex(b)
  /\ UNCHANGED <<mvars, logBuffers, lvars, accepted, taken>>

ClearNothing(b) == UNCHANGED logBuffers   \* mutant: the slot keeps the buffer

\* ESP_OK when some slot holds the buffer, ESP_ERR_NOT_FOUND when none does.
ClearSlot(b) ==
  \/ \E i \in Slots : logBuffers[i] = b /\ logBuffers' = [logBuffers EXCEPT ![i] = NULL]
  \/ (\A i \in Slots : logBuffers[i] # b) /\ UNCHANGED logBuffers

UnregisterBody(b) ==
  /\ Goto(b, "unregistering", "unregistered")
  /\ ClearSlot(b)
  /\ GiveMutex(b)
  /\ UNCHANGED <<mvars, lvars, accepted, taken>>

\* vMessageBufferDelete or vRingbufferDelete, always after the unregistration.
Delete(b) ==
  /\ Goto(b, "unregistered", "none")
  /\ UNCHANGED <<mvars, holder, logBuffers, lvars, accepted, taken>>

-----------------------------------------------------------------------------
LoggerStep(l) == LogSend(l) \/ LogGive(l) \/ LogStdout(l)
ReceiverStep(b) == RegisterOk(b) \/ RegisterNoMem(b) \/ UnregisterBody(b) \/ Delete(b)

Next ==
  \/ \E e \in BOOLEAN : InitOk(e) \/ InitNoMem(e)
  \/ DeinitUnhook \/ DeinitDelete
  \/ \E l \in Loggers :
       \/ \E m \in Messages : LogCall(l, m)
       \/ LogTake(l) \/ LoggerStep(l)
  \/ \E b \in Buffers :
       \/ Create(b) \/ RegisterTake(b) \/ Receive(b) \/ Close(b) \/ UnregisterTake(b)
       \/ ReceiverStep(b)

\* The scheduler runs every ready task, and FreeRTOS hands the mutex to the waiter that
\* has waited longest, so a task that keeps asking is served.  Nothing obliges the
\* application to log, to open or close a sender, or to deinitialise.
Fairness ==
  /\ \A l \in Loggers : SF_vars(LogTake(l)) /\ WF_vars(LoggerStep(l))
  /\ \A b \in Buffers : /\ SF_vars(RegisterTake(b)) /\ SF_vars(UnregisterTake(b))
                        /\ WF_vars(ReceiverStep(b)) /\ WF_vars(Receive(b))

Spec == Init /\ [][Next]_vars
FairSpec == Spec /\ Fairness

-----------------------------------------------------------------------------
(* Properties. *)

\* Every variable has the type its C counterpart has.
TypeOK ==
  /\ hook \in {"default", "netlogging"}
  /\ writeToStdout \in BOOLEAN
  /\ logBuffersMutex \in BOOLEAN
  /\ holder \in Tasks \cup {NULL}
  /\ logBuffers \in [Slots -> Buffers \cup {NULL}]
  /\ app \in {"down", "up", "stopping"}
  /\ lpc \in [Loggers -> {"idle", "take", "send", "stdout"}]
  /\ line \in [Loggers -> Messages \cup {NULL}]
  /\ idx \in [Loggers -> 1..(NumSlots + 1)]
  /\ logged \subseteq Messages
  /\ printed \subseteq Messages
  /\ bpc \in [Buffers -> {"none", "created", "registering", "registered",
                          "closing", "unregistering", "unregistered"}]
  /\ accepted \in [Buffers -> Seq(Messages)]
  /\ taken \in [Buffers -> Nat]

\* The states in which a receiving task's buffer may be in the table.
MayBeListed == {"registered", "closing", "unregistering"}

\* A buffer in the table exists: logging_vprintf never sends to a buffer that was deleted,
\* whatever the interleaving of a log call with a sender that shuts down.
ListedBuffersExist ==
  \A i \in Slots : logBuffers[i] # NULL => bpc[logBuffers[i]] \in MayBeListed

\* The table is a faithful list of the registered buffers: a buffer whose registration
\* returned ESP_OK is in exactly one slot until it is unregistered, so no slot leaks and
\* no line is sent twice to one buffer.
TableIsExact ==
  /\ \A b \in Buffers : bpc[b] = "registered" => \E i \in Slots : logBuffers[i] = b
  /\ \A i, j \in Slots : logBuffers[i] # NULL /\ logBuffers[i] = logBuffers[j] => i = j

InCriticalSection(t) ==
  \/ t \in Loggers /\ lpc[t] = "send"
  \/ t \in Buffers /\ bpc[t] \in {"registering", "unregistering"}

\* One task at a time walks or edits the table, and it does so on a mutex that exists.
MutualExclusion ==
  \A t \in Tasks : InCriticalSection(t) => holder = t /\ logBuffersMutex

\* Two senders that both took in two lines took them in in the same order, however the
\* logging tasks interleave and whichever lines each buffer had to drop; and no buffer
\* takes a line in twice.
SameOrder ==
  \A b, c \in Buffers :
    \A i, j \in 1..Len(accepted[b]) : \A m, n \in 1..Len(accepted[c]) :
      /\ accepted[b][i] = accepted[c][m]
      /\ accepted[b][j] = accepted[c][n]
      /\ i < j
      => m < n

\* No receiver holds logging up, be it slow, full, or stuck with a line that it cannot
\* receive: a line that entered the callback reaches stdout when stdout is on, unless
\* netlogging_deinit deletes the mutex under the task that logs.
LineReachesStdout ==
  \A l \in Loggers, m \in Messages :
    lpc[l] = "take" /\ line[l] = m /\ writeToStdout ~> m \in printed \/ ~logBuffersMutex

IsHead(b, m) ==
  /\ bpc[b] = "registered"
  /\ taken[b] < Len(accepted[b])
  /\ accepted[b][taken[b] + 1] = m

\* A line at the head of a registered sender's buffer does not stay there: it is received,
\* unless the sender shuts down first.
HeadIsReceived == \A b \in Buffers, m \in Messages : IsHead(b, m) ~> ~IsHead(b, m)

-----------------------------------------------------------------------------
(* What the component promises: LogBroadcast, with the walk of the mutex    *)
(* holder over the table as the broadcast under way.                        *)

Walking == holder \in Loggers
Listed(from) == {logBuffers[i] : i \in from..NumSlots} \ {NULL}

Broadcast == INSTANCE LogBroadcast WITH
  Receivers <- Buffers,
  receivers <- Listed(1),
  current <- IF Walking THEN line[holder] ELSE NULL,
  pending <- IF Walking THEN Listed(idx[holder]) ELSE {}

\* Each line that enters the callback is offered exactly once to each of the buffers that
\* are registered when its turn comes, and to no other, and no registration or removal
\* takes effect in between.
ImplementsBroadcast == Broadcast!Spec

=============================================================================
