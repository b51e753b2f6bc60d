---------------------------- MODULE Application ----------------------------
(***************************************************************************)
(* The library as its applications use it: app_main of examples/basic,      *)
(* examples/sse_server and examples/uart_select.  They initialise the log  *)
(* core, start the SSE server and the multicast sender, let them run, and, *)
(* but for the last, stop and free everything again.                       *)
(*                                                                         *)
(* A sender is what LogSender promises of it, which SseServer and          *)
(* MulticastSender keep: a task that registers and unregisters buffers     *)
(* until it is told to stop.  NetLogging says what the callback does with  *)
(* the table.                                                              *)
(***************************************************************************)
EXTENDS Naturals, FiniteSets

CONSTANTS
  BuffersOf,   \* BuffersOf[s]: the buffers that sender s may register
  NumSlots     \* slots of logBuffers

ASSUME ApplicationAssumption == NumSlots \in Nat

VARIABLES
  example,    \* which of the three
  repeats,    \* it starts the logging again once it has ended it
  pc,         \* the place in app_main
  cur,        \* the sender it is at
  ignored,    \* app_main went on after a call that failed
  mutex,      \* logBuffersMutex # NULL
  hook,       \* the function the log library calls
  old,        \* old_vprintf
  table,      \* logBuffers: its entries, each with the sender it belongs to
  app,        \* of each sender: which call returned last
  alive,      \* its task exists
  registered  \* its buffers that its task has registered

input == <<example, repeats>>
main == <<pc, cur, ignored>>
core == <<mutex, hook, old>>
senders == <<app, alive, registered>>
vars == <<input, main, core, table, senders>>

\* The senders in the order in which app_main starts and stops them.
Sse == 1
Multicast == 2
Senders == {Sse, Multicast}
Last == IF example = "sse_server" THEN Sse ELSE Multicast

Init ==
  /\ example \in {"basic", "sse_server", "uart_select"} /\ repeats \in BOOLEAN
  /\ pc = "boot" /\ cur = Sse /\ ignored = FALSE
  /\ mutex = FALSE /\ hook = "vprintf" /\ old = "NULL" /\ table = {}
  /\ app = [s \in Senders |-> "none"]
  /\ alive = [s \in Senders |-> FALSE]
  /\ registered = [s \in Senders |-> {}]

\* abort(), and the system starts anew.
Reboot ==
  /\ pc' = "boot" /\ cur' = Sse /\ ignored' = FALSE
  /\ mutex' = FALSE /\ hook' = "vprintf" /\ old' = "NULL" /\ table' = {}
  /\ app' = [s \in Senders |-> "none"]
  /\ alive' = [s \in Senders |-> FALSE]
  /\ registered' = [s \in Senders |-> {}]
  /\ UNCHANGED input

-----------------------------------------------------------------------------
(* netlogging_init and netlogging_deinit. *)

Goto(a, b) == pc = a /\ pc' = b

\* A call fails: ESP_ERROR_CHECK aborts; examples/sse_server checks nothing and goes on.
Ignore(a, b) == example = "sse_server" /\ Goto(a, b) /\ ignored' = TRUE
Check == example # "sse_server" /\ Reboot

CreateMutex ==
  /\ Goto("boot", "hooking")
  /\ mutex' = TRUE /\ table' = {}
  /\ UNCHANGED <<input, cur, ignored, hook, old, senders>>

NoMutex ==
  /\ pc = "boot"
  /\ \/ Check
     \/ Ignore("boot", "init") /\ UNCHANGED <<input, cur, core, table, senders>>

InstallHook ==
  /\ Goto("hooking", "init")
  /\ old' = hook /\ hook' = "logging_vprintf"
  /\ UNCHANGED <<input, cur, ignored, mutex, table, senders>>

DeleteFirst ==   \* mutant: the mutex goes before the callback
  /\ Goto("unhook", "delete")
  /\ mutex' = FALSE
  /\ UNCHANGED <<input, cur, ignored, hook, old, table, senders>>

UnhookNot ==   \* mutant: the callback stays
  /\ Goto("unhook", "delete")
  /\ UNCHANGED <<input, cur, ignored, core, table, senders>>

Unhook ==
  /\ Goto("unhook", "delete")
  /\ hook' = old
  /\ UNCHANGED <<input, cur, ignored, mutex, old, table, senders>>

DeleteMutex ==
  /\ Goto("delete", "done")
  /\ mutex' = FALSE
  /\ UNCHANGED <<input, cur, ignored, hook, old, table, senders>>

-----------------------------------------------------------------------------
(* The senders, one after the other. *)

SenderInit ==
  /\ Goto("init", "run")
  /\ app' = [app EXCEPT ![cur] = "ready"]
  /\ UNCHANGED <<input, cur, ignored, core, table, alive, registered>>

SenderInitFails ==
  /\ pc = "init"
  /\ Check \/ (Ignore("init", "run") /\ UNCHANGED <<input, cur, core, table, senders>>)

\* On to the next sender, or past the last.
Advance(a, again, beyond) ==
  /\ pc = a
  /\ IF cur = Last THEN pc' = beyond /\ cur' = Sse ELSE pc' = again /\ cur' = cur + 1

Run ==
  /\ app[cur] = "ready" /\ Advance("run", "init", "serve")
  /\ app' = [app EXCEPT ![cur] = "running"] /\ alive' = [alive EXCEPT ![cur] = TRUE]
  /\ UNCHANGED <<input, ignored, core, table, registered>>

\* No memory for the task, or a sender whose init had failed.
RunFails ==
  /\ pc = "run"
  /\ \/ Check
     \/ /\ Ignore("run", "serve")
        /\ UNCHANGED <<input, cur, core, table, senders>>

\* Thirty log messages later; examples/uart_select runs for ever.
Serve ==
  /\ example # "uart_select" /\ Goto("serve", "stop")
  /\ UNCHANGED <<input, cur, ignored, core, table, senders>>

StopCall ==
  /\ app[cur] = "running" /\ Goto("stop", "stopping")
  /\ app' = [app EXCEPT ![cur] = "stopping"]
  /\ UNCHANGED <<input, cur, ignored, core, table, alive, registered>>

StopNotRunning ==   \* its init or run had failed
  /\ app[cur] \in {"none", "ready"} /\ Goto("stop", "deinit")
  /\ UNCHANGED <<input, cur, ignored, core, table, senders>>

StopReturns ==   \* mutant: stop does not wait
  /\ Goto("stopping", "deinit")
  /\ app' = [app EXCEPT ![cur] = "stopped"]
  /\ UNCHANGED <<input, cur, ignored, core, table, alive, registered>>

StopOk ==
  /\ ~alive[cur] /\ Goto("stopping", "deinit")
  /\ app' = [app EXCEPT ![cur] = "stopped"]
  /\ UNCHANGED <<input, cur, ignored, core, table, alive, registered>>

\* A task that is held up longer than stop waits.  For the multicast sender that is an error
\* like any other; the result of netlogging_sse_server_stop no example looks at.
StopTimeout ==
  /\ pc = "stopping" /\ alive[cur]
  /\ \/ cur = Multicast /\ Check
     \/ /\ cur = Sse /\ Goto("stopping", "deinit")
        /\ ignored' = TRUE
        /\ app' = [app EXCEPT ![cur] = "timedout"]
        /\ UNCHANGED <<input, cur, core, table, alive, registered>>

SenderDeinit ==
  /\ Advance("deinit", "stop", "unhook")
  /\ app' = [app EXCEPT ![cur] = "none"]
  /\ UNCHANGED <<input, ignored, core, table, alive, registered>>

\* An application that starts logging again.
Again ==
  /\ repeats /\ ~ignored /\ Goto("done", "boot")
  /\ UNCHANGED <<input, cur, ignored, core, table, senders>>

-----------------------------------------------------------------------------
(* The senders' tasks. *)

Register(s, b) ==
  /\ alive[s] /\ mutex /\ b \in BuffersOf[s] \ registered[s]
  /\ Cardinality(table) < NumSlots
  /\ table' = table \cup {<<s, b>>}
  /\ registered' = [registered EXCEPT ![s] = @ \cup {b}]
  /\ UNCHANGED <<input, main, core, app, alive>>

Unregister(s, b) ==
  /\ alive[s] /\ mutex /\ b \in registered[s]
  /\ table' = table \ {<<s, b>>}
  /\ registered' = [registered EXCEPT ![s] = @ \ {b}]
  /\ UNCHANGED <<input, main, core, app, alive>>

\* The multicast sender's task also ends when it finds no slot.
End(s) ==
  /\ alive[s] /\ registered[s] = {}
  /\ app[s] # "running" \/ s = Multicast
  /\ alive' = [alive EXCEPT ![s] = FALSE]
  /\ UNCHANGED <<input, main, core, table, app, registered>>

\* The mutex is taken that was never created or is deleted, the server structure is used
\* after it was freed, or a message is logged with a NULL callback.
Crash ==
  /\ \/ \E s \in Senders : alive[s] /\ (~mutex \/ app[s] = "none")
     \/ hook = "NULL"
  /\ Reboot

-----------------------------------------------------------------------------
AppStep ==
  \/ CreateMutex \/ NoMutex \/ InstallHook \/ SenderInit \/ SenderInitFails \/ Run \/ RunFails
  \/ Serve \/ StopCall \/ StopNotRunning \/ StopOk \/ StopTimeout \/ SenderDeinit
  \/ Unhook \/ DeleteMutex

TaskStep(s) == End(s) \/ \E b \in BuffersOf[s] : Register(s, b) \/ Unregister(s, b)

Next == AppStep \/ Again \/ Crash \/ \E s \in Senders : TaskStep(s)

Spec == Init /\ [][Next]_vars

\* app_main is scheduled; that a task ends when it is told to is not assumed.
FairSpec == Spec /\ WF_vars(AppStep)

-----------------------------------------------------------------------------
(* Properties.  Those that begin with ~ignored say what is true of an application as long  *)
(* as it does not go on after a call that failed.                                          *)

AllBuffers == UNION {BuffersOf[s] : s \in Senders}

TypeOK ==
  /\ example \in {"basic", "sse_server", "uart_select"} /\ repeats \in BOOLEAN
  /\ pc \in {"boot", "hooking", "init", "run", "serve", "stop", "stopping", "deinit",
             "unhook", "delete", "done"}
  /\ cur \in Senders /\ cur <= Last /\ ignored \in BOOLEAN
  /\ mutex \in BOOLEAN
  /\ hook \in {"vprintf", "logging_vprintf", "NULL"}
  /\ old \in {"vprintf", "logging_vprintf", "NULL"}
  /\ table \subseteq Senders \X AllBuffers
  /\ app \in [Senders -> {"none", "ready", "running", "stopping", "stopped", "timedout"}]
  /\ alive \in [Senders -> BOOLEAN]
  /\ registered \in [Senders -> SUBSET AllBuffers]

\* The core's mutex is there as long as a task may register or unregister a buffer.
CoreOutlivesSenders == ~ignored => \A s \in Senders : alive[s] => mutex

\* netlogging_deinit: "We assume that all buffers are unregistered at this point."
DeinitFindsNoBuffer == ~ignored /\ pc \in {"unhook", "delete", "done"} => table = {}

\* As long as the callback is installed it has its mutex, and what netlogging_deinit is going to
\* put back is the function that the first netlogging_init has found.
HookHasMutex == hook = "logging_vprintf" => mutex /\ old = "vprintf"

\* Every sender is used as LogSender says: one task at a time, started after init, freed
\* after stop.
Sender(s) ==
  INSTANCE LogSender WITH
    Buffers <- BuffersOf[s], ChecksStop <- FALSE,
    app <- app[s], alive <- alive[s], registered <- registered[s]

UsesSenders == [][Reboot \/ \A s \in Senders : [Sender(s)!Next]_(Sender(s)!vars)]_vars

\* An application that begins to stop comes to its end, or reboots, though its senders' tasks
\* may never end, and then has back the vprintf from before netlogging_init.  Not so when
\* netlogging_init had failed: netlogging_deinit installs the NULL it finds in old_vprintf.
HookIsGivenBack ==
  pc = "stop" /\ mutex ~> pc \in {"done", "boot"} /\ hook = "vprintf"

=============================================================================
