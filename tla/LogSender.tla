----------------------------- MODULE LogSender -----------------------------
(***************************************************************************)
(* What a sender of the library promises to the application that starts    *)
(* and stops it: init, run, stop, deinit, as src/include/net_logging.h      *)
(* declares them for every kind of sender.  SseServer and MulticastSender  *)
(* implement it, and Application is built on it.                           *)
(***************************************************************************)
CONSTANTS
  Buffers,    \* the buffers this sender may register with net_logging.c
  ChecksStop  \* the application acts on the result of stop

VARIABLES
  app,        \* the application: which call returned last
  alive,      \* the sender's task exists
  registered  \* its buffers that are registered

vars == <<app, alive, registered>>

Init == app = "none" /\ alive = FALSE /\ registered = {}

SenderInit == app = "none" /\ app' = "ready" /\ UNCHANGED <<alive, registered>>

\* The task starts without a buffer.
Run ==
  /\ app = "ready" /\ ~alive
  /\ app' = "running" /\ alive' = TRUE
  /\ UNCHANGED registered

\* Stop asks the task to end, and may be repeated after a timeout.
StopCall ==
  /\ app \in {"running", "timedout"}
  /\ app' = "stopping"
  /\ UNCHANGED <<alive, registered>>

\* ESP_OK: the task has ended.
StopOk == app = "stopping" /\ ~alive /\ app' = "stopped" /\ UNCHANGED <<alive, registered>>

StopTimeout == app = "stopping" /\ app' = "timedout" /\ UNCHANGED <<alive, registered>>

Deinit ==
  /\ app \in {"ready", "stopped"} \/ (app = "timedout" /\ ~ChecksStop)
  /\ app' = "none"
  /\ UNCHANGED <<alive, registered>>

\* Only a running task registers and unregisters.
Change == alive /\ registered' \in SUBSET Buffers /\ UNCHANGED <<app, alive>>

\* Its last step leaves nothing registered.
End == alive /\ alive' = FALSE /\ registered = {} /\ UNCHANGED <<app, registered>>

Next ==
  SenderInit \/ Run \/ StopCall \/ StopOk \/ StopTimeout \/ Deinit \/ Change \/ End

Spec == Init /\ [][Next]_vars

=============================================================================
