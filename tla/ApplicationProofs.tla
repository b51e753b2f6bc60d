------------------------- MODULE ApplicationProofs -------------------------
(***************************************************************************)
(* Proofs about Application, for any buffers and any number of slots.      *)
(***************************************************************************)
EXTENDS Application, TLAPS

\* What is known of the hook, its predecessor and the mutex at each place of app_main.
HookInv ==
  /\ old # "logging_vprintf"
  /\ pc \in {"boot", "hooking"} => hook = "vprintf" /\ ~ignored
  /\ pc = "hooking" => mutex
  /\ pc \in {"delete", "done"} => hook # "logging_vprintf"
  /\ ~ignored /\ pc \notin {"boot", "hooking"} => old = "vprintf"
  /\ ~ignored => hook # "NULL"
  /\ ~ignored /\ pc \in {"delete", "done"} => hook = "vprintf"
  /\ ~ignored /\ pc \notin {"boot", "done"} => mutex

\* The table lists what living tasks have registered.
TableInv ==
  /\ \A e \in table : e[1] \in Senders /\ e[2] \in registered[e[1]]
  /\ \A s \in Senders : /\ registered[s] \subseteq BuffersOf[s]
                        /\ registered[s] # {} => alive[s]

\* How far each sender is, whatever failed.
CallsInv ==
  /\ pc = "serve" => cur = Sse
  /\ pc = "stopping" => app[cur] = "stopping"
  /\ pc = "deinit" => app[cur] \notin {"running", "stopping"}
  /\ pc \in {"boot", "hooking"} => \A s \in Senders : app[s] = "none"
  /\ pc = "init" => \A s \in Senders : s >= cur => app[s] = "none"
  /\ pc = "run" => \A s \in Senders : s > cur => app[s] = "none"
  /\ pc \in {"boot", "hooking", "init", "run"} => \A s \in Senders : app[s] = "none" => ~alive[s]
  /\ \A s \in Senders : app[s] = "ready" => ~alive[s]

\* As long as no failure was passed over, a task lives between run and stop, and the senders
\* that are behind app_main are freed.
CarefulInv ==
  ~ignored =>
    /\ \A s \in Senders : alive[s] => app[s] \in {"running", "stopping"}
    /\ \A s \in Senders : s > Last => app[s] = "none"
    /\ pc \in {"stop", "stopping", "deinit"} => \A s \in Senders : s < cur => app[s] = "none"
    /\ pc \in {"unhook", "delete", "done"} => \A s \in Senders : app[s] = "none"

IInv == TypeOK /\ HookInv /\ HookHasMutex /\ TableInv /\ CallsInv /\ CarefulInv

USE DEF Senders, Sse, Multicast, input, main, core, senders

\* Before app_main, after a boot, nothing is there.
Fresh ==
  /\ example \in {"basic", "sse_server", "uart_select"} /\ repeats \in BOOLEAN
  /\ pc = "boot" /\ cur = Sse /\ ignored = FALSE
  /\ mutex = FALSE /\ hook = "vprintf" /\ old = "NULL" /\ table = {}
  /\ app = [s \in Senders |-> "none"]
  /\ alive = [s \in Senders |-> FALSE]
  /\ registered = [s \in Senders |-> {}]

LEMMA FreshInv == Fresh => IInv
<1> SUFFICES ASSUME Fresh PROVE IInv
  OBVIOUS
<1>1. /\ app \in [Senders -> {"none"}] /\ registered \in [Senders -> {{}}]
      /\ table = {} /\ pc = "boot" /\ cur = 1 /\ ~ignored /\ ~mutex
      /\ hook = "vprintf" /\ old = "NULL"
  BY DEF Fresh
<1>2. \A s \in Senders : app[s] = "none" /\ registered[s] = {}
  BY <1>1
<1>3. alive \in [Senders -> BOOLEAN] /\ \A s \in Senders : ~alive[s]
  BY DEF Fresh
<1>4. registered \in [Senders -> SUBSET AllBuffers]
  BY <1>1
<1>5. TypeOK
  <2>1. cur \in Senders /\ cur <= Last
    BY <1>1 DEF Last
  <2>2. app \in [Senders -> {"none", "ready", "running", "stopping", "stopped", "timedout"}]
    BY <1>1
  <2>3. /\ example \in {"basic", "sse_server", "uart_select"} /\ repeats \in BOOLEAN
        /\ ignored \in BOOLEAN /\ mutex \in BOOLEAN
    BY DEF Fresh
  <2> QED BY <1>1, <1>3, <1>4, <2>1, <2>2, <2>3 DEF TypeOK
<1>6. HookInv /\ HookHasMutex /\ TableInv /\ CallsInv /\ CarefulInv
  BY <1>1, <1>2, <1>3 DEF HookInv, HookHasMutex, TableInv, CallsInv, CarefulInv
<1> QED BY <1>5, <1>6 DEF IInv

LEMMA InitInv == Init => IInv
  BY FreshInv DEF Init, Fresh

LEMMA RebootInv == IInv /\ Reboot => IInv'
<1>1. IInv /\ Reboot => Fresh'
  BY DEF IInv, TypeOK, Reboot, Fresh
<1> QED BY <1>1, FreshInv, PTL

LEMMA StepInv == IInv /\ [Next]_vars => IInv'
<1> SUFFICES ASSUME IInv, [Next]_vars PROVE IInv'
  OBVIOUS
<1> USE DEF IInv, TypeOK, HookInv, HookHasMutex, TableInv, CallsInv, CarefulInv, Last, Goto
<1>1. CASE CreateMutex
  BY <1>1 DEF CreateMutex
<1>2. CASE NoMutex
  BY <1>2, RebootInv DEF NoMutex, Check, Ignore
<1>3. CASE InstallHook
  BY <1>3 DEF InstallHook
<1>4. CASE SenderInit
  BY <1>4 DEF SenderInit
<1>5. CASE SenderInitFails
  <2>1. CASE Check
    BY <2>1, RebootInv DEF Check
  <2>2. CASE Ignore("init", "run") /\ UNCHANGED <<input, cur, core, table, senders>>
    BY <2>2 DEF Ignore
  <2> QED BY <1>5, <2>1, <2>2 DEF SenderInitFails
<1>6. CASE Run
  BY <1>6 DEF Run, Advance
<1>7. CASE RunFails
  <2>1. CASE Check
    BY <2>1, RebootInv DEF Check
  <2>2. CASE Ignore("run", "serve") /\ UNCHANGED <<input, cur, core, table, senders>>
    BY <2>2 DEF Ignore
  <2> QED BY <1>7, <2>1, <2>2 DEF RunFails
<1>8. CASE Serve
  BY <1>8 DEF Serve
<1>9. CASE StopCall
  BY <1>9 DEF StopCall
<1>10. CASE StopNotRunning
  BY <1>10 DEF StopNotRunning
<1>11. CASE StopOk
  BY <1>11 DEF StopOk
<1>12. CASE StopTimeout
  <2>1. CASE Check
    BY <2>1, RebootInv DEF Check
  <2>2. CASE ~Check
    <3>1. /\ cur = Sse /\ pc = "stopping" /\ pc' = "deinit" /\ ignored' = TRUE
          /\ app' = [app EXCEPT ![cur] = "timedout"]
          /\ UNCHANGED <<input, cur, core, table, alive, registered>>
      BY <1>12, <2>2 DEF StopTimeout
    <3> QED BY <3>1
  <2> QED BY <2>1, <2>2
<1>13. CASE SenderDeinit
  BY <1>13 DEF SenderDeinit, Advance
<1>14. CASE Unhook
  BY <1>14 DEF Unhook
<1>15. CASE DeleteMutex
  BY <1>15 DEF DeleteMutex
<1>16. CASE Again
  BY <1>16 DEF Again
<1>17. CASE Crash
  BY <1>17, RebootInv DEF Crash
<1>18. ASSUME NEW s \in Senders, NEW b \in BuffersOf[s], Register(s, b) PROVE IInv'
  BY <1>18 DEF Register, AllBuffers
<1>19. ASSUME NEW s \in Senders, NEW b \in BuffersOf[s], Unregister(s, b) PROVE IInv'
  BY <1>19 DEF Unregister, AllBuffers
<1>20. ASSUME NEW s \in Senders, End(s) PROVE IInv'
  BY <1>20 DEF End
<1>21. CASE UNCHANGED vars
  BY <1>21 DEF vars
<1> QED
  BY <1>1, <1>2, <1>3, <1>4, <1>5, <1>6, <1>7, <1>8, <1>9, <1>10, <1>11, <1>12, <1>13,
     <1>14, <1>15, <1>16, <1>17, <1>18, <1>19, <1>20, <1>21 DEF Next, AppStep, TaskStep

LEMMA IInvCorrect == Spec => []IInv
  BY InitInv, StepInv, PTL DEF Spec

\* Every variable has its type, whatever fails.
THEOREM TypeCorrect == Spec => []TypeOK
<1>1. IInv => TypeOK
  BY DEF IInv
<1> QED BY <1>1, IInvCorrect, PTL

\* The core's mutex outlives the senders' tasks, unless a failure was passed over.
THEOREM CoreOutlivesSendersCorrect == Spec => []CoreOutlivesSenders
<1>1. IInv => CoreOutlivesSenders
  BY DEF IInv, TypeOK, HookInv, CallsInv, CarefulInv, CoreOutlivesSenders
<1> QED BY <1>1, IInvCorrect, PTL

\* netlogging_deinit finds the table empty, unless a failure was passed over.
THEOREM DeinitFindsNoBufferCorrect == Spec => []DeinitFindsNoBuffer
<1>1. IInv => DeinitFindsNoBuffer
  <2> SUFFICES ASSUME IInv, ~ignored, pc \in {"unhook", "delete", "done"} PROVE table = {}
    BY DEF DeinitFindsNoBuffer
  <2>1. \A s \in Senders : ~alive[s]
    BY DEF IInv, CarefulInv
  <2>2. \A s \in Senders : registered[s] = {}
    BY <2>1 DEF IInv, TableInv
  <2> QED BY <2>2 DEF IInv, TableInv
<1> QED BY <1>1, IInvCorrect, PTL

\* The callback has its mutex whenever it can be called, and its predecessor is vprintf.
THEOREM HookHasMutexCorrect == Spec => []HookHasMutex
<1>1. IInv => HookHasMutex
  BY DEF IInv
<1> QED BY <1>1, IInvCorrect, PTL

\* Nothing an application does with the library makes it crash.
CrashFree ==
  ~ignored => hook # "NULL" /\ \A s \in Senders : alive[s] => mutex /\ app[s] # "none"

\* As long as no failure was passed over, no task uses a mutex or a server structure that is
\* not there, and no message meets a NULL callback, in no round.
THEOREM CrashFreeCorrect == Spec => []CrashFree /\ [][Crash => ignored]_vars
<1>1. IInv => CrashFree
  BY DEF IInv, TypeOK, HookInv, CallsInv, CarefulInv, CrashFree
<1>2. CrashFree => [Crash => ignored]_vars
  BY DEF CrashFree, Crash
<1> QED BY <1>1, <1>2, IInvCorrect, PTL

\* What netlogging_deinit relies on, and what it gives back.
LeavesAsFound ==
  ~ignored =>
    /\ pc \in {"unhook", "delete", "done"} => \A s \in Senders : ~alive[s] /\ app[s] = "none"
    /\ pc = "done" => hook = "vprintf"

\* netlogging_deinit is called with every sender ended and freed (MayDeinit of NetLogging), and
\* after it messages go where they went before netlogging_init, in every round.
THEOREM LeavesAsFoundCorrect == Spec => []LeavesAsFound
<1>1. IInv => LeavesAsFound
  BY DEF IInv, TypeOK, HookInv, CarefulInv, LeavesAsFound
<1> QED BY <1>1, IInvCorrect, PTL

-----------------------------------------------------------------------------
(* Each sender is used as LogSender allows. *)

\* What a step leaves alone of a sender, that sender does not notice.
LEMMA Unnoticed ==
  ASSUME NEW s \in Senders, app'[s] = app[s], alive'[s] = alive[s],
         registered'[s] = registered[s]
  PROVE  [Sender(s)!Next]_(Sender(s)!vars)
  BY DEF Sender!vars

LEMMA SendersStep ==
  ASSUME IInv, [Next]_vars, ~Reboot, NEW s \in Senders
  PROVE  [Sender(s)!Next]_(Sender(s)!vars)
<1> USE DEF TypeOK, CallsInv, TableInv, Goto, Sender!Next, Sender!vars
<1>0. /\ app \in [Senders -> {"none", "ready", "running", "stopping", "stopped", "timedout"}]
      /\ DOMAIN alive = Senders /\ DOMAIN registered = Senders
      /\ alive[s] \in BOOLEAN
  BY DEF IInv, TypeOK
<1>1. CASE CreateMutex \/ InstallHook \/ Serve \/ StopNotRunning \/ Unhook \/ DeleteMutex \/ Again
  BY <1>1, Unnoticed
     DEF CreateMutex, InstallHook, Serve, StopNotRunning, Unhook, DeleteMutex, Again
<1>2. CASE NoMutex \/ SenderInitFails \/ RunFails
  BY <1>2, Unnoticed DEF NoMutex, SenderInitFails, RunFails, Check, Ignore
<1>3. CASE SenderInit
  BY <1>0, <1>3 DEF SenderInit, Sender!SenderInit, IInv
<1>4. CASE Run
  BY <1>0, <1>4 DEF Run, Sender!Run, IInv
<1>5. CASE StopCall
  BY <1>0, <1>5 DEF StopCall, Sender!StopCall
<1>6. CASE StopOk
  BY <1>0, <1>6 DEF StopOk, Sender!StopOk, IInv
<1>7. CASE StopTimeout
  <2>1. /\ Goto("stopping", "deinit") /\ app' = [app EXCEPT ![cur] = "timedout"]
        /\ alive[cur] /\ UNCHANGED <<alive, registered>>
    BY <1>7 DEF StopTimeout, Check
  <2> QED BY <1>0, <2>1 DEF Sender!StopTimeout, IInv
<1>8. CASE SenderDeinit
  BY <1>0, <1>8 DEF SenderDeinit, Advance, Sender!Deinit, IInv
<1>9. ASSUME NEW t \in Senders, NEW b \in BuffersOf[t], Register(t, b) \/ Unregister(t, b)
      PROVE  [Sender(s)!Next]_(Sender(s)!vars)
  <2>1. CASE t # s
    BY <1>0, <1>9, <2>1, Unnoticed DEF Register, Unregister
  <2>2. CASE t = s
    <3>1. registered[s] \subseteq BuffersOf[s]
      BY DEF IInv
    <3> QED BY <1>0, <1>9, <2>2, <3>1 DEF Register, Unregister, Sender!Change
  <2> QED BY <2>1, <2>2
<1>10. ASSUME NEW t \in Senders, End(t) PROVE [Sender(s)!Next]_(Sender(s)!vars)
  <2>1. CASE t # s
    BY <1>0, <1>10, <2>1, Unnoticed DEF End
  <2>2. CASE t = s
    BY <1>0, <1>10, <2>2 DEF End, Sender!End
  <2> QED BY <2>1, <2>2
<1>11. CASE UNCHANGED vars
  BY <1>11, Unnoticed DEF vars
<1> QED
  BY <1>1, <1>2, <1>3, <1>4, <1>5, <1>6, <1>7, <1>8, <1>9, <1>10, <1>11
     DEF Next, AppStep, TaskStep, Crash

\* app_main starts, stops and frees each sender in the order that LogSender asks for.
THEOREM UsesSendersCorrect == Spec => UsesSenders
<1>1. IInv /\ [Next]_vars =>
        [Reboot \/ \A s \in Senders : [Sender(s)!Next]_(Sender(s)!vars)]_vars
  BY SendersStep, Zenon
<1> QED BY <1>1, IInvCorrect, PTL DEF Spec, UsesSenders

=============================================================================
