----------------------- MODULE MulticastSenderProofs -----------------------
(***************************************************************************)
(* Theorems about MulticastSender, for any number of sockets and failures, *)
(* buffers of every size and of both kinds.  StoppedIsClean and            *)
(* KeepsPromise need an application that acts on the result of stop.       *)
(***************************************************************************)
EXTENDS MulticastSender, TLAPS

\* A received item of a ring buffer keeps its room until it is returned, and only a failed
\* sendto keeps one from being returned: till then the lines that wait and the one on its
\* way are all that takes room.
Room ==
  /\ Len(queue) <= used
  /\ stuck => ring /\ failures > 0
  /\ ~stuck => used = Len(queue) + (IF ring /\ pc = "send" THEN 1 ELSE 0)

\* Every socket that was lost belongs to a getaddrinfo that failed, and lwIP has enough for
\* them all.
SocketsAccounted == leaked = unresolved /\ unresolved <= failures /\ Open <= Sockets

\* What the task holds at each place.
Holds ==
  /\ pc \in {"create", "register", "outer", "setup"} => ~sock /\ ~addr
  /\ pc = "create" => buffer = "none"

IInv == TypeOK /\ Room /\ SocketsAccounted /\ Holds /\ TaskLeavesNothing

LEMMA IInvInit == Init => IInv
<1> SUFFICES ASSUME Init PROVE IInv
  OBVIOUS
<1>1. TypeOK
  <2>1. server \in BOOLEAN /\ task_run \in BOOLEAN /\ stopped \in BOOLEAN
    BY DEF Init
  <2>2. sock \in BOOLEAN /\ addr \in BOOLEAN /\ stuck \in BOOLEAN
    BY DEF Init
  <2>3. /\ queue \in Seq(Lines) /\ Len(queue) <= Capacity /\ used \in 0..Capacity
        /\ leaked \in Nat /\ failures \in 0..MaxFailures /\ unresolved \in 0..MaxFailures
    BY MulticastSenderAssumption DEF Init
  <2> QED BY <2>1, <2>2, <2>3 DEF Init, TypeOK
<1>2. Room
  BY DEF Init, Room
<1>3. SocketsAccounted
  BY MulticastSenderAssumption DEF Init, SocketsAccounted, Open
<1>4. Holds /\ TaskLeavesNothing
  BY DEF Init, Holds, TaskLeavesNothing, Open
<1> QED BY <1>1, <1>2, <1>3, <1>4 DEF IInv

\* The application's calls.
LEMMA AppKeeps == IInv /\ AppStep => IInv'
<1> SUFFICES ASSUME IInv, AppStep PROVE IInv'
  OBVIOUS
<1>1. CASE Run
  <2>1. ~sock
    <3>1. pc = "none"
      BY <1>1 DEF Run
    <3>2. leaked + (IF sock THEN 1 ELSE 0) = leaked /\ leaked \in Nat
      BY <3>1 DEF IInv, TypeOK, TaskLeavesNothing, Open, SocketsAccounted
    <3> QED BY <3>2
  <2>2. /\ UNCHANGED <<server, stopped, svars, bvars>> /\ pc = "none"
        /\ app' = "running" /\ task_run' = TRUE /\ pc' = "create"
    BY <1>1 DEF Run
  <2>3. TypeOK'
    BY <2>2 DEF svars, bvars, IInv, TypeOK
  <2>4. Room' /\ SocketsAccounted'
    BY <2>2 DEF svars, bvars, IInv, Room, SocketsAccounted, Open
  <2>5. Holds' /\ TaskLeavesNothing'
    BY <2>1, <2>2 DEF svars, bvars, IInv, Holds, TaskLeavesNothing, Open
  <2> QED BY <2>3, <2>4, <2>5 DEF IInv
<1>2. CASE ~Run
  <2>1. UNCHANGED <<pc, svars, bvars>>
    BY <1>2 DEF AppStep, SenderInit, RunFails, StopCall, StopOk, StopTimeout, Deinit
  <2>2. TypeOK'
    <3>1. /\ app' \in {"none", "ready", "running", "stopping", "timedout", "stopped"}
          /\ server' \in BOOLEAN /\ task_run' \in BOOLEAN /\ stopped' \in BOOLEAN
      BY <1>2 DEF AppStep, SenderInit, RunFails, StopCall, StopOk, StopTimeout, Deinit, IInv, TypeOK
    <3> QED BY <2>1, <3>1 DEF svars, bvars, IInv, TypeOK
  <2>3. Room' /\ SocketsAccounted' /\ Holds' /\ TaskLeavesNothing'
    BY <2>1 DEF svars, bvars, IInv, Room, SocketsAccounted, Open, Holds, TaskLeavesNothing
  <2> QED BY <2>2, <2>3 DEF IInv
<1> QED BY <1>1, <1>2

\* The task, and the tasks that log.
LEMMA TaskKeeps == IInv /\ (TaskStep \/ Log) => IInv'
<1> SUFFICES ASSUME IInv, TaskStep \/ Log PROVE IInv'
  OBVIOUS
<1> USE MulticastSenderAssumption
<1> USE DEF avars, svars, bvars, IInv, TypeOK, Room, SocketsAccounted, Open, Holds,
            TaskLeavesNothing, Goto
<1>1. CASE CreateBuffer
  <2>1. stuck' \in BOOLEAN /\ ~stuck'
    BY <1>1 DEF CreateBuffer
  <2>2. queue' = <<>> /\ used' = 0
    BY <1>1 DEF CreateBuffer
  <2>3. queue' \in Seq(Lines) /\ Len(queue') = 0
    BY <2>2
  <2> QED BY <1>1, <2>1, <2>2, <2>3 DEF CreateBuffer
<1>2. CASE CreateFails
  BY <1>2 DEF CreateFails
<1>3. CASE Register
  BY <1>3 DEF Register
<1>4. CASE RegisterFails
  BY <1>4 DEF RegisterFails
<1>5. CASE EnterOuter
  BY <1>5 DEF EnterOuter
<1>6. CASE LeaveOuter
  BY <1>6 DEF LeaveOuter
<1>7. CASE Setup
  BY <1>7 DEF Setup
<1>8. CASE SetupFails
  BY <1>8 DEF SetupFails
<1>9. CASE NoSocket
  <2>1. failures' \in 0..MaxFailures /\ failures' \in {failures, failures + 1}
    BY <1>9 DEF NoSocket
  <2> QED BY <1>9, <2>1 DEF NoSocket
<1>10. CASE EnterInner
  BY <1>10 DEF EnterInner
<1>11. CASE LeaveInner
  BY <1>11 DEF LeaveInner
<1>12. CASE Receive
  <2>1. queue # <<>> /\ queue' = Tail(queue)
    BY <1>12 DEF Receive
  <2>2. queue' \in Seq(Lines) /\ Len(queue') = Len(queue) - 1 /\ Len(queue) \in Nat \ {0}
    BY <2>1
  <2>3. /\ pc = "receive" /\ pc' = "send" /\ used' = IF ring THEN used ELSE used - 1
        /\ UNCHANGED <<avars, svars, ring, buffer, stuck>>
    BY <1>12 DEF Receive
  <2>4. TypeOK'
    BY <2>2, <2>3
  <2>5. Room'
    BY <2>2, <2>3
  <2>6. SocketsAccounted' /\ Holds' /\ TaskLeavesNothing'
    BY <2>3
  <2> QED BY <2>4, <2>5, <2>6
<1>13. CASE ReceiveTimeout
  BY <1>13 DEF ReceiveTimeout
<1>14. CASE Send
  <2>1. Len(queue) \in Nat
    OBVIOUS
  <2> QED BY <1>14, <2>1 DEF Send
<1>15. CASE SendFails
  <2>1. Len(queue) \in Nat /\ failures' > 0
    BY <1>15 DEF SendFails
  <2> QED BY <1>15, <2>1 DEF SendFails
<1>16. CASE Close
  <2>1. sock' \in BOOLEAN /\ addr' \in BOOLEAN /\ ~sock' /\ ~addr'
    BY <1>16 DEF Close
  <2>2. pc' = "outer" /\ UNCHANGED <<avars, leaked, failures, unresolved, bvars>>
    BY <1>16 DEF Close
  <2>3. Open' <= Sockets
    BY <2>1, <2>2
  <2>4. TypeOK'
    BY <2>1, <2>2
  <2>5. Room'
    BY <2>2, <1>16 DEF Close
  <2>6. SocketsAccounted' /\ Holds' /\ TaskLeavesNothing'
    BY <2>1, <2>2, <2>3
  <2> QED BY <2>4, <2>5, <2>6
<1>17. CASE Cleanup
  <2>1. stuck' \in BOOLEAN /\ ~stuck'
    BY <1>17 DEF Cleanup
  <2>2. queue' = <<>> /\ used' = 0
    BY <1>17 DEF Cleanup
  <2>3. queue' \in Seq(Lines) /\ Len(queue') = 0
    BY <2>2
  <2> QED BY <1>17, <2>1, <2>2, <2>3 DEF Cleanup
<1>18. CASE End
  BY <1>18 DEF End
<1>19. CASE Log
  <2>1. PICK m \in Lines : queue' = Append(queue, m)
    BY <1>19 DEF Log
  <2>2. queue' \in Seq(Lines) /\ Len(queue') = Len(queue) + 1 /\ Len(queue) \in Nat
    BY <2>1
  <2> QED BY <1>19, <2>2 DEF Log
<1> QED
  BY <1>1, <1>2, <1>3, <1>4, <1>5, <1>6, <1>7, <1>8, <1>9, <1>10, <1>11, <1>12, <1>13, <1>14,
     <1>15, <1>16, <1>17, <1>18, <1>19 DEF TaskStep

LEMMA IInvStep == IInv /\ [Next]_vars => IInv'
<1> SUFFICES ASSUME IInv, UNCHANGED vars PROVE IInv'
  BY AppKeeps, TaskKeeps DEF Next
<1> QED
  BY DEF vars, avars, svars, bvars, IInv, TypeOK, Room, SocketsAccounted, Open, Holds,
         TaskLeavesNothing

LEMMA IInvCorrect == Spec => []IInv
  BY IInvInit, IInvStep, PTL DEF Spec

\* The counts of lines stay in their ranges with either kind of buffer, and so does the rest.
THEOREM TypeCorrect == Spec => []TypeOK
<1>1. IInv => TypeOK
  BY DEF IInv
<1> QED BY <1>1, IInvCorrect, PTL

\* On each of its ways out, whatever the application does, the task closes its own socket and
\* frees its address and its buffer; the sockets left open are those of the calls of
\* getaddrinfo that failed, one for each.
THEOREM TaskLeavesNothingCorrect == Spec => []TaskLeavesNothing
<1>1. IInv => TaskLeavesNothing
  BY DEF IInv
<1> QED BY <1>1, IInvCorrect, PTL

\* Without a failed sendto every line that was taken up gives its room back: the room that is
\* gone is that of the lines that wait and, in a ring buffer, of the one on its way.
THEOREM RoomCorrect == Spec => []Room
<1>1. IInv => Room
  BY DEF IInv
<1> QED BY <1>1, IInvCorrect, PTL

\* The sender has lost exactly one socket for each getaddrinfo that failed, and with the one
\* it holds they never exceed those there are.
THEOREM SocketsAccountedCorrect == Spec => []SocketsAccounted
<1>1. IInv => SocketsAccounted
  BY DEF IInv
<1> QED BY <1>1, IInvCorrect, PTL

-----------------------------------------------------------------------------
(* An application that does not free the sender after a stop that timed out. *)

\* While there is a task its server is there and not yet reported as stopped.
Lifecycle ==
  /\ app = "none" <=> ~server
  /\ app \in {"none", "ready", "stopped"} => pc = "none"
  /\ app = "ready" => ~stopped
  /\ stopped => pc = "none"

LEMMA LifecycleStep == ChecksStop /\ TypeOK /\ Lifecycle /\ [Next]_vars => Lifecycle'
<1> SUFFICES ASSUME ChecksStop, TypeOK, Lifecycle, [Next]_vars PROVE Lifecycle'
  OBVIOUS
<1> USE DEF avars, TypeOK, Lifecycle
<1>1. CASE SenderInit
  <2>1. app' = "ready" /\ server' /\ ~stopped' /\ pc' = pc
    BY <1>1 DEF SenderInit
  <2> QED BY <1>1, <2>1 DEF SenderInit
<1>2. CASE Run
  BY <1>2 DEF Run
<1>3. CASE RunFails \/ StopCall \/ StopTimeout
  BY <1>3 DEF RunFails, StopCall, StopTimeout
<1>4. CASE StopOk
  BY <1>4 DEF StopOk
<1>5. CASE Deinit
  <2>1. app' = "none" /\ ~server' /\ pc' = pc /\ stopped' = stopped
    BY <1>5 DEF Deinit
  <2> QED BY <1>5, <2>1 DEF Deinit
<1>6. CASE End
  BY <1>6 DEF End, Goto
<1>7. CASE TaskStep /\ ~End
  <2>1. UNCHANGED avars /\ pc # "none" /\ pc' # "none"
    BY <1>7
    DEF Goto, TaskStep, CreateBuffer, CreateFails, Register, RegisterFails, EnterOuter,
        LeaveOuter, Setup, SetupFails, NoSocket, EnterInner, LeaveInner, Receive,
        ReceiveTimeout, Send, SendFails, Close, Cleanup
  <2> QED BY <2>1
<1>8. CASE Log
  BY <1>8 DEF Log
<1>9. CASE UNCHANGED vars
  BY <1>9 DEF vars
<1> QED BY <1>1, <1>2, <1>3, <1>4, <1>5, <1>6, <1>7, <1>8, <1>9 DEF Next, AppStep

LEMMA LifecycleCorrect ==
  ASSUME ChecksStop
  PROVE  Spec => [](IInv /\ Lifecycle)
<1>1. Init => Lifecycle
  BY DEF Init, Lifecycle
<1>2. IInv /\ Lifecycle /\ [Next]_vars => Lifecycle'
  BY LifecycleStep, ChecksStop DEF IInv
<1> QED BY <1>1, <1>2, IInvInit, IInvStep, PTL DEF Spec

\* Before a run and after a stop that succeeded there is no task, address or buffer of the
\* sender, and the sockets left open are just those that failed calls of getaddrinfo lost.
StoppedIsClean ==
  app \in {"none", "ready", "stopped"} =>
    pc = "none" /\ ~addr /\ buffer = "none" /\ Open = leaked /\ leaked = unresolved

\* Once stop has succeeded, deinit frees a server that nothing refers to any more, and of
\* what was taken from lwIP only the lost sockets remain.
THEOREM StoppedIsCleanCorrect ==
  ASSUME ChecksStop
  PROVE  Spec => []StoppedIsClean
<1>1. IInv /\ Lifecycle => StoppedIsClean
  BY DEF IInv, Lifecycle, SocketsAccounted, TaskLeavesNothing, StoppedIsClean
<1> QED BY <1>1, LifecycleCorrect, ChecksStop, PTL

-----------------------------------------------------------------------------
(* MulticastSender implements LogSender. *)

LEMMA PromiseInit == Init => SenderPromise!Init
  BY DEF Init, SenderPromise!Init

LEMMA PromiseAppStep ==
  Lifecycle /\ AppStep => SenderPromise!Next \/ UNCHANGED SenderPromise!vars
<1> SUFFICES ASSUME Lifecycle, AppStep
             PROVE  SenderPromise!Next \/ UNCHANGED SenderPromise!vars
  OBVIOUS
<1> USE DEF avars, svars, bvars, Lifecycle, SenderPromise!Next, SenderPromise!vars
<1>1. CASE SenderInit
  BY <1>1 DEF SenderInit, SenderPromise!SenderInit
<1>2. CASE Run
  BY <1>2 DEF Run, SenderPromise!Run
<1>3. CASE RunFails
  BY <1>3 DEF RunFails
<1>4. CASE StopCall
  BY <1>4 DEF StopCall, SenderPromise!StopCall
<1>5. CASE StopOk
  BY <1>5 DEF StopOk, SenderPromise!StopOk
<1>6. CASE StopTimeout
  BY <1>6 DEF StopTimeout, SenderPromise!StopTimeout
<1>7. CASE Deinit
  BY <1>7 DEF Deinit, SenderPromise!Deinit
<1> QED BY <1>1, <1>2, <1>3, <1>4, <1>5, <1>6, <1>7 DEF AppStep

\* A step of the task registers, unregisters, ends the task or is a stutter.
LEMMA PromiseTaskStep ==
  IInv /\ (TaskStep \/ Log) => SenderPromise!Next \/ UNCHANGED SenderPromise!vars
<1> SUFFICES ASSUME IInv, TaskStep \/ Log
             PROVE  SenderPromise!Next \/ UNCHANGED SenderPromise!vars
  OBVIOUS
<1> USE DEF avars, svars, bvars, IInv, TaskLeavesNothing, Goto
<1> DEFINE reg == IF buffer = "registered" THEN {1} ELSE {}
<1>1. CASE End
  <2>1. pc = "end" /\ pc' = "none" /\ buffer = "none" /\ app' = app /\ buffer' = buffer
    BY <1>1 DEF End
  <2> QED BY <2>1 DEF SenderPromise!Next, SenderPromise!End
<1>2. CASE ~End
  <2>1. app' = app /\ pc # "none" /\ pc' # "none"
    <3>1. CASE Log
      BY <3>1 DEF Log
    <3> QED
      BY <1>2, <3>1
      DEF TaskStep, CreateBuffer, CreateFails, Register, RegisterFails, EnterOuter, LeaveOuter,
          Setup, SetupFails, NoSocket, EnterInner, LeaveInner, Receive, ReceiveTimeout, Send,
          SendFails, Close, Cleanup
  <2>2. reg' \in SUBSET {1}
    OBVIOUS
  <2> QED BY <2>1, <2>2 DEF SenderPromise!Next, SenderPromise!Change
<1> QED BY <1>1, <1>2

\* The application is told the truth about the task, and only a running task has its buffer
\* registered: the sender keeps what Application expects of it.
THEOREM KeepsPromiseCorrect ==
  ASSUME ChecksStop
  PROVE  Spec => KeepsPromise
<1>1. IInv /\ Lifecycle /\ [Next]_vars => [SenderPromise!Next]_(SenderPromise!vars)
  <2> SUFFICES ASSUME IInv, Lifecycle, [Next]_vars
               PROVE  SenderPromise!Next \/ UNCHANGED SenderPromise!vars
    OBVIOUS
  <2>1. CASE UNCHANGED vars
    BY <2>1 DEF vars, avars, bvars, SenderPromise!vars
  <2> QED BY <2>1, PromiseAppStep, PromiseTaskStep DEF Next
<1> QED
  BY <1>1, PromiseInit, LifecycleCorrect, ChecksStop, PTL DEF Spec, KeepsPromise, SenderPromise!Spec

=============================================================================
