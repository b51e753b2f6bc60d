-------------------------- MODULE NetLoggingProofs --------------------------
(***************************************************************************)
(* Theorems about NetLogging, for any number of tasks, buffers, lines and  *)
(* slots.  TypeCorrect needs nothing of the application; the others need   *)
(* QuiescentDeinit, since netlogging_deinit deletes the mutex whether or   *)
(* not a task is inside the callback.                                      *)
(***************************************************************************)
EXTENDS NetLogging, TLAPS

\* A task inside the callback has a line.
HasLine == \A l \in Loggers : lpc[l] # "idle" => line[l] \in Messages

TypeInv == TypeOK /\ HasLine

LEMMA TypeInit == Init => TypeInv
<1> SUFFICES ASSUME Init PROVE TypeInv
  OBVIOUS
<1>1. << >> \in Seq(Messages)
  OBVIOUS
<1>2. 1 \in 1..(NumSlots + 1)
  BY NetLoggingAssumption
<1>3. /\ idx \in [Loggers -> 1..(NumSlots + 1)]
      /\ accepted \in [Buffers -> Seq(Messages)]
  BY <1>1, <1>2 DEF Init
<1>4. HasLine
  BY DEF Init, HasLine
<1> QED BY <1>3, <1>4 DEF Init, TypeInv, TypeOK

\* Appending a line keeps what a buffer took in a sequence of lines.
LEMMA PushType ==
  ASSUME TypeInv, NEW b \in Buffers, NEW m \in Messages, Push(b, m)
  PROVE  accepted' \in [Buffers -> Seq(Messages)]
  BY DEF TypeInv, TypeOK, Push

\* Every step keeps the types.
LEMMA TypeStep == TypeInv /\ [Next]_vars => TypeInv'
<1> SUFFICES ASSUME TypeInv, [Next]_vars PROVE TypeInv'
  OBVIOUS
<1> USE NetLoggingAssumption DEF TypeInv, TypeOK, HasLine
<1> USE DEF lvars, bvars, mvars, Tasks
<1>1. ASSUME NEW e \in BOOLEAN, InitOk(e) PROVE TypeInv'
  BY <1>1 DEF InitOk
<1>2. ASSUME NEW e \in BOOLEAN, InitNoMem(e) PROVE TypeInv'
  BY <1>2 DEF InitNoMem
<1>3. CASE DeinitUnhook
  BY <1>3 DEF DeinitUnhook
<1>4. CASE DeinitDelete
  BY <1>4 DEF DeinitDelete
<1>5. ASSUME NEW l \in Loggers, NEW m \in Messages, LogCall(l, m) PROVE TypeInv'
  BY <1>5 DEF LogCall
<1>6. ASSUME NEW l \in Loggers, LogTake(l) PROVE TypeInv'
  BY <1>6 DEF LogTake, TakeMutex
<1>7. ASSUME NEW l \in Loggers, LogSend(l) PROVE TypeInv'
  <2>1. accepted' \in [Buffers -> Seq(Messages)]
    <3>1. CASE logBuffers[idx[l]] = NULL
      BY <1>7, <3>1 DEF LogSend
    <3>2. CASE logBuffers[idx[l]] # NULL
      <4>1. logBuffers[idx[l]] \in Buffers
        BY <1>7, <3>2 DEF LogSend, Slots
      <4>2. line[l] \in Messages /\ Push(logBuffers[idx[l]], line[l])
        BY <1>7, <3>2 DEF LogSend
      <4> QED BY <4>1, <4>2, PushType
    <3> QED BY <3>1, <3>2
  <2>2. idx' \in [Loggers -> 1..(NumSlots + 1)]
    BY <1>7 DEF LogSend
  <2> QED BY <1>7, <2>1, <2>2 DEF LogSend
<1>8. ASSUME NEW l \in Loggers, LogGive(l) PROVE TypeInv'
  BY <1>8 DEF LogGive, GiveMutex
<1>9. ASSUME NEW l \in Loggers, LogStdout(l) PROVE TypeInv'
  BY <1>9 DEF LogStdout
<1>10. ASSUME NEW b \in Buffers, Create(b) PROVE TypeInv'
  BY <1>10 DEF Create, Goto
<1>11. ASSUME NEW b \in Buffers, RegisterTake(b) PROVE TypeInv'
  BY <1>11 DEF RegisterTake, Goto, TakeMutex
<1>12. ASSUME NEW b \in Buffers, RegisterOk(b) PROVE TypeInv'
  BY <1>12 DEF RegisterOk, Goto, GiveMutex
<1>13. ASSUME NEW b \in Buffers, RegisterNoMem(b) PROVE TypeInv'
  BY <1>13 DEF RegisterNoMem, Goto, GiveMutex
<1>14. ASSUME NEW b \in Buffers, Receive(b) PROVE TypeInv'
  BY <1>14 DEF Receive
<1>15. ASSUME NEW b \in Buffers, Close(b) PROVE TypeInv'
  BY <1>15 DEF Close, Goto
<1>16. ASSUME NEW b \in Buffers, UnregisterTake(b) PROVE TypeInv'
  BY <1>16 DEF UnregisterTake, Goto, TakeMutex
<1>17. ASSUME NEW b \in Buffers, UnregisterBody(b) PROVE TypeInv'
  BY <1>17 DEF UnregisterBody, ClearSlot, Goto, GiveMutex
<1>18. ASSUME NEW b \in Buffers, Delete(b) PROVE TypeInv'
  BY <1>18 DEF Delete, Goto
<1>19. CASE UNCHANGED vars
  BY <1>19 DEF vars
<1> QED
  BY <1>1, <1>2, <1>3, <1>4, <1>5, <1>6, <1>7, <1>8, <1>9, <1>10, <1>11, <1>12, <1>13,
     <1>14, <1>15, <1>16, <1>17, <1>18, <1>19 DEF Next, LoggerStep, ReceiverStep

\* Every variable has its type in every reachable state, whatever the application does.
THEOREM TypeCorrect == Spec => []TypeOK
<1>1. TypeInv => TypeOK
  BY DEF TypeInv
<1> QED BY <1>1, TypeInit, TypeStep, PTL DEF Spec

-----------------------------------------------------------------------------
(* Safety, when the application deinitialises only while no task is logging. *)

Quiet ==
  /\ \A b \in Buffers : bpc[b] = "none"
  /\ \A l \in Loggers : lpc[l] = "idle"

\* The mutex belongs to the one task that is in a critical section.
Ownership == \A t \in Tasks : InCriticalSection(t) <=> holder = t

\* The mutex exists from init to deinit, and outside that time nobody is under way.
Lifecycle ==
  /\ logBuffersMutex <=> app # "down"
  /\ hook = "netlogging" => app = "up"
  /\ app # "up" => Quiet

IInv == TypeInv /\ Ownership /\ Lifecycle /\ ListedBuffersExist /\ TableIsExact

LEMMA IInvInit == Init => IInv
<1> SUFFICES ASSUME Init PROVE IInv
  OBVIOUS
<1>1. TypeInv
  BY TypeInit
<1>2. Ownership
  BY NetLoggingAssumption DEF Init, Ownership, InCriticalSection, Tasks
<1>3. Lifecycle
  BY DEF Init, Lifecycle, Quiet
<1>4. ListedBuffersExist /\ TableIsExact
  BY DEF Init, ListedBuffersExist, TableIsExact
<1> QED BY <1>1, <1>2, <1>3, <1>4 DEF IInv

\* Only a task that holds the mutex is in a critical section.
LEMMA OwnershipStep == IInv /\ QuiescentDeinit /\ [Next]_vars => Ownership'
<1> SUFFICES ASSUME IInv, QuiescentDeinit, [Next]_vars PROVE Ownership'
  OBVIOUS
<1> USE NetLoggingAssumption
<1> USE DEF lvars, bvars, mvars, IInv, TypeInv, TypeOK, Tasks, Ownership, InCriticalSection, Lifecycle, Quiet
<1>1. ASSUME NEW e \in BOOLEAN, InitOk(e) PROVE Ownership'
  BY <1>1 DEF InitOk
<1>2. ASSUME NEW e \in BOOLEAN, InitNoMem(e) PROVE Ownership'
  BY <1>2 DEF InitNoMem
<1>3. CASE DeinitUnhook
  BY <1>3 DEF DeinitUnhook, MayDeinit
<1>4. CASE DeinitDelete
  BY <1>4 DEF DeinitDelete
<1>5. ASSUME NEW l \in Loggers, NEW m \in Messages, LogCall(l, m) PROVE Ownership'
  BY <1>5 DEF LogCall
<1>6. ASSUME NEW l \in Loggers, LogTake(l) PROVE Ownership'
  BY <1>6 DEF LogTake, TakeMutex
<1>7. ASSUME NEW l \in Loggers, LogSend(l) PROVE Ownership'
  BY <1>7 DEF LogSend
<1>8. ASSUME NEW l \in Loggers, LogGive(l) PROVE Ownership'
  BY <1>8 DEF LogGive, GiveMutex
<1>9. ASSUME NEW l \in Loggers, LogStdout(l) PROVE Ownership'
  BY <1>9 DEF LogStdout
<1>10. ASSUME NEW b \in Buffers, Create(b) PROVE Ownership'
  BY <1>10 DEF Create, Goto
<1>11. ASSUME NEW b \in Buffers, RegisterTake(b) PROVE Ownership'
  BY <1>11 DEF RegisterTake, Goto, TakeMutex
<1>12. ASSUME NEW b \in Buffers, RegisterOk(b) PROVE Ownership'
  BY <1>12 DEF RegisterOk, FirstEmpty, Goto, GiveMutex
<1>13. ASSUME NEW b \in Buffers, RegisterNoMem(b) PROVE Ownership'
  BY <1>13 DEF RegisterNoMem, Goto, GiveMutex
<1>14. ASSUME NEW b \in Buffers, Receive(b) PROVE Ownership'
  BY <1>14 DEF Receive
<1>15. ASSUME NEW b \in Buffers, Close(b) PROVE Ownership'
  BY <1>15 DEF Close, Goto
<1>16. ASSUME NEW b \in Buffers, UnregisterTake(b) PROVE Ownership'
  BY <1>16 DEF UnregisterTake, Goto, TakeMutex
<1>17. ASSUME NEW b \in Buffers, UnregisterBody(b) PROVE Ownership'
  BY <1>17 DEF UnregisterBody, ClearSlot, Goto, GiveMutex
<1>18. ASSUME NEW b \in Buffers, Delete(b) PROVE Ownership'
  BY <1>18 DEF Delete, Goto
<1>19. CASE UNCHANGED vars
  BY <1>19 DEF vars
<1> QED
  BY <1>1, <1>2, <1>3, <1>4, <1>5, <1>6, <1>7, <1>8, <1>9, <1>10, <1>11, <1>12,
     <1>13, <1>14, <1>15, <1>16, <1>17, <1>18, <1>19 DEF Next, LoggerStep, ReceiverStep

\* The mutex outlives the tasks that use it.
LEMMA LifecycleStep == IInv /\ QuiescentDeinit /\ [Next]_vars => Lifecycle'
<1> SUFFICES ASSUME IInv, QuiescentDeinit, [Next]_vars PROVE Lifecycle'
  OBVIOUS
<1> USE NetLoggingAssumption
<1> USE DEF lvars, bvars, mvars, IInv, TypeInv, TypeOK, Tasks, Lifecycle, Quiet
<1>1. ASSUME NEW e \in BOOLEAN, InitOk(e) PROVE Lifecycle'
  BY <1>1 DEF InitOk
<1>2. ASSUME NEW e \in BOOLEAN, InitNoMem(e) PROVE Lifecycle'
  BY <1>2 DEF InitNoMem
<1>3. CASE DeinitUnhook
  BY <1>3 DEF DeinitUnhook, MayDeinit
<1>4. CASE DeinitDelete
  BY <1>4 DEF DeinitDelete
<1>5. ASSUME NEW l \in Loggers, NEW m \in Messages, LogCall(l, m) PROVE Lifecycle'
  BY <1>5 DEF LogCall
<1>6. ASSUME NEW l \in Loggers, LogTake(l) PROVE Lifecycle'
  BY <1>6 DEF LogTake, TakeMutex
<1>7. ASSUME NEW l \in Loggers, LogSend(l) PROVE Lifecycle'
  BY <1>7 DEF LogSend
<1>8. ASSUME NEW l \in Loggers, LogGive(l) PROVE Lifecycle'
  BY <1>8 DEF LogGive, GiveMutex
<1>9. ASSUME NEW l \in Loggers, LogStdout(l) PROVE Lifecycle'
  BY <1>9 DEF LogStdout
<1>10. ASSUME NEW b \in Buffers, Create(b) PROVE Lifecycle'
  BY <1>10 DEF Create, Goto
<1>11. ASSUME NEW b \in Buffers, RegisterTake(b) PROVE Lifecycle'
  BY <1>11 DEF RegisterTake, Goto, TakeMutex
<1>12. ASSUME NEW b \in Buffers, RegisterOk(b) PROVE Lifecycle'
  BY <1>12 DEF RegisterOk, FirstEmpty, Goto, GiveMutex
<1>13. ASSUME NEW b \in Buffers, RegisterNoMem(b) PROVE Lifecycle'
  BY <1>13 DEF RegisterNoMem, Goto, GiveMutex
<1>14. ASSUME NEW b \in Buffers, Receive(b) PROVE Lifecycle'
  BY <1>14 DEF Receive
<1>15. ASSUME NEW b \in Buffers, Close(b) PROVE Lifecycle'
  BY <1>15 DEF Close, Goto
<1>16. ASSUME NEW b \in Buffers, UnregisterTake(b) PROVE Lifecycle'
  BY <1>16 DEF UnregisterTake, Goto, TakeMutex
<1>17. ASSUME NEW b \in Buffers, UnregisterBody(b) PROVE Lifecycle'
  BY <1>17 DEF UnregisterBody, ClearSlot, Goto, GiveMutex
<1>18. ASSUME NEW b \in Buffers, Delete(b) PROVE Lifecycle'
  BY <1>18 DEF Delete, Goto
<1>19. CASE UNCHANGED vars
  BY <1>19 DEF vars
<1> QED
  BY <1>1, <1>2, <1>3, <1>4, <1>5, <1>6, <1>7, <1>8, <1>9, <1>10, <1>11, <1>12,
     <1>13, <1>14, <1>15, <1>16, <1>17, <1>18, <1>19 DEF Next, LoggerStep, ReceiverStep

\* A buffer leaves the table before it is deleted.
LEMMA ListedStep == IInv /\ QuiescentDeinit /\ [Next]_vars => ListedBuffersExist'
<1> SUFFICES ASSUME IInv, QuiescentDeinit, [Next]_vars PROVE ListedBuffersExist'
  OBVIOUS
<1> USE NetLoggingAssumption
<1> USE DEF lvars, bvars, mvars, IInv, TypeInv, TypeOK, Tasks, ListedBuffersExist, MayBeListed, TableIsExact, Lifecycle, Quiet, Slots
<1>1. ASSUME NEW e \in BOOLEAN, InitOk(e) PROVE ListedBuffersExist'
  BY <1>1 DEF InitOk
<1>2. ASSUME NEW e \in BOOLEAN, InitNoMem(e) PROVE ListedBuffersExist'
  BY <1>2 DEF InitNoMem
<1>3. CASE DeinitUnhook
  BY <1>3 DEF DeinitUnhook, MayDeinit
<1>4. CASE DeinitDelete
  BY <1>4 DEF DeinitDelete
<1>5. ASSUME NEW l \in Loggers, NEW m \in Messages, LogCall(l, m) PROVE ListedBuffersExist'
  BY <1>5 DEF LogCall
<1>6. ASSUME NEW l \in Loggers, LogTake(l) PROVE ListedBuffersExist'
  BY <1>6 DEF LogTake, TakeMutex
<1>7. ASSUME NEW l \in Loggers, LogSend(l) PROVE ListedBuffersExist'
  BY <1>7 DEF LogSend
<1>8. ASSUME NEW l \in Loggers, LogGive(l) PROVE ListedBuffersExist'
  BY <1>8 DEF LogGive, GiveMutex
<1>9. ASSUME NEW l \in Loggers, LogStdout(l) PROVE ListedBuffersExist'
  BY <1>9 DEF LogStdout
<1>10. ASSUME NEW b \in Buffers, Create(b) PROVE ListedBuffersExist'
  BY <1>10 DEF Create, Goto
<1>11. ASSUME NEW b \in Buffers, RegisterTake(b) PROVE ListedBuffersExist'
  BY <1>11 DEF RegisterTake, Goto, TakeMutex
<1>12. ASSUME NEW b \in Buffers, RegisterOk(b) PROVE ListedBuffersExist'
  BY <1>12 DEF RegisterOk, FirstEmpty, Goto, GiveMutex
<1>13. ASSUME NEW b \in Buffers, RegisterNoMem(b) PROVE ListedBuffersExist'
  BY <1>13 DEF RegisterNoMem, Goto, GiveMutex
<1>14. ASSUME NEW b \in Buffers, Receive(b) PROVE ListedBuffersExist'
  BY <1>14 DEF Receive
<1>15. ASSUME NEW b \in Buffers, Close(b) PROVE ListedBuffersExist'
  BY <1>15 DEF Close, Goto
<1>16. ASSUME NEW b \in Buffers, UnregisterTake(b) PROVE ListedBuffersExist'
  BY <1>16 DEF UnregisterTake, Goto, TakeMutex
<1>17. ASSUME NEW b \in Buffers, UnregisterBody(b) PROVE ListedBuffersExist'
  BY <1>17 DEF UnregisterBody, ClearSlot, Goto, GiveMutex
<1>18. ASSUME NEW b \in Buffers, Delete(b) PROVE ListedBuffersExist'
  BY <1>18 DEF Delete, Goto
<1>19. CASE UNCHANGED vars
  BY <1>19 DEF vars
<1> QED
  BY <1>1, <1>2, <1>3, <1>4, <1>5, <1>6, <1>7, <1>8, <1>9, <1>10, <1>11, <1>12,
     <1>13, <1>14, <1>15, <1>16, <1>17, <1>18, <1>19 DEF Next, LoggerStep, ReceiverStep

\* A buffer enters the table once and stays until it is unregistered.
LEMMA TableStep == IInv /\ QuiescentDeinit /\ [Next]_vars => TableIsExact'
<1> SUFFICES ASSUME IInv, QuiescentDeinit, [Next]_vars PROVE TableIsExact'
  OBVIOUS
<1> USE NetLoggingAssumption
<1> USE DEF lvars, bvars, mvars, IInv, TypeInv, TypeOK, Tasks, ListedBuffersExist, MayBeListed, TableIsExact, Lifecycle, Quiet, Slots
<1>1. ASSUME NEW e \in BOOLEAN, InitOk(e) PROVE TableIsExact'
  BY <1>1 DEF InitOk
<1>2. ASSUME NEW e \in BOOLEAN, InitNoMem(e) PROVE TableIsExact'
  BY <1>2 DEF InitNoMem
<1>3. CASE DeinitUnhook
  BY <1>3 DEF DeinitUnhook, MayDeinit
<1>4. CASE DeinitDelete
  BY <1>4 DEF DeinitDelete
<1>5. ASSUME NEW l \in Loggers, NEW m \in Messages, LogCall(l, m) PROVE TableIsExact'
  BY <1>5 DEF LogCall
<1>6. ASSUME NEW l \in Loggers, LogTake(l) PROVE TableIsExact'
  BY <1>6 DEF LogTake, TakeMutex
<1>7. ASSUME NEW l \in Loggers, LogSend(l) PROVE TableIsExact'
  BY <1>7 DEF LogSend
<1>8. ASSUME NEW l \in Loggers, LogGive(l) PROVE TableIsExact'
  BY <1>8 DEF LogGive, GiveMutex
<1>9. ASSUME NEW l \in Loggers, LogStdout(l) PROVE TableIsExact'
  BY <1>9 DEF LogStdout
<1>10. ASSUME NEW b \in Buffers, Create(b) PROVE TableIsExact'
  BY <1>10 DEF Create, Goto
<1>11. ASSUME NEW b \in Buffers, RegisterTake(b) PROVE TableIsExact'
  BY <1>11 DEF RegisterTake, Goto, TakeMutex
<1>12. ASSUME NEW b \in Buffers, RegisterOk(b) PROVE TableIsExact'
  <2>1. PICK i \in Slots : /\ logBuffers[i] = NULL
                            /\ logBuffers' = [logBuffers EXCEPT ![i] = b]
    BY <1>12 DEF RegisterOk, FirstEmpty
  <2>2. bpc[b] = "registering" /\ bpc' = [bpc EXCEPT ![b] = "registered"]
    BY <1>12 DEF RegisterOk, Goto
  <2>3. ASSUME NEW j \in Slots, logBuffers[j] = b PROVE FALSE
    <3>1. b # NULL
      OBVIOUS
    <3>2. bpc[b] \in MayBeListed
      BY <2>3, <3>1
    <3> QED BY <2>2, <3>2
  <2>4. \A c \in Buffers : bpc'[c] = "registered" => \E j \in Slots : logBuffers'[j] = c
    <3>1. ASSUME NEW c \in Buffers, c # b, bpc'[c] = "registered"
          PROVE  \E j \in Slots : logBuffers'[j] = c
      <4>1. bpc[c] = "registered"
        BY <2>2, <3>1
      <4>2. PICK j \in Slots : logBuffers[j] = c
        BY <4>1
      <4>3. logBuffers'[j] = c
        BY <2>1, <4>2
      <4> QED BY <4>3
    <3>2. logBuffers'[i] = b
      BY <2>1
    <3> QED BY <3>1, <3>2
  <2>5. \A j, k \in Slots : logBuffers'[j] # NULL /\ logBuffers'[j] = logBuffers'[k] => j = k
    BY <2>1, <2>3
  <2> QED BY <2>4, <2>5
<1>13. ASSUME NEW b \in Buffers, RegisterNoMem(b) PROVE TableIsExact'
  BY <1>13 DEF RegisterNoMem, Goto, GiveMutex
<1>14. ASSUME NEW b \in Buffers, Receive(b) PROVE TableIsExact'
  BY <1>14 DEF Receive
<1>15. ASSUME NEW b \in Buffers, Close(b) PROVE TableIsExact'
  BY <1>15 DEF Close, Goto
<1>16. ASSUME NEW b \in Buffers, UnregisterTake(b) PROVE TableIsExact'
  BY <1>16 DEF UnregisterTake, Goto, TakeMutex
<1>17. ASSUME NEW b \in Buffers, UnregisterBody(b) PROVE TableIsExact'
  <2>1. bpc[b] = "unregistering" /\ bpc' = [bpc EXCEPT ![b] = "unregistered"]
    BY <1>17 DEF UnregisterBody, Goto
  <2>2. CASE UNCHANGED logBuffers
    BY <2>1, <2>2
  <2>3. ASSUME NEW i \in Slots, logBuffers[i] = b,
               logBuffers' = [logBuffers EXCEPT ![i] = NULL]
        PROVE  TableIsExact'
    <3>1. ASSUME NEW c \in Buffers, bpc'[c] = "registered"
          PROVE  \E j \in Slots : logBuffers'[j] = c
      <4>1. c # b /\ bpc[c] = "registered"
        BY <2>1, <3>1
      <4>2. PICK j \in Slots : logBuffers[j] = c
        BY <4>1
      <4>3. logBuffers'[j] = c
        BY <2>3, <4>1, <4>2
      <4> QED BY <4>3
    <3>2. \A j, k \in Slots : logBuffers'[j] # NULL /\ logBuffers'[j] = logBuffers'[k] => j = k
      BY <2>3
    <3> QED BY <3>1, <3>2
  <2> QED BY <1>17, <2>2, <2>3 DEF UnregisterBody, ClearSlot
<1>18. ASSUME NEW b \in Buffers, Delete(b) PROVE TableIsExact'
  BY <1>18 DEF Delete, Goto
<1>19. CASE UNCHANGED vars
  BY <1>19 DEF vars
<1> QED
  BY <1>1, <1>2, <1>3, <1>4, <1>5, <1>6, <1>7, <1>8, <1>9, <1>10, <1>11, <1>12,
     <1>13, <1>14, <1>15, <1>16, <1>17, <1>18, <1>19 DEF Next, LoggerStep, ReceiverStep

LEMMA IInvStep == IInv /\ QuiescentDeinit /\ [Next]_vars => IInv'
  BY TypeStep, OwnershipStep, LifecycleStep, ListedStep, TableStep DEF IInv

LEMMA IInvCorrect ==
  ASSUME QuiescentDeinit
  PROVE  Spec => []IInv
<1>1. IInv /\ [Next]_vars => IInv'
  BY IInvStep, QuiescentDeinit
<1> QED BY <1>1, IInvInit, PTL DEF Spec

\* logging_vprintf never sends to a buffer that its owner has deleted.
THEOREM ListedBuffersExistCorrect ==
  ASSUME QuiescentDeinit
  PROVE  Spec => []ListedBuffersExist
<1>1. IInv => ListedBuffersExist
  BY DEF IInv
<1> QED BY <1>1, IInvCorrect, QuiescentDeinit, PTL

\* A registered buffer is in exactly one slot, for any number of senders and slots.
THEOREM TableIsExactCorrect ==
  ASSUME QuiescentDeinit
  PROVE  Spec => []TableIsExact
<1>1. IInv => TableIsExact
  BY DEF IInv
<1> QED BY <1>1, IInvCorrect, QuiescentDeinit, PTL

\* One task at a time is in the table's critical sections, on a mutex that exists.
THEOREM MutualExclusionCorrect ==
  ASSUME QuiescentDeinit
  PROVE  Spec => []MutualExclusion
<1>1. IInv => MutualExclusion
  <2> SUFFICES ASSUME IInv, NEW t \in Tasks, InCriticalSection(t)
               PROVE  holder = t /\ logBuffersMutex
    BY DEF MutualExclusion
  <2>1. holder = t
    BY DEF IInv, Ownership
  <2>2. ~Quiet
    BY NetLoggingAssumption DEF InCriticalSection, Quiet, Tasks
  <2>3. logBuffersMutex
    BY <2>2 DEF IInv, Lifecycle
  <2> QED BY <2>1, <2>3
<1> QED BY <1>1, IInvCorrect, QuiescentDeinit, PTL

-----------------------------------------------------------------------------
(* All senders take the lines in in one order. *)

Took(b, m) == \E i \in 1..Len(accepted[b]) : accepted[b][i] = m

\* A buffer takes in lines that were logged, and a line is one call of one task.
LinesAreCalls ==
  /\ \A b \in Buffers : \A i \in 1..Len(accepted[b]) : accepted[b][i] \in logged
  /\ \A l \in Loggers : lpc[l] # "idle" => line[l] \in logged
  /\ \A k, l \in Loggers : lpc[k] # "idle" /\ lpc[l] # "idle" /\ line[k] = line[l] => k = l

\* A line whose task waits for the mutex is in no buffer.
WaitingIsNew ==
  \A l \in Loggers : lpc[l] = "take" => \A b \in Buffers : ~Took(b, line[l])

\* The line under way is the last one in each buffer that took it in, and in none of those
\* that the walk has yet to come to.
WalkIsLast ==
  \A l \in Loggers : lpc[l] = "send" =>
    /\ \A b \in Buffers : \A i \in 1..Len(accepted[b]) :
         accepted[b][i] = line[l] => i = Len(accepted[b])
    /\ \A j \in idx[l]..NumSlots : logBuffers[j] # NULL => ~Took(logBuffers[j], line[l])

OrderInv == LinesAreCalls /\ WaitingIsNew /\ WalkIsLast /\ SameOrder

LEMMA OrderInit == Init => OrderInv
<1> SUFFICES ASSUME Init PROVE OrderInv
  OBVIOUS
<1>1. \A b \in Buffers : accepted[b] = << >> /\ Len(accepted[b]) = 0
  BY DEF Init
<1>2. \A l \in Loggers : lpc[l] = "idle"
  BY DEF Init
<1> QED
  BY <1>1, <1>2 DEF OrderInv, LinesAreCalls, WaitingIsNew, WalkIsLast, SameOrder

\* Appending the line under way to a buffer that has not got it keeps the order: wherever
\* else the line is, it is last.
LEMMA PushKeepsOrder ==
  ASSUME TypeInv, SameOrder, NEW b \in Buffers, NEW m \in Messages,
         ~Took(b, m),
         \A c \in Buffers : \A i \in 1..Len(accepted[c]) :
           accepted[c][i] = m => i = Len(accepted[c]),
         accepted' = [accepted EXCEPT ![b] = Append(@, m)]
  PROVE  SameOrder'
<1> DEFINE last == Len(accepted[b]) + 1
<1>1. \A c \in Buffers : accepted[c] \in Seq(Messages) /\ Len(accepted[c]) \in Nat
  BY DEF TypeInv, TypeOK
<1>2. /\ Len(accepted'[b]) = last /\ accepted'[b][last] = m
      /\ \A i \in 1..Len(accepted[b]) : accepted'[b][i] = accepted[b][i]
      /\ \A c \in Buffers : c # b => accepted'[c] = accepted[c]
  BY <1>1 DEF TypeInv, TypeOK
<1> SUFFICES ASSUME NEW c \in Buffers, NEW d \in Buffers
             PROVE  \A i, j \in 1..Len(accepted'[c]) : \A p, q \in 1..Len(accepted'[d]) :
                      /\ accepted'[c][i] = accepted'[d][p]
                      /\ accepted'[c][j] = accepted'[d][q]
                      /\ i < j
                      => p < q
  BY Zenon DEF SameOrder
<1> TAKE i, j \in 1..Len(accepted'[c])
<1> TAKE p, q \in 1..Len(accepted'[d])
<1> HAVE accepted'[c][i] = accepted'[d][p] /\ accepted'[c][j] = accepted'[d][q] /\ i < j
\* An entry of the new sequences is an old one, or the new one at the end of b.
<1>3. ASSUME NEW e \in Buffers, NEW k \in 1..Len(accepted'[e])
      PROVE  \/ k \in 1..Len(accepted[e]) /\ accepted'[e][k] = accepted[e][k]
             \/ e = b /\ k = last /\ accepted'[e][k] = m
  <2>1. CASE e # b
    BY <1>2, <2>1
  <2>2. CASE e = b
    <3>1. k \in 1..last
      BY <1>2, <2>2
    <3>2. CASE k = last
      BY <1>2, <2>2, <3>2
    <3>3. CASE k # last
      <4>1. k \in 1..Len(accepted[b])
        BY <1>1, <3>1, <3>3
      <4> QED BY <1>2, <2>2, <4>1
    <3> QED BY <3>2, <3>3
  <2> QED BY <2>1, <2>2
\* In the new sequences, too, the line is last wherever it is.
<1>4. ASSUME NEW e \in Buffers, NEW k \in 1..Len(accepted'[e]), accepted'[e][k] = m
      PROVE  k = Len(accepted'[e])
  <2>1. CASE e = b
    <3>1. ~(k \in 1..Len(accepted[b]) /\ accepted'[b][k] = accepted[b][k])
      BY <1>4, <2>1 DEF Took
    <3> QED BY <1>2, <1>3, <2>1, <3>1
  <2>2. CASE e # b
    BY <1>2, <1>4, <2>2
  <2> QED BY <2>1, <2>2
<1> HIDE DEF last
<1>5. i \in Nat /\ j \in Nat /\ p \in Nat /\ q \in Nat
  BY <1>1, <1>2, <1>3 DEF last
<1>6. Len(accepted'[c]) \in Nat /\ Len(accepted'[d]) \in Nat
  BY <1>1, <1>2 DEF last
<1>7. accepted'[c][i] # m
  <2> SUFFICES ASSUME accepted'[c][i] = m PROVE FALSE
    OBVIOUS
  <2>1. i # Len(accepted'[c])
    BY <1>5, <1>6
  <2>2. i = Len(accepted'[c])
    BY <1>4, Zenon
  <2> QED BY <2>1, <2>2
<1>8. CASE accepted'[c][j] = m
  <2>1. accepted'[d][q] = m /\ p # q
    BY <1>7, <1>8
  <2>2. q = Len(accepted'[d])
    BY <1>4, <2>1
  <2> QED BY <1>5, <1>6, <2>1, <2>2
<1>9. CASE accepted'[c][j] # m
  <2>1. /\ i \in 1..Len(accepted[c]) /\ accepted'[c][i] = accepted[c][i]
        /\ j \in 1..Len(accepted[c]) /\ accepted'[c][j] = accepted[c][j]
        /\ p \in 1..Len(accepted[d]) /\ accepted'[d][p] = accepted[d][p]
        /\ q \in 1..Len(accepted[d]) /\ accepted'[d][q] = accepted[d][q]
    BY <1>3, <1>7, <1>9
  <2> QED BY <2>1 DEF SameOrder
<1> QED BY <1>8, <1>9

\* A turn of the walk.
LEMMA SendKeeps ==
  ASSUME IInv, OrderInv, NEW l \in Loggers, LogSend(l)
  PROVE  OrderInv'
<1> USE DEF lvars, bvars, mvars
<1>1. /\ lpc[l] = "send" /\ lpc' = lpc /\ line' = line /\ logged' = logged
      /\ logBuffers' = logBuffers /\ idx' = [idx EXCEPT ![l] = @ + 1]
      /\ idx[l] \in 1..NumSlots /\ idx[l] \in Slots
      /\ line[l] \in Messages /\ idx'[l] = idx[l] + 1
  BY NetLoggingAssumption DEF LogSend, IInv, TypeInv, TypeOK, HasLine, Slots
\* No other task walks.
<1>2. ASSUME NEW k \in Loggers, lpc[k] = "send" PROVE k = l
  BY <1>1, <1>2 DEF IInv, Ownership, InCriticalSection, Tasks
<1>3. CASE accepted' = accepted
  <2>1. LinesAreCalls' /\ WaitingIsNew' /\ SameOrder'
    BY <1>1, <1>3 DEF OrderInv, LinesAreCalls, WaitingIsNew, SameOrder, Took
  <2>2. \A j \in idx'[l]..NumSlots : j \in idx[l]..NumSlots
    BY <1>1, NetLoggingAssumption
  <2>3. WalkIsLast'
    <3> SUFFICES ASSUME NEW k \in Loggers, lpc'[k] = "send"
                 PROVE  /\ \A b \in Buffers : \A i \in 1..Len(accepted[b]) :
                             accepted[b][i] = line[k] => i = Len(accepted[b])
                        /\ \A j \in idx'[k]..NumSlots :
                             logBuffers[j] # NULL => ~Took(logBuffers[j], line[k])
      BY <1>1, <1>3 DEF WalkIsLast, Took
    <3>1. k = l
      BY <1>1, <1>2
    <3> QED BY <1>1, <2>2, <3>1 DEF OrderInv, WalkIsLast
  <2> QED BY <2>1, <2>3 DEF OrderInv
<1>4. CASE accepted' # accepted
  <2> DEFINE b == logBuffers[idx[l]]
             m == line[l]
  <2>1. b # NULL /\ b \in Buffers /\ accepted' = [accepted EXCEPT ![b] = Append(@, m)]
    BY <1>1, <1>4 DEF LogSend, Push, IInv, TypeInv, TypeOK
  <2>2. /\ ~Took(b, m)
        /\ \A c \in Buffers : \A i \in 1..Len(accepted[c]) :
             accepted[c][i] = m => i = Len(accepted[c])
    <3>1. idx[l] \in idx[l]..NumSlots
      BY <1>1, NetLoggingAssumption
    <3> QED BY <1>1, <2>1, <3>1 DEF OrderInv, WalkIsLast
  <2>3. m \in Messages /\ \A c \in Buffers : accepted[c] \in Seq(Messages)
    BY <1>1 DEF IInv, TypeInv, TypeOK
  <2>4. /\ Len(accepted'[b]) = Len(accepted[b]) + 1 /\ Len(accepted[b]) \in Nat
        /\ accepted'[b][Len(accepted[b]) + 1] = m
        /\ \A i \in 1..Len(accepted[b]) : accepted'[b][i] = accepted[b][i]
        /\ \A c \in Buffers : c # b => accepted'[c] = accepted[c]
    BY <2>1, <2>3 DEF IInv, TypeInv, TypeOK
  <2>5. SameOrder'
    BY <1>1, <2>1, <2>2, PushKeepsOrder DEF IInv, OrderInv
  <2> HIDE DEF b, m
  <2>6. ASSUME NEW c \in Buffers, NEW i \in 1..Len(accepted'[c])
        PROVE  \/ i \in 1..Len(accepted[c]) /\ accepted'[c][i] = accepted[c][i]
               \/ c = b /\ i = Len(accepted'[b]) /\ accepted'[c][i] = m
    <3>1. CASE c # b
      BY <2>4, <3>1
    <3>2. CASE c = b
      <4>1. i \in 1..(Len(accepted[b]) + 1)
        BY <2>4, <3>2
      <4>2. i \in 1..Len(accepted[b]) \/ i = Len(accepted[b]) + 1
        BY <2>4, <4>1
      <4> QED BY <2>4, <3>2, <4>2
    <3> QED BY <3>1, <3>2
  <2>7. ASSUME NEW c \in Buffers, NEW x, x # m, Took(c, x)'
        PROVE  Took(c, x)
    BY <2>6, <2>7 DEF Took
  <2>8. LinesAreCalls'
    <3>1. m \in logged
      BY <1>1 DEF OrderInv, LinesAreCalls, m
    <3>2. \A c \in Buffers : \A i \in 1..Len(accepted'[c]) : accepted'[c][i] \in logged'
      BY <1>1, <2>6, <3>1 DEF OrderInv, LinesAreCalls
    <3> QED BY <1>1, <3>2 DEF OrderInv, LinesAreCalls
  <2>9. WaitingIsNew'
    <3> SUFFICES ASSUME NEW k \in Loggers, lpc'[k] = "take", NEW c \in Buffers,
                        Took(c, line[k])'
                 PROVE  FALSE
      BY <1>1 DEF WaitingIsNew, Took
    <3>1. line[k] # m
      BY <1>1 DEF OrderInv, LinesAreCalls, m
    <3>2. Took(c, line[k])
      BY <1>1, <3>1, <2>6 DEF Took
    <3> QED BY <1>1, <3>2 DEF OrderInv, WaitingIsNew
  <2>10. WalkIsLast'
    <3>1. ASSUME NEW c \in Buffers, NEW i \in 1..Len(accepted'[c]), accepted'[c][i] = m
          PROVE  i = Len(accepted'[c])
      <4>1. CASE c = b
        <5>1. ~(i \in 1..Len(accepted[b]) /\ accepted'[b][i] = accepted[b][i])
          BY <2>2, <3>1, <4>1 DEF Took, b, m
        <5> QED BY <2>6, <4>1, <5>1
      <4>2. CASE c # b
        BY <2>2, <2>4, <3>1, <4>2 DEF b, m
      <4> QED BY <4>1, <4>2
    <3>2. ASSUME NEW j \in idx'[l]..NumSlots, logBuffers[j] # NULL
          PROVE  ~Took(logBuffers[j], line[l])'
      <4>1. j \in Slots /\ j # idx[l] /\ j \in idx[l]..NumSlots
        BY <1>1, NetLoggingAssumption DEF Slots
      <4>2. logBuffers[j] \in Buffers /\ logBuffers[j] # b
        BY <1>1, <3>2, <4>1 DEF IInv, TableIsExact, TypeInv, TypeOK, b
      <4>3. ~Took(logBuffers[j], m)
        BY <1>1, <3>2, <4>1 DEF OrderInv, WalkIsLast, m
      <4>4. accepted'[logBuffers[j]] = accepted[logBuffers[j]]
        BY <2>4, <4>2
      <4> QED BY <1>1, <4>3, <4>4 DEF Took, m
    <3>3. m = line'[l] /\ lpc' = lpc /\ logBuffers' = logBuffers
      BY <1>1 DEF m
    <3> SUFFICES ASSUME NEW k \in Loggers, lpc'[k] = "send"
                 PROVE  /\ \A c \in Buffers : \A i \in 1..Len(accepted'[c]) :
                             accepted'[c][i] = line'[k] => i = Len(accepted'[c])
                        /\ \A j \in idx'[k]..NumSlots :
                             logBuffers'[j] # NULL => ~Took(logBuffers[j], line[k])'
      BY DEF WalkIsLast
    <3>4. k = l
      BY <1>2, <3>3
    <3>5. idx'[k] = idx'[l] /\ line'[k] = m
      BY <3>3, <3>4
    <3>6. ASSUME NEW j \in idx'[l]..NumSlots, logBuffers'[j] # NULL
          PROVE  ~Took(logBuffers[j], line[k])'
      BY <1>2, <3>2, <3>3, <3>4, <3>6 DEF Took
    <3> QED BY <3>1, <3>5, <3>6
  <2> QED BY <2>5, <2>8, <2>9, <2>10 DEF OrderInv
<1> QED BY <1>3, <1>4

\* Every step keeps the order.
LEMMA OrderStep == QuiescentDeinit /\ IInv /\ OrderInv /\ [Next]_vars => OrderInv'
<1> SUFFICES ASSUME QuiescentDeinit, IInv, OrderInv, [Next]_vars PROVE OrderInv'
  OBVIOUS
<1> USE NetLoggingAssumption
<1> USE DEF lvars, bvars, mvars, OrderInv, LinesAreCalls, WaitingIsNew, WalkIsLast, Took, SameOrder
\* While a task edits the table no task walks over it.
<1>0. ASSUME NEW b \in Buffers, bpc[b] \in {"registering", "unregistering"}, NEW l \in Loggers
      PROVE  lpc[l] # "send"
  BY <1>0 DEF IInv, Ownership, InCriticalSection, Tasks
<1>1. ASSUME NEW e \in BOOLEAN, InitOk(e) PROVE OrderInv'
  <2>1. \A l \in Loggers : lpc[l] = "idle"
    BY <1>1 DEF InitOk, IInv, Lifecycle, Quiet
  <2> QED BY <1>1, <2>1 DEF InitOk
<1>2. ASSUME NEW e \in BOOLEAN, InitNoMem(e) PROVE OrderInv'
  BY <1>2 DEF InitNoMem
<1>3. CASE DeinitUnhook
  BY <1>3 DEF DeinitUnhook
<1>4. CASE DeinitDelete
  BY <1>4 DEF DeinitDelete
<1>5. ASSUME NEW l \in Loggers, NEW m \in Messages, LogCall(l, m) PROVE OrderInv'
  BY <1>5 DEF LogCall, IInv, TypeInv, TypeOK
<1>6. ASSUME NEW l \in Loggers, LogTake(l) PROVE OrderInv'
  BY <1>6 DEF LogTake, TakeMutex, IInv, TypeInv, TypeOK, Slots
<1>7. ASSUME NEW l \in Loggers, LogSend(l) PROVE OrderInv'
  BY <1>7, SendKeeps
<1>8. ASSUME NEW l \in Loggers, LogGive(l) PROVE OrderInv'
  BY <1>8 DEF LogGive, IInv, TypeInv, TypeOK
<1>9. ASSUME NEW l \in Loggers, LogStdout(l) PROVE OrderInv'
  BY <1>9 DEF LogStdout, IInv, TypeInv, TypeOK
<1>10. ASSUME NEW b \in Buffers, Create(b) PROVE OrderInv'
  BY <1>10 DEF Create, Goto, IInv, TypeInv, TypeOK
<1>11. ASSUME NEW b \in Buffers, RegisterTake(b) PROVE OrderInv'
  BY <1>11 DEF RegisterTake, Goto
<1>12. ASSUME NEW b \in Buffers, RegisterOk(b) PROVE OrderInv'
  BY <1>12, <1>0 DEF RegisterOk, Goto
<1>13. ASSUME NEW b \in Buffers, RegisterNoMem(b) PROVE OrderInv'
  BY <1>13 DEF RegisterNoMem, Goto
<1>14. ASSUME NEW b \in Buffers, Receive(b) PROVE OrderInv'
  BY <1>14 DEF Receive
<1>15. ASSUME NEW b \in Buffers, Close(b) PROVE OrderInv'
  BY <1>15 DEF Close, Goto
<1>16. ASSUME NEW b \in Buffers, UnregisterTake(b) PROVE OrderInv'
  BY <1>16 DEF UnregisterTake, Goto
<1>17. ASSUME NEW b \in Buffers, UnregisterBody(b) PROVE OrderInv'
  BY <1>17, <1>0 DEF UnregisterBody, Goto
<1>18. ASSUME NEW b \in Buffers, Delete(b) PROVE OrderInv'
  BY <1>18 DEF Delete, Goto
<1>19. CASE UNCHANGED vars
  BY <1>19 DEF vars
<1> QED
  BY <1>1, <1>2, <1>3, <1>4, <1>5, <1>6, <1>7, <1>8, <1>9, <1>10, <1>11, <1>12,
     <1>13, <1>14, <1>15, <1>16, <1>17, <1>18, <1>19 DEF Next, LoggerStep, ReceiverStep

\* Any two senders took in the lines that both have in the same order, and none twice.
THEOREM SameOrderCorrect ==
  ASSUME QuiescentDeinit
  PROVE  Spec => []SameOrder
<1>1. IInv /\ OrderInv /\ [Next]_vars => OrderInv'
  BY OrderStep, QuiescentDeinit
<1>2. OrderInv => SameOrder
  BY DEF OrderInv
<1> QED BY <1>1, <1>2, OrderInit, IInvCorrect, QuiescentDeinit, PTL DEF Spec

-----------------------------------------------------------------------------
(* What a buffer holds. *)

\* A receiver is never ahead of its buffer, and no more than Capacity lines wait in it.
WithinCapacity ==
  \A b \in Buffers :
    taken[b] <= Len(accepted[b]) /\ Len(accepted[b]) - taken[b] <= Capacity

\* A push finds room for the line or drops it.
LEMMA PushWithinCapacity ==
  ASSUME TypeInv, WithinCapacity, NEW b \in Buffers, NEW m \in Messages, Push(b, m),
         taken' = taken
  PROVE  WithinCapacity'
<1>1. \A c \in Buffers : Len(accepted[c]) \in Nat /\ taken[c] \in Nat
  BY DEF TypeInv, TypeOK
<1>2. CASE HasRoom(b)
  <2>1. /\ Len(accepted'[b]) = Len(accepted[b]) + 1
        /\ \A c \in Buffers : c # b => accepted'[c] = accepted[c]
    BY <1>2 DEF Push, TypeInv, TypeOK
  <2>2. Len(accepted[b]) - taken[b] < Capacity
    BY <1>2 DEF HasRoom
  <2> SUFFICES ASSUME NEW c \in Buffers
               PROVE  /\ taken[c] <= Len(accepted'[c])
                      /\ Len(accepted'[c]) - taken[c] <= Capacity
    BY DEF WithinCapacity
  <2>3. CASE c = b
    BY <1>1, <2>1, <2>2, <2>3, NetLoggingAssumption DEF WithinCapacity
  <2>4. CASE c # b
    BY <2>1, <2>4 DEF WithinCapacity
  <2> QED BY <2>3, <2>4
<1>3. CASE ~HasRoom(b)
  BY <1>3 DEF Push, WithinCapacity
<1> QED BY <1>2, <1>3

LEMMA WithinCapacityStep == TypeInv /\ WithinCapacity /\ [Next]_vars => WithinCapacity'
<1> SUFFICES ASSUME TypeInv, WithinCapacity, [Next]_vars PROVE WithinCapacity'
  OBVIOUS
<1>1. ASSUME NEW l \in Loggers, LogSend(l) PROVE WithinCapacity'
  <2>1. CASE logBuffers[idx[l]] = NULL
    BY <1>1, <2>1 DEF LogSend, bvars, WithinCapacity
  <2>2. CASE logBuffers[idx[l]] # NULL
    <3>1. logBuffers[idx[l]] \in Buffers /\ line[l] \in Messages
      BY <1>1, <2>2, NetLoggingAssumption DEF LogSend, TypeInv, TypeOK, HasLine, Slots
    <3>2. Push(logBuffers[idx[l]], line[l]) /\ taken' = taken
      BY <1>1, <2>2 DEF LogSend, bvars
    <3> QED BY <3>1, <3>2, PushWithinCapacity
  <2> QED BY <2>1, <2>2
<1>2. ASSUME NEW b \in Buffers, Create(b) PROVE WithinCapacity'
  <2>1. \A c \in Buffers :
          \/ accepted'[c] = << >> /\ taken'[c] = 0
          \/ accepted'[c] = accepted[c] /\ taken'[c] = taken[c]
    BY <1>2 DEF Create, TypeInv, TypeOK
  <2> QED BY <2>1, NetLoggingAssumption DEF WithinCapacity
<1>3. ASSUME NEW b \in Buffers, Receive(b) PROVE WithinCapacity'
  <2>1. /\ \A c \in Buffers : Len(accepted[c]) \in Nat /\ taken[c] \in Nat
        /\ accepted' = accepted /\ taken[b] < Len(accepted[b])
        /\ taken'[b] = taken[b] + 1
        /\ \A c \in Buffers : c # b => taken'[c] = taken[c]
    BY <1>3 DEF Receive, TypeInv, TypeOK
  <2> QED BY <2>1, NetLoggingAssumption DEF WithinCapacity
\* Every other step leaves the buffers alone.
<1>4. CASE UNCHANGED <<accepted, taken>>
  BY <1>4 DEF WithinCapacity
<1> QED
  BY <1>1, <1>2, <1>3, <1>4, Zenon
  DEF Next, LoggerStep, ReceiverStep, vars, lvars, bvars, InitOk, InitNoMem, DeinitUnhook,
      DeinitDelete, LogCall, LogTake, LogGive, LogStdout, RegisterTake, RegisterOk,
      RegisterNoMem, Close, UnregisterTake, UnregisterBody, Delete

\* However fast the tasks log and whatever the application does, no buffer holds more lines
\* than it has room for, and none is received that was not taken in.
THEOREM WithinCapacityCorrect == Spec => []WithinCapacity
<1>1. Init => WithinCapacity
  BY NetLoggingAssumption DEF Init, WithinCapacity
<1> QED BY <1>1, TypeInit, TypeStep, WithinCapacityStep, PTL DEF Spec

\* What a receiver or stdout gets was logged, and a task inside the callback works on a
\* line that was.
OnlyLoggedLines ==
  /\ \A l \in Loggers : lpc[l] # "idle" => line[l] \in logged
  /\ \A b \in Buffers : \A i \in 1..Len(accepted[b]) : accepted[b][i] \in logged
  /\ printed \subseteq logged

LEMMA OnlyLoggedLinesStep == TypeInv /\ OnlyLoggedLines /\ [Next]_vars => OnlyLoggedLines'
<1> SUFFICES ASSUME TypeInv, OnlyLoggedLines, [Next]_vars PROVE OnlyLoggedLines'
  OBVIOUS
<1> USE DEF TypeInv, TypeOK
<1>1. ASSUME NEW l \in Loggers, NEW m \in Messages, LogCall(l, m) PROVE OnlyLoggedLines'
  BY <1>1 DEF LogCall, OnlyLoggedLines
<1>2. ASSUME NEW l \in Loggers, LogTake(l) PROVE OnlyLoggedLines'
  BY <1>2 DEF LogTake, OnlyLoggedLines
<1>3. ASSUME NEW l \in Loggers, LogSend(l) PROVE OnlyLoggedLines'
  <2>1. lpc[l] = "send" /\ UNCHANGED <<lpc, line, logged, printed>>
    BY <1>3 DEF LogSend
  <2>2. CASE accepted' = accepted
    BY <2>1, <2>2 DEF OnlyLoggedLines
  <2>3. CASE accepted' # accepted
    <3> DEFINE b == logBuffers[idx[l]]
    <3>1. b \in Buffers /\ accepted' = [accepted EXCEPT ![b] = Append(@, line[l])]
      BY <1>3, <2>3, NetLoggingAssumption DEF LogSend, Push, Slots
    <3>2. line[l] \in logged /\ line[l] \in Messages
      BY <2>1 DEF OnlyLoggedLines, HasLine
    <3> HIDE DEF b
    <3>3. ASSUME NEW c \in Buffers, NEW i \in 1..Len(accepted'[c])
          PROVE  accepted'[c][i] \in logged
      <4>1. CASE c # b
        BY <3>1, <4>1 DEF OnlyLoggedLines
      <4>2. CASE c = b
        <5>1. /\ accepted[b] \in Seq(Messages) /\ accepted'[b] = Append(accepted[b], line[l])
          BY <3>1
        <5>2. i = Len(accepted[b]) + 1 \/ i \in 1..Len(accepted[b])
          BY <3>2, <4>2, <5>1
        <5> QED BY <3>1, <3>2, <4>2, <5>1, <5>2 DEF OnlyLoggedLines
      <4> QED BY <4>1, <4>2
    <3> QED BY <2>1, <3>3 DEF OnlyLoggedLines
  <2> QED BY <2>2, <2>3
<1>4. ASSUME NEW l \in Loggers, LogGive(l) PROVE OnlyLoggedLines'
  BY <1>4 DEF LogGive, OnlyLoggedLines
<1>5. ASSUME NEW l \in Loggers, LogStdout(l) PROVE OnlyLoggedLines'
  BY <1>5 DEF LogStdout, OnlyLoggedLines
<1>6. ASSUME NEW b \in Buffers, Create(b) PROVE OnlyLoggedLines'
  BY <1>6 DEF Create, lvars, OnlyLoggedLines
\* Every other step leaves the lines where they are.
<1>7. CASE UNCHANGED <<lpc, line, logged, printed, accepted>>
  BY <1>7 DEF OnlyLoggedLines
<1> QED
  BY <1>1, <1>2, <1>3, <1>4, <1>5, <1>6, <1>7, Zenon
  DEF Next, LoggerStep, ReceiverStep, vars, lvars, bvars, InitOk, InitNoMem, DeinitUnhook,
      DeinitDelete, RegisterTake, RegisterOk, RegisterNoMem, Receive, Close,
      UnregisterTake, UnregisterBody, Delete

\* No receiver is handed a line that no task logged, nor does stdout show one, whatever
\* the application does.
THEOREM OnlyLoggedLinesCorrect == Spec => []OnlyLoggedLines
<1>1. Init => OnlyLoggedLines
  BY DEF Init, OnlyLoggedLines
<1> QED BY <1>1, TypeInit, TypeStep, OnlyLoggedLinesStep, PTL DEF Spec

=============================================================================
