------------------------ MODULE NetLoggingRefinement ------------------------
(***************************************************************************)
(* NetLogging implements LogBroadcast: each step of the code is one step   *)
(* of the broadcast, or none.  The invariant of NetLoggingProofs supplies  *)
(* what the mapping needs: a buffer sits in one slot, and the task that    *)
(* walks the table holds the mutex.                                        *)
(***************************************************************************)
EXTENDS NetLoggingProofs

current == IF Walking THEN line[holder] ELSE NULL
pending == IF Walking THEN Listed(idx[holder]) ELSE {}
bcast == <<Listed(1), current, pending, accepted, taken>>

\* A logging task in the loop is the one that walks, and only it.
LEMMA WalkerHolds ==
  ASSUME IInv, NEW l \in Loggers
  PROVE  lpc[l] = "send" <=> holder = l
  BY NetLoggingAssumption DEF IInv, Ownership, InCriticalSection, Tasks

\* A buffer in a slot is listed.
LEMMA InSlotIsListed ==
  ASSUME NEW n \in Nat, NEW i \in n..NumSlots, logBuffers[i] # NULL
  PROVE  logBuffers[i] \in Listed(n)
  BY DEF Listed

\* Past an empty slot nothing changes; past a buffer that buffer is done with.
LEMMA ListedNext ==
  ASSUME IInv, NEW i \in Slots
  PROVE  Listed(i + 1) = Listed(i) \ {logBuffers[i]}
<1>1. ASSUME NEW j \in i..NumSlots, logBuffers[j] # NULL, logBuffers[j] # logBuffers[i]
      PROVE  logBuffers[j] \in Listed(i + 1)
  <2>1. j \in (i + 1)..NumSlots
    BY <1>1 DEF Slots
  <2> QED BY <1>1, <2>1 DEF Listed
<1>2. ASSUME NEW j \in (i + 1)..NumSlots, logBuffers[j] # NULL
      PROVE  /\ j \in i..NumSlots
             /\ logBuffers[j] # logBuffers[i]
  <2>1. j \in Slots /\ j \in i..NumSlots /\ j # i
    BY NetLoggingAssumption DEF Slots
  <2> QED BY <1>2, <2>1 DEF IInv, TableIsExact
<1> QED BY <1>1, <1>2 DEF Listed

LEMMA ListedPastEnd ==
  ASSUME NEW n \in Nat, n > NumSlots
  PROVE  Listed(n) = {}
  BY NetLoggingAssumption DEF Listed

\* The listed buffers are those of the table.
LEMMA ListedIsTable ==
  Listed(1) = {logBuffers[i] : i \in Slots} \ {NULL}
  BY DEF Listed, Slots

LEMMA ListedMayBeListed ==
  ASSUME IInv, NEW b \in Listed(1)
  PROVE  b \in Buffers /\ bpc[b] \in MayBeListed
  BY ListedIsTable DEF IInv, ListedBuffersExist, TypeInv, TypeOK

\* The initial states are initial states of the broadcast.
LEMMA RefinesInit == Init => Broadcast!Init
  BY NetLoggingAssumption, ListedIsTable
  DEF Init, Broadcast!Init, Walking, Slots

-----------------------------------------------------------------------------
(* The steps of the callback. *)

LEMMA RefinesLogTake ==
  ASSUME IInv, NEW l \in Loggers, LogTake(l)
  PROVE  Broadcast!Publish(line[l])
<1> USE NetLoggingAssumption
<1>1. ~Walking /\ Walking' /\ holder' = l /\ idx'[l] = 1
  BY DEF LogTake, TakeMutex, Walking, IInv, TypeInv, TypeOK
<1>2. UNCHANGED <<line, logBuffers, accepted, taken>>
  BY DEF LogTake, bvars
<1>3. Listed(1)' = Listed(1) /\ Listed(idx[holder])' = Listed(1)
  BY <1>1, <1>2 DEF Listed
<1> QED BY <1>1, <1>2, <1>3 DEF Broadcast!Publish

LEMMA RefinesLogSend ==
  ASSUME IInv, NEW l \in Loggers, LogSend(l)
  PROVE  Broadcast!Offer(logBuffers[idx[l]]) \/ UNCHANGED bcast
<1> USE NetLoggingAssumption
<1> DEFINE b == logBuffers[idx[l]]
<1>1. idx[l] \in Slots /\ idx'[l] = idx[l] + 1
  BY DEF LogSend, IInv, TypeInv, TypeOK, Slots
<1>2. Walking /\ Walking' /\ holder = l /\ holder' = l
  BY WalkerHolds DEF LogSend, Walking
<1>3. UNCHANGED <<line, logBuffers, taken>>
  BY DEF LogSend, bvars
<1>4. line[l] \in Messages
  BY DEF LogSend, IInv, TypeInv, HasLine
<1>5. Listed(1)' = Listed(1) /\ Listed(idx[holder])' = Listed(idx[l]) \ {b}
  <2>1. Listed(idx[l] + 1) = Listed(idx[l]) \ {b}
    BY <1>1, ListedNext
  <2> QED BY <1>1, <1>2, <1>3, <2>1 DEF Listed
<1>6. CASE b = NULL
  <2>1. Listed(idx[l]) \ {b} = Listed(idx[l])
    BY <1>6 DEF Listed
  <2>2. UNCHANGED accepted
    BY <1>6 DEF LogSend
  <2> QED BY <1>2, <1>3, <1>5, <2>1, <2>2 DEF bcast, current, pending
<1>7. CASE b # NULL
  <2>1. b \in Listed(idx[l])
    BY <1>1, <1>7, InSlotIsListed DEF Slots
  <2>2. Push(b, line[l])
    BY <1>7 DEF LogSend
  <2> QED BY <1>2, <1>3, <1>4, <1>5, <2>1, <2>2 DEF Broadcast!Offer, Push, HasRoom
<1> QED BY <1>6, <1>7

LEMMA RefinesLogGive ==
  ASSUME IInv, NEW l \in Loggers, LogGive(l)
  PROVE  Broadcast!Finish
<1> USE NetLoggingAssumption
<1>1. Walking /\ ~Walking' /\ holder = l
  BY WalkerHolds DEF LogGive, GiveMutex, Walking
<1>2. UNCHANGED <<line, logBuffers, accepted, taken>>
  BY DEF LogGive, bvars
<1>3. line[l] \in Messages
  BY DEF LogGive, IInv, TypeInv, HasLine
<1>4. Listed(idx[l]) = {} /\ Listed(1)' = Listed(1)
  BY <1>2, ListedPastEnd DEF LogGive, Listed, IInv, TypeInv, TypeOK
<1> QED BY <1>1, <1>2, <1>3, <1>4 DEF Broadcast!Finish

-----------------------------------------------------------------------------
(* The steps of a receiver. *)

LEMMA RefinesCreate ==
  ASSUME IInv, NEW b \in Buffers, Create(b)
  PROVE  Broadcast!Create(b)
<1>1. b \notin Listed(1)
  BY ListedMayBeListed DEF Create, Goto, MayBeListed
<1>2. UNCHANGED <<holder, logBuffers, line, idx>>
  BY DEF Create, lvars
<1>3. Listed(1)' = Listed(1) /\ UNCHANGED <<current, pending>>
  BY <1>2 DEF current, pending, Walking, Listed
<1> QED BY <1>1, <1>3 DEF Create, Broadcast!Create, current, pending

\* A task that registers or unregisters has the mutex, so no line is under way.
LEMMA EditorHolds ==
  ASSUME IInv, NEW b \in Buffers, bpc[b] \in {"registering", "unregistering"}
  PROVE  ~Walking
  BY NetLoggingAssumption DEF IInv, Ownership, InCriticalSection, Tasks, Walking

LEMMA RefinesRegister ==
  ASSUME IInv, NEW b \in Buffers, RegisterOk(b)
  PROVE  Broadcast!Register(b)
<1> USE NetLoggingAssumption
<1>1. ~Walking /\ ~Walking'
  BY EditorHolds DEF RegisterOk, Goto, GiveMutex, Walking
<1>2. PICK i \in Slots : /\ logBuffers[i] = NULL
                         /\ logBuffers' = [logBuffers EXCEPT ![i] = b]
  BY DEF RegisterOk, FirstEmpty
<1>3. logBuffers \in [Slots -> Buffers \cup {NULL}]
  BY DEF IInv, TypeInv, TypeOK
<1>4. Listed(1)' = Listed(1) \cup {b}
  <2>1. Listed(1)' = {logBuffers'[j] : j \in Slots} \ {NULL}
    BY DEF Listed, Slots
  <2> QED BY <1>2, <1>3, <2>1, ListedIsTable
<1>5. UNCHANGED <<accepted, taken>>
  BY DEF RegisterOk
<1> QED BY <1>1, <1>4, <1>5 DEF Broadcast!Register

LEMMA RefinesUnregister ==
  ASSUME IInv, NEW b \in Buffers, UnregisterBody(b)
  PROVE  Broadcast!Unregister(b)
<1> USE NetLoggingAssumption
<1>1. ~Walking /\ ~Walking'
  BY EditorHolds DEF UnregisterBody, Goto, GiveMutex, Walking
<1>2. logBuffers \in [Slots -> Buffers \cup {NULL}]
  BY DEF IInv, TypeInv, TypeOK
<1>3. Listed(1)' = {logBuffers'[j] : j \in Slots} \ {NULL}
  BY DEF Listed, Slots
<1>4. Listed(1)' = Listed(1) \ {b}
  <2>1. CASE (\A i \in Slots : logBuffers[i] # b) /\ UNCHANGED logBuffers
    BY <1>3, <2>1, ListedIsTable
  <2>2. ASSUME NEW i \in Slots, logBuffers[i] = b,
               logBuffers' = [logBuffers EXCEPT ![i] = NULL]
        PROVE  Listed(1)' = Listed(1) \ {b}
    <3>1. \A j \in Slots : logBuffers[j] = b => j = i
      BY <2>2 DEF IInv, TableIsExact
    <3> QED BY <1>2, <1>3, <2>2, <3>1, ListedIsTable
  <2> QED BY <2>1, <2>2 DEF UnregisterBody, ClearSlot
<1>5. UNCHANGED <<accepted, taken>>
  BY DEF UnregisterBody
<1> QED BY <1>1, <1>4, <1>5 DEF Broadcast!Unregister

LEMMA RefinesReceive ==
  ASSUME IInv, NEW b \in Buffers, Receive(b)
  PROVE  Broadcast!Receive(b)
<1>1. b \in Listed(1)
  BY NetLoggingAssumption, ListedIsTable DEF Receive, IInv, TableIsExact
<1>2. UNCHANGED <<holder, logBuffers, line, idx>>
  BY DEF Receive, lvars
<1>3. Listed(1)' = Listed(1) /\ UNCHANGED <<current, pending>>
  BY <1>2 DEF current, pending, Walking, Listed
<1> QED BY <1>1, <1>3 DEF Receive, Broadcast!Receive, current, pending

-----------------------------------------------------------------------------
(* The steps that are invisible in the broadcast. *)

LEMMA SameBroadcast ==
  ASSUME UNCHANGED <<logBuffers, line, idx, accepted, taken>>,
         Walking' = Walking, Walking => holder' = holder
  PROVE  UNCHANGED bcast
  BY DEF bcast, current, pending, Listed

LEMMA RefinesOther ==
  ASSUME IInv, NEW l \in Loggers, NEW m \in Messages, LogCall(l, m) \/ LogStdout(l)
  PROVE  UNCHANGED bcast
<1>1. holder # l
  BY WalkerHolds DEF LogCall, LogStdout
<1>2. UNCHANGED <<holder, logBuffers, idx, accepted, taken>>
  BY DEF LogCall, LogStdout, bvars
<1>3. Walking => line'[holder] = line[holder]
  BY <1>1 DEF LogCall, LogStdout, Walking, IInv, TypeInv, TypeOK
<1> QED BY <1>2, <1>3 DEF bcast, current, pending, Walking, Listed

LEMMA RefinesReceiverTake ==
  ASSUME IInv, NEW b \in Buffers,
         RegisterTake(b) \/ RegisterNoMem(b) \/ Close(b) \/ UnregisterTake(b) \/ Delete(b)
  PROVE  UNCHANGED bcast
<1>1. UNCHANGED <<logBuffers, line, idx, accepted, taken>>
  BY DEF RegisterTake, RegisterNoMem, Close, UnregisterTake, Delete, lvars
<1>2. b \notin Loggers /\ NULL \notin Loggers
  BY NetLoggingAssumption
<1>3. Walking' = Walking /\ (Walking => holder' = holder)
  BY <1>2 DEF RegisterTake, RegisterNoMem, Close, UnregisterTake, Delete,
     TakeMutex, GiveMutex, Walking
<1> QED BY <1>1, <1>3, SameBroadcast

\* Initialisation finds an empty table, and deinitialisation an idle mutex.
LEMMA RefinesLifecycle ==
  ASSUME IInv, NEW e \in BOOLEAN,
         InitOk(e) \/ InitNoMem(e) \/ DeinitUnhook \/ DeinitDelete
  PROVE  UNCHANGED bcast
<1> USE NetLoggingAssumption
<1>1. UNCHANGED <<line, idx, accepted, taken>>
  BY DEF InitOk, InitNoMem, DeinitUnhook, DeinitDelete, lvars, bvars
<1>2. CASE InitOk(e)
  <2>1. Quiet
    BY <1>2 DEF InitOk, IInv, Lifecycle
  <2>2. ~Walking /\ ~Walking'
    BY <1>2, <2>1, WalkerHolds DEF Quiet, Walking, InitOk
  <2>3. Listed(1) = {}
    BY <2>1, ListedMayBeListed DEF Quiet, MayBeListed
  <2>4. Listed(1)' = {}
    BY <1>2 DEF InitOk, Listed, Slots
  <2> QED BY <1>1, <2>2, <2>3, <2>4 DEF bcast, current, pending
<1>3. CASE InitNoMem(e) \/ DeinitUnhook
  BY <1>1, <1>3, SameBroadcast DEF InitNoMem, DeinitUnhook, Walking
<1>4. CASE DeinitDelete
  <2>1. Quiet
    BY <1>4 DEF DeinitDelete, IInv, Lifecycle
  <2>2. ~Walking /\ ~Walking'
    BY <1>4, <2>1, WalkerHolds DEF Quiet, Walking, DeinitDelete
  <2>3. Walking' = Walking
    BY <2>2 DEF Walking
  <2> QED BY <1>1, <1>4, <2>2, <2>3, SameBroadcast DEF DeinitDelete
<1> QED BY <1>2, <1>3, <1>4

-----------------------------------------------------------------------------
LEMMA RefinesStep ==
  ASSUME IInv, [Next]_vars
  PROVE  [Broadcast!Next]_(Broadcast!vars)
<1> DEFINE Goal == Broadcast!Next \/ UNCHANGED bcast
<1>1. ASSUME NEW e \in BOOLEAN, InitOk(e) \/ InitNoMem(e) PROVE Goal
  BY <1>1, RefinesLifecycle
<1>1a. ASSUME DeinitUnhook \/ DeinitDelete PROVE Goal
  <2>1. TRUE \in BOOLEAN
    OBVIOUS
  <2> QED BY <1>1a, <2>1, RefinesLifecycle
<1>2. ASSUME NEW l \in Loggers, NEW m \in Messages, LogCall(l, m) PROVE Goal
  BY <1>2, RefinesOther
<1>3. ASSUME NEW l \in Loggers, LogTake(l) PROVE Goal
  <2>1. line[l] \in Messages
    BY <1>3 DEF LogTake, IInv, TypeInv, HasLine
  <2> QED BY <1>3, <2>1, RefinesLogTake DEF Broadcast!Next
<1>4. ASSUME NEW l \in Loggers, LogSend(l) PROVE Goal
  <2>1. CASE UNCHANGED bcast
    BY <2>1
  <2>2. CASE Broadcast!Offer(logBuffers[idx[l]])
    <3>1. logBuffers[idx[l]] \in Listed(idx[l])
      BY <1>4, <2>2, WalkerHolds DEF Broadcast!Offer, LogSend
    <3>2. idx[l] \in Nat /\ idx[l] >= 1
      BY NetLoggingAssumption DEF IInv, TypeInv, TypeOK
    <3>3. logBuffers[idx[l]] \in Buffers
      BY <1>4, <3>1, <3>2 DEF LogSend, Listed, IInv, TypeInv, TypeOK, Slots
    <3> QED BY <2>2, <3>3 DEF Broadcast!Next
  <2> QED BY <1>4, <2>1, <2>2, RefinesLogSend
<1>5. ASSUME NEW l \in Loggers, LogGive(l) PROVE Goal
  BY <1>5, RefinesLogGive DEF Broadcast!Next
<1>6. ASSUME NEW l \in Loggers, LogStdout(l) PROVE Goal
  <2>1. line[l] \in Messages
    BY <1>6 DEF LogStdout, IInv, TypeInv, HasLine
  <2> QED BY <1>6, <2>1, RefinesOther
<1>7. ASSUME NEW b \in Buffers, Create(b) PROVE Goal
  BY <1>7, RefinesCreate DEF Broadcast!Next
<1>8. ASSUME NEW b \in Buffers, RegisterOk(b) PROVE Goal
  BY <1>8, RefinesRegister DEF Broadcast!Next
<1>9. ASSUME NEW b \in Buffers, UnregisterBody(b) PROVE Goal
  BY <1>9, RefinesUnregister DEF Broadcast!Next
<1>10. ASSUME NEW b \in Buffers, Receive(b) PROVE Goal
  BY <1>10, RefinesReceive DEF Broadcast!Next
<1>11. ASSUME NEW b \in Buffers,
              RegisterTake(b) \/ RegisterNoMem(b) \/ Close(b) \/ UnregisterTake(b) \/ Delete(b)
       PROVE  Goal
  BY <1>11, RefinesReceiverTake
<1>12. ASSUME UNCHANGED vars PROVE Goal
  BY <1>12, SameBroadcast DEF vars, Walking
<1> HIDE DEF Goal
<1>13. Goal
  BY <1>1, <1>2, <1>3, <1>4, <1>5, <1>6, <1>7, <1>8, <1>9, <1>10, <1>11, <1>12, <1>1a
  DEF Next, LoggerStep, ReceiverStep
<1> QED BY <1>13 DEF Goal, bcast, current, pending, Broadcast!vars

\* Every behaviour of the code is one of the broadcast: a line is offered once to each
\* registered buffer, lines one after the other, with no registration in between.
THEOREM BroadcastCorrect ==
  ASSUME QuiescentDeinit
  PROVE  Spec => ImplementsBroadcast
<1>1. IInv /\ [Next]_vars => [Broadcast!Next]_(Broadcast!vars)
  BY RefinesStep
<1> QED
  BY <1>1, RefinesInit, IInvCorrect, QuiescentDeinit, PTL
  DEF Spec, ImplementsBroadcast, Broadcast!Spec

=============================================================================
