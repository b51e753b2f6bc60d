--------------------------- MODULE SseServerProofs ---------------------------
(***************************************************************************)
(* Theorems about SseServer, for any number of peers, entries, sockets and *)
(* failures.  The connections, buffers and sockets are accounted for       *)
(* whatever the application does; StoppedIsClean and KeepsPromise need one *)
(* that heeds the result of stop and initialises before each run.          *)
(***************************************************************************)
EXTENDS SseServer, FiniteSetTheorems, TLAPS

\* The listening socket is open from its creation to the end of a round, and what is sent
\* is sent to a client.
Places ==
  /\ listening <=> pc \in {"bind", "accept", "serve", "send", "close"}
  /\ pc = "send" => slot \in Clients /\ sock[slot] # NULL

IInv == TypeOK /\ Places /\ NothingLeftBehind /\ EveryBufferHasAClient /\ SocketsAccounted

-----------------------------------------------------------------------------
(* Counting sockets. *)

Used == {i \in Clients : sock[i] # NULL}

LEMMA ClientsFinite == IsFiniteSet(Clients) /\ IsFiniteSet(Used) /\ IsFiniteSet(Used')
<1>1. IsFiniteSet(Clients)
  BY SseServerAssumption, FS_Interval DEF Clients
<1>2. Used \subseteq Clients /\ Used' \subseteq Clients
  BY DEF Used
<1> QED BY <1>1, <1>2, FS_Subset

LEMMA InUseNat == InUse \in Nat /\ InUse' \in Nat
  BY ClientsFinite, FS_CardinalityType DEF InUse, Used

LEMMA NoneInUse == (\A i \in Clients : sock[i] = NULL) => InUse = 0
<1> SUFFICES ASSUME \A i \in Clients : sock[i] = NULL PROVE InUse = 0
  OBVIOUS
<1>1. Used = {}
  BY DEF Used
<1> QED BY <1>1, FS_EmptySet DEF InUse, Used

LEMMA NoneInUseNext == (\A i \in Clients : sock'[i] = NULL) => InUse' = 0
<1> SUFFICES ASSUME \A i \in Clients : sock'[i] = NULL PROVE InUse' = 0
  OBVIOUS
<1>1. Used' = {}
  BY DEF Used
<1> QED BY <1>1, FS_EmptySet DEF InUse, Used

LEMMA OneMoreInUse ==
  ASSUME TypeOK, NEW i \in Clients, NEW p \in Peers, sock[i] = NULL,
         sock' = [sock EXCEPT ![i] = p]
  PROVE  InUse' = InUse + 1
<1>1. Used' = Used \cup {i} /\ i \notin Used
  BY SseServerAssumption DEF TypeOK, Used
<1> QED BY <1>1, ClientsFinite, FS_AddElement DEF InUse, Used

LEMMA NoMoreInUse ==
  ASSUME TypeOK, NEW i \in Clients, sock' = [sock EXCEPT ![i] = NULL]
  PROVE  InUse' <= InUse
<1>1. Used' \subseteq Used
  BY DEF TypeOK, Used
<1> QED BY <1>1, ClientsFinite, FS_Subset DEF InUse, Used

LEMMA SameInUse == UNCHANGED sock => InUse' = InUse
  BY DEF InUse

LEMMA IInvInit == Init => IInv
<1> SUFFICES ASSUME Init PROVE IInv
  OBVIOUS
<1>1. TypeOK
  <2>1. server \in BOOLEAN /\ task_run \in BOOLEAN /\ started \in BOOLEAN
    BY DEF Init
  <2>2. stopped \in BOOLEAN /\ netChanged \in BOOLEAN
    BY DEF Init
  <2>3. listening \in BOOLEAN /\ stale \in BOOLEAN
    BY DEF Init
  <2>4. leaked \in Nat /\ failures \in 0..MaxFailures /\ slot \in 1..(MaxClients + 1)
    BY SseServerAssumption DEF Init
  <2>5. sock \in [Clients -> Peers \cup {NULL}] /\ buffer \in [Clients -> {"none", "registered"}]
    BY DEF Init
  <2>6. lines \in [Clients -> Seq(Lines)] /\ \A i \in Clients : Len(lines[i]) <= Capacity
    BY SseServerAssumption DEF Init
  <2>7. /\ conn \in [Peers -> Conns]
        /\ req \in [Peers -> {"none", "page", "events", "other"}]
        /\ reading \in [Peers -> BOOLEAN]
    BY DEF Init, Conns
  <2> QED BY <2>1, <2>2, <2>3, <2>4, <2>5, <2>6, <2>7 DEF Init, TypeOK
<1>2. Places /\ NothingLeftBehind
  <2>1. ~listening /\ pc = "none"
    BY DEF Init
  <2>2. NothingLeftBehind
    BY DEF Init, NothingLeftBehind
  <2> QED BY <2>1, <2>2 DEF Places
<1>3. EveryBufferHasAClient
  BY SseServerAssumption DEF Init, EveryBufferHasAClient, Left
<1>4. SocketsAccounted
  <2>1. InUse = 0
    BY NoneInUse DEF Init
  <2>2. ~listening /\ leaked = 0 /\ failures = 0 /\ pc = "none"
    BY DEF Init
  <2> QED BY <2>1, <2>2, SseServerAssumption DEF SocketsAccounted, Open, Inner
<1> QED BY <1>1, <1>2, <1>3, <1>4 DEF IInv

\* Every step keeps the types.
LEMMA TypeStep == IInv /\ [Next]_vars => TypeOK'
<1> SUFFICES ASSUME IInv, [Next]_vars PROVE TypeOK'
  OBVIOUS
<1> USE SseServerAssumption
<1> USE DEF avars, cvars, pvars, svars, tvars, At, IInv, TypeOK, Places, Clients, Conns, Left
<1>1. CASE ServerInit
  BY <1>1 DEF ServerInit
<1>2. CASE Run
  BY <1>2 DEF Run
<1>3. CASE RunFails
  <2>1. task_run' \in BOOLEAN /\ started' \in BOOLEAN
    BY <1>3 DEF RunFails
  <2> QED BY <1>3, <2>1 DEF RunFails
<1>4. CASE StopCall
  <2>1. task_run' \in BOOLEAN
    BY <1>4 DEF StopCall
  <2> QED BY <1>4, <2>1 DEF StopCall
<1>5. CASE StopOk
  BY <1>5 DEF StopOk
<1>6. CASE StopTimeout
  BY <1>6 DEF StopTimeout
<1>7. CASE Deinit
  <2>1. server' \in BOOLEAN
    BY <1>7 DEF Deinit
  <2> QED BY <1>7, <2>1 DEF Deinit
<1>8. CASE NetworkChanged
  BY <1>8 DEF NetworkChanged
<1>9. CASE Exit
  BY <1>9 DEF Exit
<1>10. CASE EnterOuter
  BY <1>10 DEF EnterOuter
<1>11. CASE Restart
  <2>1. leaked' \in Nat
    BY <1>11, InUseNat DEF Restart
  <2>2. started' \in BOOLEAN /\ listening' \in BOOLEAN /\ stale' \in BOOLEAN
    BY <1>11 DEF Restart
  <2>3. sock' \in [Clients -> Peers \cup {NULL}] /\ buffer' \in [Clients -> {"none", "registered"}]
    BY <1>11 DEF Restart
  <2>4. pc' \in {"bind", "outer"}
    BY <1>11 DEF Restart
  <2> QED BY <1>11, <2>1, <2>2, <2>3, <2>4 DEF Restart
<1>12. CASE BindFails
  <2>1. listening' \in BOOLEAN
    BY <1>12 DEF BindFails
  <2>2. failures' \in 0..MaxFailures /\ leaked' \in Nat
    BY <1>12 DEF BindFails
  <2> QED BY <1>12, <2>1, <2>2 DEF BindFails
<1>13. CASE Listen
  BY <1>13 DEF Listen
<1>14. CASE LeaveInner
  BY <1>14 DEF LeaveInner
<1>15. CASE AcceptNone
  BY <1>15 DEF AcceptNone
<1>16. CASE Accept
  <2>1. PICK i \in Clients, p \in Pending : /\ FreeClient(i)
                                          /\ sock' = [sock EXCEPT ![i] = p]
                                          /\ conn' = [conn EXCEPT ![p] = "open"]
    BY <1>16 DEF Accept, TakeConnection
  <2>2. p \in Peers /\ conn[p] = "pending" /\ sock[i] = NULL
    BY <2>1 DEF Pending, FreeClient
  <2>3. UNCHANGED <<buffer, lines, req, reading>>
    BY <1>16 DEF Accept, TakeConnection
  <2> QED BY <1>16, <2>1, <2>2, <2>3 DEF Accept
<1>17. CASE AcceptFails
  <2>1. conn' \in [Peers -> Conns]
    BY <1>17 DEF AcceptFails
  <2> QED BY <1>17, <2>1 DEF AcceptFails
<1>18. CASE AcceptBlocking
  <2>1. PICK i \in Clients, p \in Pending : /\ FreeClient(i)
                                          /\ sock' = [sock EXCEPT ![i] = p]
                                          /\ conn' = [conn EXCEPT ![p] = "open"]
    BY <1>18 DEF AcceptBlocking, TakeConnection
  <2>2. p \in Peers /\ conn[p] = "pending" /\ sock[i] = NULL
    BY <2>1 DEF Pending, FreeClient
  <2>3. UNCHANGED <<buffer, lines, req, reading>>
    BY <1>18 DEF AcceptBlocking, TakeConnection
  <2> QED BY <1>18, <2>1, <2>2, <2>3 DEF AcceptBlocking
<1>19. CASE CheckChanged
  BY <1>19 DEF CheckChanged, RoundDone
<1>20. CASE CheckUnchanged
  BY <1>20 DEF CheckUnchanged, RoundDone
<1>21. CASE Close
  <2>1. listening' \in BOOLEAN /\ stale' \in BOOLEAN
    BY <1>21 DEF Close, CloseAll, CloseListener
  <2>2. /\ lines' \in [Clients -> Seq(Lines)] /\ \A i \in Clients : Len(lines'[i]) <= Capacity
        /\ reading' \in [Peers -> BOOLEAN]
    BY <1>21 DEF Close, CloseAll
  <2> QED BY <1>21, <2>1, <2>2 DEF Close, CloseAll
<1>22. ASSUME NEW i \in Clients, SkipFree(i) PROVE TypeOK'
  BY <1>22 DEF SkipFree, Serving, NextClient
<1>23. ASSUME NEW i \in Clients, ReceiveNothing(i) PROVE TypeOK'
  BY <1>23 DEF ReceiveNothing, Serving, NextClient, Touch
<1>24. ASSUME NEW i \in Clients, ReceiveError(i) PROVE TypeOK'
  BY <1>24 DEF ReceiveError, Serving, NextClient, Cleanup, Hangup
<1>25. ASSUME NEW i \in Clients, ReceiveRequest(i) PROVE TypeOK'
  BY <1>25 DEF ReceiveRequest, Serving, StartSend
<1>26. ASSUME NEW i \in Clients, SendLine(i) PROVE TypeOK'
  <2>1. lines[i] \in Seq(Lines) /\ lines[i] # <<>> /\ Len(lines[i]) <= Capacity
    BY <1>26 DEF SendLine, Received
  <2>2. Tail(lines[i]) \in Seq(Lines) /\ Len(Tail(lines[i])) <= Capacity
    BY <2>1
  <2>3. lines' = [lines EXCEPT ![i] = Tail(lines[i])]
    BY <1>26 DEF SendLine
  <2>4. lines' \in [Clients -> Seq(Lines)] /\ \A j \in Clients : Len(lines'[j]) <= Capacity
    BY <2>2, <2>3
  <2> QED BY <1>26, <2>4 DEF SendLine, Serving, StartSend
<1>27. ASSUME NEW i \in Clients, SendKeepalive(i) PROVE TypeOK'
  BY <1>27 DEF SendKeepalive, Serving, StartSend
<1>28. ASSUME NEW i \in Clients, NothingToSend(i) PROVE TypeOK'
  BY <1>28 DEF NothingToSend, Serving, NextClient
<1>29. ASSUME NEW i \in Clients, StreamHeadersSent(i) PROVE TypeOK'
  <2>1. CASE Cleanup(i)
    BY <1>29, <2>1 DEF StreamHeadersSent, SendReturns, NextClient, Cleanup, Hangup
  <2>2. CASE ~Cleanup(i)
    <3>1. /\ buffer' = [buffer EXCEPT ![i] = "registered"] /\ TouchBySend(sock[i])
          /\ UNCHANGED <<sock, lines, req, reading>>
      BY <1>29, <2>2 DEF StreamHeadersSent, OpenStream
    <3>2. sock[i] \in Peers
      BY <1>29 DEF StreamHeadersSent, SendReturns
    <3>3. conn' \in [Peers -> Conns]
      BY <3>1, <3>2 DEF TouchBySend
    <3>4. slot' \in 1..(MaxClients + 1) /\ pc' = "serve" /\ sending' = "none"
      BY <1>29 DEF StreamHeadersSent, SendReturns, NextClient
    <3>5. UNCHANGED <<avars, netChanged, svars>>
      BY <1>29 DEF StreamHeadersSent, SendReturns
    <3> QED BY <3>1, <3>3, <3>4, <3>5
  <2> QED BY <2>1, <2>2
<1>30. ASSUME NEW i \in Clients, SendDone(i) PROVE TypeOK'
  BY <1>30 DEF SendDone, SendReturns, NextClient, TouchBySend
<1>31. ASSUME NEW i \in Clients, SendFails(i) PROVE TypeOK'
  BY <1>31 DEF SendFails, SendReturns, NextClient, Cleanup, Hangup
<1>32. ASSUME NEW p \in Peers, Connect(p) PROVE TypeOK'
  BY <1>32 DEF Connect, ServerUnchanged
<1>33. ASSUME NEW p \in Peers, NEW r \in {"page", "events"}, Request(p, r)
     PROVE  TypeOK'
  BY <1>33 DEF Request, ServerUnchanged
<1>34. ASSUME NEW p \in Peers, Stall(p) PROVE TypeOK'
  BY <1>34 DEF Stall, ServerUnchanged
<1>35. ASSUME NEW p \in Peers, Resume(p) PROVE TypeOK'
  BY <1>35 DEF Resume, ServerUnchanged
<1>36. ASSUME NEW p \in Peers, PeerLeaves(p) PROVE TypeOK'
  BY <1>36 DEF PeerLeaves, ServerUnchanged
<1>37. ASSUME NEW p \in Peers, TcpGivesUp(p) PROVE TypeOK'
  BY <1>37 DEF TcpGivesUp, ServerUnchanged
<1>38. CASE Log
  <2>1. PICK m \in Lines :
          lines' = [j \in Clients |-> IF j \in Registered /\ HasRoom(j)
                                     THEN Append(lines[j], m) ELSE lines[j]]
    BY <1>38 DEF Log
  <2>2. ASSUME NEW j \in Clients PROVE lines'[j] \in Seq(Lines) /\ Len(lines'[j]) <= Capacity
    <3>1. lines[j] \in Seq(Lines) /\ Len(lines[j]) \in Nat
      OBVIOUS
    <3>2. CASE j \in Registered /\ HasRoom(j)
      <4>1. lines'[j] = Append(lines[j], m)
        BY <2>1, <3>2
      <4> QED BY <3>1, <3>2, <4>1 DEF HasRoom
    <3>3. CASE ~(j \in Registered /\ HasRoom(j))
      BY <2>1, <3>3
    <3> QED BY <3>2, <3>3
  <2>3. lines' \in [Clients -> Seq(Lines)] /\ \A j \in Clients : Len(lines'[j]) <= Capacity
    BY <2>1, <2>2
  <2> QED BY <1>38, <2>3 DEF Log, ServerUnchanged
<1>39. CASE UNCHANGED vars
  BY <1>39 DEF vars
<1> QED
  BY <1>1, <1>2, <1>3, <1>4, <1>5, <1>6, <1>7, <1>8, <1>9, <1>10, <1>11, <1>12, <1>13, <1>14,
     <1>15, <1>16, <1>17, <1>18, <1>19, <1>20, <1>21, <1>22, <1>23, <1>24, <1>25, <1>26,
     <1>27, <1>28, <1>29, <1>30, <1>31, <1>32, <1>33, <1>34, <1>35, <1>36, <1>37, <1>38, <1>39
  DEF Next, AppStep, TaskStep, ServeStep, PeerStep

\* Every step keeps the task's places, and no round begins with anything left of the one
\* before.
LEMMA PlacesStep == IInv /\ [Next]_vars => Places' /\ NothingLeftBehind'
<1> SUFFICES ASSUME IInv, [Next]_vars PROVE Places' /\ NothingLeftBehind'
  OBVIOUS
<1> USE SseServerAssumption
<1> USE DEF avars, cvars, pvars, svars, tvars, At, IInv, TypeOK, Places, NothingLeftBehind, Clients
<1>1. CASE ServerInit
  BY <1>1 DEF ServerInit
<1>2. CASE Run
  BY <1>2 DEF Run
<1>3. CASE RunFails
  BY <1>3 DEF RunFails
<1>4. CASE StopCall
  BY <1>4 DEF StopCall
<1>5. CASE StopOk
  BY <1>5 DEF StopOk
<1>6. CASE StopTimeout
  BY <1>6 DEF StopTimeout
<1>7. CASE Deinit
  BY <1>7 DEF Deinit
<1>8. CASE NetworkChanged
  BY <1>8 DEF NetworkChanged
<1>9. CASE Exit
  BY <1>9 DEF Exit
<1>10. CASE EnterOuter
  BY <1>10 DEF EnterOuter
<1>11. CASE Restart
  BY <1>11 DEF Restart
<1>12. CASE BindFails
  BY <1>12 DEF BindFails
<1>13. CASE Listen
  BY <1>13 DEF Listen
<1>14. CASE LeaveInner
  BY <1>14 DEF LeaveInner
<1>15. CASE AcceptNone
  BY <1>15 DEF AcceptNone
<1>16. CASE Accept
  BY <1>16 DEF Accept, TakeConnection
<1>17. CASE AcceptFails
  BY <1>17 DEF AcceptFails
<1>18. CASE AcceptBlocking
  BY <1>18 DEF AcceptBlocking, TakeConnection
<1>19. CASE CheckChanged
  BY <1>19 DEF CheckChanged, RoundDone
<1>20. CASE CheckUnchanged
  BY <1>20 DEF CheckUnchanged, RoundDone
<1>21. CASE Close
  BY <1>21 DEF Close, CloseAll, CloseListener
<1>22. ASSUME NEW i \in Clients, SkipFree(i) PROVE Places' /\ NothingLeftBehind'
  BY <1>22 DEF SkipFree, Serving, NextClient
<1>23. ASSUME NEW i \in Clients, ReceiveNothing(i) PROVE Places' /\ NothingLeftBehind'
  BY <1>23 DEF ReceiveNothing, Serving, NextClient, Touch
<1>24. ASSUME NEW i \in Clients, ReceiveError(i) PROVE Places' /\ NothingLeftBehind'
  BY <1>24 DEF ReceiveError, Serving, NextClient, Cleanup, Hangup
<1>25. ASSUME NEW i \in Clients, ReceiveRequest(i) PROVE Places' /\ NothingLeftBehind'
  BY <1>25 DEF ReceiveRequest, Serving, StartSend
<1>26. ASSUME NEW i \in Clients, SendLine(i) PROVE Places' /\ NothingLeftBehind'
  BY <1>26 DEF SendLine, Serving, StartSend
<1>27. ASSUME NEW i \in Clients, SendKeepalive(i) PROVE Places' /\ NothingLeftBehind'
  BY <1>27 DEF SendKeepalive, Serving, StartSend
<1>28. ASSUME NEW i \in Clients, NothingToSend(i) PROVE Places' /\ NothingLeftBehind'
  BY <1>28 DEF NothingToSend, Serving, NextClient
<1>29. ASSUME NEW i \in Clients, StreamHeadersSent(i) PROVE Places' /\ NothingLeftBehind'
  BY <1>29 DEF StreamHeadersSent, SendReturns, NextClient, OpenStream, Cleanup, Hangup,
    TouchBySend
<1>30. ASSUME NEW i \in Clients, SendDone(i) PROVE Places' /\ NothingLeftBehind'
  BY <1>30 DEF SendDone, SendReturns, NextClient, TouchBySend
<1>31. ASSUME NEW i \in Clients, SendFails(i) PROVE Places' /\ NothingLeftBehind'
  BY <1>31 DEF SendFails, SendReturns, NextClient, Cleanup, Hangup
<1>32. ASSUME NEW p \in Peers, Connect(p) PROVE Places' /\ NothingLeftBehind'
  BY <1>32 DEF Connect, ServerUnchanged
<1>33. ASSUME NEW p \in Peers, NEW r \in {"page", "events"}, Request(p, r)
     PROVE  Places' /\ NothingLeftBehind'
  BY <1>33 DEF Request, ServerUnchanged
<1>34. ASSUME NEW p \in Peers, Stall(p) PROVE Places' /\ NothingLeftBehind'
  BY <1>34 DEF Stall, ServerUnchanged
<1>35. ASSUME NEW p \in Peers, Resume(p) PROVE Places' /\ NothingLeftBehind'
  BY <1>35 DEF Resume, ServerUnchanged
<1>36. ASSUME NEW p \in Peers, PeerLeaves(p) PROVE Places' /\ NothingLeftBehind'
  BY <1>36 DEF PeerLeaves, ServerUnchanged
<1>37. ASSUME NEW p \in Peers, TcpGivesUp(p) PROVE Places' /\ NothingLeftBehind'
  BY <1>37 DEF TcpGivesUp, ServerUnchanged
<1>38. CASE Log
  BY <1>38 DEF Log, ServerUnchanged
<1>39. CASE UNCHANGED vars
  BY <1>39 DEF vars
<1> QED
  BY <1>1, <1>2, <1>3, <1>4, <1>5, <1>6, <1>7, <1>8, <1>9, <1>10, <1>11, <1>12, <1>13, <1>14,
     <1>15, <1>16, <1>17, <1>18, <1>19, <1>20, <1>21, <1>22, <1>23, <1>24, <1>25, <1>26,
     <1>27, <1>28, <1>29, <1>30, <1>31, <1>32, <1>33, <1>34, <1>35, <1>36, <1>37, <1>38, <1>39
  DEF Next, AppStep, TaskStep, ServeStep, PeerStep

\* Every step keeps entries, buffers and connections together.
LEMMA ClientStep == IInv /\ [Next]_vars => EveryBufferHasAClient'
<1> SUFFICES ASSUME IInv, [Next]_vars PROVE EveryBufferHasAClient'
  OBVIOUS
<1> USE SseServerAssumption
<1> USE DEF avars, cvars, pvars, svars, tvars, At, IInv, TypeOK, Places, NothingLeftBehind,
            EveryBufferHasAClient, Left
<1>1. CASE ServerInit
  BY <1>1 DEF ServerInit
<1>2. CASE Run
  BY <1>2 DEF Run
<1>3. CASE RunFails
  BY <1>3 DEF RunFails
<1>4. CASE StopCall
  BY <1>4 DEF StopCall
<1>5. CASE StopOk
  BY <1>5 DEF StopOk
<1>6. CASE StopTimeout
  BY <1>6 DEF StopTimeout
<1>7. CASE Deinit
  BY <1>7 DEF Deinit
<1>8. CASE NetworkChanged
  BY <1>8 DEF NetworkChanged
<1>9. CASE Exit
  BY <1>9 DEF Exit
<1>10. CASE EnterOuter
  BY <1>10 DEF EnterOuter
<1>11. CASE Restart
  BY <1>11 DEF Restart
<1>12. CASE BindFails
  BY <1>12 DEF BindFails
<1>13. CASE Listen
  BY <1>13 DEF Listen
<1>14. CASE LeaveInner
  BY <1>14 DEF LeaveInner
<1>15. CASE AcceptNone
  BY <1>15 DEF AcceptNone
<1>16. CASE Accept
  <2>1. PICK i \in Clients, p \in Pending : /\ FreeClient(i)
                                          /\ sock' = [sock EXCEPT ![i] = p]
                                          /\ conn' = [conn EXCEPT ![p] = "open"]
    BY <1>16 DEF Accept, TakeConnection
  <2>2. p \in Peers /\ conn[p] = "pending" /\ sock[i] = NULL
    BY <2>1 DEF Pending, FreeClient
  <2>3. UNCHANGED <<buffer, lines, req, reading>>
    BY <1>16 DEF Accept, TakeConnection
  <2> QED BY <2>1, <2>2, <2>3
<1>17. CASE AcceptFails
  <2>1. PICK p \in Pending : conn' = [conn EXCEPT ![p] = "idle"]
    BY <1>17 DEF AcceptFails
  <2>2. p \in Peers /\ conn[p] = "pending"
    BY <2>1 DEF Pending
  <2>3. UNCHANGED <<sock, buffer>>
    BY <1>17 DEF AcceptFails
  <2> QED BY <2>1, <2>2, <2>3
<1>18. CASE AcceptBlocking
  <2>1. PICK i \in Clients, p \in Pending : /\ FreeClient(i)
                                          /\ sock' = [sock EXCEPT ![i] = p]
                                          /\ conn' = [conn EXCEPT ![p] = "open"]
    BY <1>18 DEF AcceptBlocking, TakeConnection
  <2>2. p \in Peers /\ conn[p] = "pending" /\ sock[i] = NULL
    BY <2>1 DEF Pending, FreeClient
  <2>3. UNCHANGED <<buffer, lines, req, reading>>
    BY <1>18 DEF AcceptBlocking, TakeConnection
  <2> QED BY <2>1, <2>2, <2>3
<1>19. CASE CheckChanged
  BY <1>19 DEF CheckChanged, RoundDone
<1>20. CASE CheckUnchanged
  BY <1>20 DEF CheckUnchanged, RoundDone
<1>21. CASE Close
  BY <1>21 DEF Close, CloseAll, CloseListener
<1>22. ASSUME NEW i \in Clients, SkipFree(i) PROVE EveryBufferHasAClient'
  BY <1>22 DEF SkipFree, Serving, NextClient
<1>23. ASSUME NEW i \in Clients, ReceiveNothing(i) PROVE EveryBufferHasAClient'
  BY <1>23 DEF ReceiveNothing, Serving, NextClient, Touch
<1>24. ASSUME NEW i \in Clients, ReceiveError(i) PROVE EveryBufferHasAClient'
  BY <1>24 DEF ReceiveError, Serving, NextClient, Cleanup, Hangup
<1>25. ASSUME NEW i \in Clients, ReceiveRequest(i) PROVE EveryBufferHasAClient'
  BY <1>25 DEF ReceiveRequest, Serving, StartSend
<1>26. ASSUME NEW i \in Clients, SendLine(i) PROVE EveryBufferHasAClient'
  BY <1>26 DEF SendLine, Serving, StartSend
<1>27. ASSUME NEW i \in Clients, SendKeepalive(i) PROVE EveryBufferHasAClient'
  BY <1>27 DEF SendKeepalive, Serving, StartSend
<1>28. ASSUME NEW i \in Clients, NothingToSend(i) PROVE EveryBufferHasAClient'
  BY <1>28 DEF NothingToSend, Serving, NextClient
<1>29. ASSUME NEW i \in Clients, StreamHeadersSent(i) PROVE EveryBufferHasAClient'
  <2>1. sock[i] # NULL
    BY <1>29 DEF StreamHeadersSent, SendReturns
  <2>2. CASE Cleanup(i)
    BY <2>1, <2>2 DEF Cleanup, Hangup
  <2>3. CASE ~Cleanup(i)
    <3>1. /\ buffer' = [buffer EXCEPT ![i] = "registered"] /\ TouchBySend(sock[i])
          /\ UNCHANGED sock
      BY <1>29, <2>3 DEF StreamHeadersSent, OpenStream
    <3>2. \A p \in Peers : conn'[p] \in {"open"} \cup Left <=> conn[p] \in {"open"} \cup Left
      BY <2>1, <3>1 DEF TouchBySend
    <3> HIDE DEF Left
    <3> QED BY <2>1, <3>1, <3>2
  <2> QED BY <2>2, <2>3
<1>30. ASSUME NEW i \in Clients, SendDone(i) PROVE EveryBufferHasAClient'
  BY <1>30 DEF SendDone, SendReturns, NextClient, TouchBySend
<1>31. ASSUME NEW i \in Clients, SendFails(i) PROVE EveryBufferHasAClient'
  BY <1>31 DEF SendFails, SendReturns, NextClient, Cleanup, Hangup
<1>32. ASSUME NEW p \in Peers, Connect(p) PROVE EveryBufferHasAClient'
  BY <1>32 DEF Connect, ServerUnchanged
<1>33. ASSUME NEW p \in Peers, NEW r \in {"page", "events"}, Request(p, r)
     PROVE  EveryBufferHasAClient'
  BY <1>33 DEF Request, ServerUnchanged
<1>34. ASSUME NEW p \in Peers, Stall(p) PROVE EveryBufferHasAClient'
  BY <1>34 DEF Stall, ServerUnchanged
<1>35. ASSUME NEW p \in Peers, Resume(p) PROVE EveryBufferHasAClient'
  BY <1>35 DEF Resume, ServerUnchanged
<1>36. ASSUME NEW p \in Peers, PeerLeaves(p) PROVE EveryBufferHasAClient'
  BY <1>36 DEF PeerLeaves, ServerUnchanged
<1>37. ASSUME NEW p \in Peers, TcpGivesUp(p) PROVE EveryBufferHasAClient'
  BY <1>37 DEF TcpGivesUp, ServerUnchanged
<1>38. CASE Log
  BY <1>38 DEF Log, ServerUnchanged
<1>39. CASE UNCHANGED vars
  BY <1>39 DEF vars
<1> QED
  BY <1>1, <1>2, <1>3, <1>4, <1>5, <1>6, <1>7, <1>8, <1>9, <1>10, <1>11, <1>12, <1>13, <1>14,
     <1>15, <1>16, <1>17, <1>18, <1>19, <1>20, <1>21, <1>22, <1>23, <1>24, <1>25, <1>26,
     <1>27, <1>28, <1>29, <1>30, <1>31, <1>32, <1>33, <1>34, <1>35, <1>36, <1>37, <1>38, <1>39
  DEF Next, AppStep, TaskStep, ServeStep, PeerStep

\* Closing a client opens nothing.
LEMMA OpenShrinks ==
  ASSUME TypeOK, Open <= Sockets, InUse' <= InUse, UNCHANGED <<listening, leaked>>
  PROVE  Open' <= Sockets
<1>1. InUse \in Nat /\ InUse' \in Nat /\ leaked \in Nat /\ Sockets \in Nat
  BY InUseNat, SseServerAssumption DEF TypeOK
<1>2. ASSUME NEW a \in Nat, NEW b \in Nat, NEW c \in Nat, NEW d \in {0, 1},
             b <= a, a + c + d <= Sockets
      PROVE  b + c + d <= Sockets
  BY <1>1, <1>2
<1>3. CASE listening
  <2>1. Open = InUse + leaked + 1 /\ Open' = InUse' + leaked + 1
    BY <1>3 DEF Open
  <2> QED BY <1>1, <1>2, <2>1
<1>4. CASE ~listening
  <2>1. Open = InUse + leaked + 0 /\ Open' = InUse' + leaked + 0
    BY <1>4 DEF Open
  <2> QED BY <1>1, <1>2, <2>1
<1> QED BY <1>3, <1>4

\* Every step accounts for the sockets.
LEMMA SocketStep == IInv /\ [Next]_vars => SocketsAccounted'
<1> SUFFICES ASSUME IInv, [Next]_vars PROVE SocketsAccounted'
  OBVIOUS
<1>0. SUFFICES ASSUME TRUE PROVE Open' <= Sockets /\ leaked' = failures'
  BY PlacesStep DEF SocketsAccounted, Places, Inner
<1> USE SseServerAssumption
<1> USE DEF avars, cvars, pvars, svars, tvars, At, IInv, TypeOK, SocketsAccounted, Open
<1>1. CASE ServerInit
  BY <1>1, SameInUse DEF ServerInit
<1>2. CASE Run
  BY <1>2, SameInUse DEF Run
<1>3. CASE RunFails
  BY <1>3, SameInUse DEF RunFails
<1>4. CASE StopCall
  BY <1>4, SameInUse DEF StopCall
<1>5. CASE StopOk
  BY <1>5, SameInUse DEF StopOk
<1>6. CASE StopTimeout
  BY <1>6, SameInUse DEF StopTimeout
<1>7. CASE Deinit
  BY <1>7, SameInUse DEF Deinit
<1>8. CASE NetworkChanged
  BY <1>8, SameInUse DEF NetworkChanged
<1>9. CASE Exit
  BY <1>9, SameInUse DEF Exit
<1>10. CASE EnterOuter
  BY <1>10, SameInUse DEF EnterOuter
<1>11. CASE Restart
  <2>1. InUse = 0 /\ ~listening
    BY <1>11, NoneInUse DEF Restart, Places, NothingLeftBehind
  <2>2. InUse' = 0 /\ leaked' = leaked /\ failures' = failures
    BY <1>11, <2>1, NoneInUseNext DEF Restart
  <2>3. listening' => Open < Sockets
    BY <1>11, <2>1 DEF Restart
  <2> QED BY <2>1, <2>2, <2>3
<1>12. CASE BindFails
  <2>1. listening /\ ~listening' /\ InUse' = InUse
    BY <1>12, SameInUse DEF BindFails, Places
  <2> QED BY <1>12, <2>1, InUseNat DEF BindFails
<1>13. CASE Listen
  BY <1>13, SameInUse DEF Listen
<1>14. CASE LeaveInner
  BY <1>14, SameInUse DEF LeaveInner
<1>15. CASE AcceptNone
  BY <1>15, SameInUse DEF AcceptNone
<1>16. CASE Accept
  <2>1. PICK i \in Clients, p \in Pending : /\ FreeClient(i)
                                          /\ sock' = [sock EXCEPT ![i] = p]
                                          /\ conn' = [conn EXCEPT ![p] = "open"]
    BY <1>16 DEF Accept, TakeConnection
  <2>2. p \in Peers /\ conn[p] = "pending" /\ sock[i] = NULL
    BY <2>1 DEF Pending, FreeClient
  <2>3. UNCHANGED <<buffer, lines, req, reading>>
    BY <1>16 DEF Accept, TakeConnection
  <2>4. InUse' = InUse + 1 /\ Open < Sockets
    BY <1>16, <2>1, <2>2, OneMoreInUse DEF Accept, TakeConnection
  <2> QED BY <1>16, <2>4, InUseNat DEF Accept
<1>17. CASE AcceptFails
  BY <1>17, SameInUse DEF AcceptFails
<1>18. CASE AcceptBlocking
  <2>1. PICK i \in Clients, p \in Pending : /\ FreeClient(i)
                                          /\ sock' = [sock EXCEPT ![i] = p]
                                          /\ conn' = [conn EXCEPT ![p] = "open"]
    BY <1>18 DEF AcceptBlocking, TakeConnection
  <2>2. p \in Peers /\ conn[p] = "pending" /\ sock[i] = NULL
    BY <2>1 DEF Pending, FreeClient
  <2>3. UNCHANGED <<buffer, lines, req, reading>>
    BY <1>18 DEF AcceptBlocking, TakeConnection
  <2>4. InUse' = InUse + 1 /\ Open < Sockets
    BY <1>18, <2>1, <2>2, OneMoreInUse DEF AcceptBlocking, TakeConnection
  <2> QED BY <1>18, <2>4, InUseNat DEF AcceptBlocking
<1>19. CASE CheckChanged
  BY <1>19, SameInUse DEF CheckChanged, RoundDone
<1>20. CASE CheckUnchanged
  BY <1>20, SameInUse DEF CheckUnchanged, RoundDone
<1>21. CASE Close
  <2>1. InUse' = 0 /\ ~listening' /\ UNCHANGED <<leaked, failures>>
    BY <1>21, NoneInUseNext DEF Close, CloseAll, CloseListener
  <2> QED BY <2>1, InUseNat
<1>22. ASSUME NEW i \in Clients, SkipFree(i) PROVE Open' <= Sockets /\ leaked' = failures'
  BY <1>22, SameInUse DEF SkipFree, Serving, NextClient
<1>23. ASSUME NEW i \in Clients, ReceiveNothing(i) PROVE Open' <= Sockets /\ leaked' = failures'
  BY <1>23, SameInUse DEF ReceiveNothing, Serving, NextClient, Touch
<1>24. ASSUME NEW i \in Clients, ReceiveError(i) PROVE Open' <= Sockets /\ leaked' = failures'
  <2>1. sock' = [sock EXCEPT ![i] = NULL] /\ UNCHANGED svars
    BY <1>24 DEF ReceiveError, Cleanup
  <2>2. InUse' <= InUse
    BY <2>1, NoMoreInUse
  <2>3. UNCHANGED <<listening, leaked, failures>>
    BY <2>1
  <2> QED BY <2>2, <2>3, OpenShrinks
<1>25. ASSUME NEW i \in Clients, ReceiveRequest(i) PROVE Open' <= Sockets /\ leaked' = failures'
  BY <1>25, SameInUse DEF ReceiveRequest, Serving, StartSend
<1>26. ASSUME NEW i \in Clients, SendLine(i) PROVE Open' <= Sockets /\ leaked' = failures'
  BY <1>26, SameInUse DEF SendLine, Serving, StartSend
<1>27. ASSUME NEW i \in Clients, SendKeepalive(i) PROVE Open' <= Sockets /\ leaked' = failures'
  BY <1>27, SameInUse DEF SendKeepalive, Serving, StartSend
<1>28. ASSUME NEW i \in Clients, NothingToSend(i) PROVE Open' <= Sockets /\ leaked' = failures'
  BY <1>28, SameInUse DEF NothingToSend, Serving, NextClient
<1>29. ASSUME NEW i \in Clients, StreamHeadersSent(i) PROVE Open' <= Sockets /\ leaked' = failures'
  <2>1. CASE Cleanup(i)
    <3>1. sock' = [sock EXCEPT ![i] = NULL] /\ UNCHANGED svars
      BY <1>29, <2>1 DEF StreamHeadersSent, SendReturns, Cleanup
    <3>2. InUse' <= InUse
      BY <3>1, NoMoreInUse
    <3>3. UNCHANGED <<listening, leaked, failures>>
      BY <3>1
    <3> QED BY <3>2, <3>3, OpenShrinks
  <2>2. CASE ~Cleanup(i)
    <3>1. UNCHANGED <<sock, svars>>
      BY <1>29, <2>2 DEF StreamHeadersSent, SendReturns, OpenStream
    <3> QED BY <3>1, SameInUse
  <2> QED BY <2>1, <2>2
<1>30. ASSUME NEW i \in Clients, SendDone(i) PROVE Open' <= Sockets /\ leaked' = failures'
  BY <1>30, SameInUse DEF SendDone, SendReturns, NextClient, TouchBySend
<1>31. ASSUME NEW i \in Clients, SendFails(i) PROVE Open' <= Sockets /\ leaked' = failures'
  <2>1. sock' = [sock EXCEPT ![i] = NULL] /\ UNCHANGED svars
    BY <1>31 DEF SendFails, Cleanup, SendReturns
  <2>2. InUse' <= InUse
    BY <2>1, NoMoreInUse
  <2>3. UNCHANGED <<listening, leaked, failures>>
    BY <2>1
  <2> QED BY <2>2, <2>3, OpenShrinks
<1>32. ASSUME NEW p \in Peers, Connect(p) PROVE Open' <= Sockets /\ leaked' = failures'
  BY <1>32, SameInUse DEF Connect, ServerUnchanged
<1>33. ASSUME NEW p \in Peers, NEW r \in {"page", "events"}, Request(p, r)
     PROVE  Open' <= Sockets /\ leaked' = failures'
  BY <1>33, SameInUse DEF Request, ServerUnchanged
<1>34. ASSUME NEW p \in Peers, Stall(p) PROVE Open' <= Sockets /\ leaked' = failures'
  BY <1>34, SameInUse DEF Stall, ServerUnchanged
<1>35. ASSUME NEW p \in Peers, Resume(p) PROVE Open' <= Sockets /\ leaked' = failures'
  BY <1>35, SameInUse DEF Resume, ServerUnchanged
<1>36. ASSUME NEW p \in Peers, PeerLeaves(p) PROVE Open' <= Sockets /\ leaked' = failures'
  BY <1>36, SameInUse DEF PeerLeaves, ServerUnchanged
<1>37. ASSUME NEW p \in Peers, TcpGivesUp(p) PROVE Open' <= Sockets /\ leaked' = failures'
  BY <1>37, SameInUse DEF TcpGivesUp, ServerUnchanged
<1>38. CASE Log
  BY <1>38, SameInUse DEF Log, ServerUnchanged
<1>39. CASE UNCHANGED vars
  BY <1>39, SameInUse DEF vars
<1> QED
  BY <1>1, <1>2, <1>3, <1>4, <1>5, <1>6, <1>7, <1>8, <1>9, <1>10, <1>11, <1>12, <1>13, <1>14,
     <1>15, <1>16, <1>17, <1>18, <1>19, <1>20, <1>21, <1>22, <1>23, <1>24, <1>25, <1>26,
     <1>27, <1>28, <1>29, <1>30, <1>31, <1>32, <1>33, <1>34, <1>35, <1>36, <1>37, <1>38, <1>39
  DEF Next, AppStep, TaskStep, ServeStep, PeerStep

LEMMA IInvStep == IInv /\ [Next]_vars => IInv'
  BY TypeStep, PlacesStep, ClientStep, SocketStep DEF IInv

LEMMA IInvCorrect == Spec => []IInv
  BY IInvInit, IInvStep, PTL DEF Spec

\* Every variable keeps its type; no buffer holds more lines than it has room for.
THEOREM TypeCorrect == Spec => []TypeOK
<1>1. IInv => TypeOK
  BY DEF IInv
<1> QED BY <1>1, IInvCorrect, PTL

\* However a round of the server ends, the next begins without a connection or a registered
\* buffer, and so does the time after the task, for any number of clients.
THEOREM NothingLeftBehindCorrect == Spec => []NothingLeftBehind
<1>1. IInv => NothingLeftBehind
  BY DEF IInv
<1> QED BY <1>1, IInvCorrect, PTL

\* Every registered buffer has a client that empties and frees it, and no connection is lost
\* or in two entries.
THEOREM EveryBufferHasAClientCorrect == Spec => []EveryBufferHasAClient
<1>1. IInv => EveryBufferHasAClient
  BY DEF IInv
<1> QED BY <1>1, IInvCorrect, PTL

\* Only the starts that fail between socket and listen cost a socket.
THEOREM SocketsAccountedCorrect == Spec => []SocketsAccounted
<1>1. IInv => SocketsAccounted
  BY DEF IInv
<1> QED BY <1>1, IInvCorrect, PTL

-----------------------------------------------------------------------------
(* What becomes of a connection. *)

\* An entry is never taken from one connection for another: it is given up first, and then
\* its connection is closed and its buffer is gone.
GivenUp(i) ==
  sock[i] # NULL /\ sock'[i] # sock[i] =>
    sock'[i] = NULL /\ buffer'[i] = "none" /\ conn'[sock[i]] = "idle"

LEMMA CleanupGivesUp ==
  ASSUME TypeOK, NEW i \in Clients, sock[i] # NULL, Cleanup(i)
  PROVE  \A j \in Clients : GivenUp(j)
BY DEF TypeOK, Cleanup, Hangup, GivenUp

LEMMA GivenUpStep == IInv /\ [Next]_vars => \A j \in Clients : GivenUp(j)
<1> SUFFICES ASSUME IInv, [Next]_vars PROVE \A j \in Clients : GivenUp(j)
  OBVIOUS
<1>1. CASE UNCHANGED sock
  BY <1>1 DEF GivenUp
<1>2. CASE Accept \/ AcceptBlocking
  <2>1. PICK i \in Clients, p \in Pending : sock[i] = NULL /\ sock' = [sock EXCEPT ![i] = p]
    BY <1>2 DEF Accept, AcceptBlocking, TakeConnection, FreeClient
  <2> QED BY <2>1 DEF GivenUp, IInv, TypeOK
<1>3. CASE Restart
  <2>1. \A j \in Clients : sock[j] = NULL
    BY <1>3 DEF Restart, At, IInv, NothingLeftBehind
  <2> QED BY <2>1 DEF GivenUp
<1>4. CASE Close
  BY <1>4 DEF Close, CloseAll, GivenUp, IInv, TypeOK
<1>5. ASSUME NEW i \in Clients, ReceiveError(i) \/ SendFails(i) \/ StreamHeadersSent(i),
             ~UNCHANGED sock
      PROVE  \A j \in Clients : GivenUp(j)
  <2>1. sock[i] # NULL
    BY <1>5 DEF ReceiveError, SendFails, StreamHeadersSent, SendReturns, At, IInv, Places
  <2>2. Cleanup(i)
    BY <1>5 DEF ReceiveError, SendFails, StreamHeadersSent, OpenStream
  <2> QED BY <2>1, <2>2, CleanupGivesUp DEF IInv
<1>6. ASSUME NEW i \in Clients, ServeStep(i) PROVE \A j \in Clients : GivenUp(j)
  <2>1. CASE ReceiveError(i) \/ SendFails(i) \/ StreamHeadersSent(i)
    BY <2>1, <1>1, <1>5
  <2>2. CASE ~(ReceiveError(i) \/ SendFails(i) \/ StreamHeadersSent(i))
    <3>1. UNCHANGED sock
      BY <1>6, <2>2
      DEF ServeStep, SkipFree, ReceiveNothing, ReceiveRequest, SendLine, SendKeepalive,
          NothingToSend, SendDone, cvars
    <3> QED BY <3>1, <1>1
  <2> QED BY <2>1, <2>2
<1>7. CASE TaskStep
  <2>1. CASE ~(Accept \/ AcceptBlocking \/ Restart \/ Close \/ \E i \in Clients : ServeStep(i))
    <3>1. UNCHANGED sock
      BY <1>7, <2>1
      DEF TaskStep, Exit, EnterOuter, BindFails, Listen, LeaveInner, AcceptNone, AcceptFails,
          CheckChanged, CheckUnchanged, cvars
    <3> QED BY <3>1, <1>1
  <2> QED BY <2>1, <1>2, <1>3, <1>4, <1>6
<1>8. CASE ~TaskStep
  <2>1. UNCHANGED sock
    BY <1>8
    DEF vars, cvars, Next, AppStep, ServerInit, Run, RunFails, StopCall, StopOk, StopTimeout,
        Deinit, NetworkChanged, PeerStep, Connect, Request, Stall, Resume, PeerLeaves, TcpGivesUp, Log
  <2> QED BY <2>1, <1>1
<1> QED BY <1>7, <1>8

\* Whatever the application, the peers and the network do, a connection that leaves the array
\* was closed and its buffer deleted, and no entry passes from one connection to the next.
THEOREM EntriesAreGivenUpCorrect == Spec => [][\A i \in Clients : GivenUp(i)]_vars
<1>1. IInv /\ [Next]_vars => [\A i \in Clients : GivenUp(i)]_vars
  BY GivenUpStep
<1> QED BY <1>1, IInvCorrect, PTL DEF Spec

-----------------------------------------------------------------------------
(* An application that heeds the result of stop and initialises before each run. *)

Heeds == ChecksStop /\ ~RunsAgain

\* While there is a task its server is there and not yet reported as stopped.
Lifecycle ==
  /\ app = "none" <=> ~server
  /\ app \in {"none", "ready", "stopped"} => pc = "none"
  /\ app = "ready" => ~stopped
  /\ stopped => pc = "none"

LEMMA LifecycleInit == Init => Lifecycle
<1> SUFFICES ASSUME Init PROVE Lifecycle
  OBVIOUS
<1>1. app = "none" /\ ~server /\ pc = "none" /\ ~stopped
  BY DEF Init
<1> QED BY <1>1 DEF Lifecycle

LEMMA LifecycleStep == Heeds /\ IInv /\ Lifecycle /\ [Next]_vars => Lifecycle'
<1> SUFFICES ASSUME Heeds, IInv, Lifecycle, [Next]_vars PROVE Lifecycle'
  OBVIOUS
<1> USE SseServerAssumption
<1> USE DEF avars, cvars, pvars, svars, tvars, At, Heeds, IInv, TypeOK, Lifecycle
<1>1. CASE ServerInit
  <2>1. app' = "ready" /\ server' /\ ~stopped'
    BY <1>1 DEF ServerInit
  <2>2. pc' = "none"
    BY <1>1 DEF ServerInit
  <2> QED BY <2>1, <2>2
<1>2. CASE Run
  BY <1>2 DEF Run
<1>3. CASE RunFails
  BY <1>3 DEF RunFails
<1>4. CASE StopCall
  BY <1>4 DEF StopCall
<1>5. CASE StopOk
  BY <1>5 DEF StopOk
<1>6. CASE StopTimeout
  BY <1>6 DEF StopTimeout
<1>7. CASE Deinit
  BY <1>7 DEF Deinit
<1>8. CASE NetworkChanged
  BY <1>8 DEF NetworkChanged
<1>9. CASE Exit
  BY <1>9 DEF Exit
<1>10. CASE EnterOuter
  BY <1>10 DEF EnterOuter
<1>11. CASE Restart
  BY <1>11 DEF Restart
<1>12. CASE BindFails
  BY <1>12 DEF BindFails
<1>13. CASE Listen
  BY <1>13 DEF Listen
<1>14. CASE LeaveInner
  BY <1>14 DEF LeaveInner
<1>15. CASE AcceptNone
  BY <1>15 DEF AcceptNone
<1>16. CASE Accept
  BY <1>16 DEF Accept, TakeConnection
<1>17. CASE AcceptFails
  BY <1>17 DEF AcceptFails
<1>18. CASE AcceptBlocking
  BY <1>18 DEF AcceptBlocking, TakeConnection
<1>19. CASE CheckChanged
  BY <1>19 DEF CheckChanged, RoundDone
<1>20. CASE CheckUnchanged
  BY <1>20 DEF CheckUnchanged, RoundDone
<1>21. CASE Close
  BY <1>21 DEF Close, CloseAll, CloseListener
<1>22. ASSUME NEW i \in Clients, SkipFree(i) PROVE Lifecycle'
  BY <1>22 DEF SkipFree, Serving, NextClient
<1>23. ASSUME NEW i \in Clients, ReceiveNothing(i) PROVE Lifecycle'
  BY <1>23 DEF ReceiveNothing, Serving, NextClient, Touch
<1>24. ASSUME NEW i \in Clients, ReceiveError(i) PROVE Lifecycle'
  BY <1>24 DEF ReceiveError, Serving, NextClient, Cleanup, Hangup
<1>25. ASSUME NEW i \in Clients, ReceiveRequest(i) PROVE Lifecycle'
  BY <1>25 DEF ReceiveRequest, Serving, StartSend
<1>26. ASSUME NEW i \in Clients, SendLine(i) PROVE Lifecycle'
  BY <1>26 DEF SendLine, Serving, StartSend
<1>27. ASSUME NEW i \in Clients, SendKeepalive(i) PROVE Lifecycle'
  BY <1>27 DEF SendKeepalive, Serving, StartSend
<1>28. ASSUME NEW i \in Clients, NothingToSend(i) PROVE Lifecycle'
  BY <1>28 DEF NothingToSend, Serving, NextClient
<1>29. ASSUME NEW i \in Clients, StreamHeadersSent(i) PROVE Lifecycle'
  BY <1>29 DEF StreamHeadersSent, SendReturns, NextClient, OpenStream, Cleanup, Hangup,
    TouchBySend
<1>30. ASSUME NEW i \in Clients, SendDone(i) PROVE Lifecycle'
  BY <1>30 DEF SendDone, SendReturns, NextClient, TouchBySend
<1>31. ASSUME NEW i \in Clients, SendFails(i) PROVE Lifecycle'
  BY <1>31 DEF SendFails, SendReturns, NextClient, Cleanup, Hangup
<1>32. ASSUME NEW p \in Peers, Connect(p) PROVE Lifecycle'
  BY <1>32 DEF Connect, ServerUnchanged
<1>33. ASSUME NEW p \in Peers, NEW r \in {"page", "events"}, Request(p, r)
     PROVE  Lifecycle'
  BY <1>33 DEF Request, ServerUnchanged
<1>34. ASSUME NEW p \in Peers, Stall(p) PROVE Lifecycle'
  BY <1>34 DEF Stall, ServerUnchanged
<1>35. ASSUME NEW p \in Peers, Resume(p) PROVE Lifecycle'
  BY <1>35 DEF Resume, ServerUnchanged
<1>36. ASSUME NEW p \in Peers, PeerLeaves(p) PROVE Lifecycle'
  BY <1>36 DEF PeerLeaves, ServerUnchanged
<1>37. ASSUME NEW p \in Peers, TcpGivesUp(p) PROVE Lifecycle'
  BY <1>37 DEF TcpGivesUp, ServerUnchanged
<1>38. CASE Log
  BY <1>38 DEF Log, ServerUnchanged
<1>39. CASE UNCHANGED vars
  BY <1>39 DEF vars
<1> QED
  BY <1>1, <1>2, <1>3, <1>4, <1>5, <1>6, <1>7, <1>8, <1>9, <1>10, <1>11, <1>12, <1>13, <1>14,
     <1>15, <1>16, <1>17, <1>18, <1>19, <1>20, <1>21, <1>22, <1>23, <1>24, <1>25, <1>26,
     <1>27, <1>28, <1>29, <1>30, <1>31, <1>32, <1>33, <1>34, <1>35, <1>36, <1>37, <1>38, <1>39
  DEF Next, AppStep, TaskStep, ServeStep, PeerStep

LEMMA LifecycleCorrect ==
  ASSUME Heeds
  PROVE  Spec => [](IInv /\ Lifecycle)
<1>1. IInv /\ Lifecycle /\ [Next]_vars => Lifecycle'
  BY LifecycleStep, Heeds
<1> QED BY <1>1, IInvInit, IInvStep, LifecycleInit, PTL DEF Spec

\* With the server not running, or stopped, there is no task, no connection, no buffer and no
\* listening socket: of what the server took from lwIP it holds just the sockets of its failed
\* starts, one for each, and those nobody can close any more.
StoppedIsClean ==
  app \in {"none", "ready", "stopped"} =>
    /\ pc = "none" /\ ~listening
    /\ \A i \in Clients : sock[i] = NULL /\ buffer[i] = "none"
    /\ Open = leaked /\ leaked = failures

\* Once the stop of the one run since init has succeeded, and with an application that does
\* not free the server after a stop that timed out, the server holds nothing but the memory
\* that deinit frees and the sockets that failed starts have lost.
THEOREM StoppedIsCleanCorrect ==
  ASSUME Heeds
  PROVE  Spec => []StoppedIsClean
<1>1. IInv /\ Lifecycle => StoppedIsClean
  <2> SUFFICES ASSUME IInv, Lifecycle, app \in {"none", "ready", "stopped"}
               PROVE  /\ pc = "none" /\ ~listening
                      /\ \A i \in Clients : sock[i] = NULL /\ buffer[i] = "none"
                      /\ Open = leaked /\ leaked = failures
    BY DEF StoppedIsClean
  <2>1. pc = "none" /\ ~listening
    BY DEF IInv, Places, Lifecycle
  <2>2. \A i \in Clients : sock[i] = NULL /\ buffer[i] = "none"
    BY <2>1 DEF IInv, NothingLeftBehind
  <2>3. InUse = 0
    BY <2>2, NoneInUse
  <2>4. leaked \in Nat /\ leaked = failures
    BY DEF IInv, TypeOK, SocketsAccounted
  <2>5. Open = leaked
    BY <2>1, <2>3, <2>4 DEF Open
  <2> QED BY <2>1, <2>2, <2>4, <2>5
<1> QED BY <1>1, LifecycleCorrect, Heeds, PTL

-----------------------------------------------------------------------------
(* SseServer implements LogSender. *)

LEMMA PromiseInit == Init => SenderPromise!Init
<1> SUFFICES ASSUME Init PROVE SenderPromise!Init
  OBVIOUS
<1>1. Registered = {}
  BY DEF Init, Registered
<1> QED BY <1>1 DEF Init, SenderPromise!Init

Refines == SenderPromise!Next \/ UNCHANGED SenderPromise!vars

LEMMA PromiseAppStep == Heeds /\ Lifecycle /\ AppStep => Refines
<1> SUFFICES ASSUME Heeds, Lifecycle, AppStep PROVE Refines
  OBVIOUS
<1> USE DEF avars, cvars, Heeds, Lifecycle, Refines, SenderPromise!Next, SenderPromise!vars,
            Registered
<1>1. CASE ServerInit
  BY <1>1 DEF ServerInit, tvars, SenderPromise!SenderInit
<1>2. CASE Run
  BY <1>2 DEF Run, SenderPromise!Run
<1>3. CASE RunFails
  BY <1>3 DEF RunFails, tvars
<1>4. CASE StopCall
  BY <1>4 DEF StopCall, tvars, SenderPromise!StopCall
<1>5. CASE StopOk
  BY <1>5 DEF StopOk, tvars, SenderPromise!StopOk
<1>6. CASE StopTimeout
  BY <1>6 DEF StopTimeout, tvars, SenderPromise!StopTimeout
<1>7. CASE Deinit
  BY <1>7 DEF Deinit, tvars, SenderPromise!Deinit
<1> QED BY <1>1, <1>2, <1>3, <1>4, <1>5, <1>6, <1>7 DEF AppStep

\* The last step of the task finds nothing registered, every other one is free to register
\* and unregister.
LEMMA PromiseTaskStep == IInv /\ TaskStep => Refines
<1> SUFFICES ASSUME IInv, TaskStep PROVE Refines
  OBVIOUS
<1> USE DEF avars, Refines, SenderPromise!Next
<1>1. CASE Exit
  <2>1. Registered = {} /\ pc = "outer" /\ pc' = "none"
    BY <1>1 DEF Exit, At, IInv, NothingLeftBehind, Registered
  <2>2. app' = app /\ Registered' = Registered
    BY <1>1 DEF Exit, cvars, Registered
  <2> QED BY <2>1, <2>2 DEF SenderPromise!End
<1>2. CASE ~Exit
  <2> USE DEF At, tvars
  <2>1. ASSUME NEW i \in Clients, ServeStep(i)
        PROVE  app' = app /\ pc # "none" /\ pc' # "none"
    BY <2>1
    DEF ServeStep, SkipFree, ReceiveNothing, ReceiveError, ReceiveRequest, SendLine,
        SendKeepalive, NothingToSend, StreamHeadersSent, SendDone, SendFails, Serving,
        NextClient, StartSend, SendReturns
  <2>2. app' = app /\ pc # "none" /\ pc' # "none"
    BY <1>2, <2>1
    DEF TaskStep, EnterOuter, Restart, BindFails, Listen, LeaveInner, AcceptNone, Accept,
        AcceptFails, AcceptBlocking, CheckChanged, CheckUnchanged, RoundDone, Close
  <2>3. Registered' \in SUBSET Clients
    BY DEF Registered, Clients
  <2> QED BY <2>2, <2>3 DEF SenderPromise!Change
<1> QED BY <1>1, <1>2

\* The application is told the truth about the task, and only a running task has buffers
\* registered: the server keeps what Application expects of it.
THEOREM KeepsPromiseCorrect ==
  ASSUME Heeds
  PROVE  Spec => KeepsPromise
<1>1. IInv /\ Lifecycle /\ [Next]_vars => [SenderPromise!Next]_(SenderPromise!vars)
  <2> SUFFICES ASSUME IInv, Lifecycle, [Next]_vars PROVE Refines
    BY DEF Refines
  <2> USE DEF Refines, SenderPromise!vars, avars, cvars, tvars, Registered
  <2>1. CASE UNCHANGED vars
    BY <2>1 DEF vars
  <2>2. CASE NetworkChanged
    BY <2>2 DEF NetworkChanged
  <2>3. CASE Log
    BY <2>3 DEF Log, ServerUnchanged
  <2>4. ASSUME NEW p \in Peers, PeerStep(p) PROVE Refines
    BY <2>4 DEF PeerStep, Connect, Request, Stall, Resume, PeerLeaves, TcpGivesUp, ServerUnchanged
  <2> QED BY <2>1, <2>2, <2>3, <2>4, PromiseAppStep, PromiseTaskStep, Heeds DEF Next
<1> QED
  BY <1>1, PromiseInit, LifecycleCorrect, Heeds, PTL
  DEF Spec, KeepsPromise, SenderPromise!Spec

=============================================================================
