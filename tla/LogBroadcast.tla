---------------------------- MODULE LogBroadcast ----------------------------
(***************************************************************************)
(* What src/net_logging.c promises to the tasks that log and to the log    *)
(* senders, with no table, no slots and no mutex: one line at a time is    *)
(* offered to every receiver that is registered when its turn comes.  A    *)
(* receiver that is full loses the line; nobody waits for it.              *)
(***************************************************************************)
EXTENDS Naturals, Sequences

CONSTANTS Receivers, Messages, Capacity, NULL

VARIABLES
  receivers, \* the registered receivers
  current,   \* the line being broadcast, or NULL
  pending,   \* the receivers it has still to be offered to
  accepted,  \* what each receiver's buffer took in since it was created
  taken      \* how much of that its owner has received

vars == <<receivers, current, pending, accepted, taken>>

Init ==
  /\ receivers = {} /\ current = NULL /\ pending = {}
  /\ accepted = [r \in Receivers |-> << >>]
  /\ taken = [r \in Receivers |-> 0]

\* An unregistered receiver starts with an empty buffer.
Create(r) ==
  /\ r \notin receivers
  /\ accepted' = [accepted EXCEPT ![r] = << >>]
  /\ taken' = [taken EXCEPT ![r] = 0]
  /\ UNCHANGED <<receivers, current, pending>>

Register(r) ==
  /\ current = NULL
  /\ receivers' = receivers \cup {r}
  /\ UNCHANGED <<current, pending, accepted, taken>>

Unregister(r) ==
  /\ current = NULL
  /\ receivers' = receivers \ {r}
  /\ UNCHANGED <<current, pending, accepted, taken>>

Publish(m) ==
  /\ current = NULL
  /\ current' = m
  /\ pending' = receivers
  /\ UNCHANGED <<receivers, accepted, taken>>

\* The line is appended if there is room for it, and lost to this receiver if not.
Offer(r) ==
  /\ current # NULL /\ r \in pending
  /\ pending' = pending \ {r}
  /\ accepted' = IF Len(accepted[r]) - taken[r] < Capacity
                 THEN [accepted EXCEPT ![r] = Append(@, current)]
                 ELSE accepted
  /\ UNCHANGED <<receivers, current, taken>>

Finish ==
  /\ current # NULL /\ pending = {}
  /\ current' = NULL
  /\ UNCHANGED <<receivers, pending, accepted, taken>>

Receive(r) ==
  /\ r \in receivers
  /\ taken[r] < Len(accepted[r])
  /\ taken' = [taken EXCEPT ![r] = @ + 1]
  /\ UNCHANGED <<receivers, current, pending, accepted>>

Next ==
  \/ \E r \in Receivers :
       Create(r) \/ Register(r) \/ Unregister(r) \/ Offer(r) \/ Receive(r)
  \/ \E m \in Messages : Publish(m)
  \/ Finish

Spec == Init /\ [][Next]_vars

=============================================================================
