-------------------------- MODULE KeepaliveProofs --------------------------
(***************************************************************************)
(* Theorems about Keepalive, for every width of the tick counter, every    *)
(* timeout and every pace of the rounds, as long as the counter stays more *)
(* than a timeout below its top.  Beyond that the code keeps neither       *)
(* property, see README.md.                                                *)
(***************************************************************************)
EXTENDS Keepalive, Integers, TLAPS

BeforeTheWrap == MaxUptime + Timeout < TickTypes

TypeOK ==
  /\ uptime \in 0..MaxUptime
  /\ last_activity \in Nat
  /\ streaming \in BOOLEAN
  /\ event \in {"none", "line", "keepalive"}
  /\ quiet \in Nat

\* The clock counts from the last event, or from before the stream was opened.
ClockIsRight ==
  /\ last_activity <= uptime
  /\ ~streaming => quiet = 0
  /\ streaming => quiet <= uptime - last_activity
  /\ last_activity # 0 => quiet = uptime - last_activity

IInv == TypeOK /\ ClockIsRight /\ KeepaliveInTime

\* A number below the width of the counter is what the counter shows.
LEMMA ModBelow ==
  ASSUME NEW n \in Nat \ {0}, NEW t \in 0..(n - 1)
  PROVE  t % n = t
  OBVIOUS

\* Before the wrap the counter and the sum compared with it are the true times.
LEMMA TicksAreTrue ==
  ASSUME BeforeTheWrap, NEW t \in 0..MaxUptime
  PROVE  TickAt(t) = t /\ (t + Timeout) % TickTypes = t + Timeout
<1>1. /\ TickTypes \in Nat \ {0} /\ Timeout \in Nat
      /\ t \in 0..(TickTypes - 1) /\ t + Timeout \in 0..(TickTypes - 1)
  BY KeepaliveAssumption DEF BeforeTheWrap
<1> QED BY <1>1, ModBelow DEF TickAt

\* An event is due exactly when the timeout has gone by.
LEMMA DueWhenTimedOut ==
  ASSUME BeforeTheWrap, IInv, NEW d \in 1..Round, ServeAfter(d)
  PROVE  /\ TickAt(uptime') = uptime' /\ uptime' \in 0..MaxUptime
         /\ Due(TickAt(uptime')) <=> uptime' - last_activity > Timeout
<1>1. /\ uptime' = uptime + d /\ uptime + d <= MaxUptime
      /\ uptime \in Nat /\ d \in Nat /\ MaxUptime \in Nat /\ Timeout \in Nat
      /\ last_activity \in Nat /\ last_activity <= uptime
  BY KeepaliveAssumption DEF IInv, TypeOK, ClockIsRight, ServeAfter
<1>2. last_activity \in 0..MaxUptime /\ uptime' \in 0..MaxUptime
  BY <1>1
<1>3. TickAt(uptime') = uptime' /\ (last_activity + Timeout) % TickTypes = last_activity + Timeout
  BY <1>2, TicksAreTrue
<1> QED BY <1>1, <1>2, <1>3 DEF Due

LEMMA IInvInit == Init => IInv
<1> SUFFICES ASSUME Init PROVE IInv
  OBVIOUS
<1>1. streaming \in BOOLEAN
  BY DEF Init
<1> QED
  BY <1>1, KeepaliveAssumption DEF Init, IInv, TypeOK, ClockIsRight, KeepaliveInTime

LEMMA ServeKeeps ==
  ASSUME BeforeTheWrap, IInv, NEW d \in 1..Round, ServeAfter(d)
  PROVE  IInv'
<1>1. /\ TickAt(uptime') = uptime' /\ uptime' \in 0..MaxUptime
      /\ Due(TickAt(uptime')) <=> uptime' - last_activity > Timeout
  BY DueWhenTimedOut
<1>2. /\ uptime' = uptime + d /\ streaming /\ streaming' = streaming
      /\ uptime \in Nat /\ d \in Nat /\ d > 0 /\ Timeout \in Nat
      /\ last_activity \in Nat /\ last_activity <= uptime /\ quiet \in Nat
      /\ quiet <= uptime - last_activity
      /\ last_activity # 0 => quiet = uptime - last_activity
  BY KeepaliveAssumption DEF IInv, TypeOK, ClockIsRight, ServeAfter
\* Nothing is sent: the timeout has not gone by.
<1>3. CASE event' = "none"
  <2>1. quiet' = quiet + d /\ last_activity' = last_activity
    BY <1>3 DEF ServeAfter
  <2>2. ~Due(TickAt(uptime'))
    BY <1>3 DEF ServeAfter
  <2>3. uptime' - last_activity <= Timeout
    BY <1>1, <1>2, <2>2
  <2> QED BY <1>1, <1>2, <1>3, <2>1, <2>3 DEF IInv, TypeOK, ClockIsRight, KeepaliveInTime
\* Something is sent: the clock starts anew.
<1>4. CASE event' # "none"
  <2>1. quiet' = 0 /\ last_activity' = uptime' /\ event' \in {"line", "keepalive"}
    BY <1>1, <1>4 DEF ServeAfter
  <2> QED BY <1>1, <1>2, <2>1 DEF IInv, TypeOK, ClockIsRight, KeepaliveInTime
<1> QED BY <1>3, <1>4

\* Every step keeps the invariant.
LEMMA IInvStep == BeforeTheWrap /\ IInv /\ [Next]_vars => IInv'
<1> SUFFICES ASSUME BeforeTheWrap, IInv, [Next]_vars PROVE IInv'
  OBVIOUS
<1>1. CASE OpenStream
  BY <1>1, KeepaliveAssumption DEF OpenStream, IInv, TypeOK, ClockIsRight, KeepaliveInTime
<1>2. CASE \E d \in 1..Round : ServeAfter(d)
  BY <1>2, ServeKeeps
<1>3. CASE UNCHANGED vars
  BY <1>3 DEF vars, IInv, TypeOK, ClockIsRight, KeepaliveInTime
<1> QED BY <1>1, <1>2, <1>3 DEF Next

LEMMA IInvCorrect == ASSUME BeforeTheWrap PROVE Spec => []IInv
<1>1. IInv /\ [Next]_vars => IInv'
  BY IInvStep, BeforeTheWrap
<1> QED BY <1>1, IInvInit, PTL DEF Spec

\* No stream is left without an event for longer than the timeout after a round, whenever it
\* was opened.
THEOREM KeepaliveInTimeCorrect ==
  ASSUME BeforeTheWrap
  PROVE  Spec => []KeepaliveInTime
<1>1. IInv => KeepaliveInTime
  BY DEF IInv
<1> QED BY <1>1, IInvCorrect, BeforeTheWrap, PTL

\* A keep-alive event comes only when the timeout has gone by since the last event.
THEOREM KeepaliveNotTooSoonCorrect ==
  ASSUME BeforeTheWrap
  PROVE  Spec => KeepaliveNotTooSoon
<1> DEFINE A == event' = "keepalive" /\ last_activity # 0
                  => quiet + (uptime' - uptime) > Timeout
<1>1. IInv /\ [Next]_vars => [A]_vars
  <2> SUFFICES ASSUME IInv, NEW d \in 1..Round, ServeAfter(d),
                      event' = "keepalive", last_activity # 0
               PROVE  quiet + (uptime' - uptime) > Timeout
    BY DEF Next, OpenStream
  <2>1. Due(TickAt(uptime'))
    BY DEF ServeAfter
  <2>2. uptime' - last_activity > Timeout
    BY <2>1, DueWhenTimedOut, BeforeTheWrap
  <2>3. /\ quiet = uptime - last_activity /\ uptime' = uptime + d
        /\ uptime \in Nat /\ last_activity \in Nat /\ d \in Nat /\ Timeout \in Nat
    BY KeepaliveAssumption DEF IInv, TypeOK, ClockIsRight, ServeAfter
  <2> QED BY <2>2, <2>3
<1> HIDE DEF A
<1>2. Spec => [][A]_vars
  BY <1>1, IInvCorrect, BeforeTheWrap, PTL DEF Spec
<1> QED BY <1>2 DEF KeepaliveNotTooSoon, A

\* The time between two events of a stream, counted when the second is sent.
GapIsBounded == [][event' # "none" => quiet + (uptime' - uptime) <= Timeout + Round]_vars

\* What a client sees: two events in a row, or the opening and the first event, are at most
\* a timeout and a round apart.
THEOREM GapIsBoundedCorrect ==
  ASSUME BeforeTheWrap
  PROVE  Spec => GapIsBounded
<1> DEFINE A == event' # "none" => quiet + (uptime' - uptime) <= Timeout + Round
<1>1. IInv /\ [Next]_vars => [A]_vars
  <2> SUFFICES ASSUME IInv, NEW d \in 1..Round, ServeAfter(d)
               PROVE  quiet + (uptime' - uptime) <= Timeout + Round
    BY DEF Next, OpenStream
  <2> QED BY KeepaliveAssumption DEF IInv, TypeOK, KeepaliveInTime, ServeAfter
<1> HIDE DEF A
<1>2. Spec => [][A]_vars
  BY <1>1, IInvCorrect, BeforeTheWrap, PTL DEF Spec
<1> QED BY <1>2 DEF GapIsBounded, A

\* A stream to which nothing was sent yet, in a round later than one timeout after the boot.
FirstEventIsForced ==
  [][streaming /\ last_activity = 0 /\ uptime' # uptime /\ uptime' > Timeout
       => event' # "none"]_vars

\* The event that `last_activity = 0' is meant to force is sent in the first round, except
\* within one timeout of the boot.
THEOREM FirstEventIsForcedCorrect ==
  ASSUME BeforeTheWrap
  PROVE  Spec => FirstEventIsForced
<1> DEFINE A == streaming /\ last_activity = 0 /\ uptime' # uptime /\ uptime' > Timeout
                  => event' # "none"
<1>1. IInv /\ [Next]_vars => [A]_vars
  <2> SUFFICES ASSUME IInv, NEW d \in 1..Round, ServeAfter(d),
                      last_activity = 0, uptime' > Timeout
               PROVE  event' # "none"
    BY DEF Next, OpenStream
  <2>1. Due(TickAt(uptime'))
    BY DueWhenTimedOut, BeforeTheWrap
  <2> QED BY <2>1 DEF ServeAfter
<1> HIDE DEF A
<1>2. Spec => [][A]_vars
  BY <1>1, IInvCorrect, BeforeTheWrap, PTL DEF Spec
<1> QED BY <1>2 DEF FirstEventIsForced, A

=============================================================================
