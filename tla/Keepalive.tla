----------------------------- MODULE Keepalive -----------------------------
(***************************************************************************)
(* The keep-alive clock of serve_client in                                 *)
(* src/builtin_sse_server/sse_server.c, for one client of the event stream. *)
(* TickType_t is an unsigned integer, so ticks wrap.                       *)
(***************************************************************************)
EXTENDS Naturals

CONSTANTS
  TickTypes, \* values a TickType_t has, 2^32 in the code
  Timeout,   \* pdMS_TO_TICKS(KEEPALIVE_TIMEOUT_MS)
  Round,     \* the longest time between two calls of serve_client for a client
  MaxUptime  \* bound: when the checked behaviours end

ASSUME KeepaliveAssumption ==
  /\ Timeout \in Nat \ {0} /\ TickTypes \in Nat /\ TickTypes > Timeout
  /\ Round \in Nat \ {0} /\ MaxUptime \in Nat

VARIABLES
  uptime,        \* ticks since the boot, never wrapping
  last_activity,
  streaming,     \* whether the client is sent events
  event,         \* what the last round sent: "none", "line" or "keepalive"
  quiet          \* ticks since something was sent, or the stream was opened

vars == <<uptime, last_activity, streaming, event, quiet>>

\* xTaskGetTickCount
TickAt(t) == t % TickTypes

Init ==
  /\ uptime = 0 /\ last_activity = 0
  /\ streaming = FALSE /\ event = "none" /\ quiet = 0

\* The stream is opened at any time; last_activity is set to force a keep-alive event.
OpenStream ==
  /\ ~streaming
  /\ \E t \in uptime..MaxUptime : uptime' = t
  /\ last_activity' = 0
  /\ streaming' = TRUE /\ event' = "none" /\ quiet' = 0

DueLate(now) == now > (last_activity + 2 * Timeout) % TickTypes   \* mutant
DueEarly(now) == now >= last_activity                             \* mutant

Due(now) == now > (last_activity + Timeout) % TickTypes

\* A round, d ticks after the one before: a line is sent, or what the clock asks for.
ServeAfter(d) ==
  /\ streaming /\ uptime + d <= MaxUptime
  /\ uptime' = uptime + d
  /\ \/ event' = "line"
     \/ event' = IF Due(TickAt(uptime')) THEN "keepalive" ELSE "none"
  /\ IF event' = "none"
     THEN quiet' = quiet + d /\ UNCHANGED last_activity
     ELSE quiet' = 0 /\ last_activity' = TickAt(uptime')
  /\ UNCHANGED streaming

Next == OpenStream \/ \E d \in 1..Round : ServeAfter(d)

Spec == Init /\ [][Next]_vars

-----------------------------------------------------------------------------
\* After a round no client has been without an event for longer than the keep-alive timeout,
\* be it new, quiet or busy: what is due is sent in the first round that finds it due.
KeepaliveInTime == quiet <= Timeout

\* Once something was sent to a stream (last_activity is set), a keep-alive event follows
\* only when the timeout has gone by without another event.
KeepaliveNotTooSoon ==
  [][event' = "keepalive" /\ last_activity # 0
       => quiet + (uptime' - uptime) > Timeout]_vars

=============================================================================
