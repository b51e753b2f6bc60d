--------------------------- MODULE MCApplication ---------------------------
(* A TLC instance of Application: an SSE server with two clients beside the *)
(* multicast sender.                                                       *)
EXTENDS Application

MCBuffersOf == [s \in Senders |-> IF s = Sse THEN {1, 2} ELSE {1}]

=============================================================================
