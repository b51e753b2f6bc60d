---------------------------- MODULE MCSseServer ----------------------------
(* TLC instances of SseServer.  Peers are interchangeable. *)
EXTENDS SseServer, TLC

Symmetry == Permutations(Peers)

=============================================================================
