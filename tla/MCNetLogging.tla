---------------------------- MODULE MCNetLogging ----------------------------
(* TLC instances of NetLogging.  Tasks, buffers and lines are interchangeable, *)
(* so the runs that check only safety identify states up to permutation.       *)
EXTENDS NetLogging, TLC

Symmetry == Permutations(Loggers) \cup Permutations(Buffers) \cup Permutations(Messages)

=============================================================================
