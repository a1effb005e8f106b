--------------------------- MODULE MCChronosQueue ---------------------------
(* Instances of ChronosQueue for TLC. *)
EXTENDS ChronosQueue, TLC

\* Threads of a role and requests are interchangeable.
Symmetry == Permutations(Producers) \cup Permutations(Consumers) \cup Permutations(Txns)
=============================================================================
