--------------------------- MODULE MCChronosServer ---------------------------
(* Instances of ChronosServer for TLC. *)
EXTENDS ChronosServer, TLC

\* Threads of one kind, and clients, are interchangeable.
Symmetry == Permutations(Servers) \cup Permutations(Updaters) \cup Permutations(Workers)
            \cup Permutations(Clients)
==============================================================================
