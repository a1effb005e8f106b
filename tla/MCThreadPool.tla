---------------------------- MODULE MCThreadPool ----------------------------
(* Instances of ThreadPool for TLC.  No symmetry: the runs check a         *)
(* refinement or liveness.                                                 *)
EXTENDS ThreadPool
=============================================================================
