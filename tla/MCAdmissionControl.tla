-------------------------- MODULE MCAdmissionControl --------------------------
(* Instances of AdmissionControl for TLC. *)
EXTENDS AdmissionControl
=============================================================================
