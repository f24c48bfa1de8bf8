--------------------------- MODULE MCHealthRepairs ---------------------------
(* The instance of HealthRepairs that TLC checks. *)
EXTENDS HealthRepairs
=============================================================================
