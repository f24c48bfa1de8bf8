------------------------ MODULE MCIdempotentRequests ------------------------
(* The instance of IdempotentRequests that TLC checks. *)
EXTENDS IdempotentRequests
=============================================================================
