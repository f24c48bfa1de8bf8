--------------------------- MODULE MCPostingSaga ---------------------------
(* The instance of PostingSaga that TLC checks. *)
EXTENDS PostingSaga

\* Two executors at once; or crashes, with the operations of SagaRecoveryService
\* or with the deletion of the saga's row.
MCTogether == {{"overlap"}, {"crash", "force", "retry"},
               {"crash", "mark_failed"}, {"crash", "cleanup"}}
=============================================================================
