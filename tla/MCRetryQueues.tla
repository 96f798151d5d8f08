--------------------------- MODULE MCRetryQueues ---------------------------
(* Small instances of RetryQueues for TLC. *)
EXTENDS RetryQueues, TLC
AllKinds == {"event", "zatca", "einvoice", "retry", "retry_job"}
JobOnly  == {"retry_job"}
=============================================================================
