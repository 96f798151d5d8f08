---------------------------- MODULE MCAuditTrail ----------------------------
(* A small instance of AuditTrail for TLC. *)
EXTENDS AuditTrail

CONSTANTS sale, payroll, export

\* An ordinary change, a critical one, and a request that only reads.
MCRequests == {sale, payroll, export}
MCWriters  == {sale, payroll}
MCCritical == {payroll}
=============================================================================
