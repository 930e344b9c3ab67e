------------------------------- MODULE MCAudit --------------------------------
(***************************************************************************)
(* Model values for the small instances of AuditLog.                       *)
(***************************************************************************)
EXTENDS AuditLogClaims, TLC

CONSTANTS w1, w2

\* API workers are interchangeable.
WriterSymmetry == Permutations({w1, w2})
===============================================================================
