---------------------------- MODULE AuditLogClaims ----------------------------
(***************************************************************************)
(* What the manual says of the audit log and the code does not do.         *)
(***************************************************************************)
EXTENDS AuditLog

\* USER-MANUAL.md: "Each AuditLog row includes the SHA-256 hash of the previous
\* row."  Two overlapping calls of write_audit_log chain to the same row: the
\* one that waited for the lock still gets the row of its older snapshot.
EachRowHashesPrevious == Linked
===============================================================================
