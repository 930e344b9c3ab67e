------------------------------- MODULE MCSync -------------------------------
(***************************************************************************)
(* Model values for the small instances of SyncRunner.                     *)
(***************************************************************************)
EXTENDS SyncRunner, TLC

CONSTANTS p1, p2, w1, w2

\* Two executions of the task, and two records, are interchangeable.
RunSymmetry    == Permutations({w1, w2})
RecordSymmetry == Permutations({p1, p2})
=============================================================================
