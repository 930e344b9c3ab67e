------------------------------ MODULE MCRequests ------------------------------
(***************************************************************************)
(* Model values for the small instances of RequestWorkflow.                *)
(***************************************************************************)
EXTENDS RequestWorkflow, TLC

CONSTANTS w1, w2, d1

\* API workers are interchangeable.
WorkerSymmetry == Permutations({w1, w2})
===============================================================================
