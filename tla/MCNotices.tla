------------------------------ MODULE MCNotices -------------------------------
(***************************************************************************)
(* Model values for the small instances of Notifications.                  *)
(***************************************************************************)
EXTENDS Notifications, TLC

CONSTANTS r1, w1, w2

\* Processes of the worker are interchangeable.
WorkerSymmetry == Permutations({w1, w2})
===============================================================================
