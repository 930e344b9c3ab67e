-------------------------------- MODULE MCOffice -------------------------------
(***************************************************************************)
(* Model values for the small instances of Office.                         *)
(***************************************************************************)
EXTENDS Office, TLC

CONSTANTS first, second, w1, w2

\* Calls in progress are interchangeable.
OfficeSymmetry == Permutations({w1, w2})
===============================================================================
