-------------------------------- MODULE MCIntake -------------------------------
(***************************************************************************)
(* Model values for the small instances of Intake.                         *)
(***************************************************************************)
EXTENDS Intake, TLC

CONSTANTS a, b, r1, r2

IntakeSymmetry == Permutations({a, b}) \cup Permutations({r1, r2})
===============================================================================
