-------------------------------- MODULE MCBoot --------------------------------
(***************************************************************************)
(* Model values for the small instances of FirstBoot.                      *)
(***************************************************************************)
EXTENDS FirstBoot, TLC

CONSTANTS p1, p2, rule1, rule2, letter1, letter2, notice1

\* Processes of the API are interchangeable, and so are the rules.
BootSymmetry == Permutations({p1, p2}) \cup Permutations({rule1, rule2})
===============================================================================
