----------------------------- MODULE MCDisclosure ------------------------------
(***************************************************************************)
(* Model values for the small instances of Disclosure.                     *)
(***************************************************************************)
EXTENDS Disclosure, TLC

CONSTANTS d1, pii, rule1, clerk, reviewer, head, w1, w2

\* Calls of a kind, and the two reviewers, are interchangeable.
DisclosureSymmetry == Permutations({w1, w2}) \cup Permutations({reviewer, head})
===============================================================================
