------------------------------- MODULE Disclosure -----------------------------
(***************************************************************************)
(* What staff prepare for the answer to one request: the flags on its      *)
(* documents and its letters.  The two share the calls' numbers, which are *)
(* the order of their transactions, and no row.                            *)
(***************************************************************************)
EXTENDS Exemptions, ResponseLetters

vars == <<begun, flagVars, letterVars>>

Init == begun = 0 /\ FlagInit /\ LetterInit

Next ==
  \/ FlagNext /\ UNCHANGED letterVars
  \/ LetterNext /\ UNCHANGED flagVars

Spec == Init /\ [][Next]_vars

TypeOK == begun \in 0 .. MaxCalls /\ FlagTypeOK /\ LetterTypeOK
===============================================================================
