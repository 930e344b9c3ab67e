--------------------------------- MODULE Office -------------------------------
(***************************************************************************)
(* What administrators keep: the accounts, the city's profile, and the     *)
(* rules and templates, which only those who may administer when they call *)
(* can change.                                                             *)
(***************************************************************************)
EXTENDS Accounts, CityProfile, VersionedTexts

vars == <<begun, accountVars, profileVars, textVars>>

Init == begun = 0 /\ AccountInit /\ ProfileInit /\ TextsInit

Next ==
  \/ AccountNext /\ UNCHANGED <<profileVars, textVars>>
  \/ \E w \in Workers :
       /\ \/ ProfileCall(w) /\ \E p \in People : MayAdminister(p)
          \/ EndProfileCall(w)
       /\ UNCHANGED <<accountVars, textVars>>
  \/ \E w \in Workers :
       /\ \/ TextCall(w) /\ \E p \in People : MayAdminister(p)
          \/ EndTextCall(w)
       /\ UNCHANGED <<accountVars, profileVars>>

Spec == Init /\ [][Next]_vars

TypeOK == begun \in 0 .. MaxCalls /\ AccountTypeOK /\ ProfileTypeOK /\ TextsTypeOK
===============================================================================
