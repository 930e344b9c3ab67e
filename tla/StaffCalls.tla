------------------------------- MODULE StaffCalls -----------------------------
(***************************************************************************)
(* API calls that staff make.  Each runs in a session of its own: it reads *)
(* rows, and writes in one commit the columns that differ from what it     *)
(* read, so what another call wrote to the others meanwhile stays.         *)
(***************************************************************************)
EXTENDS Naturals

CONSTANTS
  Workers,  \* calls of one kind that can be in progress at once
  MaxCalls  \* bound: calls made

ASSUME CallsAssumption == MaxCalls \in Nat

\* Number of calls made: they are numbered in the order they begin.
VARIABLE begun

Number == 1 .. MaxCalls

BeginCall == begun < MaxCalls /\ begun' = begun + 1

\* What is in a column after the commit of a call that loaded "seen" and set "new".
Written(now, seen, new) == IF new = seen THEN now ELSE new
===============================================================================
