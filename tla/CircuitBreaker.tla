---------------------------- MODULE CircuitBreaker ----------------------------
(***************************************************************************)
(* What the circuit breaker of a data source promises, with sync runs and  *)
(* administrators taking turns: each completed run is accounted exactly    *)
(* once, and an unpause starts the count afresh.  SyncRunner is shown to   *)
(* implement it as long as runs of the source do not overlap.              *)
(***************************************************************************)
EXTENDS SyncCircuit

VARIABLE circuit

CircuitInit == circuit = NewCircuit

\* A run that ingested at least one record closes the failure streak.
RunSucceeds ==
  \E someFailed \in BOOLEAN : circuit' = AfterSuccess(circuit, someFailed)

\* A run in which every attempt failed lengthens the streak and, at the
\* threshold, opens the circuit.
RunFails == circuit' = AfterFullFailure(circuit)

Unpause == circuit' = Unpaused(circuit)

CircuitNext == RunSucceeds \/ RunFails \/ Unpause

CircuitSpec == CircuitInit /\ [][CircuitNext]_circuit
=============================================================================
