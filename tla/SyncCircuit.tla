----------------------------- MODULE SyncCircuit -----------------------------
(***************************************************************************)
(* The circuit breaker of one data source: the columns of data_sources     *)
(* that count consecutive failed sync runs and pause the source, and the   *)
(* two functions that compute their next value.                            *)
(*                                                                         *)
(* The runner delegates the first to civiccore's apply_sync_run_result,    *)
(* which is not part of the repository; its behaviour is the one           *)
(* backend/tests/test_circuit_breaker.py asserts of it.                    *)
(***************************************************************************)
EXTENDS Integers

CONSTANTS
  CircuitThreshold,   \* failed runs that open the circuit (5 in production)
  GraceThreshold      \* the same right after an unpause (2 in production)

ASSUME ThresholdAssumption ==
  /\ GraceThreshold \in Nat \ {0}
  /\ CircuitThreshold \in Nat
  /\ GraceThreshold <= CircuitThreshold

SyncStatus  == {"none", "success", "partial", "failed"}
PauseReason == {"none", "grace_period", "circuit_open"}

\* The breaker columns of a data_sources row.
Circuit == [consecutive_failure_count : Nat,
            sync_paused               : BOOLEAN,
            sync_paused_reason        : PauseReason,
            last_sync_status          : SyncStatus]

\* A row as create_datasource inserts it.
NewCircuit == [consecutive_failure_count |-> 0,
               sync_paused               |-> FALSE,
               sync_paused_reason        |-> "none",
               last_sync_status          |-> "none"]

\* "grace_period" is the sentinel the unpause endpoint leaves.
Threshold(reason) ==
  IF reason = "grace_period" THEN GraceThreshold ELSE CircuitThreshold

\* A run in which some record succeeded: the count and the sentinel go, the
\* pause stays (a paused source can be synced by hand).
AfterSuccess(c, someFailed) ==
  [c EXCEPT !.consecutive_failure_count = 0,
            !.last_sync_status = IF someFailed THEN "partial" ELSE "success",
            !.sync_paused_reason = IF @ = "grace_period" THEN "none" ELSE @]

\* Mutant: the circuit opens one failure late.
OpensLate(c) ==
  LET n     == c.consecutive_failure_count + 1
      opens == n > Threshold(c.sync_paused_reason)
  IN  [c EXCEPT !.consecutive_failure_count = n,
                !.sync_paused = @ \/ opens,
                !.sync_paused_reason = IF opens THEN "circuit_open" ELSE @,
                !.last_sync_status = "failed"]

\* A run in which every attempted record failed.
AfterFullFailure(c) ==
  LET n     == c.consecutive_failure_count + 1
      opens == n >= Threshold(c.sync_paused_reason)
  IN  [consecutive_failure_count |-> n,
       sync_paused               |-> c.sync_paused \/ opens,
       sync_paused_reason        |-> IF opens THEN "circuit_open"
                                     ELSE c.sync_paused_reason,
       last_sync_status          |-> "failed"]

\* civiccore's apply_sync_run_result, by what its result depends on.
ApplySyncRunResult(c, someSucceeded, someFailed) ==
  CASE someSucceeded               -> AfterSuccess(c, someFailed)
    [] ~someSucceeded /\ someFailed  -> AfterFullFailure(c)
    [] ~someSucceeded /\ ~someFailed -> c

\* POST /datasources/{id}/unpause.
Unpaused(c) ==
  [c EXCEPT !.consecutive_failure_count = 0,
            !.sync_paused = FALSE,
            !.sync_paused_reason = "grace_period"]
=============================================================================
