--------------------------- MODULE RequestLifecycle ---------------------------
(***************************************************************************)
(* The lifecycle of a records request: its ten statuses and the            *)
(* transitions between them that the API accepts.                          *)
(***************************************************************************)
VARIABLE status

RequestStatus ==
  {"received", "clarification_needed", "assigned", "searching", "in_review",
   "ready_for_release", "drafted", "approved", "fulfilled", "closed"}

VALID_TRANSITIONS ==
  [s \in RequestStatus |->
    CASE s = "received"             -> {"clarification_needed", "assigned", "searching"}
      [] s = "clarification_needed" -> {"received", "assigned", "searching"}
      [] s = "assigned"             -> {"searching", "clarification_needed"}
      [] s = "searching"            -> {"in_review", "drafted", "clarification_needed"}
      [] s = "in_review"            -> {"drafted", "ready_for_release", "searching"}
      [] s = "ready_for_release"    -> {"drafted", "in_review", "approved"}
      [] s = "drafted"              -> {"in_review", "approved"}
      [] s = "approved"             -> {"fulfilled"}
      [] s = "fulfilled"            -> {"closed"}
      [] s = "closed"               -> {}]

\* "absent": the request has not been created yet.
CanBecome(from, to) ==
  \/ from = "absent" /\ to = "received"
  \/ from \in RequestStatus /\ to \in VALID_TRANSITIONS[from]

LifecycleInit == status \in RequestStatus \cup {"absent"}
LifecycleNext == \E to \in RequestStatus : CanBecome(status, to) /\ status' = to
LifecycleSpec == LifecycleInit /\ [][LifecycleNext]_status
===============================================================================
