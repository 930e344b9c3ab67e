--------------------------------- MODULE Intake -------------------------------
(***************************************************************************)
(* What task_ingest_source does for one source before the sync runner or   *)
(* the index sees a record: the run of a drop folder, or the listing of a  *)
(* REST or ODBC source.                                                    *)
(***************************************************************************)
EXTENDS ManualDrop, Listing

VARIABLE source_type

vars == <<source_type, dropVars, listVars>>

SourceType == {"manual_drop", "rest_api", "odbc"}

Init ==
  /\ source_type \in SourceType
  /\ DropInit /\ ListInit
  /\ style = "odbc" <=> source_type = "odbc"
  /\ source_type = "manual_drop" => style = "none" /\ served = 1 /\ remote = {}

Next ==
  /\ UNCHANGED source_type
  /\ \/ source_type = "manual_drop" /\ DropNext /\ UNCHANGED listVars
     \/ source_type # "manual_drop" /\ ListNext /\ UNCHANGED dropVars

Spec == Init /\ [][Next]_vars

TypeOK == source_type \in SourceType /\ DropTypeOK /\ ListTypeOK
===============================================================================
