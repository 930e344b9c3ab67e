------------------------------- MODULE FirstBoot ------------------------------
(***************************************************************************)
(* What the API does before it serves: create the first administrator,     *)
(* load the systems catalog, and insert the baseline rows that are not     *)
(* there yet, dataset by dataset.  The API runs as one process, but the    *)
(* code reckons with several; any of them can be stopped at every step and *)
(* be started again, over what earlier releases and administrators left.   *)
(***************************************************************************)
EXTENDS Naturals, FiniteSets

CONSTANTS
  Processes,   \* API processes
  Rules,       \* keys (state_code, category) of the baseline exemption rules
  Disclosures, \* template_type of the baseline disclosure templates
  Notices,     \* event_type of the baseline notification templates
  Missing,     \* disclosure templates whose source file is missing
  MaxCalls,    \* bound: rows administrators create
  MaxStops     \* bound: processes stopped while starting or serving

Keys == Rules \cup Disclosures \cup Notices

ASSUME BootAssumption ==
  /\ MaxCalls \in Nat /\ MaxStops \in Nat /\ Missing \subseteq Disclosures
  /\ Rules \cap Disclosures = {} /\ Rules \cap Notices = {} /\ Disclosures \cap Notices = {}
  /\ \A p \in Processes : p \notin Nat

VARIABLES
  account,  \* the first administrator: "marked" once it must change its password,
            \* "none" once administrators have demoted one another
  catalog,  \* the processes that loaded the current catalog; 0: before the first start
  rows,     \* baseline rows, by the process that inserted them; 0: before the
            \* first start; n > 0: an administrator's call
  boot,     \* where each process is
  calls,    \* number of rows administrators have created
  stops,    \* number of times a process was stopped
  overlap   \* auxiliary: two starts have been under way at once

vars == <<account, catalog, rows, boot, calls, stops, overlap>>

Seeder  == Processes \cup {0}
Creator == Seeder \cup 1 .. MaxCalls
Row     == [key : Keys, by : Creator]
Where   == {"down", "account", "email", "insert", "mark", "catalog", "load",
            "admin", "seed", "up", "failed"}

\* set: the dataset being seeded; todo: its keys still to look for; adds: rows
\* of the transaction.
Boot == [at : Where, set : 1 .. 3, todo : SUBSET Keys, adds : SUBSET Keys]
Down == [at |-> "down", set |-> 1, todo |-> {}, adds |-> {}]

Dataset(d) == CASE d = 1 -> Rules [] d = 2 -> Disclosures [] d = 3 -> Notices

\* The start of a dataset's transaction.
Seeding(d) == [at |-> "seed", set |-> d, todo |-> Dataset(d), adds |-> {}]

Of(k) == {r \in rows : r.key = k}

\* A database that is new, or that an earlier release has left with some of
\* the baseline of this one.
Init ==
  /\ account \in {"absent", "unmarked", "marked", "none"}
  /\ catalog \in {{}, {0}}
  /\ \E K \in SUBSET Keys : rows = {[key |-> k, by |-> 0] : k \in K}
  /\ account = "absent" => rows = {} /\ catalog = {}
  /\ boot = [p \in Processes |-> Down]
  /\ calls = 0
  /\ stops = 0
  /\ overlap = FALSE

-------------------------------------------------------------------------------
Starting(p) == boot[p].at \notin {"down", "up", "failed"}

Goto(p, where) == boot' = [boot EXCEPT ![p] = [Down EXCEPT !.at = where]]

\* Nothing restarts a process but its operator; migrations come first.
Start(p) ==
  /\ boot[p].at \in {"down", "failed"}
  /\ Goto(p, "account")
  /\ overlap' = (overlap \/ \E q \in Processes \ {p} : Starting(q))
  /\ UNCHANGED <<account, catalog, rows, calls, stops>>

Advance(p, from, to) ==
  /\ boot[p].at = from
  /\ Goto(p, to)
  /\ UNCHANGED <<rows, calls, stops, overlap>>

\* Mutant: the account is created whatever users there are.
CreateAlways(p) == Advance(p, "account", "email") /\ UNCHANGED <<account, catalog>>

LookForUser(p) ==
  /\ Advance(p, "account", IF account = "absent" THEN "email" ELSE "catalog")
  /\ UNCHANGED <<account, catalog>>

\* manager.create looks for the address first: UserAlreadyExists is not the
\* exception that is caught.
LookForEmail(p) ==
  /\ Advance(p, "email", IF account = "absent" THEN "insert" ELSE "failed")
  /\ UNCHANGED <<account, catalog>>

\* The address is unique: an insert that comes second is rolled back.
InsertAdmin(p) ==
  \/ /\ account = "absent"
     /\ Advance(p, "insert", "mark")
     /\ account' = "unmarked"
     /\ UNCHANGED catalog
  \/ /\ account # "absent"
     /\ Advance(p, "insert", "catalog")
     /\ UNCHANGED <<account, catalog>>

\* must_change_password is set in a second transaction.
MarkAdmin(p) ==
  /\ Advance(p, "mark", "catalog")
  /\ account' = "marked"
  /\ UNCHANGED catalog

LookForCatalog(p) ==
  /\ Advance(p, "catalog", IF catalog = {} THEN "load" ELSE "admin")
  /\ UNCHANGED <<account, catalog>>

LoadCatalog(p) ==
  /\ Advance(p, "load", "admin")
  /\ catalog' = catalog \cup {p}
  /\ UNCHANGED account

-------------------------------------------------------------------------------
(* run_first_boot_seeds: one transaction for each dataset.                   *)

\* Without an administrator the baseline is left to a later start.
FindAdmin(p) ==
  /\ boot[p].at = "admin"
  /\ IF account \in {"absent", "none"} THEN Goto(p, "up")
     ELSE boot' = [boot EXCEPT ![p] = Seeding(1)]
  /\ UNCHANGED <<account, catalog, rows, calls, stops, overlap>>

\* Mutant: the row is inserted without looking for one.
InsertUnseen(p, k) ==
  /\ boot[p].at = "seed" /\ k \in boot[p].todo
  /\ boot' = [boot EXCEPT ![p].todo = boot[p].todo \ {k}, ![p].adds = boot[p].adds \cup {k}]
  /\ UNCHANGED <<account, catalog, rows, calls, stops, overlap>>

\* scalar_one_or_none: a key with two rows ends the start.  A key with one is
\* skipped, and so is a template without a file.  The order of the keys of a
\* dataset is fixed in the code and left open here.
LookForRow(p, k) ==
  /\ boot[p].at = "seed" /\ k \in boot[p].todo
  /\ IF \E r, s \in Of(k) : r # s THEN Goto(p, "failed")
     ELSE boot' = [boot EXCEPT
            ![p].todo = boot[p].todo \ {k},
            ![p].adds = IF Of(k) = {} /\ k \notin Missing THEN boot[p].adds \cup {k}
                        ELSE boot[p].adds]
  /\ UNCHANGED <<account, catalog, rows, calls, stops, overlap>>

\* event_type is the only key the database knows to be unique.
Conflict(p) == boot[p].set = 3 /\ \E k \in boot[p].adds : Of(k) # {}

\* Mutant: a start ends with its first transaction.
CommitFirst(p) ==
  /\ boot[p].at = "seed" /\ boot[p].todo = {}
  /\ rows' = rows \cup {[key |-> k, by |-> p] : k \in boot[p].adds}
  /\ Goto(p, "up")
  /\ UNCHANGED <<account, catalog, calls, stops, overlap>>

CommitDataset(p) ==
  /\ boot[p].at = "seed" /\ boot[p].todo = {}
  /\ IF Conflict(p) THEN Goto(p, "failed") /\ UNCHANGED rows
     ELSE /\ rows' = rows \cup {[key |-> k, by |-> p] : k \in boot[p].adds}
          /\ IF boot[p].set = 3 THEN Goto(p, "up")
             ELSE boot' = [boot EXCEPT ![p] = Seeding(boot[p].set + 1)]
  /\ UNCHANGED <<account, catalog, calls, stops, overlap>>

-------------------------------------------------------------------------------
(* Between starts.                                                           *)

\* A crash, or an operator: the transaction in progress is rolled back.
Stop(p) ==
  /\ stops < MaxStops
  /\ boot[p].at \notin {"down", "failed"}
  /\ Goto(p, "down")
  /\ stops' = stops + 1
  /\ UNCHANGED <<account, catalog, rows, calls, overlap>>

\* An administrator creates a row with a baseline key.  Nothing looks for one
\* but the notification templates' endpoint, whose 409 changes nothing.
CreateRow(k) ==
  /\ calls < MaxCalls
  /\ account \in {"unmarked", "marked"} /\ \E p \in Processes : boot[p].at = "up"
  /\ k \in Notices => Of(k) = {}
  /\ rows' = rows \cup {[key |-> k, by |-> calls + 1]}
  /\ calls' = calls + 1
  /\ UNCHANGED <<account, catalog, boot, stops, overlap>>

StartStep(p) ==
  \/ Start(p) \/ LookForUser(p) \/ LookForEmail(p) \/ InsertAdmin(p) \/ MarkAdmin(p)
  \/ LookForCatalog(p) \/ LoadCatalog(p) \/ FindAdmin(p)
  \/ \E k \in Keys : LookForRow(p, k)
  \/ CommitDataset(p)

Next ==
  \/ \E p \in Processes : StartStep(p) \/ Stop(p)
  \/ \E k \in Keys : CreateRow(k)

Spec == Init /\ [][Next]_vars

-------------------------------------------------------------------------------
TypeOK ==
  /\ account \in {"absent", "unmarked", "marked", "none"}
  /\ catalog \in SUBSET Seeder
  /\ rows \in SUBSET Row
  /\ boot \in [Processes -> Boot]
  /\ calls \in 0 .. MaxCalls
  /\ stops \in 0 .. MaxStops
  /\ overlap \in BOOLEAN

\* However often processes are stopped and started again, the starts leave one
\* row of a key and one catalog, and never a row of a key that had one, as long
\* as no two are under way at once.
SeededOnce ==
  ~overlap =>
    /\ \A r, s \in rows : r.key = s.key /\ {r.by, s.by} \subseteq Seeder => r = s
    /\ \A q, p \in catalog : q = p

\* The API never serves with a part of the baseline: once a process is up, all
\* of it is there, but for files that were missing and for a database in which
\* there is no administrator left to attribute it to.
BaselineComplete ==
  account \in {"unmarked", "marked"} /\ (\E p \in Processes : boot[p].at = "up") =>
    \A k \in Keys \ Missing : Of(k) # {}

\* Unless two starts have overlapped, one fails only if some key has two rows,
\* as an administrator can make them.
FailuresExplained ==
  ~overlap /\ (\E p \in Processes : boot[p].at = "failed") =>
    \E r, s \in rows : r # s /\ r.key = s.key

\* What the code says of itself (main.py, first_boot.py: "every step is
\* skip-if-exists, so repeated startups are safe"): a start does not fail.
StartupsAreSafe == \A p \in Processes : boot[p].at # "failed"
===============================================================================
