------------------------------- MODULE ManualDrop -----------------------------
(***************************************************************************)
(* A drop folder and the runs that ingest what staff put there.  A run     *)
(* lists the folder, then reads each file, hands it to the index, and      *)
(* moves to the archive whatever has that name by then.                    *)
(*                                                                         *)
(* Only files that a listing accepts are modelled, and not their names in  *)
(* the archive.                                                            *)
(***************************************************************************)
EXTENDS Naturals

CONSTANTS
  Names,       \* names of files
  Runs,        \* executions of _ingest_manual_drop_source that may overlap
  MaxVersions  \* bound: files that staff put in the folder

NoName == "no name"

ASSUME DropAssumption == MaxVersions \in Nat /\ NoName \notin Names

VARIABLES
  folder,     \* version that has each name, 0 if there is none
  put,        \* number of versions put in the folder
  archive,    \* versions moved to _processed
  documents,  \* versions with a committed document
  drops,      \* the runs
  rushed,     \* auxiliary: versions put under a name that a run had read and not yet archived
  undone      \* auxiliary: versions whose document was rolled back

dropVars == <<folder, put, archive, documents, drops, rushed, undone>>

Version == 1 .. MaxVersions

\* names: those still to be taken; pending: documents not yet committed;
\* broken: the session's transaction has been aborted.
Drop == [at : {"idle", "next", "read", "indexed"}, names : SUBSET Names, name : Names \cup {NoName},
         content : Version \cup {0}, pending : SUBSET Version, broken : BOOLEAN]
Idle == [at |-> "idle", names |-> {}, name |-> NoName, content |-> 0,
         pending |-> {}, broken |-> FALSE]

DropInit ==
  /\ folder = [n \in Names |-> 0]
  /\ put = 0
  /\ archive = {}
  /\ documents = {}
  /\ drops = [r \in Runs |-> Idle]
  /\ rushed = {}
  /\ undone = {}

-------------------------------------------------------------------------------
(* Staff.                                                                    *)

Holds(r, n) == drops[r].at \in {"read", "indexed"} /\ drops[r].name = n

PutFile(n) ==
  /\ put < MaxVersions
  /\ put' = put + 1
  /\ folder' = [folder EXCEPT ![n] = put + 1]
  /\ rushed' = IF \E r \in Runs : Holds(r, n) THEN rushed \cup {put + 1} ELSE rushed
  /\ UNCHANGED <<archive, documents, drops, undone>>

TakeBack(n) ==
  /\ folder[n] # 0
  /\ folder' = [folder EXCEPT ![n] = 0]
  /\ UNCHANGED <<put, archive, documents, drops, rushed, undone>>

-------------------------------------------------------------------------------
(* _ingest_manual_drop_source                                                *)

DropStep(r, drop) ==
  /\ drops' = [drops EXCEPT ![r] = drop]
  /\ UNCHANGED <<put, rushed>>

\* authenticate and discover.
ListFolder(r) ==
  /\ drops[r].at = "idle"
  /\ DropStep(r, [Idle EXCEPT !.at = "next", !.names = {n \in Names : folder[n] # 0}])
  /\ UNCHANGED <<folder, archive, documents, undone>>

Skipped(r, n) == [drops[r] EXCEPT !.at = "next", !.names = drops[r].names \ {n}]

Read(r, n) ==
  /\ drops[r].at = "next" /\ n \in drops[r].names /\ folder[n] # 0
  /\ DropStep(r, [drops[r] EXCEPT !.at = "read", !.name = n, !.content = folder[n]])
  /\ UNCHANGED <<folder, archive, documents, undone>>

\* The file is gone, or cannot be read: the error is counted.
ReadFails(r, n) ==
  /\ drops[r].at = "next" /\ n \in drops[r].names
  /\ DropStep(r, Skipped(r, n))
  /\ UNCHANGED <<folder, archive, documents, undone>>

\* (source_id, file_hash) is unique: the insert waits for another run's.
Free(r, v) == \A q \in Runs \ {r} : v \notin drops[q].pending

\* The library flushes the document, or commits the session.
Ingest(r) ==
  /\ drops[r].at = "read" /\ ~drops[r].broken /\ Free(r, drops[r].content)
  /\ LET held == drops[r].pending \cup {drops[r].content}
     IN  \/ /\ DropStep(r, [drops[r] EXCEPT !.at = "indexed", !.pending = held])
            /\ UNCHANGED documents
         \/ /\ DropStep(r, [drops[r] EXCEPT !.at = "indexed", !.pending = {}])
            /\ documents' = documents \cup held
  /\ UNCHANGED <<folder, archive, undone>>

\* ingest_file_from_bytes returns None; what failed may have aborted the
\* transaction, and then it is no use any more.
IngestFails(r) ==
  /\ drops[r].at = "read"
  /\ \/ /\ DropStep(r, Skipped(r, drops[r].name))
        /\ UNCHANGED undone
     \/ /\ DropStep(r, [Skipped(r, drops[r].name) EXCEPT !.pending = {}, !.broken = TRUE])
        /\ undone' = undone \cup drops[r].pending
  /\ UNCHANGED <<folder, archive, documents>>

\* Mutant: a file that could not be ingested is archived too.
FailedIsArchived(r) ==
  /\ drops[r].at \in {"indexed", "read"} /\ folder[drops[r].name] # 0
  /\ archive' = archive \cup {folder[drops[r].name]}
  /\ folder' = [folder EXCEPT ![drops[r].name] = 0]
  /\ DropStep(r, Skipped(r, drops[r].name))
  /\ UNCHANGED <<documents, undone>>

ArchiveFile(r) ==
  /\ drops[r].at = "indexed" /\ folder[drops[r].name] # 0
  /\ archive' = archive \cup {folder[drops[r].name]}
  /\ folder' = [folder EXCEPT ![drops[r].name] = 0]
  /\ DropStep(r, Skipped(r, drops[r].name))
  /\ UNCHANGED <<documents, undone>>

\* Archiving is off, the file is gone, or the move fails.
NotArchived(r) ==
  /\ drops[r].at = "indexed"
  /\ DropStep(r, Skipped(r, drops[r].name))
  /\ UNCHANGED <<folder, archive, documents, undone>>

CommitDrop(r) ==
  /\ drops[r].at = "next" /\ drops[r].names = {} /\ ~drops[r].broken
  /\ documents' = documents \cup drops[r].pending
  /\ DropStep(r, Idle)
  /\ UNCHANGED <<folder, archive, undone>>

\* The commit fails, or the worker dies.
AbandonDrop(r) ==
  /\ drops[r].at # "idle"
  /\ undone' = undone \cup drops[r].pending
  /\ DropStep(r, Idle)
  /\ UNCHANGED <<folder, archive, documents>>

DropNext ==
  \/ \E n \in Names : PutFile(n) \/ TakeBack(n)
  \/ \E r \in Runs :
       \/ ListFolder(r) \/ Ingest(r) \/ IngestFails(r) \/ ArchiveFile(r) \/ NotArchived(r)
       \/ CommitDrop(r) \/ AbandonDrop(r)
       \/ \E n \in Names : Read(r, n) \/ ReadFails(r, n)

-------------------------------------------------------------------------------
DropTypeOK ==
  /\ folder \in [Names -> Version \cup {0}]
  /\ put \in 0 .. MaxVersions
  /\ archive \in SUBSET Version
  /\ documents \in SUBSET Version
  /\ drops \in [Runs -> Drop]
  /\ rushed \in SUBSET Version
  /\ undone \in SUBSET Version

\* What is in the archive has a document, or a run is about to commit one, unless
\* that run failed after it had moved the file, or the file took the place of one
\* that a run had just read.  A document is a row: the task looks only at whether
\* the library returned one, not at whether its processing went well.
ArchivedHasDocument ==
  archive \subseteq documents \cup undone \cup rushed \cup UNION {drops[r].pending : r \in Runs}
===============================================================================
