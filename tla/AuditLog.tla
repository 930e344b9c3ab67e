------------------------------- MODULE AuditLog -------------------------------
(***************************************************************************)
(* The hash-chained audit log: write_audit_log in any number of API        *)
(* workers, the daily retention job cleanup_audit_logs, and verify_chain,  *)
(* which reads the table one page per query.                               *)
(*                                                                         *)
(* A hash is abstracted to the id of the row it was computed from (0 is    *)
(* ZERO_HASH), so a row's prev_hash is the id of the row it was chained    *)
(* to.  Time advances in ticks; an archive file is named by days.          *)
(***************************************************************************)
EXTENDS Integers, FiniteSets

CONSTANTS
  Writers,      \* API workers that can be writing an entry at once
  PageSize,     \* batch_size of verify_chain (1000 in production)
  Retention,    \* audit_retention_days, in ticks
  TicksPerDay,  \* resolution of the clock
  MaxEntries,   \* bound: ids taken from the sequence
  MaxTime       \* bound: ticks of the clock

ASSUME AuditAssumption ==
  /\ PageSize \in Nat \ {0}
  /\ Retention \in Nat \ {0}
  /\ TicksPerDay \in Nat \ {0}
  /\ MaxEntries \in Nat
  /\ MaxTime \in Nat

VARIABLES
  log,        \* committed audit_log rows
  nextId,     \* the id sequence; a value is used up even if the insert fails
  now,        \* the clock
  writers,    \* write_audit_log calls in progress
  cleanup,    \* the retention job
  archives,   \* archive files: the ids each one holds, {} if there is no file
  check,      \* a call of verify_chain
  deleted,    \* auxiliary: ids the retention job has deleted
  overlapped  \* auxiliary: two calls of write_audit_log have overlapped

vars == <<log, nextId, now, writers, cleanup, archives, check, deleted, overlapped>>

Ids   == 1 .. MaxEntries
Times == 0 .. MaxTime
\* Mutant: the file is named by timestamps instead of days.
StampNamed(t) == t + MaxTime

Day(t) == t \div TicksPerDay
Days  == {Day(t) : t \in Times}
Files == Days \X Days          \* audit_archive_{earliest}_to_{latest}.json

Entry   == [id : Ids, prev : Ids \cup {0}, time : Times]
Write   == [phase : {"idle", "selected", "locked", "inserted"}, seen : SUBSET Ids,
            prev : Ids \cup {0}, time : Times, id : Ids \cup {0}]
Cleanup == [phase : {"idle", "selected", "archived"}, cutoff : Int,
            batch : SUBSET Ids, file : Files, due : Nat]
Check   == [verdict : {"none", "pending", "intact", "broken"}, last : Ids \cup {0},
            disturbed : BOOLEAN]

NoWrite == [phase |-> "idle", seen |-> {}, prev |-> 0, time |-> 0, id |-> 0]

LogIds == {e.id : e \in log}

Init ==
  /\ log = {}
  /\ nextId = 1
  /\ now = 0
  /\ writers = [w \in Writers |-> NoWrite]
  /\ cleanup = [phase |-> "idle", cutoff |-> 0, batch |-> {}, file |-> <<0, 0>>,
                due |-> 0]
  /\ archives = [f \in Files |-> {}]
  /\ check = [verdict |-> "none", last |-> 0, disturbed |-> FALSE]
  /\ deleted = {}
  /\ overlapped = FALSE

-------------------------------------------------------------------------------
(* write_audit_log: one transaction of its own session.                      *)

Open(w) == writers[w].phase \in {"locked", "inserted"}

\* SELECT ... FOR UPDATE keeps the row until the transaction ends.
Locked(id) == id # 0 /\ \E w \in Writers : Open(w) /\ writers[w].prev = id

\* Mutant: ORDER BY id ASC.
FirstOf(seen) ==
  LET rows == seen \cap LogIds
  IN  IF rows = {} THEN 0 ELSE CHOOSE i \in rows : \A j \in rows : i <= j

\* ORDER BY id DESC LIMIT 1 over the rows of the statement's snapshot that
\* still exist when the lock is granted; a row committed meanwhile is not seen.
LastOf(seen) ==
  LET rows == seen \cap LogIds
  IN  IF rows = {} THEN 0 ELSE CHOOSE i \in rows : \A j \in rows : j <= i

SelectLast(w) ==
  /\ writers[w].phase = "idle"
  /\ writers' = [writers EXCEPT ![w].phase = "selected", ![w].seen = LogIds]
  /\ overlapped' = (overlapped \/ \E v \in Writers \ {w} : writers[v].phase # "idle")
  /\ UNCHANGED <<log, nextId, now, cleanup, archives, check, deleted>>

\* The lock is granted: the hash is read, the timestamp taken.
LockLast(w) ==
  /\ writers[w].phase = "selected"
  /\ ~Locked(LastOf(writers[w].seen))
  /\ writers' = [writers EXCEPT ![w] =
       [NoWrite EXCEPT !.phase = "locked", !.prev = LastOf(writers[w].seen), !.time = now]]
  /\ UNCHANGED <<log, nextId, now, cleanup, archives, check, deleted, overlapped>>

Insert(w) ==
  /\ writers[w].phase = "locked"
  /\ nextId <= MaxEntries
  /\ writers' = [writers EXCEPT ![w].phase = "inserted", ![w].id = nextId]
  /\ nextId' = nextId + 1
  /\ UNCHANGED <<log, now, cleanup, archives, check, deleted, overlapped>>

Commit(w) ==
  /\ writers[w].phase = "inserted"
  /\ log' = log \cup {[id |-> writers[w].id, prev |-> writers[w].prev,
                       time |-> writers[w].time]}
  /\ writers' = [writers EXCEPT ![w] = NoWrite]
  /\ UNCHANGED <<nextId, now, cleanup, archives, check, deleted, overlapped>>

\* An exception anywhere in the call; AuditMiddleware swallows it.
Abandon(w) ==
  /\ writers[w].phase # "idle"
  /\ writers' = [writers EXCEPT ![w] = NoWrite]
  /\ UNCHANGED <<log, nextId, now, cleanup, archives, check, deleted, overlapped>>

-------------------------------------------------------------------------------
(* cleanup_audit_logs, triggered by beat once a day.                         *)

Expired(cutoff) == {e \in log : e.time < cutoff}

NothingExpired ==
  /\ cleanup.phase = "idle" /\ cleanup.due <= now
  /\ Expired(now - Retention) = {}
  /\ cleanup' = [cleanup EXCEPT !.due = now + TicksPerDay]
  /\ UNCHANGED <<log, nextId, now, writers, archives, check, deleted, overlapped>>

\* The file is named by the first and last day in the batch.
SelectExpired ==
  LET batch == Expired(now - Retention)
  IN
  /\ cleanup.phase = "idle" /\ cleanup.due <= now
  /\ \E first, last \in batch :
       /\ \A e \in batch : first.time <= e.time /\ e.time <= last.time
       /\ cleanup' = [phase |-> "selected", cutoff |-> now - Retention,
                      batch |-> {e.id : e \in batch},
                      file |-> <<Day(first.time), Day(last.time)>>,
                      due |-> now + TicksPerDay]
  /\ UNCHANGED <<log, nextId, now, writers, archives, check, deleted, overlapped>>

\* open(archive_path, "w") replaces a file of the same name.
WriteArchive ==
  /\ cleanup.phase = "selected"
  /\ archives' = [archives EXCEPT ![cleanup.file] = cleanup.batch]
  /\ cleanup' = [cleanup EXCEPT !.phase = "archived"]
  /\ UNCHANGED <<log, nextId, now, writers, check, deleted, overlapped>>

\* Mutant: the two queries disagree on a row exactly as old as the
\* cutoff.
DeleteAtCutoff ==
  LET gone == {e \in log : e.time <= cleanup.cutoff}
  IN
  /\ cleanup.phase = "archived"
  /\ \A e \in gone : ~Locked(e.id)
  /\ log' = log \ gone
  /\ deleted' = deleted \cup {e.id : e \in gone}
  /\ cleanup' = [cleanup EXCEPT !.phase = "idle", !.batch = {}]
  /\ check' = [check EXCEPT !.disturbed = @ \/ check.verdict = "pending"]
  /\ UNCHANGED <<nextId, now, writers, archives, overlapped>>

\* The DELETE names the cutoff, not the rows archived; it waits for row locks.
DeleteExpired ==
  LET gone == Expired(cleanup.cutoff)
  IN
  /\ cleanup.phase = "archived"
  /\ \A e \in gone : ~Locked(e.id)
  /\ log' = log \ gone
  /\ deleted' = deleted \cup {e.id : e \in gone}
  /\ cleanup' = [cleanup EXCEPT !.phase = "idle", !.batch = {}]
  /\ check' = [check EXCEPT !.disturbed = @ \/ check.verdict = "pending"]
  /\ UNCHANGED <<nextId, now, writers, archives, overlapped>>

\* A crash before the DELETE commits; amid json.dump it truncates the file.
CleanupCrash ==
  /\ cleanup.phase # "idle"
  /\ cleanup' = [cleanup EXCEPT !.phase = "idle", !.batch = {}]
  /\ \/ archives' = archives
     \/ /\ cleanup.phase = "selected"
        /\ archives' = [archives EXCEPT ![cleanup.file] = {}]
  /\ UNCHANGED <<log, nextId, now, writers, check, deleted, overlapped>>

-------------------------------------------------------------------------------
(* verify_chain, one query a page.                                           *)

Before(e, f) == e.time < f.time \/ (e.time = f.time /\ e.id < f.id)

Rank(e, rows) == Cardinality({f \in rows : Before(f, e)})

\* Mutant: WHERE id >= last: a page begins with the row the last one
\* ended with.
PageInclusive(rows, last) ==
  LET rest == {e \in rows : e.id >= last}
  IN  {e \in rest : Rank(e, rest) < PageSize}

\* WHERE id > last ORDER BY timestamp, id LIMIT batch_size
Page(rows, last) ==
  LET rest == {e \in rows : e.id > last}
  IN  {e \in rest : Rank(e, rest) < PageSize}

\* Mutant: the first row must be a genesis row.
GenesisRequired(page, last) == \A e \in page : Rank(e, page) = 0 => e.prev = last

\* Mutant: pages are verified one by one, without the link between
\* them.
PagesUnlinked(page, last) == TRUE

\* The first row of the first page is accepted whatever it was chained to.
FirstLinked(page, last) ==
  last # 0 => \A e \in page : Rank(e, page) = 0 => e.prev = last

PageIntact(page, last) ==
  /\ FirstLinked(page, last)
  /\ \A e, f \in page : Rank(f, page) = Rank(e, page) + 1 => f.prev = e.id

FinalId(page) == (CHOOSE e \in page : \A f \in page : ~Before(e, f)).id

\* The verdict on a table that does not change during the call.
VerifyChain(rows) ==
  LET Intact[last \in Ids \cup {0}] ==
        LET page == Page(rows, last)
        IN  page = {} \/ (PageIntact(page, last) /\ Intact[FinalId(page)])
  IN  Intact[0]

VerifyStart ==
  /\ check.verdict # "pending"
  /\ check' = [verdict |-> "pending", last |-> 0, disturbed |-> FALSE]
  /\ UNCHANGED <<log, nextId, now, writers, cleanup, archives, deleted, overlapped>>

VerifyPage ==
  LET page == Page(log, check.last)
  IN
  /\ check.verdict = "pending"
  /\ check' = IF page = {} THEN [check EXCEPT !.verdict = "intact"]
              ELSE IF ~PageIntact(page, check.last) THEN [check EXCEPT !.verdict = "broken"]
              ELSE [check EXCEPT !.last = FinalId(page)]
  /\ UNCHANGED <<log, nextId, now, writers, cleanup, archives, deleted, overlapped>>

-------------------------------------------------------------------------------
\* A writer is given at most one tick between its timestamp and its commit: the
\* three years of retention are never shorter than one transaction.
Tick ==
  /\ now < MaxTime
  /\ \A w \in Writers : Open(w) => writers[w].time = now
  /\ now' = now + 1
  /\ UNCHANGED <<log, nextId, writers, cleanup, archives, check, deleted, overlapped>>

WriteStep(w) == SelectLast(w) \/ LockLast(w) \/ Insert(w) \/ Commit(w) \/ Abandon(w)

CleanupStep ==
  NothingExpired \/ SelectExpired \/ WriteArchive \/ DeleteExpired \/ CleanupCrash

Next ==
  \/ \E w \in Writers : WriteStep(w)
  \/ CleanupStep
  \/ VerifyStart
  \/ VerifyPage
  \/ Tick

Spec == Init /\ [][Next]_vars

-------------------------------------------------------------------------------
(* Properties *)

\* Every variable has its type.
TypeOK ==
  /\ log \in SUBSET Entry
  /\ nextId \in 1 .. MaxEntries + 1
  /\ now \in Times
  /\ writers \in [Writers -> Write]
  /\ cleanup \in Cleanup
  /\ archives \in [Files -> SUBSET Ids]
  /\ check \in Check
  /\ deleted \in SUBSET Ids
  /\ overlapped \in BOOLEAN

\* Every row but the oldest is chained to its immediate predecessor, and rows
\* are in the order of their timestamps.
Linked ==
  \A e, f \in log : f.id < e.id =>
    /\ f.time <= e.time
    /\ f.id <= e.prev
    /\ e.prev < e.id
    /\ e.prev \in LogIds

\* As long as no two calls of write_audit_log overlap, the surviving rows form
\* one chain, whatever calls fail and whatever the retention job deletes
\* between the SELECT of a call and its commit.
ChainLinked == ~overlapped => Linked

\* verify_chain accepts every table such a history leaves, although the oldest
\* surviving row names a deleted one.
IntactVerifies == ~overlapped => VerifyChain(log)

\* verify_chain notices the loss of any row but the oldest and the newest, at a
\* page boundary too.
RemovalDetected ==
  ~overlapped =>
    \A e \in log :
      (\E f, g \in log : f.id < e.id /\ e.id < g.id) => ~VerifyChain(log \ {e})

\* A verification during which rows are being written, but none deleted, never
\* reports a break in a chain that has none.
NoFalseAlarm == check.verdict = "broken" => overlapped \/ check.disturbed

\* The retention job deletes only rows past the retention period, and only when
\* an archive file holds them, although it selects the rows to archive and the
\* rows to delete by two separate queries.
DeletionsJustified ==
  [][\A e \in log \ log' :
       /\ e.time < now - Retention
       /\ \E f \in Files : e.id \in archives'[f]]_vars
===============================================================================
