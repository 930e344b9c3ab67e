------------------------------ MODULE SyncRunner ------------------------------
(***************************************************************************)
(* Synchronising one scheduled rest_api or odbc data source: the scheduler *)
(* tick, the Celery task task_ingest_source, the runner                    *)
(* run_connector_sync_with_retry and the administrators' endpoints on      *)
(* failed records.                                                         *)
(*                                                                         *)
(* A run is one database transaction under READ COMMITTED.  It reads the   *)
(* source row when the task starts and the failed records when the runner  *)
(* starts, works from these copies through any number of network calls,    *)
(* and writes back, in one commit, the columns it changed.  Nothing keeps  *)
(* two runs of a source apart.                                             *)
(***************************************************************************)
EXTENDS SyncCircuit, Sequences, FiniteSets

CONSTANTS
  Paths,                 \* records of the upstream system, by source_path
  Runs,                  \* task executions that can be alive at once
  DeadLetterMaxRetries,  \* _DEAD_LETTER_MAX_RETRIES (5 in production)
  RetryBatchSize,        \* retry_batch_size (100 in production)
  MaxTaskRetries,        \* Celery's default max_retries (3)
  MaxRows,               \* bound: sync_failures rows of one record
  MaxQueue,              \* bound: messages waiting in the broker
  MaxFailureCount        \* bound: failed runs counted before runs stop

ASSUME SyncAssumption ==
  /\ DeadLetterMaxRetries \in Nat \ {0}
  /\ RetryBatchSize \in Nat \ {0}
  /\ MaxTaskRetries \in Nat
  /\ MaxRows \in Nat
  /\ MaxQueue \in Nat
  /\ MaxFailureCount \in Nat

VARIABLES
  source,     \* breaker columns of the data_sources row
  overdue,    \* compute_next_sync_at(sync_schedule, last_sync_at) <= now
  processed,  \* last_sync_cursor: the records it declares dealt with
  failures,   \* sync_failures rows of each record, oldest first
  documents,  \* records that have a documents row
  queue,      \* task messages in the broker, by delivery attempt
  runs        \* the task executions and their open transactions

vars == <<source, overdue, processed, failures, documents, queue, runs>>

FailureStatus ==
  {"retrying", "permanently_failed", "tombstone", "resolved", "dismissed"}

\* expired: first_failed_at is more than _DEAD_LETTER_MAX_AGE_DAYS ago.
\* tries is history, not a column: the failed retries of the row committed so
\* far, which retry_count is meant to count.
Failure == [status : FailureStatus, retry_count : Nat, expired : BOOLEAN, tries : Nat]

\* What layer 2 did with a selected row, and the record loop with a record.
RetryOutcome  == {"unselected", "todo", "resolved", "tombstone", "failed", "dead_letter"}
RecordVerdict ==
  {"unlisted", "todo", "ingested", "retrying", "permanently_failed", "tombstone"}

Retry == [seen : Nat, outcome : RetryOutcome]      \* seen: retry_count as read

Row == Paths \X (1 .. MaxRows)                     \* <<p, i>>: i-th row of p
RowAt(r) == failures[r[1]][r[2]]
ExistingRows == UNION {{p} \X DOMAIN failures[p] : p \in Paths}
RowsWith(status) == {r \in ExistingRows : RowAt(r).status = status}

IdleRun == [phase |-> "idle", attempt |-> 0, loaded |-> NewCircuit,
            batch |-> [r \in Row |-> [seen |-> 0, outcome |-> "unselected"]],
            verdict |-> [p \in Paths |-> "unlisted"]]
-----------------------------------------------------------------------------
(* What the open transaction of run w holds. *)

Attempted(w) ==
  {r \in Row : runs[w].batch[r].outcome \notin {"unselected", "todo"}}

\* Rows whose record layer 2 has asked the source for.
Fetched(w) ==
  {r \in Row : runs[w].batch[r].outcome \in {"resolved", "tombstone", "failed"}}

\* Mutant: a retried record is not written with the run.
DiscoveredOnly(w) == {p \in Paths : runs[w].verdict[p] = "ingested"}

Ingested(w) ==
  {p \in Paths :
     \/ runs[w].verdict[p] = "ingested"
     \/ \E i \in 1 .. MaxRows : runs[w].batch[<<p, i>>].outcome = "resolved"}

\* Mutant: a record that is gone upstream leaves no row.
FailingButNotGone(w) ==
  {p \in Paths : runs[w].verdict[p] \in {"retrying", "permanently_failed"}}

\* Records whose failure the transaction inserts.
Failing(w) ==
  {p \in Paths :
     runs[w].verdict[p] \in {"retrying", "permanently_failed", "tombstone"}}

Listed(w) == {p \in Paths : runs[w].verdict[p] # "unlisted"}

SomeSucceeded(w) == Ingested(w) # {}
SomeFailed(w)    ==
  Failing(w) # {} \/ \E r \in Row : runs[w].batch[r].outcome = "failed"

\* Updating a row, or reading a documents row FOR UPDATE, waits for the
\* transaction that has touched it to end.
RowUnlocked(w, r)      == \A v \in Runs \ {w} : r \notin Attempted(v)
DocumentUnlocked(w, p) == \A v \in Runs \ {w} : p \notin Ingested(v)

\* Bound: a further row of p fits, counting those of open transactions.
RoomForRow(p) ==
  Len(failures[p]) + Cardinality({v \in Runs : p \in Failing(v)}) < MaxRows
-----------------------------------------------------------------------------
Init ==
  /\ source = NewCircuit
  /\ overdue = TRUE                 \* last_sync_at is NULL
  /\ processed = {}
  /\ failures = [p \in Paths |-> <<>>]
  /\ documents = {}
  /\ queue = [a \in 0 .. MaxTaskRetries |-> 0]
  /\ runs = [w \in Runs |-> IdleRun]

\* The next instant of the cron schedule arrives.
CronInstant ==
  /\ ~overdue
  /\ overdue' = TRUE
  /\ UNCHANGED <<source, processed, failures, documents, queue, runs>>

\* Seven days pass since the first failure of a row.
RowExpires(p, i) ==
  /\ ~failures[p][i].expired
  /\ failures' = [failures EXCEPT ![p][i].expired = TRUE]
  /\ UNCHANGED <<source, overdue, processed, documents, queue, runs>>

BrokerHasRoom == \A a \in DOMAIN queue : queue[a] < MaxQueue

\* _check_scheduled_sources_async: nothing tells it that a run is under way.
CheckScheduledSources ==
  /\ ~source.sync_paused
  /\ overdue
  /\ BrokerHasRoom
  /\ queue' = [queue EXCEPT ![0] = @ + 1]
  /\ UNCHANGED <<source, overdue, processed, failures, documents, runs>>

\* POST /datasources/{id}/ingest, paused or not.
TriggerIngestion ==
  /\ BrokerHasRoom
  /\ queue' = [queue EXCEPT ![0] = @ + 1]
  /\ UNCHANGED <<source, overdue, processed, failures, documents, runs>>
-----------------------------------------------------------------------------
(* One execution of task_ingest_source. *)

\* A worker takes a message and reads the source row into its session.
StartTask(w) ==
  /\ runs[w].phase = "idle"
  /\ source.consecutive_failure_count < MaxFailureCount
  /\ \E a \in DOMAIN queue :
       /\ queue[a] > 0
       /\ queue' = [queue EXCEPT ![a] = @ - 1]
       /\ runs' = [runs EXCEPT ![w] =
                     [IdleRun EXCEPT !.phase = "authenticating",
                                     !.attempt = a, !.loaded = source]]
  /\ UNCHANGED <<source, overdue, processed, failures, documents>>

\* authenticate() answers False: the task returns an error and writes nothing.
AuthenticationFails(w) ==
  /\ runs[w].phase = "authenticating"
  /\ runs' = [runs EXCEPT ![w] = IdleRun]
  /\ UNCHANGED <<source, overdue, processed, failures, documents, queue>>

\* The runner selects the rows to retry; LIMIT without ORDER BY may return
\* any of them.
BeginRun(w) ==
  /\ runs[w].phase = "authenticating"
  /\ \E S \in SUBSET RowsWith("retrying") :
       /\ Cardinality(S) <= RetryBatchSize
       /\ Cardinality(S) < RetryBatchSize => S = RowsWith("retrying")
       /\ runs' = [runs EXCEPT
            ![w].phase = "retrying",
            ![w].batch = [r \in Row |->
                            IF r \in S
                            THEN [seen |-> RowAt(r).retry_count, outcome |-> "todo"]
                            ELSE @[r]]]
  /\ UNCHANGED <<source, overdue, processed, failures, documents, queue>>

\* A row whose turn comes.  The flush that ends the turn locks it.
Retryable(w, r) ==
  /\ runs[w].phase = "retrying"
  /\ runs[w].batch[r].outcome = "todo"
  /\ RowUnlocked(w, r)

\* Mutant: one attempt too many.
OverBudget(w, r) ==
  runs[w].batch[r].seen > DeadLetterMaxRetries \/ RowAt(r).expired

\* Mutant: given up one attempt early.
EagerBudget(w, r) ==
  runs[w].batch[r].seen + 1 >= DeadLetterMaxRetries \/ RowAt(r).expired

OutOfBudget(w, r) ==
  runs[w].batch[r].seen >= DeadLetterMaxRetries \/ RowAt(r).expired

RetryTurn(w, r, outcome) ==
  /\ runs' = [runs EXCEPT ![w].batch[r].outcome = outcome]
  /\ UNCHANGED <<source, overdue, processed, failures, documents, queue>>

RetryDeadLetters(w, r) ==
  /\ Retryable(w, r)
  /\ OutOfBudget(w, r)
  /\ RetryTurn(w, r, "dead_letter")

RetrySucceeds(w, r) ==
  /\ Retryable(w, r)
  /\ ~OutOfBudget(w, r)
  /\ DocumentUnlocked(w, r[1])
  /\ RetryTurn(w, r, "resolved")

\* FileNotFoundError.
RetryFindsNothing(w, r) ==
  /\ Retryable(w, r)
  /\ ~OutOfBudget(w, r)
  /\ RetryTurn(w, r, "tombstone")

\* Any other exception.
RetryFails(w, r) ==
  /\ Retryable(w, r)
  /\ ~OutOfBudget(w, r)
  /\ RetryTurn(w, r, "failed")

\* discover() raises: the transaction is rolled back, and an OSError puts
\* the task back in the broker while it has attempts left.
DiscoverRaises(w) ==
  /\ runs[w].phase = "retrying"
  /\ runs' = [runs EXCEPT ![w] = IdleRun]
  /\ \/ UNCHANGED queue
     \/ /\ runs[w].attempt < MaxTaskRetries
        /\ BrokerHasRoom
        /\ queue' = [queue EXCEPT ![runs[w].attempt + 1] = @ + 1]
  /\ UNCHANGED <<source, overdue, processed, failures, documents>>

\* discover() lists the source, all of it: no cursor is passed.  Rows may be
\* left over, the time limit having ended the layer 2 loop.
Discover(w) ==
  /\ runs[w].phase = "retrying"
  /\ \E listed \in SUBSET Paths :
       /\ listed # {} \/ Attempted(w) # {}
       /\ runs' = [runs EXCEPT ![w].phase = "fetching",
                               ![w].verdict =
                                 [p \in Paths |-> IF p \in listed THEN "todo" ELSE @[p]]]
  /\ UNCHANGED <<source, overdue, processed, failures, documents, queue>>

\* Nothing listed and nothing retried: commit, without touching the source.
FinishIdleRun(w) ==
  /\ runs[w].phase = "retrying"
  /\ Attempted(w) = {}
  /\ runs' = [runs EXCEPT ![w] = IdleRun]
  /\ UNCHANGED <<source, overdue, processed, failures, documents, queue>>

\* One turn of the record loop.
RecordTurn(w, p, verdict) ==
  /\ runs[w].phase = "fetching"
  /\ runs[w].verdict[p] = "todo"
  /\ runs' = [runs EXCEPT ![w].verdict[p] = verdict]
  /\ UNCHANGED <<source, overdue, processed, failures, documents, queue>>

RecordIngested(w, p) ==
  DocumentUnlocked(w, p) /\ RecordTurn(w, p, "ingested")

\* IntegrityError, a 404 answer, anything else: the status of the new row.
RecordFails(w, p) ==
  \E status \in {"permanently_failed", "tombstone", "retrying"} :
    RoomForRow(p) /\ RecordTurn(w, p, status)

NewFailure(status) ==
  [status |-> status, retry_count |-> 0, expired |-> FALSE, tries |-> 0]

\* Mutant: the last failed retry is counted, and the status left for the next
\* run, which skips a spent row.
RowNotGivenUp(row, retry) ==
  CASE retry.outcome = "dead_letter" -> row
    [] retry.outcome = "failed"      -> [row EXCEPT !.retry_count = retry.seen + 1,
                                                    !.tries = @ + 1]
    [] retry.outcome \in {"resolved", "tombstone"} -> [row EXCEPT !.status = retry.outcome]

\* The columns layer 2 changed, over the row as it is now.
RowAfterRetry(row, retry) ==
  CASE retry.outcome = "resolved"    -> [row EXCEPT !.status = "resolved"]
    [] retry.outcome = "tombstone"   -> [row EXCEPT !.status = "tombstone"]
    [] retry.outcome = "dead_letter" -> [row EXCEPT !.status = "permanently_failed"]
    [] retry.outcome = "failed"      ->
         [row EXCEPT !.retry_count = retry.seen + 1,
                     !.tries = @ + 1,
                     !.status = IF retry.seen + 1 >= DeadLetterMaxRetries
                                THEN "permanently_failed" ELSE @]

FailuresAfter(w, p) ==
  LET kept == [i \in 1 .. Len(failures[p]) |->
                 IF <<p, i>> \in Attempted(w)
                 THEN RowAfterRetry(failures[p][i], runs[w].batch[<<p, i>>])
                 ELSE failures[p][i]]
  IN  IF p \in Failing(w) THEN Append(kept, NewFailure(runs[w].verdict[p]))
      ELSE kept

\* The session writes a column only if its value differs from the one it read.
Column(now, read, new) == IF new = read THEN now ELSE new

\* Mutant: any run, even a failed one, ends the grace period.
GraceEndsAtOnce(w) ==
  [ApplySyncRunResult(source, SomeSucceeded(w), SomeFailed(w)) EXCEPT
     !.sync_paused_reason = IF @ = "grace_period" THEN "none" ELSE @]

SourceAfter(w) ==
  LET read == runs[w].loaded
      new  == ApplySyncRunResult(read, SomeSucceeded(w), SomeFailed(w))
  IN  [consecutive_failure_count |->
         Column(source.consecutive_failure_count,
                read.consecutive_failure_count, new.consecutive_failure_count),
       sync_paused |->
         Column(source.sync_paused, read.sync_paused, new.sync_paused),
       sync_paused_reason |->
         Column(source.sync_paused_reason,
                read.sync_paused_reason, new.sync_paused_reason),
       last_sync_status |->
         Column(source.last_sync_status,
                read.last_sync_status, new.last_sync_status)]

\* Cursor, breaker and failed records, in one commit.
FinishRun(w) ==
  /\ runs[w].phase = "fetching"
  /\ \A p \in Paths : runs[w].verdict[p] # "todo"
  /\ failures' = [p \in Paths |-> FailuresAfter(w, p)]
  /\ documents' = documents \cup Ingested(w)
  /\ processed' = processed \cup Listed(w)
  /\ overdue' = FALSE
  /\ source' = SourceAfter(w)
  /\ runs' = [runs EXCEPT ![w] = IdleRun]
  /\ UNCHANGED queue

\* The worker dies, or the database ends the transaction.  The broker has
\* already acknowledged the message.
Crash(w) ==
  /\ runs[w].phase # "idle"
  /\ runs' = [runs EXCEPT ![w] = IdleRun]
  /\ UNCHANGED <<source, overdue, processed, failures, documents, queue>>
-----------------------------------------------------------------------------
(* The administrators' endpoints.  Each is a transaction of its own. *)

SetStatus(rows, status) ==
  /\ \A r \in rows, w \in Runs : r \notin Attempted(w)
  /\ failures' = [p \in Paths |->
       [i \in 1 .. Len(failures[p]) |->
          IF <<p, i>> \in rows THEN [failures[p][i] EXCEPT !.status = status]
          ELSE failures[p][i]]]
  /\ UNCHANGED <<source, overdue, processed, documents, queue, runs>>

\* Mutant: a misspelt status, which the column accepts.
RetryMisspelt(r) == SetStatus({r}, "retry")

\* The retry counter and the date of the first failure stay what they are.
RetrySyncFailure(r)   == SetStatus({r}, "retrying")
DismissSyncFailure(r) == SetStatus({r}, "dismissed")

\* All rows with one status; a status no row has changes nothing.
StatusesInUse == {RowAt(r).status : r \in ExistingRows}

RetryAllSyncFailures(status)   == SetStatus(RowsWith(status), "retrying")
DismissAllSyncFailures(status) == SetStatus(RowsWith(status), "dismissed")

UnpauseSource ==
  /\ source' = Unpaused(source)
  /\ UNCHANGED <<overdue, processed, failures, documents, queue, runs>>
-----------------------------------------------------------------------------
LayerTwo(w, r) ==
  \/ RetryDeadLetters(w, r) \/ RetrySucceeds(w, r)
  \/ RetryFindsNothing(w, r) \/ RetryFails(w, r)

\* The task doing its work, and what cuts it short.
WorkStep(w) ==
  \/ StartTask(w) \/ AuthenticationFails(w) \/ BeginRun(w)
  \/ \E r \in Row : LayerTwo(w, r)
  \/ Discover(w) \/ FinishIdleRun(w)
  \/ \E p \in Paths : RecordIngested(w, p) \/ RecordFails(w, p)
  \/ FinishRun(w)

Abort(w) == DiscoverRaises(w) \/ Crash(w)

RunStep(w) == WorkStep(w) \/ Abort(w)

SchedulerStep == CronInstant \/ CheckScheduledSources

TimePasses == \E p \in Paths : \E i \in DOMAIN failures[p] : RowExpires(p, i)

AdminStep ==
  \/ TriggerIngestion
  \/ \E r \in ExistingRows : RetrySyncFailure(r) \/ DismissSyncFailure(r)
  \/ \E status \in StatusesInUse :
       RetryAllSyncFailures(status) \/ DismissAllSyncFailures(status)
  \/ UnpauseSource

Next ==
  \/ \E w \in Runs : RunStep(w)
  \/ SchedulerStep
  \/ AdminStep
  \/ TimePasses

Spec == Init /\ [][Next]_vars

(* The same system when executions of the task take turns, with each other *)
(* and with the administrator who unpauses the source.                     *)
TakingTurns ==
  /\ \A v, w \in Runs :
       runs'[v].phase # "idle" /\ runs'[w].phase # "idle" => v = w
  /\ source' # source => \A w \in Runs : runs'[w].phase = "idle"

SerialSpec == Init /\ [][Next /\ TakingTurns]_vars

(* What keeps the system going, for liveness: beat ticks every five        *)
(* minutes, workers take messages, a task that has begun goes on until it  *)
(* ends or is cut short, and layer 2 reaches the first row it has selected *)
(* (its 90 seconds have only begun).                                       *)
Scheduling ==
  /\ WF_vars(SchedulerStep)
  /\ \A w \in Runs :
       /\ WF_vars(WorkStep(w))
       /\ SF_vars(\E r \in Row : LayerTwo(w, r))

ScheduledSpec == SerialSpec /\ Scheduling
-----------------------------------------------------------------------------
(* What the data source card shows (list_datasources): unresolved failures *)
(* degrade a source that is not paused.                                    *)

\* Mutant: dead letters are forgotten.
RetryingOnly == RowsWith("retrying")

ActiveFailures == RowsWith("retrying") \cup RowsWith("permanently_failed")

HealthStatus ==
  CASE source.sync_paused -> "circuit_open"
    [] ~source.sync_paused /\ ( \/ source.consecutive_failure_count > 0
                               \/ ActiveFailures # {} ) -> "degraded"
    [] ~source.sync_paused /\ source.consecutive_failure_count = 0
                          /\ ActiveFailures = {} -> "healthy"
-----------------------------------------------------------------------------
(* Properties. *)

Run == [phase   : {"idle", "authenticating", "retrying", "fetching"},
        attempt : 0 .. MaxTaskRetries,
        loaded  : Circuit,
        batch   : [Row -> Retry],
        verdict : [Paths -> RecordVerdict]]

\* Every variable holds a value of its kind; a row of the source that is
\* written column by column is still a row.
TypeOK ==
  /\ source \in Circuit
  /\ overdue \in BOOLEAN
  /\ processed \subseteq Paths
  /\ failures \in [Paths -> Seq(Failure)]
  /\ documents \subseteq Paths
  /\ queue \in [0 .. MaxTaskRetries -> Nat]
  /\ runs \in [Runs -> Run]

\* A failed record marked resolved has been ingested: the mark and the
\* document are committed together, whoever else touches the row.
ResolvedIsIngested ==
  \A p \in Paths : \A i \in DOMAIN failures[p] :
    failures[p][i].status = "resolved" => p \in documents

\* The cursor never passes a record of which nothing is known: it has been
\* ingested or has a row on the list of failures.
ProcessedIsAccounted ==
  \A p \in processed : p \in documents \/ failures[p] # <<>>

\* With runs taking turns, no record is fetched again once as many of its
\* retries have failed as the limit says, although administrators put rows
\* back to retrying and dying runs roll back what they have counted.
\* Overlapping runs break it: each goes by its own copy of the counter.
RetryBudget ==
  \A w \in Runs : \A r \in Fetched(w) : RowAt(r).tries < DeadLetterMaxRetries

\* No row is given up before its time, with overlapping runs too: it becomes
\* permanently_failed only after as many failed retries as the limit says, or
\* seven days after its first failure.
GivenUpWhenSpent ==
  [][\A r \in ExistingRows :
       RowAt(r).status # "permanently_failed" /\ RowAt(r)'.status = "permanently_failed" =>
         RowAt(r)'.tries >= DeadLetterMaxRetries \/ RowAt(r).expired]_vars

\* A source shown healthy hides nothing: each record its cursor has passed is
\* in the index, gone upstream, or dismissed by an administrator.
HealthyMeansComplete ==
  HealthStatus = "healthy" =>
    \A p \in processed \ documents :
      \E i \in DOMAIN failures[p] : failures[p][i].status \in {"tombstone", "dismissed"}

\* The circuit is open whenever the streak of failed runs has reached the
\* threshold in force, which is lower right after an unpause.
ThresholdEnforced ==
  ~source.sync_paused =>
    source.consecutive_failure_count < Threshold(source.sync_paused_reason)

\* Layer 2 ends.  If from some time on the source authenticates, discover()
\* answers and no worker dies, and if no row enters retrying any more (by a new
\* failure or by an administrator), then the queue of rows to retry does not
\* stay filled for ever, unless the breaker pauses the source: administrators,
\* the clock and the choice of the rows to retry are free otherwise.
SourceWorks == <>[][\A w \in Runs : ~Abort(w) /\ ~AuthenticationFails(w)]_vars
NoneEnters  == <>[][RowsWith("retrying")' \subseteq RowsWith("retrying")]_vars

RetryingSettles ==
  SourceWorks /\ NoneEnters =>
    []<>(RowsWith("retrying") = {} \/ source.sync_paused)

\* With runs taking turns, the circuit columns change as the breaker says.
CB == INSTANCE CircuitBreaker WITH circuit <- source
CircuitImplemented == CB!CircuitSpec
=============================================================================
