# A verification model of CivicRecords AI

TLA+ models of the parts of CivicRecords AI where order, overlap and failure
matter, the TLC runs that check them on small instances, and theorems about
them for every size, checked by TLAPS.

Paths are relative to the repository (`src/`); `backend/app/` is left out of
them. `PROJECT.json` maps every definition to the lines it stands for.

## 1. The system

A FastAPI application over PostgreSQL (asyncpg, SQLAlchemy, READ COMMITTED,
nothing serialisable), a Celery worker with a beat that triggers jobs, a Redis
broker, an SMTP server, a local language model and a React client. Every API
call has a session of its own; a job opens its own engine. All shared state is
in PostgreSQL, apart from the broker's queue and the archive files.

| Component | State | Operations | What is hard | What makes it correct |
|---|---|---|---|---|
| Sync runner, scheduler, failure queue (`ingestion/sync_runner.py`, `scheduler.py`, `tasks.py`, `datasources/sync_failures_router.py`) | `data_sources` breaker and cursor columns, `sync_failures`, `documents`, task queue | scheduler tick, trigger, the task, retry of failed records, discovery, fetch and ingest, breaker update, retry/dismiss (one or all), unpause | one transaction spanning minutes of network calls; nothing keeps two runs apart; crashes lose a run | no record is lost from index and failure list at once; retries are bounded and end; the breaker counts every run once |
| Audit log (`audit/logger.py`, `middleware.py`, `scheduler.py`) | `audit_log`, archive files | write, verify page by page, archive and delete | hash of the "last" row read under a lock, deletions and writes during verification, a crash between archive and delete | one unbroken chain; losses are noticed; nothing unarchived is deleted |
| Request workflow (`requests/router.py`) | `records_requests`, timeline, attachments, fees, waivers, notices | create, five ways to change the status, attach, remove, add fee, request and review a waiver | every call reads, checks and later writes without a lock | the lifecycle is respected; timeline, estimate and waivers agree with the request |
| Notifications (`notifications/*`, `requests/deadline_check.py`) | `notification_log`, templates | queue, deliver every minute, daily deadline checks | mails leave before the commit that records them; at-least-once delivery; de-duplication by a query | every queued mail is sent or failed; no request is skipped |
| Exemptions (`exemptions/*`) | `exemption_rules`, `disclosure_templates`, `exemption_flags` | scan by rules and by model, review, rules, templates | a scan takes long, overlaps with other scans, with reviews and with attachments that change | one flag per match of a rule, also after it was rejected; a decision is one person's; a version has one text |
| Response letters (`requests/router.py`) | `response_letters`, timeline | draft by a model or a template, edit, approve, send | a letter is loaded, and written up to minutes later | an approved letter names its approver, who is on the timeline |
| Accounts and sessions (`auth/*`, `admin/router.py`, `main.py`) | `users` | create, change role, deactivate, rotate the first password, the library's own routes | checks on what was read before | an administrator is left |
| City profile, onboarding (`city_profile/`, `onboarding/`) | `city_profile` | create, edit, answer the interview | check-then-insert of a singleton that two endpoints write | one profile, with a true status |
| First boot (`main.py`, `seed/first_boot.py`) | first account, systems catalog, rules, two kinds of templates | at each start, insert what is missing | several processes, stopped anywhere; rows that others inserted | the whole baseline, once |
| Connectors (`connectors/*`) | the remote system's pages, files in the drop folder | authenticate, discover, fetch, archive | pagination over a list that changes, throttling, expired tokens, files replaced while they are read | every record listed once; nothing archived that is not indexed |
| File ingestion (`ingestion/tasks.py`, `datasources/router.py`) | `documents`, chunks | ingest a drop folder, a file, an upload; re-ingest | the commit comes after the files were moved | nothing archived that is not indexed |
| Service accounts, departments, catalog | one table each | create, read, update | constraints keep what matters | - |
| Search, public portal, documents, analytics, language model shims | none, or rows that are only appended | reads | none | - |
| Frontend, installers, migrations, docs | none | - | - | - |

Components interact through the database (the runner writes what the router
shows, each call of the workflow queues notices and an audit entry), through
the broker (tick, trigger and retry of a task) and through calls into
`civiccore`, an external library: its circuit breaker, ingestion and hash chain
are modelled from how `src/` uses them and marked external.

## 2. Plan

Done, in the order of what matters most in the system:

1. `SyncRunner` with `SyncCircuit` and the abstract `CircuitBreaker`.
2. `AuditLog`.
3. `RequestWorkflow` with the abstract `RequestLifecycle`.
4. `Notifications` with the abstract `Outbox`.
5. `FirstBoot`.
6. `Disclosure`, which composes `Exemptions` and `ResponseLetters` over
   `StaffCalls`.
7. `Intake`, which composes `ManualDrop` and `Listing`.
8. `Office`, which composes `Accounts`, `CityProfile` and `VersionedTexts` over
   `StaffCalls`.

Each is modelled and checked, and every safety and action property that a run
finds to hold is proved (section 6). Left to model, if it can be done from `src/`
alone: uploads, re-ingestion and the file-system source, whose outcome the
ingestion library decides.

## 3. Modules

### Sync

`SyncCircuit` holds the breaker columns and the functions on them: what a run
with successes, a run without, and an unpause do. `CircuitBreaker` is the
abstract breaker. `SyncRunner` is the system:

| Variable | Code |
|---|---|
| `source` | the breaker columns of `data_sources` (`models/document.py:94`) |
| `overdue` | `compute_next_sync_at(sync_schedule, last_sync_at) <= now` |
| `processed` | what `last_sync_cursor` declares done |
| `failures` | `sync_failures` rows of each record, oldest first |
| `documents` | records with a `documents` row |
| `queue` | messages of `task_ingest_source`, by delivery attempt |
| `runs` | executions of the task, with what each has read and decided |

A run reads the source when the task starts (`StartTask`), the failed rows when
the runner starts (`BeginRun`), goes through layer 2 row by row (`RetryTurn`
and its outcomes), discovers, goes through the records, and commits everything
in `FinishRun`: the code has one commit, so an action before it changes only
`runs`. The columns a commit writes are those that differ from what was read
(`Column`), which is what the ORM's UPDATE names. `RowUnlocked` and
`DocumentUnlocked` stand for PostgreSQL's row locks and the ingestion's
`SELECT ... FOR UPDATE`: a run that would wait is not enabled. `Crash` is a
worker that dies, whose message is gone (early acknowledgement); a task whose
`discover()` raises is retried by Celery (`DiscoverRaises`).

`retry_count` is what the code counts, `tries` is what it should count: the
failed retries of a row that have been committed, which no column keeps. The
properties about the retry limit compare `tries` with it. `Spec` lets executions
overlap; in `SerialSpec` they take turns, with each other and with an unpause;
`ScheduledSpec` adds the fairness `Scheduling`.

### Audit

`AuditLog` has the table, the id sequence, the clock, the writers, the retention
job, the archive files and one verification. A hash is abstracted to the id of
the row it was computed from; equal hashes of different rows and changes to a
row's contents are outside the model. `SelectLast` takes the snapshot of the
locking SELECT, `LockLast` is the moment the lock is granted: the row is the
last one of the *snapshot* that still exists, which is how READ COMMITTED
re-evaluates a locked row. The sequence is not rolled back. `VerifyPage` is one
query of `verify_chain`; `VerifyChain` is its verdict on a table at rest.

### Requests

`RequestWorkflow` is one request. A call is two steps: `Begin...` makes the
reads and the checks, `Commit...` writes. Each call's number gives the order in
which transactions began, which is the order of `created_at` in the timeline
(`server_default now()`). `create_request` has two commits, so two end steps.
An exception or a crash is `Abort`. What a call tells the
requester is one of three (`Notice`): nothing, if there is no active template, a
queued row, or a failed row, if the template names a key that is missing. A refused call changes nothing and is left
out. All reads of a call are one step although a call makes several queries:
it decides on one row of each table, and each row it decides on is read once.
Line items have a positive total, of one unit. `overlaps` records which kinds
of calls have overlapped, so that properties can say what may not overlap.
`Init` starts in any status, with the timeline's latest entry: four calls then
reach every transition without six calls to get there.

`RequestLifecycle` is the abstract lifecycle: a request that exists is in one
of ten statuses and moves along `VALID_TRANSITIONS`.

### Notices

| Variable of `Notifications` | Code |
|---|---|
| `requests`, `templates` | the columns the jobs read, and what rendering a template does |
| `log` | `notification_log`; `tx` is the transaction that has yet to commit a row |
| `mails` | how often the SMTP server has accepted a mail for a row |
| `deliveries` | executions of `deliver_queued_notifications`: rows left, verdicts in memory |
| `checks` | executions of the two deadline checks: the event, its instant, requests left |

Each execution is one transaction. A delivery selects the queued rows
(`StartDelivery`), goes through them in order (`SkipRow`, `SendRow`) with its
verdicts in the session only, and commits them together (`CommitDelivery`); mails
have left by then, so a crash (`CrashDelivery`) leaves mailed rows queued.
`SendRow` has three outcomes: refused; accepted; accepted, but `quit()` in the
`finally` raises, and the row is marked failed. A deadline check selects due
requests, then looks for a recent notice of each and queues one
(`CheckRequest`); two recent notices make `scalar_one_or_none` raise, in which
case only `FailCheck` is left, as when a template is malformed. A check's rows
are visible to itself only until `CommitCheck`. `created_at` is the instant the
transaction began. A worker process runs one job at a time (`Idle`); two
processes stand for beat's executions that overlap. Rows take the smallest
free id: an id is a name, and this saves states.

`Outbox` is the abstract outbox: a notice is mailed only while it is queued,
marked sent only after a mail has left, and then left alone.

### First boot

| Variable of `FirstBoot` | Code |
|---|---|
| `account` | whether the first administrator exists, is marked `must_change_password`, or no administrator is left |
| `catalog`, `rows` | the systems catalog, and baseline rows with who inserted them |
| `boot` | where `lifespan` is in each process, with the keys of a dataset still to look for and the rows of its transaction |

`LookForUser` to `MarkAdmin` are `main.py`'s first account: the address is looked
up by the user manager, inserted in one transaction and marked in another.
`run_first_boot_seeds` has one transaction for each of three datasets:
`LookForRow` looks for a key, and fails the start if it has two rows
(`scalar_one_or_none`); `CommitDataset` inserts what was missing, and fails if
another process has inserted a notice's `event_type`, the only key that the
database keeps unique. `Stop` is a crash or an operator at any step; nothing
but an operator starts a process again, for the compose file has no restart
policy. `CreateRow` is an administrator's endpoint. `Init` is a new database or
any part of the baseline, as an earlier release can have left it.

### Disclosure

`StaffCalls` is what calls have in common: numbers in the order in which their
transactions begin, and `Written`, the columns that a commit names. `Exemptions`
is the flags of one request: a scan goes through the documents attached when it
began (`ScanDocument` reads the enabled rules for each), looks for a flag of
each match (`LookForFlag`, where two flags end the scan), and commits; a scan by
model then commits its suggestions on their own (`AskModel`,
`CommitSuggestions`). A review loads a flag and writes what differs. Rules and
attachments change at any time. What a review was told is kept in `verdicts`,
so that a flag can be compared with it.

`ResponseLetters` is the letters of one request. `BeginDraft` and `CommitDraft`
are the model's two minutes; `BeginLetterUpdate` loads a letter, and
`CommitLetterUpdate` writes the columns that differ with the timeline's entry.
A letter's rows are told apart by the numbers of the calls that made them.

### Intake

`ManualDrop` is a drop folder, runs of the task that may overlap, and staff who
put, replace and take back files at any time. A name's content is the number of
the version it holds. `ListFolder` is discovery; `Read`, `Ingest` and
`ArchiveFile` are the three parts of a turn, each with its failures; what is
moved is whatever has the name by then. The ingestion library flushes a document
or commits it, which cannot be told from `src/`, so `Ingest` may do either; a
failure may abort the transaction or not. `CommitDrop` ends the run, and
`AbandonDrop` is a failed commit or a worker that dies.

`Listing` is one `discover()` of a REST source, with the four pagination styles,
or of an ODBC source. `Items` is the page that the server gives for what is asked,
`NextPage` and `ListingEnds` are the loop, `RateLimited` and `TokenExpired` the
one repetition that each allows in `_make_request`, `AddRecord` and `RemoveRecord` the source
in the meantime. Keys are numbers, in the order of the list. `Intake` takes one
or the other by the type of the source, as `task_ingest_source` does.

### Office

`Accounts` is the table of users: the administrators' endpoints, the rotation of
the first password, and the user library's own routes, which are mounted for
superusers without the guards of `admin/router.py`. `MayAdminister` is the
dependency that every endpoint takes. An update is three steps, with the caller's
check (`BeginUpdateUser`), the load of the target with the checks on it
(`LoadTarget`) and the commit apart, for the code awaits between them. `CityProfile` is the form and the
interview: both look for a profile, and insert or write one later.
`VersionedTexts` is the exemption rules and disclosure templates: what may be
changed, and when the version is raised. What else an update may change than the
text that a rule or template is for stands in one column, `label`. `Office`
composes the three: only those who may administer when they call can change the
profile, a rule or a template.

## 4. Runs

Each `MC...` module names the model values and symmetry sets of its component.

| Run | Question | Bounds | Answer |
|---|---|---|---|
| `SyncSerial` | With executions that take turns: is the breaker implemented, is the retry limit kept, does the retry queue empty? | 1 execution, 1 record with up to 2 rows, batches of 1, thresholds 2 and 1, retry limit 2 | yes; the queue unless the breaker pauses the source, once the source answers and nothing enters |
| `SyncOverlap` | What do two overlapping runs keep? | 2 executions, 1 record with 1 row, thresholds 1, retry limit 2 | no record is lost, no row given up before its time, no false "healthy" |
| `SyncRetries` | Do overlapping runs keep the retry limit? | as `SyncOverlap`, thresholds 5 and 2 | no |
| `AuditChain` | Is the log one chain, and does verification tell? | 2 writers, 4 entries, pages of 2, retention 1 tick, 3 instants | yes, unless writes overlap |
| `AuditFork` | Does each row hash the previous one? | 2 writers, 2 entries | no |
| `Requests` | What do two calls at a time keep? | 2 workers, 1 document, 4 calls | lifecycle, timeline, estimate, attachments and waivers, unless calls of one kind overlap |
| `Notices` | What do deliveries and deadline checks keep? | 2 workers, 1 request, 2 rows, 2 days, 1 change by staff, 1 crash | sent rows were mailed; no second mail but after a crash, no second notice of a day, unless a job overlaps with itself |
| `Boot` | What do starts leave, whatever stops them? | 2 processes, 2 rules, 2 letters of which one has no file, 1 notice, 1 row of an administrator, 2 stops | the whole baseline, once unless two starts overlap |
| `BootRepeated` | Are repeated startups safe? | 1 process, 1 row of an administrator, 1 stop | no |
| `Disclosure` | What do scans, reviews and updates of letters keep that overlap? | 2 workers, 1 document, 2 rules, 3 calls | one flag per match, whole decisions, recorded approvals, unless calls of one kind overlap on a row |
| `Intake` | Is what is archived indexed, and what is there listed? | 2 names, 2 runs, 3 versions; 5 keys, pages of 2, cap of 3 | yes, but for runs that fail after a move and files replaced under a run; and while positions hold |
| `Office` | Is an administrator left, one true profile, and one text for a version? | 2 people, 2 fields, 2 answers, 1 rule, 1 template, 2 texts, 2 workers, 3 calls | yes, unless calls of one kind overlap |

Why the bounds are enough. Two executions, writers or workers show every
pairwise overlap, and no handler waits for more than one other. One record
suffices for the sync properties, which are all about one record or about the
source; up to two rows of it, one more than a batch, give duplicates and a row
left for the next run. A retry limit of two has a failed retry that leaves the
row in `retrying` and one that ends it. Thresholds of two and one separate
counting, opening and the grace period; where the count does not matter they are
one.
Four audit entries with pages of two give a first, an inner and a last row on
each side of a page boundary, and the clock lets the retention job split the
chain. Four calls let two overlap, then two more act on what they left. For
notices a tick is a day, so a deadline approaches on the first and is overdue
on the second; one event's template is for e-mail and the other's in-app; two
rows and two processes let each job overlap with itself and with the other.
For starts, a dataset with two keys has a state between its keys, one with a
key that has no file has one that is skipped, and two stops give a start that is
stopped, its successor, and a third. For disclosure, three calls are two that
overlap and one that meets what they left; a rule that can be disabled stands
beside one that cannot. Five keys in pages of two give a first, an inner and a
short last page, and a cap of three cuts a page in two; three versions let a file
be replaced twice. Two administrators are the fewest who can demote one another;
the profile is told by two fields whether it is empty, begun or complete.

Deadlock is checked except where a run ends by design: `Requests` and `Office` when the calls are used up,
`Boot` and `BootRepeated` in a server that is up and has nothing left to do.

Bounds appear in guards and are named `Max...`: rows per record, queue length,
counted failures, ids, time, calls, changes, crashes. They cut histories short; they remove no
interleaving within them.

Fairness is assumed only in `ScheduledSpec`, used by `SyncSerial`. `Scheduling`
says that beat keeps ticking (`scheduler.py:8`), that a task that was started
goes on until it ends or is cut short, and that layer 2 reaches the first row of
its batch, for its time limit is checked before each row and has only begun
(strong fairness, because a run that is cut short begins again). It leaves every
step of the system in: crashes, a `discover()` that raises, administrators.

What the code does *not* guarantee stands in the property `RetryingSettles`
itself, as hypotheses about a behaviour from some time on: the source
authenticates, `discover()` answers and no worker dies (`SourceWorks`), and no
row enters `retrying`, by a new failure or by an administrator (`NoneEnters`).
Without the first, each run rolls its retries back and does not lengthen the
streak, so that neither the retry limit nor the breaker ends it. Without the
second, the SELECT, which has a LIMIT and no ORDER BY, may pass a row over for as
long as others keep coming. Under both, and with administrators, the clock and
the choice of the batch left free, the queue empties or the breaker pauses the
source.

### What the code does not keep

- Overlapping audit writes fork the chain (`AuditFork`; `USER-MANUAL.md:1057`),
  and verification then fails for ever.
- Repeated startups are not safe (`BootRepeated`; `seed/first_boot.py:228`): once
  an administrator has created a second rule with the key of a baseline rule,
  which nothing refuses, `scalar_one_or_none` raises and the API does not start
  again. The trace is one start, the administrator's row, and the next start.
- Overlapping runs exceed the retry limit (`SyncRetries`; `USER-MANUAL.md:1108`):
  a run that selected a row while a retry was left fetches its record after
  another run has committed the last retry allowed, and writes the count it has
  read plus one. Beat triggers a source every five minutes, however long its last
  run takes, so runs of a slow source do overlap.

No run is spent on these, each a short history of the models:

- A dismissed record is ingested by the next sync (`USER-MANUAL.md:703`); a dead
  letter put back to retrying keeps its counter and is given up again without
  being fetched (`USER-MANUAL.md:1184`); a run whose `discover()` raises does not
  count as failed (`docs/UNIFIED-SPEC.md:927`), so that a source whose discovery
  keeps failing is never paused and its rows stay in `retrying`, their retries
  made and rolled back by each run.
- An archive file is replaced by a later one of the same days
  (`ingestion/scheduler.py:84`, `:133`).
- The second fee of a request cannot be added, for a Decimal and a float do not
  add (`requests/router.py:723`, `docs/UNIFIED-SPEC.md:382`).
- A letter can be sent from "draft", and edited after it was approved, although
  `requests/router.py:914` says that letters are reviewed and approved first.
- A superuser, which only the first administrator is, can deactivate or delete the
  own account through the library's `/users/{id}`, which the guard of
  `admin/router.py` (`docs/UNIFIED-SPEC.md:662`) does not cover. A deployment
  without an administrator stays so: a start creates one only if there is no user.

Excluded by the hypotheses of the properties:

- Sync: overlapping runs lose an increment of the failure count, and a run that
  began before an unpause overwrites the grace period (so `ThresholdEnforced` is
  about turns); a rediscovered failing record gets a second active row; a run
  that finds nothing does not set `last_sync_at` and is triggered again at the
  next tick.
- Audit: a clean-up between two pages of a verification makes it report a break.
- Requests: a status call that read a request before another closed it writes its
  own status over "closed", which `requests/router.py:57` calls terminal, and of
  two that overlap the one that began first may commit last, so that the latest
  timeline entry does not name the status; first fees added at once are both
  inserted, and each call writes a total without the other's;
  overlapping `attach_document` calls insert two rows, after which attaching and
  removing that document fail with `MultipleResultsFound`; denying a waiver that
  was approved leaves `fee_status` waived.
- Notices: overlapping deliveries mail a notice twice and the later commit decides
  its status; overlapping deadline checks leave two recent notices of a request,
  and every check of that event fails until they are a day old; a mail that
  failed is not tried again, and its row still counts as a notice given.
- First boot: overlapping starts insert a baseline row or the catalog twice, and
  later starts may fail over it; a process that stops between the two commits of
  the first account (`main.py:74`) leaves its initial password unmarked, which no
  later start repairs (`README.md:199`).
- Disclosure: overlapping scans insert a flag twice, after which every scan of the
  request fails; overlapping reviews of one flag can leave the status of one
  with the reason of the other; of overlapping approvals of one letter the name
  may be that of the earlier entry on the timeline; what the model suggests is not compared with the
  flags there are.
- Intake: a run that fails after it has moved a file leaves it archived and not
  indexed, and so does a file that replaces one that a run has just read. A
  record that goes while a list is read by positions shifts the rest, and one is
  missed; a server that gives shorter pages than asked ends the listing early
  (`connectors/rest_api.py:267`); one that always gives another cursor never does.
- Office: two administrators who demote each other at once leave none; two calls
  that find no profile insert two, and each later call takes any. The form
  declares a profile complete whatever is left out and an edit does not compute
  the status again, so the interview's next answer can lower it; an answer other
  than the city's name is dropped as long as there is no profile. Two updates of
  one rule or template at once give one version to two texts.

## 5. Properties

Each has a mutant, a plausible bug under which TLC finds it violated. Beyond
types:

- Sync: `ResolvedIsIngested`, `ProcessedIsAccounted`, `RetryBudget`,
  `GivenUpWhenSpent`, `HealthyMeansComplete`, `ThresholdEnforced`,
  `CircuitImplemented` (refinement), `RetryingSettles` (liveness).
- Audit: `ChainLinked`, `IntactVerifies`, `RemovalDetected`, `NoFalseAlarm`,
  `DeletionsJustified`.
- Requests: `LifecycleKept`, `TimelineTellsStatus`, `FeesAddUp`, `AttachedOnce`,
  `WaivedUntilFee`.
- Notices: `SentWasMailed`, `MailedOnce`, `ToldOnce`, `NoticeWasDue`,
  `OutboxKept` (every step is one of `Outbox` until deliveries overlap).
- First boot: `SeededOnce`, `BaselineComplete`, `FailuresExplained`.
- Disclosure: `FlaggedOnce`, `DecisionIsWhole`, `ApprovalIsRecorded`.
- Intake: `ArchivedHasDocument`, `ListingComplete`.
- Office: `AdministratorRemains`, `OneProfile`, `OnboardingTold`, `VersionTellsText`.

`BaselineComplete` holds for starts that overlap too: a process is up only after
it has looked for every key itself.

## 6. Proofs

All theorems are checked by TLAPS from the named assumptions on constants
(`SyncAssumption`, `ThresholdAssumption`, `AuditAssumption`, `WorkflowAssumption`,
`NoticeAssumption`, `BootAssumption`, `CallsAssumption`, `ExemptionsAssumption`,
`LettersAssumption`, `DropAssumption`, `ListingAssumption`, `AccountsAssumption`,
`ProfileAssumption`, `TextsAssumption`) and no others; they hold for any number of runs, records,
writers, workers, processes, documents, rules, people, rows and calls, and for
every bound.

`SyncRunnerProofs`. `TypeCorrect` is inductive by itself. `ResolvedHolds`,
`AccountedHolds` and `HealthyHidesNothing` follow from
`IInv == TypeOK /\ ResolvedIsIngested /\ ProcessedIsAccounted`.
`Implementation` shows that `SerialSpec` implements `CircuitBreaker`; it needs
that a run alone finds the source as it read it. `ThresholdHolds` follows from
the refinement.

The retry limit has two halves. `GivenUpHolds`, not before its time, is about
`Spec`: the counter in the table and each run's copy of it are at most the failed
retries made (`CountsBehind`, `CopiesBehind`), since overlapping runs can only
lose an increment, and a row marked to be given up was seen at the limit or has
expired. `RetryBudgetHolds`, not beyond it, is about `SerialSpec`: at most one run
is in progress (`OneRun`), it holds of every row that it has selected the count
that the table has (`FreshCounts`), which is the number of failed retries
(`ExactCounts`), and it fetches only below the limit (`FetchedInBudget`).
Administrators may change a row's status meanwhile, and runs may die.

`AuditLogProofs`. `AuditInv == TypeOK /\ Sequenced /\ CleanupReady /\ OneChain`.
`ChainLinked` is not inductive: `Sequenced` says that ids and timestamps not yet
used are greater than those in the table, `OneChain` that the one open writer,
if writes have not overlapped, holds the last row or knows that it was deleted,
and that no id is there twice, and `CleanupReady` that between the archive and
the delete every row older than the cutoff is in the file, although rows are
inserted meanwhile: this is where it matters that a write spans less than the
retention period.

What `verify_chain` says is proved from there. In such a table the order by
timestamp, then id, is the order by id (`BeforeIsById`); the rank of a row, which
is a cardinality, grows by one from row to row (`RankNext`), so that a page is an
interval that begins after its `last_id` and is not empty while a row is left
(`PageIs`, `FinalIdIs`). `VerifyChain` is a function defined by itself, and
`VerdictIs` shows that there is one: a position is good when it lies in a set of
positions whose pages are intact and lead to one another. `IntactHolds` looks at
the greatest position from which the rest is rejected: its page is intact
(`ChainPage`) and the next page begins later, so there is none. `RemovalHolds`
looks, with a row taken out, at the greatest position before that row from which
the rest is accepted: either the page from there holds the row after it, which
is chained to an id that is not on the page, or it ends before, and a later
position is accepted too; it uses that the first row of a page is compared with
the last of the one before. `NoFalseAlarmHolds` needs `CheckInv`: unless writes
overlapped or rows were deleted, the check has not failed and goes on from a row
that is there. Newer rows may be written between its pages.

`RequestWorkflowProofs`. `WorkflowInv` adds to the types: calls are numbered in
order (`Numbered`), the one status call in progress may still make its
transition and began after every entry (`StatusInTurn`), nothing happens before
creation (`CreatedFirst`), the one add_fee call in progress has read the
present total (`FeesInTurn`), and the one attach call in progress has seen that
the document is not attached, and it is not (`AttachInTurn`).
`LifecycleImplementation` is the refinement of `RequestLifecycle` by `SerialSpec`.

`NotificationsProofs`. `NoticeInv` adds to the types and the properties: an
unused id has an empty row, and a row not yet committed belongs to a check in
progress and was not mailed (`Rows`); what a delivery holds is committed, and
judged sent only after it was mailed (`Held`); one delivery is in progress at
most unless some overlapped, it finds its rows still queued, and a row it has
not judged was mailed no more often than deliveries have died (`Turns`); one
check of an event is in progress at most unless some overlapped (`CheckTurns`);
and the requests a check has yet to look at were open when it began (`StillDue`).
`OutboxHolds` is the refinement step by step; `OutboxImplementation` says that
`SerialSpec` implements `Outbox`.

`FirstBootProofs`. `BootInv` adds to the types and the three properties: how far
a process can be with and without an account (`Accounted`); one start at a time
unless some overlapped (`InTurn`), which finds still missing what it has seen to
be missing (`SeenStillTrue`); and, whatever overlapped, a start in the middle of
the baseline has, is about to insert, or will still look for every key
(`Covered`), from which `BaselineComplete` follows when the last dataset commits.

`DisclosureProofs`. `FlagInv` and `LetterInv` are kept by the steps of their own
component and trivially by the other's. A scan's number is its own, and no flag
bears it before it commits (`ScanNumbers`, `ScanFresh`); before it asks the model
it holds matches of rules only (`ScanWork`); and the one scan that looks for
flags finds still missing what it will insert (`ScansInTurn`). A review in
progress holds its verdict (`ReviewsSay`), and the one review of a flag sees it
as it read it (`ReviewsInTurn`): only then does writing the columns that differ
write the whole verdict. `ApproversKept` and `UpdatesInTurn` do the same for
letters, with the numbers of calls in the order of approvals.

`IntakeProofs`. `DropInv` says that what a run has read is under its name still,
or staff have been there since (`ReadIsThere`), and that what it has indexed is
committed or about to be (`IndexedIsCovered`).

`ListInv` is about a listing in progress whose positions have kept their meaning
(`InStep`): the records counted are those found, and
fewer than the cap (`Counted`); with pages by number or offset they are the
records in the first `Position` places of the source, without the rows that are
too large, and with a cursor they are all that were there up to it (`InPlace`). It
rests on lemmas about a finite set of numbers: the place of a member is the
number of smaller ones, every place is taken (`PlaceTaken`), a slice is as long as
asked unless the set ends (`SliceLength`), it extends the one before
(`SliceExtended`), and a number added at the end leaves the earlier ones alone
(`SliceAppended`). `ItemsAhead` puts the server's answers, for all five kinds of
source, in these terms. That keys are finitely many and
above 0, which stands for a cursor not yet given, is in `ListingAssumption`.

`OfficeProofs`. `AccountInv` needs that the one update in progress sees its
target as it is, once it has loaded it, and that its caller, who is not its target
if it demotes anyone, is an administrator still from the check on (`InTurn`); `ProfileInv` that the one call that found no
profile finds none when it commits, and that a call alone sees the row as it is;
`TextInv` that an item's row is in its history, which has no later version, and
that the one update of it in progress sees it as it is.

Induction over records, rows or pages, which the provers cannot do, is replaced by
counting (`PlaceTaken` is a pigeonhole argument) or by the choice of a greatest
counterexample, which a bounded set of numbers has (`GreatestNatural`, from the
well-foundedness of strict inclusion).

Only model-checked: `RetryingSettles`, which is liveness under fairness. Of the
properties that runs refute, theorems say what remains: `ChainHolds` without
overlapping writes for `EachRowHashesPrevious`, `FailuresExplainedHolds` for why a
start fails, and `RetryBudgetHolds` for runs that take turns.

## 7. Not modelled

- Sync: the run log; PATCH of a source, of which `is_active` and
  `schedule_enabled` gate the tick.
- Files: mail and file-system sources, uploads and re-ingestion. What becomes of
  a document is decided in the ingestion library, which is not in the repository;
  `src/` only creates the row and queues the task (a re-ingestion commits
  "pending" before it queues, `datasources/router.py:216`, so that a broker that
  is down leaves it so, and only a "failed" document can be ingested again). Of a drop folder: names in the archive, where two files
  of one name and second overwrite each other (`connectors/manual_drop.py:185`);
  a file that is read while it is still being copied (`:149`). By default files
  are moved, where `USER-MANUAL.md:594` says that they are left in place. A document
  of the model is a row, and `ArchivedHasDocument` says no more than that there is
  one: a row whose processing the library has marked as failed is still a document,
  and its file is archived (`ingestion/tasks.py:181`).
- Requests: timeline notes, messages and the document cache, which are only
  appended; the audit entry that a crash separates from its change (a call's
  second transaction).
- Notices: of a paused or recovered source, for `notify_circuit_open` imports a
  function that does not exist and no notice is ever queued; rendering; creation
  of templates other than their keys; an SMTP server that is not configured, or
  does not answer (`smtplib.SMTP` is called without a timeout, so that nothing is
  claimed about when a notice is delivered).
- Exemptions: the patterns of the rules, rendering of disclosure templates,
  dashboards and accuracy reports, which only read.
- Sessions: tokens. Those of the suite's launcher are checked as the
  application's own are. Their revocations are kept in each process and in a file
  (`auth/suite_session.py`) as a stand-in for a library module, and no code of the
  application revokes one: only tests do.
- Boot: that it ends, since nothing restarts a process.
- Service accounts, departments and the catalog, where constraints of the
  database keep what matters; search, the public portal, documents and analytics,
  which read or append; the language model's client, configuration and security
  shims, which have no state; changes made to the database behind the
  application; the frontend, the installers, migrations, document generators and
  seed data.

Most lines of the implementation are of the last kind (generators of PDF and DOCX
files, data of rules, scripts, tests' tools and the client), which is why the
mapped share of all lines stays small while the backend's stateful parts are
mapped nearly throughout.
