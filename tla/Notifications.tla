----------------------------- MODULE Notifications -----------------------------
(***************************************************************************)
(* The outbox notification_log, the job that mails it every minute, and    *)
(* the daily jobs that queue notices of deadlines.  Nothing keeps two      *)
(* executions of a job apart: one that takes longer than its period, or a  *)
(* worker that finds several messages after an outage, overlaps with the   *)
(* next.  Each execution is one transaction with one commit at its end;    *)
(* mails leave before it.                                                  *)
(*                                                                         *)
(* Dedup stands for DEDUP_HOURS and Approaching for                        *)
(* APPROACHING_WINDOW_DAYS, in ticks.  SMTP is configured.  Requests are   *)
(* closed once: calls on one request take turns.  The notices that the     *)
(* calls of RequestWorkflow queue are delivered like those of the checks.  *)
(***************************************************************************)
EXTENDS Integers

CONSTANTS
  Requests,     \* records requests
  Workers,      \* processes of the Celery worker, each executing one job at a time
  InApp,        \* events whose template has the channel in_app
  Dedup,        \* a notice younger than this is not repeated
  Approaching,  \* how far ahead a deadline is announced
  MaxRows,      \* bound: rows of notification_log
  MaxTime,      \* bound: clock
  MaxChanges,   \* bound: changes staff make to requests and templates
  MaxCrashes    \* bound: deliveries that die

Events == {"approaching", "overdue"}
Number == 1 .. MaxRows
Time   == 1 .. MaxTime

ASSUME NoticeAssumption ==
  /\ InApp \subseteq Events
  /\ Dedup \in Nat /\ Approaching \in Nat
  /\ MaxRows \in Nat /\ MaxTime \in Nat \ {0} /\ MaxChanges \in Nat /\ MaxCrashes \in Nat
  /\ "none" \notin Requests /\ "none" \notin Workers

VARIABLES
  now,         \* clock
  requests,    \* statutory_deadline, assigned_to and closed_at (0: NULL) of each
  templates,   \* what queue_notification makes of each event's template
  log,         \* notification_log, with the transaction that has yet to commit a row
  mails,       \* mails that left for each row
  deliveries,  \* executions of deliver_notifications
  checks,      \* executions of the deadline checks
  changes,     \* number of changes by staff
  crashes,     \* number of deliveries that died
  overlaps     \* auxiliary: jobs that have overlapped with themselves

vars == <<now, requests, templates, log, mails, deliveries, checks, changes, crashes, overlaps>>

\* A template may render, render to an empty subject or body, name a key that is
\* missing, be malformed (format raises something else), or be inactive.
Template == {"renders", "empty", "missing_key", "malformed", "inactive"}

Request == [deadline : Time, assigned : BOOLEAN, closed_at : {0} \cup Time]

Row == [status : {"absent", "queued", "sent", "failed"}, request : Requests \cup {"none"},
        event : Events, empty : BOOLEAN, created_at : {0} \cup Time,
        tx : Workers \cup {"none"}]

NoRow == [status |-> "absent", request |-> "none", event |-> "overdue", empty |-> FALSE,
          created_at |-> 0, tx |-> "none"]

Delivery == [running : BOOLEAN, todo : SUBSET Number,
             verdict : [Number -> {"none", "sent", "failed"}]]

Resting == [running |-> FALSE, todo |-> {}, verdict |-> [n \in Number |-> "none"]]

Check == [event : Events \cup {"none"}, began : {0} \cup Time, todo : SUBSET Requests]

NoCheck == [event |-> "none", began |-> 0, todo |-> {}]

\* Requests are open; the templates are the seeded ones.
Init ==
  /\ now = 1
  /\ requests \in [Requests -> [deadline : Time, assigned : BOOLEAN, closed_at : {0}]]
  /\ templates = [e \in Events |-> "renders"]
  /\ log = [n \in Number |-> NoRow]
  /\ mails = [n \in Number |-> 0]
  /\ deliveries = [w \in Workers |-> Resting]
  /\ checks = [w \in Workers |-> NoCheck]
  /\ changes = 0
  /\ crashes = 0
  /\ overlaps = {}

-------------------------------------------------------------------------------
(* queue_notification                                                        *)

Committed(n) == log[n].status # "absent" /\ log[n].tx = "none"

\* The row the template of event gives; a malformed template raises.
Rendered(event, request, created, tx) ==
  [status     |-> IF templates[event] = "missing_key" THEN "failed" ELSE "queued",
   request    |-> request,
   event      |-> event,
   empty      |-> templates[event] = "empty",
   created_at |-> created,
   tx         |-> tx]

QueueNotification(event, request, created, tx) ==
  /\ templates[event] # "malformed"
  /\ IF templates[event] = "inactive" THEN UNCHANGED log
     ELSE \E n \in Number :
            /\ log[n] = NoRow
            /\ \A m \in 1 .. n - 1 : log[m] # NoRow
            /\ log' = [log EXCEPT ![n] = Rendered(event, request, created, tx)]

-------------------------------------------------------------------------------
(* Staff and time                                                            *)

Change == changes < MaxChanges /\ changes' = changes + 1

\* PATCH of a request: fulfilled or closed, assigned, or given another deadline.
UpdateRequest(r) ==
  /\ Change
  /\ \/ requests[r].closed_at = 0 /\ requests' = [requests EXCEPT ![r].closed_at = now]
     \/ requests' = [requests EXCEPT ![r].assigned = TRUE]
     \/ \E t \in Time : requests' = [requests EXCEPT ![r].deadline = t]
  /\ UNCHANGED <<now, templates, log, mails, deliveries, checks, crashes, overlaps>>

UpdateTemplate(event) ==
  /\ Change
  /\ \E t \in Template : templates' = [templates EXCEPT ![event] = t]
  /\ UNCHANGED <<now, requests, log, mails, deliveries, checks, crashes, overlaps>>

Tick ==
  /\ now < MaxTime
  /\ now' = now + 1
  /\ UNCHANGED <<requests, templates, log, mails, deliveries, checks, changes, crashes, overlaps>>

Idle(w) == ~deliveries[w].running /\ checks[w] = NoCheck

-------------------------------------------------------------------------------
(* deliver_queued_notifications                                              *)

\* Mutant: mails that failed are tried again.
QueuedOrFailed ==
  {n \in Number : Committed(n) /\ log[n].status \in {"queued", "failed"} /\ log[n].event \notin InApp}

Queued == {n \in Number : Committed(n) /\ log[n].status = "queued" /\ log[n].event \notin InApp}

\* A delivery that finds nothing does nothing, and is left out.
StartDelivery(w) ==
  /\ Idle(w)
  /\ Queued # {}
  /\ deliveries' = [deliveries EXCEPT ![w] = [Resting EXCEPT !.running = TRUE, !.todo = Queued]]
  /\ overlaps' = IF \E v \in Workers : deliveries[v].running
                 THEN overlaps \cup {"delivery"} ELSE overlaps
  /\ UNCHANGED <<now, requests, templates, log, mails, checks, changes, crashes>>

\* Rows are taken in the order they were created in.
NextRow(w, n) ==
  /\ n \in deliveries[w].todo
  /\ \A m \in deliveries[w].todo : log[n].created_at <= log[m].created_at

Judge(w, n, verdict) ==
  deliveries' = [deliveries EXCEPT ![w] =
    [running |-> TRUE,
     todo    |-> deliveries[w].todo \ {n},
     verdict |-> [deliveries[w].verdict EXCEPT ![n] = verdict]]]

\* A row without subject or body is not mailed.
SkipRow(w, n) ==
  /\ NextRow(w, n)
  /\ log[n].empty
  /\ Judge(w, n, "failed")
  /\ UNCHANGED <<now, requests, templates, log, mails, checks, changes, crashes, overlaps>>

\* Mutant: the row is marked before the mail is sent, and an error leaves it so.
SendMarked(w, n) ==
  /\ NextRow(w, n)
  /\ ~log[n].empty
  /\ Judge(w, n, "sent")
  /\ mails' \in {mails, [mails EXCEPT ![n] = @ + 1]}
  /\ UNCHANGED <<now, requests, templates, log, checks, changes, crashes, overlaps>>

\* The server may refuse the mail, or accept it and fail when it is told to quit.
SendRow(w, n) ==
  /\ NextRow(w, n)
  /\ ~log[n].empty
  /\ \/ Judge(w, n, "failed") /\ UNCHANGED mails
     \/ \E verdict \in {"sent", "failed"} :
          Judge(w, n, verdict) /\ mails' = [mails EXCEPT ![n] = @ + 1]
  /\ UNCHANGED <<now, requests, templates, log, checks, changes, crashes, overlaps>>

\* Mutant: the delivery's session is closed without a commit.
EndUncommitted(w) ==
  /\ deliveries[w].running /\ deliveries[w].todo = {}
  /\ deliveries' = [deliveries EXCEPT ![w] = Resting]
  /\ UNCHANGED <<now, requests, templates, log, mails, checks, changes, crashes, overlaps>>

\* Mutant: every row is written, whether or not the delivery selected it.
CommitEveryRow(w) ==
  /\ deliveries[w].running /\ deliveries[w].todo = {}
  /\ log' = [n \in Number |-> [log[n] EXCEPT !.status = deliveries[w].verdict[n]]]
  /\ deliveries' = [deliveries EXCEPT ![w] = Resting]
  /\ UNCHANGED <<now, requests, templates, mails, checks, changes, crashes, overlaps>>

CommitDelivery(w) ==
  /\ deliveries[w].running /\ deliveries[w].todo = {}
  /\ log' = [n \in Number |->
               IF deliveries[w].verdict[n] = "none" THEN log[n]
               ELSE [log[n] EXCEPT !.status = deliveries[w].verdict[n]]]
  /\ deliveries' = [deliveries EXCEPT ![w] = Resting]
  /\ UNCHANGED <<now, requests, templates, mails, checks, changes, crashes, overlaps>>

\* A worker dies, or the commit fails: what has been mailed stays queued.
CrashDelivery(w) ==
  /\ deliveries[w].running
  /\ crashes < MaxCrashes
  /\ crashes' = crashes + 1
  /\ deliveries' = [deliveries EXCEPT ![w] = Resting]
  /\ UNCHANGED <<now, requests, templates, log, mails, checks, changes, overlaps>>

-------------------------------------------------------------------------------
(* check_deadline_approaching and check_deadline_overdue                     *)

\* Mutant: closed requests are told of their deadlines too.
DueOpenOrClosed(event, r) ==
  /\ requests[r].assigned
  /\ IF event = "overdue" THEN requests[r].deadline <= now
     ELSE now < requests[r].deadline /\ requests[r].deadline <= now + Approaching

Due(event, r) ==
  /\ requests[r].assigned
  /\ requests[r].closed_at = 0
  /\ IF event = "overdue" THEN requests[r].deadline <= now
     ELSE now < requests[r].deadline /\ requests[r].deadline <= now + Approaching

\* A check sees committed rows and those of its own transaction.
Seen(w, n) == log[n].status # "absent" /\ log[n].tx \in {"none", w}

StartCheck(w, event) ==
  /\ Idle(w)
  /\ checks' = [checks EXCEPT ![w] =
       [event |-> event, began |-> now, todo |-> {r \in Requests : Due(event, r)}]]
  /\ overlaps' = IF \E v \in Workers : checks[v].event = event
                 THEN overlaps \cup {event} ELSE overlaps
  /\ UNCHANGED <<now, requests, templates, log, mails, deliveries, changes, crashes>>

\* Mutant: only notices that have been sent count.
AlreadySent(w, r) ==
  {n \in Number : /\ Seen(w, n) /\ log[n].status = "sent"
                  /\ log[n].request = r /\ log[n].event = checks[w].event
                  /\ log[n].created_at >= now - Dedup}

AlreadyNotified(w, r) ==
  {n \in Number : /\ Seen(w, n)
                  /\ log[n].request = r /\ log[n].event = checks[w].event
                  /\ log[n].created_at >= now - Dedup}

\* scalar_one_or_none: with two such notices the check fails.
CheckRequest(w, r) ==
  /\ checks[w].event # "none"
  /\ r \in checks[w].todo
  /\ \/ \E n \in Number : AlreadyNotified(w, r) = {n} /\ UNCHANGED log
     \/ /\ AlreadyNotified(w, r) = {}
        /\ QueueNotification(checks[w].event, r, checks[w].began, w)
  /\ checks' = [checks EXCEPT ![w].todo = @ \ {r}]
  /\ UNCHANGED <<now, requests, templates, mails, deliveries, changes, crashes, overlaps>>

CommitCheck(w) ==
  /\ checks[w].event # "none" /\ checks[w].todo = {}
  /\ log' = [n \in Number |-> IF log[n].tx = w THEN [log[n] EXCEPT !.tx = "none"] ELSE log[n]]
  /\ checks' = [checks EXCEPT ![w] = NoCheck]
  /\ UNCHANGED <<now, requests, templates, mails, deliveries, changes, crashes, overlaps>>

\* An exception or a crash: no request is told, whichever it was met at.
FailCheck(w) ==
  /\ checks[w].event # "none"
  /\ log' = [n \in Number |-> IF log[n].tx = w THEN NoRow ELSE log[n]]
  /\ checks' = [checks EXCEPT ![w] = NoCheck]
  /\ UNCHANGED <<now, requests, templates, mails, deliveries, changes, crashes, overlaps>>

-------------------------------------------------------------------------------

Next ==
  \/ \E r \in Requests : UpdateRequest(r)
  \/ \E event \in Events : UpdateTemplate(event)
  \/ Tick
  \/ \E w \in Workers :
       \/ StartDelivery(w)
       \/ \E n \in Number : SkipRow(w, n) \/ SendRow(w, n)
       \/ CommitDelivery(w)
       \/ CrashDelivery(w)
  \/ \E w \in Workers :
       \/ \E event \in Events : StartCheck(w, event)
       \/ \E r \in Requests : CheckRequest(w, r)
       \/ CommitCheck(w)
       \/ FailCheck(w)

Spec == Init /\ [][Next]_vars

\* Deliveries that take turns; checks overlap as they like.
SerialSpec == Init /\ [][Next /\ "delivery" \notin overlaps']_vars

-------------------------------------------------------------------------------
(* Properties *)

\* Every variable has its type.
TypeOK ==
  /\ now \in Time
  /\ requests \in [Requests -> Request]
  /\ templates \in [Events -> Template]
  /\ log \in [Number -> Row]
  /\ mails \in [Number -> Nat]
  /\ deliveries \in [Workers -> Delivery]
  /\ checks \in [Workers -> Check]
  /\ changes \in 0 .. MaxChanges
  /\ crashes \in 0 .. MaxCrashes
  /\ overlaps \in SUBSET (Events \cup {"delivery"})

O == INSTANCE Outbox WITH state <- [n \in Number |-> IF Committed(n) THEN log[n].status ELSE "absent"]

\* Deliveries that take turns keep the outbox's promise, whatever crashes and
\* whatever is queued meanwhile: a settled notice is not mailed again.
OutboxKept == [][("delivery" \notin overlaps') => (O!OutboxNext \/ UNCHANGED O!outbox)]_vars

\* A notice marked sent was mailed, overlapping deliveries and crashes or not.
SentWasMailed == \A n \in Number : log[n].status = "sent" => mails[n] > 0

\* Only a crash makes deliveries that take turns mail a notice again, and once.
MailedOnce == "delivery" \notin overlaps => \A n \in Number : mails[n] <= crashes + 1

Recent(r, event) ==
  {n \in Number : log[n].request = r /\ log[n].event = event /\ log[n].created_at >= now - Dedup}

\* Checks of one kind that take turns leave at most one recent notice of a
\* request, so that the next check does not fail on it.
ToldOnce ==
  \A event \in Events \ overlaps, r \in Requests :
    \A m, n \in Recent(r, event) : m = n

\* A notice of a deadline is about a request that was open when its check began.
NoticeWasDue ==
  \A n \in Number : log[n].request # "none" =>
    requests[log[n].request].closed_at \in {0} \cup log[n].created_at .. MaxTime
===============================================================================
