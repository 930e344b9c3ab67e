---------------------------- MODULE RequestWorkflow ----------------------------
(***************************************************************************)
(* One records request and the API calls that change it.  A call reads the *)
(* rows it needs, decides on what it read, and writes in one commit the    *)
(* columns it changed; nothing locks the request between the two.          *)
(*                                                                         *)
(* A call that is refused changes nothing and is not modelled.  Every call *)
(* ends by writing its audit entry in a second transaction: see AuditLog.  *)
(***************************************************************************)
EXTENDS Integers, FiniteSets

CONSTANTS
  Workers,    \* API calls that can be in progress at once
  Documents,  \* documents that can be attached
  HasEmail,   \* the requester gave an e-mail address
  MaxCalls    \* bound: calls made

ASSUME WorkflowAssumption == HasEmail \in BOOLEAN /\ MaxCalls \in Nat

VARIABLES
  status,     \* records_requests.status, "absent" before the request exists
  closed,     \* closed_at is set
  timeline,   \* status changes in request_timeline, by the call that made them
  notices,    \* notification_log rows, by the call that queued them
  attached,   \* request_documents rows of each document
  items,      \* fee_line_items rows, each with a total of one unit
  estimated,  \* estimated_fee
  feeStatus,  \* fee_status
  waivers,    \* fee_waivers rows, by the call that created them
  calls,      \* API calls in progress
  begun,      \* number of calls made
  overlaps    \* auxiliary: pairs of kinds of calls that have overlapped

vars == <<status, closed, timeline, notices, attached, items, estimated, feeStatus,
          waivers, calls, begun, overlaps>>

L == INSTANCE RequestLifecycle

Status == L!RequestStatus \cup {"absent"}
Number == 1 .. MaxCalls
\* created_at is the start of the transaction: entries are in the order of begun.
Event  == [call : Number \cup {0}, status : L!RequestStatus]
NoticeRow == [call : Number \cup {0}, status : L!RequestStatus, state : {"queued", "failed"}]
Kind   == {"create", "status", "attach", "remove", "fee", "waive", "review"}

\* target: the status written, or a waiver's verdict; seen: the value read of
\* the column the call computes on; row: the row it removes or reviews.
Call == [kind : Kind \cup {"none"}, number : Number \cup {0},
         target : L!RequestStatus \cup {"approved", "denied", "none"},
         doc : Documents \cup {"none"}, row : Number \cup {0},
         estimate : Nat, fees : {"none", "estimated", "waived"},
         waiver : {"absent", "pending", "approved", "denied"},
         created : BOOLEAN]

NoCall == [kind |-> "none", number |-> 0, target |-> "none", doc |-> "none", row |-> 0,
           estimate |-> 0, fees |-> "none", waiver |-> "absent", created |-> FALSE]

\* The request is picked up in any status earlier calls may have left it in,
\* with the latest entry of its timeline.
Init ==
  /\ status \in Status
  /\ closed = (status \in {"fulfilled", "closed"})
  /\ timeline = IF status \in {"absent", "received"} THEN {}
                ELSE {[call |-> 0, status |-> status]}
  /\ notices = {}
  /\ attached = [d \in Documents |-> {}]
  /\ items = 0
  /\ estimated = 0
  /\ feeStatus = "none"
  /\ waivers = [n \in Number |-> "absent"]
  /\ calls = [w \in Workers |-> NoCall]
  /\ begun = 0
  /\ overlaps = {}

-------------------------------------------------------------------------------
(* First half of a call: the reads and the checks made on them.              *)

rows == <<status, closed, timeline, notices, attached, items, estimated, feeStatus, waivers>>

\* Calls that have not committed their changes yet.
InProgress(w) == calls[w].kind # "none" /\ ~calls[w].created

Begin(w, call) ==
  /\ calls[w] = NoCall
  /\ begun < MaxCalls
  /\ begun' = begun + 1
  /\ calls' = [calls EXCEPT ![w] = [call EXCEPT !.number = begun + 1]]
  /\ overlaps' = overlaps \cup
       {{call.kind, calls[v].kind} : v \in {u \in Workers : InProgress(u)}}
  /\ UNCHANGED rows

\* POST / : every such call makes a request of its own.
BeginCreate(w) ==
  /\ status = "absent"
  /\ \A v \in Workers : calls[v].kind # "create"
  /\ Begin(w, [NoCall EXCEPT !.kind = "create"])

Found == status # "absent"

BeginStatus(w, to) == Begin(w, [NoCall EXCEPT !.kind = "status", !.target = to])

\* Mutant: the request is written whether or not the transition is
\* valid.
UpdateUnchecked(w) == \E to \in L!RequestStatus : Found /\ BeginStatus(w, to)

\* PATCH with a status
BeginUpdate(w) ==
  \E to \in L!RequestStatus :
    Found /\ to \in L!VALID_TRANSITIONS[status] /\ BeginStatus(w, to)

BeginSubmitForReview(w) ==
  status \in {"searching", "drafted"} /\ BeginStatus(w, "in_review")

BeginReadyForRelease(w) ==
  status = "in_review" /\ BeginStatus(w, "ready_for_release")

BeginApprove(w) ==
  status \in {"drafted", "ready_for_release"} /\ BeginStatus(w, "approved")

BeginReject(w) == status = "in_review" /\ BeginStatus(w, "drafted")

\* Mutant: the check for an attachment is left to the caller.
AttachUnchecked(w, d) == Found /\ Begin(w, [NoCall EXCEPT !.kind = "attach", !.doc = d])

\* Refused with 409 if the document is attached already.
BeginAttach(w, d) ==
  Found /\ attached[d] = {} /\ Begin(w, [NoCall EXCEPT !.kind = "attach", !.doc = d])

\* scalar_one_or_none: the call fails unless there is exactly one row.
BeginRemove(w, d) ==
  /\ Found
  /\ \E n \in Number :
       attached[d] = {n} /\ Begin(w, [NoCall EXCEPT !.kind = "remove", !.doc = d, !.row = n])

BeginAddFee(w) ==
  /\ Found
  /\ Begin(w, [NoCall EXCEPT !.kind = "fee", !.estimate = estimated, !.fees = feeStatus])

BeginRequestWaiver(w) == Found /\ Begin(w, [NoCall EXCEPT !.kind = "waive"])

\* A waiver can be reviewed any number of times.
BeginReviewWaiver(w) ==
  \E n \in Number, verdict \in {"approved", "denied"} :
    /\ Found /\ waivers[n] # "absent"
    /\ Begin(w, [NoCall EXCEPT !.kind = "review", !.row = n, !.target = verdict,
                               !.waiver = waivers[n], !.fees = feeStatus])

BeginCall(w) ==
  \/ BeginCreate(w)
  \/ BeginUpdate(w)
  \/ BeginSubmitForReview(w)
  \/ BeginReadyForRelease(w)
  \/ BeginApprove(w)
  \/ BeginReject(w)
  \/ \E d \in Documents : BeginAttach(w, d) \/ BeginRemove(w, d)
  \/ BeginAddFee(w)
  \/ BeginRequestWaiver(w)
  \/ BeginReviewWaiver(w)

-------------------------------------------------------------------------------
(* Second half: the commit.  Only columns that differ from the value read    *)
(* are written.                                                              *)

Written(old, read, new) == IF new = read THEN old ELSE new

\* Mutant: a notice refers to the next call.
NoticeAhead(call, s) ==
  {{[call |-> call + 1, status |-> s, state |-> state]} : state \in {"queued", "failed"}}

\* What queue_notification may add: a row, which has failed if its template
\* names a key it is not given, or none without an e-mail or active template.
Notice(call, s) ==
  {{}} \cup
  {{[call |-> call, status |-> s, state |-> state]} :
     state \in IF HasEmail THEN {"queued", "failed"} ELSE {}}

Pending(w, kind) == calls[w].kind = kind /\ ~calls[w].created

Ends(w) ==
  /\ calls' = [calls EXCEPT ![w] = NoCall]
  /\ UNCHANGED <<begun, overlaps>>

\* The request is committed before its notice is queued.
CommitCreate(w) ==
  /\ Pending(w, "create")
  /\ status' = "received"
  /\ calls' = [calls EXCEPT ![w].created = TRUE]
  /\ UNCHANGED <<closed, timeline, notices, attached, items, estimated, feeStatus, waivers,
                 begun, overlaps>>

\* The notice is committed with the audit entry.
NotifyReceived(w) ==
  /\ calls[w].created
  /\ \E added \in Notice(calls[w].number, "received") : notices' = notices \cup added
  /\ Ends(w)
  /\ UNCHANGED <<status, closed, timeline, attached, items, estimated, feeStatus, waivers>>

\* Mutant: entries are stamped when the call before it began.
StampedEarly(w) ==
  LET call == calls[w] IN
  /\ Pending(w, "status")
  /\ status' = call.target
  /\ closed' = (closed \/ call.target \in {"fulfilled", "closed"})
  /\ timeline' = timeline \cup {[call |-> 0, status |-> call.target]}
  /\ \E added \in Notice(call.number, call.target) : notices' = notices \cup added
  /\ Ends(w)
  /\ UNCHANGED <<attached, items, estimated, feeStatus, waivers>>

CommitStatus(w) ==
  LET call == calls[w] IN
  /\ Pending(w, "status")
  /\ status' = call.target
  /\ closed' = (closed \/ call.target \in {"fulfilled", "closed"})
  /\ timeline' = timeline \cup {[call |-> call.number, status |-> call.target]}
  /\ \E added \in Notice(call.number, call.target) : notices' = notices \cup added
  /\ Ends(w)
  /\ UNCHANGED <<attached, items, estimated, feeStatus, waivers>>

CommitAttach(w) ==
  /\ Pending(w, "attach")
  /\ attached' = [attached EXCEPT ![calls[w].doc] = @ \cup {calls[w].number}]
  /\ Ends(w)
  /\ UNCHANGED <<status, closed, timeline, notices, items, estimated, feeStatus, waivers>>

CommitRemove(w) ==
  /\ Pending(w, "remove")
  /\ attached' = [attached EXCEPT ![calls[w].doc] = @ \ {calls[w].row}]
  /\ Ends(w)
  /\ UNCHANGED <<status, closed, timeline, notices, items, estimated, feeStatus, waivers>>

\* Mutant: the line item is committed before the total is computed.
FeeItemFirst(w) ==
  /\ Pending(w, "fee")
  /\ items' = items + 1
  /\ estimated' = IF calls[w].estimate = 0 THEN 1 ELSE estimated
  /\ feeStatus' = Written(feeStatus, calls[w].fees, "estimated")
  /\ Ends(w)
  /\ UNCHANGED <<status, closed, timeline, notices, attached, waivers>>

\* The estimate is read as a Decimal and the line item's total is a float: their
\* sum raises TypeError, and the call aborts, unless the estimate is zero or
\* NULL.
CommitFee(w) ==
  /\ Pending(w, "fee")
  /\ calls[w].estimate = 0
  /\ items' = items + 1
  /\ estimated' = calls[w].estimate + 1
  /\ feeStatus' = Written(feeStatus, calls[w].fees, "estimated")
  /\ Ends(w)
  /\ UNCHANGED <<status, closed, timeline, notices, attached, waivers>>

CommitWaiver(w) ==
  /\ Pending(w, "waive")
  /\ waivers' = [waivers EXCEPT ![calls[w].number] = "pending"]
  /\ Ends(w)
  /\ UNCHANGED <<status, closed, timeline, notices, attached, items, estimated, feeStatus>>

\* Mutant: the whole row is written back, with the fee as it was read.
ReviewWholeRow(w) ==
  LET call == calls[w] IN
  /\ Pending(w, "review")
  /\ waivers' = [waivers EXCEPT ![call.row] = Written(@, call.waiver, call.target)]
  /\ feeStatus' = IF call.target = "approved" THEN "waived" ELSE call.fees
  /\ estimated' = call.estimate
  /\ Ends(w)
  /\ UNCHANGED <<status, closed, timeline, notices, attached, items>>

CommitReview(w) ==
  LET call == calls[w] IN
  /\ Pending(w, "review")
  /\ waivers' = [waivers EXCEPT ![call.row] = Written(@, call.waiver, call.target)]
  /\ feeStatus' = IF call.target = "approved" THEN Written(feeStatus, call.fees, "waived")
                  ELSE feeStatus
  /\ Ends(w)
  /\ UNCHANGED <<status, closed, timeline, notices, attached, items, estimated>>

\* An error or a crash: the open transaction is rolled back.
Abort(w) == calls[w].kind # "none" /\ Ends(w) /\ UNCHANGED rows

EndCall(w) ==
  \/ CommitCreate(w) \/ NotifyReceived(w)
  \/ CommitStatus(w)
  \/ CommitAttach(w) \/ CommitRemove(w)
  \/ CommitFee(w) \/ CommitWaiver(w) \/ CommitReview(w)
  \/ Abort(w)

Next == \E w \in Workers : BeginCall(w) \/ EndCall(w)

Spec == Init /\ [][Next]_vars

Overlapped(kind) == {kind} \in overlaps

\* Status calls that take turns; other calls overlap as they like.
SerialSpec == Init /\ [][Next /\ ~Overlapped("status")']_vars

-------------------------------------------------------------------------------
(* Properties *)

\* Every variable has its type.
TypeOK ==
  /\ status \in Status
  /\ closed \in BOOLEAN
  /\ timeline \in SUBSET Event
  /\ notices \in SUBSET NoticeRow
  /\ attached \in [Documents -> SUBSET Number]
  /\ items \in Nat
  /\ estimated \in Nat
  /\ feeStatus \in {"none", "estimated", "waived"}
  /\ waivers \in [Number -> {"absent", "pending", "approved", "denied"}]
  /\ calls \in [Workers -> Call]
  /\ begun \in 0 .. MaxCalls
  /\ overlaps \in SUBSET SUBSET Kind

\* As long as no two status calls overlap, every change of status is one the
\* lifecycle allows, whatever other calls are made meanwhile.
LifecycleKept ==
  [][~Overlapped("status") => status' = status \/ L!CanBecome(status, status')]_vars

\* Status calls that take turns implement the lifecycle.
LifecycleImplemented == L!LifecycleSpec

LatestStatus ==
  IF timeline = {} THEN "received"
  ELSE (CHOOSE e \in timeline : \A f \in timeline : f.call <= e.call).status

\* As long as no two status calls overlap, the latest entry of the timeline
\* names the current status.
TimelineTellsStatus == Found /\ ~Overlapped("status") => status = LatestStatus

\* As long as no two add_fee calls overlap, estimated_fee is the sum of the line
\* items, whatever calls fail and whatever other columns are written meanwhile.
FeesAddUp == ~Overlapped("fee") => estimated = items

\* As long as no two attach_document calls overlap, a document is attached at
\* most once, whatever is removed meanwhile.
AttachedOnce == ~Overlapped("attach") => \A d \in Documents : Cardinality(attached[d]) <= 1

\* A waiver once granted is undone only by adding a fee, never by the review of
\* another waiver or by a call that read the request before it was granted.
WaivedUntilFee == [][feeStatus = "waived" /\ items' = items => feeStatus' = "waived"]_vars
===============================================================================
