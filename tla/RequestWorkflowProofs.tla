------------------------- MODULE RequestWorkflowProofs -------------------------
(***************************************************************************)
(* Proofs about RequestWorkflow: types, the lifecycle, the timeline, the   *)
(* fee total, attachments and waivers, for any workers, documents, calls.  *)
(***************************************************************************)
EXTENDS RequestWorkflow, FiniteSetTheorems, TLAPS

USE WorkflowAssumption DEF WorkflowAssumption

\* The ten statuses are not the value that stands for no request.
LEMMA NoSuchStatus == "absent" \notin L!RequestStatus
BY DEF L!RequestStatus

LEMMA NoTransitionToAbsent ==
  \A s \in L!RequestStatus : "absent" \notin L!VALID_TRANSITIONS[s]
BY DEF L!RequestStatus, L!VALID_TRANSITIONS

\* Calls are numbered in the order they begin.
Numbered ==
  /\ \A e \in timeline : e.call <= begun
  /\ \A w \in Workers : calls[w].kind # "none" => calls[w].number \in 1 .. begun

\* What a call is about to write.
Targets ==
  \A w \in Workers :
    /\ calls[w].kind = "status" => calls[w].target \in L!RequestStatus
    /\ calls[w].kind = "review" => calls[w].target \in {"approved", "denied"}

\* Without overlapping status calls: there is one at most, what it is about to
\* write may follow what it read, and it began after every entry's call.
StatusInTurn ==
  ~Overlapped("status") =>
    \A w \in Workers : Pending(w, "status") =>
      /\ \A v \in Workers \ {w} : ~Pending(v, "status")
      /\ Found /\ calls[w].target \in L!VALID_TRANSITIONS[status]
      /\ \A e \in timeline : e.call < calls[w].number

\* One call creates the request, and no other is made before it has.
CreatedFirst ==
  \A w \in Workers :
    /\ Pending(w, "create") => /\ status = "absent"
                               /\ \A v \in Workers \ {w} : calls[v].kind = "none"
    /\ calls[w].kind \notin {"none", "create"} => Found
    /\ calls[w].created => calls[w].kind = "create"

TimelineLatest ==
  /\ ~Found => timeline = {}
  /\ Found /\ ~Overlapped("status") =>
       \/ timeline = {} /\ status = "received"
       \/ \E e \in timeline : /\ e.status = status
                              /\ \A f \in timeline \ {e} : f.call < e.call

\* Without overlapping add_fee calls, the one in progress read the present total.
FeesInTurn ==
  ~Overlapped("fee") =>
    /\ estimated = items
    /\ \A w \in Workers : Pending(w, "fee") =>
         /\ calls[w].estimate = estimated
         /\ \A v \in Workers \ {w} : ~Pending(v, "fee")

WorkflowInv ==
  TypeOK /\ Numbered /\ Targets /\ StatusInTurn /\ CreatedFirst /\ TimelineLatest /\ FeesInTurn

-------------------------------------------------------------------------------
(* Types.                                                                    *)

LEMMA WorkflowInitType == Init => TypeOK
<1> SUFFICES ASSUME Init PROVE TypeOK
  OBVIOUS
<1>1. NoCall \in Call
  BY DEF NoCall, Call
<1>2. timeline \in SUBSET Event
  BY DEF Init, Event, Status
<1>3. calls \in [Workers -> Call]
  BY <1>1 DEF Init
<1>4. attached \in [Documents -> SUBSET Number] /\ notices \in SUBSET NoticeRow
  BY DEF Init
<1>5. waivers \in [Number -> {"absent", "pending", "approved", "denied"}]
  BY DEF Init
<1>6. status \in Status /\ closed \in BOOLEAN /\ overlaps \in SUBSET SUBSET Kind
  BY DEF Init
<1>7. items \in Nat /\ estimated \in Nat /\ begun \in 0 .. MaxCalls
  BY DEF Init
<1>8. feeStatus \in {"none", "estimated", "waived"}
  BY DEF Init
<1> QED BY <1>2, <1>3, <1>4, <1>5, <1>6, <1>7, <1>8 DEF TypeOK

\* What every first half of a call does, given what it read.
LEMMA BeginType ==
  ASSUME TypeOK, NEW w \in Workers, NEW call \in Call, call.kind \in Kind, Begin(w, call)
  PROVE  TypeOK'
<1>1. begun + 1 \in Number /\ begun' \in 0 .. MaxCalls
  BY DEF Begin, TypeOK, Number
<1>2. [call EXCEPT !.number = begun + 1] \in Call
  BY <1>1 DEF Call
<1>3. calls' \in [Workers -> Call]
  BY <1>2 DEF Begin, TypeOK
<1>4. \A v \in Workers : InProgress(v) => calls[v].kind \in Kind
  BY DEF TypeOK, Call, InProgress
<1>5. {{call.kind, calls[v].kind} : v \in {u \in Workers : InProgress(u)}} \in SUBSET SUBSET Kind
  BY <1>4
<1>6. overlaps' \in SUBSET SUBSET Kind
  BY <1>5 DEF Begin, TypeOK
<1> QED BY <1>1, <1>3, <1>6 DEF Begin, TypeOK, rows

\* Every first half is Begin of a well-formed call that is not yet committed,
\* with the guards the invariants depend on.
LEMMA BeginForms ==
  ASSUME TypeOK, NEW w \in Workers, BeginCall(w)
  PROVE  \E call \in Call :
           /\ Begin(w, call) /\ call.kind \in Kind /\ ~call.created
           /\ call.kind = "create" => /\ status = "absent"
                                      /\ \A v \in Workers : calls[v].kind # "create"
           /\ call.kind # "create" => Found
           /\ call.kind = "status" => /\ call.target \in L!VALID_TRANSITIONS[status]
                                      /\ call.target \in L!RequestStatus
           /\ call.kind = "review" => call.target \in {"approved", "denied"}
           /\ call.kind = "fee" => call.estimate = estimated
           /\ call.kind = "attach" => attached[call.doc] = {}
<1>0. NoCall \in Call
  BY DEF NoCall, Call
<1> DEFINE StatusCall(to) == [NoCall EXCEPT !.kind = "status", !.target = to]
<1>1. CASE BeginCreate(w)
  <2>1. [NoCall EXCEPT !.kind = "create"] \in Call
    BY <1>0 DEF Call, Kind
  <2> QED BY <1>1, <2>1 DEF BeginCreate, NoCall, Kind
<1> DEFINE Form(call) ==
      /\ Begin(w, call) /\ call.kind \in Kind /\ ~call.created
      /\ call.kind = "create" => /\ status = "absent"
                                 /\ \A v \in Workers : calls[v].kind # "create"
      /\ call.kind # "create" => Found
      /\ call.kind = "status" => /\ call.target \in L!VALID_TRANSITIONS[status]
                                 /\ call.target \in L!RequestStatus
      /\ call.kind = "review" => call.target \in {"approved", "denied"}
      /\ call.kind = "fee" => call.estimate = estimated
      /\ call.kind = "attach" => attached[call.doc] = {}
<1>2. ASSUME NEW to \in L!RequestStatus, Found, to \in L!VALID_TRANSITIONS[status],
             BeginStatus(w, to)
      PROVE  \E call \in Call : Form(call)
  <2>1. StatusCall(to) \in Call
    BY <1>0 DEF Call, Kind
  <2>2. Form(StatusCall(to))
    BY <1>2 DEF BeginStatus, NoCall, Kind
  <2> QED BY <2>1, <2>2
<1>3. CASE BeginUpdate(w)
  BY <1>2, <1>3 DEF BeginUpdate
<1>4. CASE BeginSubmitForReview(w)
  <2>1. "in_review" \in L!VALID_TRANSITIONS[status] /\ Found
    BY <1>4 DEF BeginSubmitForReview, L!VALID_TRANSITIONS, L!RequestStatus, Found
  <2> QED BY <1>2, <1>4, <2>1 DEF BeginSubmitForReview, L!RequestStatus
<1>5. CASE BeginReadyForRelease(w)
  <2>1. "ready_for_release" \in L!VALID_TRANSITIONS[status] /\ Found
    BY <1>5 DEF BeginReadyForRelease, L!VALID_TRANSITIONS, L!RequestStatus, Found
  <2> QED BY <1>2, <1>5, <2>1 DEF BeginReadyForRelease, L!RequestStatus
<1>6. CASE BeginApprove(w)
  <2>1. "approved" \in L!VALID_TRANSITIONS[status] /\ Found
    BY <1>6 DEF BeginApprove, L!VALID_TRANSITIONS, L!RequestStatus, Found
  <2> QED BY <1>2, <1>6, <2>1 DEF BeginApprove, L!RequestStatus
<1>7. CASE BeginReject(w)
  <2>1. "drafted" \in L!VALID_TRANSITIONS[status] /\ Found
    BY <1>7 DEF BeginReject, L!VALID_TRANSITIONS, L!RequestStatus, Found
  <2> QED BY <1>2, <1>7, <2>1 DEF BeginReject, L!RequestStatus
<1>8. ASSUME NEW d \in Documents, BeginAttach(w, d) PROVE \E call \in Call : Form(call)
  <2> DEFINE call == [NoCall EXCEPT !.kind = "attach", !.doc = d]
  <2>1. call \in Call
    BY <1>0 DEF Call, Kind
  <2>2. Form(call)
    BY <1>8 DEF BeginAttach, NoCall, Kind
  <2> QED BY <2>1, <2>2
<1>9. ASSUME NEW d \in Documents, BeginRemove(w, d) PROVE \E call \in Call : Form(call)
  <2>1. PICK n \in Number : Begin(w, [NoCall EXCEPT !.kind = "remove", !.doc = d, !.row = n])
    BY <1>9 DEF BeginRemove
  <2> DEFINE call == [NoCall EXCEPT !.kind = "remove", !.doc = d, !.row = n]
  <2>2. call \in Call
    BY <1>0 DEF Call, Kind
  <2>3. Form(call)
    BY <1>9, <2>1 DEF BeginRemove, NoCall, Kind
  <2> QED BY <2>2, <2>3
<1>10. CASE BeginAddFee(w)
  <2> DEFINE call == [NoCall EXCEPT !.kind = "fee", !.estimate = estimated, !.fees = feeStatus]
  <2>1. call \in Call
    BY <1>0 DEF Call, Kind, TypeOK
  <2>2. Form(call)
    BY <1>10 DEF BeginAddFee, NoCall, Kind
  <2> QED BY <2>1, <2>2
<1>11. CASE BeginRequestWaiver(w)
  <2> DEFINE call == [NoCall EXCEPT !.kind = "waive"]
  <2>1. call \in Call
    BY <1>0 DEF Call, Kind
  <2>2. Form(call)
    BY <1>11 DEF BeginRequestWaiver, NoCall, Kind
  <2> QED BY <2>1, <2>2
<1>12. CASE BeginReviewWaiver(w)
  <2>1. PICK n \in Number, verdict \in {"approved", "denied"} :
          /\ Found
          /\ Begin(w, [NoCall EXCEPT !.kind = "review", !.row = n, !.target = verdict,
                                     !.waiver = waivers[n], !.fees = feeStatus])
    BY <1>12 DEF BeginReviewWaiver
  <2> DEFINE call == [NoCall EXCEPT !.kind = "review", !.row = n, !.target = verdict,
                                    !.waiver = waivers[n], !.fees = feeStatus]
  <2>2. call \in Call
    BY <1>0 DEF Call, Kind, TypeOK
  <2>3. Form(call)
    BY <2>1 DEF NoCall, Kind
  <2> QED BY <2>2, <2>3
<1> QED BY <1>1, <1>3, <1>4, <1>5, <1>6, <1>7, <1>8, <1>9, <1>10, <1>11, <1>12 DEF BeginCall

LEMMA EndType ==
  ASSUME TypeOK, Numbered, Targets, NEW w \in Workers, EndCall(w)
  PROVE  TypeOK'
<1>0. /\ NoCall \in Call /\ calls[w] \in Call
      /\ calls[w].kind # "none" => calls[w].number \in Number
  BY DEF NoCall, Call, TypeOK, Numbered, Number
<1>1. Ends(w) => calls' \in [Workers -> Call] /\ UNCHANGED <<begun, overlaps>>
  BY <1>0 DEF Ends, TypeOK
<1>2. \A n \in Number \cup {0}, s \in L!RequestStatus :
        \A added \in Notice(n, s) : added \subseteq NoticeRow
  BY DEF Notice, NoticeRow
<1>3. CASE CommitCreate(w)
  <2>1. calls' \in [Workers -> Call]
    BY <1>0, <1>3 DEF CommitCreate, TypeOK, Call
  <2>2. status' \in Status
    BY <1>3 DEF CommitCreate, Status, L!RequestStatus
  <2> QED BY <1>3, <2>1, <2>2 DEF CommitCreate, TypeOK
<1>4. CASE NotifyReceived(w)
  <2>1. calls[w].number \in Number \cup {0} /\ "received" \in L!RequestStatus
    BY <1>0 DEF Call, L!RequestStatus
  <2> QED BY <1>1, <1>2, <1>4, <2>1 DEF NotifyReceived, TypeOK
<1>5. CASE CommitStatus(w)
  <2>1. calls[w].number \in Number
    BY <1>0, <1>5 DEF CommitStatus, Pending
  <2>2. calls[w].target \in L!RequestStatus
    BY <1>5 DEF CommitStatus, Pending, Targets
  <2>3. [call |-> calls[w].number, status |-> calls[w].target] \in Event
    BY <2>1, <2>2 DEF Event
  <2>4. \A added \in Notice(calls[w].number, calls[w].target) : added \subseteq NoticeRow
    BY <1>2, <2>1, <2>2
  <2>5. status' \in Status /\ closed' \in BOOLEAN
    BY <1>5, <2>2 DEF CommitStatus, Status
  <2>6. timeline' \in SUBSET Event /\ notices' \in SUBSET NoticeRow
    BY <1>5, <2>3, <2>4 DEF CommitStatus, TypeOK
  <2> QED BY <1>1, <1>5, <2>5, <2>6 DEF CommitStatus, TypeOK
<1>6. CASE CommitAttach(w)
  <2>1. calls[w].number \in Number
    BY <1>0, <1>6 DEF CommitAttach, Pending
  <2> QED BY <1>1, <1>6, <2>1 DEF CommitAttach, TypeOK
<1>7. CASE CommitRemove(w)
  BY <1>1, <1>7 DEF CommitRemove, TypeOK
<1>8. CASE CommitFee(w)
  <2>1. calls[w].estimate + 1 \in Nat /\ items + 1 \in Nat
    BY <1>0 DEF Call, TypeOK
  <2>2. feeStatus' \in {"none", "estimated", "waived"}
    BY <1>8 DEF CommitFee, Written, TypeOK
  <2> QED BY <1>1, <1>8, <2>1, <2>2 DEF CommitFee, TypeOK
<1>9. CASE CommitWaiver(w)
  BY <1>1, <1>9 DEF CommitWaiver, TypeOK
<1>10. CASE CommitReview(w)
  <2>1. calls[w].target \in {"approved", "denied"}
    BY <1>10 DEF CommitReview, Pending, Targets
  <2>2. feeStatus' \in {"none", "estimated", "waived"}
    BY <1>10 DEF CommitReview, Written, TypeOK
  <2>3. waivers' \in [Number -> {"absent", "pending", "approved", "denied"}]
    BY <1>10, <2>1 DEF CommitReview, Written, TypeOK
  <2> QED BY <1>1, <1>10, <2>2, <2>3 DEF CommitReview, TypeOK
<1>11. CASE Abort(w)
  BY <1>1, <1>11 DEF Abort, rows, TypeOK
<1> QED BY <1>3, <1>4, <1>5, <1>6, <1>7, <1>8, <1>9, <1>10, <1>11 DEF EndCall

-------------------------------------------------------------------------------
(* The first half of a call.                                                 *)

\* What Begin does to the calls and the overlaps.
LEMMA BeginEffect ==
  ASSUME TypeOK, NEW w \in Workers, NEW call \in Call, Begin(w, call), ~call.created
  PROVE  /\ calls[w].kind = "none" /\ begun' = begun + 1 /\ UNCHANGED rows
         /\ calls'[w] = [call EXCEPT !.number = begun + 1]
         /\ calls'[w].number = begun + 1 /\ calls'[w].kind = call.kind
         /\ calls'[w].target = call.target /\ calls'[w].estimate = call.estimate
         /\ calls'[w].created = FALSE
         /\ \A v \in Workers \ {w} : calls'[v] = calls[v]
         /\ overlaps \subseteq overlaps'
         /\ call.kind \in Kind /\ ~({call.kind} \in overlaps') =>
              \A v \in Workers \ {w} : calls[v].created \/ calls[v].kind # call.kind
<1>1. calls' = [calls EXCEPT ![w] = [call EXCEPT !.number = begun + 1]]
  BY DEF Begin
<1>2. /\ calls'[w] = [call EXCEPT !.number = begun + 1]
      /\ \A v \in Workers \ {w} : calls'[v] = calls[v]
  BY <1>1 DEF TypeOK
<1>3. calls[w].kind = "none" /\ begun' = begun + 1 /\ UNCHANGED rows
  BY DEF Begin, NoCall
<1>4. overlaps \subseteq overlaps'
  BY DEF Begin
<1>5. ASSUME call.kind \in Kind, NEW v \in Workers \ {w},
             ~calls[v].created, calls[v].kind = call.kind
      PROVE  {call.kind} \in overlaps'
  <2>1. InProgress(v)
    BY <1>5 DEF InProgress, Kind
  <2>2. {call.kind, calls[v].kind} \in overlaps'
    BY <2>1 DEF Begin
  <2> QED BY <1>5, <2>2
<1> QED BY <1>2, <1>3, <1>4, <1>5 DEF Call

LEMMA BeginKeeps ==
  ASSUME WorkflowInv, NEW w \in Workers, BeginCall(w)
  PROVE  WorkflowInv'
<1> USE DEF WorkflowInv
<1>1. PICK call \in Call :
        /\ Begin(w, call) /\ call.kind \in Kind /\ ~call.created
        /\ call.kind = "create" => /\ status = "absent"
                                   /\ \A v \in Workers : calls[v].kind # "create"
        /\ call.kind # "create" => Found
        /\ call.kind = "status" => /\ call.target \in L!VALID_TRANSITIONS[status]
                                   /\ call.target \in L!RequestStatus
        /\ call.kind = "review" => call.target \in {"approved", "denied"}
        /\ call.kind = "fee" => call.estimate = estimated
  BY BeginForms
<1>2. /\ calls[w].kind = "none" /\ begun' = begun + 1 /\ UNCHANGED rows
      /\ calls'[w].number = begun + 1 /\ calls'[w].kind = call.kind
      /\ calls'[w].target = call.target /\ calls'[w].estimate = call.estimate
      /\ calls'[w].created = FALSE
      /\ \A v \in Workers \ {w} : calls'[v] = calls[v]
      /\ overlaps \subseteq overlaps'
      /\ {call.kind} \notin overlaps' =>
           \A v \in Workers \ {w} : calls[v].created \/ calls[v].kind # call.kind
  BY <1>1, BeginEffect
<1>3. begun \in Nat /\ begun' \in Nat /\ begun < begun' /\ "status" \in Kind /\ "fee" \in Kind
  BY <1>2 DEF TypeOK, Kind
<1>4. /\ status' = status /\ timeline' = timeline /\ items' = items /\ estimated' = estimated
      /\ Found' = Found
  BY <1>2 DEF rows, Found
<1>6. TypeOK'
  BY <1>1, BeginType
<1>7. Numbered'
  <2>1. \A e \in timeline : e.call \in Nat
    BY DEF TypeOK, Event, Number
  <2>2. \A v \in Workers \ {w} : calls[v].kind # "none" => calls[v].number \in 1 .. begun'
    BY <1>2, <1>3 DEF Numbered
  <2>3. begun + 1 \in 1 .. begun'
    BY <1>2, <1>3
  <2>4. \A e \in timeline : e.call <= begun'
    BY <1>3, <2>1 DEF Numbered
  <2> QED BY <1>2, <1>4, <2>2, <2>3, <2>4 DEF Numbered
<1>8. Targets'
  BY <1>1, <1>2 DEF Targets
<1>9. StatusInTurn'
  <2> SUFFICES ASSUME ~Overlapped("status")', NEW v \in Workers, Pending(v, "status")'
               PROVE  /\ \A u \in Workers \ {v} : ~Pending(u, "status")'
                      /\ Found' /\ calls'[v].target \in L!VALID_TRANSITIONS[status']
                      /\ \A e \in timeline' : e.call < calls'[v].number
    BY DEF StatusInTurn
  <2>1. ~Overlapped("status")
    BY <1>2 DEF Overlapped
  <2>2. CASE v = w
    <3>1. call.kind = "status"
      BY <1>2, <2>2 DEF Pending
    <3>2. \A e \in timeline : e.call < begun + 1
      BY <1>3 DEF Numbered, TypeOK, Event, Number
    <3>3. \A u \in Workers \ {w} : ~Pending(u, "status")'
      BY <1>2, <3>1 DEF Overlapped, Pending
    <3> QED BY <1>1, <1>2, <1>4, <2>2, <3>1, <3>2, <3>3
  <2>3. CASE v # w
    <3>1. Pending(v, "status")
      BY <1>2, <2>3 DEF Pending
    <3>2. ~Pending(w, "status")'
      BY <1>2, <2>3, <3>1 DEF Overlapped, Pending
    <3>3. /\ \A u \in Workers \ {v} : ~Pending(u, "status")
          /\ Found /\ calls[v].target \in L!VALID_TRANSITIONS[status]
          /\ \A e \in timeline : e.call < calls[v].number
      BY <2>1, <3>1 DEF StatusInTurn
    <3>4. \A u \in Workers \ {v} : ~Pending(u, "status")'
      BY <1>2, <3>2, <3>3 DEF Pending
    <3> QED BY <1>2, <1>4, <2>3, <3>3, <3>4
  <2> QED BY <2>2, <2>3
<1>10. CreatedFirst'
  <2>1. \A v \in Workers \ {w} : calls[v].kind # "none" /\ status = "absent" =>
          calls[v].kind = "create"
    BY DEF CreatedFirst, Found
  <2>2. Pending(w, "create")' => /\ status' = "absent"
                                 /\ \A v \in Workers \ {w} : calls'[v].kind = "none"
    BY <1>1, <1>2, <1>4, <2>1 DEF Pending
  <2>3. ASSUME NEW v \in Workers \ {w}, Pending(v, "create")' PROVE FALSE
    <3>1. Pending(v, "create") /\ calls[v].kind = "create"
      BY <1>2, <2>3 DEF Pending
    <3>2. status = "absent"
      BY <3>1 DEF CreatedFirst
    <3> QED BY <1>1, <3>1, <3>2 DEF Found
  <2>4. calls'[w].kind \notin {"none", "create"} => Found'
    BY <1>1, <1>2, <1>4
  <2> QED BY <1>2, <1>4, <2>2, <2>3, <2>4 DEF CreatedFirst
<1>11. TimelineLatest'
  BY <1>2, <1>4 DEF TimelineLatest, Overlapped
<1>12. FeesInTurn'
  <2> SUFFICES ASSUME ~Overlapped("fee")'
               PROVE  /\ estimated' = items'
                      /\ \A v \in Workers : Pending(v, "fee")' =>
                           /\ calls'[v].estimate = estimated'
                           /\ \A u \in Workers \ {v} : ~Pending(u, "fee")'
    BY DEF FeesInTurn
  <2>1. ~Overlapped("fee")
    BY <1>2 DEF Overlapped
  <2>2. estimated' = items'
    BY <1>4, <2>1 DEF FeesInTurn
  <2> SUFFICES ASSUME NEW v \in Workers, Pending(v, "fee")'
               PROVE  /\ calls'[v].estimate = estimated'
                      /\ \A u \in Workers \ {v} : ~Pending(u, "fee")'
    BY <2>2
  <2>3. CASE v = w
    <3>1. call.kind = "fee"
      BY <1>2, <2>3 DEF Pending
    <3>2. \A u \in Workers \ {w} : ~Pending(u, "fee")'
      BY <1>2, <3>1 DEF Overlapped, Pending
    <3> QED BY <1>1, <1>2, <1>4, <2>3, <3>1, <3>2
  <2>4. CASE v # w
    <3>1. Pending(v, "fee")
      BY <1>2, <2>4 DEF Pending
    <3>2. ~Pending(w, "fee")'
      BY <1>2, <2>4, <3>1 DEF Overlapped, Pending
    <3>3. calls[v].estimate = estimated /\ \A u \in Workers \ {v} : ~Pending(u, "fee")
      BY <2>1, <3>1 DEF FeesInTurn
    <3>4. \A u \in Workers \ {v} : ~Pending(u, "fee")'
      BY <1>2, <3>2, <3>3 DEF Pending
    <3> QED BY <1>2, <1>4, <2>4, <3>3, <3>4
  <2> QED BY <2>3, <2>4
<1> QED BY <1>6, <1>7, <1>8, <1>9, <1>10, <1>11, <1>12

-------------------------------------------------------------------------------
(* The second half of a call.                                                *)

\* What Ends does to the calls.
LEMMA EndEffect ==
  ASSUME TypeOK, NEW w \in Workers, Ends(w)
  PROVE  /\ calls'[w].kind = "none" /\ calls'[w].created = FALSE
         /\ \A v \in Workers \ {w} : calls'[v] = calls[v]
         /\ begun' = begun /\ overlaps' = overlaps
BY DEF Ends, TypeOK, NoCall

\* A second half that leaves the status, its timeline and the fees alone.
LEMMA QuietKeeps ==
  ASSUME WorkflowInv, NEW w \in Workers, Ends(w),
         UNCHANGED <<status, timeline, items, estimated>>
  PROVE  Numbered' /\ Targets' /\ StatusInTurn' /\ CreatedFirst' /\ TimelineLatest' /\ FeesInTurn'
<1>1. /\ calls'[w].kind = "none" /\ calls'[w].created = FALSE
      /\ \A v \in Workers \ {w} : calls'[v] = calls[v]
      /\ begun' = begun /\ overlaps' = overlaps
  BY EndEffect DEF WorkflowInv
<1>2. Numbered'
  BY <1>1 DEF WorkflowInv, Numbered
<1>3. Targets'
  BY <1>1 DEF WorkflowInv, Targets
<1>4. StatusInTurn'
  <2> SUFFICES ASSUME ~Overlapped("status")', NEW v \in Workers, Pending(v, "status")'
               PROVE  /\ \A u \in Workers \ {v} : ~Pending(u, "status")'
                      /\ Found' /\ calls'[v].target \in L!VALID_TRANSITIONS[status']
                      /\ \A e \in timeline' : e.call < calls'[v].number
    BY DEF StatusInTurn
  <2>1. v # w /\ Pending(v, "status") /\ ~Overlapped("status")
    BY <1>1 DEF Pending, Overlapped
  <2>2. /\ \A u \in Workers \ {v} : ~Pending(u, "status")
        /\ Found /\ calls[v].target \in L!VALID_TRANSITIONS[status]
        /\ \A e \in timeline : e.call < calls[v].number
    BY <2>1 DEF WorkflowInv, StatusInTurn
  <2> QED BY <1>1, <2>1, <2>2 DEF Pending, Found
<1>5. CreatedFirst'
  BY <1>1 DEF WorkflowInv, CreatedFirst, Pending, Found
<1>6. TimelineLatest'
  BY <1>1 DEF WorkflowInv, TimelineLatest, Overlapped, Found
<1>7. FeesInTurn'
  BY <1>1 DEF WorkflowInv, FeesInTurn, Pending, Overlapped
<1> QED BY <1>2, <1>3, <1>4, <1>5, <1>6, <1>7

LEMMA CreateKeeps ==
  ASSUME WorkflowInv, NEW w \in Workers, CommitCreate(w)
  PROVE  Numbered' /\ Targets' /\ StatusInTurn' /\ CreatedFirst' /\ TimelineLatest' /\ FeesInTurn'
<1>1. /\ calls[w].kind = "create" /\ ~calls[w].created /\ status = "absent" /\ ~Found
      /\ \A v \in Workers \ {w} : calls[v].kind = "none"
  BY DEF CommitCreate, Pending, WorkflowInv, CreatedFirst, Found
<1>2. /\ calls'[w].kind = "create" /\ calls'[w].created /\ calls'[w].number = calls[w].number
      /\ \A v \in Workers \ {w} : calls'[v] = calls[v]
  BY <1>1 DEF CommitCreate, WorkflowInv, TypeOK, Call
<1>3. /\ status' = "received" /\ Found' /\ begun' = begun /\ overlaps' = overlaps
      /\ timeline' = timeline /\ items' = items /\ estimated' = estimated
  BY DEF CommitCreate, Found
<1>4. timeline = {}
  BY <1>1 DEF WorkflowInv, TimelineLatest
<1>5. \A v \in Workers : ~Pending(v, "status")' /\ ~Pending(v, "fee")' /\ ~Pending(v, "create")'
  BY <1>1, <1>2 DEF Pending
<1>6. Numbered'
  BY <1>1, <1>2, <1>3 DEF WorkflowInv, Numbered
<1>7. Targets'
  BY <1>1, <1>2 DEF Targets
<1>8. StatusInTurn'
  BY <1>5 DEF StatusInTurn
<1>9. CreatedFirst'
  <2>1. \A v \in Workers : calls'[v].created => calls'[v].kind = "create"
    BY <1>2 DEF WorkflowInv, CreatedFirst
  <2> QED BY <1>3, <1>5, <2>1 DEF CreatedFirst
<1>10. TimelineLatest'
  BY <1>3, <1>4 DEF TimelineLatest
<1>11. FeesInTurn'
  BY <1>3, <1>5 DEF WorkflowInv, FeesInTurn, Overlapped
<1> QED BY <1>6, <1>7, <1>8, <1>9, <1>10, <1>11

\* The entry a status call adds is later than all the others.
LEMMA StatusKeeps ==
  ASSUME WorkflowInv, NEW w \in Workers, CommitStatus(w)
  PROVE  Numbered' /\ Targets' /\ StatusInTurn' /\ CreatedFirst' /\ TimelineLatest' /\ FeesInTurn'
<1> DEFINE event == [call |-> calls[w].number, status |-> calls[w].target]
<1>1. /\ calls'[w].kind = "none" /\ calls'[w].created = FALSE
      /\ \A v \in Workers \ {w} : calls'[v] = calls[v]
      /\ begun' = begun /\ overlaps' = overlaps
  BY EndEffect DEF CommitStatus, WorkflowInv
<1>2. /\ Pending(w, "status") /\ status' = calls[w].target /\ timeline' = timeline \cup {event}
      /\ items' = items /\ estimated' = estimated
  BY DEF CommitStatus
<1>3. calls[w].kind = "status" /\ ~calls[w].created
  BY <1>2 DEF Pending
<1>4. status' \in L!RequestStatus /\ calls[w].number \in 1 .. begun
  BY <1>2, <1>3 DEF WorkflowInv, Targets, Numbered
<1>5. Found /\ Found'
  BY <1>3, <1>4, NoSuchStatus DEF WorkflowInv, CreatedFirst, Found
<1>6. Numbered'
  <2>1. \A e \in timeline' : e.call <= begun
    BY <1>2, <1>4 DEF WorkflowInv, Numbered, TypeOK
  <2>2. \A v \in Workers : calls'[v].kind # "none" => calls'[v].number \in 1 .. begun
    BY <1>1 DEF WorkflowInv, Numbered
  <2> QED BY <1>1, <2>1, <2>2 DEF Numbered
<1>7. Targets'
  BY <1>1 DEF WorkflowInv, Targets
<1>8. ~Overlapped("status") =>
        /\ \A v \in Workers \ {w} : ~Pending(v, "status")
        /\ \A e \in timeline : e.call < calls[w].number
  BY <1>2 DEF WorkflowInv, StatusInTurn
<1>9. StatusInTurn'
  BY <1>1, <1>8 DEF StatusInTurn, Overlapped, Pending
<1>10. CreatedFirst'
  BY <1>1, <1>3, <1>5 DEF WorkflowInv, CreatedFirst, Pending
<1>11. TimelineLatest'
  <2> SUFFICES ASSUME ~Overlapped("status")
               PROVE  \E e \in timeline' : /\ e.status = status'
                                           /\ \A f \in timeline' \ {e} : f.call < e.call
    BY <1>1, <1>5 DEF TimelineLatest, Overlapped
  <2>1. event \in timeline' /\ event.status = status'
    BY <1>2
  <2>2. \A f \in timeline' \ {event} : f.call < event.call
    BY <1>2, <1>8
  <2> QED BY <2>1, <2>2
<1>12. FeesInTurn'
  BY <1>1, <1>2 DEF WorkflowInv, FeesInTurn, Pending, Overlapped
<1> QED BY <1>6, <1>7, <1>9, <1>10, <1>11, <1>12

\* The total an add_fee call writes counts the line item it adds.
LEMMA FeeKeeps ==
  ASSUME WorkflowInv, NEW w \in Workers, CommitFee(w)
  PROVE  Numbered' /\ Targets' /\ StatusInTurn' /\ CreatedFirst' /\ TimelineLatest' /\ FeesInTurn'
<1>1. /\ calls'[w].kind = "none" /\ calls'[w].created = FALSE
      /\ \A v \in Workers \ {w} : calls'[v] = calls[v]
      /\ begun' = begun /\ overlaps' = overlaps
  BY EndEffect DEF CommitFee, WorkflowInv
<1>2. /\ Pending(w, "fee") /\ items' = items + 1 /\ estimated' = calls[w].estimate + 1
      /\ status' = status /\ timeline' = timeline
  BY DEF CommitFee
<1>3. Numbered'
  BY <1>1, <1>2 DEF WorkflowInv, Numbered
<1>4. Targets'
  BY <1>1 DEF WorkflowInv, Targets
<1>5. StatusInTurn'
  <2> SUFFICES ASSUME ~Overlapped("status")', NEW v \in Workers, Pending(v, "status")'
               PROVE  /\ \A u \in Workers \ {v} : ~Pending(u, "status")'
                      /\ Found' /\ calls'[v].target \in L!VALID_TRANSITIONS[status']
                      /\ \A e \in timeline' : e.call < calls'[v].number
    BY DEF StatusInTurn
  <2>1. v # w /\ Pending(v, "status") /\ ~Overlapped("status")
    BY <1>1 DEF Pending, Overlapped
  <2>2. /\ \A u \in Workers \ {v} : ~Pending(u, "status")
        /\ Found /\ calls[v].target \in L!VALID_TRANSITIONS[status]
        /\ \A e \in timeline : e.call < calls[v].number
    BY <2>1 DEF WorkflowInv, StatusInTurn
  <2> QED BY <1>1, <1>2, <2>1, <2>2 DEF Pending, Found
<1>6. CreatedFirst'
  BY <1>1, <1>2 DEF WorkflowInv, CreatedFirst, Pending, Found
<1>7. TimelineLatest'
  BY <1>1, <1>2 DEF WorkflowInv, TimelineLatest, Overlapped, Found
<1>8. FeesInTurn'
  <2> SUFFICES ASSUME ~Overlapped("fee")
               PROVE  estimated' = items' /\ \A v \in Workers : ~Pending(v, "fee")'
    BY <1>1 DEF FeesInTurn, Overlapped
  <2>1. /\ estimated = items /\ calls[w].estimate = estimated
        /\ \A v \in Workers \ {w} : ~Pending(v, "fee")
    BY <1>2 DEF WorkflowInv, FeesInTurn
  <2> QED BY <1>1, <1>2, <2>1 DEF Pending
<1> QED BY <1>3, <1>4, <1>5, <1>6, <1>7, <1>8

LEMMA EndKeeps ==
  ASSUME WorkflowInv, NEW w \in Workers, EndCall(w)
  PROVE  WorkflowInv'
<1>1. TypeOK'
  BY EndType DEF WorkflowInv
<1>2. CASE CommitCreate(w)
  BY <1>1, <1>2, CreateKeeps DEF WorkflowInv
<1>3. CASE NotifyReceived(w)
  BY <1>1, <1>3, QuietKeeps DEF NotifyReceived, WorkflowInv
<1>4. CASE CommitStatus(w)
  BY <1>1, <1>4, StatusKeeps DEF WorkflowInv
<1>5. CASE CommitAttach(w)
  BY <1>1, <1>5, QuietKeeps DEF CommitAttach, WorkflowInv
<1>6. CASE CommitRemove(w)
  BY <1>1, <1>6, QuietKeeps DEF CommitRemove, WorkflowInv
<1>7. CASE CommitFee(w)
  BY <1>1, <1>7, FeeKeeps DEF WorkflowInv
<1>8. CASE CommitWaiver(w)
  BY <1>1, <1>8, QuietKeeps DEF CommitWaiver, WorkflowInv
<1>9. CASE CommitReview(w)
  BY <1>1, <1>9, QuietKeeps DEF CommitReview, WorkflowInv
<1>10. CASE Abort(w)
  BY <1>1, <1>10, QuietKeeps DEF Abort, rows, WorkflowInv
<1> QED BY <1>2, <1>3, <1>4, <1>5, <1>6, <1>7, <1>8, <1>9, <1>10 DEF EndCall

-------------------------------------------------------------------------------
(* The invariant.                                                            *)

LEMMA WorkflowInitially == Init => WorkflowInv
<1> SUFFICES ASSUME Init PROVE WorkflowInv
  OBVIOUS
<1>1. \A w \in Workers : calls[w].kind = "none" /\ ~calls[w].created
  BY DEF Init, NoCall
<1>2. Numbered
  BY <1>1 DEF Init, Numbered
<1>3. Targets
  BY <1>1 DEF Targets
<1>4. StatusInTurn /\ CreatedFirst
  BY <1>1 DEF StatusInTurn, CreatedFirst, Pending
<1>5. TimelineLatest
  BY DEF Init, TimelineLatest, Found
<1>6. FeesInTurn
  BY <1>1 DEF Init, FeesInTurn, Pending
<1> QED BY WorkflowInitType, <1>2, <1>3, <1>4, <1>5, <1>6 DEF WorkflowInv

LEMMA WorkflowStep == WorkflowInv /\ [Next]_vars => WorkflowInv'
<1> SUFFICES ASSUME WorkflowInv, [Next]_vars PROVE WorkflowInv'
  OBVIOUS
<1>1. CASE Next
  BY <1>1, BeginKeeps, EndKeeps DEF Next
<1>2. CASE UNCHANGED vars
  BY <1>2 DEF vars, WorkflowInv, TypeOK, Numbered, Targets, StatusInTurn, CreatedFirst,
              TimelineLatest, FeesInTurn, Pending, Overlapped, Found
<1> QED BY <1>1, <1>2

THEOREM WorkflowInvariance == Spec => []WorkflowInv
BY WorkflowInitially, WorkflowStep, PTL DEF Spec

\* Every variable keeps its type, for any number of workers and of calls.
THEOREM WorkflowTypeCorrect == Spec => []TypeOK
<1>1. WorkflowInv => TypeOK
  BY DEF WorkflowInv
<1> QED BY <1>1, WorkflowInvariance, PTL

\* Whatever calls are in progress, and however those that add fees, attach
\* documents or review waivers overlap, the latest entry of the timeline names
\* the status, unless two calls that change the status have overlapped.
THEOREM TimelineHolds == Spec => []TimelineTellsStatus
<1>1. WorkflowInv => TimelineTellsStatus
  <2> SUFFICES ASSUME WorkflowInv, Found, ~Overlapped("status") PROVE status = LatestStatus
    BY DEF TimelineTellsStatus
  <2>1. \A e \in timeline : e.call \in Nat
    BY DEF WorkflowInv, TypeOK, Event, Number
  <2>2. CASE timeline = {}
    BY <2>2 DEF WorkflowInv, TimelineLatest, LatestStatus
  <2>3. CASE timeline # {}
    <3>1. PICK e \in timeline : e.status = status /\ \A f \in timeline \ {e} : f.call < e.call
      BY <2>3 DEF WorkflowInv, TimelineLatest
    <3>2. \A f \in timeline : f.call <= e.call
      BY <2>1, <3>1
    <3>3. \A d \in timeline : (\A f \in timeline : f.call <= d.call) => d = e
      BY <2>1, <3>1
    <3>4. (CHOOSE d \in timeline : \A f \in timeline : f.call <= d.call) = e
      BY <3>2, <3>3
    <3>5. LatestStatus = (CHOOSE d \in timeline : \A f \in timeline : f.call <= d.call).status
      BY <2>3, Zenon DEF LatestStatus
    <3>6. LatestStatus = e.status
      BY <3>4, <3>5, Zenon
    <3> QED BY <3>1, <3>6
  <2> QED BY <2>2, <2>3
<1> QED BY <1>1, WorkflowInvariance, PTL

\* The estimated fee is the sum of the line items unless two add_fee calls have
\* overlapped, however many other calls write the same row meanwhile.
THEOREM FeesHold == Spec => []FeesAddUp
<1>1. WorkflowInv => FeesAddUp
  BY DEF WorkflowInv, FeesInTurn, FeesAddUp
<1> QED BY <1>1, WorkflowInvariance, PTL

-------------------------------------------------------------------------------
(* Attachments and waivers.                                                  *)

\* Without overlapping attach_document calls, the one in progress is about to
\* attach a document that has no row, and no document has two.
AttachInTurn ==
  ~Overlapped("attach") =>
    /\ \A d \in Documents : \A m, n \in attached[d] : m = n
    /\ \A w \in Workers : Pending(w, "attach") =>
         /\ calls[w].doc \in Documents => attached[calls[w].doc] = {}
         /\ \A v \in Workers \ {w} : ~Pending(v, "attach")

LEMMA AttachBegin ==
  ASSUME WorkflowInv, AttachInTurn, NEW w \in Workers, BeginCall(w)
  PROVE  AttachInTurn'
<1> USE DEF WorkflowInv
<1>1. PICK call \in Call :
        /\ Begin(w, call) /\ call.kind \in Kind /\ ~call.created
        /\ call.kind = "attach" => attached[call.doc] = {}
  BY BeginForms
<1>2. /\ UNCHANGED rows
      /\ calls'[w] = [call EXCEPT !.number = begun + 1]
      /\ \A v \in Workers \ {w} : calls'[v] = calls[v]
      /\ overlaps \subseteq overlaps'
      /\ {call.kind} \notin overlaps' =>
           \A v \in Workers \ {w} : calls[v].created \/ calls[v].kind # call.kind
  BY <1>1, BeginEffect
<1>3. calls'[w].kind = call.kind /\ calls'[w].doc = call.doc /\ attached' = attached
  BY <1>2 DEF Call, rows
<1> SUFFICES ASSUME ~Overlapped("attach")', NEW u \in Workers, Pending(u, "attach")'
             PROVE  /\ calls'[u].doc \in Documents => attached'[calls'[u].doc] = {}
                    /\ \A v \in Workers \ {u} : ~Pending(v, "attach")'
  BY <1>2, <1>3 DEF AttachInTurn, Overlapped
<1>4. ~Overlapped("attach")
  BY <1>2 DEF Overlapped
<1>5. CASE u = w
  <2>1. call.kind = "attach"
    BY <1>3, <1>5 DEF Pending
  <2>2. \A v \in Workers \ {w} : ~Pending(v, "attach")'
    BY <1>2, <2>1 DEF Overlapped, Pending
  <2> QED BY <1>1, <1>3, <1>5, <2>1, <2>2
<1>6. CASE u # w
  <2>1. Pending(u, "attach")
    BY <1>2, <1>6 DEF Pending
  <2>2. ~Pending(w, "attach")'
    BY <1>2, <1>3, <1>6, <2>1 DEF Overlapped, Pending
  <2>3. \A v \in Workers \ {u} : ~Pending(v, "attach")'
    BY <1>2, <1>4, <2>1, <2>2 DEF AttachInTurn, Pending
  <2> QED BY <1>2, <1>3, <1>4, <1>6, <2>1, <2>3 DEF AttachInTurn
<1> QED BY <1>5, <1>6

LEMMA AttachEnd ==
  ASSUME WorkflowInv, AttachInTurn, NEW w \in Workers, EndCall(w)
  PROVE  AttachInTurn'
<1> USE DEF WorkflowInv
<1>1. /\ \A v \in Workers \ {w} : calls'[v] = calls[v]
      /\ overlaps' = overlaps
      /\ ~Pending(w, "attach")'
  BY DEF EndCall, CommitCreate, NotifyReceived, CommitStatus, CommitAttach, CommitRemove,
         CommitFee, CommitWaiver, CommitReview, Abort, Ends, Pending, NoCall, TypeOK, Call
<1>2. \A v \in Workers : Pending(v, "attach")' =>
        v # w /\ Pending(v, "attach") /\ calls'[v].doc = calls[v].doc
  BY <1>1 DEF Pending
<1>3. CASE CommitAttach(w)
  <2> SUFFICES ASSUME ~Overlapped("attach")
               PROVE  /\ \A d \in Documents : \A m, n \in attached'[d] : m = n
                      /\ \A v \in Workers : ~Pending(v, "attach")'
    BY <1>1 DEF AttachInTurn, Overlapped
  <2>1. \A v \in Workers \ {w} : ~Pending(v, "attach")
    BY <1>3 DEF CommitAttach, AttachInTurn
  <2>2. ASSUME NEW d \in Documents, NEW m \in attached'[d], NEW n \in attached'[d] PROVE m = n
    <3>1. attached'[d] = IF d = calls[w].doc THEN attached[d] \cup {calls[w].number}
                         ELSE attached[d]
      BY <1>3 DEF CommitAttach, TypeOK
    <3>2. d = calls[w].doc => attached[d] = {}
      BY <1>3 DEF CommitAttach, AttachInTurn
    <3> QED BY <2>2, <3>1, <3>2 DEF AttachInTurn
  <2> QED BY <1>2, <2>1, <2>2
<1>4. ASSUME \A d \in Documents : attached'[d] \subseteq attached[d] PROVE AttachInTurn'
  BY <1>1, <1>2, <1>4 DEF AttachInTurn, Overlapped
<1>5. CASE CommitRemove(w)
  <2>1. \A d \in Documents : attached'[d] \subseteq attached[d]
    BY <1>5 DEF CommitRemove, TypeOK
  <2> QED BY <1>4, <2>1
<1>6. CASE ~CommitAttach(w) /\ ~CommitRemove(w)
  <2>1. attached' = attached
    BY <1>6 DEF EndCall, CommitCreate, NotifyReceived, CommitStatus, CommitFee, CommitWaiver,
                CommitReview, Abort, rows
  <2> QED BY <1>4, <2>1
<1> QED BY <1>3, <1>5, <1>6

\* A document is attached once unless two attach_document calls have overlapped,
\* although the check for a row and its insert are separate and unconstrained.
THEOREM AttachedOnceHolds == Spec => []AttachedOnce
<1>1. Init => AttachInTurn
  BY DEF Init, AttachInTurn, Pending, NoCall
<1>2. WorkflowInv /\ AttachInTurn /\ [Next]_vars => AttachInTurn'
  <2>1. ASSUME WorkflowInv, AttachInTurn, UNCHANGED vars PROVE AttachInTurn'
    BY <2>1 DEF AttachInTurn, vars, Overlapped, Pending
  <2> QED BY <2>1, AttachBegin, AttachEnd DEF Next
<1>3. WorkflowInv /\ AttachInTurn => AttachedOnce
  <2> SUFFICES ASSUME WorkflowInv, AttachInTurn, ~Overlapped("attach"), NEW d \in Documents
               PROVE  Cardinality(attached[d]) <= 1
    BY DEF AttachedOnce
  <2>1. attached[d] = {} \/ \E n : attached[d] = {n}
    BY DEF AttachInTurn
  <2>2. CASE attached[d] = {}
    <3>1. Cardinality(attached[d]) = 0
      BY <2>2, FS_EmptySet, Zenon
    <3> QED BY <3>1
  <2>3. CASE \E n : attached[d] = {n}
    <3>1. PICK n : attached[d] = {n}
      BY <2>3
    <3>2. Cardinality(attached[d]) = 1
      BY <3>1, FS_Singleton, Zenon
    <3> QED BY <3>2
  <2> QED BY <2>1, <2>2, <2>3
<1> QED BY <1>1, <1>2, <1>3, WorkflowInvariance, PTL DEF Spec

\* A granted waiver is undone by nothing but a new line item, however calls
\* that read the request before it was granted overlap with the grant.
THEOREM WaivedHolds == Spec => WaivedUntilFee
<1> DEFINE Kept == feeStatus = "waived" /\ items' = items => feeStatus' = "waived"
<1>1. ASSUME WorkflowInv, NEW w \in Workers, BeginCall(w) PROVE Kept
  <2>1. PICK call \in Call : Begin(w, call)
    BY <1>1, BeginForms DEF WorkflowInv
  <2> QED BY <2>1 DEF Begin, rows
<1>2. ASSUME WorkflowInv, NEW w \in Workers, EndCall(w) PROVE Kept
  <2>1. CASE CommitFee(w)
    <3>1. items' # items
      BY <1>2, <2>1 DEF CommitFee, WorkflowInv, TypeOK
    <3> QED BY <3>1
  <2>2. CASE ~CommitFee(w)
    BY <1>2, <2>2 DEF EndCall, CommitCreate, NotifyReceived, CommitStatus, CommitAttach,
          CommitRemove, CommitWaiver, CommitReview, Written, Abort, rows
  <2> QED BY <2>1, <2>2
<1>3. WorkflowInv /\ [Next]_vars => [Kept]_vars
  BY <1>1, <1>2 DEF Next
<1> QED BY <1>3, WorkflowInvariance, PTL DEF Spec, WaivedUntilFee

-------------------------------------------------------------------------------
(* The lifecycle.                                                            *)

\* Overlaps are never forgotten.
LEMMA OverlapsGrow == ASSUME WorkflowInv, Next PROVE overlaps \subseteq overlaps'
<1>1. ASSUME NEW w \in Workers, BeginCall(w) PROVE overlaps \subseteq overlaps'
  <2>1. PICK call \in Call : Begin(w, call)
    BY <1>1, BeginForms DEF WorkflowInv
  <2> QED BY <2>1 DEF Begin
<1>2. ASSUME NEW w \in Workers, EndCall(w) PROVE overlaps \subseteq overlaps'
  BY <1>2 DEF EndCall, CommitCreate, NotifyReceived, CommitStatus, CommitAttach, CommitRemove,
              CommitFee, CommitWaiver, CommitReview, Abort, Ends
<1> QED BY <1>1, <1>2 DEF Next

LEMMA StatusStep ==
  ASSUME WorkflowInv, [Next]_vars, ~Overlapped("status")
  PROVE  status' = status \/ L!CanBecome(status, status')
<1>1. ASSUME NEW w \in Workers, BeginCall(w) PROVE status' = status
  <2>1. PICK call \in Call : Begin(w, call)
    BY <1>1, BeginForms DEF WorkflowInv
  <2> QED BY <2>1 DEF Begin, rows
<1>2. ASSUME NEW w \in Workers, EndCall(w)
      PROVE  status' = status \/ L!CanBecome(status, status')
  <2>1. CASE CommitCreate(w)
    BY <2>1 DEF CommitCreate, WorkflowInv, CreatedFirst, L!CanBecome
  <2>2. CASE CommitStatus(w)
    <3>1. Found /\ status' \in L!VALID_TRANSITIONS[status]
      BY <2>2 DEF CommitStatus, WorkflowInv, StatusInTurn
    <3>2. status \in L!RequestStatus
      BY <3>1 DEF WorkflowInv, TypeOK, Status, Found
    <3> QED BY <3>1, <3>2 DEF L!CanBecome
  <2>3. CASE NotifyReceived(w) \/ CommitAttach(w) \/ CommitRemove(w) \/ CommitFee(w)
             \/ CommitWaiver(w) \/ CommitReview(w) \/ Abort(w)
    BY <2>3 DEF NotifyReceived, CommitAttach, CommitRemove, CommitFee, CommitWaiver,
                CommitReview, Abort, rows
  <2> QED BY <1>2, <2>1, <2>2, <2>3 DEF EndCall
<1> QED BY <1>1, <1>2 DEF Next, vars

\* Until two status calls overlap, the status changes only as the lifecycle
\* allows, even though it is checked when a call begins and written when it ends.
THEOREM LifecycleHolds == Spec => LifecycleKept
<1>1. WorkflowInv /\ [Next]_vars =>
        [~Overlapped("status") => status' = status \/ L!CanBecome(status, status')]_vars
  BY StatusStep
<1> QED BY <1>1, WorkflowInvariance, PTL DEF Spec, LifecycleKept

\* With status calls that take turns, the workflow implements the lifecycle.
THEOREM LifecycleImplementation == SerialSpec => LifecycleImplemented
<1>1. Init => L!LifecycleInit
  BY DEF Init, L!LifecycleInit, Status
<1>2. [Next /\ ~Overlapped("status")']_vars => [Next]_vars
  OBVIOUS
<1>3. WorkflowInv /\ [Next /\ ~Overlapped("status")']_vars => [L!LifecycleNext]_status
  <2> SUFFICES ASSUME WorkflowInv, Next, ~Overlapped("status")', status' # status
               PROVE  L!LifecycleNext
    BY DEF vars
  <2>1. ~Overlapped("status")
    BY OverlapsGrow DEF Overlapped
  <2>2. L!CanBecome(status, status')
    BY <2>1, StatusStep
  <2>3. status' \in L!RequestStatus
    <3>1. WorkflowInv'
      BY WorkflowStep
    <3>2. status' \in Status
      BY <3>1 DEF WorkflowInv, TypeOK, Status, L!RequestStatus
    <3>3. status' # "absent"
      BY <2>2, NoTransitionToAbsent DEF L!CanBecome
    <3> QED BY <3>2, <3>3 DEF Status
  <2> QED BY <2>2, <2>3 DEF L!LifecycleNext
<1> QED BY <1>1, <1>2, <1>3, WorkflowInitially, WorkflowStep, PTL
         DEF SerialSpec, LifecycleImplemented, L!LifecycleSpec
===============================================================================
