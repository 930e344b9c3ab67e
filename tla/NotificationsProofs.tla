-------------------------- MODULE NotificationsProofs --------------------------
(***************************************************************************)
(* Proofs about Notifications, for any number of requests, workers and     *)
(* rows: types, what deliveries and checks promise, and that deliveries    *)
(* that take turns implement Outbox.                                       *)
(***************************************************************************)
EXTENDS Notifications, TLAPS

USE NoticeAssumption DEF NoticeAssumption

\* A row that is not committed has not been mailed, belongs to a check in
\* progress, and one that is marked sent has been mailed.
Rows ==
  \A n \in Number :
    /\ log[n].status = "absent" => log[n] = NoRow
    /\ log[n].status # "absent" => log[n].request \in Requests
    /\ log[n].created_at <= now
    /\ log[n].tx # "none" => /\ log[n].status \in {"queued", "failed"}
                             /\ checks[log[n].tx].event = log[n].event
    /\ ~Committed(n) => mails[n] = 0
    /\ log[n].status = "sent" => mails[n] > 0

\* What a delivery holds is committed, and judged sent only after it was mailed.
Held ==
  \A w \in Workers :
    /\ ~deliveries[w].running => deliveries[w] = Resting
    /\ \A n \in Number :
         /\ n \in deliveries[w].todo => Committed(n) /\ deliveries[w].verdict[n] = "none"
         /\ deliveries[w].verdict[n] # "none" => Committed(n)
         /\ deliveries[w].verdict[n] = "sent" => mails[n] > 0

\* Without overlapping deliveries, one is running at most, what it holds is
\* still queued, and only what it has judged was mailed once more than crashes.
Turns ==
  "delivery" \notin overlaps =>
    /\ \A v, w \in Workers : deliveries[v].running /\ deliveries[w].running => v = w
    /\ \A w \in Workers, n \in Number :
         n \in deliveries[w].todo \/ deliveries[w].verdict[n] # "none" => log[n].status = "queued"
    /\ \A n \in Number :
         /\ mails[n] <= crashes + 1
         /\ log[n].status = "queued" /\ (\A w \in Workers : deliveries[w].verdict[n] = "none")
              => mails[n] <= crashes

\* Without overlapping checks of an event, one is in progress at most.
CheckTurns ==
  \A event \in Events \ overlaps :
    \A v, w \in Workers : checks[v].event = event /\ checks[w].event = event => v = w

\* The requests a check has yet to look at were open when it began.
StillDue ==
  \A w \in Workers :
    /\ checks[w].began <= now
    /\ \A r \in checks[w].todo : requests[r].closed_at \in {0} \cup checks[w].began .. MaxTime

NoticeInv ==
  TypeOK /\ Rows /\ Held /\ Turns /\ CheckTurns /\ StillDue /\ ToldOnce /\ NoticeWasDue

-------------------------------------------------------------------------------
(* Types.                                                                    *)

LEMMA RowTypes == NoRow \in Row /\ Resting \in Delivery /\ NoCheck \in Check
<1>1. NoRow \in Row
  BY DEF NoRow, Row, Events
<1>2. Resting \in Delivery
  BY DEF Resting, Delivery
<1>3. NoCheck \in Check
  BY DEF NoCheck, Check
<1> QED BY <1>1, <1>2, <1>3

LEMMA NoticeInitInv == Init => NoticeInv
<1> SUFFICES ASSUME Init PROVE NoticeInv
  OBVIOUS
<1>1. TypeOK
  <2>1. requests \in [Requests -> Request]
    BY DEF Init, Request
  <2>2. now \in Time
    BY DEF Init, Time
  <2> QED BY <2>1, <2>2, RowTypes DEF Init, TypeOK, Template, Number
<1>2. Rows
  BY DEF Init, Rows, NoRow, Committed, Number
<1>3. Held
  BY DEF Init, Held, Resting
<1>4. Turns
  BY DEF Init, Turns, Resting, NoRow
<1>5. CheckTurns /\ StillDue
  BY DEF Init, CheckTurns, StillDue, NoCheck, Events
<1>6. ToldOnce /\ NoticeWasDue
  BY DEF Init, ToldOnce, NoticeWasDue, Recent, NoRow
<1> QED BY <1>1, <1>2, <1>3, <1>4, <1>5, <1>6 DEF NoticeInv

\* What a check adds to the log: nothing, or one row of its own transaction.
LEMMA CheckAdds ==
  ASSUME TypeOK, NEW w \in Workers, NEW r \in Requests, CheckRequest(w, r)
  PROVE  \/ UNCHANGED log
         \/ \E n \in Number : \E row \in Row :
              /\ log[n] = NoRow
              /\ log' = [log EXCEPT ![n] = row]
              /\ row.status \in {"queued", "failed"} /\ row.request = r
              /\ row.event = checks[w].event /\ row.created_at = checks[w].began
              /\ row.tx = w
              /\ AlreadyNotified(w, r) = {}
<1> SUFFICES ASSUME ~UNCHANGED log
             PROVE  \E n \in Number : \E row \in Row :
                      /\ log[n] = NoRow
                      /\ log' = [log EXCEPT ![n] = row]
                      /\ row.status \in {"queued", "failed"} /\ row.request = r
                      /\ row.event = checks[w].event /\ row.created_at = checks[w].began
                      /\ row.tx = w
                      /\ AlreadyNotified(w, r) = {}
  OBVIOUS
<1> DEFINE row == Rendered(checks[w].event, r, checks[w].began, w)
<1>1. PICK n \in Number : log[n] = NoRow /\ log' = [log EXCEPT ![n] = row]
  BY DEF CheckRequest, QueueNotification
<1>2. checks[w].event \in Events /\ checks[w].began \in {0} \cup Time
  BY DEF CheckRequest, TypeOK, Check
<1>3. row \in Row
  BY <1>2 DEF Rendered, Row
<1>4. /\ row.status \in {"queued", "failed"} /\ row.request = r
      /\ row.event = checks[w].event /\ row.created_at = checks[w].began
      /\ row.tx = w
  BY DEF Rendered
<1>5. AlreadyNotified(w, r) = {}
  BY DEF CheckRequest
<1> HIDE DEF row
<1> QED BY <1>1, <1>3, <1>4, <1>5

LEMMA NoticeNextType == TypeOK /\ [Next]_vars => TypeOK'
<1> SUFFICES ASSUME TypeOK, [Next]_vars PROVE TypeOK'
  OBVIOUS
<1>1. ASSUME NEW r \in Requests, UpdateRequest(r) PROVE TypeOK'
  <2>1. now \in Time /\ requests[r] \in Request /\ requests \in [Requests -> Request]
    BY DEF TypeOK
  <2>2. \E t \in Time : \E request \in {[requests[r] EXCEPT !.closed_at = t],
                                        [requests[r] EXCEPT !.assigned = TRUE],
                                        [requests[r] EXCEPT !.deadline = t]} :
          requests' = [requests EXCEPT ![r] = request]
    BY <1>1, <2>1 DEF UpdateRequest
  <2>3. \A t \in Time : /\ [requests[r] EXCEPT !.closed_at = t] \in Request
                        /\ [requests[r] EXCEPT !.assigned = TRUE] \in Request
                        /\ [requests[r] EXCEPT !.deadline = t] \in Request
    BY <2>1 DEF Request
  <2>4. requests' \in [Requests -> Request]
    BY <2>1, <2>2, <2>3
  <2>5. changes' \in 0 .. MaxChanges
    BY <1>1 DEF UpdateRequest, Change, TypeOK
  <2> QED BY <1>1, <2>4, <2>5 DEF UpdateRequest, TypeOK
<1>2. ASSUME NEW event \in Events, UpdateTemplate(event) PROVE TypeOK'
  <2>1. templates' \in [Events -> Template]
    BY <1>2 DEF UpdateTemplate, TypeOK
  <2>2. changes' \in 0 .. MaxChanges
    BY <1>2 DEF UpdateTemplate, Change, TypeOK
  <2> QED BY <1>2, <2>1, <2>2 DEF UpdateTemplate, TypeOK
<1>3. CASE Tick
  BY <1>3 DEF Tick, TypeOK, Time
<1>4. ASSUME NEW w \in Workers, StartDelivery(w) PROVE TypeOK'
  <2>1. [Resting EXCEPT !.running = TRUE, !.todo = Queued] \in Delivery
    BY DEF Resting, Delivery, Queued
  <2>2. deliveries' \in [Workers -> Delivery]
    BY <1>4, <2>1 DEF StartDelivery, TypeOK
  <2>3. overlaps' \in SUBSET (Events \cup {"delivery"})
    BY <1>4 DEF StartDelivery, TypeOK
  <2> QED BY <1>4, <2>2, <2>3 DEF StartDelivery, TypeOK
<1>5. ASSUME NEW w \in Workers, NEW n \in Number, SkipRow(w, n) \/ SendRow(w, n) PROVE TypeOK'
  <2>1. PICK verdict \in {"sent", "failed"} : Judge(w, n, verdict)
    BY <1>5 DEF SkipRow, SendRow
  <2>2. deliveries' \in [Workers -> Delivery]
    <3> DEFINE judged == [running |-> TRUE, todo |-> deliveries[w].todo \ {n},
                          verdict |-> [deliveries[w].verdict EXCEPT ![n] = verdict]]
    <3>1. deliveries' = [deliveries EXCEPT ![w] = judged]
      BY <2>1 DEF Judge
    <3>2. judged \in Delivery
      BY DEF Delivery, TypeOK
    <3> QED BY <3>1, <3>2 DEF TypeOK
  <2>3. mails' \in [Number -> Nat]
    <3>1. mails' = mails \/ mails' = [mails EXCEPT ![n] = @ + 1]
      BY <1>5 DEF SkipRow, SendRow
    <3>2. mails \in [Number -> Nat] /\ mails[n] + 1 \in Nat
      BY DEF TypeOK
    <3> QED BY <3>1, <3>2
  <2> QED BY <1>5, <2>2, <2>3 DEF SkipRow, SendRow, TypeOK
<1>6. ASSUME NEW w \in Workers, CommitDelivery(w) PROVE TypeOK'
  <2>1. \A n \in Number : deliveries[w].verdict[n] \in {"none", "sent", "failed"}
    BY DEF TypeOK, Delivery
  <2>2. log' \in [Number -> Row]
    <3>1. \A n \in Number : \A v \in {"sent", "failed"} : [log[n] EXCEPT !.status = v] \in Row
      BY DEF TypeOK, Row
    <3>2. \A n \in Number : log'[n] \in Row
      BY <1>6, <2>1, <3>1 DEF CommitDelivery, TypeOK
    <3> QED BY <1>6, <3>2 DEF CommitDelivery
  <2> QED BY <1>6, <2>2, RowTypes DEF CommitDelivery, TypeOK
<1>7. ASSUME NEW w \in Workers, CrashDelivery(w) PROVE TypeOK'
  BY <1>7, RowTypes DEF CrashDelivery, TypeOK
<1>8. ASSUME NEW w \in Workers, NEW event \in Events, StartCheck(w, event) PROVE TypeOK'
  <2>1. [event |-> event, began |-> now, todo |-> {r \in Requests : Due(event, r)}] \in Check
    BY DEF Check, TypeOK
  <2>2. checks' \in [Workers -> Check]
    BY <1>8, <2>1 DEF StartCheck, TypeOK
  <2>3. overlaps' \in SUBSET (Events \cup {"delivery"})
    BY <1>8 DEF StartCheck, TypeOK
  <2> QED BY <1>8, <2>2, <2>3 DEF StartCheck, TypeOK
<1>9. ASSUME NEW w \in Workers, NEW r \in Requests, CheckRequest(w, r) PROVE TypeOK'
  <2>1. log' \in [Number -> Row]
    BY <1>9, CheckAdds DEF TypeOK
  <2>2. checks' \in [Workers -> Check]
    BY <1>9 DEF CheckRequest, TypeOK, Check
  <2> QED BY <1>9, <2>1, <2>2 DEF CheckRequest, TypeOK
<1>10. ASSUME NEW w \in Workers, CommitCheck(w) PROVE TypeOK'
  <2>1. log' \in [Number -> Row]
    <3>1. \A n \in Number : [log[n] EXCEPT !.tx = "none"] \in Row
      BY DEF TypeOK, Row
    <3> QED BY <1>10, <3>1 DEF CommitCheck, TypeOK
  <2> QED BY <1>10, <2>1, RowTypes DEF CommitCheck, TypeOK
<1>11. ASSUME NEW w \in Workers, FailCheck(w) PROVE TypeOK'
  <2>1. log' \in [Number -> Row]
    BY <1>11, RowTypes DEF FailCheck, TypeOK
  <2> QED BY <1>11, <2>1, RowTypes DEF FailCheck, TypeOK
<1>12. CASE UNCHANGED vars
  BY <1>12 DEF vars, TypeOK
<1> QED
  BY <1>1, <1>2, <1>3, <1>4, <1>5, <1>6, <1>7, <1>8, <1>9, <1>10, <1>11, <1>12 DEF Next

\* Every variable has its type (TypeOK), whatever is sent, crashes or overlaps.
THEOREM NoticeTypeCorrect == Spec => []TypeOK
<1>1. Init => TypeOK
  BY NoticeInitInv DEF NoticeInv
<1> QED BY <1>1, NoticeNextType, PTL DEF Spec

-------------------------------------------------------------------------------
(* What one row at a time of a delivery does.                                *)

LEMMA Judged ==
  ASSUME TypeOK, NEW w \in Workers, NEW n \in Number, NEW verdict, Judge(w, n, verdict)
  PROVE  /\ deliveries'[w].running
         /\ deliveries'[w].todo = deliveries[w].todo \ {n}
         /\ \A m \in Number :
              deliveries'[w].verdict[m] = IF m = n THEN verdict ELSE deliveries[w].verdict[m]
         /\ \A v \in Workers \ {w} : deliveries'[v] = deliveries[v]
<1>1. deliveries[w].verdict \in [Number -> {"none", "sent", "failed"}]
  BY DEF TypeOK, Delivery
<1> QED BY <1>1 DEF Judge, TypeOK

LEMMA Sends ==
  ASSUME TypeOK, NEW w \in Workers, NEW n \in Number, SkipRow(w, n) \/ SendRow(w, n)
  PROVE  /\ n \in deliveries[w].todo
         /\ \E verdict \in {"sent", "failed"} :
              /\ Judge(w, n, verdict)
              /\ \/ verdict = "failed" /\ mails' = mails
                 \/ mails' = [mails EXCEPT ![n] = @ + 1]
         /\ UNCHANGED <<now, requests, templates, log, checks, changes, crashes, overlaps>>
BY DEF SkipRow, SendRow, NextRow

\* A row that a delivery writes gets its verdict; no other row changes.
LEMMA Delivered ==
  ASSUME TypeOK, Held, NEW w \in Workers, CommitDelivery(w)
  PROVE  \A n \in Number :
           /\ \/ deliveries[w].verdict[n] = "none" /\ log'[n] = log[n]
              \/ /\ deliveries[w].verdict[n] \in {"sent", "failed"}
                 /\ log'[n].status = deliveries[w].verdict[n]
                 /\ Committed(n)
           /\ log'[n].tx = log[n].tx /\ log'[n].request = log[n].request
           /\ log'[n].event = log[n].event /\ log'[n].created_at = log[n].created_at
           /\ log'[n].status = "absent" => log'[n] = log[n]
<1> SUFFICES ASSUME NEW n \in Number
             PROVE  /\ \/ deliveries[w].verdict[n] = "none" /\ log'[n] = log[n]
                       \/ /\ deliveries[w].verdict[n] \in {"sent", "failed"}
                          /\ log'[n].status = deliveries[w].verdict[n]
                          /\ Committed(n)
                    /\ log'[n].tx = log[n].tx /\ log'[n].request = log[n].request
                    /\ log'[n].event = log[n].event /\ log'[n].created_at = log[n].created_at
                    /\ log'[n].status = "absent" => log'[n] = log[n]
  OBVIOUS
<1>1. deliveries[w].verdict[n] \in {"none", "sent", "failed"} /\ log[n] \in Row
  BY DEF TypeOK, Delivery
<1>2. deliveries[w].verdict[n] # "none" => Committed(n)
  BY DEF Held
<1>3. log'[n] = IF deliveries[w].verdict[n] = "none" THEN log[n]
                ELSE [log[n] EXCEPT !.status = deliveries[w].verdict[n]]
  BY DEF CommitDelivery
<1> QED BY <1>1, <1>2, <1>3 DEF Row

-------------------------------------------------------------------------------
(* Deliveries.                                                               *)

LEMMA RowsKept ==
  ASSUME TypeOK, Rows, Held, StillDue, [Next]_vars
  PROVE  Rows'
<1>1. ASSUME NEW r \in Requests, UpdateRequest(r) PROVE Rows'
  BY <1>1 DEF UpdateRequest, Rows, Committed
<1>2. ASSUME NEW event \in Events, UpdateTemplate(event) PROVE Rows'
  BY <1>2 DEF UpdateTemplate, Rows, Committed
<1>3. CASE Tick
  <2>1. \A n \in Number : log[n].created_at <= now => log[n].created_at <= now + 1
    BY DEF TypeOK, Row, Time
  <2> QED BY <1>3, <2>1 DEF Tick, Rows, Committed
<1>4. ASSUME NEW w \in Workers, StartDelivery(w) PROVE Rows'
  BY <1>4 DEF StartDelivery, Rows, Committed
<1>5. ASSUME NEW w \in Workers, NEW n \in Number, SkipRow(w, n) \/ SendRow(w, n) PROVE Rows'
  <2>1. Committed(n) /\ UNCHANGED <<now, log, checks>>
    BY <1>5, Sends DEF Held
  <2>2. \A m \in Number : /\ mails[m] > 0 => mails'[m] > 0
                          /\ m # n => mails'[m] = mails[m]
    BY <1>5, Sends DEF TypeOK
  <2> QED BY <2>1, <2>2 DEF Rows, Committed
<1>6. ASSUME NEW w \in Workers, CommitDelivery(w) PROVE Rows'
  <2>1. UNCHANGED <<now, mails, checks>>
    BY <1>6 DEF CommitDelivery
  <2> SUFFICES ASSUME NEW n \in Number
               PROVE  /\ log'[n].status = "absent" => log'[n] = NoRow
                      /\ log'[n].status # "absent" => log'[n].request \in Requests
                      /\ log'[n].created_at <= now
                      /\ log'[n].tx # "none" => /\ log'[n].status \in {"queued", "failed"}
                                               /\ checks[log'[n].tx].event = log'[n].event
                      /\ ~Committed(n)' => mails[n] = 0
                      /\ log'[n].status = "sent" => mails[n] > 0
    BY <2>1 DEF Rows
  <2>2. CASE log'[n] = log[n]
    BY <2>2 DEF Rows, Committed
  <2>3. CASE /\ deliveries[w].verdict[n] \in {"sent", "failed"}
             /\ log'[n].status = deliveries[w].verdict[n]
             /\ Committed(n)
    BY <1>6, <2>3, Delivered DEF Rows, Committed, Held
  <2> QED BY <1>6, <2>2, <2>3, Delivered
<1>7. ASSUME NEW w \in Workers, CrashDelivery(w) PROVE Rows'
  BY <1>7 DEF CrashDelivery, Rows, Committed
<1>8. ASSUME NEW w \in Workers, NEW event \in Events, StartCheck(w, event) PROVE Rows'
  <2>1. \A n \in Number : log[n].tx # w
    BY <1>8 DEF StartCheck, Idle, NoCheck, Rows, TypeOK, Row, Events
  <2>2. \A v \in Workers \ {w} : checks'[v] = checks[v]
    BY <1>8 DEF StartCheck, TypeOK
  <2>3. \A n \in Number : log[n].tx # "none" => checks'[log[n].tx].event = log[n].event
    BY <2>1, <2>2 DEF Rows, TypeOK, Row
  <2> QED BY <1>8, <2>3 DEF StartCheck, Rows, Committed
<1>9. ASSUME NEW w \in Workers, NEW r \in Requests, CheckRequest(w, r) PROVE Rows'
  <2>1. \A v \in Workers : checks'[v].event = checks[v].event
    BY <1>9 DEF CheckRequest, TypeOK, Check
  <2>2. UNCHANGED <<now, mails>>
    BY <1>9 DEF CheckRequest
  <2>3. CASE UNCHANGED log
    BY <2>1, <2>2, <2>3 DEF Rows, Committed, TypeOK, Row
  <2>4. CASE \E n \in Number : \E row \in Row :
               /\ log[n] = NoRow /\ log' = [log EXCEPT ![n] = row]
               /\ row.status \in {"queued", "failed"} /\ row.request = r
               /\ row.event = checks[w].event /\ row.created_at = checks[w].began
               /\ row.tx = w
    <3>1. PICK n \in Number, row \in Row :
               /\ log[n] = NoRow /\ log' = [log EXCEPT ![n] = row]
               /\ row.status \in {"queued", "failed"} /\ row.request = r
               /\ row.event = checks[w].event /\ row.created_at = checks[w].began
               /\ row.tx = w
      BY <2>4
    <3>2. mails[n] = 0 /\ checks[w].began <= now
      BY <3>1 DEF Rows, Committed, NoRow, StillDue
    <3>3. log'[n] = row /\ \A m \in Number \ {n} : log'[m] = log[m]
      BY <3>1 DEF TypeOK
    <3>4. \A m \in Number \ {n} :
            log[m].tx # "none" => log[m].tx \in Workers
      BY DEF TypeOK, Row
    <3> QED BY <2>1, <2>2, <3>1, <3>2, <3>3, <3>4 DEF Rows, Committed
  <2> QED BY <1>9, <2>3, <2>4, CheckAdds
<1>10. ASSUME NEW w \in Workers, CommitCheck(w) PROVE Rows'
  <2>1. UNCHANGED <<now, mails>>
    BY <1>10 DEF CommitCheck
  <2>2. \A v \in Workers \ {w} : checks'[v] = checks[v]
    BY <1>10 DEF CommitCheck, TypeOK
  <2> SUFFICES ASSUME NEW n \in Number
               PROVE  /\ log'[n].status = "absent" => log'[n] = NoRow
                      /\ log'[n].status # "absent" => log'[n].request \in Requests
                      /\ log'[n].created_at <= now
                      /\ log'[n].tx # "none" => /\ log'[n].status \in {"queued", "failed"}
                                               /\ checks'[log'[n].tx].event = log'[n].event
                      /\ ~Committed(n)' => mails[n] = 0
                      /\ log'[n].status = "sent" => mails[n] > 0
    BY <2>1 DEF Rows
  <2>3. log[n] \in Row
    BY DEF TypeOK
  <2>4. CASE log[n].tx = w
    <3>1. log'[n] = [log[n] EXCEPT !.tx = "none"]
      BY <1>10, <2>4 DEF CommitCheck
    <3>2. log[n].status \in {"queued", "failed"}
      BY <2>4 DEF Rows
    <3> QED BY <2>3, <3>1, <3>2 DEF Rows, Row, Committed
  <2>5. CASE log[n].tx # w
    <3>1. log'[n] = log[n]
      BY <1>10, <2>5 DEF CommitCheck
    <3>2. log[n].tx # "none" => log[n].tx \in Workers \ {w}
      BY <2>3, <2>5 DEF Row
    <3> QED BY <2>2, <3>1, <3>2 DEF Rows, Committed
  <2> QED BY <2>4, <2>5
<1>11. ASSUME NEW w \in Workers, FailCheck(w) PROVE Rows'
  <2>1. UNCHANGED <<now, mails>>
    BY <1>11 DEF FailCheck
  <2>2. \A v \in Workers \ {w} : checks'[v] = checks[v]
    BY <1>11 DEF FailCheck, TypeOK
  <2> SUFFICES ASSUME NEW n \in Number
               PROVE  /\ log'[n].status = "absent" => log'[n] = NoRow
                      /\ log'[n].status # "absent" => log'[n].request \in Requests
                      /\ log'[n].created_at <= now
                      /\ log'[n].tx # "none" => /\ log'[n].status \in {"queued", "failed"}
                                               /\ checks'[log'[n].tx].event = log'[n].event
                      /\ ~Committed(n)' => mails[n] = 0
                      /\ log'[n].status = "sent" => mails[n] > 0
    BY <2>1 DEF Rows
  <2>3. log[n] \in Row /\ now >= 0
    BY DEF TypeOK, Time
  <2>4. CASE log[n].tx = w
    <3>1. log'[n] = NoRow /\ ~Committed(n)
      BY <1>11, <2>4 DEF FailCheck, Committed
    <3> QED BY <2>3, <3>1 DEF Rows, NoRow
  <2>5. CASE log[n].tx # w
    <3>1. log'[n] = log[n]
      BY <1>11, <2>5 DEF FailCheck
    <3>2. log[n].tx # "none" => log[n].tx \in Workers \ {w}
      BY <2>3, <2>5 DEF Row
    <3> QED BY <2>2, <3>1, <3>2 DEF Rows, Committed
  <2> QED BY <2>4, <2>5
<1>12. CASE UNCHANGED vars
  BY <1>12 DEF vars, Rows, Committed
<1> QED
  BY <1>1, <1>2, <1>3, <1>4, <1>5, <1>6, <1>7, <1>8, <1>9, <1>10, <1>11, <1>12 DEF Next

\* Committed rows stay committed: only a check's own rows are rolled back.
LEMMA CommittedStay ==
  ASSUME TypeOK, Rows, Held, [Next]_vars, NEW n \in Number, Committed(n)
  PROVE  Committed(n)'
<1>1. ASSUME NEW r \in Requests, UpdateRequest(r) PROVE Committed(n)'
  BY <1>1 DEF UpdateRequest, Committed
<1>2. ASSUME NEW event \in Events, UpdateTemplate(event) PROVE Committed(n)'
  BY <1>2 DEF UpdateTemplate, Committed
<1>3. CASE Tick
  BY <1>3 DEF Tick, Committed
<1>4. ASSUME NEW w \in Workers, StartDelivery(w) PROVE Committed(n)'
  BY <1>4 DEF StartDelivery, Committed
<1>5. ASSUME NEW w \in Workers, NEW m \in Number, SkipRow(w, m) \/ SendRow(w, m)
      PROVE  Committed(n)'
  BY <1>5, Sends DEF Committed
<1>6. ASSUME NEW w \in Workers, CommitDelivery(w) PROVE Committed(n)'
  BY <1>6, Delivered DEF Committed
<1>7. ASSUME NEW w \in Workers, CrashDelivery(w) PROVE Committed(n)'
  BY <1>7 DEF CrashDelivery, Committed
<1>8. ASSUME NEW w \in Workers, NEW event \in Events, StartCheck(w, event) PROVE Committed(n)'
  BY <1>8 DEF StartCheck, Committed
<1>9. ASSUME NEW w \in Workers, NEW r \in Requests, CheckRequest(w, r) PROVE Committed(n)'
  BY <1>9, CheckAdds DEF Committed, NoRow, TypeOK
<1>10. ASSUME NEW w \in Workers, CommitCheck(w) PROVE Committed(n)'
  BY <1>10 DEF CommitCheck, Committed
<1>11. ASSUME NEW w \in Workers, FailCheck(w) PROVE Committed(n)'
  BY <1>11 DEF FailCheck, Committed
<1>12. CASE UNCHANGED vars
  BY <1>12 DEF vars, Committed
<1> QED
  BY <1>1, <1>2, <1>3, <1>4, <1>5, <1>6, <1>7, <1>8, <1>9, <1>10, <1>11, <1>12 DEF Next

\* Mails are never taken back.
LEMMA MailsGrow ==
  ASSUME TypeOK, [Next]_vars, NEW n \in Number
  PROVE  mails'[n] >= mails[n]
<1>1. ASSUME NEW w \in Workers, NEW m \in Number, SkipRow(w, m) \/ SendRow(w, m)
      PROVE  mails'[n] >= mails[n]
  <2>1. mails' = mails \/ mails' = [mails EXCEPT ![m] = @ + 1]
    BY <1>1, Sends
  <2> QED BY <2>1 DEF TypeOK
<1>2. CASE UNCHANGED mails
  BY <1>2 DEF TypeOK
<1> QED
  BY <1>1, <1>2 DEF Next, vars, UpdateRequest, UpdateTemplate, Tick, StartDelivery, CommitDelivery,
                    CrashDelivery, StartCheck, CheckRequest, CommitCheck, FailCheck

\* What a step does to the execution of a delivery.
LEMMA DeliverySteps ==
  ASSUME TypeOK, [Next]_vars
  PROVE  \/ UNCHANGED deliveries
         \/ \E w \in Workers : StartDelivery(w) \/ CommitDelivery(w) \/ CrashDelivery(w)
         \/ \E w \in Workers, n \in Number : SkipRow(w, n) \/ SendRow(w, n)
<1>1. ASSUME NEW w \in Workers, NEW r \in Requests, CheckRequest(w, r) PROVE UNCHANGED deliveries
  BY <1>1 DEF CheckRequest
<1>2. ASSUME NEW w \in Workers, NEW event \in Events, StartCheck(w, event)
      PROVE  UNCHANGED deliveries
  BY <1>2 DEF StartCheck
<1>3. ASSUME NEW w \in Workers, CommitCheck(w) \/ FailCheck(w) PROVE UNCHANGED deliveries
  BY <1>3 DEF CommitCheck, FailCheck
<1>4. ASSUME NEW r \in Requests, UpdateRequest(r) PROVE UNCHANGED deliveries
  BY <1>4 DEF UpdateRequest
<1>5. ASSUME NEW event \in Events, UpdateTemplate(event) PROVE UNCHANGED deliveries
  BY <1>5 DEF UpdateTemplate
<1>6. CASE Tick \/ UNCHANGED vars
  BY <1>6 DEF Tick, vars
<1>7. Next \/ UNCHANGED vars
  OBVIOUS
<1> QED BY <1>1, <1>2, <1>3, <1>4, <1>5, <1>6, <1>7 DEF Next

LEMMA HeldKept ==
  ASSUME TypeOK, Rows, Held, [Next]_vars
  PROVE  Held'
<1> DEFINE Good(d) ==
      /\ ~d.running => d = Resting
      /\ \A n \in Number :
           /\ n \in d.todo => Committed(n)' /\ d.verdict[n] = "none"
           /\ d.verdict[n] # "none" => Committed(n)'
           /\ d.verdict[n] = "sent" => mails'[n] > 0
<1>0. \A w \in Workers : Good(deliveries[w])
  <2>1. \A n \in Number : mails[n] > 0 => mails'[n] > 0
    BY MailsGrow, NoticeNextType DEF TypeOK
  <2>2. \A n \in Number : Committed(n) => Committed(n)'
    BY CommittedStay
  <2> QED BY <2>1, <2>2 DEF Held
<1>1. CASE UNCHANGED deliveries
  BY <1>0, <1>1 DEF Held
<1>2. ASSUME NEW w \in Workers, StartDelivery(w) PROVE Held'
  <2> DEFINE new == [Resting EXCEPT !.running = TRUE, !.todo = Queued]
  <2>1. deliveries' = [deliveries EXCEPT ![w] = new]
    BY <1>2 DEF StartDelivery
  <2>2. Good(new)
    BY CommittedStay DEF Resting, Queued
  <2>3. \A v \in Workers : Good(deliveries'[v])
    BY <1>0, <2>1, <2>2 DEF TypeOK
  <2> QED BY <2>3 DEF Held
<1>3. ASSUME NEW w \in Workers, CommitDelivery(w) \/ CrashDelivery(w) PROVE Held'
  <2>1. deliveries' = [deliveries EXCEPT ![w] = Resting]
    BY <1>3 DEF CommitDelivery, CrashDelivery
  <2>2. Good(Resting)
    BY DEF Resting
  <2>3. \A v \in Workers : Good(deliveries'[v])
    BY <1>0, <2>1, <2>2 DEF TypeOK
  <2> QED BY <2>3 DEF Held
<1>4. ASSUME NEW w \in Workers, NEW n \in Number, SkipRow(w, n) \/ SendRow(w, n) PROVE Held'
  <2>1. PICK verdict \in {"sent", "failed"} :
          /\ Judge(w, n, verdict)
          /\ \/ verdict = "failed" /\ mails' = mails
             \/ mails' = [mails EXCEPT ![n] = @ + 1]
    BY <1>4, Sends
  <2>2. verdict = "sent" => mails'[n] > 0
    BY <2>1 DEF TypeOK
  <2>3. Committed(n)'
    BY <1>4, Sends, CommittedStay DEF Held
  <2>4. /\ deliveries'[w].running
        /\ deliveries'[w].todo = deliveries[w].todo \ {n}
        /\ \A m \in Number :
             deliveries'[w].verdict[m] = IF m = n THEN verdict ELSE deliveries[w].verdict[m]
        /\ \A v \in Workers \ {w} : deliveries'[v] = deliveries[v]
    BY <2>1, Judged
  <2>5. Good(deliveries'[w])
    BY <1>0, <2>2, <2>3, <2>4
  <2>6. \A v \in Workers : Good(deliveries'[v])
    BY <1>0, <2>4, <2>5
  <2> QED BY <2>6 DEF Held
<1> QED BY <1>1, <1>2, <1>3, <1>4, DeliverySteps

\* Overlaps are remembered.
LEMMA OverlapsGrow ==
  ASSUME TypeOK, [Next]_vars
  PROVE  overlaps \subseteq overlaps'
<1>1. CASE UNCHANGED overlaps
  BY <1>1
<1>2. ASSUME NEW w \in Workers, NEW n \in Number, SkipRow(w, n) \/ SendRow(w, n)
      PROVE  UNCHANGED overlaps
  BY <1>2, Sends
<1> QED
  BY <1>1, <1>2 DEF Next, vars, UpdateRequest, UpdateTemplate, Tick, StartDelivery, CommitDelivery,
                    CrashDelivery, StartCheck, CheckRequest, CommitCheck, FailCheck

LEMMA TurnsKept ==
  ASSUME TypeOK, Rows, Held, Turns, [Next]_vars
  PROVE  Turns'
<1> SUFFICES ASSUME "delivery" \notin overlaps' PROVE Turns'
  BY DEF Turns
<1>0. /\ \A v, w \in Workers : deliveries[v].running /\ deliveries[w].running => v = w
      /\ \A w \in Workers, n \in Number :
           n \in deliveries[w].todo \/ deliveries[w].verdict[n] # "none" => log[n].status = "queued"
      /\ \A n \in Number :
           /\ mails[n] <= crashes + 1
           /\ log[n].status = "queued" /\ (\A w \in Workers : deliveries[w].verdict[n] = "none")
                => mails[n] <= crashes
  BY OverlapsGrow DEF Turns
<1>1. ASSUME NEW r \in Requests, UpdateRequest(r) PROVE Turns'
  BY <1>0, <1>1 DEF UpdateRequest, Turns
<1>2. ASSUME NEW event \in Events, UpdateTemplate(event) PROVE Turns'
  BY <1>0, <1>2 DEF UpdateTemplate, Turns
<1>3. CASE Tick
  BY <1>0, <1>3 DEF Tick, Turns
<1>4. ASSUME NEW w \in Workers, StartDelivery(w) PROVE Turns'
  <2>1. \A v \in Workers : ~deliveries[v].running
    BY <1>4 DEF StartDelivery
  <2>2. \A v \in Workers, n \in Number : deliveries[v].verdict[n] = "none"
    BY <2>1 DEF Held, Resting
  <2>3. /\ deliveries'[w] = [Resting EXCEPT !.running = TRUE, !.todo = Queued]
        /\ \A v \in Workers \ {w} : deliveries'[v] = Resting
    BY <1>4, <2>1 DEF StartDelivery, Held, TypeOK
  <2>4. \A v \in Workers, n \in Number :
          /\ deliveries'[v].verdict[n] = "none"
          /\ n \in deliveries'[v].todo => log[n].status = "queued"
    <3>1. \A n \in Number : /\ deliveries'[w].verdict[n] = "none"
                            /\ n \in deliveries'[w].todo => log[n].status = "queued"
      BY <2>3 DEF Resting, Queued
    <3>2. \A v \in Workers \ {w}, n \in Number : /\ deliveries'[v].verdict[n] = "none"
                                               /\ n \notin deliveries'[v].todo
      BY <2>3 DEF Resting
    <3> QED BY <3>1, <3>2
  <2>5. \A v \in Workers : deliveries'[v].running => v = w
    BY <2>3 DEF Resting
  <2>6. UNCHANGED <<log, mails, crashes>>
    BY <1>4 DEF StartDelivery
  <2> QED BY <1>0, <2>2, <2>4, <2>5, <2>6 DEF Turns
<1>5. ASSUME NEW w \in Workers, NEW n \in Number, SkipRow(w, n) \/ SendRow(w, n) PROVE Turns'
  <2>1. PICK verdict \in {"sent", "failed"} :
          /\ Judge(w, n, verdict)
          /\ \/ verdict = "failed" /\ mails' = mails
             \/ mails' = [mails EXCEPT ![n] = @ + 1]
    BY <1>5, Sends
  <2>2. /\ deliveries'[w].running
        /\ deliveries'[w].todo = deliveries[w].todo \ {n}
        /\ \A m \in Number :
             deliveries'[w].verdict[m] = IF m = n THEN verdict ELSE deliveries[w].verdict[m]
        /\ \A v \in Workers \ {w} : deliveries'[v] = deliveries[v]
    BY <2>1, Judged
  <2>3. n \in deliveries[w].todo /\ UNCHANGED <<log, crashes>>
    BY <1>5, Sends
  <2>4. deliveries[w].running /\ deliveries[w].verdict[n] = "none"
    BY <2>3 DEF Held, Resting
  <2>5. \A v \in Workers \ {w} : deliveries[v] = Resting
    BY <1>0, <2>4 DEF Held
  <2>6. log[n].status = "queued" /\ mails[n] <= crashes
    BY <1>0, <2>3, <2>4, <2>5 DEF Resting
  <2>7. /\ mails'[n] <= crashes + 1
        /\ \A m \in Number \ {n} : mails'[m] = mails[m]
    BY <2>1, <2>6 DEF TypeOK
  <2>8. \A v, u \in Workers : deliveries'[v].running /\ deliveries'[u].running => v = u
    BY <2>2, <2>5 DEF Resting
  <2>9. \A v \in Workers, m \in Number :
          m \in deliveries'[v].todo \/ deliveries'[v].verdict[m] # "none"
            => log'[m].status = "queued"
    BY <1>0, <2>2, <2>3, <2>6
  <2>10. \A m \in Number :
          /\ mails'[m] <= crashes' + 1
          /\ log'[m].status = "queued"
                /\ (\A v \in Workers : deliveries'[v].verdict[m] = "none")
               => mails'[m] <= crashes'
    <3> SUFFICES ASSUME NEW m \in Number
                 PROVE  /\ mails'[m] <= crashes' + 1
                        /\ log'[m].status = "queued"
                              /\ (\A v \in Workers : deliveries'[v].verdict[m] = "none")
                             => mails'[m] <= crashes'
      OBVIOUS
    <3>1. CASE m = n
      <4>1. deliveries'[w].verdict[n] # "none"
        BY <2>2
      <4> QED BY <2>3, <2>7, <3>1, <4>1
    <3>2. CASE m # n
      BY <1>0, <2>2, <2>3, <2>7, <3>2
    <3> QED BY <3>1, <3>2
  <2> QED BY <2>8, <2>9, <2>10 DEF Turns
<1>6. ASSUME NEW w \in Workers, CommitDelivery(w) PROVE Turns'
  <2>1. deliveries[w].running
    BY <1>6 DEF CommitDelivery
  <2>2. \A v \in Workers \ {w} : deliveries[v] = Resting
    BY <1>0, <2>1 DEF Held
  <2>3. \A v \in Workers : deliveries'[v] = Resting
    BY <1>6, <2>2 DEF CommitDelivery, TypeOK
  <2>4. UNCHANGED <<mails, crashes>>
    BY <1>6 DEF CommitDelivery
  <2>5. \A n \in Number : log'[n].status = "queued" =>
          log[n] = log'[n] /\ deliveries[w].verdict[n] = "none"
    BY <1>6, Delivered
  <2>6. \A n \in Number : log'[n].status = "queued" =>
          \A v \in Workers : deliveries[v].verdict[n] = "none"
    BY <2>2, <2>5 DEF Resting
  <2>7. \A n \in Number : log'[n].status = "queued" => mails[n] <= crashes
    BY <1>0, <2>5, <2>6
  <2> QED BY <1>0, <2>3, <2>4, <2>7 DEF Turns, Resting
<1>7. ASSUME NEW w \in Workers, CrashDelivery(w) PROVE Turns'
  <2>1. deliveries[w].running /\ crashes' = crashes + 1 /\ UNCHANGED <<mails, log>>
    BY <1>7 DEF CrashDelivery
  <2>2. \A v \in Workers \ {w} : deliveries[v] = Resting
    BY <1>0, <2>1 DEF Held
  <2>3. \A v \in Workers : deliveries'[v] = Resting
    BY <1>7, <2>2 DEF CrashDelivery, TypeOK
  <2>4. \A n \in Number : mails[n] <= crashes' /\ mails[n] <= crashes' + 1
    BY <1>0, <2>1 DEF TypeOK
  <2> QED BY <2>1, <2>3, <2>4 DEF Turns, Resting
<1>8. ASSUME NEW w \in Workers, NEW event \in Events, StartCheck(w, event) PROVE Turns'
  BY <1>0, <1>8 DEF StartCheck, Turns
<1>9. ASSUME NEW w \in Workers, NEW r \in Requests, CheckRequest(w, r) PROVE Turns'
  <2>1. UNCHANGED <<deliveries, mails, crashes>>
    BY <1>9 DEF CheckRequest
  <2>2. \A n \in Number : log'[n] # log[n] => log[n] = NoRow
    BY <1>9, CheckAdds DEF TypeOK
  <2>3. \A n \in Number : log'[n] # log[n] => mails[n] = 0 /\ log[n].status = "absent"
    BY <2>2 DEF Rows, Committed, NoRow
  <2>4. \A n \in Number : mails[n] = 0 => mails[n] <= crashes
    BY DEF TypeOK
  <2> QED BY <1>0, <2>1, <2>3, <2>4 DEF Turns
<1>10. ASSUME NEW w \in Workers, CommitCheck(w) PROVE Turns'
  <2>1. UNCHANGED <<deliveries, mails, crashes>>
    BY <1>10 DEF CommitCheck
  <2>2. \A n \in Number : log'[n].status = log[n].status
    BY <1>10 DEF CommitCheck, TypeOK, Row
  <2> QED BY <1>0, <2>1, <2>2 DEF Turns
<1>11. ASSUME NEW w \in Workers, FailCheck(w) PROVE Turns'
  <2>1. UNCHANGED <<deliveries, mails, crashes>>
    BY <1>11 DEF FailCheck
  <2>2. \A n \in Number : log'[n] = log[n] \/ (~Committed(n) /\ log'[n] = NoRow)
    BY <1>11 DEF FailCheck, Committed
  <2>3. \A n \in Number, v \in Workers :
          n \in deliveries[v].todo \/ deliveries[v].verdict[n] # "none" => log'[n] = log[n]
    BY <2>2 DEF Held
  <2> QED BY <1>0, <2>1, <2>2, <2>3 DEF Turns, NoRow
<1>12. CASE UNCHANGED vars
  BY <1>0, <1>12 DEF vars, Turns
<1> QED
  BY <1>1, <1>2, <1>3, <1>4, <1>5, <1>6, <1>7, <1>8, <1>9, <1>10, <1>11, <1>12 DEF Next

-------------------------------------------------------------------------------
(* Checks of deadlines.                                                      *)

LEMMA CheckTurnsKept ==
  ASSUME TypeOK, CheckTurns, [Next]_vars
  PROVE  CheckTurns'
<1>0. overlaps \subseteq overlaps'
  BY OverlapsGrow
<1>1. CASE UNCHANGED checks
  BY <1>0, <1>1 DEF CheckTurns
<1>2. ASSUME NEW w \in Workers, NEW event \in Events, StartCheck(w, event) PROVE CheckTurns'
  <2>1. /\ checks'[w].event = event
        /\ \A v \in Workers \ {w} : checks'[v] = checks[v]
    BY <1>2 DEF StartCheck, TypeOK
  <2>2. event \notin overlaps' => \A v \in Workers : checks[v].event # event
    BY <1>2 DEF StartCheck
  <2> QED BY <1>0, <2>1, <2>2 DEF CheckTurns
<1>3. ASSUME NEW w \in Workers, NEW r \in Requests, CheckRequest(w, r) PROVE CheckTurns'
  <2>1. \A v \in Workers : checks'[v].event = checks[v].event
    BY <1>3 DEF CheckRequest, TypeOK, Check
  <2> QED BY <1>0, <2>1 DEF CheckTurns
<1>4. ASSUME NEW w \in Workers, CommitCheck(w) \/ FailCheck(w) PROVE CheckTurns'
  <2>1. /\ checks'[w].event = "none"
        /\ \A v \in Workers \ {w} : checks'[v] = checks[v]
    BY <1>4 DEF CommitCheck, FailCheck, NoCheck, TypeOK
  <2>2. "none" \notin Events
    BY DEF Events
  <2> QED BY <1>0, <2>1, <2>2 DEF CheckTurns
<1>5. ASSUME NEW w \in Workers, NEW n \in Number, SkipRow(w, n) \/ SendRow(w, n)
      PROVE  UNCHANGED checks
  BY <1>5, Sends
<1>6. ASSUME NEW w \in Workers, StartDelivery(w) \/ CommitDelivery(w) \/ CrashDelivery(w)
      PROVE  UNCHANGED checks
  BY <1>6 DEF StartDelivery, CommitDelivery, CrashDelivery
<1>7. ASSUME NEW r \in Requests, UpdateRequest(r) PROVE UNCHANGED checks
  BY <1>7 DEF UpdateRequest
<1>8. ASSUME NEW event \in Events, UpdateTemplate(event) PROVE UNCHANGED checks
  BY <1>8 DEF UpdateTemplate
<1>9. CASE Tick
  BY <1>1, <1>9 DEF Tick
<1>10. CASE UNCHANGED vars
  BY <1>1, <1>10 DEF vars
<1> QED BY <1>1, <1>2, <1>3, <1>4, <1>5, <1>6, <1>7, <1>8, <1>9, <1>10 DEF Next

LEMMA StillDueKept ==
  ASSUME TypeOK, StillDue, [Next]_vars
  PROVE  StillDue'
<1> USE DEF Time
<1>0. now \in Nat /\ now <= MaxTime
  BY DEF TypeOK
<1>1. CASE UNCHANGED <<checks, requests, now>>
  BY <1>1 DEF StillDue
<1>2. ASSUME NEW w \in Workers, NEW event \in Events, StartCheck(w, event) PROVE StillDue'
  <2>1. /\ checks'[w].began = now
        /\ checks'[w].todo = {r \in Requests : Due(event, r)}
        /\ \A v \in Workers \ {w} : checks'[v] = checks[v]
        /\ UNCHANGED <<requests, now>>
    BY <1>2 DEF StartCheck, TypeOK
  <2> QED BY <1>0, <2>1 DEF StillDue, Due
<1>3. ASSUME NEW w \in Workers, NEW r \in Requests, CheckRequest(w, r) PROVE StillDue'
  <2>1. \A v \in Workers : /\ checks'[v].began = checks[v].began
                           /\ checks'[v].todo \subseteq checks[v].todo
    BY <1>3 DEF CheckRequest, TypeOK, Check
  <2> QED BY <1>3, <2>1 DEF StillDue, CheckRequest
<1>4. ASSUME NEW w \in Workers, CommitCheck(w) \/ FailCheck(w) PROVE StillDue'
  <2>1. /\ checks'[w].began = 0 /\ checks'[w].todo = {}
        /\ \A v \in Workers \ {w} : checks'[v] = checks[v]
        /\ UNCHANGED <<requests, now>>
    BY <1>4 DEF CommitCheck, FailCheck, NoCheck, TypeOK
  <2> QED BY <1>0, <2>1 DEF StillDue
<1>5. ASSUME NEW w \in Workers, NEW n \in Number, SkipRow(w, n) \/ SendRow(w, n)
      PROVE  UNCHANGED <<checks, requests, now>>
  BY <1>5, Sends
<1>6. ASSUME NEW w \in Workers, StartDelivery(w) \/ CommitDelivery(w) \/ CrashDelivery(w)
      PROVE  UNCHANGED <<checks, requests, now>>
  BY <1>6 DEF StartDelivery, CommitDelivery, CrashDelivery
<1>7. ASSUME NEW q \in Requests, UpdateRequest(q) PROVE StillDue'
  <2>1. UNCHANGED <<checks, now>>
    BY <1>7 DEF UpdateRequest
  <2>2. \A r \in Requests : requests'[r].closed_at \in {requests[r].closed_at, now}
    BY <1>7 DEF UpdateRequest, TypeOK, Request
  <2>3. \A w \in Workers : checks[w].todo \subseteq Requests /\ checks[w].began \in Nat
    BY DEF TypeOK, Check
  <2> QED BY <1>0, <2>1, <2>2, <2>3 DEF StillDue
<1>8. ASSUME NEW event \in Events, UpdateTemplate(event)
      PROVE  UNCHANGED <<checks, requests, now>>
  BY <1>8 DEF UpdateTemplate
<1>9. CASE Tick
  <2>1. \A w \in Workers : checks[w].began <= now => checks[w].began <= now + 1
    BY <1>0 DEF TypeOK, Check
  <2> QED BY <1>9, <2>1 DEF Tick, StillDue
<1>10. CASE UNCHANGED vars
  BY <1>1, <1>10 DEF vars
<1> QED BY <1>1, <1>2, <1>3, <1>4, <1>5, <1>6, <1>7, <1>8, <1>9, <1>10 DEF Next

\* No step but a check's adds a row, or changes whom a row is about.
LEMMA RowsAbout ==
  ASSUME TypeOK, Rows, Held, [Next]_vars,
         ~ \E w \in Workers, r \in Requests : CheckRequest(w, r)
  PROVE  \A n \in Number :
           \/ log'[n] = NoRow
           \/ /\ log'[n].request = log[n].request /\ log'[n].event = log[n].event
              /\ log'[n].created_at = log[n].created_at
<1>1. CASE UNCHANGED log
  BY <1>1
<1>2. ASSUME NEW w \in Workers, CommitDelivery(w)
      PROVE  \A n \in Number : /\ log'[n].request = log[n].request /\ log'[n].event = log[n].event
                               /\ log'[n].created_at = log[n].created_at
  BY <1>2, Delivered
<1>3. ASSUME NEW w \in Workers, CommitCheck(w)
      PROVE  \A n \in Number : /\ log'[n].request = log[n].request /\ log'[n].event = log[n].event
                               /\ log'[n].created_at = log[n].created_at
  BY <1>3 DEF CommitCheck, TypeOK, Row
<1>4. ASSUME NEW w \in Workers, FailCheck(w)
      PROVE  \A n \in Number : log'[n] = NoRow \/ log'[n] = log[n]
  BY <1>4 DEF FailCheck
<1>5. ASSUME NEW w \in Workers, NEW n \in Number, SkipRow(w, n) \/ SendRow(w, n)
      PROVE  UNCHANGED log
  BY <1>5, Sends
<1>6. ASSUME NEW w \in Workers, StartDelivery(w) \/ CrashDelivery(w) PROVE UNCHANGED log
  BY <1>6 DEF StartDelivery, CrashDelivery
<1>7. ASSUME NEW q \in Requests, UpdateRequest(q) PROVE UNCHANGED log
  BY <1>7 DEF UpdateRequest
<1>8. ASSUME NEW event \in Events, UpdateTemplate(event) PROVE UNCHANGED log
  BY <1>8 DEF UpdateTemplate
<1>9. ASSUME NEW w \in Workers, NEW event \in Events, StartCheck(w, event) PROVE UNCHANGED log
  BY <1>9 DEF StartCheck
<1>10. CASE Tick
  BY <1>1, <1>10 DEF Tick
<1>11. CASE UNCHANGED vars
  BY <1>1, <1>11 DEF vars
<1> QED
  BY <1>1, <1>2, <1>3, <1>4, <1>5, <1>6, <1>7, <1>8, <1>9, <1>10, <1>11 DEF Next

LEMMA ClockGrows ==
  ASSUME TypeOK, [Next]_vars
  PROVE  now' >= now
<1>1. ASSUME NEW w \in Workers, NEW n \in Number, SkipRow(w, n) \/ SendRow(w, n)
      PROVE  UNCHANGED now
  BY <1>1, Sends
<1> QED
  BY <1>1 DEF Next, vars, UpdateRequest, UpdateTemplate, Tick, StartDelivery, CommitDelivery, TypeOK,
              CrashDelivery, StartCheck, CheckRequest, CommitCheck, FailCheck, Time

LEMMA ToldOnceKept ==
  ASSUME TypeOK, Rows, Held, CheckTurns, ToldOnce, [Next]_vars
  PROVE  ToldOnce'
<1> SUFFICES ASSUME NEW event \in Events \ overlaps', NEW r \in Requests,
                    NEW m \in Recent(r, event)', NEW n \in Recent(r, event)'
             PROVE  m = n
  BY DEF ToldOnce
<1>0. event \in Events \ overlaps /\ m \in Number /\ n \in Number
  BY OverlapsGrow DEF Recent
<1>1. NoRow.request # r
  BY DEF NoRow
<1>2. \A k \in Number : log[k].created_at \in Nat
  BY DEF TypeOK, Row, Time
<1>3. now \in Nat /\ now' \in Nat /\ now' >= now
  BY ClockGrows, NoticeNextType DEF TypeOK, Time
<1>4. ASSUME NEW k \in Recent(r, event)', log'[k].request = log[k].request,
             log'[k].event = log[k].event, log'[k].created_at = log[k].created_at
      PROVE  k \in Recent(r, event)
  BY <1>2, <1>3, <1>4 DEF Recent
<1>5. CASE ~ \E w \in Workers, q \in Requests : CheckRequest(w, q)
  <2>1. \A k \in Number :
           \/ log'[k] = NoRow
           \/ /\ log'[k].request = log[k].request /\ log'[k].event = log[k].event
              /\ log'[k].created_at = log[k].created_at
    BY <1>5, RowsAbout
  <2>2. \A k \in Recent(r, event)' : k \in Recent(r, event)
    BY <1>1, <1>4, <2>1 DEF Recent
  <2> QED BY <1>0, <2>2 DEF ToldOnce
<1>6. ASSUME NEW w \in Workers, NEW q \in Requests, CheckRequest(w, q) PROVE m = n
  <2>1. CASE UNCHANGED log
    <3>1. m \in Recent(r, event) /\ n \in Recent(r, event)
      BY <1>4, <2>1
    <3> QED BY <1>0, <3>1 DEF ToldOnce
  <2>2. ASSUME NEW k \in Number, NEW row \in Row,
               log[k] = NoRow, log' = [log EXCEPT ![k] = row],
               row.request = q, row.event = checks[w].event, AlreadyNotified(w, q) = {}
        PROVE  m = n
    <3>1. log'[k] = row /\ \A i \in Number \ {k} : log'[i] = log[i]
      BY <2>2 DEF TypeOK
    <3>2. \A i \in Recent(r, event)' : i # k => i \in Recent(r, event)
      BY <1>4, <3>1 DEF Recent
    <3>3. CASE row.request = r /\ row.event = event
      <4>1. ASSUME NEW i \in Recent(r, event), i # k PROVE FALSE
        <5>1. i \in Number /\ log[i].request = r /\ log[i].event = event
              /\ log[i].created_at >= now - Dedup /\ log[i] \in Row
          BY <4>1 DEF Recent, TypeOK
        <5>2. log[i].status # "absent"
          BY <1>1, <5>1 DEF Rows
        <5>3. log[i].tx \notin {"none", w}
          BY <2>2, <3>3, <5>1, <5>2 DEF AlreadyNotified, Seen
        <5>4. log[i].tx \in Workers /\ checks[log[i].tx].event = event
          BY <5>1, <5>3 DEF Rows, Row
        <5>5. checks[w].event = event
          BY <2>2, <3>3
        <5> QED BY <1>0, <5>3, <5>4, <5>5 DEF CheckTurns
      <4> QED BY <3>2, <4>1
    <3>4. CASE ~(row.request = r /\ row.event = event)
      <4>1. k \notin Recent(r, event)'
        BY <3>1, <3>4 DEF Recent
      <4>2. m \in Recent(r, event) /\ n \in Recent(r, event)
        BY <3>2, <4>1
      <4> QED BY <1>0, <4>2 DEF ToldOnce
    <3> QED BY <3>3, <3>4
  <2> QED BY <1>6, <2>1, <2>2, CheckAdds
<1> QED BY <1>5, <1>6

LEMMA NoticeWasDueKept ==
  ASSUME TypeOK, Rows, Held, StillDue, NoticeWasDue, [Next]_vars
  PROVE  NoticeWasDue'
<1>0. now \in Nat /\ now <= MaxTime /\ \A n \in Number : log[n].created_at \in Nat
  BY DEF TypeOK, Row, Time
<1>1. \A r \in Requests : requests'[r].closed_at \in {requests[r].closed_at, now}
  <2>1. ASSUME NEW q \in Requests, UpdateRequest(q)
        PROVE  \A r \in Requests : requests'[r].closed_at \in {requests[r].closed_at, now}
    BY <2>1 DEF UpdateRequest, TypeOK, Request
  <2>2. ASSUME NEW w \in Workers, NEW n \in Number, SkipRow(w, n) \/ SendRow(w, n)
        PROVE  UNCHANGED requests
    BY <2>2, Sends
  <2> QED
    BY <2>1, <2>2 DEF Next, vars, UpdateTemplate, Tick, StartDelivery, CommitDelivery,
                      CrashDelivery, StartCheck, CheckRequest, CommitCheck, FailCheck
<1>2. ASSUME NEW n \in Number, log[n].request # "none"
      PROVE  requests'[log[n].request].closed_at \in {0} \cup log[n].created_at .. MaxTime
  <2>1. log[n].request \in Requests /\ log[n].created_at <= now
    BY <1>2 DEF TypeOK, Row, Rows
  <2> QED BY <1>0, <1>1, <1>2, <2>1 DEF NoticeWasDue
<1>3. CASE ~ \E w \in Workers, q \in Requests : CheckRequest(w, q)
  <2>1. \A k \in Number :
           \/ log'[k] = NoRow
           \/ /\ log'[k].request = log[k].request /\ log'[k].event = log[k].event
              /\ log'[k].created_at = log[k].created_at
    BY <1>3, RowsAbout
  <2>2. NoRow.request = "none"
    BY DEF NoRow
  <2> QED BY <1>2, <2>1, <2>2 DEF NoticeWasDue
<1>4. ASSUME NEW w \in Workers, NEW q \in Requests, CheckRequest(w, q) PROVE NoticeWasDue'
  <2>1. CASE UNCHANGED log
    BY <1>2, <2>1 DEF NoticeWasDue
  <2>2. ASSUME NEW k \in Number, NEW row \in Row, log' = [log EXCEPT ![k] = row],
               row.request = q, row.created_at = checks[w].began
        PROVE  NoticeWasDue'
    <3>1. log'[k] = row /\ \A i \in Number \ {k} : log'[i] = log[i]
      BY <2>2 DEF TypeOK
    <3>2. requests' = requests /\ q \in checks[w].todo
      BY <1>4 DEF CheckRequest
    <3>3. requests'[q].closed_at \in {0} \cup row.created_at .. MaxTime
      BY <2>2, <3>2 DEF StillDue
    <3> QED BY <1>2, <2>2, <3>1, <3>3 DEF NoticeWasDue
  <2> QED BY <1>4, <2>1, <2>2, CheckAdds
<1> QED BY <1>3, <1>4

-------------------------------------------------------------------------------
(* Theorems.                                                                 *)

LEMMA NoticeNextInv == NoticeInv /\ [Next]_vars => NoticeInv'
BY NoticeNextType, RowsKept, HeldKept, TurnsKept, CheckTurnsKept, StillDueKept, ToldOnceKept,
   NoticeWasDueKept DEF NoticeInv

THEOREM NoticeInvariance == Spec => []NoticeInv
BY NoticeInitInv, NoticeNextInv, PTL DEF Spec

\* A row marked sent has been mailed (SentWasMailed): the commit that marks it
\* writes a verdict reached after the mail left.
THEOREM SentHolds == Spec => []SentWasMailed
<1>1. NoticeInv => SentWasMailed
  BY DEF NoticeInv, Rows, SentWasMailed
<1> QED BY <1>1, NoticeInvariance, PTL

\* A notice is mailed at most once more than deliveries have died, as long as
\* deliveries take turns (MailedOnce).
THEOREM MailedHolds == Spec => []MailedOnce
<1>1. NoticeInv => MailedOnce
  BY DEF NoticeInv, Turns, MailedOnce
<1> QED BY <1>1, NoticeInvariance, PTL

\* Checks of an event that take turns leave at most one recent notice of each
\* request (ToldOnce), so that scalar_one_or_none does not raise.
THEOREM ToldHolds == Spec => []ToldOnce
<1>1. NoticeInv => ToldOnce
  BY DEF NoticeInv
<1> QED BY <1>1, NoticeInvariance, PTL

\* No notice is about a request that was closed before its check began
\* (NoticeWasDue).
THEOREM DueHolds == Spec => []NoticeWasDue
<1>1. NoticeInv => NoticeWasDue
  BY DEF NoticeInv
<1> QED BY <1>1, NoticeInvariance, PTL

-------------------------------------------------------------------------------
(* Refinement.                                                               *)

Shown(n) == IF Committed(n) THEN log[n].status ELSE "absent"

LEMMA ShownAdvances ==
  ASSUME UNCHANGED mails,
         \A n \in Number :
           \/ Shown(n)' = Shown(n)
           \/ Shown(n) = "absent" /\ Shown(n)' \in {"queued", "failed"}
           \/ Shown(n) = "queued" /\ Shown(n)' = "failed"
           \/ Shown(n) = "queued" /\ Shown(n)' = "sent" /\ mails[n] > 0
  PROVE  O!OutboxNext
BY DEF O!OutboxNext, O!Write, O!Advance, Shown, Committed

\* Every step with deliveries that take turns is one of the outbox or stutters.
LEMMA OutboxStep ==
  ASSUME NoticeInv, [Next]_vars, "delivery" \notin overlaps'
  PROVE  O!OutboxNext \/ UNCHANGED O!outbox
<1>0. TypeOK /\ Rows /\ Held /\ Turns /\ "delivery" \notin overlaps
  BY OverlapsGrow DEF NoticeInv
<1>1. CASE UNCHANGED <<log, mails>>
  BY <1>1 DEF O!outbox, Committed
<1>2. ASSUME NEW w \in Workers, NEW n \in Number, SkipRow(w, n) \/ SendRow(w, n)
      PROVE  O!OutboxNext \/ UNCHANGED O!outbox
  <2>1. n \in deliveries[w].todo /\ UNCHANGED log
        /\ (mails' = mails \/ mails' = [mails EXCEPT ![n] = @ + 1])
    BY <1>2, <1>0, Sends
  <2>2. Committed(n) /\ log[n].status = "queued"
    BY <1>0, <2>1 DEF Held, Turns
  <2>3. CASE mails' = [mails EXCEPT ![n] = @ + 1]
    <3>1. O!Mail(n)
      BY <2>1, <2>2, <2>3 DEF O!Mail, Committed
    <3> QED BY <3>1 DEF O!OutboxNext
  <2>4. CASE mails' = mails
    BY <1>1, <2>1, <2>4
  <2> QED BY <2>1, <2>3, <2>4
<1>3. ASSUME NEW w \in Workers, CommitDelivery(w) PROVE O!OutboxNext
  <2>1. UNCHANGED mails
    BY <1>3 DEF CommitDelivery
  <2> SUFFICES ASSUME NEW n \in Number
               PROVE  \/ Shown(n)' = Shown(n)
                      \/ Shown(n) = "queued" /\ Shown(n)' = "failed"
                      \/ Shown(n) = "queued" /\ Shown(n)' = "sent" /\ mails[n] > 0
    BY <2>1, ShownAdvances
  <2>2. CASE log'[n] = log[n]
    BY <2>2 DEF Shown, Committed
  <2>3. CASE /\ deliveries[w].verdict[n] \in {"sent", "failed"}
             /\ log'[n].status = deliveries[w].verdict[n]
             /\ Committed(n) /\ log'[n].tx = log[n].tx
    <3>1. log[n].status = "queued"
      BY <1>0, <2>3 DEF Turns
    <3>2. deliveries[w].verdict[n] = "sent" => mails[n] > 0
      BY <1>0 DEF Held
    <3> QED BY <2>3, <3>1, <3>2 DEF Shown, Committed
  <2> QED BY <1>0, <1>3, <2>2, <2>3, Delivered
<1>4. ASSUME NEW w \in Workers, NEW r \in Requests, CheckRequest(w, r)
      PROVE  O!OutboxNext
  <2>1. UNCHANGED mails
    BY <1>4 DEF CheckRequest
  <2>2. \A n \in Number : \/ log'[n] = log[n]
                          \/ log[n] = NoRow /\ log'[n].tx = w
    BY <1>0, <1>4, CheckAdds DEF TypeOK
  <2>3. \A n \in Number : Shown(n)' = Shown(n)
    BY <2>2 DEF Shown, Committed, NoRow
  <2> QED BY <2>1, <2>3, ShownAdvances
<1>5. ASSUME NEW w \in Workers, CommitCheck(w) PROVE O!OutboxNext
  <2>1. UNCHANGED mails
    BY <1>5 DEF CommitCheck
  <2>2. ASSUME NEW n \in Number
        PROVE  \/ Shown(n)' = Shown(n)
               \/ Shown(n) = "absent" /\ Shown(n)' \in {"queued", "failed"}
    <3>1. CASE log[n].tx = w
      <4>1. log'[n].status = log[n].status /\ log'[n].tx = "none"
        BY <1>0, <1>5, <3>1 DEF CommitCheck, TypeOK, Row
      <4>2. log[n].status \in {"queued", "failed"} /\ ~Committed(n)
        BY <1>0, <3>1 DEF Rows, Committed
      <4> QED BY <4>1, <4>2 DEF Shown, Committed
    <3>2. CASE log[n].tx # w
      <4>1. log'[n] = log[n]
        BY <1>5, <3>2 DEF CommitCheck
      <4> QED BY <4>1 DEF Shown, Committed
    <3> QED BY <3>1, <3>2
  <2> QED BY <2>1, <2>2, ShownAdvances
<1>6. ASSUME NEW w \in Workers, FailCheck(w) PROVE O!OutboxNext
  <2>1. UNCHANGED mails
    BY <1>6 DEF FailCheck
  <2>2. ASSUME NEW n \in Number PROVE Shown(n)' = Shown(n)
    <3>1. CASE log[n].tx = w
      <4>1. log'[n] = NoRow /\ ~Committed(n)
        BY <1>6, <3>1 DEF FailCheck, Committed
      <4> QED BY <4>1 DEF Shown, Committed, NoRow
    <3>2. CASE log[n].tx # w
      <4>1. log'[n] = log[n]
        BY <1>6, <3>2 DEF FailCheck
      <4> QED BY <4>1 DEF Shown, Committed
    <3> QED BY <3>1, <3>2
  <2> QED BY <2>1, <2>2, ShownAdvances
<1>7. ASSUME NEW w \in Workers, StartDelivery(w) \/ CrashDelivery(w)
      PROVE  UNCHANGED <<log, mails>>
  BY <1>7 DEF StartDelivery, CrashDelivery
<1>8. ASSUME NEW q \in Requests, UpdateRequest(q) PROVE UNCHANGED <<log, mails>>
  BY <1>8 DEF UpdateRequest
<1>9. ASSUME NEW event \in Events, UpdateTemplate(event) PROVE UNCHANGED <<log, mails>>
  BY <1>9 DEF UpdateTemplate
<1>10. ASSUME NEW w \in Workers, NEW event \in Events, StartCheck(w, event)
       PROVE  UNCHANGED <<log, mails>>
  BY <1>10 DEF StartCheck
<1>11. CASE Tick
  BY <1>1, <1>11 DEF Tick
<1>12. CASE UNCHANGED vars
  BY <1>1, <1>12 DEF vars
<1> QED
  BY <1>1, <1>2, <1>3, <1>4, <1>5, <1>6, <1>7, <1>8, <1>9, <1>10, <1>11, <1>12 DEF Next

LEMMA OutboxStarts == Init => O!OutboxInit
BY DEF Init, O!OutboxInit, Committed, NoRow

\* Until two deliveries overlap, every step keeps the outbox's promise
\* (OutboxKept): mail while queued, settle once, sent only after a mail.
THEOREM OutboxHolds == Spec => OutboxKept
<1>1. NoticeInv /\ [Next]_vars =>
        [("delivery" \notin overlaps') => (O!OutboxNext \/ UNCHANGED O!outbox)]_vars
  BY OutboxStep
<1> QED BY <1>1, NoticeInvariance, PTL DEF Spec, OutboxKept

\* Deliveries that take turns implement the outbox.
THEOREM OutboxImplementation == SerialSpec => O!OutboxSpec
<1>1. NoticeInv /\ [Next /\ "delivery" \notin overlaps']_vars => NoticeInv'
  BY NoticeNextInv
<1>2. NoticeInv /\ [Next /\ "delivery" \notin overlaps']_vars => [O!OutboxNext]_(O!outbox)
  <2>1. CASE UNCHANGED vars
    BY <2>1 DEF vars, O!outbox, Committed
  <2> QED BY <2>1, OutboxStep
<1> QED BY <1>1, <1>2, NoticeInitInv, OutboxStarts, PTL DEF SerialSpec, O!OutboxSpec
===============================================================================
