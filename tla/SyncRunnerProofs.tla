--------------------------- MODULE SyncRunnerProofs ---------------------------
(***************************************************************************)
(* Proofs about SyncRunner, for any records, executions, thresholds and    *)
(* bounds.                                                                 *)
(***************************************************************************)
EXTENDS SyncRunner, SequenceTheorems, TLAPS

-----------------------------------------------------------------------------
(* Lemmas about the breaker's functions. *)

\* The functions of the breaker map breaker columns to breaker columns.
LEMMA CircuitClosed ==
  ASSUME NEW c \in Circuit, NEW a \in BOOLEAN, NEW b \in BOOLEAN
  PROVE  /\ Unpaused(c) \in Circuit
         /\ ApplySyncRunResult(c, a, b) \in Circuit
<1>1. Unpaused(c) \in Circuit
  BY DEF Circuit, Unpaused, PauseReason, SyncStatus
<1>2. AfterSuccess(c, b) \in Circuit
  BY DEF Circuit, AfterSuccess, PauseReason, SyncStatus
<1>3. AfterFullFailure(c) \in Circuit
  BY DEF Circuit, AfterFullFailure, PauseReason, SyncStatus
<1> QED
  BY <1>1, <1>2, <1>3 DEF ApplySyncRunResult

\* Writing some columns of one row and leaving others yields a row.
LEMMA SourceAfterType ==
  ASSUME TypeOK, NEW w \in Runs
  PROVE  SourceAfter(w) \in Circuit
<1> DEFINE new == ApplySyncRunResult(runs[w].loaded, SomeSucceeded(w), SomeFailed(w))
<1>1. runs[w].loaded \in Circuit /\ source \in Circuit
  BY DEF TypeOK, Run
<1>2. SomeSucceeded(w) \in BOOLEAN /\ SomeFailed(w) \in BOOLEAN
  BY DEF SomeSucceeded, SomeFailed
<1>3. new \in Circuit
  BY <1>1, <1>2, CircuitClosed
<1> HIDE DEF new
<1> QED
  BY <1>1, <1>3 DEF SourceAfter, Column, Circuit, new

\* What layer 2 makes of a row is a row.
LEMMA RowAfterRetryType ==
  ASSUME NEW row \in Failure, NEW retry \in Retry,
         retry.outcome \notin {"unselected", "todo"}
  PROVE  RowAfterRetry(row, retry) \in Failure
<1>1. CASE retry.outcome = "failed"
  <2>1. retry.seen + 1 \in Nat /\ row.tries + 1 \in Nat
    BY DEF Retry, Failure
  <2>2. RowAfterRetry(row, retry) =
          [row EXCEPT !.retry_count = retry.seen + 1,
                      !.tries = @ + 1,
                      !.status = IF retry.seen + 1 >= DeadLetterMaxRetries
                                 THEN "permanently_failed" ELSE @]
    BY <1>1 DEF RowAfterRetry
  <2> QED
    BY <2>1, <2>2 DEF Failure, FailureStatus
<1>2. CASE retry.outcome # "failed"
  BY <1>2 DEF RowAfterRetry, Failure, FailureStatus, Retry, RetryOutcome
<1> QED
  BY <1>1, <1>2

\* A run leaves each record a list of rows, as long as before or one longer;
\* a row that was there is what layer 2 made of it, or untouched.
LEMMA FailuresAfterShape ==
  ASSUME TypeOK, NEW w \in Runs, NEW p \in Paths
  PROVE  /\ FailuresAfter(w, p) \in Seq(Failure)
         /\ Len(FailuresAfter(w, p)) >= Len(failures[p])
         /\ p \in Failing(w) => Len(FailuresAfter(w, p)) > Len(failures[p])
         /\ \A i \in DOMAIN failures[p] :
              FailuresAfter(w, p)[i] =
                IF <<p, i>> \in Attempted(w)
                THEN RowAfterRetry(failures[p][i], runs[w].batch[<<p, i>>])
                ELSE failures[p][i]
         /\ \A i \in DOMAIN FailuresAfter(w, p) \ DOMAIN failures[p] :
              FailuresAfter(w, p)[i] = NewFailure(runs[w].verdict[p])
<1> DEFINE after(i) == IF <<p, i>> \in Attempted(w)
                       THEN RowAfterRetry(failures[p][i], runs[w].batch[<<p, i>>])
                       ELSE failures[p][i]
           n    == Len(failures[p])
           kept == [i \in 1 .. n |-> after(i)]
           added == NewFailure(runs[w].verdict[p])
<1>1. failures[p] \in Seq(Failure) /\ n \in Nat /\ DOMAIN failures[p] = 1 .. n
  BY DEF TypeOK
<1>2. ASSUME NEW i \in 1 .. n
      PROVE  after(i) \in Failure
  <2>1. failures[p][i] \in Failure
    BY <1>1
  <2>2. CASE <<p, i>> \in Attempted(w)
    <3>1. runs[w].batch[<<p, i>>] \in Retry
      BY <2>2 DEF TypeOK, Run, Attempted
    <3>2. runs[w].batch[<<p, i>>].outcome \notin {"unselected", "todo"}
      BY <2>2 DEF Attempted
    <3> QED
      BY <2>1, <2>2, <3>1, <3>2, RowAfterRetryType
  <2> QED
    BY <2>1, <2>2
<1>3. kept \in Seq(Failure) /\ Len(kept) = n
  <2> HIDE DEF after, n
  <2> QED
    BY <1>1, <1>2
<1>4. FailuresAfter(w, p) = IF p \in Failing(w) THEN Append(kept, added) ELSE kept
  BY DEF FailuresAfter
<1>5. p \in Failing(w) => added \in Failure
  BY DEF Failing, NewFailure, Failure, FailureStatus
<1>6. \A i \in 1 .. n : kept[i] = after(i)
  OBVIOUS
<1> HIDE DEF kept, added
<1>7. CASE p \in Failing(w)
  <2>1. /\ Append(kept, added) \in Seq(Failure)
        /\ Len(Append(kept, added)) = n + 1
        /\ \A i \in 1 .. n : Append(kept, added)[i] = kept[i]
        /\ Append(kept, added)[n + 1] = added
    BY <1>1, <1>3, <1>5, <1>7
  <2>2. DOMAIN Append(kept, added) \ DOMAIN failures[p] = {n + 1}
    BY <1>1, <2>1
  <2> QED
    BY <1>1, <1>4, <1>6, <1>7, <2>1, <2>2 DEF added
<1>8. CASE p \notin Failing(w)
  <2>1. DOMAIN kept = DOMAIN failures[p]
    BY <1>1, <1>3
  <2> QED
    BY <1>1, <1>3, <1>4, <1>6, <1>8, <2>1
<1> QED
  BY <1>7, <1>8

\* Updating one column of a failure leaves a failure.
LEMMA ColumnUpdateType ==
  ASSUME NEW row \in Failure
  PROVE  /\ \A status \in FailureStatus : [row EXCEPT !.status = status] \in Failure
         /\ [row EXCEPT !.expired = TRUE] \in Failure
<1>1. ASSUME NEW status \in FailureStatus
      PROVE  [row EXCEPT !.status = status] \in Failure
  BY DEF Failure
<1>2. [row EXCEPT !.expired = TRUE] \in Failure
  BY DEF Failure
<1> QED
  BY <1>1, <1>2

\* Setting the status of some rows leaves the rest of the table as it was.
LEMMA SetStatusShape ==
  ASSUME TypeOK, NEW rows, NEW status \in FailureStatus, SetStatus(rows, status)
  PROVE  /\ failures' \in [Paths -> Seq(Failure)]
         /\ \A p \in Paths :
              /\ DOMAIN failures'[p] = DOMAIN failures[p]
              /\ \A i \in DOMAIN failures[p] :
                   failures'[p][i] = IF <<p, i>> \in rows
                                     THEN [failures[p][i] EXCEPT !.status = status]
                                     ELSE failures[p][i]
<1> DEFINE row(p, i) == IF <<p, i>> \in rows
                        THEN [failures[p][i] EXCEPT !.status = status]
                        ELSE failures[p][i]
           list(p) == [i \in 1 .. Len(failures[p]) |-> row(p, i)]
<1>1. failures' = [p \in Paths |-> list(p)]
  BY DEF SetStatus
<1>2. ASSUME NEW p \in Paths
      PROVE  /\ list(p) \in Seq(Failure)
             /\ DOMAIN list(p) = DOMAIN failures[p]
             /\ \A i \in DOMAIN failures[p] : list(p)[i] = row(p, i)
  <2>1. failures[p] \in Seq(Failure)
    BY DEF TypeOK
  <2>2. Len(failures[p]) \in Nat /\ DOMAIN failures[p] = 1 .. Len(failures[p])
    BY <2>1
  <2>3. ASSUME NEW i \in 1 .. Len(failures[p])
        PROVE  row(p, i) \in Failure
    <3>1. failures[p][i] \in Failure
      BY <2>1
    <3>2. [failures[p][i] EXCEPT !.status = status] \in Failure
      BY <3>1, ColumnUpdateType
    <3> QED
      BY <3>1, <3>2
  <2> HIDE DEF row
  <2> QED
    BY <2>2, <2>3
<1> HIDE DEF list
<1> QED
  BY <1>1, <1>2
-----------------------------------------------------------------------------
(* Type correctness. *)

LEMMA IdleRunType == IdleRun \in Run
<1>1. NewCircuit \in Circuit
  BY DEF NewCircuit, Circuit, PauseReason, SyncStatus
<1> QED
  BY <1>1, SyncAssumption DEF IdleRun, Run, Retry, RetryOutcome, RecordVerdict

LEMMA InitType == Init => TypeOK
<1> SUFFICES ASSUME Init PROVE TypeOK
  OBVIOUS
<1>1. source \in Circuit
  BY DEF Init, NewCircuit, Circuit, PauseReason, SyncStatus
<1>2. failures \in [Paths -> Seq(Failure)]
  BY DEF Init
<1> QED
  BY <1>1, <1>2, IdleRunType DEF Init, TypeOK

\* A step of an execution that has not come to its commit changes that
\* execution, and perhaps the broker.
LEMMA RunUpdateType ==
  ASSUME TypeOK, NEW w \in Runs, NEW x \in Run,
         runs' = [runs EXCEPT ![w] = x],
         queue' \in [0 .. MaxTaskRetries -> Nat],
         UNCHANGED <<source, overdue, processed, failures, documents>>
  PROVE  TypeOK'
  BY DEF TypeOK

LEMMA StepType == TypeOK /\ [Next]_vars => TypeOK'
<1> SUFFICES ASSUME TypeOK, [Next]_vars PROVE TypeOK'
  OBVIOUS
<1> USE SyncAssumption
<1>1. ASSUME NEW w \in Runs, StartTask(w) PROVE TypeOK'
  <2>1. PICK a \in DOMAIN queue :
          /\ queue[a] > 0
          /\ queue' = [queue EXCEPT ![a] = @ - 1]
          /\ runs' = [runs EXCEPT ![w] = [IdleRun EXCEPT !.phase = "authenticating",
                                                         !.attempt = a,
                                                         !.loaded = source]]
    BY <1>1 DEF StartTask
  <2>2. queue' \in [0 .. MaxTaskRetries -> Nat]
    BY <2>1 DEF TypeOK
  <2>3. [IdleRun EXCEPT !.phase = "authenticating", !.attempt = a,
                        !.loaded = source] \in Run
    BY IdleRunType DEF TypeOK, Run
  <2> QED
    BY <1>1, <2>1, <2>2, <2>3, RunUpdateType DEF StartTask
<1>2. ASSUME NEW w \in Runs, BeginRun(w) PROVE TypeOK'
  <2>1. PICK S \in SUBSET RowsWith("retrying") :
          runs' = [runs EXCEPT
            ![w].phase = "retrying",
            ![w].batch = [r \in Row |->
                            IF r \in S
                            THEN [seen |-> RowAt(r).retry_count, outcome |-> "todo"]
                            ELSE @[r]]]
    BY <1>2 DEF BeginRun
  <2> DEFINE batch == [r \in Row |->
                         IF r \in S
                         THEN [seen |-> RowAt(r).retry_count, outcome |-> "todo"]
                         ELSE runs[w].batch[r]]
  <2>2. ASSUME NEW r \in S PROVE RowAt(r).retry_count \in Nat
    <3>1. PICK p \in Paths : r \in {p} \X DOMAIN failures[p]
      BY DEF RowsWith, ExistingRows
    <3>2. failures[p] \in Seq(Failure)
      BY DEF TypeOK
    <3>3. RowAt(r) \in Failure
      BY <3>1, <3>2 DEF RowAt
    <3> QED
      BY <3>3 DEF Failure
  <2>3. batch \in [Row -> Retry]
    BY <2>2 DEF TypeOK, Run, Retry, RetryOutcome
  <2>4. runs' = [runs EXCEPT ![w] = [runs[w] EXCEPT !.phase = "retrying",
                                                    !.batch = batch]]
    BY <2>1 DEF TypeOK, Run
  <2>5. [runs[w] EXCEPT !.phase = "retrying", !.batch = batch] \in Run
    BY <2>3 DEF TypeOK, Run
  <2> QED
    BY <1>2, <2>4, <2>5, RunUpdateType DEF BeginRun, TypeOK
<1>3. ASSUME NEW w \in Runs, NEW r \in Row, LayerTwo(w, r) PROVE TypeOK'
  <2>1. PICK outcome \in RetryOutcome : RetryTurn(w, r, outcome)
    BY <1>3 DEF LayerTwo, RetryDeadLetters, RetrySucceeds, RetryFindsNothing,
                RetryFails, RetryOutcome
  <2> DEFINE x == [runs[w] EXCEPT !.batch[r].outcome = outcome]
  <2>2. x \in Run
    <3>1. runs[w].batch \in [Row -> Retry]
      BY DEF TypeOK, Run
    <3>2. [runs[w].batch[r] EXCEPT !.outcome = outcome] \in Retry
      BY <3>1 DEF Retry
    <3>3. [runs[w].batch EXCEPT ![r].outcome = outcome] \in [Row -> Retry]
      BY <3>1, <3>2
    <3> QED
      BY <3>3 DEF TypeOK, Run
  <2>3. runs' = [runs EXCEPT ![w] = x]
    BY <2>1 DEF RetryTurn, TypeOK, Run
  <2> QED
    BY <2>1, <2>2, <2>3, RunUpdateType DEF RetryTurn, TypeOK
<1>4. ASSUME NEW w \in Runs, Discover(w) PROVE TypeOK'
  <2>1. PICK listed \in SUBSET Paths :
          runs' = [runs EXCEPT ![w].phase = "fetching",
                               ![w].verdict =
                                 [p \in Paths |-> IF p \in listed THEN "todo" ELSE @[p]]]
    BY <1>4 DEF Discover
  <2> DEFINE verdict == [p \in Paths |-> IF p \in listed THEN "todo"
                                         ELSE runs[w].verdict[p]]
             x == [runs[w] EXCEPT !.phase = "fetching", !.verdict = verdict]
  <2>2. verdict \in [Paths -> RecordVerdict]
    BY DEF TypeOK, Run, RecordVerdict
  <2>3. x \in Run
    BY <2>2 DEF TypeOK, Run
  <2>4. runs' = [runs EXCEPT ![w] = x]
    BY <2>1 DEF TypeOK, Run
  <2> QED
    BY <1>4, <2>3, <2>4, RunUpdateType DEF Discover, TypeOK
<1>5. ASSUME NEW w \in Runs, NEW p \in Paths, RecordIngested(w, p) \/ RecordFails(w, p)
      PROVE  TypeOK'
  <2>1. PICK verdict \in RecordVerdict : RecordTurn(w, p, verdict)
    BY <1>5 DEF RecordIngested, RecordFails, RecordVerdict
  <2> DEFINE x == [runs[w] EXCEPT !.verdict[p] = verdict]
  <2>2. x \in Run
    BY DEF TypeOK, Run
  <2>3. runs' = [runs EXCEPT ![w] = x]
    BY <2>1 DEF RecordTurn, TypeOK, Run
  <2> QED
    BY <2>1, <2>2, <2>3, RunUpdateType DEF RecordTurn, TypeOK
<1>6. ASSUME NEW w \in Runs, FinishRun(w) PROVE TypeOK'
  <2>1. failures' \in [Paths -> Seq(Failure)]
    BY <1>6, FailuresAfterShape DEF FinishRun
  <2>2. documents' \subseteq Paths /\ processed' \subseteq Paths
    BY <1>6 DEF FinishRun, TypeOK, Ingested, Listed
  <2>3. source' \in Circuit
    BY <1>6, SourceAfterType DEF FinishRun
  <2>4. runs' \in [Runs -> Run]
    BY <1>6, IdleRunType DEF FinishRun, TypeOK
  <2> QED
    BY <1>6, <2>1, <2>2, <2>3, <2>4 DEF FinishRun, TypeOK
<1>7. ASSUME NEW w \in Runs,
             AuthenticationFails(w) \/ FinishIdleRun(w) \/ DiscoverRaises(w) \/ Crash(w)
      PROVE  TypeOK'
  <2>1. queue' \in [0 .. MaxTaskRetries -> Nat]
    BY <1>7 DEF AuthenticationFails, FinishIdleRun, DiscoverRaises, Crash, TypeOK
  <2> QED
    BY <1>7, <2>1, IdleRunType, RunUpdateType
    DEF AuthenticationFails, FinishIdleRun, DiscoverRaises, Crash
<1>8. CASE SchedulerStep \/ TriggerIngestion
  <2>1. CASE CronInstant
    BY <2>1 DEF CronInstant, TypeOK
  <2>2. CASE CheckScheduledSources \/ TriggerIngestion
    <3>1. queue' \in [0 .. MaxTaskRetries -> Nat]
      BY <2>2 DEF CheckScheduledSources, TriggerIngestion, TypeOK
    <3> QED
      BY <2>2, <3>1 DEF CheckScheduledSources, TriggerIngestion, TypeOK
  <2> QED
    BY <1>8, <2>1, <2>2 DEF SchedulerStep
<1>9. CASE UnpauseSource
  <2>1. source' \in Circuit
    BY <1>9, CircuitClosed DEF UnpauseSource, TypeOK
  <2> QED
    BY <1>9, <2>1 DEF UnpauseSource, TypeOK
<1>10. ASSUME NEW rows, NEW status \in FailureStatus, SetStatus(rows, status)
       PROVE  TypeOK'
  BY <1>10, SetStatusShape DEF SetStatus, TypeOK
<1>11. CASE TimePasses
  <2>0. PICK p \in Paths : \E i \in DOMAIN failures[p] : RowExpires(p, i)
    BY <1>11 DEF TimePasses
  <2>1. PICK i \in DOMAIN failures[p] : RowExpires(p, i)
    BY <2>0
  <2>2. [failures[p] EXCEPT ![i].expired = TRUE] \in Seq(Failure)
    <3>1. failures[p] \in Seq(Failure)
      BY DEF TypeOK
    <3>2. [failures[p][i] EXCEPT !.expired = TRUE] \in Failure
      BY <3>1, ColumnUpdateType
    <3>3. [failures[p] EXCEPT ![i] = [failures[p][i] EXCEPT !.expired = TRUE]]
            \in Seq(Failure)
      BY <3>1, <3>2, ExceptSeq
    <3> QED
      BY <3>1, <3>3
  <2>3. failures' = [failures EXCEPT ![p] = [failures[p] EXCEPT ![i].expired = TRUE]]
    BY <2>1 DEF RowExpires, TypeOK
  <2> QED
    BY <2>1, <2>2, <2>3 DEF RowExpires, TypeOK
<1>12. CASE UNCHANGED vars
  BY <1>12 DEF vars, TypeOK
<1>13. CASE AdminStep
  BY <1>8, <1>9, <1>10, <1>13
  DEF AdminStep, RetrySyncFailure, DismissSyncFailure, RetryAllSyncFailures,
      DismissAllSyncFailures, FailureStatus
<1> QED
  BY <1>1, <1>2, <1>3, <1>4, <1>5, <1>6, <1>7, <1>8, <1>11, <1>12, <1>13
  DEF Next, RunStep, WorkStep, Abort

\* Every reachable state is well typed, for any instance.
THEOREM TypeCorrect == Spec => []TypeOK
<1> QED
  BY InitType, StepType, PTL DEF Spec
-----------------------------------------------------------------------------
(* What has been failed, ingested and passed by the cursor. *)

\* Only a commit, an administrator and the clock write the failed records,
\* and only a commit the documents and the cursor.
LEMMA Writers ==
  ASSUME [Next]_vars
  PROVE  \/ UNCHANGED <<failures, documents, processed>>
         \/ \E w \in Runs : FinishRun(w)
         \/ /\ UNCHANGED <<documents, processed>>
            /\ \/ TimePasses
               \/ \E rows : \E status \in {"retrying", "dismissed"} :
                    SetStatus(rows, status)
<1>1. CASE UNCHANGED vars
  BY <1>1 DEF vars
<1>2. ASSUME NEW w \in Runs, WorkStep(w), ~FinishRun(w)
      PROVE  UNCHANGED <<failures, documents, processed>>
  BY <1>2 DEF WorkStep, LayerTwo, StartTask, AuthenticationFails, BeginRun,
              RetryDeadLetters, RetrySucceeds, RetryFindsNothing, RetryFails,
              RetryTurn, Discover, FinishIdleRun, RecordIngested, RecordFails, RecordTurn
<1>3. ASSUME NEW w \in Runs, Abort(w)
      PROVE  UNCHANGED <<failures, documents, processed>>
  BY <1>3 DEF Abort, DiscoverRaises, Crash
<1>4. CASE SchedulerStep
  BY <1>4 DEF SchedulerStep, CronInstant, CheckScheduledSources
<1>5. ASSUME NEW rows, NEW status \in {"retrying", "dismissed"}, SetStatus(rows, status)
      PROVE  UNCHANGED <<documents, processed>>
  BY <1>5 DEF SetStatus
<1>6. CASE AdminStep
  <2>1. CASE TriggerIngestion \/ UnpauseSource
    BY <2>1 DEF TriggerIngestion, UnpauseSource
  <2>2. CASE \/ \E r \in ExistingRows : RetrySyncFailure(r) \/ DismissSyncFailure(r)
             \/ \E status \in StatusesInUse :
                  RetryAllSyncFailures(status) \/ DismissAllSyncFailures(status)
    BY <1>5, <2>2 DEF RetrySyncFailure, DismissSyncFailure, RetryAllSyncFailures,
                      DismissAllSyncFailures
  <2> QED
    BY <1>6, <2>1, <2>2 DEF AdminStep
<1>7. CASE TimePasses
  BY <1>7 DEF TimePasses, RowExpires
<1> QED
  BY <1>1, <1>2, <1>3, <1>4, <1>6, <1>7 DEF Next, RunStep

\* The clock changes the age of rows and nothing else.
LEMMA TimePassesShape ==
  ASSUME TypeOK, TimePasses
  PROVE  \A p \in Paths :
           /\ DOMAIN failures'[p] = DOMAIN failures[p]
           /\ \A i \in DOMAIN failures[p] :
                /\ failures'[p][i].status = failures[p][i].status
                /\ failures'[p][i].retry_count = failures[p][i].retry_count
                /\ failures'[p][i].tries = failures[p][i].tries
                /\ failures[p][i].expired => failures'[p][i].expired
<1>1. PICK q \in Paths : \E j \in DOMAIN failures[q] : RowExpires(q, j)
  BY DEF TimePasses
<1>2. PICK j \in DOMAIN failures[q] : RowExpires(q, j)
  BY <1>1
<1>3. failures \in [Paths -> Seq(Failure)]
  BY DEF TypeOK
<1>4. failures' = [failures EXCEPT ![q][j].expired = TRUE]
  BY <1>2 DEF RowExpires
<1>5. ASSUME NEW p \in Paths, p # q PROVE failures'[p] = failures[p]
  BY <1>3, <1>4, <1>5
<1>6. /\ DOMAIN failures'[q] = DOMAIN failures[q]
      /\ \A i \in DOMAIN failures[q] :
           failures'[q][i] = IF i = j THEN [failures[q][i] EXCEPT !.expired = TRUE]
                             ELSE failures[q][i]
  BY <1>3, <1>4
<1>7. \A i \in DOMAIN failures[q] : failures[q][i] \in Failure
  BY <1>3
<1>8. ASSUME NEW i \in DOMAIN failures[q]
      PROVE  /\ failures'[q][i].status = failures[q][i].status
             /\ failures'[q][i].retry_count = failures[q][i].retry_count
             /\ failures'[q][i].tries = failures[q][i].tries
             /\ failures[q][i].expired => failures'[q][i].expired
  BY <1>6, <1>7 DEF Failure
<1> QED
  BY <1>5, <1>6, <1>8

LEMMA ResolvedStep ==
  ASSUME TypeOK, ResolvedIsIngested, [Next]_vars
  PROVE  ResolvedIsIngested'
<1> SUFFICES ASSUME NEW p \in Paths, NEW i \in DOMAIN failures'[p],
                    failures'[p][i].status = "resolved"
             PROVE  p \in documents'
  BY DEF ResolvedIsIngested
<1>1. CASE UNCHANGED <<failures, documents, processed>>
  BY <1>1 DEF ResolvedIsIngested
<1>2. ASSUME NEW w \in Runs, FinishRun(w) PROVE p \in documents'
  <2>1. failures'[p] = FailuresAfter(w, p) /\ documents' = documents \cup Ingested(w)
    BY <1>2 DEF FinishRun
  <2>2. CASE i \notin DOMAIN failures[p]
    <3>1. failures'[p][i] = NewFailure(runs[w].verdict[p])
      BY <2>1, <2>2, FailuresAfterShape
    <3>2. p \in Failing(w)
      <4>1. failures[p] \in Seq(Failure)
        BY DEF TypeOK
      <4> QED
        BY <2>1, <2>2, <4>1 DEF FailuresAfter
    <3> QED
      BY <3>1, <3>2 DEF NewFailure, Failing
  <2>3. CASE i \in DOMAIN failures[p] /\ <<p, i>> \notin Attempted(w)
    BY <2>1, <2>3, FailuresAfterShape DEF ResolvedIsIngested
  <2>4. CASE i \in DOMAIN failures[p] /\ <<p, i>> \in Attempted(w)
    <3> DEFINE row == failures[p][i]
               retry == runs[w].batch[<<p, i>>]
    <3>1. failures'[p][i] = RowAfterRetry(row, retry)
      BY <2>1, <2>4, FailuresAfterShape
    <3>2. row \in Failure
      BY <2>4 DEF TypeOK
    <3>3. retry \in Retry /\ retry.outcome \notin {"unselected", "todo"} /\ i \in 1 .. MaxRows
      BY <2>4 DEF Attempted, TypeOK, Run, Row
    <3>4. CASE retry.outcome = "resolved"
      BY <2>1, <3>3, <3>4 DEF Ingested
    <3>5. CASE retry.outcome = "failed"
      <4>1. RowAfterRetry(row, retry).status \in {"permanently_failed", row.status}
        BY <3>2, <3>5 DEF RowAfterRetry, Failure
      <4>2. row.status = "resolved"
        BY <3>1, <4>1
      <4> QED
        BY <2>1, <2>4, <4>2 DEF ResolvedIsIngested
    <3>6. CASE retry.outcome \in {"tombstone", "dead_letter"}
      <4>1. RowAfterRetry(row, retry).status \in {"tombstone", "permanently_failed"}
        BY <3>2, <3>6 DEF RowAfterRetry, Failure
      <4> QED
        BY <3>1, <4>1
    <3> QED
      BY <3>3, <3>4, <3>5, <3>6 DEF Retry, RetryOutcome
  <2> QED
    BY <2>2, <2>3, <2>4
<1>3. ASSUME UNCHANGED documents, NEW rows, NEW status \in {"retrying", "dismissed"},
             SetStatus(rows, status)
      PROVE  p \in documents'
  <2>1. status \in FailureStatus
    BY DEF FailureStatus
  <2>2. /\ i \in DOMAIN failures[p]
        /\ failures'[p][i] = IF <<p, i>> \in rows
                             THEN [failures[p][i] EXCEPT !.status = status]
                             ELSE failures[p][i]
    BY <1>3, <2>1, SetStatusShape
  <2>3. failures[p][i] \in Failure
    BY <2>2 DEF TypeOK
  <2>4. failures[p][i].status = "resolved"
    BY <2>2, <2>3 DEF Failure
  <2> QED
    BY <1>3, <2>2, <2>4 DEF ResolvedIsIngested
<1>4. CASE UNCHANGED documents /\ TimePasses
  BY <1>4, TimePassesShape DEF ResolvedIsIngested
<1> QED
  BY <1>1, <1>2, <1>3, <1>4, Writers

LEMMA AccountedStep ==
  ASSUME TypeOK, ProcessedIsAccounted, [Next]_vars
  PROVE  ProcessedIsAccounted'
<1> SUFFICES ASSUME NEW p \in processed', p \notin documents'
             PROVE  failures'[p] # <<>>
  BY DEF ProcessedIsAccounted
<1>1. CASE UNCHANGED <<failures, documents, processed>>
  BY <1>1 DEF ProcessedIsAccounted
<1>2. ASSUME NEW w \in Runs, FinishRun(w) PROVE failures'[p] # <<>>
  <2>1. /\ processed' = processed \cup Listed(w)
        /\ documents' = documents \cup Ingested(w)
        /\ p \in Paths => failures'[p] = FailuresAfter(w, p)
        /\ \A q \in Paths : runs[w].verdict[q] # "todo"
    BY <1>2 DEF FinishRun
  <2>2. p \in Paths
    BY <2>1 DEF Listed, TypeOK
  <2>3. Len(failures[p]) \in Nat /\ FailuresAfter(w, p) \in Seq(Failure)
    BY <2>2, FailuresAfterShape DEF TypeOK
  <2>4. CASE p \in processed
    <3>1. failures[p] # <<>>
      BY <2>1, <2>4 DEF ProcessedIsAccounted
    <3>2. Len(failures[p]) > 0
      BY <2>2, <3>1 DEF TypeOK
    <3>3. Len(FailuresAfter(w, p)) > 0
      BY <2>2, <2>3, <3>2, FailuresAfterShape
    <3> QED
      BY <2>1, <2>2, <2>3, <3>3
  <2>5. CASE p \in Listed(w)
    <3>1. runs[w].verdict[p] \in RecordVerdict \ {"unlisted", "todo", "ingested"}
      BY <2>1, <2>2, <2>5 DEF Listed, Ingested, TypeOK, Run
    <3>2. p \in Failing(w)
      BY <2>2, <3>1 DEF Failing, RecordVerdict
    <3>3. Len(FailuresAfter(w, p)) > 0
      BY <2>2, <2>3, <3>2, FailuresAfterShape
    <3> QED
      BY <2>1, <2>2, <2>3, <3>3
  <2> QED
    BY <2>1, <2>4, <2>5
<1>3. ASSUME UNCHANGED <<documents, processed>>,
             NEW rows, NEW status \in {"retrying", "dismissed"}, SetStatus(rows, status)
      PROVE  failures'[p] # <<>>
  <2>1. p \in Paths /\ failures[p] # <<>>
    BY <1>3 DEF ProcessedIsAccounted, TypeOK
  <2>2. DOMAIN failures'[p] = DOMAIN failures[p]
    BY <1>3, <2>1, SetStatusShape DEF FailureStatus
  <2>3. 1 \in DOMAIN failures[p]
    <3>1. failures[p] \in Seq(Failure)
      BY <2>1 DEF TypeOK
    <3>2. Len(failures[p]) \in Nat /\ Len(failures[p]) > 0
      BY <2>1, <3>1
    <3> QED
      BY <3>1, <3>2
  <2> QED
    BY <2>2, <2>3
<1>4. CASE UNCHANGED <<documents, processed>> /\ TimePasses
  <2>1. p \in Paths /\ failures[p] # <<>>
    BY <1>4 DEF ProcessedIsAccounted, TypeOK
  <2>2. DOMAIN failures'[p] = DOMAIN failures[p]
    BY <1>4, <2>1, TimePassesShape
  <2>3. 1 \in DOMAIN failures[p]
    <3>1. failures[p] \in Seq(Failure)
      BY <2>1 DEF TypeOK
    <3>2. Len(failures[p]) \in Nat /\ Len(failures[p]) > 0
      BY <2>1, <3>1
    <3> QED
      BY <3>1, <3>2
  <2> QED
    BY <2>2, <2>3
<1> QED
  BY <1>1, <1>2, <1>3, <1>4, Writers

-----------------------------------------------------------------------------
(* The inductive invariant. *)

IInv == TypeOK /\ ResolvedIsIngested /\ ProcessedIsAccounted

LEMMA InitIInv == Init => IInv
<1> SUFFICES ASSUME Init PROVE IInv
  OBVIOUS
<1>1. ResolvedIsIngested /\ ProcessedIsAccounted
  BY DEF Init, ResolvedIsIngested, ProcessedIsAccounted
<1> QED
  BY <1>1, InitType DEF IInv

LEMMA StepIInv == IInv /\ [Next]_vars => IInv'
  BY StepType, ResolvedStep, AccountedStep DEF IInv

THEOREM Invariance == Spec => []IInv
<1> QED
  BY InitIInv, StepIInv, PTL DEF Spec

\* A row that is resolved has its record in the index, although the run writes
\* both at its end and may overlap with others, or die before it.
THEOREM ResolvedHolds == Spec => []ResolvedIsIngested
<1>1. IInv => ResolvedIsIngested
  BY DEF IInv
<1> QED
  BY <1>1, Invariance, PTL

\* A record behind the cursor is in the index or has a row in sync_failures:
\* no crash, overlap or partial failure of a run loses it from both.
THEOREM AccountedHolds == Spec => []ProcessedIsAccounted
<1>1. IInv => ProcessedIsAccounted
  BY DEF IInv
<1> QED
  BY <1>1, Invariance, PTL

\* The list of health badges is right about every source it shows healthy:
\* a record that is neither ingested nor among the failures that degrade the
\* source has a row, not resolved (it would be ingested), so it is gone or
\* dismissed.
THEOREM HealthyHidesNothing == Spec => []HealthyMeansComplete
<1>1. IInv => HealthyMeansComplete
  <2> SUFFICES ASSUME IInv, HealthStatus = "healthy", NEW p \in processed \ documents
               PROVE  \E i \in DOMAIN failures[p] :
                        failures[p][i].status \in {"tombstone", "dismissed"}
    BY DEF HealthyMeansComplete
  <2>1. p \in Paths /\ failures[p] \in Seq(Failure) /\ failures[p] # <<>>
    BY DEF IInv, TypeOK, ProcessedIsAccounted
  <2>2. 1 \in DOMAIN failures[p]
    <3>1. Len(failures[p]) \in Nat /\ Len(failures[p]) > 0
      BY <2>1
    <3> QED
      BY <2>1, <3>1
  <2>3. failures[p][1].status \in FailureStatus
    <3>1. failures[p][1] \in Failure
      BY <2>1, <2>2
    <3> QED
      BY <3>1 DEF Failure
  <2>4. failures[p][1].status # "resolved"
    BY <2>1, <2>2 DEF IInv, ResolvedIsIngested
  <2>5. ActiveFailures = {}
    <3>1. source.sync_paused \in BOOLEAN
      BY DEF IInv, TypeOK, Circuit
    <3> QED
      BY <3>1 DEF HealthStatus
  <2>6. <<p, 1>> \in ExistingRows
    BY <2>1, <2>2 DEF ExistingRows
  <2>7. failures[p][1].status \notin {"retrying", "permanently_failed"}
    BY <2>5, <2>6 DEF ActiveFailures, RowsWith, RowAt
  <2> QED
    BY <2>2, <2>3, <2>4, <2>7 DEF FailureStatus
<1> QED
  BY <1>1, Invariance, PTL
-----------------------------------------------------------------------------
(* Runs that take turns implement the breaker. *)

\* An execution under way works on the source row as it is.
FreshCopies == \A w \in Runs : runs[w].phase # "idle" => runs[w].loaded = source

\* A run whose copy of the source is fresh writes what the breaker says.
LEMMA FreshWrite ==
  ASSUME TypeOK, NEW w \in Runs, runs[w].loaded = source
  PROVE  SourceAfter(w) = ApplySyncRunResult(source, SomeSucceeded(w), SomeFailed(w))
<1> DEFINE new == ApplySyncRunResult(source, SomeSucceeded(w), SomeFailed(w))
<1>1. SomeSucceeded(w) \in BOOLEAN /\ SomeFailed(w) \in BOOLEAN /\ source \in Circuit
  BY DEF SomeSucceeded, SomeFailed, TypeOK
<1>2. new \in Circuit
  BY <1>1, CircuitClosed
<1>3. SourceAfter(w) = [consecutive_failure_count |-> new.consecutive_failure_count,
                        sync_paused |-> new.sync_paused,
                        sync_paused_reason |-> new.sync_paused_reason,
                        last_sync_status |-> new.last_sync_status]
  BY DEF SourceAfter, Column
<1> HIDE DEF new
<1>4. SourceAfter(w) = new
  BY <1>2, <1>3 DEF Circuit
<1> QED
  BY <1>4 DEF new

\* The row of the source is written by commits and by the unpause endpoint.
LEMMA SourceWriters ==
  ASSUME [Next]_vars
  PROVE  \/ UNCHANGED source
         \/ \E w \in Runs : FinishRun(w)
         \/ UnpauseSource
<1>1. ASSUME NEW w \in Runs, WorkStep(w), ~FinishRun(w)
      PROVE  UNCHANGED source
  BY <1>1 DEF WorkStep, LayerTwo, StartTask, AuthenticationFails, BeginRun,
              RetryDeadLetters, RetrySucceeds, RetryFindsNothing, RetryFails,
              RetryTurn, Discover, FinishIdleRun, RecordIngested, RecordFails, RecordTurn
<1>2. ASSUME NEW w \in Runs, Abort(w)
      PROVE  UNCHANGED source
  BY <1>2 DEF Abort, DiscoverRaises, Crash
<1>3. CASE SchedulerStep \/ (AdminStep /\ ~UnpauseSource) \/ TimePasses \/ UNCHANGED vars
  BY <1>3 DEF SchedulerStep, CronInstant, CheckScheduledSources, AdminStep,
              TriggerIngestion, RetrySyncFailure, DismissSyncFailure,
              RetryAllSyncFailures, DismissAllSyncFailures, SetStatus,
              TimePasses, RowExpires, vars
<1> QED
  BY <1>1, <1>2, <1>3 DEF Next, RunStep

\* A step makes an execution idle, gives it a fresh copy of the source, or
\* leaves it under way with the copy it had.
LEMMA CopyKept ==
  ASSUME TypeOK, [Next]_vars, NEW v \in Runs
  PROVE  \/ runs'[v].phase = "idle"
         \/ runs'[v].loaded = source
         \/ runs[v].phase # "idle" /\ runs'[v].loaded = runs[v].loaded
         \/ runs'[v] = runs[v]
<1>1. runs \in [Runs -> Run]
  BY DEF TypeOK
<1>2. IdleRun.phase = "idle"
  BY DEF IdleRun
<1>3. ASSUME NEW w \in Runs, StartTask(w)
      PROVE  runs'[v].loaded = source \/ runs'[v] = runs[v]
  BY <1>1, <1>3 DEF StartTask, IdleRun
<1>4. ASSUME NEW w \in Runs,
             \/ AuthenticationFails(w) \/ FinishIdleRun(w) \/ FinishRun(w) \/ Abort(w)
      PROVE  runs'[v].phase = "idle" \/ runs'[v] = runs[v]
  BY <1>1, <1>2, <1>4 DEF AuthenticationFails, FinishIdleRun, FinishRun, Abort,
                          DiscoverRaises, Crash
<1>5. ASSUME NEW w \in Runs, BeginRun(w) \/ Discover(w)
      PROVE  \/ runs[v].phase # "idle" /\ runs'[v].loaded = runs[v].loaded
             \/ runs'[v] = runs[v]
  <2>1. CASE BeginRun(w)
    BY <1>1, <2>1 DEF BeginRun, Run
  <2>2. CASE Discover(w)
    BY <1>1, <2>2 DEF Discover, Run
  <2> QED
    BY <1>5, <2>1, <2>2
<1>6. ASSUME NEW w \in Runs, NEW r \in Row, LayerTwo(w, r)
      PROVE  \/ runs[v].phase # "idle" /\ runs'[v].loaded = runs[v].loaded
             \/ runs'[v] = runs[v]
  <2>1. PICK outcome : RetryTurn(w, r, outcome)
    BY <1>6 DEF LayerTwo, RetryDeadLetters, RetrySucceeds, RetryFindsNothing, RetryFails
  <2>2. runs[w].phase = "retrying"
    BY <1>6 DEF LayerTwo, RetryDeadLetters, RetrySucceeds, RetryFindsNothing, RetryFails,
                Retryable
  <2> QED
    BY <1>1, <2>1, <2>2 DEF RetryTurn, Run
<1>7. ASSUME NEW w \in Runs, NEW p \in Paths, RecordIngested(w, p) \/ RecordFails(w, p)
      PROVE  \/ runs[v].phase # "idle" /\ runs'[v].loaded = runs[v].loaded
             \/ runs'[v] = runs[v]
  <2>1. PICK verdict : RecordTurn(w, p, verdict)
    BY <1>7 DEF RecordIngested, RecordFails
  <2> QED
    BY <1>1, <2>1 DEF RecordTurn, Run
<1>8. CASE SchedulerStep \/ AdminStep \/ TimePasses \/ UNCHANGED vars
  BY <1>8 DEF SchedulerStep, CronInstant, CheckScheduledSources, AdminStep,
              TriggerIngestion, RetrySyncFailure, DismissSyncFailure,
              RetryAllSyncFailures, DismissAllSyncFailures, SetStatus, UnpauseSource,
              TimePasses, RowExpires, vars
<1> QED
  BY <1>3, <1>4, <1>5, <1>6, <1>7, <1>8 DEF Next, RunStep, WorkStep

LEMMA FreshStep ==
  ASSUME TypeOK, FreshCopies, [Next /\ TakingTurns]_vars
  PROVE  FreshCopies'
<1>1. CASE UNCHANGED vars
  BY <1>1 DEF vars, FreshCopies
<1>2. CASE Next /\ TakingTurns
  <2>1. CASE source' # source
    BY <1>2, <2>1 DEF TakingTurns, FreshCopies
  <2>2. CASE source' = source
    <3> SUFFICES ASSUME NEW v \in Runs, runs'[v].phase # "idle"
                 PROVE  runs'[v].loaded = source
      BY <2>2 DEF FreshCopies
    <3> QED
      BY <1>2, CopyKept DEF FreshCopies
  <2> QED
    BY <2>1, <2>2
<1> QED
  BY <1>1, <1>2

LEMMA BreakerStep ==
  ASSUME TypeOK, FreshCopies, [Next /\ TakingTurns]_vars
  PROVE  [CB!CircuitNext]_source
<1>1. ASSUME NEW w \in Runs, FinishRun(w)
      PROVE  [CB!CircuitNext]_source
  <2>1. source' = SourceAfter(w) /\ runs[w].loaded = source
    BY <1>1 DEF FinishRun, FreshCopies
  <2>2. SomeSucceeded(w) \in BOOLEAN /\ SomeFailed(w) \in BOOLEAN
    BY DEF SomeSucceeded, SomeFailed
  <2>3. \/ source' = AfterSuccess(source, SomeFailed(w))
        \/ source' = AfterFullFailure(source)
        \/ source' = source
    BY <2>1, <2>2, FreshWrite DEF ApplySyncRunResult
  <2>4. CASE source' = AfterSuccess(source, SomeFailed(w))
    BY <2>2, <2>4 DEF CB!CircuitNext, CB!RunSucceeds, CB!AfterSuccess, AfterSuccess
  <2>5. CASE source' = AfterFullFailure(source)
    BY <2>5 DEF CB!CircuitNext, CB!RunFails, CB!AfterFullFailure, AfterFullFailure,
                CB!Threshold, Threshold
  <2> QED
    BY <2>3, <2>4, <2>5
<1>2. CASE UnpauseSource
  BY <1>2 DEF UnpauseSource, CB!CircuitNext, CB!Unpause, CB!Unpaused, Unpaused
<1> QED
  BY <1>1, <1>2, SourceWriters DEF vars

\* As long as executions and the unpause take turns, the breaker columns of a
\* source behave as CircuitBreaker says: each run is accounted exactly once.
THEOREM Implementation == SerialSpec => CircuitImplemented
<1>1. Init => TypeOK /\ FreshCopies /\ CB!CircuitInit
  BY InitType DEF Init, FreshCopies, IdleRun, CB!CircuitInit, CB!NewCircuit, NewCircuit
<1>2. TypeOK /\ FreshCopies /\ [Next /\ TakingTurns]_vars => (TypeOK /\ FreshCopies)'
  BY StepType, FreshStep
<1>3. TypeOK /\ FreshCopies /\ [Next /\ TakingTurns]_vars => [CB!CircuitNext]_source
  BY BreakerStep
<1> QED
  BY <1>1, <1>2, <1>3, PTL DEF SerialSpec, CircuitImplemented, CB!CircuitSpec

\* The streak of an unpaused source is below the threshold in force.
THEOREM ThresholdHolds == SerialSpec => []ThresholdEnforced
<1> USE ThresholdAssumption
<1> DEFINE TInv == source \in Circuit /\ ThresholdEnforced
<1>1. Init => TInv
  BY DEF Init, NewCircuit, Circuit, PauseReason, SyncStatus, ThresholdEnforced, Threshold
<1>2. TInv /\ [CB!CircuitNext]_source => TInv'
  <2> SUFFICES ASSUME source \in Circuit, ThresholdEnforced, [CB!CircuitNext]_source
               PROVE  TInv'
    OBVIOUS
  <2>1. CASE UNCHANGED source
    BY <2>1 DEF ThresholdEnforced
  <2>2. CASE CB!RunSucceeds
    <3>1. PICK someFailed \in BOOLEAN : source' = AfterSuccess(source, someFailed)
      BY <2>2 DEF CB!RunSucceeds, CB!AfterSuccess, AfterSuccess
    <3>2. source' \in Circuit
      BY <3>1 DEF AfterSuccess, Circuit, PauseReason, SyncStatus
    <3>3. source'.consecutive_failure_count = 0
      BY <3>1 DEF AfterSuccess, Circuit
    <3> QED
      BY <3>2, <3>3 DEF ThresholdEnforced, Threshold
  <2>3. CASE CB!RunFails
    <3>1. source' = AfterFullFailure(source)
      BY <2>3 DEF CB!RunFails, CB!AfterFullFailure, AfterFullFailure, CB!Threshold, Threshold
    <3>2. source' \in Circuit
      BY <3>1 DEF AfterFullFailure, Circuit, PauseReason, SyncStatus
    <3>3. ThresholdEnforced'
      <4> DEFINE n     == source.consecutive_failure_count + 1
                 opens == n >= Threshold(source.sync_paused_reason)
      <4>1. /\ n \in Nat
            /\ Threshold(source.sync_paused_reason) \in Nat
            /\ source.sync_paused \in BOOLEAN
        BY DEF Circuit, Threshold
      <4>2. /\ source'.consecutive_failure_count = n
            /\ ~source'.sync_paused =>
                 ~opens /\ source'.sync_paused_reason = source.sync_paused_reason
        BY <3>1, <4>1 DEF AfterFullFailure
      <4> QED
        BY <4>1, <4>2 DEF ThresholdEnforced, Threshold
    <3> QED
      BY <3>2, <3>3
  <2>4. CASE CB!Unpause
    <3>1. source' = Unpaused(source)
      BY <2>4 DEF CB!Unpause, CB!Unpaused, Unpaused
    <3>2. source' \in Circuit
      BY <3>1, CircuitClosed
    <3> QED
      BY <3>1, <3>2 DEF ThresholdEnforced, Threshold, Unpaused, Circuit
  <2> QED
    BY <2>1, <2>2, <2>3, <2>4 DEF CB!CircuitNext
<1>3. TInv => ThresholdEnforced
  OBVIOUS
<1>4. SerialSpec => [][CB!CircuitNext]_source
  BY Implementation, PTL DEF CircuitImplemented, CB!CircuitSpec
<1> QED
  BY <1>1, <1>2, <1>3, <1>4, PTL DEF SerialSpec

-----------------------------------------------------------------------------
(* What the counter of a row, and the copies runs hold of it, have to do    *)
(* with the failed retries of the row.                                     *)

LEMMA ExistingRow ==
  ASSUME NEW r
  PROVE  /\ r \in ExistingRows <=> \E p \in Paths : \E i \in DOMAIN failures[p] : r = <<p, i>>
         /\ r \in ExistingRows' <=> \E p \in Paths : \E i \in DOMAIN failures'[p] : r = <<p, i>>
  BY DEF ExistingRows

\* What becomes of the row of a retry: a failed one is counted, and what is
\* given up is a dead letter or has failed its last retry.
LEMMA RetryCounts ==
  ASSUME NEW row \in Failure, NEW retry \in Retry,
         retry.outcome \notin {"unselected", "todo"}
  PROVE  LET new == RowAfterRetry(row, retry)
         IN  /\ new.expired = row.expired
             /\ retry.outcome = "failed" =>
                  /\ new.retry_count = retry.seen + 1
                  /\ new.tries = row.tries + 1
                  /\ new.status = "permanently_failed" =>
                       \/ row.status = "permanently_failed"
                       \/ retry.seen + 1 >= DeadLetterMaxRetries
             /\ retry.outcome # "failed" =>
                  /\ new.retry_count = row.retry_count
                  /\ new.tries = row.tries
                  /\ new.status = "permanently_failed" => retry.outcome = "dead_letter"
<1>1. CASE retry.outcome = "failed"
  <2>1. RowAfterRetry(row, retry) =
          [row EXCEPT !.retry_count = retry.seen + 1,
                      !.tries = @ + 1,
                      !.status = IF retry.seen + 1 >= DeadLetterMaxRetries
                                 THEN "permanently_failed" ELSE @]
    BY <1>1 DEF RowAfterRetry
  <2> QED
    BY <1>1, <2>1 DEF Failure
<1>2. CASE retry.outcome \in {"resolved", "tombstone", "dead_letter"}
  BY <1>2 DEF RowAfterRetry, Failure
<1> QED
  BY <1>1, <1>2 DEF Retry, RetryOutcome

\* A step that leaves the counts of a row alone, and does not give it up.
Untouched(r) ==
  /\ RowAt(r)'.retry_count = RowAt(r).retry_count
  /\ RowAt(r)'.tries = RowAt(r).tries
  /\ RowAt(r).expired => RowAt(r)'.expired
  /\ RowAt(r)'.status = "permanently_failed" => RowAt(r).status = "permanently_failed"

\* Only the commit of a run that retried a row touches it in this sense.
LEMMA RowStep ==
  ASSUME TypeOK, [Next]_vars, NEW r \in ExistingRows
  PROVE  /\ r \in ExistingRows'
         /\ \/ Untouched(r)
            \/ \E w \in Runs : /\ FinishRun(w)
                               /\ r \in Attempted(w)
                               /\ RowAt(r)' = RowAfterRetry(RowAt(r), runs[w].batch[r])
<1>1. PICK p \in Paths : \E i \in DOMAIN failures[p] : r = <<p, i>>
  BY ExistingRow
<1>2. PICK i \in DOMAIN failures[p] : r = <<p, i>>
  BY <1>1
<1>3. RowAt(r) = failures[p][i] /\ RowAt(r)' = failures'[p][i] /\ failures[p][i] \in Failure
  BY <1>2 DEF RowAt, TypeOK
<1>4. CASE UNCHANGED <<failures, documents, processed>>
  BY <1>2, <1>3, <1>4, ExistingRow DEF Untouched
<1>5. CASE TimePasses
  <2>1. /\ DOMAIN failures'[p] = DOMAIN failures[p]
        /\ failures'[p][i].status = failures[p][i].status
        /\ failures'[p][i].retry_count = failures[p][i].retry_count
        /\ failures'[p][i].tries = failures[p][i].tries
        /\ failures[p][i].expired => failures'[p][i].expired
    BY <1>5, TimePassesShape
  <2> QED
    BY <1>2, <1>3, <2>1, ExistingRow DEF Untouched
<1>6. ASSUME NEW rows, NEW status \in {"retrying", "dismissed"}, SetStatus(rows, status)
      PROVE  r \in ExistingRows' /\ Untouched(r)
  <2>1. status \in FailureStatus
    BY DEF FailureStatus
  <2>2. /\ DOMAIN failures'[p] = DOMAIN failures[p]
        /\ failures'[p][i] = IF <<p, i>> \in rows
                             THEN [failures[p][i] EXCEPT !.status = status]
                             ELSE failures[p][i]
    BY <1>6, <2>1, SetStatusShape
  <2>3. Untouched(r)
    BY <1>3, <2>2 DEF Failure, Untouched
  <2> QED
    BY <1>2, <2>2, <2>3, ExistingRow
<1>7. ASSUME NEW w \in Runs, FinishRun(w)
      PROVE  /\ r \in ExistingRows'
             /\ \/ Untouched(r)
                \/ /\ r \in Attempted(w)
                   /\ RowAt(r)' = RowAfterRetry(RowAt(r), runs[w].batch[r])
  <2>1. failures'[p] = FailuresAfter(w, p)
    BY <1>7 DEF FinishRun
  <2>2. i \in DOMAIN failures'[p]
    <3>1. failures[p] \in Seq(Failure) /\ failures'[p] \in Seq(Failure)
      BY <2>1, FailuresAfterShape DEF TypeOK
    <3>2. Len(failures'[p]) >= Len(failures[p])
      BY <2>1, FailuresAfterShape
    <3> QED
      BY <3>1, <3>2
  <2>3. failures'[p][i] = IF <<p, i>> \in Attempted(w)
                          THEN RowAfterRetry(failures[p][i], runs[w].batch[<<p, i>>])
                          ELSE failures[p][i]
    BY <2>1, FailuresAfterShape
  <2> QED
    BY <1>2, <1>3, <2>2, <2>3, ExistingRow DEF Untouched
<1> QED
  BY <1>4, <1>5, <1>6, <1>7, Writers

\* A row that was not there has been counted and retried no times.
LEMMA NewRow ==
  ASSUME TypeOK, [Next]_vars, NEW r \in ExistingRows', r \notin ExistingRows
  PROVE  RowAt(r)'.retry_count = 0 /\ RowAt(r)'.tries = 0
<1>1. PICK p \in Paths : \E i \in DOMAIN failures'[p] : r = <<p, i>>
  BY ExistingRow
<1>2. PICK i \in DOMAIN failures'[p] : r = <<p, i>>
  BY <1>1
<1>3. i \notin DOMAIN failures[p]
  BY <1>2, ExistingRow
<1>4. ASSUME NEW w \in Runs, FinishRun(w)
      PROVE  RowAt(r)'.retry_count = 0 /\ RowAt(r)'.tries = 0
  <2>1. failures'[p] = FailuresAfter(w, p)
    BY <1>4 DEF FinishRun
  <2>2. failures'[p][i] = NewFailure(runs[w].verdict[p])
    BY <1>2, <1>3, <2>1, FailuresAfterShape
  <2> QED
    BY <1>2, <2>2 DEF RowAt, NewFailure
<1>5. CASE UNCHANGED <<failures, documents, processed>>
  BY <1>2, <1>3, <1>5
<1>6. CASE TimePasses
  BY <1>2, <1>3, <1>6, TimePassesShape
<1>7. ASSUME NEW rows, NEW status \in {"retrying", "dismissed"}, SetStatus(rows, status)
      PROVE  FALSE
  <2>1. status \in FailureStatus
    BY DEF FailureStatus
  <2> QED
    BY <1>2, <1>3, <1>7, <2>1, SetStatusShape
<1> QED
  BY <1>4, <1>5, <1>6, <1>7, Writers

\* How a step of run v turns what it holds of row r into what it holds then.
Forgets(v, r) == runs'[v].batch[r].outcome = "unselected"

Selects(v, r) ==
  /\ runs'[v].phase # "idle"
  /\ r \in ExistingRows
  /\ runs'[v].batch[r] = [seen |-> RowAt(r).retry_count, outcome |-> "todo"]

Holds(v, r) ==
  /\ runs[v].batch[r].outcome # "unselected" /\ runs'[v].phase # "idle"
  /\ runs'[v].batch[r].seen = runs[v].batch[r].seen
  /\ \/ runs'[v].batch[r].outcome = runs[v].batch[r].outcome
     \/ runs'[v].batch[r].outcome = "dead_letter" /\ OutOfBudget(v, r)
     \/ /\ runs'[v].batch[r].outcome \in {"resolved", "tombstone", "failed"}
        /\ ~OutOfBudget(v, r)

\* A step of an execution forgets a row, selects it as it is, keeps the copy it
\* had of it, or retries it within the limit.
LEMMA BatchStep ==
  ASSUME TypeOK, [Next]_vars, NEW v \in Runs, NEW r \in Row
  PROVE  Forgets(v, r) \/ Selects(v, r) \/ Holds(v, r) \/ runs'[v] = runs[v]
<1> DEFINE Goal == Forgets(v, r) \/ Selects(v, r) \/ Holds(v, r) \/ runs'[v] = runs[v]
<1>1. runs \in [Runs -> Run]
  BY DEF TypeOK
<1>2. IdleRun.batch[r].outcome = "unselected"
  BY DEF IdleRun
<1>3. ASSUME NEW w \in Runs, StartTask(w) PROVE Goal
  <2>1. runs'[w].batch = IdleRun.batch /\ (v # w => runs'[v] = runs[v])
    BY <1>1, <1>3 DEF StartTask, IdleRun
  <2> QED
    BY <1>2, <2>1 DEF Forgets
<1>4. ASSUME NEW w \in Runs,
             \/ AuthenticationFails(w) \/ FinishIdleRun(w) \/ FinishRun(w) \/ Abort(w)
      PROVE  Goal
  <2>1. runs' = [runs EXCEPT ![w] = IdleRun]
    BY <1>4 DEF AuthenticationFails, FinishIdleRun, FinishRun, Abort, DiscoverRaises, Crash
  <2> QED
    BY <1>1, <1>2, <2>1 DEF Forgets
<1>5. ASSUME NEW w \in Runs, BeginRun(w) PROVE Goal
  <2>1. PICK S \in SUBSET RowsWith("retrying") :
          runs' = [runs EXCEPT
            ![w].phase = "retrying",
            ![w].batch = [q \in Row |->
                            IF q \in S
                            THEN [seen |-> RowAt(q).retry_count, outcome |-> "todo"]
                            ELSE @[q]]]
    BY <1>5 DEF BeginRun
  <2>2. /\ v # w => runs'[v] = runs[v]
        /\ runs'[w].phase = "retrying"
        /\ runs'[w].batch[r] =
             IF r \in S THEN [seen |-> RowAt(r).retry_count, outcome |-> "todo"]
             ELSE runs[w].batch[r]
    BY <1>1, <2>1 DEF Run
  <2>3. r \in S => r \in ExistingRows
    BY DEF RowsWith
  <2>4. CASE v = w /\ r \in S
    BY <2>2, <2>3, <2>4 DEF Selects
  <2>5. CASE v = w /\ r \notin S
    BY <2>2, <2>5 DEF Forgets, Holds
  <2> QED
    BY <2>2, <2>4, <2>5
<1>6. ASSUME NEW w \in Runs, NEW q \in Row, LayerTwo(w, q) PROVE Goal
  <2>1. PICK outcome : /\ RetryTurn(w, q, outcome)
                       /\ \/ outcome = "dead_letter" /\ OutOfBudget(w, q)
                          \/ /\ outcome \in {"resolved", "tombstone", "failed"}
                             /\ ~OutOfBudget(w, q)
    BY <1>6 DEF LayerTwo, RetryDeadLetters, RetrySucceeds, RetryFindsNothing, RetryFails
  <2>2. runs[w].phase = "retrying" /\ runs[w].batch[q].outcome = "todo"
    BY <1>6 DEF LayerTwo, RetryDeadLetters, RetrySucceeds, RetryFindsNothing, RetryFails, Retryable
  <2>3. /\ v # w => runs'[v] = runs[v]
        /\ runs'[w].phase = "retrying"
        /\ r # q => runs'[w].batch[r] = runs[w].batch[r]
        /\ runs'[w].batch[q] = [runs[w].batch[q] EXCEPT !.outcome = outcome]
    BY <1>1, <2>1, <2>2 DEF RetryTurn, Run
  <2>4. runs'[w].batch[q].seen = runs[w].batch[q].seen /\ runs'[w].batch[q].outcome = outcome
    BY <1>1, <2>3 DEF Run, Retry
  <2>5. CASE v = w /\ r = q
    BY <2>1, <2>2, <2>3, <2>4, <2>5 DEF Holds
  <2>6. CASE v = w /\ r # q
    BY <2>3, <2>6 DEF Forgets, Holds
  <2> QED
    BY <2>3, <2>5, <2>6
<1>7. ASSUME NEW w \in Runs,
             Discover(w) \/ \E p \in Paths : RecordIngested(w, p) \/ RecordFails(w, p)
      PROVE  Goal
  <2>1. CASE Discover(w)
    <3>1. /\ v # w => runs'[v] = runs[v]
          /\ runs'[w].phase = "fetching" /\ runs'[w].batch = runs[w].batch
      BY <1>1, <2>1 DEF Discover, Run
    <3> QED
      BY <3>1 DEF Forgets, Holds
  <2>2. ASSUME NEW p \in Paths, NEW verdict, RecordTurn(w, p, verdict) PROVE Goal
    <3>1. /\ v # w => runs'[v] = runs[v]
          /\ runs'[w].phase = "fetching" /\ runs'[w].batch = runs[w].batch
      BY <1>1, <2>2 DEF RecordTurn, Run
    <3> QED
      BY <3>1 DEF Forgets, Holds
  <2> QED
    BY <1>7, <2>1, <2>2 DEF RecordIngested, RecordFails
<1>8. ASSUME SchedulerStep \/ AdminStep \/ TimePasses \/ UNCHANGED vars PROVE Goal
  BY <1>8 DEF SchedulerStep, CronInstant, CheckScheduledSources, AdminStep,
              TriggerIngestion, RetrySyncFailure, DismissSyncFailure,
              RetryAllSyncFailures, DismissAllSyncFailures, SetStatus, UnpauseSource,
              TimePasses, RowExpires, vars
<1> HIDE DEF Goal
<1>9. ASSUME NEW w \in Runs, RunStep(w) PROVE Goal
  <2>1. \A q \in Row : LayerTwo(w, q) => Goal
    BY <1>6
  <2>2. \A p \in Paths : RecordIngested(w, p) \/ RecordFails(w, p) => Goal
    BY <1>7
  <2>3. Discover(w) => Goal
    BY <1>7
  <2> QED
    BY <1>3, <1>4, <1>5, <1>9, <2>1, <2>2, <2>3, Zenon DEF RunStep, WorkStep
<1>10. ASSUME Next PROVE Goal
  BY <1>8, <1>9, <1>10, Zenon DEF Next
<1>11. Goal
  BY <1>8, <1>10
<1> QED
  BY <1>11 DEF Goal
-----------------------------------------------------------------------------
(* Overlapping runs give no row up early: the counter of a row, and every   *)
(* copy of it, is never ahead of the failed retries.                       *)

CountsBehind == \A r \in ExistingRows : RowAt(r).retry_count <= RowAt(r).tries

CopyBehind(w, r) ==
  /\ r \in ExistingRows
  /\ runs[w].batch[r].seen <= RowAt(r).tries
  /\ runs[w].batch[r].outcome = "dead_letter" =>
       runs[w].batch[r].seen >= DeadLetterMaxRetries \/ RowAt(r).expired

CopiesBehind == \A w \in Runs : \A r \in Row :
  runs[w].batch[r].outcome # "unselected" => CopyBehind(w, r)

\* The rows and counters that arithmetic is done with.
LEMMA CountTypes ==
  ASSUME TypeOK
  PROVE  /\ \A r \in ExistingRows : RowAt(r) \in Failure
         /\ \A w \in Runs : \A r \in Row : runs[w].batch[r] \in Retry
<1>1. ASSUME NEW r \in ExistingRows PROVE RowAt(r) \in Failure
  <2>1. PICK p \in Paths : \E i \in DOMAIN failures[p] : r = <<p, i>>
    BY ExistingRow
  <2>2. PICK i \in DOMAIN failures[p] : r = <<p, i>>
    BY <2>1
  <2> QED
    BY <2>2 DEF RowAt, TypeOK
<1> QED
  BY <1>1 DEF TypeOK, Run

\* What a commit does to a row it has retried, from the copy it worked with.
LEMMA RetriedRow ==
  ASSUME TypeOK, NEW w \in Runs, NEW r \in ExistingRows, r \in Attempted(w),
         RowAt(r)' = RowAfterRetry(RowAt(r), runs[w].batch[r])
  PROVE  LET retry == runs[w].batch[r]
         IN  /\ RowAt(r)'.expired = RowAt(r).expired
             /\ retry.outcome = "failed" =>
                  /\ RowAt(r)'.retry_count = retry.seen + 1
                  /\ RowAt(r)'.tries = RowAt(r).tries + 1
                  /\ RowAt(r)'.status = "permanently_failed" =>
                       \/ RowAt(r).status = "permanently_failed"
                       \/ retry.seen + 1 >= DeadLetterMaxRetries
             /\ retry.outcome # "failed" =>
                  /\ RowAt(r)'.retry_count = RowAt(r).retry_count
                  /\ RowAt(r)'.tries = RowAt(r).tries
                  /\ RowAt(r)'.status = "permanently_failed" =>
                       retry.outcome = "dead_letter"
<1>1. /\ RowAt(r) \in Failure /\ r \in Row
      /\ runs[w].batch[r] \in Retry
      /\ runs[w].batch[r].outcome \notin {"unselected", "todo"}
  BY CountTypes DEF Attempted
<1> QED
  BY <1>1, RetryCounts

\* A row is never retried fewer times than before, nor ever young again.
LEMMA TriesGrow ==
  ASSUME TypeOK, CopiesBehind, CountsBehind, [Next]_vars, NEW r \in ExistingRows
  PROVE  /\ r \in ExistingRows'
         /\ RowAt(r)'.tries \in Nat /\ RowAt(r)'.tries >= RowAt(r).tries
         /\ RowAt(r)'.retry_count \in Nat /\ RowAt(r)'.retry_count <= RowAt(r)'.tries
         /\ RowAt(r).expired => RowAt(r)'.expired
<1>1. /\ RowAt(r).tries \in Nat /\ RowAt(r).retry_count \in Nat
      /\ RowAt(r).retry_count <= RowAt(r).tries
  BY CountTypes DEF Failure, CountsBehind
<1>2. CASE Untouched(r)
  BY <1>1, <1>2, RowStep DEF Untouched
<1>3. ASSUME NEW w \in Runs, r \in Attempted(w),
             RowAt(r)' = RowAfterRetry(RowAt(r), runs[w].batch[r])
      PROVE  /\ RowAt(r)'.tries \in Nat /\ RowAt(r)'.tries >= RowAt(r).tries
             /\ RowAt(r)'.retry_count \in Nat /\ RowAt(r)'.retry_count <= RowAt(r)'.tries
             /\ RowAt(r).expired => RowAt(r)'.expired
  <2>1. runs[w].batch[r].seen \in Nat /\ runs[w].batch[r].seen <= RowAt(r).tries
    BY <1>3, CountTypes DEF Attempted, CopiesBehind, CopyBehind, Retry
  <2>2. CASE runs[w].batch[r].outcome = "failed"
    BY <1>1, <1>3, <2>1, <2>2, RetriedRow
  <2>3. CASE runs[w].batch[r].outcome # "failed"
    BY <1>1, <1>3, <2>3, RetriedRow
  <2> QED
    BY <2>2, <2>3
<1> QED
  BY <1>2, <1>3, RowStep

LEMMA BehindStep ==
  ASSUME TypeOK, CopiesBehind, CountsBehind, [Next]_vars
  PROVE  CopiesBehind' /\ CountsBehind'
<1>1. ASSUME NEW r \in ExistingRows' PROVE RowAt(r)'.retry_count <= RowAt(r)'.tries
  BY TriesGrow, NewRow
<1>2. ASSUME NEW v \in Runs, NEW r \in Row, runs'[v].batch[r].outcome # "unselected"
      PROVE  CopyBehind(v, r)'
  <2>1. ASSUME r \in ExistingRows
        PROVE  /\ r \in ExistingRows' /\ RowAt(r) \in Failure
               /\ RowAt(r)'.tries \in Nat /\ RowAt(r)'.tries >= RowAt(r).tries
               /\ RowAt(r).expired => RowAt(r)'.expired
               /\ RowAt(r).retry_count <= RowAt(r).tries
    BY <2>1, TriesGrow, CountTypes DEF CountsBehind
  <2>2. ~Forgets(v, r)
    BY <1>2 DEF Forgets
  <2>3. CASE Selects(v, r)
    BY <2>1, <2>3 DEF Selects, CopyBehind, Failure
  <2>4. CASE Holds(v, r) \/ runs'[v] = runs[v]
    <3>1. /\ runs[v].batch[r].outcome # "unselected"
          /\ runs'[v].batch[r].seen = runs[v].batch[r].seen
          /\ \/ runs'[v].batch[r].outcome = runs[v].batch[r].outcome
             \/ runs'[v].batch[r].outcome = "dead_letter" /\ OutOfBudget(v, r)
             \/ runs'[v].batch[r].outcome \in {"resolved", "tombstone", "failed"}
      BY <1>2, <2>4 DEF Holds
    <3>2. CopyBehind(v, r) /\ runs[v].batch[r].seen \in Nat
      BY <3>1, CountTypes DEF CopiesBehind, Retry
    <3>3. r \in ExistingRows' /\ runs'[v].batch[r].seen <= RowAt(r)'.tries
      BY <2>1, <3>1, <3>2 DEF CopyBehind, Failure
    <3>4. runs'[v].batch[r].outcome = "dead_letter" =>
            runs'[v].batch[r].seen >= DeadLetterMaxRetries \/ RowAt(r)'.expired
      BY <2>1, <3>1, <3>2 DEF CopyBehind, OutOfBudget
    <3> QED
      BY <3>3, <3>4 DEF CopyBehind
  <2> QED
    BY <2>2, <2>3, <2>4, BatchStep
<1> QED
  BY <1>1, <1>2 DEF CopiesBehind, CountsBehind

\* A row that a step gives up has had its retries, or its seven days.
LEMMA GivenUpStep ==
  ASSUME TypeOK, CopiesBehind, [Next]_vars, NEW r \in ExistingRows,
         RowAt(r).status # "permanently_failed", RowAt(r)'.status = "permanently_failed"
  PROVE  RowAt(r)'.tries >= DeadLetterMaxRetries \/ RowAt(r).expired
<1>1. ~Untouched(r)
  BY DEF Untouched
<1>2. PICK w \in Runs : /\ r \in Attempted(w)
                        /\ RowAt(r)' = RowAfterRetry(RowAt(r), runs[w].batch[r])
  BY <1>1, RowStep
<1>3. /\ CopyBehind(w, r)
      /\ runs[w].batch[r].seen \in Nat /\ RowAt(r).tries \in Nat
  BY <1>2, CountTypes DEF Attempted, CopiesBehind, Retry, Failure
<1> USE SyncAssumption
<1>4. CASE runs[w].batch[r].outcome = "failed"
  BY <1>2, <1>3, <1>4, RetriedRow DEF CopyBehind
<1>5. CASE runs[w].batch[r].outcome # "failed"
  BY <1>2, <1>3, <1>5, RetriedRow DEF CopyBehind
<1> QED
  BY <1>4, <1>5

\* However many runs overlap, die or race with administrators, a row becomes
\* permanently_failed only after as many failed retries as the limit says, or
\* seven days after its first failure: increments may get lost, but none is
\* made that no failed retry stands for.
THEOREM GivenUpHolds == Spec => GivenUpWhenSpent
<1> DEFINE Inv == TypeOK /\ CopiesBehind /\ CountsBehind
<1>1. Init => Inv
  BY InitType DEF Init, CopiesBehind, CountsBehind, IdleRun, ExistingRows
<1>2. Inv /\ [Next]_vars => Inv'
  BY StepType, BehindStep
<1>3. Inv /\ [Next]_vars =>
        [\A r \in ExistingRows :
           RowAt(r).status # "permanently_failed" /\ RowAt(r)'.status = "permanently_failed" =>
             RowAt(r)'.tries >= DeadLetterMaxRetries \/ RowAt(r).expired]_vars
  BY GivenUpStep
<1> QED
  BY <1>1, <1>2, <1>3, PTL DEF Spec, GivenUpWhenSpent
-----------------------------------------------------------------------------
(* Runs that take turns stay within the limit: the counter of a row, and    *)
(* the copy that is worked with, is the number of its failed retries.      *)

OneRun == \A v, w \in Runs : runs[v].phase # "idle" /\ runs[w].phase # "idle" => v = w

\* What a run holds of a row it has selected: the row, with the count it has now.
Counted(w, r) ==
  /\ runs[w].phase # "idle"
  /\ r \in ExistingRows
  /\ runs[w].batch[r].seen = RowAt(r).retry_count

FreshCounts == \A w \in Runs : \A r \in Row :
  runs[w].batch[r].outcome # "unselected" => Counted(w, r)

ExactCounts == \A r \in ExistingRows : RowAt(r).retry_count = RowAt(r).tries

FetchedInBudget == \A w \in Runs : \A r \in Fetched(w) :
  runs[w].batch[r].seen < DeadLetterMaxRetries

LEMMA CountsStep ==
  ASSUME TypeOK, OneRun, FreshCounts, [Next /\ TakingTurns]_vars
  PROVE  OneRun' /\ FreshCounts'
<1>1. OneRun'
  <2>1. CASE UNCHANGED vars
    BY <2>1 DEF vars, OneRun
  <2> QED
    BY <2>1 DEF TakingTurns, OneRun
<1>2. ASSUME NEW v \in Runs, NEW r \in Row, runs'[v].batch[r].outcome # "unselected"
      PROVE  Counted(v, r)'
  <2>1. ASSUME NEW w \in Runs, FinishRun(w) PROVE FALSE
    <3>1. runs[w].phase = "fetching" /\ runs' = [runs EXCEPT ![w] = IdleRun]
      BY <2>1 DEF FinishRun
    <3>2. runs \in [Runs -> Run]
      BY DEF TypeOK
    <3>3. CASE v = w
      BY <1>2, <3>1, <3>2, <3>3 DEF IdleRun
    <3>4. CASE v # w
      <4>1. runs'[v] = runs[v] /\ runs[v].phase = "idle"
        BY <3>1, <3>2, <3>4 DEF OneRun
      <4> QED
        BY <1>2, <4>1 DEF FreshCounts, Counted
    <3> QED
      BY <3>3, <3>4
  <2>2. ASSUME r \in ExistingRows
        PROVE  r \in ExistingRows' /\ RowAt(r)'.retry_count = RowAt(r).retry_count
    BY <2>1, <2>2, RowStep DEF Untouched
  <2>3. runs[v].batch[r].outcome # "unselected" => Counted(v, r)
    BY DEF FreshCounts
  <2>4. CASE Selects(v, r)
    BY <2>2, <2>4 DEF Selects, Counted
  <2>5. CASE Holds(v, r) \/ runs'[v] = runs[v]
    BY <1>2, <2>2, <2>3, <2>5 DEF Holds, Counted
  <2> QED
    BY <1>2, <2>4, <2>5, BatchStep DEF Forgets
<1> QED
  BY <1>1, <1>2 DEF FreshCounts

LEMMA ExactStep ==
  ASSUME TypeOK, FreshCounts, ExactCounts, [Next]_vars
  PROVE  ExactCounts'
<1> SUFFICES ASSUME NEW r \in ExistingRows'
             PROVE  RowAt(r)'.retry_count = RowAt(r)'.tries
  BY DEF ExactCounts
<1>1. CASE r \notin ExistingRows
  BY <1>1, NewRow
<1>2. CASE r \in ExistingRows
  <2>1. RowAt(r).retry_count = RowAt(r).tries
    BY <1>2 DEF ExactCounts
  <2>2. ASSUME NEW w \in Runs, r \in Attempted(w),
               RowAt(r)' = RowAfterRetry(RowAt(r), runs[w].batch[r])
        PROVE  RowAt(r)'.retry_count = RowAt(r)'.tries
    <3>1. runs[w].batch[r].seen = RowAt(r).retry_count
      BY <2>2 DEF Attempted, FreshCounts, Counted
    <3> QED
      BY <1>2, <2>1, <2>2, <3>1, RetriedRow
  <2> QED
    BY <1>2, <2>1, <2>2, RowStep DEF Untouched
<1> QED
  BY <1>1, <1>2

LEMMA FetchedStep ==
  ASSUME TypeOK, FetchedInBudget, [Next]_vars
  PROVE  FetchedInBudget'
<1> SUFFICES ASSUME NEW v \in Runs, NEW r \in Row,
                    runs'[v].batch[r].outcome \in {"resolved", "tombstone", "failed"}
             PROVE  runs'[v].batch[r].seen < DeadLetterMaxRetries
  BY DEF FetchedInBudget, Fetched
<1>1. ~Forgets(v, r) /\ ~Selects(v, r)
  BY DEF Forgets, Selects
<1>2. /\ runs'[v].batch[r].seen = runs[v].batch[r].seen
      /\ \/ runs'[v].batch[r].outcome = runs[v].batch[r].outcome
         \/ ~OutOfBudget(v, r)
  BY <1>1, BatchStep DEF Holds
<1>3. CASE runs'[v].batch[r].outcome = runs[v].batch[r].outcome
  BY <1>2, <1>3 DEF FetchedInBudget, Fetched
<1>4. CASE ~OutOfBudget(v, r)
  <2>1. runs[v].batch[r].seen \in Nat
    BY CountTypes DEF Retry
  <2> QED
    BY <1>2, <1>4, <2>1, SyncAssumption DEF OutOfBudget
<1> QED
  BY <1>2, <1>3, <1>4

\* With runs taking turns, a record is fetched again only while fewer of its
\* retries have failed than the limit says, whatever administrators do to its
\* row and however often a run dies.
THEOREM RetryBudgetHolds == SerialSpec => []RetryBudget
<1> DEFINE Inv == TypeOK /\ OneRun /\ FreshCounts /\ ExactCounts /\ FetchedInBudget
<1>1. Init => Inv
  BY InitType DEF Init, OneRun, FreshCounts, ExactCounts, FetchedInBudget, Fetched,
                  IdleRun, ExistingRows
<1>2. Inv /\ [Next /\ TakingTurns]_vars => Inv'
  <2> SUFFICES ASSUME Inv, [Next /\ TakingTurns]_vars PROVE Inv'
    OBVIOUS
  <2>1. [Next]_vars
    OBVIOUS
  <2>2. TypeOK'
    BY <2>1, StepType
  <2>3. OneRun' /\ FreshCounts'
    BY CountsStep
  <2>4. ExactCounts' /\ FetchedInBudget'
    BY <2>1, ExactStep, FetchedStep
  <2> QED
    BY <2>2, <2>3, <2>4
<1>3. Inv => RetryBudget
  <2> SUFFICES ASSUME Inv, NEW w \in Runs, NEW r \in Fetched(w)
               PROVE  RowAt(r).tries < DeadLetterMaxRetries
    BY DEF RetryBudget
  <2>1. r \in Row /\ Counted(w, r)
    BY DEF Fetched, FreshCounts
  <2>2. runs[w].batch[r].seen = RowAt(r).tries
    BY <2>1 DEF Counted, ExactCounts
  <2> QED
    BY <2>2 DEF FetchedInBudget
<1> QED
  BY <1>1, <1>2, <1>3, PTL DEF SerialSpec

=============================================================================
