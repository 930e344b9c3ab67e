--------------------------- MODULE AuditLogProofs ---------------------------
(***************************************************************************)
(* Proofs about AuditLog: the type invariant, the integrity of the chain   *)
(* under calls that do not overlap, what verify_chain says of it, and the  *)
(* safety of the retention job, for any number of writers, entries, ticks  *)
(* and any page size.                                                      *)
(***************************************************************************)
EXTENDS AuditLog, FiniteSetTheorems, FunctionTheorems, WellFoundedInduction, TLAPS

USE AuditAssumption DEF AuditAssumption

-----------------------------------------------------------------------------
(* Finite sets have a last element.                                          *)

\* A non-empty bounded set of naturals has a greatest element.
LEMMA GreatestNatural ==
  ASSUME NEW S \in SUBSET Nat, NEW n \in Nat, \A s \in S : s <= n, S # {}
  PROVE  \E m \in S : \A s \in S : s <= m
<1> DEFINE Above(m) == {s \in S : m < s}
           T        == {Above(m) : m \in S}
<1>1. IsFiniteSet(S)
  BY FS_BoundedSetOfNaturals
<1>2. T \subseteq FiniteSubsetsOf(S)
  BY <1>1, FS_Subset DEF FiniteSubsetsOf
<1>3. T # {}
  OBVIOUS
<1> HIDE DEF T
<1>4. PICK x \in T : \A y \in T : <<y, x>> \notin StrictSubsetOrdering(S)
  BY <1>2, <1>3, FS_StrictSubsetOrderingWellFounded, WFMin
<1> USE DEF T
<1>5. PICK m \in S : x = Above(m)
  OBVIOUS
<1>6. Above(m) = {}
  <2> SUFFICES ASSUME NEW s \in Above(m) PROVE FALSE
    OBVIOUS
  <2>1. Above(s) \in T
    OBVIOUS
  <2>2. /\ \A i \in Above(s) : i \in Above(m)
        /\ s \in Above(m) /\ s \notin Above(s)
    <3>1. s \in Nat /\ m \in Nat /\ m < s
      OBVIOUS
    <3>2. \A i \in S : i \in Nat /\ (s < i => m < i)
      BY <3>1
    <3>3. ~(s < s)
      BY <3>1
    <3> QED BY <3>1, <3>2, <3>3
  <2>3. <<Above(s), Above(m)>> \in StrictSubsetOrdering(S)
    BY <2>2 DEF StrictSubsetOrdering
  <2> QED BY <2>1, <2>3, <1>4, <1>5
<1> QED BY <1>6

\* LastOf returns an id of the table, the greatest the snapshot holds, or 0.
LEMMA LastOfType ==
  ASSUME TypeOK, NEW seen \in SUBSET Ids
  PROVE  /\ LastOf(seen) \in Ids \cup {0}
         /\ LastOf(seen) # 0 => LastOf(seen) \in LogIds
         /\ \A i \in seen \cap LogIds : i <= LastOf(seen) /\ LastOf(seen) \in LogIds
<1> DEFINE rows == seen \cap LogIds
<1>1. rows \in SUBSET Nat /\ \A i \in rows : i <= MaxEntries
  <2>1. \A i \in Ids : i \in Nat /\ i <= MaxEntries
    BY DEF Ids
  <2> QED BY <2>1
<1>2. CASE rows = {}
  BY <1>2 DEF LastOf
<1>3. CASE rows # {}
  <2>1. \E i \in rows : \A j \in rows : j <= i
    BY <1>1, <1>3, GreatestNatural
  <2>2. LastOf(seen) \in rows /\ \A j \in rows : j <= LastOf(seen)
    BY <1>3, <2>1 DEF LastOf
  <2> QED BY <2>2
<1> QED BY <1>2, <1>3

\* A non-empty page has a final row.
LEMMA FinalIdType ==
  ASSUME NEW page \in SUBSET Entry, page # {}
  PROVE  FinalId(page) \in Ids
<1> DEFINE times  == {e.time : e \in page}
<1>1. times \in SUBSET Nat /\ \A t \in times : t <= MaxTime
  BY DEF Entry, Times
<1>2. PICK t \in times : \A u \in times : u <= t
  BY <1>1, GreatestNatural
<1> DEFINE newest == {e \in page : e.time = t}
           ids    == {e.id : e \in newest}
<1>3. ids \in SUBSET Nat /\ \A i \in ids : i <= MaxEntries
  BY DEF Entry, Ids
<1>4. ids # {}
  OBVIOUS
<1>5. PICK i \in ids : \A j \in ids : j <= i
  BY <1>3, <1>4, GreatestNatural
<1>6. PICK e \in page : e.time = t /\ e.id = i
  OBVIOUS
<1>7. \A f \in page : ~Before(e, f)
  <2> SUFFICES ASSUME NEW f \in page, Before(e, f) PROVE FALSE
    OBVIOUS
  <2>1. f.time \in times /\ f.time \in Nat /\ t \in Nat /\ f.time <= t
    BY <1>1, <1>2
  <2>2. f.time = t /\ i < f.id
    BY <1>6, <2>1 DEF Before
  <2>3. f.id \in ids
    BY <2>2
  <2>4. f.id <= i /\ f.id \in Nat /\ i \in Nat
    BY <2>3, <1>3, <1>5
  <2> QED BY <2>2, <2>4
<1>8. (CHOOSE g \in page : \A f \in page : ~Before(g, f)) \in page
  BY <1>6, <1>7
<1> QED BY <1>8 DEF FinalId, Entry

-----------------------------------------------------------------------------
(* The inductive invariant.                                                  *)

\* An id is taken from the sequence before it is seen anywhere, a row is chained
\* to an older id, and a timestamp is at most one tick old until the commit.
Sequenced ==
  /\ \A e \in log : e.id < nextId
  /\ \A w \in Writers :
       /\ Open(w) => /\ writers[w].prev < nextId
                     /\ writers[w].time <= now
                     /\ now <= writers[w].time + 1
       /\ writers[w].phase = "inserted" =>
            writers[w].id \in Ids /\ writers[w].id < nextId
            /\ writers[w].prev < writers[w].id

\* What the retention job is about to delete is in its batch, and in its file.
CleanupReady ==
  /\ cleanup.phase # "idle" =>
       /\ cleanup.cutoff <= now - Retention
       /\ \A e \in log : e.time < cleanup.cutoff => e.id \in cleanup.batch
       /\ \A w \in Writers : Open(w) => cleanup.cutoff <= writers[w].time
  /\ cleanup.phase = "archived" => archives[cleanup.file] = cleanup.batch

\* Without overlap: at most one call is in progress, there is a last row, the
\* call saw it or holds its lock, and the row it inserts comes after every other.
OneWriter ==
  \A v, w \in Writers : v # w => writers[v].phase = "idle" \/ writers[w].phase = "idle"

UniqueIds == \A e, f \in log : e.id = f.id => e = f

HasLast == log # {} => \E m \in log : \A e \in log : e.id <= m.id

WriterAtEnd(w) ==
  /\ writers[w].phase = "selected" => LogIds \subseteq writers[w].seen
  /\ Open(w) =>
       /\ \A e \in log : e.id <= writers[w].prev /\ e.time <= writers[w].time
       /\ log # {} => writers[w].prev \in LogIds
  /\ writers[w].phase = "inserted" => \A e \in log : e.id < writers[w].id

OneChain ==
  ~overlapped =>
    /\ Linked
    /\ UniqueIds
    /\ OneWriter
    /\ HasLast
    /\ \A e \in log : e.time <= now
    /\ \A w \in Writers : WriterAtEnd(w)

AuditInv == TypeOK /\ Sequenced /\ CleanupReady /\ OneChain

-----------------------------------------------------------------------------
(* Types.                                                                    *)

LEMMA AuditInitType == Init => TypeOK
<1> SUFFICES ASSUME Init PROVE TypeOK
  OBVIOUS
<1>1. 0 \in Times /\ <<0, 0>> \in Files
  <2>1. 0 \in Times
    BY DEF Times
  <2>2. 0 \div TicksPerDay = 0
    OBVIOUS
  <2>3. Day(0) \in Days
    BY <2>1 DEF Days
  <2> QED BY <2>1, <2>2, <2>3 DEF Files, Day
<1>2. writers \in [Writers -> Write]
  BY <1>1 DEF Init, NoWrite, Write
<1>3. cleanup \in Cleanup
  BY <1>1 DEF Init, Cleanup
<1>4. check \in Check
  BY DEF Init, Check
<1>5. archives \in [Files -> SUBSET Ids]
  BY DEF Init
<1>6. log \in SUBSET Entry /\ deleted \in SUBSET Ids
  BY DEF Init
<1>7. nextId \in 1 .. MaxEntries + 1
  BY DEF Init
<1>8. now \in Times /\ overlapped \in BOOLEAN
  BY <1>1 DEF Init
<1> QED BY <1>2, <1>3, <1>4, <1>5, <1>6, <1>7, <1>8 DEF TypeOK

LEMMA WriteStepType ==
  ASSUME TypeOK, Sequenced, NEW w \in Writers, WriteStep(w)
  PROVE  TypeOK'
<1> USE DEF TypeOK
<1>0. NoWrite \in Write
  BY DEF NoWrite, Write, Times
<1>1. CASE SelectLast(w)
  <2>1. LogIds \subseteq Ids
    BY DEF LogIds, Entry
  <2> QED BY <1>1, <2>1 DEF SelectLast, Write
<1>2. CASE LockLast(w)
  <2>1. LastOf(writers[w].seen) \in Ids \cup {0}
    BY LastOfType DEF Write
  <2> QED BY <1>2, <2>1 DEF LockLast, Write, NoWrite
<1>3. CASE Insert(w)
  <2>1. nextId \in Ids /\ nextId + 1 \in 1 .. MaxEntries + 1
    BY <1>3 DEF Insert, Ids
  <2> QED BY <1>3, <2>1 DEF Insert, Write
<1>4. CASE Commit(w)
  <2>1. [id |-> writers[w].id, prev |-> writers[w].prev, time |-> writers[w].time] \in Entry
    BY <1>4 DEF Commit, Sequenced, Write, Entry
  <2> QED BY <1>0, <1>4, <2>1 DEF Commit
<1>5. CASE Abandon(w)
  BY <1>0, <1>5 DEF Abandon
<1> QED BY <1>1, <1>2, <1>3, <1>4, <1>5 DEF WriteStep

LEMMA CleanupStepType ==
  ASSUME TypeOK, CleanupStep
  PROVE  TypeOK'
<1> USE DEF TypeOK
<1>1. CASE NothingExpired
  <2>1. now + TicksPerDay \in Nat
    BY DEF Times
  <2> QED BY <1>1, <2>1 DEF NothingExpired, Cleanup
<1>2. CASE SelectExpired
  <2>1. PICK first, last \in Expired(now - Retention) :
          cleanup' = [phase |-> "selected", cutoff |-> now - Retention,
                      batch |-> {e.id : e \in Expired(now - Retention)},
                      file |-> <<Day(first.time), Day(last.time)>>,
                      due |-> now + TicksPerDay]
    BY <1>2 DEF SelectExpired
  <2>2. Expired(now - Retention) \subseteq Entry
    BY DEF Expired
  <2>3. <<Day(first.time), Day(last.time)>> \in Files
    BY <2>2 DEF Files, Days, Entry
  <2>4. {e.id : e \in Expired(now - Retention)} \in SUBSET Ids
    BY <2>2 DEF Entry
  <2>5. now - Retention \in Int /\ now + TicksPerDay \in Nat
    BY DEF Times
  <2>6. cleanup' \in Cleanup
    BY <2>1, <2>3, <2>4, <2>5 DEF Cleanup
  <2> QED BY <1>2, <2>6 DEF SelectExpired
<1>3. CASE WriteArchive
  BY <1>3 DEF WriteArchive, Cleanup
<1>4. CASE DeleteExpired
  <2>1. {e.id : e \in Expired(cleanup.cutoff)} \in SUBSET Ids
    BY DEF Expired, Entry
  <2>2. cleanup' \in Cleanup
    BY <1>4 DEF DeleteExpired, Cleanup
  <2>3. check' \in Check
    BY <1>4 DEF DeleteExpired, Check
  <2>4. log' \in SUBSET Entry /\ deleted' \in SUBSET Ids
    BY <1>4, <2>1 DEF DeleteExpired
  <2> QED BY <1>4, <2>2, <2>3, <2>4 DEF DeleteExpired
<1>5. CASE CleanupCrash
  BY <1>5 DEF CleanupCrash, Cleanup
<1> QED BY <1>1, <1>2, <1>3, <1>4, <1>5 DEF CleanupStep

LEMMA VerifyStepType ==
  ASSUME TypeOK, VerifyStart \/ VerifyPage
  PROVE  TypeOK'
<1> USE DEF TypeOK
<1>1. CASE VerifyStart
  BY <1>1 DEF VerifyStart, Check
<1>2. CASE VerifyPage
  <2> DEFINE page == Page(log, check.last)
  <2>1. page \in SUBSET Entry
    BY DEF Page
  <2>2. page # {} => FinalId(page) \in Ids
    BY <2>1, FinalIdType
  <2> HIDE DEF page
  <2>3. check' = IF page = {} THEN [check EXCEPT !.verdict = "intact"]
                 ELSE IF ~PageIntact(page, check.last)
                 THEN [check EXCEPT !.verdict = "broken"]
                 ELSE [check EXCEPT !.last = FinalId(page)]
    BY <1>2 DEF VerifyPage, page
  <2>4. check' \in Check
    BY <2>2, <2>3 DEF Check
  <2> QED BY <1>2, <2>4 DEF VerifyPage
<1> QED BY <1>1, <1>2

\* Every step keeps the types.
LEMMA AuditStepType ==
  ASSUME TypeOK, Sequenced, [Next]_vars
  PROVE  TypeOK'
<1>1. CASE \E w \in Writers : WriteStep(w)
  BY <1>1, WriteStepType
<1>2. CASE CleanupStep
  BY <1>2, CleanupStepType
<1>3. CASE VerifyStart \/ VerifyPage
  BY <1>3, VerifyStepType
<1>4. CASE Tick
  BY <1>4 DEF Tick, TypeOK, Times
<1>5. CASE UNCHANGED vars
  BY <1>5 DEF vars, TypeOK
<1> QED BY <1>1, <1>2, <1>3, <1>4, <1>5 DEF Next

-----------------------------------------------------------------------------
(* Ids, timestamps and the retention job.                                    *)

LEMMA SequencedStep ==
  ASSUME TypeOK, Sequenced, [Next]_vars
  PROVE  Sequenced'
<1> USE DEF Sequenced, Open
<1>0. nextId \in Nat /\ now \in Nat /\ nextId < nextId + 1
  BY DEF TypeOK, Times
<1>1. ASSUME NEW w \in Writers, WriteStep(w) PROVE Sequenced'
  <2>0. writers \in [Writers -> Write]
    BY DEF TypeOK
  <2>1. CASE SelectLast(w)
    BY <2>0, <2>1 DEF SelectLast
  <2>2. CASE LockLast(w)
    <3> DEFINE last == LastOf(writers[w].seen)
    <3>1. last \in Ids \cup {0} /\ (last # 0 => last \in LogIds)
      BY <2>0, LastOfType DEF Write
    <3>2. last < nextId
      BY <1>0, <3>1 DEF LogIds, TypeOK
    <3> HIDE DEF last
    <3>3. writers' = [writers EXCEPT ![w] =
            [NoWrite EXCEPT !.phase = "locked", !.prev = last, !.time = now]]
      BY <2>2 DEF LockLast, last
    <3>4. writers'[w].phase = "locked" /\ writers'[w].prev = last /\ writers'[w].time = now
      BY <2>0, <3>3 DEF NoWrite
    <3>5. now <= now /\ now <= now + 1
      BY <1>0
    <3> QED BY <2>0, <2>2, <3>2, <3>3, <3>4, <3>5 DEF LockLast
  <2>3. CASE Insert(w)
    <3>1. nextId' = nextId + 1 /\ nextId \in Ids
      BY <1>0, <2>3 DEF Insert, Ids, TypeOK
    <3>2. \A i \in Nat : i < nextId => i < nextId'
      BY <1>0, <3>1
    <3>3. \A v \in Writers : writers[v].prev \in Nat /\ writers[v].id \in Nat
      BY <2>0 DEF Write, Ids
    <3>4. \A e \in log : e.id \in Nat
      BY DEF TypeOK, Entry, Ids
    <3>5. writers[w].prev < nextId
      BY <2>3 DEF Insert
    <3> QED BY <1>0, <2>0, <2>3, <3>1, <3>2, <3>3, <3>4, <3>5 DEF Insert
  <2>4. CASE Commit(w)
    BY <2>0, <2>4 DEF Commit, NoWrite
  <2>5. CASE Abandon(w)
    BY <2>0, <2>5 DEF Abandon, NoWrite
  <2> QED BY <1>1, <2>1, <2>2, <2>3, <2>4, <2>5 DEF WriteStep
<1>2. CASE CleanupStep
  <2>1. log' \subseteq log /\ UNCHANGED <<nextId, now, writers>>
    BY <1>2 DEF CleanupStep, NothingExpired, SelectExpired, WriteArchive, DeleteExpired,
       CleanupCrash
  <2> QED BY <2>1
<1>3. CASE VerifyStart \/ VerifyPage
  BY <1>3 DEF VerifyStart, VerifyPage
<1>4. CASE Tick
  <2>1. \A w \in Writers : Open(w) => writers[w].time <= now + 1
                                     /\ now + 1 <= writers[w].time + 1
    BY <1>0, <1>4 DEF Tick
  <2> QED BY <1>4, <2>1 DEF Tick
<1>5. CASE UNCHANGED vars
  BY <1>5 DEF vars
<1> QED BY <1>1, <1>2, <1>3, <1>4, <1>5 DEF Next

LEMMA CleanupReadyStep ==
  ASSUME TypeOK, Sequenced, CleanupReady, [Next]_vars
  PROVE  CleanupReady'
<1> USE DEF CleanupReady, Open
<1>0. /\ writers \in [Writers -> Write]
      /\ cleanup \in Cleanup
      /\ archives \in [Files -> SUBSET Ids]
      /\ now \in Nat
  BY DEF TypeOK, Times
<1>1. ASSUME NEW w \in Writers, WriteStep(w) PROVE CleanupReady'
  <2>0. UNCHANGED <<cleanup, archives, now>>
    BY <1>1 DEF WriteStep, SelectLast, LockLast, Insert, Commit, Abandon
  <2>1. CASE SelectLast(w)
    BY <1>0, <2>0, <2>1 DEF SelectLast
  <2>2. CASE LockLast(w)
    <3>1. writers'[w].time = now /\ \A v \in Writers \ {w} : writers'[v] = writers[v]
      BY <1>0, <2>2 DEF LockLast, NoWrite
    <3>2. cleanup.phase # "idle" => cleanup.cutoff <= now
      BY <1>0 DEF Cleanup
    <3> QED BY <2>0, <2>2, <3>1, <3>2 DEF LockLast
  <2>3. CASE Insert(w)
    BY <1>0, <2>0, <2>3 DEF Insert
  <2>4. CASE Commit(w)
    <3>1. cleanup.phase # "idle" => cleanup.cutoff <= writers[w].time
      BY <2>4 DEF Commit
    <3>2. cleanup.cutoff \in Int /\ writers[w].time \in Int
      BY <1>0 DEF Cleanup, Write, Times
    <3>3. cleanup.phase # "idle" => ~(writers[w].time < cleanup.cutoff)
      BY <3>1, <3>2
    <3> QED BY <1>0, <2>0, <2>4, <3>3 DEF Commit, NoWrite
  <2>5. CASE Abandon(w)
    BY <1>0, <2>0, <2>5 DEF Abandon, NoWrite
  <2> QED BY <1>1, <2>1, <2>2, <2>3, <2>4, <2>5 DEF WriteStep
<1>2. CASE NothingExpired
  BY <1>0, <1>2 DEF NothingExpired, Cleanup
<1>3. CASE SelectExpired
  <2>1. /\ cleanup'.phase = "selected"
        /\ cleanup'.cutoff = now - Retention
        /\ cleanup'.batch = {e.id : e \in Expired(now - Retention)}
        /\ UNCHANGED <<log, now, writers>>
    BY <1>3 DEF SelectExpired
  <2>2. \A v \in Writers : Open(v) => now - Retention <= writers[v].time
    <3> SUFFICES ASSUME NEW v \in Writers, Open(v) PROVE now - Retention <= writers[v].time
      OBVIOUS
    <3>1. now <= writers[v].time + 1
      BY DEF Sequenced
    <3>2. writers[v].time \in Nat
      BY <1>0 DEF Write, Times
    <3> QED BY <1>0, <3>1, <3>2
  <2>3. now - Retention <= now - Retention
    BY <1>0
  <2> QED BY <2>1, <2>2, <2>3 DEF Expired
<1>4. CASE WriteArchive
  BY <1>0, <1>4 DEF WriteArchive, Cleanup
<1>5. CASE DeleteExpired
  BY <1>0, <1>5 DEF DeleteExpired, Cleanup
<1>6. CASE CleanupCrash
  BY <1>0, <1>6 DEF CleanupCrash, Cleanup
<1>7. CASE VerifyStart \/ VerifyPage
  BY <1>7 DEF VerifyStart, VerifyPage
<1>8. CASE Tick
  <2>1. cleanup.cutoff \in Int
    BY <1>0 DEF Cleanup
  <2>2. /\ now' = now + 1
        /\ UNCHANGED <<log, writers, cleanup, archives>>
    BY <1>8 DEF Tick
  <2>3. ASSUME cleanup.phase # "idle" PROVE cleanup.cutoff <= now' - Retention
    <3>1. cleanup.cutoff <= now - Retention
      BY <2>3
    <3>2. now - Retention \in Int /\ now' - Retention \in Int
          /\ now - Retention <= now' - Retention
      BY <1>0, <2>2
    <3> QED BY <2>1, <3>1, <3>2
  <2> QED BY <2>2, <2>3
<1>9. CASE UNCHANGED vars
  BY <1>9 DEF vars
<1> QED BY <1>1, <1>2, <1>3, <1>4, <1>5, <1>6, <1>7, <1>8, <1>9 DEF Next, CleanupStep

-----------------------------------------------------------------------------
(* The chain.                                                                *)

LEMMA WriteStepChain ==
  ASSUME TypeOK, Sequenced, OneChain, NEW w \in Writers, WriteStep(w), ~overlapped'
  PROVE  OneChain'
<1>0. /\ writers \in [Writers -> Write]
      /\ ~overlapped /\ now' = now
      /\ \A v \in Writers \ {w} : writers'[v] = writers[v]
  BY DEF TypeOK, WriteStep, SelectLast, LockLast, Insert, Commit, Abandon
<1>1. /\ Linked /\ UniqueIds /\ OneWriter /\ HasLast
      /\ \A e \in log : e.time <= now
      /\ \A v \in Writers : WriterAtEnd(v)
  BY <1>0 DEF OneChain
<1>2. \A v \in Writers \ {w} : writers'[v].phase = "idle"
  BY <1>0, <1>1 DEF WriteStep, SelectLast, LockLast, Insert, Commit, Abandon, OneWriter
<1>3. OneWriter'
  BY <1>2 DEF OneWriter
<1>4. \A v \in Writers \ {w} : WriterAtEnd(v)'
  BY <1>2 DEF WriterAtEnd, Open
<1>5. CASE log' = log /\ WriterAtEnd(w)'
  BY <1>0, <1>1, <1>3, <1>4, <1>5 DEF OneChain, Linked, UniqueIds, HasLast, LogIds
<1>6. CASE SelectLast(w)
  <2>1. writers'[w].phase = "selected" /\ writers'[w].seen = LogIds /\ log' = log
    BY <1>0, <1>6 DEF SelectLast
  <2> QED BY <1>5, <2>1 DEF WriterAtEnd, Open, LogIds
<1>7. CASE LockLast(w)
  <2> DEFINE last == LastOf(writers[w].seen)
  <2>1. LogIds \subseteq writers[w].seen
    BY <1>1, <1>7 DEF LockLast, WriterAtEnd
  <2>2. \A i \in LogIds : i <= last /\ last \in LogIds
    BY <1>0, <2>1, LastOfType DEF Write
  <2> HIDE DEF last
  <2>3. /\ writers'[w].phase = "locked" /\ writers'[w].prev = last
        /\ writers'[w].time = now /\ log' = log
    BY <1>0, <1>7 DEF LockLast, NoWrite, last
  <2>4. \A e \in log : e.id <= last /\ e.time <= now /\ last \in LogIds
    BY <1>1, <2>2 DEF LogIds
  <2> QED BY <1>5, <2>3, <2>4 DEF WriterAtEnd, Open, LogIds
<1>8. CASE Insert(w)
  <2>1. /\ writers[w].phase = "locked" /\ writers'[w].phase = "inserted"
        /\ writers'[w].id = nextId /\ writers'[w].prev = writers[w].prev
        /\ writers'[w].time = writers[w].time /\ log' = log
    BY <1>0, <1>8 DEF Insert
  <2>2. \A e \in log : e.id < nextId
    BY DEF Sequenced
  <2> QED BY <1>1, <1>5, <2>1, <2>2 DEF WriterAtEnd, Open, LogIds
<1>9. CASE Commit(w)
  <2> DEFINE r == [id |-> writers[w].id, prev |-> writers[w].prev, time |-> writers[w].time]
  <2>1. writers[w].phase = "inserted" /\ log' = log \cup {r} /\ writers'[w].phase = "idle"
    BY <1>0, <1>9 DEF Commit, NoWrite
  <2>2. /\ \A e \in log : e.id < r.id /\ e.id <= r.prev /\ e.time <= r.time
        /\ log # {} => r.prev \in LogIds
        /\ r.prev < r.id /\ r.time <= now /\ r.id \in Nat /\ r.time \in Nat
    BY <1>0, <1>1, <2>1 DEF WriterAtEnd, Open, Sequenced, Write, Ids, Times
  <2> HIDE DEF r
  <2>3. \A e \in log : e.id \in Nat /\ e.id <= r.id /\ ~(r.id < e.id)
    BY <2>2 DEF TypeOK, Entry, Ids
  <2>4. ~(r.id < r.id) /\ r.id <= r.id
    BY <2>2
  <2>5. LogIds \subseteq LogIds'
    BY <2>1 DEF LogIds
  <2>6. Linked'
    BY <1>1, <2>1, <2>2, <2>3, <2>4, <2>5 DEF Linked
  <2>7. HasLast'
    BY <2>1, <2>3, <2>4 DEF HasLast
  <2>8. WriterAtEnd(w)'
    BY <2>1 DEF WriterAtEnd, Open
  <2>9. \A e \in log' : e.time <= now'
    BY <1>0, <1>1, <2>1, <2>2
  <2>10. UniqueIds'
    <3>1. \A e \in log : e.id # r.id
      BY <2>2, <2>3
    <3> QED BY <1>1, <2>1, <3>1 DEF UniqueIds
  <2> QED BY <1>3, <1>4, <2>6, <2>7, <2>8, <2>9, <2>10 DEF OneChain
<1>10. CASE Abandon(w)
  <2>1. writers'[w].phase = "idle" /\ log' = log
    BY <1>0, <1>10 DEF Abandon, NoWrite
  <2> QED BY <1>5, <2>1 DEF WriterAtEnd, Open
<1> QED BY <1>6, <1>7, <1>8, <1>9, <1>10 DEF WriteStep

LEMMA DeleteChain ==
  ASSUME TypeOK, OneChain, DeleteExpired, ~overlapped'
  PROVE  OneChain'
<1> DEFINE cutoff == cleanup.cutoff
<1>0. /\ ~overlapped
      /\ log' = {e \in log : ~(e.time < cutoff)}
      /\ \A e \in log : e.time < cutoff => ~Locked(e.id)
      /\ UNCHANGED <<now, writers>>
      /\ cutoff \in Int
  BY DEF DeleteExpired, Expired, TypeOK, Cleanup
<1> HIDE DEF cutoff
<1>1. /\ Linked /\ UniqueIds /\ OneWriter /\ HasLast
      /\ \A e \in log : e.time <= now
      /\ \A v \in Writers : WriterAtEnd(v)
  BY <1>0 DEF OneChain
<1>2. \A e \in log : e.id \in Nat /\ e.id # 0 /\ e.time \in Nat /\ e.prev \in Nat
  BY DEF TypeOK, Entry, Ids, Times
<1>3. Linked'
  <2> SUFFICES ASSUME NEW e \in log', NEW f \in log', f.id < e.id
               PROVE  f.time <= e.time /\ f.id <= e.prev /\ e.prev < e.id /\ e.prev \in LogIds'
    BY DEF Linked
  <2>1. e \in log /\ f \in log /\ ~(f.time < cutoff)
    BY <1>0
  <2>2. f.time <= e.time /\ f.id <= e.prev /\ e.prev < e.id /\ e.prev \in LogIds
    BY <1>1, <2>1 DEF Linked
  <2>3. PICK g \in log : g.id = e.prev
    BY <2>2 DEF LogIds
  <2>4. CASE g.id = f.id
    BY <2>2, <2>3, <2>4 DEF LogIds
  <2>5. CASE f.id < g.id
    <3>1. f.time <= g.time
      BY <1>1, <2>1, <2>5 DEF Linked
    <3>2. ~(g.time < cutoff)
      BY <1>0, <1>2, <2>1, <3>1
    <3>3. g \in log'
      BY <1>0, <3>2
    <3> QED BY <2>2, <2>3, <3>3 DEF LogIds
  <2> QED BY <1>2, <2>1, <2>2, <2>3, <2>4, <2>5
<1>4. HasLast'
  <2> SUFFICES ASSUME NEW e0 \in log' PROVE \E m \in log' : \A e \in log' : e.id <= m.id
    BY DEF HasLast
  <2>1. PICK m \in log : \A e \in log : e.id <= m.id
    BY <1>0, <1>1 DEF HasLast
  <2>2. e0 \in log /\ ~(e0.time < cutoff)
    BY <1>0
  <2>3. CASE e0.id = m.id
    BY <1>0, <2>1, <2>3
  <2>4. CASE e0.id < m.id
    <3>1. e0.time <= m.time
      BY <1>1, <2>2, <2>4 DEF Linked
    <3>2. ~(m.time < cutoff)
      BY <1>0, <1>2, <2>2, <3>1
    <3> QED BY <1>0, <2>1, <3>2
  <2> QED BY <1>2, <2>1, <2>2, <2>3, <2>4
<1>5. ASSUME NEW v \in Writers PROVE WriterAtEnd(v)'
  <2>1. log' \subseteq log /\ LogIds' \subseteq LogIds /\ WriterAtEnd(v)
    BY <1>0, <1>1 DEF LogIds
  <2>2. ASSUME Open(v), NEW e \in log' PROVE writers[v].prev \in LogIds'
    <3>1. e \in log /\ writers[v].prev \in LogIds
      BY <2>1, <2>2 DEF WriterAtEnd
    <3>2. PICK g \in log : g.id = writers[v].prev
      BY <3>1 DEF LogIds
    <3>3. Locked(g.id)
      BY <1>2, <2>2, <3>2 DEF Locked
    <3>4. g \in log'
      BY <1>0, <3>3
    <3> QED BY <3>2, <3>4 DEF LogIds
  <2>3. Open(v)' => Open(v)
    BY <1>0 DEF Open
  <2>4. writers' = writers
    BY <1>0
  <2> QED BY <2>1, <2>2, <2>3, <2>4 DEF WriterAtEnd
<1>6. UniqueIds' /\ OneWriter' /\ \A e \in log' : e.time <= now'
  BY <1>0, <1>1 DEF UniqueIds, OneWriter
<1> QED BY <1>3, <1>4, <1>5, <1>6 DEF OneChain

LEMMA ChainStep ==
  ASSUME TypeOK, Sequenced, OneChain, [Next]_vars
  PROVE  OneChain'
<1> SUFFICES ASSUME ~overlapped' PROVE OneChain'
  BY DEF OneChain
<1>1. CASE \E w \in Writers : WriteStep(w)
  BY <1>1, WriteStepChain
<1>2. CASE DeleteExpired
  BY <1>2, DeleteChain
<1>3. CASE UNCHANGED <<log, writers, overlapped>> /\ now' \in {now, now + 1}
  <2>1. \A e \in log : e.time <= now => e.time <= now'
    BY <1>3 DEF TypeOK, Entry, Times
  <2> QED BY <1>3, <2>1 DEF OneChain, Linked, UniqueIds, OneWriter, HasLast, WriterAtEnd, Open, LogIds
<1> QED BY <1>1, <1>2, <1>3 DEF Next, CleanupStep, NothingExpired, SelectExpired,
       WriteArchive, CleanupCrash, VerifyStart, VerifyPage, Tick, vars

-----------------------------------------------------------------------------
(* Rows in the order of their ids, and their pages.                          *)

RowIds(rows) == {r.id : r \in rows}

\* Ids identify rows, and timestamps do not decrease along them.
Ordered(rows) ==
  \A e, f \in rows : /\ e.id = f.id => e = f
                     /\ f.id < e.id => f.time <= e.time

\* Every row but the oldest is chained to its immediate predecessor.
Chain(rows) ==
  /\ Ordered(rows)
  /\ \A e, f \in rows : f.id < e.id => f.id <= e.prev /\ e.prev < e.id /\ e.prev \in RowIds(rows)

LEMMA RowTypes ==
  ASSUME NEW rows \in SUBSET Entry, NEW e \in rows
  PROVE  /\ e.id \in Nat /\ e.id # 0 /\ e.id \in Ids /\ e.id <= MaxEntries
         /\ e.time \in Nat /\ e.prev \in Nat
<1>1. e.id \in Ids /\ e.prev \in Ids \cup {0} /\ e.time \in Times
  BY DEF Entry
<1> QED BY <1>1 DEF Ids, Times

\* verify_chain reads rows by timestamp first: here, that is by id.
LEMMA BeforeIsById ==
  ASSUME NEW rows \in SUBSET Entry, Ordered(rows), NEW e \in rows, NEW f \in rows
  PROVE  Before(f, e) <=> f.id < e.id
<1>1. e.id \in Nat /\ f.id \in Nat /\ e.time \in Nat /\ f.time \in Nat
  BY RowTypes
<1>2. /\ e.id = f.id => e = f
      /\ f.id < e.id => f.time <= e.time
      /\ e.id < f.id => e.time <= f.time
  BY DEF Ordered
<1> QED BY <1>1, <1>2 DEF Before

LEMMA OrderedRows ==
  ASSUME NEW rows \in SUBSET Entry, Ordered(rows), NEW part \in SUBSET rows
  PROVE  Ordered(part) /\ IsFiniteSet(part)
<1>1. Ordered(part)
  BY DEF Ordered
<1>2. IsFiniteSet(part)
  <2> DEFINE id == [r \in part |-> r.id]
  <2>1. IsFiniteSet(Ids)
    BY FS_Interval DEF Ids
  <2>2. id \in [part -> Ids]
    BY RowTypes
  <2>3. \A e, f \in part : id[e] = id[f] => e = f
    BY DEF Ordered
  <2> HIDE DEF id
  <2>4. id \in Injection(part, Ids)
    BY <2>2, <2>3, Fun_IsInj
  <2> QED BY <2>1, <2>4, FS_Injection
<1> QED BY <1>1, <1>2

\* The rank of a row: of an older row it is less, and of the next row one more.
LEMMA RankOrder ==
  ASSUME NEW rows \in SUBSET Entry, Ordered(rows), NEW e \in rows
  PROVE  /\ Rank(e, rows) \in Nat
         /\ Rank(e, rows) = 0 <=> \A f \in rows : ~(f.id < e.id)
         /\ \A f \in rows : f.id < e.id => Rank(f, rows) < Rank(e, rows)
<1> DEFINE below(r) == {f \in rows : Before(f, r)}
<1>1. \A r \in rows : \A f \in rows : f \in below(r) <=> f.id < r.id
  BY BeforeIsById
<1>2. \A r \in rows : r.id \in Nat
  BY RowTypes
<1>3. ASSUME NEW r \in rows PROVE IsFiniteSet(below(r)) /\ Cardinality(below(r)) \in Nat
  BY OrderedRows, FS_CardinalityType
<1>4. \A r \in rows : below(r) \in SUBSET rows
  OBVIOUS
<1>5. \A r \in rows : Rank(r, rows) = Cardinality(below(r))
  BY DEF Rank
<1> HIDE DEF below
<1>6. Rank(e, rows) = 0 <=> below(e) = {}
  BY <1>3, <1>5, FS_EmptySet
<1>7. below(e) = {} <=> \A f \in rows : ~(f.id < e.id)
  BY <1>1, <1>4
<1>8. ASSUME NEW f \in rows, f.id < e.id PROVE Rank(f, rows) < Rank(e, rows)
  <2>1. \A r \in rows : r.id < f.id => r.id < e.id
    BY <1>2, <1>8
  <2>2. below(f) \in SUBSET below(e)
    BY <1>1, <1>4, <2>1
  <2>3. f \in below(e) /\ f \notin below(f)
    BY <1>1, <1>2, <1>8
  <2>4. /\ Cardinality(below(f)) <= Cardinality(below(e))
        /\ Cardinality(below(f)) # Cardinality(below(e))
    BY <1>3, <2>2, <2>3, FS_Subset
  <2> QED BY <1>3, <1>5, <2>4
<1> QED BY <1>3, <1>5, <1>6, <1>7, <1>8

LEMMA RankNext ==
  ASSUME NEW rows \in SUBSET Entry, Ordered(rows), NEW e \in rows, NEW f \in rows
  PROVE  Rank(f, rows) = Rank(e, rows) + 1 <=>
           e.id < f.id /\ \A g \in rows : ~(e.id < g.id /\ g.id < f.id)
<1> DEFINE below(r) == {g \in rows : Before(g, r)}
<1>1. \A r, g \in rows : g \in below(r) <=> g.id < r.id
  BY BeforeIsById
<1>2. \A r \in rows : r.id \in Nat
  BY RowTypes
<1>3. \A r \in rows : Rank(r, rows) \in Nat
  BY RankOrder
<1>4. \A r, g \in rows : g.id < r.id => Rank(g, rows) < Rank(r, rows)
  BY RankOrder
<1>5. ASSUME Rank(f, rows) = Rank(e, rows) + 1
      PROVE  e.id < f.id /\ \A g \in rows : ~(e.id < g.id /\ g.id < f.id)
  <2>1. e.id < f.id
    <3>1. ~(f.id < e.id)
      BY <1>3, <1>4, <1>5
    <3>2. f.id # e.id
      <4>1. f.id = e.id => f = e
        BY DEF Ordered
      <4> QED BY <1>3, <1>5, <4>1
    <3> QED BY <1>2, <3>1, <3>2
  <2>2. ASSUME NEW g \in rows, e.id < g.id, g.id < f.id PROVE FALSE
    <3>1. Rank(e, rows) < Rank(g, rows) /\ Rank(g, rows) < Rank(f, rows)
      BY <1>4, <2>2
    <3> QED BY <1>3, <1>5, <3>1
  <2> QED BY <2>1, <2>2
<1>6. ASSUME e.id < f.id, \A g \in rows : ~(e.id < g.id /\ g.id < f.id)
      PROVE  Rank(f, rows) = Rank(e, rows) + 1
  <2>1. IsFiniteSet(below(e)) /\ Cardinality(below(e)) \in Nat
    BY OrderedRows, FS_CardinalityType
  <2>2. /\ below(e) \in SUBSET rows /\ below(f) \in SUBSET rows
        /\ \A r \in rows : Rank(r, rows) = Cardinality(below(r))
    BY DEF Rank
  <2> HIDE DEF below
  <2>3. \A g \in rows : g.id < f.id <=> g.id < e.id \/ g = e
    <3>1. \A g \in rows : g.id = e.id => g = e
      BY DEF Ordered
    <3> QED BY <1>2, <1>6, <3>1
  <2>4. below(f) = below(e) \cup {e} /\ e \notin below(e)
    <3>1. ~(e.id < e.id)
      BY <1>2
    <3> QED BY <1>1, <2>2, <2>3, <3>1
  <2>5. Cardinality(below(f)) = Cardinality(below(e)) + 1
    BY <2>1, <2>4, FS_AddElement
  <2> QED BY <2>2, <2>5
<1> QED BY <1>5, <1>6

\* A page holds the first rows after "last", and at least one if there is any.
LEMMA PageIs ==
  ASSUME NEW rows \in SUBSET Entry, Ordered(rows), NEW last \in Ids \cup {0}
  PROVE  /\ Page(rows, last) \in SUBSET rows /\ Ordered(Page(rows, last))
         /\ \A e \in Page(rows, last) : last < e.id
         /\ \A e \in Page(rows, last) : \A f \in rows :
              last < f.id /\ f.id < e.id => f \in Page(rows, last)
         /\ Page(rows, last) = {} => \A e \in rows : ~(last < e.id)
<1> DEFINE rest == {e \in rows : e.id > last}
<1>1. last \in Nat
  BY DEF Ids
<1>2. \A e \in rows : e.id \in Nat /\ e.id <= MaxEntries
  BY RowTypes
<1>3. /\ rest \in SUBSET rows
      /\ \A e \in rows : e \in rest <=> last < e.id
  BY <1>1, <1>2
<1>4. /\ Page(rows, last) \in SUBSET rest
      /\ \A e \in rest : e \in Page(rows, last) <=> Rank(e, rest) < PageSize
  BY DEF Page
<1> HIDE DEF rest
<1>5. rest \in SUBSET Entry /\ Ordered(rest)
  BY <1>3, OrderedRows
<1>6. /\ \A e \in rest : Rank(e, rest) \in Nat
      /\ \A e \in rest : Rank(e, rest) = 0 <=> \A f \in rest : ~(f.id < e.id)
      /\ \A e, f \in rest : f.id < e.id => Rank(f, rest) < Rank(e, rest)
  BY <1>5, RankOrder
<1>7. ASSUME NEW e \in Page(rows, last), NEW f \in rows, last < f.id, f.id < e.id
      PROVE  f \in Page(rows, last)
  <2>1. e \in rest /\ f \in rest /\ Rank(e, rest) < PageSize
    BY <1>3, <1>4, <1>7
  <2>2. Rank(f, rest) < Rank(e, rest)
    BY <1>6, <1>7, <2>1
  <2>3. Rank(f, rest) < PageSize
    BY <1>6, <2>1, <2>2
  <2> QED BY <1>4, <2>1, <2>3
<1>8. ASSUME NEW e \in rows, last < e.id PROVE Page(rows, last) # {}
  <2>1. PICK m \in rest : \A f \in rest : ~(f.id < m.id)
    <3> DEFINE down == {MaxEntries - f.id : f \in rest}
    <3>1. down \in SUBSET Nat /\ \A n \in down : n <= MaxEntries
      BY <1>2, <1>3
    <3>2. down # {}
      BY <1>3, <1>8
    <3>3. PICK n \in down : \A k \in down : k <= n
      BY <3>1, <3>2, GreatestNatural
    <3>4. PICK m \in rest : n = MaxEntries - m.id
      OBVIOUS
    <3>5. \A f \in rest : MaxEntries - f.id <= MaxEntries - m.id
      BY <3>3, <3>4
    <3>6. \A f \in rest : f.id \in Nat /\ m.id \in Nat
      BY <1>2, <1>3
    <3>7. \A f \in rest : ~(f.id < m.id)
      BY <3>5, <3>6
    <3> QED BY <3>7
  <2>2. Rank(m, rest) = 0
    BY <1>6, <2>1
  <2> QED BY <1>4, <2>1, <2>2
<1> QED BY <1>3, <1>4, <1>5, <1>7, <1>8, OrderedRows

\* The final row of a page is the one with its greatest id.
LEMMA FinalIdIs ==
  ASSUME NEW page \in SUBSET Entry, Ordered(page), page # {}
  PROVE  /\ FinalId(page) \in RowIds(page) /\ FinalId(page) \in Ids
         /\ \A e \in page : e.id <= FinalId(page)
<1> DEFINE ids == RowIds(page)
<1>1. \A e \in page : e.id \in Nat /\ e.id <= MaxEntries
  BY RowTypes
<1>2. ids \in SUBSET Nat /\ ids # {} /\ \A i \in ids : i <= MaxEntries
  BY <1>1 DEF RowIds
<1>3. PICK i \in ids : \A j \in ids : j <= i
  BY <1>2, GreatestNatural
<1>4. PICK m \in page : m.id = i
  BY DEF RowIds
<1>5. \A e \in page : e.id <= m.id
  BY <1>3, <1>4 DEF RowIds
<1>6. \A e, f \in page : Before(e, f) <=> e.id < f.id
  BY BeforeIsById
<1>7. \A f \in page : ~Before(m, f)
  BY <1>1, <1>5, <1>6
<1> DEFINE final == CHOOSE e \in page : \A f \in page : ~Before(e, f)
<1>8. final \in page /\ \A f \in page : ~Before(final, f)
  BY <1>7
<1>9. FinalId(page) = final.id
  BY DEF FinalId
<1> HIDE DEF final
<1>10. \A f \in page : f.id <= final.id
  BY <1>1, <1>6, <1>8
<1>11. final.id \in Ids
  BY <1>8, RowTypes
<1> QED BY <1>8, <1>9, <1>10, <1>11 DEF RowIds

-----------------------------------------------------------------------------
(* Verdicts on a table that does not change.                                 *)

\* A page that begins after a row that is there, or at the beginning, is intact.
LEMMA ChainPage ==
  ASSUME NEW rows \in SUBSET Entry, Chain(rows), NEW last \in RowIds(rows) \cup {0}
  PROVE  PageIntact(Page(rows, last), last)
<1> DEFINE page == Page(rows, last)
<1>1. last \in Ids \cup {0} /\ last \in Nat
  BY RowTypes DEF RowIds, Ids
<1>2. Ordered(rows) /\ \A e \in rows : e.id \in Nat
  BY RowTypes DEF Chain
<1>3. /\ page \in SUBSET rows /\ Ordered(page)
      /\ \A e \in page : last < e.id
      /\ \A e \in page : \A f \in rows : last < f.id /\ f.id < e.id => f \in page
  BY <1>1, <1>2, PageIs
<1> HIDE DEF page
<1>4. page \in SUBSET Entry
  BY <1>3
<1>5. ASSUME last # 0, NEW e \in page, Rank(e, page) = 0 PROVE e.prev = last
  <2>1. PICK l \in rows : l.id = last
    BY <1>5 DEF RowIds
  <2>2. last <= e.prev /\ e.prev < e.id /\ e.prev \in RowIds(rows)
    BY <1>3, <2>1 DEF Chain
  <2>3. PICK p \in rows : p.id = e.prev
    BY <2>2 DEF RowIds
  <2>4. \A f \in page : ~(f.id < e.id)
    BY <1>3, <1>4, <1>5, RankOrder
  <2>5. ~(last < p.id)
    BY <1>3, <2>2, <2>3, <2>4
  <2> QED BY <1>1, <1>2, <2>2, <2>3, <2>5
<1>6. ASSUME NEW e \in page, NEW f \in page, Rank(f, page) = Rank(e, page) + 1
      PROVE  f.prev = e.id
  <2>1. e.id < f.id /\ \A g \in page : ~(e.id < g.id /\ g.id < f.id)
    BY <1>3, <1>4, <1>6, RankNext
  <2>2. e.id <= f.prev /\ f.prev < f.id /\ f.prev \in RowIds(rows)
    BY <1>3, <2>1 DEF Chain
  <2>3. PICK p \in rows : p.id = f.prev
    BY <2>2 DEF RowIds
  <2>4. last < e.id
    BY <1>3
  <2>5. ~(e.id < p.id)
    <3> SUFFICES ASSUME e.id < p.id PROVE FALSE
      OBVIOUS
    <3>1. last < p.id
      BY <1>1, <1>2, <1>3, <2>4
    <3>2. p \in page
      BY <1>3, <2>2, <2>3, <3>1
    <3> QED BY <2>1, <2>2, <2>3, <3>2
  <2> QED BY <1>2, <1>3, <2>2, <2>3, <2>5
<1>7. FirstLinked(page, last)
  BY <1>5 DEF FirstLinked
<1> QED BY <1>6, <1>7 DEF PageIntact, page

\* The verdict on the rows after "last", as verify_chain defines it.  There is such
\* a function: a position is good when it lies in a set of positions whose pages
\* are all intact and lead from one to another of the set.
LEMMA VerdictIs ==
  ASSUME NEW rows \in SUBSET Entry
  PROVE  \E f : /\ VerifyChain(rows) <=> f[0]
                /\ \A last \in Ids \cup {0} :
                     f[last] <=> \/ Page(rows, last) = {}
                                 \/ /\ PageIntact(Page(rows, last), last)
                                    /\ f[FinalId(Page(rows, last))]
<1> DEFINE Froms == Ids \cup {0}
           Onward(g, last) ==
             LET page == Page(rows, last)
             IN  page = {} \/ (PageIntact(page, last) /\ g[FinalId(page)])
           Recursive(g) == g = [last \in Froms |-> Onward(g, last)]
           verdict == CHOOSE g : Recursive(g)
<1>1. VerifyChain(rows) = verdict[0]
  BY DEF VerifyChain
<1> DEFINE Closed(T) == \A y \in T : \/ Page(rows, y) = {}
                                     \/ /\ PageIntact(Page(rows, y), y)
                                        /\ FinalId(Page(rows, y)) \in T
           Good(x) == \E T \in SUBSET Froms : x \in T /\ Closed(T)
           good == [x \in Froms |-> Good(x)]
<1>2. \A x \in Froms : Page(rows, x) # {} => FinalId(Page(rows, x)) \in Froms
  <2>1. \A x : Page(rows, x) \in SUBSET Entry
    BY DEF Page
  <2> QED BY <2>1, FinalIdType
<1>3. ASSUME NEW x \in Froms PROVE Good(x) <=> Onward(good, x)
  <2> DEFINE page == Page(rows, x)
             next == FinalId(page)
  <2>1. page # {} => (good[next] <=> Good(next))
    BY <1>2
  <2> HIDE DEF Froms, good
  <2>2. ASSUME NEW T \in SUBSET Froms, x \in T, Closed(T)
        PROVE  page = {} \/ (PageIntact(page, x) /\ Good(next))
    <3>1. page = {} \/ (PageIntact(page, x) /\ next \in T)
      BY <2>2
    <3>2. next \in T => Good(next)
      BY <2>2
    <3> QED BY <3>1, <3>2
  <2>3. ASSUME page = {} PROVE Good(x)
    <3>1. {x} \in SUBSET Froms /\ x \in {x} /\ Closed({x})
      BY <2>3
    <3> QED BY <3>1
  <2>4. ASSUME PageIntact(page, x), NEW T \in SUBSET Froms, next \in T, Closed(T) PROVE Good(x)
    <3> DEFINE U == T \cup {x}
    <3>1. U \in SUBSET Froms /\ x \in U
      OBVIOUS
    <3>2. ASSUME NEW y \in U
          PROVE  Page(rows, y) = {} \/ (PageIntact(Page(rows, y), y) /\ FinalId(Page(rows, y)) \in U)
      BY <2>4
    <3>3. Closed(U)
      BY <3>2
    <3> QED BY <3>1, <3>3
  <2>5. Good(x) <=> page = {} \/ (PageIntact(page, x) /\ Good(next))
    BY <2>2, <2>3, <2>4
  <2> HIDE DEF Good
  <2>6. Good(x) <=> page = {} \/ (PageIntact(page, x) /\ good[next])
    BY <2>1, <2>5
  <2> QED BY <2>6
<1>4. good = [x \in Froms |-> Onward(good, x)]
  <2> HIDE DEF Froms
  <2>1. \A x \in Froms : Good(x) \in BOOLEAN /\ Onward(good, x) \in BOOLEAN
    OBVIOUS
  <2> HIDE DEF Good, Onward
  <2>2. \A x \in Froms : Good(x) = Onward(good, x)
    BY <1>3, <2>1
  <2>3. good = [x \in Froms |-> Good(x)]
    OBVIOUS
  <2> HIDE DEF good
  <2> QED BY <2>2, <2>3
<1>5. Recursive(verdict)
  BY <1>4
<1>6. verdict = [last \in Froms |-> Onward(verdict, last)]
  BY <1>5
<1> HIDE DEF verdict
<1>7. \A last \in Froms : verdict[last] = Onward(verdict, last)
  <2> HIDE DEF Onward, Froms
  <2> QED BY <1>6
<1>8. \A last \in Froms : verdict[last] <=> Onward(verdict, last)
  BY <1>7
<1> QED BY <1>1, <1>8

\* verify_chain accepts a chain, whatever its oldest row was chained to.
LEMMA ChainVerifies ==
  ASSUME NEW rows \in SUBSET Entry, Chain(rows)
  PROVE  VerifyChain(rows)
<1> DEFINE starts == RowIds(rows) \cup {0}
<1>1. PICK f : /\ VerifyChain(rows) <=> f[0]
               /\ \A last \in Ids \cup {0} :
                    f[last] <=> \/ Page(rows, last) = {}
                                \/ /\ PageIntact(Page(rows, last), last)
                                   /\ f[FinalId(Page(rows, last))]
  BY VerdictIs
<1>2. RowIds(rows) \in SUBSET Ids /\ Ordered(rows)
  BY RowTypes DEF RowIds, Chain
<1>3. starts \in SUBSET Nat /\ \A x \in starts : x <= MaxEntries /\ x \in Ids \cup {0}
  BY <1>2 DEF Ids
<1>4. ASSUME NEW x \in starts, ~f[x] PROVE \E y \in starts : x < y /\ ~f[y]
  <2> DEFINE page == Page(rows, x)
             y    == FinalId(page)
  <2>1. page # {} /\ ~(PageIntact(page, x) /\ f[y])
    BY <1>1, <1>3, <1>4
  <2>2. page \in SUBSET rows /\ Ordered(page) /\ \A e \in page : x < e.id
    BY <1>2, <1>3, PageIs
  <2>3. PageIntact(page, x)
    BY ChainPage
  <2> HIDE DEF page
  <2>4. y \in RowIds(page)
    BY <2>1, <2>2, FinalIdIs
  <2>5. y \in starts /\ x < y
    BY <2>2, <2>4 DEF RowIds
  <2> QED BY <2>1, <2>3, <2>5
<1> DEFINE bad == {x \in starts : ~f[x]}
<1>5. bad = {}
  <2> SUFFICES ASSUME bad # {} PROVE FALSE
    OBVIOUS
  <2>1. bad \in SUBSET Nat /\ \A x \in bad : x <= MaxEntries
    BY <1>3
  <2>2. PICK m \in bad : \A x \in bad : x <= m
    BY <2>1, GreatestNatural
  <2>3. PICK y \in starts : m < y /\ ~f[y]
    BY <1>4, <2>2
  <2>4. y <= m /\ y \in Nat /\ m \in Nat
    BY <1>3, <2>2, <2>3
  <2> QED BY <2>3, <2>4
<1> QED BY <1>1, <1>5

\* A chain without one row that is neither its oldest nor its newest is not accepted.
LEMMA RemovalBreaks ==
  ASSUME NEW rows \in SUBSET Entry, Chain(rows), NEW e \in rows,
         NEW older \in rows, NEW newer \in rows, older.id < e.id, e.id < newer.id
  PROVE  ~VerifyChain(rows \ {e})
<1> DEFINE left == rows \ {e}
<1>1. /\ left \in SUBSET rows /\ left \in SUBSET Entry /\ Ordered(rows) /\ Ordered(left)
      /\ \A r \in left : r.id # e.id
  <2>1. Ordered(rows)
    BY DEF Chain
  <2>2. left \in SUBSET rows
    OBVIOUS
  <2>3. \A r \in left : r.id # e.id
    BY <2>1 DEF Ordered
  <2> QED BY <2>1, <2>2, <2>3, OrderedRows
<1>2. \A r \in rows : r.id \in Nat /\ r.id # 0 /\ r.id \in Ids /\ r.id <= MaxEntries
  BY RowTypes
<1>3. /\ older \in left /\ newer \in left
      /\ \A r \in rows : r # e => r \in left
  BY <1>2
<1> HIDE DEF left
<1>4. PICK f : /\ VerifyChain(left) <=> f[0]
               /\ \A last \in Ids \cup {0} :
                    f[last] <=> \/ Page(left, last) = {}
                                \/ /\ PageIntact(Page(left, last), last)
                                   /\ f[FinalId(Page(left, last))]
  BY <1>1, VerdictIs
<1>5. PICK p \in left : p.id < e.id /\ \A r \in left : r.id < e.id => r.id <= p.id
  <2> DEFINE ids == {i \in RowIds(left) : i < e.id}
  <2>1. ids \in SUBSET Nat /\ (\A i \in ids : i <= MaxEntries) /\ older.id \in ids
    BY <1>1, <1>2, <1>3 DEF RowIds
  <2>2. ids # {}
    BY <2>1
  <2>3. PICK i \in ids : \A j \in ids : j <= i
    BY <2>1, <2>2, GreatestNatural
  <2>4. PICK p \in left : p.id = i
    BY DEF RowIds
  <2> QED BY <2>3, <2>4 DEF RowIds
<1>6. PICK s \in left : e.id < s.id /\ \A r \in left : e.id < r.id => s.id <= r.id
  <2> DEFINE down == {MaxEntries - i : i \in {j \in RowIds(left) : e.id < j}}
  <2>1. \A i \in RowIds(left) : i \in Nat /\ i <= MaxEntries /\ \E r \in left : r.id = i
    BY <1>1, <1>2 DEF RowIds
  <2>2. down \in SUBSET Nat /\ \A n \in down : n <= MaxEntries
    BY <2>1
  <2>3. newer.id \in RowIds(left)
    BY <1>3 DEF RowIds
  <2>4. down # {}
    BY <2>3
  <2>5. PICK n \in down : \A k \in down : k <= n
    BY <2>2, <2>4, GreatestNatural
  <2>6. PICK i \in RowIds(left) : e.id < i /\ n = MaxEntries - i
    OBVIOUS
  <2>7. PICK s \in left : s.id = i
    BY <2>1
  <2>8. ASSUME NEW r \in left, e.id < r.id PROVE s.id <= r.id
    <3>1. r.id \in RowIds(left)
      BY DEF RowIds
    <3>2. MaxEntries - r.id <= MaxEntries - i
      BY <2>5, <2>6, <2>8, <3>1
    <3> QED BY <2>1, <2>7, <3>1, <3>2
  <2> QED BY <2>6, <2>7, <2>8
<1>7. s.prev = e.id
  <2>1. e.id <= s.prev /\ s.prev < s.id /\ s.prev \in RowIds(rows)
    BY <1>1, <1>6 DEF Chain
  <2>2. PICK q \in rows : q.id = s.prev
    BY <2>1 DEF RowIds
  <2>3. ~(e.id < q.id)
    BY <1>1, <1>2, <1>3, <1>6, <2>1, <2>2
  <2> QED BY <1>2, <2>1, <2>2, <2>3
<1> SUFFICES ASSUME f[0] PROVE FALSE
  BY <1>4 DEF left
<1> DEFINE starts == {x \in RowIds(left) \cup {0} : x < e.id /\ f[x]}
<1>8. /\ starts \in SUBSET Nat /\ starts # {}
      /\ \A x \in starts : x <= MaxEntries /\ x \in Ids \cup {0}
  <2>1. \A i \in RowIds(left) : i \in Nat /\ i <= MaxEntries /\ i \in Ids
    BY <1>1, <1>2 DEF RowIds
  <2>2. 0 < e.id
    BY <1>2
  <2> QED BY <2>1, <2>2
<1>9. PICK x \in starts : \A y \in starts : y <= x
  BY <1>8, GreatestNatural
<1>10. x < e.id /\ f[x] /\ x \in RowIds(left) \cup {0} /\ x \in Ids \cup {0} /\ x \in Nat
  BY <1>8
<1> DEFINE page == Page(left, x)
           y    == FinalId(page)
<1>11. /\ page \in SUBSET left /\ Ordered(page)
       /\ \A r \in page : \A q \in left : x < q.id /\ q.id < r.id => q \in page
       /\ page = {} => \A r \in left : ~(x < r.id)
  BY <1>1, <1>10, PageIs
<1>12. page # {} => PageIntact(page, x) /\ f[y]
  BY <1>4, <1>10
<1> HIDE DEF starts, page
<1>13. (x < s.id /\ x < p.id) \/ x = p.id
  <2>1. x <= p.id
    <3>1. CASE x = 0
      BY <1>1, <1>2, <1>5, <3>1
    <3>2. CASE x \in RowIds(left)
      BY <1>5, <1>10, <3>2 DEF RowIds
    <3> QED BY <1>10, <3>1, <3>2
  <2>2. p.id \in Nat /\ s.id \in Nat /\ e.id \in Nat
    BY <1>1, <1>2
  <2> QED BY <1>5, <1>6, <1>10, <2>1, <2>2
<1>14. x < s.id /\ p.id < s.id /\ s.id \in Nat /\ p.id \in Nat /\ e.id \in Nat
  <2>1. p.id \in Nat /\ s.id \in Nat /\ e.id \in Nat
    BY <1>1, <1>2
  <2> QED BY <1>5, <1>6, <1>10, <2>1
<1>15. page # {} /\ PageIntact(page, x) /\ f[y]
  BY <1>11, <1>12, <1>14
<1>16. y \in RowIds(page) /\ \A r \in page : r.id <= y
  BY <1>1, <1>11, <1>15, FinalIdIs
<1>17. s \in page
  <2>1. PICK l \in page : l.id = y
    BY <1>16 DEF RowIds
  <2>2. l \in left /\ l.id \in Nat /\ l.id # e.id
    BY <1>1, <1>2, <1>11
  <2>3. ~(l.id < e.id)
    <3> SUFFICES ASSUME l.id < e.id PROVE FALSE
      OBVIOUS
    <3>1. y \in starts
      BY <1>15, <2>1, <2>2 DEF starts, RowIds
    <3>2. y <= x /\ x < y
      <4>1. \A r \in page : x < r.id
        BY <1>1, <1>10, PageIs DEF page
      <4> QED BY <1>9, <2>1, <3>1, <4>1
    <3> QED BY <1>10, <2>1, <2>2, <3>2
  <2>4. s.id <= l.id
    BY <1>6, <1>14, <2>2, <2>3
  <2>5. s.id = l.id => s = l
    BY <1>1, <2>2 DEF Ordered
  <2> QED BY <1>11, <1>14, <2>1, <2>2, <2>4, <2>5
<1>18. \A r \in left : ~(p.id < r.id /\ r.id < s.id)
  <2> SUFFICES ASSUME NEW r \in left, p.id < r.id, r.id < s.id PROVE FALSE
    OBVIOUS
  <2>1. r.id \in Nat /\ r.id # e.id
    BY <1>1, <1>2
  <2>2. ~(r.id < e.id)
    BY <1>5, <1>14, <2>1
  <2>3. s.id <= r.id
    BY <1>6, <1>14, <2>1, <2>2
  <2> QED BY <1>14, <2>1, <2>3
<1>19. page \in SUBSET Entry
  BY <1>1, <1>11
<1>20. CASE x = p.id
  <2>1. \A r \in page : ~(r.id < s.id)
    <3>1. \A r \in page : x < r.id
      BY <1>1, <1>10, PageIs DEF page
    <3> QED BY <1>11, <1>18, <1>20, <3>1
  <2>2. Rank(s, page) = 0
    BY <1>11, <1>17, <1>19, <2>1, RankOrder
  <2>3. x # 0
    BY <1>1, <1>2, <1>20
  <2>4. s.prev = x
    BY <1>15, <1>17, <2>2, <2>3 DEF PageIntact, FirstLinked
  <2> QED BY <1>5, <1>7, <1>14, <1>20, <2>4
<1>21. CASE x < p.id
  <2>1. p \in page
    BY <1>11, <1>14, <1>17, <1>21
  <2>2. Rank(s, page) = Rank(p, page) + 1
    BY <1>11, <1>14, <1>17, <1>18, <1>19, <2>1, RankNext
  <2>3. s.prev = p.id
    BY <1>15, <1>17, <2>1, <2>2 DEF PageIntact
  <2> QED BY <1>5, <1>7, <1>14, <2>3
<1> QED BY <1>13, <1>20, <1>21

-----------------------------------------------------------------------------
(* The check in progress.                                                    *)

\* Without overlap and deletions, the check goes on from a row that is there.
CheckInv ==
  ~overlapped /\ ~check.disturbed =>
    /\ check.verdict # "broken"
    /\ check.verdict = "pending" => check.last \in LogIds \cup {0}

LEMMA OneChainIsChain == TypeOK /\ OneChain /\ ~overlapped => Chain(log)
  BY DEF OneChain, Linked, UniqueIds, Chain, Ordered, RowIds, LogIds

LEMMA VerifyPageInv ==
  ASSUME TypeOK, OneChain, CheckInv, VerifyPage
  PROVE  CheckInv'
<1> SUFFICES ASSUME ~overlapped', ~check'.disturbed
             PROVE  /\ check'.verdict # "broken"
                    /\ check'.verdict = "pending" => check'.last \in LogIds' \cup {0}
  BY DEF CheckInv
<1> DEFINE page == Page(log, check.last)
<1>1. /\ check.verdict = "pending" /\ ~overlapped
      /\ check' = IF page = {} THEN [check EXCEPT !.verdict = "intact"]
                  ELSE IF ~PageIntact(page, check.last) THEN [check EXCEPT !.verdict = "broken"]
                  ELSE [check EXCEPT !.last = FinalId(page)]
      /\ log' = log
  BY DEF VerifyPage
<1>2. check \in Check /\ log \in SUBSET Entry
  BY DEF TypeOK
<1>3. ~check.disturbed
  BY <1>1, <1>2 DEF Check
<1>4. check.last \in LogIds \cup {0}
  BY <1>1, <1>3 DEF CheckInv
<1>5. Chain(log) /\ LogIds = RowIds(log)
  BY <1>1, OneChainIsChain DEF LogIds, RowIds
<1>6. PageIntact(page, check.last)
  BY <1>2, <1>4, <1>5, ChainPage
<1>7. page \in SUBSET log /\ Ordered(page)
  <2>1. check.last \in Ids \cup {0} /\ Ordered(log)
    BY <1>2, <1>5 DEF Check, Chain
  <2> QED BY <1>2, <2>1, PageIs
<1>8. page # {} => FinalId(page) \in LogIds
  BY <1>2, <1>7, FinalIdIs DEF RowIds, LogIds
<1> HIDE DEF page
<1> QED BY <1>1, <1>2, <1>6, <1>8 DEF Check, LogIds

LEMMA CheckStep ==
  ASSUME TypeOK, OneChain, CheckInv, [Next]_vars
  PROVE  CheckInv'
<1>1. CASE VerifyPage
  BY <1>1, VerifyPageInv
<1>2. CASE VerifyStart
  BY <1>2 DEF VerifyStart, CheckInv
<1>3. CASE DeleteExpired
  BY <1>3 DEF DeleteExpired, CheckInv, TypeOK, Check
<1>4. CASE check' = check /\ log \subseteq log' /\ (overlapped => overlapped')
  BY <1>4 DEF CheckInv, LogIds
<1>5. CASE \E w \in Writers : WriteStep(w)
  <2>1. PICK w \in Writers : WriteStep(w)
    BY <1>5
  <2>2. check' = check
    BY <2>1 DEF WriteStep, SelectLast, LockLast, Insert, Commit, Abandon
  <2>3. log \subseteq log'
    BY <2>1 DEF WriteStep, SelectLast, LockLast, Insert, Commit, Abandon
  <2>4. overlapped => overlapped'
    BY <2>1, Zenon DEF WriteStep, SelectLast, LockLast, Insert, Commit, Abandon
  <2> QED BY <1>4, <2>2, <2>3, <2>4
<1>6. CASE NothingExpired \/ SelectExpired \/ WriteArchive \/ CleanupCrash \/ Tick \/ UNCHANGED vars
  BY <1>4, <1>6 DEF NothingExpired, SelectExpired, WriteArchive, CleanupCrash, Tick, vars
<1> QED BY <1>1, <1>2, <1>3, <1>5, <1>6 DEF Next, CleanupStep

-----------------------------------------------------------------------------
(* The theorems.                                                             *)

LEMMA AuditInitInv == Init => AuditInv
<1> SUFFICES ASSUME Init PROVE AuditInv
  OBVIOUS
<1>1. \A w \in Writers : writers[w].phase = "idle"
  BY DEF Init, NoWrite
<1>2. log = {} /\ cleanup.phase = "idle"
  BY DEF Init
<1> QED BY <1>1, <1>2, AuditInitType DEF AuditInv, Sequenced, CleanupReady, OneChain, Open,
       Linked, UniqueIds, OneWriter, HasLast, WriterAtEnd

\* AuditInv, the inductive invariant of the audit log, holds in every state.
THEOREM AuditInvariance == Spec => []AuditInv
<1>1. AuditInv /\ [Next]_vars => AuditInv'
  BY AuditStepType, SequencedStep, CleanupReadyStep, ChainStep DEF AuditInv
<1> QED BY <1>1, AuditInitInv, PTL DEF Spec

\* Types of the audit_log table, the calls in progress and the archive files.
THEOREM AuditTypeCorrect == Spec => []TypeOK
<1>1. AuditInv => TypeOK
  BY DEF AuditInv
<1> QED BY <1>1, AuditInvariance, PTL

\* Calls of write_audit_log that do not overlap leave one chain, whatever fails
\* and whatever the retention job deletes in between.
THEOREM ChainHolds == Spec => []ChainLinked
<1>1. AuditInv => ChainLinked
  BY DEF AuditInv, OneChain, ChainLinked
<1> QED BY <1>1, AuditInvariance, PTL

LEMMA DeletionStep ==
  ASSUME AuditInv, Next
  PROVE  \A e \in log \ log' : /\ e.time < now - Retention
                               /\ \E f \in Files : e.id \in archives'[f]
<1> SUFFICES ASSUME NEW e \in log, e \notin log'
             PROVE  e.time < now - Retention /\ \E f \in Files : e.id \in archives'[f]
  OBVIOUS
<1>1. DeleteExpired
  BY DEF Next, WriteStep, SelectLast, LockLast, Insert, Commit, Abandon, CleanupStep,
     NothingExpired, SelectExpired, WriteArchive, CleanupCrash, VerifyStart, VerifyPage, Tick
<1>2. e.time < cleanup.cutoff /\ cleanup.phase = "archived" /\ archives' = archives
  BY <1>1 DEF DeleteExpired, Expired
<1>3. cleanup.cutoff <= now - Retention /\ e.id \in archives[cleanup.file]
  BY <1>2 DEF AuditInv, CleanupReady
<1>4. cleanup.cutoff \in Int /\ now \in Int /\ e.time \in Int /\ cleanup.file \in Files
  BY DEF AuditInv, TypeOK, Cleanup, Times, Entry
<1>5. e.time < now - Retention
  BY <1>2, <1>3, <1>4
<1> QED BY <1>2, <1>3, <1>4, <1>5

\* The retention job deletes a row only when it is past the retention period and
\* an archive file holds it.
THEOREM DeletionsHold == Spec => DeletionsJustified
<1>1. AuditInv /\ [Next]_vars =>
        [\A e \in log \ log' : /\ e.time < now - Retention
                               /\ \E f \in Files : e.id \in archives'[f]]_vars
  BY DeletionStep
<1> QED BY <1>1, AuditInvariance, PTL DEF Spec, DeletionsJustified

LEMMA ChainInvariance == Spec => [](AuditInv /\ CheckInv)
<1>1. Init => CheckInv
  BY DEF Init, CheckInv
<1>2. AuditInv /\ CheckInv /\ [Next]_vars => CheckInv'
  BY CheckStep DEF AuditInv
<1> QED BY <1>1, <1>2, AuditInvariance, PTL DEF Spec

\* verify_chain accepts the table that calls which do not overlap leave, for any
\* page size and whatever the retention job has deleted.
THEOREM IntactHolds == Spec => []IntactVerifies
<1>1. AuditInv => IntactVerifies
  BY OneChainIsChain, ChainVerifies DEF AuditInv, IntactVerifies, TypeOK
<1> QED BY <1>1, AuditInvariance, PTL

\* verify_chain rejects such a table without any one row but its oldest and newest,
\* wherever the row lies among the pages.
THEOREM RemovalHolds == Spec => []RemovalDetected
<1>1. AuditInv => RemovalDetected
  BY OneChainIsChain, RemovalBreaks DEF AuditInv, RemovalDetected, TypeOK
<1> QED BY <1>1, AuditInvariance, PTL

\* A verify_chain call that reads page after page while rows are written, but none
\* deleted, never reports a break in a chain that has none.
THEOREM NoFalseAlarmHolds == Spec => []NoFalseAlarm
<1>1. CheckInv => NoFalseAlarm
  BY DEF CheckInv, NoFalseAlarm
<1> QED BY <1>1, ChainInvariance, PTL
=============================================================================
