---------------------------- MODULE FirstBootProofs ---------------------------
(***************************************************************************)
(* Proofs about FirstBoot: what any number of starts leaves, for any       *)
(* baseline, any number of processes, stops and administrators' rows.      *)
(***************************************************************************)
EXTENDS FirstBoot, TLAPS

USE BootAssumption DEF BootAssumption

Serving  == account \in {"unmarked", "marked"}
PastUser == {"mark", "catalog", "load", "admin", "seed", "up"}

\* No process is past the first step without an account, none seeds without an
\* administrator, and none inserts a template that has no file.
Accounted ==
  \A p \in Processes :
    /\ boot[p].at \in PastUser => account # "absent"
    /\ boot[p].at \in {"mark", "seed"} => Serving
    /\ boot[p].adds \cap Missing = {}

\* As long as no two starts overlap there is one at most, and what it has seen
\* to be missing is missing still.
InTurn ==
  ~overlap => \A p, q \in Processes : Starting(p) /\ Starting(q) => p = q

SeenStillTrue ==
  ~overlap => \A p \in Processes :
    /\ boot[p].at \in {"email", "insert"} => account = "absent"
    /\ boot[p].at = "load" => catalog = {}
    /\ boot[p].at = "seed" => \A k \in boot[p].adds : Of(k) = {}

\* A start in the middle of the baseline: what it will not look for any more
\* is there, or about to be.
Later(p) == {k \in Keys : \E e \in 1 .. 3 : e > boot[p].set /\ k \in Dataset(e)}
Covered ==
  \A p \in Processes : boot[p].at = "seed" =>
    \A k \in Keys \ Missing : Of(k) # {} \/ k \in boot[p].adds \/ k \in boot[p].todo \/ k \in Later(p)

BootInv ==
  /\ TypeOK /\ Accounted /\ InTurn /\ SeenStillTrue /\ Covered
  /\ SeededOnce /\ BaselineComplete /\ FailuresExplained

-------------------------------------------------------------------------------
LEMMA DatasetKeys == \A d \in 1 .. 3 : Dataset(d) \subseteq Keys
BY DEF Dataset, Keys

LEMMA EveryKeyHasItsDataset == \A k \in Keys : \E d \in 1 .. 3 : k \in Dataset(d)
<1> SUFFICES ASSUME NEW k \in Keys PROVE \E d \in 1 .. 3 : k \in Dataset(d)
  OBVIOUS
<1>1. Dataset(1) = Rules /\ Dataset(2) = Disclosures /\ Dataset(3) = Notices
  BY DEF Dataset
<1> QED BY <1>1 DEF Keys

LEMMA DownIsBoot == Down \in Boot
BY DEF Down, Boot, Where

LEMMA SeedingIsBoot ==
  \A d \in 1 .. 3 : LET b == Seeding(d)
                    IN  /\ b \in Boot /\ b.at = "seed" /\ b.set = d
                        /\ b.todo = Dataset(d) /\ b.adds = {}
<1> SUFFICES ASSUME NEW d \in 1 .. 3
             PROVE  /\ Seeding(d) \in Boot /\ Seeding(d).at = "seed" /\ Seeding(d).set = d
                    /\ Seeding(d).todo = Dataset(d) /\ Seeding(d).adds = {}
  OBVIOUS
<1>1. Dataset(d) \in SUBSET Keys
  BY DatasetKeys
<1> QED BY <1>1 DEF Seeding, Boot, Where

\* A process that moves to another place with no transaction.
LEMMA GotoIsBoot ==
  ASSUME TypeOK, NEW p \in Processes, NEW where \in Where, Goto(p, where)
  PROVE  /\ boot' \in [Processes -> Boot]
         /\ boot'[p].at = where /\ boot'[p].adds = {}
         /\ \A q \in Processes \ {p} : boot'[q] = boot[q]
BY DownIsBoot DEF Goto, TypeOK, Boot, Down

LEMMA BootInitInv == Init => BootInv
<1> SUFFICES ASSUME Init PROVE BootInv
  OBVIOUS
<1> USE DEF Init
<1>1. \A p \in Processes : boot[p].at = "down" /\ boot[p].adds = {}
  BY DEF Down
<1>2. \A r \in rows : r \in Row /\ r.by = 0
  BY DEF Row, Creator, Seeder
<1>3. TypeOK
  <2>1. boot \in [Processes -> Boot]
    BY DownIsBoot
  <2>2. account \in {"absent", "unmarked", "marked", "none"} /\ catalog \in SUBSET Seeder
    BY SMTT(20) DEF Seeder
  <2>3. rows \in SUBSET Row
    BY <1>2 DEF Row
  <2>4. calls \in 0 .. MaxCalls /\ stops \in 0 .. MaxStops
    OBVIOUS
  <2>5. overlap \in BOOLEAN
    OBVIOUS
  <2> QED BY <2>1, <2>2, <2>3, <2>4, <2>5 DEF TypeOK
<1>4. \A r, s \in rows : r.key = s.key => r = s
  <2>1. PICK K \in SUBSET Keys : rows = {[key |-> k, by |-> 0] : k \in K}
    OBVIOUS
  <2> QED BY <2>1
<1>5. SeededOnce
  BY <1>4 DEF SeededOnce
<1> QED BY <1>1, <1>3, <1>5
        DEF BootInv, Accounted, PastUser, InTurn, Starting, SeenStillTrue, Covered,
            BaselineComplete, FailuresExplained

-------------------------------------------------------------------------------
\* The steps of a start before the baseline: nothing but the account, the
\* catalog and the process changes.
LEMMA EarlyStepInv ==
  ASSUME BootInv, NEW p \in Processes,
         \/ LookForUser(p) \/ LookForEmail(p) \/ InsertAdmin(p) \/ MarkAdmin(p)
         \/ LookForCatalog(p) \/ LoadCatalog(p)
  PROVE  BootInv'
<1> USE DEF BootInv
<1> DEFINE to == boot'[p].at
<1>0. PICK where \in Where \ {"seed", "up", "down"} : Goto(p, where)
  BY DEF LookForUser, LookForEmail, InsertAdmin, MarkAdmin, LookForCatalog, LoadCatalog,
         Advance, Where
<1>1. /\ boot' \in [Processes -> Boot] /\ to = where /\ boot'[p].adds = {}
      /\ \A q \in Processes \ {p} : boot'[q] = boot[q]
  BY <1>0, GotoIsBoot
<1>2. UNCHANGED <<rows, calls, stops, overlap>> /\ Starting(p)
  BY DEF LookForUser, LookForEmail, InsertAdmin, MarkAdmin, LookForCatalog, LoadCatalog,
         Advance, Starting
<1>3. TypeOK'
  BY <1>1, <1>2 DEF LookForUser, LookForEmail, InsertAdmin, MarkAdmin, LookForCatalog,
                    LoadCatalog, TypeOK, Seeder
<1>4. Accounted' /\ (account # "absent" => account' # "absent") /\ (Serving => Serving')
  <2>1. /\ account # "absent" => account' # "absent"
        /\ Serving => Serving'
        /\ to \in PastUser => account' # "absent"
        /\ to = "mark" => Serving'
    BY <1>0, <1>1 DEF LookForUser, LookForEmail, InsertAdmin, MarkAdmin, LookForCatalog,
              LoadCatalog, Advance, Goto, Accounted, PastUser, Serving, TypeOK, Down
  <2> QED BY <2>1, <1>1 DEF Accounted
<1>5. InTurn'
  BY <1>1, <1>2 DEF InTurn, Starting
<1>6. SeenStillTrue'
  <2> SUFFICES ASSUME ~overlap, NEW q \in Processes
               PROVE  /\ boot'[q].at \in {"email", "insert"} => account' = "absent"
                      /\ boot'[q].at = "load" => catalog' = {}
                      /\ boot'[q].at = "seed" => \A k \in boot'[q].adds : Of(k)' = {}
    BY <1>2 DEF SeenStillTrue
  <2>1. CASE q # p
    BY <2>1, <1>1, <1>2 DEF InTurn, Starting
  <2>2. CASE q = p
    BY <2>2, <1>0, <1>1 DEF LookForUser, LookForEmail, InsertAdmin, MarkAdmin, LookForCatalog,
              LoadCatalog, Advance, Goto, SeenStillTrue, Down
  <2> QED BY <2>1, <2>2
<1>7. Covered'
  BY <1>1, <1>2 DEF Covered, Of, Later
<1>8. SeededOnce'
  <2>1. CASE LoadCatalog(p)
    BY <2>1, <1>2 DEF LoadCatalog, Advance, SeededOnce, SeenStillTrue
  <2>2. CASE ~LoadCatalog(p)
    BY <2>2, <1>2 DEF LookForUser, LookForEmail, InsertAdmin, MarkAdmin, LookForCatalog, SeededOnce
  <2> QED BY <2>1, <2>2
<1>9. BaselineComplete'
  <2>1. (\E q \in Processes : boot'[q].at = "up") => \E q \in Processes : boot[q].at = "up"
    BY <1>1
  <2>2. (\E q \in Processes : boot[q].at = "up") /\ Serving' => Serving
    BY DEF LookForUser, LookForEmail, InsertAdmin, MarkAdmin, LookForCatalog, LoadCatalog,
           Advance, Accounted, PastUser, Serving, TypeOK
  <2> QED BY <2>1, <2>2, <1>2 DEF BaselineComplete, Of, Serving
<1>10. FailuresExplained'
  <2>1. ~overlap => to # "failed"
    BY <1>0, <1>1 DEF LookForUser, LookForEmail, InsertAdmin, MarkAdmin, LookForCatalog,
              LoadCatalog, Advance, Goto, SeenStillTrue, Down
  <2> QED BY <2>1, <1>1, <1>2 DEF FailuresExplained
<1> QED BY <1>3, <1>4, <1>5, <1>6, <1>7, <1>8, <1>9, <1>10

LEMMA StartInv ==
  ASSUME BootInv, NEW p \in Processes, Start(p) PROVE BootInv'
<1> USE DEF BootInv
<1>1. /\ boot' \in [Processes -> Boot] /\ boot'[p].at = "account" /\ boot'[p].adds = {}
      /\ \A q \in Processes \ {p} : boot'[q] = boot[q]
  BY GotoIsBoot DEF Start, Where
<1>2. UNCHANGED <<account, catalog, rows, calls, stops>> /\ (~overlap' => ~overlap)
  BY DEF Start
<1>3. TypeOK'
  BY <1>1, <1>2 DEF Start, TypeOK
<1>4. InTurn'
  BY <1>1, <1>2 DEF Start, InTurn, Starting
<1>5. Accounted' /\ SeenStillTrue' /\ Covered'
  BY <1>1, <1>2 DEF Accounted, PastUser, SeenStillTrue, Covered, Of, Later, Serving
<1>6. SeededOnce' /\ BaselineComplete' /\ FailuresExplained'
  BY <1>1, <1>2 DEF SeededOnce, BaselineComplete, FailuresExplained, Of
<1> QED BY <1>3, <1>4, <1>5, <1>6

LEMMA FindAdminInv ==
  ASSUME BootInv, NEW p \in Processes, FindAdmin(p) PROVE BootInv'
<1> USE DEF BootInv
<1>1. CASE account \in {"absent", "none"}
  <2>1. /\ boot' \in [Processes -> Boot] /\ boot'[p].at = "up" /\ boot'[p].adds = {}
        /\ \A q \in Processes \ {p} : boot'[q] = boot[q]
    BY <1>1, GotoIsBoot DEF FindAdmin, Where
  <2>2. UNCHANGED <<account, catalog, rows, calls, stops, overlap>> /\ boot[p].at = "admin"
    BY DEF FindAdmin
  <2>3. TypeOK' /\ InTurn' /\ Accounted' /\ SeenStillTrue' /\ Covered'
    BY <2>1, <2>2 DEF TypeOK, InTurn, Starting, Accounted, PastUser, SeenStillTrue, Covered,
                      Of, Later, Serving
  <2>4. SeededOnce' /\ BaselineComplete' /\ FailuresExplained'
    BY <1>1, <2>1, <2>2 DEF SeededOnce, BaselineComplete, FailuresExplained, Of
  <2> QED BY <2>3, <2>4
<1>2. CASE account \notin {"absent", "none"}
  <2> DEFINE b == Seeding(1)
  <2>1. b \in Boot /\ b.at = "seed" /\ b.todo = Dataset(1) /\ b.adds = {} /\ b.set = 1
    BY SeedingIsBoot
  <2>2. boot' = [boot EXCEPT ![p] = b]
    BY <1>2 DEF FindAdmin
  <2> HIDE DEF b
  <2>3. /\ boot' \in [Processes -> Boot] /\ boot'[p] = b
        /\ \A q \in Processes \ {p} : boot'[q] = boot[q]
    BY <2>1, <2>2 DEF TypeOK
  <2>4. UNCHANGED <<account, catalog, rows, calls, stops, overlap>> /\ boot[p].at = "admin"
    BY DEF FindAdmin
  <2>5. Serving
    BY <1>2 DEF TypeOK, Serving
  <2>6. TypeOK' /\ InTurn' /\ Accounted' /\ SeenStillTrue'
    BY <2>1, <2>3, <2>4, <2>5 DEF TypeOK, InTurn, Starting, Accounted, PastUser, SeenStillTrue,
                                  Of, Serving
  <2>7. Covered'
    <3>1. \A k \in Keys : k \in b.todo \/ \E e \in 1 .. 3 : e > b.set /\ k \in Dataset(e)
      BY <2>1, EveryKeyHasItsDataset
    <3> QED BY <3>1, <2>3, <2>4 DEF Covered, Of, Later
  <2>8. SeededOnce' /\ BaselineComplete' /\ FailuresExplained'
    BY <2>1, <2>3, <2>4 DEF SeededOnce, BaselineComplete, FailuresExplained, Of
  <2> QED BY <2>6, <2>7, <2>8
<1> QED BY <1>1, <1>2

\* A process that fails or is stopped while it starts or serves.
LEMMA EndedInv ==
  ASSUME BootInv, NEW p \in Processes, NEW where \in {"down", "failed"}, Goto(p, where),
         UNCHANGED <<account, catalog, rows, calls, overlap>>, stops' \in 0 .. MaxStops,
         where = "failed" /\ ~overlap => \E r, s \in rows : r # s /\ r.key = s.key
  PROVE  BootInv'
<1> USE DEF BootInv
<1>1. /\ boot' \in [Processes -> Boot] /\ boot'[p].at = where /\ boot'[p].adds = {}
      /\ \A q \in Processes \ {p} : boot'[q] = boot[q]
  BY GotoIsBoot DEF Where
<1>2. TypeOK' /\ InTurn' /\ Accounted' /\ SeenStillTrue' /\ Covered'
  BY <1>1 DEF TypeOK, InTurn, Starting, Accounted, PastUser, SeenStillTrue, Covered,
                    Of, Later, Serving
<1>3. SeededOnce' /\ BaselineComplete' /\ FailuresExplained'
  BY <1>1 DEF SeededOnce, BaselineComplete, FailuresExplained, Of
<1> QED BY <1>2, <1>3

LEMMA LookForRowInv ==
  ASSUME BootInv, NEW p \in Processes, NEW k \in Keys, LookForRow(p, k) PROVE BootInv'
<1> USE DEF BootInv
<1>0. UNCHANGED <<account, catalog, rows, calls, stops, overlap>> /\ boot[p].at = "seed"
  BY DEF LookForRow
<1>1. CASE \E r, s \in Of(k) : r # s
  <2>1. Goto(p, "failed") /\ \E r, s \in rows : r # s /\ r.key = s.key
    BY <1>1 DEF LookForRow, Of
  <2> QED BY <2>1, <1>0, EndedInv DEF TypeOK
<1>2. CASE ~(\E r, s \in Of(k) : r # s)
  <2> DEFINE adds == IF Of(k) = {} /\ k \notin Missing THEN boot[p].adds \cup {k}
                     ELSE boot[p].adds
  <2>1. boot' = [boot EXCEPT ![p].todo = boot[p].todo \ {k}, ![p].adds = adds]
    BY <1>2 DEF LookForRow
  <2>2. adds \in SUBSET Keys
    BY DEF TypeOK, Boot
  <2>3. /\ boot' \in [Processes -> Boot]
        /\ boot'[p].at = "seed" /\ boot'[p].set = boot[p].set
        /\ boot'[p].todo = boot[p].todo \ {k} /\ boot'[p].adds = adds
        /\ \A q \in Processes \ {p} : boot'[q] = boot[q]
    <3> HIDE DEF adds
    <3> QED BY <2>1, <2>2, <1>0 DEF TypeOK, Boot
  <2>4. TypeOK' /\ InTurn' /\ Accounted'
    BY <2>3, <1>0 DEF TypeOK, InTurn, Starting, Accounted, PastUser, Serving
  <2>5. SeenStillTrue'
    BY <2>3, <1>0 DEF SeenStillTrue, Of
  <2>6. Covered'
    BY <2>3, <1>0 DEF Covered, Of, Later
  <2>7. SeededOnce' /\ BaselineComplete' /\ FailuresExplained'
    BY <2>3, <1>0 DEF SeededOnce, BaselineComplete, FailuresExplained, Of
  <2> QED BY <2>4, <2>5, <2>6, <2>7
<1> QED BY <1>1, <1>2

LEMMA CommitDatasetInv ==
  ASSUME BootInv, NEW p \in Processes, CommitDataset(p) PROVE BootInv'
<1> USE DEF BootInv
<1>0. UNCHANGED <<account, catalog, calls, stops, overlap>> /\ boot[p].at = "seed" /\ boot[p].todo = {}
  BY DEF CommitDataset
<1>1. CASE Conflict(p)
  <2>1. Goto(p, "failed") /\ UNCHANGED rows /\ overlap
    BY <1>1, <1>0 DEF CommitDataset, Conflict, SeenStillTrue
  <2> QED BY <2>1, <1>0, EndedInv DEF TypeOK
<1>2. CASE ~Conflict(p)
  <2> DEFINE new == {[key |-> k, by |-> p] : k \in boot[p].adds}
  <2>1. rows' = rows \cup new
    BY <1>2 DEF CommitDataset
  <2>2. new \in SUBSET Row
    BY DEF TypeOK, Boot, Row, Creator, Seeder
  <2>3. \A k \in boot[p].adds : Of(k)' # {}
    <3> SUFFICES ASSUME NEW k \in boot[p].adds PROVE Of(k)' # {}
      OBVIOUS
    <3>1. [key |-> k, by |-> p] \in rows'
      BY <2>1
    <3> QED BY <3>1 DEF Of
  <2>4. \A k \in Keys : Of(k) # {} => Of(k)' # {}
    BY <2>1 DEF Of
  <2>5. SeededOnce'
    <3> SUFFICES ASSUME ~overlap, NEW r \in rows \cup new, NEW s \in rows \cup new,
                        r.key = s.key, {r.by, s.by} \subseteq Seeder
                 PROVE  r = s
      BY <2>1, <1>0 DEF SeededOnce
    <3>1. \A t \in new : t.key \in boot[p].adds /\ t = [key |-> t.key, by |-> p]
      OBVIOUS
    <3>2. \A t \in rows : t.key \notin boot[p].adds
      BY <1>0 DEF SeenStillTrue, Of
    <3> QED BY <3>1, <3>2 DEF SeededOnce
  <2>6. \A q \in Processes \ {p} : boot'[q] = boot[q]
    BY <1>2 DEF CommitDataset, Goto, TypeOK
  <2>7. ~overlap => \A q \in Processes \ {p} : ~Starting(q)
    BY <1>0 DEF InTurn, Starting
  <2>8. SeenStillTrue' <=> (~overlap => (boot'[p].at \in {"email", "insert"} => account = "absent"))
                           /\ (~overlap => (boot'[p].at = "load" => catalog = {}))
                           /\ (~overlap => (boot'[p].at = "seed" => \A k \in boot'[p].adds : Of(k)' = {}))
    BY <2>6, <2>7, <1>0 DEF SeenStillTrue, Starting
  <2>9. FailuresExplained' \/ boot'[p].at = "failed"
    BY <2>1, <2>6, <1>0 DEF FailuresExplained
  <2>10. CASE boot[p].set = 3
    <3>1. Goto(p, "up")
      BY <1>2, <2>10 DEF CommitDataset
    <3>2. boot' \in [Processes -> Boot] /\ boot'[p].at = "up" /\ boot'[p].adds = {}
      BY <3>1, GotoIsBoot DEF Where
    <3>3. TypeOK' /\ InTurn' /\ Accounted'
      BY <3>2, <2>1, <2>2, <2>6, <1>0 DEF TypeOK, InTurn, Starting, Accounted, PastUser, Serving
    <3>4. SeenStillTrue'
      BY <2>8, <3>2
    <3>5. Covered'
      BY <2>4, <2>6, <3>2 DEF Covered, Later
    <3>6. BaselineComplete'
      <4>1. Later(p) = {}
        BY <2>10 DEF Later
      <4> QED BY <4>1, <2>3, <2>4, <1>0 DEF Covered, BaselineComplete
    <3> QED BY <3>2, <3>3, <3>4, <3>5, <3>6, <2>5, <2>9
  <2>11. CASE boot[p].set # 3
    <3> DEFINE d == boot[p].set + 1
               b == Seeding(d)
    <3>0. boot[p].set \in 1 .. 3
      BY DEF TypeOK, Boot
    <3>1. d \in 1 .. 3
      BY <3>0, <2>11
    <3>2. b \in Boot /\ b.at = "seed" /\ b.set = d /\ b.todo = Dataset(d) /\ b.adds = {}
      BY <3>1, SeedingIsBoot
    <3>3. boot' = [boot EXCEPT ![p] = b]
      BY <1>2, <2>11 DEF CommitDataset
    <3> HIDE DEF b
    <3>4. boot' \in [Processes -> Boot] /\ boot'[p] = b
      BY <3>2, <3>3 DEF TypeOK
    <3>5. TypeOK' /\ InTurn' /\ Accounted'
      BY <3>2, <3>4, <2>1, <2>2, <2>6, <1>0
         DEF TypeOK, InTurn, Starting, Accounted, PastUser, Serving
    <3>6. SeenStillTrue'
      BY <2>8, <3>2, <3>4
    <3>7. Covered'
      <4>1. \A k \in Later(p) : k \in b.todo \/ \E e \in 1 .. 3 : e > d /\ k \in Dataset(e)
        BY <3>0, <3>2 DEF Later
      <4>2. \A k \in Later(p) : k \in boot'[p].todo \/ k \in Later(p)'
        BY <4>1, <3>2, <3>4 DEF Later
      <4>3. \A q \in Processes \ {p} : Later(q)' = Later(q)
        BY <2>6 DEF Later
      <4> QED BY <4>2, <4>3, <2>3, <2>4, <2>6, <1>0 DEF Covered
    <3>8. BaselineComplete'
      BY <2>4, <2>6, <3>2, <3>4, <1>0 DEF BaselineComplete
    <3> QED BY <3>2, <3>4, <3>5, <3>6, <3>7, <3>8, <2>5, <2>9
  <2> QED BY <2>10, <2>11
<1> QED BY <1>1, <1>2

\* An administrator can only create a row while a process is up, and then
\* there is nothing a start could be about to insert.
LEMMA CreateRowInv ==
  ASSUME BootInv, NEW k \in Keys, CreateRow(k) PROVE BootInv'
<1> USE DEF BootInv
<1> DEFINE new == [key |-> k, by |-> calls + 1]
<1>1. rows' = rows \cup {new} /\ UNCHANGED <<account, catalog, boot, stops, overlap>>
  BY DEF CreateRow
<1>2. calls + 1 \in 1 .. MaxCalls /\ calls' = calls + 1 /\ calls + 1 \in Nat \ {0}
  BY DEF CreateRow, TypeOK
<1>3. new \in Row /\ new.by \notin Seeder
  BY <1>2 DEF Row, Creator, Seeder
<1>4. TypeOK' /\ InTurn' /\ Accounted'
  BY <1>1, <1>2, <1>3 DEF TypeOK, InTurn, Starting, Accounted, Serving
<1>5. \A j \in Keys \ Missing : Of(j) # {}
  BY DEF CreateRow, BaselineComplete
<1>6. \A j \in Keys : Of(j) # {} => Of(j)' # {}
  BY <1>1 DEF Of
<1>7. ~overlap => \A p \in Processes : boot[p].at = "seed" => boot[p].adds \subseteq Missing
  BY <1>5 DEF SeenStillTrue, TypeOK, Boot
<1>8. SeenStillTrue'
  <2> SUFFICES ASSUME ~overlap, NEW p \in Processes, boot[p].at = "seed", NEW j \in boot[p].adds
               PROVE  Of(j)' = {}
    BY <1>1 DEF SeenStillTrue
  <2> QED BY <1>7, <1>1 DEF Accounted
<1>9. Covered' /\ BaselineComplete'
  BY <1>1, <1>6 DEF Covered, BaselineComplete, Later
<1>10. SeededOnce' /\ FailuresExplained'
  BY <1>1, <1>3 DEF SeededOnce, FailuresExplained
<1> QED BY <1>4, <1>8, <1>9, <1>10

LEMMA BootStepInv == BootInv /\ [Next]_vars => BootInv'
<1> SUFFICES ASSUME BootInv, [Next]_vars PROVE BootInv'
  OBVIOUS
<1>1. ASSUME NEW p \in Processes, StartStep(p) PROVE BootInv'
  <2>1. CASE Start(p)
    BY <2>1, StartInv
  <2>2. CASE \/ LookForUser(p) \/ LookForEmail(p) \/ InsertAdmin(p) \/ MarkAdmin(p)
             \/ LookForCatalog(p) \/ LoadCatalog(p)
    BY <2>2, EarlyStepInv
  <2>3. CASE FindAdmin(p)
    BY <2>3, FindAdminInv
  <2>4. CASE \E k \in Keys : LookForRow(p, k)
    BY <2>4, LookForRowInv
  <2>5. CASE CommitDataset(p)
    BY <2>5, CommitDatasetInv
  <2> QED BY <1>1, <2>1, <2>2, <2>3, <2>4, <2>5 DEF StartStep
<1>2. ASSUME NEW p \in Processes, Stop(p) PROVE BootInv'
  <2>1. stops' \in 0 .. MaxStops
    BY <1>2 DEF Stop, BootInv, TypeOK
  <2> QED BY <1>2, <2>1, EndedInv DEF Stop
<1>3. ASSUME NEW k \in Keys, CreateRow(k) PROVE BootInv'
  BY <1>3, CreateRowInv
<1>4. CASE UNCHANGED vars
  BY <1>4 DEF vars, BootInv, TypeOK, InTurn, Starting, Accounted, PastUser, SeenStillTrue, Covered,
              Of, Later, Serving, SeededOnce, BaselineComplete, FailuresExplained
<1> QED BY <1>1, <1>2, <1>3, <1>4 DEF Next

THEOREM BootInvariant == Spec => []BootInv
<1>1. Init => BootInv
  BY BootInitInv
<1>2. BootInv /\ [Next]_vars => BootInv'
  BY BootStepInv
<1> QED BY <1>1, <1>2, PTL DEF Spec

\* Every variable keeps its type.
THEOREM BootTypeCorrect == Spec => []TypeOK
BY BootInvariant, PTL DEF BootInv

\* Starts that do not overlap leave one row of a key and one catalog.
THEOREM SeededOnceHolds == Spec => []SeededOnce
BY BootInvariant, PTL DEF BootInv

\* A process that is up has its whole baseline.
THEOREM BaselineHolds == Spec => []BaselineComplete
BY BootInvariant, PTL DEF BootInv

\* Only a second row of a key ends a start, unless two have overlapped.
THEOREM FailuresExplainedHolds == Spec => []FailuresExplained
BY BootInvariant, PTL DEF BootInv
===============================================================================
