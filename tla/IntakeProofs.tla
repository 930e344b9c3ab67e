------------------------------ MODULE IntakeProofs ----------------------------
(***************************************************************************)
(* Proofs about Intake, for any names, runs, versions, keys and pages.     *)
(***************************************************************************)
EXTENDS Intake, FiniteSetTheorems, FunctionTheorems, TLAPS

\* What a run has read is what its name still has, unless staff have been there since.
ReadIsThere ==
  \A r \in Runs : drops[r].at \in {"read", "indexed"} =>
    /\ drops[r].name \in Names
    /\ drops[r].content # 0
    /\ folder[drops[r].name] \in {0, drops[r].content} \cup rushed

IndexedIsCovered ==
  \A r \in Runs :
    /\ drops[r].at = "indexed" => drops[r].content \in documents \cup drops[r].pending
    /\ drops[r].at = "idle" => drops[r].pending = {}

DropInv == DropTypeOK /\ ReadIsThere /\ IndexedIsCovered /\ ArchivedHasDocument

LEMMA DropRecords ==
  /\ Idle \in Drop /\ Idle.at = "idle" /\ Idle.pending = {}
  /\ \A r \in Runs : \A n : DropTypeOK =>
       /\ Skipped(r, n) \in Drop /\ Skipped(r, n).at = "next"
       /\ Skipped(r, n).pending = drops[r].pending
<1>1. Idle \in Drop /\ Idle.at = "idle" /\ Idle.pending = {}
  BY DEF Idle, Drop
<1>2. ASSUME NEW r \in Runs, NEW n, DropTypeOK
      PROVE  /\ Skipped(r, n) \in Drop /\ Skipped(r, n).at = "next"
             /\ Skipped(r, n).pending = drops[r].pending
  <2>1. drops[r] \in Drop
    BY <1>2 DEF DropTypeOK
  <2>2. drops[r].names \ {n} \in SUBSET Names
    BY <2>1 DEF Drop
  <2>3. Skipped(r, n).at = "next" /\ Skipped(r, n).pending = drops[r].pending
    BY <2>1 DEF Skipped, Drop
  <2>4. Skipped(r, n) \in Drop
    BY <2>1, <2>2 DEF Skipped, Drop
  <2> QED BY <2>3, <2>4
<1> QED BY <1>1, <1>2

\* ArchivedHasDocument, for one version at a time.
Archived(v) ==
  v \in documents \/ v \in undone \/ v \in rushed \/ \E r \in Runs : v \in drops[r].pending

LEMMA ProcessedAlt ==
  /\ ArchivedHasDocument <=> \A v \in archive : Archived(v)
  /\ ArchivedHasDocument' <=> \A v \in archive' : Archived(v)'
<1>1. \A v : v \in UNION {drops[r].pending : r \in Runs} <=> \E r \in Runs : v \in drops[r].pending
  BY Zenon
<1>2. \A v : v \in (UNION {drops[r].pending : r \in Runs})' <=> \E r \in Runs : v \in drops'[r].pending
  BY Zenon
<1> QED BY <1>1, <1>2 DEF ArchivedHasDocument, Archived

-------------------------------------------------------------------------------
(* Steps of a run.                                                           *)

\* A step of one run that leaves the folder and the archive alone, and keeps
\* what was covered.
LEMMA RunStepInv ==
  ASSUME DropInv, NEW r \in Runs, NEW drop \in Drop, DropStep(r, drop),
         UNCHANGED <<folder, archive>>,
         documents' \in SUBSET Version, documents \subseteq documents',
         undone' \in SUBSET Version, undone \subseteq undone',
         drops[r].pending \subseteq documents' \cup undone' \cup drop.pending,
         drop.at \in {"read", "indexed"} =>
           /\ drop.name \in Names /\ drop.content # 0
           /\ folder[drop.name] \in {0, drop.content} \cup rushed,
         drop.at = "indexed" => drop.content \in documents' \cup drop.pending,
         drop.at = "idle" => drop.pending = {}
  PROVE  DropInv'
<1> USE DEF DropInv, DropStep
<1>1. /\ drops' \in [Runs -> Drop] /\ drops'[r] = drop
      /\ \A q \in Runs \ {r} : drops'[q] = drops[q]
  BY DEF DropTypeOK
<1>2. DropTypeOK'
  BY <1>1 DEF DropTypeOK
<1>3. ReadIsThere'
  BY <1>1 DEF ReadIsThere
<1>4. IndexedIsCovered'
  BY <1>1 DEF IndexedIsCovered
<1>5. ArchivedHasDocument'
  <2> SUFFICES ASSUME NEW v \in archive' PROVE Archived(v)'
    BY ProcessedAlt
  <2>1. Archived(v)
    BY ProcessedAlt
  <2>2. ASSUME NEW q \in Runs, v \in drops[q].pending
        PROVE  v \in documents' \/ v \in undone' \/ v \in drops'[q].pending
    BY <2>2, <1>1
  <2> QED BY <2>1, <2>2 DEF Archived
<1> QED BY <1>2, <1>3, <1>4, <1>5

LEMMA ListFolderInv == ASSUME DropInv, NEW r \in Runs, ListFolder(r) PROVE DropInv'
<1> DEFINE drop == [Idle EXCEPT !.at = "next", !.names = {n \in Names : folder[n] # 0}]
<1>1. drop \in Drop /\ drop.at = "next" /\ drop.pending = {}
  BY DEF Idle, Drop
<1>2. drops[r].pending = {}
  BY DEF DropInv, IndexedIsCovered, ListFolder
<1> QED BY <1>1, <1>2, RunStepInv DEF ListFolder, DropInv, DropTypeOK

LEMMA ReadInv ==
  ASSUME DropInv, NEW r \in Runs, NEW n \in Names, Read(r, n) PROVE DropInv'
<1> DEFINE drop == [drops[r] EXCEPT !.at = "read", !.name = n, !.content = folder[n]]
<1>1. /\ drop \in Drop /\ drop.at = "read" /\ drop.pending = drops[r].pending
      /\ drop.name = n /\ drop.content = folder[n]
  BY DEF Drop, DropInv, DropTypeOK
<1> QED BY <1>1, RunStepInv DEF Read, DropInv, DropTypeOK

\* A file left out keeps what is pending, or loses it to a broken transaction.
LEMMA SkipInv ==
  ASSUME DropInv, NEW r \in Runs,
         (\E n \in Names : ReadFails(r, n)) \/ IngestFails(r) \/ NotArchived(r)
  PROVE  DropInv'
<1> USE DEF DropInv, DropTypeOK
<1> DEFINE kept(m) == Skipped(r, m)
           lost(m) == [Skipped(r, m) EXCEPT !.pending = {}, !.broken = TRUE]
<1>1. \A m : kept(m) \in Drop /\ kept(m).at = "next" /\ kept(m).pending = drops[r].pending
  BY DropRecords
<1>2. \A m : lost(m) \in Drop /\ lost(m).at = "next" /\ lost(m).pending = {}
  BY DropRecords DEF Drop
<1>3. drops[r].pending \in SUBSET Version
  BY DEF Drop
<1>4. CASE \E m : DropStep(r, kept(m)) /\ UNCHANGED <<folder, archive, documents, undone>>
  BY <1>4, <1>1, RunStepInv
<1>5. CASE \E m : /\ DropStep(r, lost(m)) /\ UNCHANGED <<folder, archive, documents>>
                  /\ undone' = undone \cup drops[r].pending
  BY <1>5, <1>2, <1>3, RunStepInv
<1> QED BY <1>4, <1>5 DEF ReadFails, IngestFails, NotArchived

LEMMA IngestInv == ASSUME DropInv, NEW r \in Runs, Ingest(r) PROVE DropInv'
<1> USE DEF DropInv, DropTypeOK
<1> DEFINE held == drops[r].pending \cup {drops[r].content}
           flushed == [drops[r] EXCEPT !.at = "indexed", !.pending = held]
           stored == [drops[r] EXCEPT !.at = "indexed", !.pending = {}]
<1>1. /\ drops[r] \in Drop /\ drops[r].at = "read" /\ drops[r].name \in Names /\ drops[r].content # 0
      /\ folder[drops[r].name] \in {0, drops[r].content} \cup rushed
  BY DEF Ingest, ReadIsThere
<1>2. held \in SUBSET Version
  BY <1>1 DEF Drop
<1>3. /\ flushed \in Drop /\ flushed.at = "indexed" /\ flushed.pending = held
      /\ flushed.name = drops[r].name /\ flushed.content = drops[r].content
  BY <1>1, <1>2 DEF Drop
<1>4. /\ stored \in Drop /\ stored.at = "indexed" /\ stored.pending = {}
      /\ stored.name = drops[r].name /\ stored.content = drops[r].content
  BY <1>1 DEF Drop
<1>5. UNCHANGED <<folder, archive, undone>>
  BY DEF Ingest
<1>6. \/ DropStep(r, flushed) /\ documents' = documents
      \/ DropStep(r, stored) /\ documents' = documents \cup held
  BY DEF Ingest
<1>7. CASE DropStep(r, flushed) /\ documents' = documents
  <2> HIDE DEF flushed
  <2> QED BY <1>1, <1>2, <1>3, <1>5, <1>7, RunStepInv
<1>8. CASE DropStep(r, stored) /\ documents' = documents \cup held
  <2> HIDE DEF stored
  <2> QED BY <1>1, <1>2, <1>4, <1>5, <1>8, RunStepInv
<1> QED BY <1>6, <1>7, <1>8

LEMMA EndDropInv ==
  ASSUME DropInv, NEW r \in Runs, CommitDrop(r) \/ AbandonDrop(r) PROVE DropInv'
<1> USE DEF DropInv, DropTypeOK
<1>1. drops[r].pending \in SUBSET Version
  BY DEF Drop
<1>2. CASE CommitDrop(r)
  BY <1>1, <1>2, DropRecords, RunStepInv DEF CommitDrop
<1>3. CASE AbandonDrop(r)
  BY <1>1, <1>3, DropRecords, RunStepInv DEF AbandonDrop
<1> QED BY <1>2, <1>3

\* What is moved has been read by this run, or took the place of such a file.
LEMMA ArchiveFileInv == ASSUME DropInv, NEW r \in Runs, ArchiveFile(r) PROVE DropInv'
<1> USE DEF DropInv, ArchiveFile, DropStep
<1> DEFINE n == drops[r].name
<1>1. /\ n \in Names /\ folder[n] \in Version /\ folder[n] \in {drops[r].content} \cup rushed
      /\ drops[r].content \in documents \cup drops[r].pending
  BY DEF ReadIsThere, IndexedIsCovered, DropTypeOK
<1>2. /\ drops' \in [Runs -> Drop] /\ drops'[r].at = "next" /\ drops'[r].pending = drops[r].pending
      /\ \A q \in Runs \ {r} : drops'[q] = drops[q]
  BY DropRecords DEF DropTypeOK
<1>3. folder' \in [Names -> Version \cup {0}] /\ \A m \in Names : folder'[m] \in {0, folder[m]}
  BY <1>1 DEF DropTypeOK
<1>4. DropTypeOK'
  BY <1>1, <1>2, <1>3 DEF DropTypeOK
<1>5. ReadIsThere'
  BY <1>2, <1>3 DEF ReadIsThere
<1>6. IndexedIsCovered'
  BY <1>2 DEF IndexedIsCovered
<1>7. ArchivedHasDocument'
  <2>1. \A q \in Runs : drops'[q].pending = drops[q].pending
    BY <1>2
  <2>2. UNCHANGED <<documents, undone, rushed>> /\ archive' = archive \cup {folder[n]}
    OBVIOUS
  <2>3. Archived(folder[n])
    BY <1>1 DEF Archived
  <2>4. \A v \in archive : Archived(v)
    BY ProcessedAlt
  <2>5. \A v \in archive' : Archived(v)'
    BY <2>1, <2>2, <2>3, <2>4 DEF Archived
  <2> QED BY <2>5, ProcessedAlt
<1> QED BY <1>4, <1>5, <1>6, <1>7

-------------------------------------------------------------------------------
(* Steps of staff.                                                           *)

LEMMA StaffInv ==
  ASSUME DropInv, NEW n \in Names, PutFile(n) \/ TakeBack(n) PROVE DropInv'
<1> USE DEF DropInv
<1>1. UNCHANGED <<archive, documents, drops, undone>> /\ rushed \subseteq rushed'
  BY DEF PutFile, TakeBack
<1>2. DropTypeOK'
  <2>1. put' \in 0 .. MaxVersions
    BY DropAssumption DEF DropTypeOK, PutFile, TakeBack
  <2>2. PutFile(n) => put + 1 \in Version
    BY DropAssumption DEF DropTypeOK, PutFile, Version
  <2>3. folder' \in [Names -> Version \cup {0}]
    BY <2>2 DEF DropTypeOK, PutFile, TakeBack
  <2>4. rushed' \in SUBSET Version
    BY <2>2 DEF DropTypeOK, PutFile, TakeBack
  <2> QED BY <1>1, <2>1, <2>3, <2>4 DEF DropTypeOK
<1>3. \A m \in Names : \/ folder'[m] \in {0, folder[m]}
                       \/ \A r \in Runs : Holds(r, m) => folder'[m] \in rushed'
  BY DEF PutFile, TakeBack, DropTypeOK
<1>4. ReadIsThere'
  <2> SUFFICES ASSUME NEW r \in Runs, drops[r].at \in {"read", "indexed"}
               PROVE  /\ drops[r].name \in Names /\ drops[r].content # 0
                      /\ folder'[drops[r].name] \in {0, drops[r].content} \cup rushed'
    BY <1>1 DEF ReadIsThere
  <2>1. drops[r].name \in Names /\ drops[r].content # 0
        /\ folder[drops[r].name] \in {0, drops[r].content} \cup rushed
    BY DEF ReadIsThere
  <2>2. Holds(r, drops[r].name)
    BY DEF Holds
  <2> QED BY <2>1, <2>2, <1>1, <1>3
<1>5. IndexedIsCovered' /\ ArchivedHasDocument'
  BY <1>1 DEF IndexedIsCovered, ArchivedHasDocument
<1> QED BY <1>2, <1>4, <1>5

LEMMA DropNextInv == DropInv /\ [DropNext]_dropVars => DropInv'
<1> SUFFICES ASSUME DropInv, [DropNext]_dropVars PROVE DropInv'
  OBVIOUS
<1>1. CASE DropNext
  BY <1>1, StaffInv, ListFolderInv, ReadInv, SkipInv, IngestInv, EndDropInv, ArchiveFileInv DEF DropNext
<1>2. CASE UNCHANGED dropVars
  BY <1>2 DEF DropInv, dropVars, DropTypeOK, ReadIsThere, IndexedIsCovered, ArchivedHasDocument
<1> QED BY <1>1, <1>2

-------------------------------------------------------------------------------
(* Places of numbers in a finite set, and slices of it.                      *)

Place(S, x) == Cardinality({j \in S : j < x})

LEMMA PlaceBounds ==
  ASSUME NEW S \in SUBSET Nat, IsFiniteSet(S), NEW x \in S
  PROVE  /\ Place(S, x) \in Nat /\ Cardinality(S) \in Nat /\ Place(S, x) < Cardinality(S)
         /\ \A y \in S : y < x => Place(S, y) < Place(S, x)
<1> DEFINE below(y) == {j \in S : j < y}
<1>1. Cardinality(S) \in Nat
  BY FS_CardinalityType
<1>2. ASSUME NEW y \in S
      PROVE  IsFiniteSet(below(y)) /\ Cardinality(below(y)) \in Nat
  BY FS_Subset, FS_CardinalityType
<1>3. Cardinality(below(x)) < Cardinality(S)
  <2>1. below(x) \in SUBSET S /\ x \in S /\ x \notin below(x)
    OBVIOUS
  <2>2. below(x) # S
    BY <2>1
  <2> HIDE DEF below
  <2>3. Cardinality(below(x)) <= Cardinality(S) /\ Cardinality(below(x)) # Cardinality(S)
    BY <2>1, <2>2, FS_Subset
  <2> QED BY <1>1, <1>2, <2>3
<1>4. ASSUME NEW y \in S, y < x
      PROVE  Cardinality(below(y)) < Cardinality(below(x))
  <2>1. \A j \in S : j < y => j < x
    BY <1>4
  <2>2. x \in Nat /\ y \in Nat /\ ~(y < y)
    OBVIOUS
  <2>3. y \in below(x) /\ y \notin below(y)
    BY <1>4, <2>2
  <2>4. \A j \in below(y) : j \in below(x)
    BY <2>1
  <2>5. below(y) \in SUBSET below(x) /\ y \in below(x) /\ y \notin below(y)
    BY <2>3, <2>4, Zenon
  <2>6. below(y) # below(x)
    BY <2>5
  <2> HIDE DEF below
  <2>7. Cardinality(below(y)) <= Cardinality(below(x)) /\ Cardinality(below(y)) # Cardinality(below(x))
    BY <1>2, <2>5, <2>6, FS_Subset
  <2> QED BY <1>2, <2>7
<1> QED BY <1>1, <1>2, <1>3, <1>4 DEF Place

LEMMA PlaceOrder ==
  ASSUME NEW S \in SUBSET Nat, IsFiniteSet(S), NEW x \in S, NEW y \in S
  PROVE  x < y <=> Place(S, x) < Place(S, y)
<1>1. /\ Place(S, x) \in Nat /\ Place(S, y) \in Nat /\ x \in Nat /\ y \in Nat
      /\ x < y => Place(S, x) < Place(S, y)
      /\ y < x => Place(S, y) < Place(S, x)
  BY PlaceBounds
<1>2. x < y \/ x = y \/ y < x
  BY <1>1
<1>3. x = y => ~(Place(S, x) < Place(S, y))
  BY <1>1
<1>4. y < x => ~(Place(S, x) < Place(S, y))
  BY <1>1
<1> QED BY <1>1, <1>2, <1>3, <1>4

\* Every place is taken.
LEMMA PlaceTaken ==
  ASSUME NEW S \in SUBSET Nat, IsFiniteSet(S), NEW n \in Nat, n < Cardinality(S)
  PROVE  \E x \in S : Place(S, x) = n
<1> DEFINE places == 0 .. Cardinality(S) - 1
           place  == [x \in S |-> Place(S, x)]
<1>1. Cardinality(S) \in Nat
  BY FS_CardinalityType
<1>2. IsFiniteSet(places) /\ Cardinality(places) = Cardinality(S)
  <2>1. 0 \in Int /\ Cardinality(S) - 1 \in Int
    BY <1>1
  <2>2. /\ IsFiniteSet(places)
        /\ Cardinality(places) = IF 0 > Cardinality(S) - 1 THEN 0 ELSE Cardinality(S) - 1 - 0 + 1
    BY <2>1, FS_Interval
  <2> QED BY <1>1, <2>2
<1>3. place \in [S -> places]
  BY <1>1, PlaceBounds
<1>4. ASSUME NEW x \in S, NEW y \in S, place[x] = place[y] PROVE x = y
  <2>1. ~(x < y) /\ ~(y < x)
    BY <1>4, PlaceBounds, PlaceOrder
  <2> QED BY <2>1
<1>5. n \in places
  BY <1>1
<1> HIDE DEF places
<1>6. place \in Injection(S, places)
  BY <1>3, <1>4, Fun_IsInj
<1>7. place \in Surjection(S, places)
  BY <1>2, <1>6, FS_Injection
<1>8. \E x \in S : place[x] = n
  <2> HIDE DEF place
  <2>1. \A m \in places : \E x \in S : place[x] = m
    BY <1>7 DEF Surjection
  <2> QED BY <1>5, <2>1
<1> QED BY <1>8

\* A finite set of numbers that is not empty has a greatest one, which is its Max.
LEMMA MaxIsGreatest ==
  ASSUME NEW S \in SUBSET Nat, IsFiniteSet(S), S # {}
  PROVE  Max(S) \in S /\ \A x \in S : x <= Max(S)
<1>1. Cardinality(S) \in Nat /\ Cardinality(S) # 0
  BY FS_CardinalityType, FS_EmptySet
<1>2. PICK m \in S : Place(S, m) = Cardinality(S) - 1
  <2>1. Cardinality(S) - 1 \in Nat /\ Cardinality(S) - 1 < Cardinality(S)
    BY <1>1
  <2> QED BY <2>1, PlaceTaken
<1>3. \A x \in S : m >= x
  <2> SUFFICES ASSUME NEW x \in S, m < x PROVE FALSE
    OBVIOUS
  <2>1. Place(S, m) < Place(S, x) /\ Place(S, x) < Cardinality(S) /\ Place(S, x) \in Nat
    BY PlaceBounds
  <2> QED BY <1>1, <1>2, <2>1
<1>4. Max(S) \in S /\ \A x \in S : Max(S) >= x
  BY <1>3 DEF Max
<1>5. \A x \in S : x \in Nat
  OBVIOUS
<1> QED BY <1>4, <1>5

LEMMA SliceMember ==
  ASSUME NEW S \in SUBSET Nat, IsFiniteSet(S), NEW k \in Nat, NEW n \in Nat
  PROVE  /\ Slice(S, k, n) \in SUBSET S
         /\ \A x \in S : x \in Slice(S, k, n) <=> k <= Place(S, x) /\ Place(S, x) < k + n
<1>1. \A x \in S : Place(S, x) \in Nat
  BY PlaceBounds
<1>2. Slice(S, k, n) = {x \in S : Place(S, x) \in k .. k + n - 1}
  BY DEF Slice, Place
<1> QED BY <1>1, <1>2

\* A slice is as long as asked, unless the set ends before.
LEMMA SliceLength ==
  ASSUME NEW S \in SUBSET Nat, IsFiniteSet(S), NEW k \in Nat, NEW n \in Nat
  PROVE  /\ IsFiniteSet(Slice(S, k, n)) /\ Cardinality(Slice(S, k, n)) \in Nat
         /\ Cardinality(Slice(S, k, n)) <= n
         /\ k + n <= Cardinality(S) => Cardinality(Slice(S, k, n)) = n
         /\ Cardinality(Slice(S, k, n)) < n =>
              \A x \in S : k <= Place(S, x) => x \in Slice(S, k, n)
<1> DEFINE slice  == Slice(S, k, n)
           places == k .. k + n - 1
           place  == [x \in slice |-> Place(S, x)]
<1>0. /\ slice \in SUBSET S
      /\ \A x \in S : x \in slice <=> k <= Place(S, x) /\ Place(S, x) < k + n
  BY SliceMember
<1>1. Cardinality(S) \in Nat /\ \A x \in S : Place(S, x) \in Nat /\ Place(S, x) < Cardinality(S)
  BY PlaceBounds, FS_CardinalityType
<1> HIDE DEF slice
<1>2. IsFiniteSet(places) /\ Cardinality(places) = n
  BY FS_Interval
<1>3. place \in [slice -> places]
  BY <1>0, <1>1
<1>4. ASSUME NEW x \in slice, NEW y \in slice, place[x] = place[y] PROVE x = y
  <2>1. ~(x < y) /\ ~(y < x) /\ x \in Nat /\ y \in Nat
    BY <1>0, <1>1, <1>4, PlaceOrder
  <2> QED BY <2>1
<1>5. \A m \in places : m \in Nat /\ k <= m /\ m < k + n
  OBVIOUS
<1> HIDE DEF places
<1>6. place \in Injection(slice, places)
  BY <1>3, <1>4, Fun_IsInj
<1>7. /\ IsFiniteSet(slice) /\ Cardinality(slice) <= n
      /\ Cardinality(slice) = n <=> place \in Surjection(slice, places)
  BY <1>2, <1>6, FS_Injection
<1>8. Cardinality(slice) \in Nat
  BY <1>7, FS_CardinalityType
<1>9. ASSUME k + n <= Cardinality(S) PROVE Cardinality(slice) = n
  <2>1. ASSUME NEW m \in places PROVE \E x \in slice : place[x] = m
    <3>1. m < Cardinality(S)
      BY <1>1, <1>5, <1>9
    <3>2. PICK x \in S : Place(S, x) = m
      BY <1>5, <3>1, PlaceTaken
    <3> QED BY <1>0, <1>5, <3>2
  <2>2. place \in Surjection(slice, places)
    BY <1>3, <2>1, Fun_IsSurj
  <2> QED BY <1>7, <2>2
<1>10. ASSUME Cardinality(slice) < n, NEW x \in S, k <= Place(S, x) PROVE x \in slice
  <2>1. ~(k + n <= Cardinality(S))
    BY <1>8, <1>9, <1>10
  <2> QED BY <1>0, <1>1, <1>10, <2>1
<1> QED BY <1>7, <1>8, <1>9, <1>10 DEF slice

\* A slice and the one before it.
LEMMA SliceExtended ==
  ASSUME NEW S \in SUBSET Nat, IsFiniteSet(S), NEW k \in Nat, NEW n \in Nat
  PROVE  /\ Slice(S, 0, k + n) = Slice(S, 0, k) \cup Slice(S, k, n)
         /\ Slice(S, 0, k) \cap Slice(S, k, n) = {}
<1>1. k + n \in Nat /\ 0 \in Nat /\ \A x \in S : Place(S, x) \in Nat
  BY PlaceBounds
<1>2. \A x \in S : /\ x \in Slice(S, 0, k + n) <=> Place(S, x) < k + n
                   /\ x \in Slice(S, 0, k) <=> Place(S, x) < k
                   /\ x \in Slice(S, k, n) <=> k <= Place(S, x) /\ Place(S, x) < k + n
  BY <1>1, SliceMember
<1>3. /\ Slice(S, 0, k + n) \in SUBSET S /\ Slice(S, 0, k) \in SUBSET S
      /\ Slice(S, k, n) \in SUBSET S
  BY <1>1, SliceMember
<1>4. \A x \in S : /\ Place(S, x) < k => Place(S, x) < k + n
                   /\ Place(S, x) < k + n => Place(S, x) < k \/ k <= Place(S, x)
                   /\ ~(Place(S, x) < k /\ k <= Place(S, x))
  BY <1>1
<1> QED BY <1>2, <1>3, <1>4, Zenon

\* A record that is added at the end leaves the slices before it alone.
LEMMA SliceAppended ==
  ASSUME NEW S \in SUBSET Nat, IsFiniteSet(S), NEW x \in Nat, x \notin S, \A j \in S : j < x,
         NEW k \in Nat, k <= Cardinality(S)
  PROVE  Slice(S \cup {x}, 0, k) = Slice(S, 0, k)
<1> DEFINE T == S \cup {x}
<1>0. ~(x < x) /\ \A y \in S : ~(x < y)
  OBVIOUS
<1>1. T \in SUBSET Nat /\ IsFiniteSet(T)
  BY FS_AddElement
<1>2. \A y \in S : {j \in T : j < y} = {j \in S : j < y}
  BY <1>0
<1>3. {j \in T : j < x} = S
  BY <1>0
<1>4. \A y \in S : Place(T, y) = Place(S, y)
  BY <1>2 DEF Place
<1>5. Place(T, x) = Cardinality(S) /\ Cardinality(S) \in Nat
  BY <1>3, FS_CardinalityType DEF Place
<1> HIDE DEF T
<1>6. /\ Slice(T, 0, k) \in SUBSET T /\ Slice(S, 0, k) \in SUBSET S
      /\ \A y \in T : y \in Slice(T, 0, k) <=> 0 <= Place(T, y) /\ Place(T, y) < 0 + k
      /\ \A y \in S : y \in Slice(S, 0, k) <=> 0 <= Place(S, y) /\ Place(S, y) < 0 + k
  BY <1>1, SliceMember
<1>7. x \notin Slice(T, 0, k)
  BY <1>5, <1>6 DEF T
<1> QED BY <1>4, <1>6, <1>7 DEF T

\* A full slice ends within the set.
LEMMA SliceFull ==
  ASSUME NEW S \in SUBSET Nat, IsFiniteSet(S), NEW k \in Nat, NEW n \in Nat,
         k <= Cardinality(S), Cardinality(Slice(S, k, n)) = n
  PROVE  k + n <= Cardinality(S)
<1>1. 0 \in Nat /\ 0 + k <= Cardinality(S) /\ Cardinality(S) \in Nat
  BY FS_CardinalityType
<1>2. IsFiniteSet(Slice(S, 0, k)) /\ Cardinality(Slice(S, 0, k)) = k
  BY <1>1, SliceLength
<1>3. IsFiniteSet(Slice(S, k, n)) /\ Slice(S, k, n) \in SUBSET S
  BY SliceLength, SliceMember
<1>4. /\ Slice(S, 0, k + n) = Slice(S, 0, k) \cup Slice(S, k, n)
      /\ Slice(S, 0, k) \cap Slice(S, k, n) = {}
  BY SliceExtended
<1>5. Cardinality(Slice(S, 0, k + n)) = k + n - Cardinality({})
  BY <1>2, <1>3, <1>4, FS_Union
<1>6. Slice(S, 0, k + n) \in SUBSET S
  BY <1>1, SliceMember
<1>7. Cardinality(Slice(S, 0, k + n)) <= Cardinality(S)
  BY <1>6, FS_Subset
<1> QED BY <1>5, <1>7, FS_EmptySet

-------------------------------------------------------------------------------
(* The listing.                                                              *)

Positional == style \in {"page", "offset", "odbc"}

\* How many records of the source the pages so far have passed.
Position == IF style = "page" THEN (listing.page - 1) * served ELSE listing.offset

Passed == Slice(remote, 0, Position)

\* What was left out of the pages passed: no more than the rows that are too large.
LeftOut == IF style = "odbc" THEN Large ELSE {}

\* Where a listing stands that goes on.
Counted ==
  /\ listing.count = Cardinality(listing.found)
  /\ style # "odbc" => listing.count < MaxRecords

InPlace ==
  /\ style = "none" => listing.found = {}
  /\ Positional => listing.found = Passed \ LeftOut /\ Position <= Cardinality(remote)
  /\ style = "cursor" =>
       /\ \A k \in listing.found : k <= listing.cursor
       /\ \A k \in known : k <= listing.cursor => k \in listing.found

ListInv ==
  /\ ListTypeOK
  /\ known \subseteq remote
  /\ Asking /\ InStep => Counted /\ InPlace
  /\ ListingComplete

LEMMA ListTypes ==
  ASSUME ListTypeOK
  PROVE  /\ remote \in SUBSET Nat /\ IsFiniteSet(remote) /\ known \in SUBSET Nat
         /\ listing.found \in SUBSET Nat /\ IsFiniteSet(listing.found)
         /\ listing.count \in Nat /\ listing.page \in Nat \ {0} /\ listing.offset \in Nat
         /\ listing.cursor \in Nat /\ listing.cursor \in Keys \cup {0}
         /\ listing.found \in SUBSET Keys
         /\ served \in Nat \ {0} /\ served <= PageSize /\ PageSize \in Nat \ {0}
         /\ MaxRecords \in Nat \ {0} /\ Position \in Nat
<1>1. /\ listing.found \in SUBSET Keys /\ listing.count \in Nat /\ listing.page \in Nat \ {0}
      /\ listing.offset \in Nat /\ listing.cursor \in Keys \cup {0}
  BY DEF ListTypeOK, List
<1>2. Keys \subseteq Nat /\ IsFiniteSet(Keys) /\ PageSize \in Nat \ {0} /\ MaxRecords \in Nat \ {0}
  BY ListingAssumption
<1>3. served \in Nat \ {0} /\ served <= PageSize /\ remote \in SUBSET Keys /\ known \in SUBSET Keys
  BY <1>2 DEF ListTypeOK
<1>4. IsFiniteSet(remote) /\ IsFiniteSet(listing.found)
  BY <1>1, <1>2, <1>3, FS_Subset
<1>5. (listing.page - 1) * served \in Nat
  <2>1. listing.page - 1 \in Nat /\ served \in Nat
    BY <1>1, <1>3
  <2> QED BY <2>1
<1>6. Position \in Nat
  BY <1>1, <1>5 DEF Position
<1>7. listing.cursor \in Nat
  <2>1. listing.cursor \in Keys \/ listing.cursor = 0
    BY <1>1
  <2>2. \A k \in Keys : k \in Nat
    BY <1>2
  <2>3. 0 \in Nat
    OBVIOUS
  <2> QED BY <2>1, <2>2, <2>3, Zenon
<1>8. remote \in SUBSET Nat /\ known \in SUBSET Nat /\ listing.found \in SUBSET Nat
  BY <1>1, <1>2, <1>3
<1> QED BY <1>1, <1>2, <1>3, <1>4, <1>6, <1>7, <1>8

\* The number of records asked for at once.
Asked == IF style = "odbc" THEN PageSize ELSE served

Rest == {k \in remote : k > listing.cursor}

LEMMA ItemsAre ==
  ASSUME ListTypeOK
  PROVE  /\ style \in {"none", "cursor"} \/ Positional
         /\ style = "none" => Items = remote
         /\ style = "cursor" => Items = Slice(Rest, 0, served)
         /\ Positional => Items = Slice(remote, Position, Asked)
         /\ Items \in SUBSET remote /\ IsFiniteSet(Items) /\ Cardinality(Items) \in Nat
         /\ Rest \in SUBSET remote /\ IsFiniteSet(Rest)
         /\ Asked \in Nat \ {0} /\ Asked <= PageSize
<1>1. /\ remote \in SUBSET Nat /\ IsFiniteSet(remote) /\ Position \in Nat
      /\ served \in Nat \ {0} /\ served <= PageSize /\ PageSize \in Nat \ {0}
  BY ListTypes
<1>2. Asked \in Nat \ {0} /\ Asked <= PageSize
  BY <1>1 DEF Asked
<1>3. Rest \in SUBSET remote
  BY DEF Rest
<1>4. IsFiniteSet(Rest)
  BY <1>1, <1>3, FS_Subset
<1>5. style \in {"none", "cursor"} \/ Positional
  BY DEF ListTypeOK, Styles, Positional
<1>6. style = "none" => Items = remote
  BY DEF Items
<1>7. style = "cursor" => Items = Slice(Rest, 0, served)
  BY DEF Items, Rest
<1>8. Positional => Items = Slice(remote, Position, Asked)
  BY DEF Items, Positional, Position, Asked
<1>9. Items \in SUBSET remote
  <2>1. CASE style = "none"
    BY <1>6, <2>1
  <2>2. CASE style = "cursor"
    <3>1. Rest \in SUBSET Nat /\ 0 \in Nat /\ served \in Nat
      BY <1>1, <1>3
    <3>2. Slice(Rest, 0, served) \in SUBSET Rest
      BY <1>4, <3>1, SliceMember
    <3> QED BY <1>3, <1>7, <2>2, <3>2
  <2>3. CASE Positional
    <3>1. Asked \in Nat
      BY <1>2
    <3>2. Slice(remote, Position, Asked) \in SUBSET remote
      BY <1>1, <3>1, SliceMember
    <3> QED BY <1>8, <2>3, <3>2
  <2> QED BY <1>5, <2>1, <2>2, <2>3
<1>10. IsFiniteSet(Items) /\ Cardinality(Items) \in Nat
  BY <1>1, <1>9, FS_Subset, FS_CardinalityType
<1> QED BY <1>2, <1>3, <1>4, <1>5, <1>6, <1>7, <1>8, <1>9, <1>10

\* The page that is asked for has nothing twice, and what is still to be found
\* is on it or comes after it, and then it is not the last page.
LEMMA ItemsAhead ==
  ASSUME ListInv, Asking, InStep
  PROVE  /\ Items \cap listing.found = {}
         /\ \A k \in known \ listing.found :
              \/ style = "odbc" /\ k \in Large
              \/ /\ style # "odbc" => \A j \in listing.found : j < k
                 /\ k \in Items \/ (~LastPage /\ \A j \in Items : j < k)
<1>0. ListTypeOK /\ known \subseteq remote /\ InPlace
  BY DEF ListInv
<1>1. /\ remote \in SUBSET Nat /\ IsFiniteSet(remote) /\ Position \in Nat
      /\ served \in Nat \ {0} /\ listing.found \in SUBSET Nat /\ listing.cursor \in Nat
      /\ \A k \in remote : k \in Nat
  BY <1>0, ListTypes
<1>2. /\ style = "none" => Items = remote
      /\ style = "cursor" => Items = Slice(Rest, 0, served)
      /\ Positional => Items = Slice(remote, Position, Asked)
      /\ Rest \in SUBSET remote /\ IsFiniteSet(Rest) /\ Rest \in SUBSET Nat
      /\ Asked \in Nat \ {0} /\ Cardinality(Items) \in Nat
  BY <1>0, <1>1, ItemsAre
<1>3. CASE style = "none"
  <2>1. listing.found = {} /\ Items = remote /\ style # "odbc"
    BY <1>0, <1>2, <1>3 DEF InPlace
  <2> QED BY <1>0, <2>1
<1>4. CASE style = "cursor"
  <2>1. /\ \A k \in listing.found : k <= listing.cursor
        /\ \A k \in known : k <= listing.cursor => k \in listing.found
    BY <1>0, <1>4 DEF InPlace
  <2>2. \A k \in Items : k \in Rest
    <3>1. Items = Slice(Rest, 0, served) /\ 0 \in Nat /\ served \in Nat
      BY <1>1, <1>2, <1>4
    <3>2. Slice(Rest, 0, served) \in SUBSET Rest
      BY <1>2, <3>1, SliceMember
    <3> QED BY <3>1, <3>2
  <2>3. \A k \in Rest : k \in Nat /\ listing.cursor < k
    BY <1>1 DEF Rest
  <2>4. Items \cap listing.found = {}
    <3> SUFFICES ASSUME NEW k \in Items, k \in listing.found PROVE FALSE
      OBVIOUS
    <3>1. listing.cursor < k /\ k <= listing.cursor /\ k \in Nat
      BY <2>1, <2>2, <2>3
    <3> QED BY <1>1, <3>1
  <2>5. ASSUME NEW k \in known, k \notin listing.found
        PROVE  /\ \A j \in listing.found : j < k
               /\ k \in Items \/ (~LastPage /\ \A j \in Items : j < k)
    <3>0. k \in remote /\ k \in Nat /\ ~(k <= listing.cursor)
      BY <1>0, <1>1, <2>1, <2>5
    <3>1. k \in Rest /\ k \in Nat /\ listing.cursor < k
      BY <1>1, <3>0 DEF Rest
    <3>2. \A j \in listing.found : j < k
      BY <1>1, <2>1, <3>1
    <3>3. ASSUME k \notin Items PROVE ~LastPage /\ \A j \in Items : j < k
      <4>1. ~LastPage
        BY <1>0, <1>4, <3>1, <3>3 DEF LastPage
      <4>2. \A j \in Rest : /\ Place(Rest, j) \in Nat
                            /\ j \in Items <=> 0 <= Place(Rest, j) /\ Place(Rest, j) < 0 + served
        <5>1. Items = Slice(Rest, 0, served) /\ 0 \in Nat /\ served \in Nat
          BY <1>1, <1>2, <1>4
        <5>2. \A j \in Rest : j \in Slice(Rest, 0, served) <=>
                0 <= Place(Rest, j) /\ Place(Rest, j) < 0 + served
          BY <1>2, <5>1, SliceMember
        <5>3. \A j \in Rest : Place(Rest, j) \in Nat
          BY <1>2, PlaceBounds
        <5> QED BY <5>1, <5>2, <5>3
      <4>3. served <= Place(Rest, k)
        BY <1>1, <3>1, <3>3, <4>2
      <4>4. ASSUME NEW j \in Items PROVE j < k
        <5>1. j \in Rest
          BY <2>2, <4>4
        <5>2. Place(Rest, j) < served /\ Place(Rest, j) \in Nat /\ Place(Rest, k) \in Nat
          BY <1>1, <3>1, <4>2, <4>4, <5>1
        <5>3. Place(Rest, j) < Place(Rest, k)
          BY <1>1, <4>3, <5>2
        <5> QED BY <1>2, <3>1, <5>1, <5>3, PlaceOrder
      <4> QED BY <4>1, <4>4
    <3> QED BY <3>2, <3>3
  <2> QED BY <1>4, <2>4, <2>5
<1>5. CASE Positional
  <2>1. listing.found = Passed \ LeftOut /\ Position <= Cardinality(remote)
    BY <1>0, <1>5 DEF InPlace
  <2>2. \A k \in remote : Place(remote, k) \in Nat
    BY <1>1, PlaceBounds
  <2>3. \A k \in remote : k \in Passed <=> Place(remote, k) < Position
    BY <1>1, <2>2, SliceMember DEF Passed
  <2>4. \A k \in remote : k \in Items <=> Position <= Place(remote, k) /\ Place(remote, k) < Position + Asked
    <3>1. Asked \in Nat /\ Items = Slice(remote, Position, Asked)
      BY <1>2, <1>5
    <3>2. \A k \in remote : k \in Slice(remote, Position, Asked) <=>
            Position <= Place(remote, k) /\ Place(remote, k) < Position + Asked
      BY <1>1, <3>1, SliceMember
    <3> QED BY <3>1, <3>2
  <2>5. Passed \in SUBSET remote /\ Items \in SUBSET remote
    <3>1. Slice(remote, 0, Position) \in SUBSET remote /\ Items \in SUBSET remote
      BY <1>0, <1>1, SliceMember, ItemsAre
    <3> QED BY <3>1 DEF Passed
  <2>6. Items \cap listing.found = {}
    <3> SUFFICES ASSUME NEW k \in Items, k \in listing.found PROVE FALSE
      OBVIOUS
    <3>1. k \in remote /\ k \in Passed
      BY <2>1, <2>5
    <3>2. Position <= Place(remote, k) /\ Place(remote, k) < Position
      BY <2>3, <2>4, <3>1
    <3> QED BY <1>1, <2>2, <3>1, <3>2
  <2>7. ASSUME NEW k \in known, k \notin listing.found, ~(style = "odbc" /\ k \in Large)
        PROVE  /\ \A j \in listing.found : j < k
               /\ k \in Items \/ (~LastPage /\ \A j \in Items : j < k)
    <3>1. k \in remote /\ k \notin Passed
      BY <1>0, <2>1, <2>7 DEF LeftOut
    <3>2. Position <= Place(remote, k)
      BY <1>1, <2>2, <2>3, <3>1
    <3>3. ASSUME NEW j \in listing.found PROVE j < k
      <4>1. j \in remote /\ Place(remote, j) < Position
        BY <2>1, <2>3, <2>5
      <4>2. Place(remote, j) < Place(remote, k)
        BY <1>1, <2>2, <3>1, <3>2, <4>1
      <4> QED BY <1>1, <3>1, <4>1, <4>2, PlaceOrder
    <3>4. ASSUME k \notin Items PROVE ~LastPage /\ \A j \in Items : j < k
      <4>1. Position + Asked <= Place(remote, k)
        BY <1>1, <1>2, <2>2, <2>4, <3>1, <3>2, <3>4
      <4>2. ASSUME NEW j \in Items PROVE j < k
        <5>1. j \in remote /\ Place(remote, j) < Position + Asked
          BY <2>4, <2>5
        <5>2. Place(remote, j) < Place(remote, k)
          BY <1>1, <1>2, <2>2, <3>1, <4>1, <5>1
        <5> QED BY <1>1, <3>1, <5>1, <5>2, PlaceOrder
      <4>3. ~(Cardinality(Items) < Asked)
        BY <1>1, <1>2, <1>5, <3>1, <3>2, <3>4, SliceLength
      <4>4. Asked = PageSize
        BY <1>5 DEF Asked, InStep, Positional
      <4> QED BY <1>5, <4>2, <4>3, <4>4 DEF LastPage, Positional
    <3> QED BY <3>3, <3>4
  <2> QED BY <2>6, <2>7
<1> QED BY <1>0, <1>3, <1>4, <1>5, ItemsAre

\* What a page leaves room for, and what is kept of it.
LEMMA KeptOf ==
  ASSUME ListTypeOK, Counted
  PROVE  /\ Kept \in SUBSET Items /\ IsFiniteSet(Kept) /\ Cardinality(Kept) \in Nat
         /\ style = "odbc" => Kept = Items \ Large
         /\ style # "odbc" =>
              /\ listing.count + Cardinality(Kept) <= MaxRecords
              /\ ~Capped => Kept = Items
              /\ Capped => listing.count + Cardinality(Kept) = MaxRecords
              /\ \A k \in Items \ Kept :
                   /\ listing.count + Cardinality(Kept) = MaxRecords
                   /\ \A j \in Kept : j < k
<1>1. /\ listing.count \in Nat /\ MaxRecords \in Nat /\ remote \in SUBSET Nat
  BY ListTypes
<1>2. Items \in SUBSET remote /\ Items \in SUBSET Nat /\ IsFiniteSet(Items) /\ Cardinality(Items) \in Nat
  BY <1>1, ItemsAre
<1>3. CASE style = "odbc"
  <2>1. Kept = Items \ Large
    BY <1>3 DEF Kept
  <2>2. Kept \in SUBSET Items
    BY <2>1
  <2> QED BY <1>2, <1>3, <2>1, <2>2, FS_Subset, FS_CardinalityType
<1>4. CASE style # "odbc"
  <2> DEFINE room == MaxRecords - listing.count
  <2>1. room \in Nat /\ 0 \in Nat
    BY <1>1, <1>4 DEF Counted
  <2>2. Kept = Slice(Items, 0, room)
    BY <1>4 DEF Kept
  <2>3. listing.count + room = MaxRecords
    BY <1>1
  <2>4. Capped <=> room <= Cardinality(Items)
    BY <1>1, <1>2, <1>4 DEF Capped
  <2> HIDE DEF room
  <2>5. /\ Kept \in SUBSET Items
        /\ \A x \in Items : /\ Place(Items, x) \in Nat /\ Place(Items, x) < Cardinality(Items)
                            /\ x \in Kept <=> 0 <= Place(Items, x) /\ Place(Items, x) < 0 + room
    BY <1>2, <2>1, <2>2, SliceMember, PlaceBounds
  <2>6. /\ IsFiniteSet(Kept) /\ Cardinality(Kept) \in Nat /\ Cardinality(Kept) <= room
        /\ 0 + room <= Cardinality(Items) => Cardinality(Kept) = room
        /\ Cardinality(Kept) < room => \A x \in Items : 0 <= Place(Items, x) => x \in Kept
    BY <1>2, <2>1, <2>2, SliceLength
  <2>7. listing.count + Cardinality(Kept) <= MaxRecords
    BY <1>1, <2>1, <2>3, <2>6
  <2>8. ASSUME ~Capped PROVE Kept = Items
    <3>1. Cardinality(Items) < room
      BY <1>2, <2>1, <2>4, <2>8
    <3>2. \A x \in Items : x \in Kept
      BY <1>2, <2>1, <2>5, <3>1
    <3> QED BY <2>5, <3>2
  <2>9. Capped => listing.count + Cardinality(Kept) = MaxRecords
    BY <2>1, <2>3, <2>4, <2>6
  <2>10. ASSUME NEW k \in Items, k \notin Kept
         PROVE  /\ listing.count + Cardinality(Kept) = MaxRecords
                /\ \A j \in Kept : j < k
    <3>1. Capped
      BY <2>8, <2>10
    <3>2. ASSUME NEW j \in Kept PROVE j < k
      <4>1. j \in Items /\ Place(Items, j) < Place(Items, k)
        BY <2>1, <2>5, <2>10
      <4> QED BY <1>2, <4>1, PlaceOrder
    <3> QED BY <2>9, <3>1, <3>2
  <2> QED BY <1>4, <2>5, <2>6, <2>7, <2>8, <2>9, <2>10
<1> QED BY <1>3, <1>4

\* What is kept is new, so the count remains the number of records found.
LEMMA AddedCount ==
  ASSUME ListInv, Asking, InStep
  PROVE  /\ listing.count + Cardinality(Kept) = Cardinality(listing.found \cup Kept)
         /\ listing.count + Cardinality(Kept) \in Nat
<1>1. ListTypeOK /\ Counted
  BY DEF ListInv
<1>2. Kept \in SUBSET Items /\ IsFiniteSet(Kept) /\ Cardinality(Kept) \in Nat
  BY <1>1, KeptOf
<1>3. Items \cap listing.found = {}
  BY ItemsAhead
<1>4. listing.found \cap Kept = {}
  BY <1>2, <1>3
<1>5. IsFiniteSet(listing.found) /\ listing.count \in Nat /\ listing.count = Cardinality(listing.found)
  BY <1>1, ListTypes DEF Counted
<1>6. Cardinality(listing.found \cup Kept) = listing.count + Cardinality(Kept) - 0
  BY <1>2, <1>4, <1>5, FS_Union, FS_EmptySet
<1> QED BY <1>2, <1>5, <1>6

-------------------------------------------------------------------------------
(* The steps of a listing, and of its source.                                *)

LEMMA ListingIs ==
  ASSUME ListTypeOK
  PROVE  /\ NoList \in List /\ NoList.found = {} /\ NoList.count = 0 /\ NoList.page = 1
         /\ NoList.offset = 0 /\ NoList.cursor = 0
         /\ \A at \in {"idle", "first", "limited", "expired", "done", "failed"} :
              /\ Added(at).at = at /\ Added(at).found = listing.found \cup Kept
              /\ Added(at).count = listing.count + Cardinality(Kept)
              /\ Added(at).page = listing.page /\ Added(at).offset = listing.offset
              /\ Added(at).cursor = listing.cursor
              /\ Kept \in SUBSET Keys /\ Cardinality(Kept) \in Nat => Added(at) \in List
<1>1. listing \in List
  BY DEF ListTypeOK
<1>2. NoList \in List
  BY DEF NoList, List
<1>3. ASSUME NEW at \in {"idle", "first", "limited", "expired", "done", "failed"}
      PROVE  /\ Added(at).at = at /\ Added(at).found = listing.found \cup Kept
             /\ Added(at).count = listing.count + Cardinality(Kept)
             /\ Added(at).page = listing.page /\ Added(at).offset = listing.offset
             /\ Added(at).cursor = listing.cursor
  BY <1>1 DEF Added, List
<1>4. ASSUME NEW at \in {"idle", "first", "limited", "expired", "done", "failed"},
             Kept \in SUBSET Keys, Cardinality(Kept) \in Nat
      PROVE  Added(at) \in List
  <2>1. listing.found \cup Kept \in SUBSET Keys /\ listing.count + Cardinality(Kept) \in Nat
    BY <1>1, <1>4 DEF List
  <2> QED BY <1>1, <2>1 DEF Added, List
<1> QED BY <1>2, <1>3, <1>4 DEF NoList

LEMMA KeptTyped ==
  ASSUME ListTypeOK
  PROVE  Kept \in SUBSET Keys /\ Cardinality(Kept) \in Nat
<1>1. Items \in SUBSET remote /\ IsFiniteSet(Items) /\ remote \in SUBSET Keys /\ remote \in SUBSET Nat
  BY ItemsAre, ListTypes DEF ListTypeOK
<1>2. Kept \in SUBSET Items
  BY DEF Kept, Slice
<1> QED BY <1>1, <1>2, FS_Subset, FS_CardinalityType

LEMMA EndsInv == ListInv /\ ListingEnds => ListInv'
<1> SUFFICES ASSUME ListInv, ListingEnds PROVE ListInv'
  OBVIOUS
<1>1. /\ Asking /\ (Capped \/ LastPage) /\ listing' = Added("done")
      /\ UNCHANGED <<style, served, remote, known, moved>>
  BY DEF ListingEnds, ListStep
<1>2. ListTypeOK /\ known \subseteq remote
  BY DEF ListInv
<1>3. listing' \in List /\ listing'.at = "done" /\ listing'.found = listing.found \cup Kept
      /\ listing'.count = listing.count + Cardinality(Kept)
  BY <1>1, <1>2, ListingIs, KeptTyped
<1>4. ListTypeOK' /\ known' \subseteq remote' /\ ~Asking'
  BY <1>1, <1>2, <1>3 DEF ListTypeOK, Asking
<1>5. ASSUME InStep' PROVE ListingComplete'
  <2>1. InStep /\ Counted
    BY <1>1, <1>5 DEF InStep, ListInv
  <2>2. /\ Kept \in SUBSET Items
        /\ style = "odbc" => Kept = Items \ Large
        /\ style # "odbc" =>
              /\ listing.count + Cardinality(Kept) <= MaxRecords
              /\ Capped => listing.count + Cardinality(Kept) = MaxRecords
              /\ \A k \in Items \ Kept :
                   /\ listing.count + Cardinality(Kept) = MaxRecords
                   /\ \A j \in Kept : j < k
    BY <1>2, <2>1, KeptOf
  <2>3. listing'.count = Cardinality(listing'.found)
    BY <1>1, <1>3, <2>1, AddedCount
  <2>4. ASSUME NEW k \in known, k \notin listing.found, k \notin Kept, ~(style = "odbc" /\ k \in Large)
        PROVE  /\ style # "odbc" /\ listing.count + Cardinality(Kept) = MaxRecords
               /\ \A j \in listing.found \cup Kept : j < k
    <3>1. /\ style # "odbc" => \A j \in listing.found : j < k
          /\ k \in Items \/ (~LastPage /\ \A j \in Items : j < k)
      BY <1>1, <2>1, <2>4, ItemsAhead
    <3>2. CASE k \in Items
      BY <2>2, <2>4, <3>1, <3>2
    <3>3. CASE k \notin Items
      <4>1. Capped /\ \A j \in Items : j < k
        BY <1>1, <3>1, <3>3
      <4>2. style # "odbc"
        BY <4>1 DEF Capped
      <4> QED BY <2>2, <3>1, <4>1, <4>2
    <3> QED BY <3>2, <3>3
  <2> QED BY <1>1, <1>3, <2>2, <2>3, <2>4 DEF ListingComplete
<1> QED BY <1>4, <1>5 DEF ListInv, ListingComplete

\* Where the next page begins.
LEMMA NextPageIs ==
  ASSUME ListTypeOK, NextPage
  PROVE  /\ listing' \in List /\ listing'.at = "first" /\ listing'.found = listing.found \cup Kept
         /\ listing'.count = listing.count + Cardinality(Kept)
         /\ listing'.page = listing.page + 1
         /\ listing'.offset = listing.offset + IF style = "odbc" THEN PageSize ELSE Cardinality(Items)
         /\ listing'.cursor = IF style = "cursor" /\ Items # {} THEN Max(Items) ELSE listing.cursor
         /\ UNCHANGED <<style, served, remote, known, moved>>
         /\ Asking /\ ~Capped /\ (~LastPage \/ style = "cursor")
<1> DEFINE page   == listing.page + 1
           offset == listing.offset + IF style = "odbc" THEN PageSize ELSE Cardinality(Items)
           cursor == IF style = "cursor" /\ Items # {} THEN Max(Items) ELSE listing.cursor
<1>1. /\ Asking /\ ~Capped /\ (~LastPage \/ style = "cursor")
      /\ listing' = [Added("first") EXCEPT !.page = page, !.offset = offset, !.cursor = cursor]
      /\ UNCHANGED <<style, served, remote, known, moved>>
  BY DEF NextPage, ListStep
<1>2. /\ Added("first") \in List /\ Added("first").at = "first"
      /\ Added("first").found = listing.found \cup Kept
      /\ Added("first").count = listing.count + Cardinality(Kept)
  BY ListingIs, KeptTyped
<1>3. Items \in SUBSET remote /\ IsFiniteSet(Items) /\ Cardinality(Items) \in Nat
  BY ItemsAre
<1>4. remote \in SUBSET Keys /\ remote \in SUBSET Nat
  BY ListTypes DEF ListTypeOK
<1>5. /\ listing.page \in Nat \ {0} /\ listing.offset \in Nat /\ listing.cursor \in Keys \cup {0}
      /\ PageSize \in Nat
  BY ListTypes
<1>6. cursor \in Keys \cup {0}
  <2>1. Items # {} => Max(Items) \in Items
    BY <1>3, <1>4, MaxIsGreatest
  <2> QED BY <1>3, <1>4, <1>5, <2>1
<1>7. page \in Nat \ {0} /\ offset \in Nat
  BY <1>3, <1>5
<1> HIDE DEF page, offset, cursor
<1>8. /\ listing' \in List /\ listing'.at = "first" /\ listing'.found = listing.found \cup Kept
      /\ listing'.count = listing.count + Cardinality(Kept)
      /\ listing'.page = page /\ listing'.offset = offset /\ listing'.cursor = cursor
  BY <1>1, <1>2, <1>6, <1>7 DEF List
<1> QED BY <1>1, <1>8 DEF page, offset, cursor

\* A page that is not the last is full, and the next begins where it ends.
LEMMA NextPosition ==
  ASSUME ListInv, InStep, NextPage, Positional
  PROVE  /\ Position' = Position + PageSize
         /\ Passed' = Passed \cup Items
         /\ Position' <= Cardinality(remote)
<1>0. ListTypeOK /\ Asking /\ ~LastPage
  BY NextPageIs DEF ListInv, Positional
<1>1. /\ remote \in SUBSET Nat /\ IsFiniteSet(remote) /\ Position \in Nat
      /\ served \in Nat /\ PageSize \in Nat /\ listing.page \in Nat \ {0} /\ listing.offset \in Nat
  BY <1>0, ListTypes
<1>2. Asked = PageSize /\ Items = Slice(remote, Position, PageSize) /\ Cardinality(Items) \in Nat
  <2>1. Asked = PageSize
    BY DEF Asked, InStep, Positional
  <2> QED BY <1>0, <2>1, ItemsAre
<1>3. ~(Cardinality(Items) < PageSize)
  BY <1>0 DEF LastPage, Positional
<1>4. Cardinality(Items) = PageSize
  <2>1. Cardinality(Items) <= PageSize
    BY <1>1, <1>2, SliceLength
  <2> QED BY <1>1, <1>2, <1>3, <2>1
<1>5. Position' = Position + PageSize
  <2>1. /\ listing'.page = listing.page + 1
        /\ listing'.offset = listing.offset + IF style = "odbc" THEN PageSize ELSE Cardinality(Items)
        /\ style' = style /\ served' = served
    BY <1>0, NextPageIs
  <2>2. CASE style = "page"
    <3>1. served = PageSize
      BY <2>2 DEF InStep
    <3> DEFINE before == listing.page - 1
    <3>2. Position = before * served
      BY <2>2 DEF Position
    <3>3. Position' = (listing'.page - 1) * served'
      BY <2>1, <2>2 DEF Position
    <3>4. listing'.page - 1 = before + 1 /\ before \in Nat
      BY <1>1, <2>1
    <3> HIDE DEF before
    <3>5. (before + 1) * served = before * served + served
      BY <1>1, <3>4
    <3> QED BY <2>1, <3>1, <3>2, <3>3, <3>4, <3>5
  <2>3. CASE style # "page"
    <3>1. Position = listing.offset /\ Position' = listing'.offset
      BY <2>1, <2>3 DEF Position
    <3> QED BY <1>4, <2>1, <3>1
  <2> QED BY <2>2, <2>3
<1>6. Position <= Cardinality(remote)
  BY <1>0 DEF ListInv, InPlace
<1>7. Position + PageSize <= Cardinality(remote)
  BY <1>1, <1>2, <1>4, <1>6, SliceFull
<1>8. Passed' = Slice(remote, 0, Position + PageSize)
  <2>1. remote' = remote
    BY <1>0, NextPageIs
  <2> QED BY <1>5, <2>1 DEF Passed
<1>9. Passed' = Passed \cup Items
  BY <1>1, <1>2, <1>8, SliceExtended DEF Passed
<1> QED BY <1>5, <1>7, <1>9

LEMMA NextPageInv == ListInv /\ NextPage => ListInv'
<1> SUFFICES ASSUME ListInv, NextPage PROVE ListInv'
  OBVIOUS
<1>0. ListTypeOK /\ known \subseteq remote
  BY DEF ListInv
<1>1. /\ listing' \in List /\ listing'.at = "first" /\ listing'.found = listing.found \cup Kept
      /\ listing'.count = listing.count + Cardinality(Kept)
      /\ listing'.cursor = IF style = "cursor" /\ Items # {} THEN Max(Items) ELSE listing.cursor
      /\ UNCHANGED <<style, served, remote, known, moved>>
      /\ Asking /\ ~Capped /\ (~LastPage \/ style = "cursor")
  BY <1>0, NextPageIs
<1>2. ListTypeOK' /\ known' \subseteq remote' /\ Asking'
  BY <1>0, <1>1 DEF ListTypeOK, Asking
<1>3. ASSUME InStep' PROVE Counted' /\ InPlace'
  <2>1. InStep /\ Counted /\ InPlace
    BY <1>1, <1>3 DEF InStep, ListInv
  <2>2. /\ Kept \in SUBSET Items
        /\ style = "odbc" => Kept = Items \ Large
        /\ style # "odbc" => Kept = Items
    BY <1>0, <1>1, <2>1, KeptOf
  <2>3. Counted'
    <3>1. listing'.count = Cardinality(listing'.found)
      BY <1>1, <2>1, AddedCount
    <3>2. ASSUME style # "odbc" PROVE listing'.count < MaxRecords
      <4>1. listing.count \in Nat /\ Cardinality(Items) \in Nat /\ MaxRecords \in Nat
        BY <1>0, ListTypes, ItemsAre
      <4>2. ~(listing.count + Cardinality(Items) >= MaxRecords)
        BY <1>1, <3>2 DEF Capped
      <4> QED BY <1>1, <2>2, <3>2, <4>1, <4>2
    <3> QED BY <1>1, <3>1, <3>2 DEF Counted
  <2>4. style # "none"
    BY <1>1 DEF LastPage
  <2>5. ASSUME Positional
        PROVE  listing'.found = Passed' \ LeftOut' /\ Position' <= Cardinality(remote')
    <3>1. Passed' = Passed \cup Items /\ Position' <= Cardinality(remote)
      BY <2>1, <2>5, NextPosition
    <3>2. listing.found = Passed \ LeftOut
      BY <2>1, <2>5 DEF InPlace
    <3>3. LeftOut' = LeftOut /\ Kept = Items \ LeftOut
      <4>1. CASE style = "odbc"
        BY <1>1, <2>2, <4>1 DEF LeftOut
      <4>2. CASE style # "odbc"
        BY <1>1, <2>2, <4>2 DEF LeftOut
      <4> QED BY <4>1, <4>2
    <3>4. listing'.found = (Passed \ LeftOut) \cup (Items \ LeftOut)
      BY <1>1, <3>2, <3>3
    <3>5. listing'.found = Passed' \ LeftOut'
      BY ONLY <3>1, <3>3, <3>4, Zenon
    <3> QED BY <1>1, <3>1, <3>5
  <2>6. ASSUME style = "cursor"
        PROVE  /\ \A k \in listing'.found : k <= listing'.cursor
               /\ \A k \in known : k <= listing'.cursor => k \in listing'.found
    <3>1. /\ remote \in SUBSET Nat /\ listing.found \in SUBSET Nat /\ listing.cursor \in Nat
          /\ served \in Nat /\ served # 0
      BY <1>0, ListTypes
    <3>2. /\ Items = Slice(Rest, 0, served) /\ Rest \in SUBSET remote /\ IsFiniteSet(Rest)
          /\ IsFiniteSet(Items)
      BY <1>0, <2>6, ItemsAre
    <3>3. Rest \in SUBSET Nat /\ \A k \in remote : k \in Nat /\ (k \in Rest <=> listing.cursor < k)
      BY <3>1, <3>2 DEF Rest
    <3>4. /\ Items \in SUBSET Rest
          /\ \A k \in Rest : k \in Items <=> 0 <= Place(Rest, k) /\ Place(Rest, k) < 0 + served
      <4>1. /\ Slice(Rest, 0, served) \in SUBSET Rest
            /\ \A k \in Rest : k \in Slice(Rest, 0, served) <=>
                 0 <= Place(Rest, k) /\ Place(Rest, k) < 0 + served
        BY <3>1, <3>2, <3>3, SliceMember
      <4> QED BY <3>2, <4>1
    <3>5. \A k \in Rest : Place(Rest, k) \in Nat
      BY <3>2, <3>3, PlaceBounds
    <3>6. /\ \A k \in listing.found : k <= listing.cursor
          /\ \A k \in known : k <= listing.cursor => k \in listing.found
      BY <2>1, <2>6 DEF InPlace
    <3>7. listing'.found = listing.found \cup Items
      BY <1>1, <2>2, <2>6
    <3>8. CASE Items = {}
      BY <1>1, <3>6, <3>7, <3>8
    <3>9. CASE Items # {}
      <4> DEFINE last == Max(Items)
      <4>1. listing'.cursor = last
        BY <1>1, <2>6, <3>9
      <4>2. last \in Items /\ \A k \in Items : k <= last
        BY <3>2, <3>3, <3>4, <3>9, MaxIsGreatest
      <4> HIDE DEF last
      <4>3. last \in Rest /\ last \in Nat /\ listing.cursor < last /\ Place(Rest, last) < served
        BY <3>1, <3>2, <3>3, <3>4, <3>5, <4>2
      <4>4. ASSUME NEW k \in listing.found PROVE k <= last
        <5>1. k \in Nat /\ k <= listing.cursor
          BY <3>1, <3>6
        <5> QED BY <3>1, <4>3, <5>1
      <4>5. ASSUME NEW k \in known, k <= last, k \notin listing.found PROVE k \in Items
        <5>1. k \in remote /\ k \in Nat /\ ~(k <= listing.cursor)
          BY <1>0, <3>3, <3>6, <4>5
        <5>2. k \in Rest
          BY <3>1, <3>3, <5>1
        <5>3. CASE k = last
          BY <4>2, <5>3
        <5>4. CASE k < last
          <6>1. Place(Rest, k) < Place(Rest, last)
            BY <3>2, <3>3, <4>3, <5>2, <5>4, PlaceOrder
          <6>2. Place(Rest, k) < served /\ 0 <= Place(Rest, k)
            BY <3>1, <3>5, <4>3, <5>2, <6>1
          <6> QED BY <3>1, <3>4, <5>2, <6>2
        <5> QED BY <4>3, <4>5, <5>1, <5>3, <5>4
      <4> QED BY <3>7, <4>1, <4>2, <4>4, <4>5
    <3> QED BY <3>8, <3>9
  <2> QED BY <1>1, <2>3, <2>4, <2>5, <2>6 DEF InPlace, Positional
<1>4. ListingComplete'
  BY <1>1 DEF ListingComplete
<1> QED BY <1>2, <1>3, <1>4 DEF ListInv

\* The source changes: a listing in progress is out of step, unless it is by
\* cursor, or a record came after all others.
LEMMA ChangeInv ==
  ASSUME ListInv, NEW new \in SUBSET Keys, NEW last \in BOOLEAN, Change(new, last),
         last => \E k \in Keys : new = remote \cup {k} /\ k \notin remote /\ \A j \in remote : j < k
  PROVE  ListInv'
<1>0. ListTypeOK /\ known \subseteq remote
  BY DEF ListInv
<1>1. /\ remote' = new /\ known' = known \cap new /\ moved' = (moved \/ (Asking /\ ~last))
      /\ style' = style /\ served' = served /\ listing' = listing
  BY DEF Change
<1>2. ListTypeOK' /\ known' \subseteq remote' /\ (Asking' <=> Asking)
  <2>1. moved' \in BOOLEAN
    BY <1>1
  <2> QED BY <1>0, <1>1, <2>1 DEF ListTypeOK, Asking
<1>3. InStep' => InStep
  BY <1>1 DEF InStep
<1>4. ASSUME Asking, InStep' PROVE Counted' /\ InPlace'
  <2>1. Counted /\ InPlace
    BY <1>3, <1>4 DEF ListInv
  <2>2. Counted'
    BY <1>1, <2>1 DEF Counted
  <2>3. ASSUME Positional
        PROVE  listing.found = Passed' \ LeftOut' /\ Position' <= Cardinality(remote')
    <3>1. ~moved' /\ last
      BY <1>1, <1>4, <2>3 DEF InStep, Positional
    <3>2. PICK k \in Keys : new = remote \cup {k} /\ k \notin remote /\ \A j \in remote : j < k
      BY <3>1
    <3>3. remote \in SUBSET Nat /\ IsFiniteSet(remote) /\ Position \in Nat /\ k \in Nat
      BY <1>0, ListTypes, ListingAssumption
    <3>4. listing.found = Passed \ LeftOut /\ Position <= Cardinality(remote)
      BY <2>1, <2>3 DEF InPlace
    <3>5. Position' = Position /\ LeftOut' = LeftOut
      BY <1>1 DEF Position, LeftOut
    <3>6. Slice(new, 0, Position) = Slice(remote, 0, Position)
      BY <3>2, <3>3, <3>4, SliceAppended
    <3>7. Passed' = Passed
      BY <1>1, <3>5, <3>6 DEF Passed
    <3>8. Cardinality(remote) \in Nat /\ Cardinality(new) = Cardinality(remote) + 1
      BY <3>2, <3>3, FS_AddElement, FS_CardinalityType
    <3> QED BY <1>1, <3>3, <3>4, <3>5, <3>7, <3>8
  <2>4. style' = style /\ listing' = listing /\ known' \subseteq known
    BY <1>1
  <2>5. (Positional' <=> Positional)
    BY <1>1 DEF Positional
  <2> QED BY <2>1, <2>2, <2>3, <2>4, <2>5 DEF InPlace
<1>5. ListingComplete'
  <2>1. ListingComplete /\ known' \subseteq known
    BY <1>1 DEF ListInv
  <2> QED BY <1>1, <1>3, <2>1 DEF ListingComplete
<1> QED BY <1>2, <1>4, <1>5 DEF ListInv

LEMMA BeginInv == ListInv /\ BeginListing => ListInv'
<1> SUFFICES ASSUME ListInv, BeginListing PROVE ListInv'
  OBVIOUS
<1>0. ListTypeOK
  BY DEF ListInv
<1>1. /\ listing' = [NoList EXCEPT !.at = "first"] /\ known' = remote /\ moved' = FALSE
      /\ style' = style /\ served' = served /\ remote' = remote
  BY DEF BeginListing
<1>2. /\ listing'.at = "first" /\ listing'.found = {} /\ listing'.count = 0 /\ listing'.page = 1
      /\ listing'.offset = 0 /\ listing'.cursor = 0
  BY <1>1 DEF NoList
<1>3. listing' \in List
  BY <1>1 DEF NoList, List
<1>4. ListTypeOK' /\ known' \subseteq remote'
  BY <1>0, <1>1, <1>3 DEF ListTypeOK
<1>5. Counted'
  BY <1>1, <1>2, FS_EmptySet, ListingAssumption DEF Counted
<1>6. InPlace'
  <2>1. /\ remote \in SUBSET Nat /\ IsFiniteSet(remote) /\ served \in Nat /\ Cardinality(remote) \in Nat
        /\ \A k \in remote : k \in Nat /\ k # 0
    BY <1>0, ListTypes, ListingAssumption, FS_CardinalityType DEF ListTypeOK
  <2>2. Position' = 0
    <3>1. (1 - 1) * served = 0
      BY <2>1
    <3> QED BY <1>1, <1>2, <3>1 DEF Position
  <2>3. Slice(remote, 0, 0) = {}
    <3>1. /\ Slice(remote, 0, 0) \in SUBSET remote
          /\ \A x \in remote : x \in Slice(remote, 0, 0) <=> 0 <= Place(remote, x) /\ Place(remote, x) < 0 + 0
      BY <2>1, SliceMember
    <3>2. \A x \in remote : Place(remote, x) \in Nat
      BY <2>1, PlaceBounds
    <3>3. \A x \in remote : ~(0 <= Place(remote, x) /\ Place(remote, x) < 0 + 0)
      BY <3>2
    <3> QED BY <3>1, <3>3
  <2>4. Passed' = {}
    BY <1>1, <2>2, <2>3 DEF Passed
  <2>5. \A k \in known' : ~(k <= 0)
    BY <1>1, <2>1
  <2> QED BY <1>1, <1>2, <2>1, <2>2, <2>4, <2>5 DEF InPlace
<1>7. ListingComplete'
  BY <1>2 DEF ListingComplete
<1> QED BY <1>4, <1>5, <1>6, <1>7 DEF ListInv

\* A page that is asked for again is asked for at the same place.
LEMMA AskedAgainInv == ListInv /\ (RateLimited \/ TokenExpired \/ ListingFails) => ListInv'
<1> SUFFICES ASSUME ListInv, RateLimited \/ TokenExpired \/ ListingFails PROVE ListInv'
  OBVIOUS
<1>0. ListTypeOK /\ listing \in List /\ known \subseteq remote
  BY DEF ListInv, ListTypeOK
<1>1. CASE ListingFails
  <2>1. /\ listing' = [NoList EXCEPT !.at = "failed"]
        /\ UNCHANGED <<style, served, remote, known, moved>>
    BY <1>1 DEF ListingFails, ListStep
  <2>2. listing' \in List /\ listing'.at = "failed"
    BY <2>1 DEF NoList, List
  <2> QED BY <1>0, <2>1, <2>2 DEF ListInv, ListTypeOK, Asking, ListingComplete
<1>2. CASE RateLimited \/ TokenExpired
  <2>1. PICK at \in {"limited", "expired"} : listing' = [listing EXCEPT !.at = at]
    BY <1>2 DEF RateLimited, TokenExpired, ListStep
  <2>2. Asking /\ UNCHANGED <<style, served, remote, known, moved>>
    BY <1>2 DEF RateLimited, TokenExpired, ListStep, Asking
  <2>3. /\ listing' \in List /\ listing'.at \in {"limited", "expired"}
        /\ listing'.found = listing.found /\ listing'.count = listing.count
        /\ listing'.page = listing.page /\ listing'.offset = listing.offset
        /\ listing'.cursor = listing.cursor
    BY <1>0, <2>1 DEF List
  <2>4. ListTypeOK' /\ known' \subseteq remote' /\ (InStep' <=> InStep) /\ ListingComplete'
    BY <1>0, <2>2, <2>3 DEF ListTypeOK, InStep, ListingComplete
  <2>5. Position' = Position /\ (Counted' <=> Counted)
    BY <2>2, <2>3 DEF Position, Counted
  <2>6. Passed' = Passed /\ LeftOut' = LeftOut
    BY <2>2, <2>5 DEF Passed, LeftOut
  <2>7. InPlace' <=> InPlace
    BY <2>2, <2>3, <2>5, <2>6 DEF InPlace, Positional
  <2> QED BY <2>2, <2>4, <2>5, <2>7 DEF ListInv
<1> QED BY <1>1, <1>2

LEMMA ListNextInv == ListInv /\ [ListNext]_listVars => ListInv'
<1> SUFFICES ASSUME ListInv, [ListNext]_listVars PROVE ListInv'
  OBVIOUS
<1>0. remote \in SUBSET Keys
  BY DEF ListInv, ListTypeOK
<1>1. ASSUME NEW k \in Keys, AddRecord(k) PROVE ListInv'
  <2> DEFINE last == \A j \in remote : j < k
             new  == remote \cup {k}
  <2>1. k \notin remote /\ Change(new, last) /\ last \in BOOLEAN /\ new \in SUBSET Keys
    BY <1>0, <1>1 DEF AddRecord
  <2>2. last => \E x \in Keys : new = remote \cup {x} /\ x \notin remote /\ \A j \in remote : j < x
    BY <2>1
  <2> HIDE DEF last, new
  <2> QED BY <2>1, <2>2, ChangeInv
<1>2. ASSUME NEW k \in Keys, RemoveRecord(k) PROVE ListInv'
  <2> DEFINE new == remote \ {k}
  <2>1. Change(new, FALSE) /\ new \in SUBSET Keys
    BY <1>0, <1>2 DEF RemoveRecord
  <2> HIDE DEF new
  <2> QED BY <2>1, ChangeInv
<1>3. CASE UNCHANGED listVars
  <2>1. Position' = Position
    BY <1>3 DEF listVars, Position
  <2>2. Passed' = Passed
    BY <1>3, <2>1 DEF listVars, Passed
  <2> QED BY <1>3, <2>1, <2>2 DEF listVars, ListInv, ListTypeOK, Asking, InStep, Counted, InPlace,
                                   Positional, LeftOut, ListingComplete
<1> QED BY <1>1, <1>2, <1>3, BeginInv, AskedAgainInv, EndsInv, NextPageInv DEF ListNext

-------------------------------------------------------------------------------
\* Whatever source it is, the drop folder keeps its invariant.
LEMMA DropInvHolds == Spec => []DropInv
<1>1. Init => DropInv
  <2> SUFFICES ASSUME Init PROVE DropInv
    OBVIOUS
  <2> USE DEF Init, DropInit
  <2>1. DropTypeOK
    BY DropAssumption, DropRecords DEF DropTypeOK
  <2>2. \A r \in Runs : drops[r].at = "idle" /\ drops[r].pending = {}
    BY DropRecords
  <2>3. ReadIsThere /\ IndexedIsCovered
    BY <2>2 DEF ReadIsThere, IndexedIsCovered
  <2>4. ArchivedHasDocument
    BY ProcessedAlt
  <2> QED BY <2>1, <2>3, <2>4 DEF DropInv
<1>2. DropInv /\ [Next]_vars => DropInv'
  BY DropNextInv DEF Next, vars
<1> QED BY <1>1, <1>2, PTL DEF Spec

\* The variables of the drop folder keep their types.
THEOREM DropTypeCorrect == Spec => []DropTypeOK
<1>1. DropInv => DropTypeOK
  BY DEF DropInv
<1> QED BY <1>1, DropInvHolds, PTL

\* What _ingest_manual_drop_source has moved to the archive has a document, or is
\* about to have one, unless its run failed afterwards or staff replaced the file.
THEOREM ArchivedHolds == Spec => []ArchivedHasDocument
<1>1. DropInv => ArchivedHasDocument
  BY DEF DropInv
<1> QED BY <1>1, DropInvHolds, PTL

\* Whatever source it is, a listing keeps its invariant.
LEMMA ListInvHolds == Spec => []ListInv
<1>1. Init => ListInv
  <2> SUFFICES ASSUME Init PROVE ListInv
    OBVIOUS
  <2> USE DEF Init, ListInit
  <2>1. listing \in List /\ listing.at = "idle"
    BY DEF NoList, List
  <2>2. ListTypeOK /\ known \subseteq remote
    BY <2>1 DEF ListTypeOK
  <2> QED BY <2>1, <2>2 DEF ListInv, Asking, ListingComplete
<1>2. ListInv /\ [Next]_vars => ListInv'
  BY ListNextInv DEF Next, vars
<1> QED BY <1>1, <1>2, PTL DEF Spec

\* discover() that ends well has each record once, no more than max_records, and
\* every record that was in the source all the time, for any keys and page size.
THEOREM ListingHolds == Spec => []ListingComplete
<1>1. ListInv => ListingComplete
  BY DEF ListInv
<1> QED BY <1>1, ListInvHolds, PTL

\* All variables keep their types.
THEOREM IntakeTypeCorrect == Spec => []TypeOK
<1>1. Init => source_type \in SourceType
  BY DEF Init
<1>2. source_type \in SourceType /\ [Next]_vars => (source_type \in SourceType)'
  BY DEF Next, vars
<1>3. DropInv /\ ListInv /\ source_type \in SourceType => TypeOK
  BY DEF TypeOK, DropInv, ListInv
<1> QED BY <1>1, <1>2, <1>3, DropInvHolds, ListInvHolds, PTL DEF Spec
===============================================================================
