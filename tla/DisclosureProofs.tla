---------------------------- MODULE DisclosureProofs ---------------------------
(***************************************************************************)
(* Proofs about Disclosure, for any documents, rules, users and number of  *)
(* calls: the invariants of the flags, those of the letters, and that a    *)
(* step of the one leaves the other's alone.                               *)
(***************************************************************************)
EXTENDS Disclosure, TLAPS

USE CallsAssumption, ExemptionsAssumption, LettersAssumption
    DEF CallsAssumption, ExemptionsAssumption, LettersAssumption

BegunOK == begun \in 0 .. MaxCalls

-------------------------------------------------------------------------------
(* Flags.                                                                    *)

\* Scans and flags bear numbers of calls that have begun; no two scans share one.
ScanNumbers ==
  /\ \A w \in Workers : scans[w].number <= begun /\ (scans[w].number = 0 <=> scans[w].at = "idle")
  /\ \A v, w \in Workers : scans[v].number = scans[w].number /\ scans[v].number # 0 => v = w
  /\ \A i \in Flag : Raised(i) => i[2] <= begun

\* A scan has inserted nothing but, before it asks the model, its rules' flags.
ScanFresh ==
  \A w \in Workers, i \in Flag : Raised(i) /\ i[2] = scans[w].number =>
    scans[w].at = "model" /\ i[1][2] # Llm

ScanWork ==
  \A w \in Workers :
    /\ scans[w].at = "rules" => \A f \in scans[w].adds \cup scans[w].todo : f[2] # Llm
    /\ scans[w].at = "model" => \A f \in scans[w].adds : f[2] = Llm

\* As long as scans take turns, what one has seen to be missing is missing still.
ScansInTurn ==
  ~together =>
    /\ \A v, w \in Workers : Looking(v) /\ Looking(w) => v = w
    /\ \A w \in Workers : Looking(w) => \A f \in scans[w].adds : FlagsOf(f) = {}

\* A review in progress: what it writes is its verdict.
ReviewsSay ==
  /\ \A w \in Workers : reviews[w] # NoReview =>
       /\ reviews[w].flag \in Flag /\ Raised(reviews[w].flag)
       /\ reviews[w].number \in 1 .. begun
       /\ reviews[w].new = verdicts[reviews[w].number]
       /\ reviews[w].new.at = reviews[w].number
       /\ reviews[w].new.status \in Decided
  /\ \A i \in Flag : flags[i].at <= begun

\* The only review of a flag still sees the flag as it read it.
ReviewsInTurn ==
  \A i \in Flag \ contested :
    /\ \A v, w \in Workers : reviews[v].flag = i /\ reviews[w].flag = i => v = w
    /\ \A w \in Workers : reviews[w].flag = i => reviews[w].seen = flags[i]

FlagInv ==
  /\ BegunOK /\ FlagTypeOK
  /\ ScanNumbers /\ ScanFresh /\ ScanWork /\ ScansInTurn /\ FlaggedOnce
  /\ ReviewsSay /\ ReviewsInTurn /\ DecisionIsWhole

LEMMA Records ==
  /\ NoScan \in Scan /\ NoReview \in Review /\ Absent \in Decision /\ Flagged \in Decision
  /\ <<>> \notin Flag
<1>1. NoScan \in Scan
  BY DEF NoScan, Scan, Maybe
<1>2. Absent \in Decision /\ Flagged \in Decision
  BY DEF Absent, Flagged, Decision, Maybe
<1>3. NoReview \in Review
  BY <1>2 DEF NoReview, Review, Maybe
<1>4. <<>> \notin Flag
  BY DEF Flag, Finding
<1> QED BY <1>1, <1>2, <1>3, <1>4

LEMMA FlagInitInv == Init => FlagInv
<1> SUFFICES ASSUME Init PROVE FlagInv
  OBVIOUS
<1> USE DEF Init, FlagInit
<1>1. BegunOK
  BY DEF BegunOK
<1>2. /\ attached \in SUBSET Documents /\ enabled \in SUBSET Rules
      /\ together \in BOOLEAN /\ contested \in SUBSET Flag
  OBVIOUS
<1>3. /\ flags \in [Flag -> Decision] /\ scans \in [Workers -> Scan]
      /\ reviews \in [Workers -> Review] /\ verdicts \in [Number -> Decision]
  BY Records
<1>4. FlagTypeOK
  BY <1>2, <1>3 DEF FlagTypeOK
<1>5. /\ \A w \in Workers : /\ scans[w].number = 0 /\ scans[w].at = "idle"
                            /\ reviews[w] = NoReview /\ reviews[w].flag = <<>>
      /\ \A i \in Flag : flags[i] = Absent /\ ~Raised(i) /\ flags[i].at = 0
  BY DEF NoScan, NoReview, Absent, Raised
<1> QED BY <1>1, <1>4, <1>5, Records
        DEF FlagInv, ScanNumbers, ScanFresh, ScanWork, ScansInTurn, FlaggedOnce, Looking,
            ReviewsSay, ReviewsInTurn, DecisionIsWhole

\* A step of the letters, which may begin a call.
LEMMA FlagFrame ==
  ASSUME FlagInv, UNCHANGED flagVars, begun' \in 0 .. MaxCalls, begun <= begun'
  PROVE  FlagInv'
<1> USE DEF FlagInv, flagVars
<1>1. BegunOK' /\ FlagTypeOK'
  BY DEF BegunOK, FlagTypeOK
<1>2. ScanNumbers'
  <2>1. \A w \in Workers : scans[w].number \in Nat
    BY DEF FlagTypeOK, Scan, Maybe, Number
  <2>2. \A i \in Flag : i[2] \in Nat
    BY DEF Flag, Number
  <2> QED BY <2>1, <2>2 DEF ScanNumbers, Raised, BegunOK
<1>3. ReviewsSay'
  <2>1. \A i \in Flag : flags[i].at \in Nat
    BY DEF FlagTypeOK, Decision, Maybe, Number
  <2> QED BY <2>1 DEF ReviewsSay, Raised, BegunOK
<1>4. ScanFresh' /\ ScanWork' /\ ScansInTurn' /\ FlaggedOnce'
  BY DEF ScanFresh, ScanWork, ScansInTurn, FlaggedOnce, Looking, Raised, FlagsOf
<1>5. ReviewsInTurn' /\ DecisionIsWhole'
  BY DEF ReviewsInTurn, DecisionIsWhole
<1> QED BY <1>1, <1>2, <1>3, <1>4, <1>5

\* A step of a scan that changes no flag and moves one scan on, or ends it.
LEMMA ScanMoveInv ==
  ASSUME FlagInv, NEW w \in Workers, NEW scan \in Scan, ScanStep(w, scan), UNCHANGED flags,
         \/ scan = NoScan
         \/ /\ scan.number = scans[w].number /\ scan.at = scans[w].at /\ scan.at # "idle"
            /\ scan.at = "rules" => \A f \in scan.adds \cup scan.todo : f[2] # Llm
            /\ scan.at = "model" => \A f \in scan.adds : f[2] = Llm
            /\ scan.at = "rules" /\ ~together => \A f \in scan.adds : FlagsOf(f) = {}
  PROVE  FlagInv'
<1> USE DEF FlagInv, ScanStep
<1>1. /\ scans' \in [Workers -> Scan] /\ scans'[w] = scan
      /\ \A v \in Workers \ {w} : scans'[v] = scans[v]
  BY DEF FlagTypeOK
<1>2. NoScan.number = 0 /\ NoScan.at = "idle" /\ NoScan.adds = {} /\ NoScan.todo = {}
  BY DEF NoScan
<1>3. \A i \in Flag : Raised(i)' = Raised(i) /\ i[2] # 0
  BY DEF Raised, Flag, Number
<1>4. BegunOK' /\ FlagTypeOK'
  BY <1>1 DEF BegunOK, FlagTypeOK
<1>5. ScanNumbers'
  BY <1>1, <1>2, <1>3 DEF ScanNumbers, BegunOK
<1>6. ScanFresh'
  BY <1>1, <1>2, <1>3 DEF ScanFresh
<1>7. ScanWork'
  BY <1>1, <1>2 DEF ScanWork
<1>8. ScansInTurn'
  BY <1>1, <1>2, <1>3 DEF ScansInTurn, Looking, FlagsOf
<1>9. FlaggedOnce'
  BY <1>3 DEF FlaggedOnce
<1>10. ReviewsSay' /\ ReviewsInTurn' /\ DecisionIsWhole'
  BY <1>3 DEF ReviewsSay, ReviewsInTurn, DecisionIsWhole
<1> QED BY <1>4, <1>5, <1>6, <1>7, <1>8, <1>9, <1>10

LEMMA BeginScanInv ==
  ASSUME FlagInv, NEW w \in Workers, NEW model \in BOOLEAN, BeginScan(w, model)
  PROVE  FlagInv'
<1> USE DEF FlagInv, BeginScan, BeginCall
<1> DEFINE scan == [NoScan EXCEPT !.number = begun + 1, !.at = "rules", !.docs = attached,
                                  !.model = model]
<1>1. begun + 1 \in Number /\ begun' = begun + 1 /\ begun' \in 0 .. MaxCalls /\ begun \in Nat
  BY DEF BegunOK, Number
<1>2. /\ scan \in Scan /\ scan.number = begun + 1 /\ scan.at = "rules"
      /\ scan.adds = {} /\ scan.todo = {}
  BY <1>1 DEF NoScan, Scan, Maybe, FlagTypeOK
<1>3. /\ scans' \in [Workers -> Scan] /\ scans'[w] = scan
      /\ \A v \in Workers \ {w} : scans'[v] = scans[v]
  BY <1>2 DEF FlagTypeOK
<1> HIDE DEF scan
<1>4. BegunOK' /\ FlagTypeOK'
  BY <1>1, <1>3 DEF BegunOK, FlagTypeOK
<1>5. \A v \in Workers : scans[v].number \in Nat
  BY DEF FlagTypeOK, Scan, Maybe, Number
<1>6. \A i \in Flag : i[2] \in Nat /\ Raised(i)' = Raised(i) /\ flags[i].at \in Nat
  BY DEF Flag, Number, Raised, FlagTypeOK, Decision, Maybe
<1>7. ScanNumbers'
  BY <1>1, <1>2, <1>3, <1>5, <1>6 DEF ScanNumbers
<1>8. ScanFresh'
  BY <1>1, <1>2, <1>3, <1>6 DEF ScanFresh, ScanNumbers
<1>9. ScanWork' /\ ScansInTurn' /\ FlaggedOnce'
  BY <1>2, <1>3, <1>6 DEF ScanWork, ScansInTurn, Looking, FlagsOf, FlaggedOnce
<1>10. ReviewsSay' /\ ReviewsInTurn' /\ DecisionIsWhole'
  BY <1>1, <1>6 DEF ReviewsSay, ReviewsInTurn, DecisionIsWhole
<1> QED BY <1>4, <1>7, <1>8, <1>9, <1>10

LEMMA ScanDocumentInv ==
  ASSUME FlagInv, NEW w \in Workers, NEW d \in Documents, ScanDocument(w, d)
  PROVE  FlagInv'
<1> USE DEF FlagInv
<1> DEFINE new == {<<d, r>> : r \in enabled \cup Builtin}
           scan == [scans[w] EXCEPT !.docs = scans[w].docs \ {d}, !.todo = new]
<1>1. new \in SUBSET Finding /\ \A f \in new : f[2] # Llm
  BY DEF FlagTypeOK, Finding
<1> HIDE DEF new
<1>2. /\ scan \in Scan /\ scan.number = scans[w].number /\ scan.at = "rules"
      /\ scan.adds = scans[w].adds /\ scan.todo = new
  BY <1>1 DEF ScanDocument, Looking, FlagTypeOK, Scan
<1>3. ScanStep(w, scan) /\ UNCHANGED flags /\ scans[w].at = "rules"
  BY DEF ScanDocument, new, Looking
<1> HIDE DEF scan
<1>4. \A f \in scan.adds \cup scan.todo : f[2] # Llm
  BY <1>1, <1>2, <1>3 DEF ScanWork
<1>5. ~together => \A f \in scan.adds : FlagsOf(f) = {}
  BY <1>2, <1>3 DEF ScansInTurn, Looking
<1> QED BY <1>2, <1>3, <1>4, <1>5, ScanMoveInv

LEMMA LookForFlagInv ==
  ASSUME FlagInv, NEW w \in Workers, NEW f \in Finding, LookForFlag(w, f)
  PROVE  FlagInv'
<1> USE DEF FlagInv
<1> DEFINE adds == IF FlagsOf(f) = {} THEN scans[w].adds \cup {f} ELSE scans[w].adds
           scan == [scans[w] EXCEPT !.todo = scans[w].todo \ {f}, !.adds = adds]
<1>1. UNCHANGED flags /\ scans[w].at = "rules" /\ f \in scans[w].todo
  BY DEF LookForFlag, Looking
<1>2. CASE \E i, j \in FlagsOf(f) : i # j
  BY <1>2, <1>1, Records, ScanMoveInv DEF LookForFlag
<1>3. CASE ~\E i, j \in FlagsOf(f) : i # j
  <2>1. ScanStep(w, scan)
    BY <1>3 DEF LookForFlag
  <2>2. adds \in SUBSET Finding /\ \A g \in adds : g \in scans[w].adds \/ (g = f /\ FlagsOf(f) = {})
    BY DEF FlagTypeOK, Scan
  <2> HIDE DEF adds
  <2>3. /\ scan \in Scan /\ scan.number = scans[w].number /\ scan.at = "rules"
        /\ scan.adds = adds /\ scan.todo = scans[w].todo \ {f}
    BY <2>2, <1>1 DEF FlagTypeOK, Scan
  <2> HIDE DEF scan
  <2>4. \A g \in scan.adds \cup scan.todo : g[2] # Llm
    BY <2>2, <2>3, <1>1 DEF ScanWork
  <2>5. ~together => \A g \in scan.adds : FlagsOf(g) = {}
    BY <2>2, <2>3, <1>1 DEF ScansInTurn, Looking
  <2> QED BY <2>1, <2>3, <2>4, <2>5, <1>1, ScanMoveInv
<1> QED BY <1>2, <1>3

LEMMA AskModelInv ==
  ASSUME FlagInv, NEW w \in Workers, NEW d \in Documents, NEW found \in BOOLEAN,
         AskModel(w, d, found)
  PROVE  FlagInv'
<1> USE DEF FlagInv
<1> DEFINE adds == IF found THEN scans[w].adds \cup {<<d, Llm>>} ELSE scans[w].adds
           scan == [scans[w] EXCEPT !.docs = scans[w].docs \ {d}, !.adds = adds]
<1>1. UNCHANGED flags /\ scans[w].at = "model" /\ ScanStep(w, scan)
  BY DEF AskModel
<1>2. adds \in SUBSET Finding /\ \A g \in adds : g \in scans[w].adds \/ g = <<d, Llm>>
  BY DEF FlagTypeOK, Scan, Finding
<1> HIDE DEF adds
<1>3. /\ scan \in Scan /\ scan.number = scans[w].number /\ scan.at = "model" /\ scan.adds = adds
  BY <1>1, <1>2 DEF FlagTypeOK, Scan
<1> HIDE DEF scan
<1>4. \A g \in scan.adds : g[2] = Llm
  BY <1>1, <1>2, <1>3 DEF ScanWork
<1> QED BY <1>1, <1>3, <1>4, ScanMoveInv

\* The commit of a scan's first or second transaction.
LEMMA InsertInv ==
  ASSUME FlagInv, NEW w \in Workers, NEW scan \in Scan, scans[w].at \in {"rules", "model"},
         InsertFlags(w), ScanStep(w, scan),
         \/ scan = NoScan
         \/ /\ scans[w].at = "rules" /\ scan.at = "model"
            /\ scan.number = scans[w].number /\ scan.adds = {}
  PROVE  FlagInv'
<1> USE DEF FlagInv, ScanStep
<1> DEFINE New(i) == i[1] \in scans[w].adds /\ i[2] = scans[w].number
<1>1. /\ scans' \in [Workers -> Scan] /\ scans'[w] = scan
      /\ \A v \in Workers \ {w} : scans'[v] = scans[v]
  BY DEF FlagTypeOK
<1>2. NoScan.number = 0 /\ NoScan.at = "idle" /\ NoScan.adds = {} /\ NoScan.todo = {}
  BY DEF NoScan
<1>3. /\ flags' \in [Flag -> Decision]
      /\ \A i \in Flag : /\ New(i) => flags'[i] = Flagged
                         /\ ~New(i) => flags'[i] = flags[i]
  BY Records DEF InsertFlags, FlagTypeOK
<1>4. \A i \in Flag : Raised(i)' <=> Raised(i) \/ New(i)
  BY <1>3 DEF Raised, Flagged
<1>5. \A i \in Flag : i[2] \in Nat /\ i[2] # 0 /\ i[1] \in Finding
  BY DEF Flag, Number
<1>6. \A i \in Flag : New(i) => ~Raised(i)
  BY DEF ScanFresh, ScanWork
<1>7. BegunOK' /\ FlagTypeOK'
  BY <1>1, <1>3 DEF BegunOK, FlagTypeOK
<1>8. ScanNumbers'
  <2>1. \/ scan.number = 0 /\ scan.at = "idle"
        \/ scan.number = scans[w].number /\ scan.at # "idle"
    BY <1>2
  <2>2. scans[w].number <= begun /\ begun \in Nat /\ begun' = begun /\ scans[w].number # 0
    BY DEF ScanNumbers, BegunOK
  <2>3. \A v \in Workers : /\ scans'[v].number <= begun'
                           /\ (scans'[v].number = 0 <=> scans'[v].at = "idle")
    BY <1>1, <2>1, <2>2 DEF ScanNumbers
  <2>4. \A u, v \in Workers :
          scans'[u].number = scans'[v].number /\ scans'[u].number # 0 => u = v
    BY <1>1, <2>1, <2>2 DEF ScanNumbers
  <2>5. \A i \in Flag : Raised(i)' => i[2] <= begun'
    BY <1>4, <2>2 DEF ScanNumbers
  <2> QED BY <2>3, <2>4, <2>5 DEF ScanNumbers
<1>9. ScanFresh'
  <2> SUFFICES ASSUME NEW v \in Workers, NEW i \in Flag, Raised(i)', i[2] = scans'[v].number
               PROVE  scans'[v].at = "model" /\ i[1][2] # Llm
    BY DEF ScanFresh
  <2>1. CASE v = w
    BY <2>1, <1>1, <1>2, <1>4, <1>5 DEF ScanFresh, ScanWork
  <2>2. CASE v # w
    BY <2>2, <1>1, <1>4, <1>5 DEF ScanFresh, ScanNumbers
  <2> QED BY <2>1, <2>2
<1>10. ScanWork'
  <2>1. scan.at = "model" => scan.adds = {}
    BY <1>2
  <2>2. scan.at # "rules"
    BY <1>2
  <2> QED BY <1>1, <2>1, <2>2 DEF ScanWork
<1>11. ScansInTurn'
  <2> SUFFICES ASSUME ~together
               PROVE  /\ \A u, v \in Workers : Looking(u)' /\ Looking(v)' => u = v
                      /\ \A v \in Workers : Looking(v)' => \A f \in scans'[v].adds : FlagsOf(f)' = {}
    BY DEF ScansInTurn
  <2>1. \A v \in Workers : Looking(v)' => Looking(v) /\ v # w /\ scans'[v] = scans[v]
    BY <1>1, <1>2 DEF Looking
  <2>2. ASSUME NEW v \in Workers, Looking(v)', NEW f \in scans[v].adds, NEW i \in FlagsOf(f)'
        PROVE  FALSE
    <3>1. f[2] # Llm /\ FlagsOf(f) = {} /\ Looking(v) /\ v # w
      BY <2>1, <2>2 DEF ScansInTurn, ScanWork, Looking
    <3>2. i \in Flag /\ i[1] = f /\ New(i)
      BY <2>2, <3>1, <1>4 DEF FlagsOf
    <3>3. scans[w].at = "model"
      BY <3>1 DEF ScansInTurn, Looking
    <3> QED BY <3>1, <3>2, <3>3 DEF ScanWork
  <2> QED BY <2>1, <2>2 DEF ScansInTurn
<1>12. FlaggedOnce'
  <2> SUFFICES ASSUME ~together, NEW i \in Flag, NEW j \in Flag, i[1] = j[1], i[1][2] # Llm,
                      Raised(i)', Raised(j)'
               PROVE  i = j
    BY DEF FlaggedOnce
  <2>1. CASE scans[w].at = "model"
    BY <2>1, <1>4 DEF ScanWork, FlaggedOnce
  <2>2. CASE scans[w].at = "rules"
    <3>1. \A k \in Flag : New(k) => FlagsOf(k[1]) = {}
      BY <2>2 DEF ScansInTurn, Looking
    <3>2. \A k \in Flag : Raised(k) => k \in FlagsOf(k[1])
      BY DEF FlagsOf
    <3>3. New(i) <=> New(j)
      BY <3>1, <3>2, <1>4
    <3>4. CASE New(i)
      BY <3>3, <3>4 DEF Flag
    <3>5. CASE ~New(i)
      BY <3>3, <3>5, <1>4 DEF FlaggedOnce
    <3> QED BY <3>4, <3>5
  <2> QED BY <2>1, <2>2
<1>13. ReviewsSay'
  <2>1. Flagged.at = 0
    BY DEF Flagged
  <2> QED BY <2>1, <1>3, <1>4 DEF ReviewsSay, BegunOK
<1>14. ReviewsInTurn'
  <2>1. \A v \in Workers, i \in Flag : reviews[v].flag = i => ~New(i)
    BY <1>6, Records DEF ReviewsSay, NoReview
  <2> QED BY <2>1, <1>3 DEF ReviewsInTurn
<1>15. DecisionIsWhole'
  BY <1>3 DEF DecisionIsWhole, Flagged
<1> QED BY <1>7, <1>8, <1>9, <1>10, <1>11, <1>12, <1>13, <1>14, <1>15

LEMMA CommitScanInv ==
  ASSUME FlagInv, NEW w \in Workers, CommitScan(w) \/ CommitSuggestions(w)
  PROVE  FlagInv'
<1> USE DEF FlagInv
<1> DEFINE next == [scans[w] EXCEPT !.at = "model", !.docs = attached, !.adds = {}]
<1>1. CASE CommitScan(w)
  <2>1. next \in Scan /\ next.at = "model" /\ next.number = scans[w].number /\ next.adds = {}
    BY DEF FlagTypeOK, Scan
  <2>2. scans[w].at = "rules" /\ InsertFlags(w) /\ (ScanStep(w, next) \/ ScanStep(w, NoScan))
    BY <1>1 DEF CommitScan, Looking
  <2> HIDE DEF next
  <2> QED BY <2>1, <2>2, InsertInv, Records
<1>2. CASE CommitSuggestions(w)
  BY <1>2, InsertInv, Records DEF CommitSuggestions
<1> QED BY <1>1, <1>2

LEMMA BeginReviewInv ==
  ASSUME FlagInv, NEW w \in Workers, NEW i \in Flag, NEW status \in Decided, NEW user \in Staff,
         NEW reasoned \in BOOLEAN, BeginReview(w, i, status, user, reasoned)
  PROVE  FlagInv'
<1> USE DEF FlagInv, BeginCall
<1> DEFINE n == begun + 1
           new == [status |-> status, by |-> user, at |-> n,
                   reason |-> IF reasoned THEN n ELSE 0]
           review == [number |-> n, flag |-> i, new |-> new, seen |-> flags[i]]
<1>1. n \in Number /\ begun' = n /\ begun' \in 0 .. MaxCalls /\ begun \in Nat /\ n = begun + 1
  BY DEF BeginReview, BegunOK, Number
<1>2. reviews' = [reviews EXCEPT ![w] = review] /\ verdicts' = [verdicts EXCEPT ![n] = new]
  BY DEF BeginReview
<1>3. new \in Decision /\ new.at = n /\ new.status = status
  BY <1>1 DEF Decision, Maybe
<1> HIDE DEF new, n
<1>4. /\ review \in Review /\ review.number = n /\ review.flag = i /\ review.new = new
      /\ review.seen = flags[i]
  BY <1>1, <1>3 DEF Review, Maybe, FlagTypeOK
<1> HIDE DEF review
<1>5. /\ reviews' \in [Workers -> Review] /\ reviews'[w] = review
      /\ \A v \in Workers \ {w} : reviews'[v] = reviews[v]
      /\ verdicts' \in [Number -> Decision] /\ verdicts'[n] = new
      /\ \A m \in Number \ {n} : verdicts'[m] = verdicts[m]
  BY <1>1, <1>2, <1>3, <1>4 DEF FlagTypeOK
<1>6. UNCHANGED <<attached, enabled, flags, scans, together>> /\ Raised(i) /\ reviews[w] = NoReview
  BY DEF BeginReview
<1>7. contested' \in SUBSET Flag /\ contested \subseteq contested'
      /\ ((\E v \in Workers : reviews[v].flag = i) => i \in contested')
  BY DEF BeginReview, FlagTypeOK
<1>8. \A j \in Flag : /\ Raised(j)' = Raised(j) /\ j[2] \in Nat /\ flags[j].at \in Nat
                      /\ flags[j].at \in Maybe
  BY <1>6 DEF Raised, Flag, Number, FlagTypeOK, Decision, Maybe
<1>9. BegunOK' /\ FlagTypeOK'
  BY <1>1, <1>5, <1>6, <1>7 DEF BegunOK, FlagTypeOK
<1>10. ScanNumbers'
  <2>1. \A v \in Workers : scans[v].number \in Nat
    BY DEF FlagTypeOK, Scan, Maybe, Number
  <2> QED BY <2>1, <1>1, <1>6, <1>8 DEF ScanNumbers
<1>11. ScanFresh' /\ ScanWork' /\ ScansInTurn' /\ FlaggedOnce'
  BY <1>6, <1>8 DEF ScanFresh, ScanWork, ScansInTurn, FlaggedOnce, Looking, FlagsOf
<1>12. ReviewsSay'
  <2>1. ASSUME NEW v \in Workers, reviews'[v] # NoReview
        PROVE  /\ reviews'[v].flag \in Flag /\ flags'[reviews'[v].flag].status # "absent"
               /\ reviews'[v].number \in 1 .. begun'
               /\ reviews'[v].new = verdicts'[reviews'[v].number]
               /\ reviews'[v].new.at = reviews'[v].number
               /\ reviews'[v].new.status \in Decided
    <3>1. CASE v = w
      <4>1. reviews'[v] = review /\ flags' = flags
        BY <3>1, <1>5, <1>6
      <4>2. review.number = n /\ review.new = verdicts'[n] /\ review.new.at = n
            /\ review.new.status \in Decided /\ review.flag \in Flag /\ n \in 1 .. begun'
        BY <1>1, <1>3, <1>4, <1>5
      <4> QED BY <4>1, <4>2, <1>4, <1>6 DEF Raised
    <3>2. CASE v # w
      <4>1. reviews'[v] = reviews[v] /\ reviews[v].number \in Number \ {n}
        BY <3>2, <2>1, <1>1, <1>5 DEF ReviewsSay, Number
      <4>2. verdicts'[reviews[v].number] = verdicts[reviews[v].number]
        BY <4>1, <1>5
      <4>3. reviews[v].flag \in Flag /\ Raised(reviews[v].flag) /\ reviews[v].number \in 1 .. begun
            /\ reviews[v].new = verdicts[reviews[v].number]
            /\ reviews[v].new.at = reviews[v].number /\ reviews[v].new.status \in Decided
        BY <4>1, <2>1 DEF ReviewsSay
      <4>4. reviews[v].number \in 1 .. begun'
        BY <4>3, <1>1
      <4> QED BY <4>1, <4>2, <4>3, <4>4, <1>6 DEF Raised
    <3> QED BY <3>1, <3>2
  <2>2. \A j \in Flag : flags'[j].at <= begun'
    BY <1>1, <1>6, <1>8 DEF ReviewsSay
  <2> QED BY <2>1, <2>2 DEF ReviewsSay, Raised
<1>13. ReviewsInTurn'
  <2> SUFFICES ASSUME NEW j \in Flag \ contested'
               PROVE  /\ \A u, v \in Workers : reviews'[u].flag = j /\ reviews'[v].flag = j => u = v
                      /\ \A v \in Workers : reviews'[v].flag = j => reviews'[v].seen = flags[j]
    BY <1>6 DEF ReviewsInTurn
  <2>1. j \in Flag \ contested
    BY <1>7
  <2>2. CASE j # i
    BY <2>1, <2>2, <1>4, <1>5 DEF ReviewsInTurn
  <2>3. CASE j = i
    BY <2>3, <1>4, <1>5, <1>7
  <2> QED BY <2>2, <2>3
<1>14. DecisionIsWhole'
  <2>1. \A j \in Flag : flags[j].at # 0 => flags[j].at \in Number \ {n}
    BY <1>1, <1>8 DEF ReviewsSay, Maybe
  <2> QED BY <2>1, <1>5, <1>6, <1>7 DEF DecisionIsWhole
<1> QED BY <1>9, <1>10, <1>11, <1>12, <1>13, <1>14

\* The end of a review that has written, or has not.
LEMMA EndReviewInv ==
  ASSUME FlagInv, NEW w \in Workers, CommitReview(w) \/ AbandonReview(w)
  PROVE  FlagInv'
<1> USE DEF FlagInv
<1> DEFINE i == reviews[w].flag  new == reviews[w].new  seen == reviews[w].seen
           row == [status |-> Written(flags[i].status, seen.status, new.status),
                   by     |-> Written(flags[i].by, seen.by, new.by),
                   reason |-> Written(flags[i].reason, seen.reason, new.reason),
                   at     |-> new.at]
<1>1. /\ UNCHANGED <<attached, enabled, scans, verdicts, together, contested, begun>>
      /\ reviews[w] # NoReview /\ reviews' = [reviews EXCEPT ![w] = NoReview]
  BY DEF CommitReview, AbandonReview
<1>2. i \in Flag /\ Raised(i) /\ new.status \in Decided /\ new.at \in 1 .. begun
      /\ new = verdicts[new.at] /\ new \in Decision /\ seen \in Decision
  BY <1>1 DEF ReviewsSay, FlagTypeOK, Review
<1>3. /\ reviews' \in [Workers -> Review] /\ reviews'[w] = NoReview
      /\ \A v \in Workers \ {w} : reviews'[v] = reviews[v]
  BY <1>1, Records DEF FlagTypeOK
<1>4. row \in Decision /\ row.at = new.at /\ row.status # "absent"
  BY <1>2 DEF Written, Decision, FlagTypeOK, Raised, Decided
<1>5. flags' = flags \/ flags' = [flags EXCEPT ![i] = row]
  BY DEF CommitReview, AbandonReview
<1>6. i \notin contested => row = new
  <2>1. i \notin contested => seen = flags[i]
    BY <1>2 DEF ReviewsInTurn
  <2>2. seen = flags[i] => row = new
    BY <1>2 DEF Written, Decision, FlagTypeOK
  <2> QED BY <2>1, <2>2
<1> HIDE DEF row
<1>7. /\ flags' \in [Flag -> Decision]
      /\ \A j \in Flag : flags'[j] = flags[j] \/ (j = i /\ flags'[j] = row)
  BY <1>2, <1>4, <1>5 DEF FlagTypeOK
<1> HIDE DEF i, new, seen
<1>8. \A j \in Flag : Raised(j)' = Raised(j)
  BY <1>2, <1>4, <1>7 DEF Raised
<1>9. BegunOK' /\ FlagTypeOK'
  BY <1>1, <1>3, <1>7 DEF BegunOK, FlagTypeOK
<1>10. ScanNumbers' /\ ScanFresh' /\ ScanWork' /\ ScansInTurn' /\ FlaggedOnce'
  BY <1>1, <1>8 DEF ScanNumbers, ScanFresh, ScanWork, ScansInTurn, FlaggedOnce, Looking, FlagsOf
<1>11. ReviewsSay'
  BY <1>1, <1>2, <1>3, <1>4, <1>7, <1>8 DEF ReviewsSay
<1>12. ReviewsInTurn'
  <2> SUFFICES ASSUME NEW j \in Flag \ contested
               PROVE  /\ \A u, v \in Workers : reviews'[u].flag = j /\ reviews'[v].flag = j => u = v
                      /\ \A v \in Workers : reviews'[v].flag = j => reviews'[v].seen = flags'[j]
    BY <1>1 DEF ReviewsInTurn
  <2>1. \A v \in Workers : reviews'[v].flag = j => v # w /\ reviews'[v] = reviews[v]
    BY <1>3, Records DEF NoReview
  <2>2. \A v \in Workers : reviews'[v].flag = j => j # i
    BY <2>1 DEF ReviewsInTurn, i
  <2> QED BY <2>1, <2>2, <1>7 DEF ReviewsInTurn
<1>13. DecisionIsWhole'
  BY <1>1, <1>2, <1>4, <1>6, <1>7 DEF DecisionIsWhole
<1> QED BY <1>9, <1>10, <1>11, <1>12, <1>13

LEMMA FlagStepInv == FlagInv /\ FlagNext => FlagInv'
<1> SUFFICES ASSUME FlagInv, FlagNext PROVE FlagInv'
  OBVIOUS
<1>1. CASE ChangeRules \/ ChangeAttachments
  <2>1. UNCHANGED <<flags, scans, reviews, verdicts, together, contested, begun>>
    BY <1>1 DEF ChangeRules, ChangeAttachments
  <2>2. attached' \in SUBSET Documents /\ enabled' \in SUBSET Rules
    BY <1>1 DEF ChangeRules, ChangeAttachments, FlagInv, FlagTypeOK
  <2> QED BY <2>1, <2>2 DEF FlagInv, BegunOK, FlagTypeOK, ScanNumbers, ScanFresh, ScanWork,
        ScansInTurn, FlaggedOnce, ReviewsSay, ReviewsInTurn, DecisionIsWhole, Raised, Looking, FlagsOf
<1>2. ASSUME NEW w \in Workers, AbandonScan(w) PROVE FlagInv'
  BY <1>2, ScanMoveInv, Records DEF AbandonScan
<1> QED BY <1>1, <1>2, BeginScanInv, ScanDocumentInv, LookForFlagInv, CommitScanInv, AskModelInv,
           BeginReviewInv, EndReviewInv
        DEF FlagNext

-------------------------------------------------------------------------------
(* Letters.                                                                  *)

\* Letters, updates and approvals bear numbers of calls that have begun.
LetterNumbers ==
  /\ \A w \in Workers : drafts[w] <= begun
  /\ \A w \in Workers : updates[w] # NoUpdate =>
       /\ updates[w].number \in 1 .. begun
       /\ updates[w].letter \in 1 .. begun
       /\ updates[w].status = "approved" => updates[w].by \in Approvers
  /\ \A n \in Number : letters[n].status # "absent" => n <= begun
  /\ \A a \in approvals : a.call <= begun

\* A letter that is being drafted is not there yet, and nothing concerns it.
DraftsFresh ==
  /\ \A v, w \in Workers : drafts[v] = drafts[w] /\ drafts[v] # 0 => v = w
  /\ \A w \in Workers : drafts[w] # 0 => letters[drafts[w]].status = "absent"
  /\ \A w \in Workers : updates[w] # NoUpdate => letters[updates[w].letter].status # "absent"
  /\ \A n \in Number : letters[n].status = "absent" =>
       letters[n].approvedBy = NoOne /\ \A a \in approvals : a.letter # n

\* An approval is never taken back, so whatever an update has seen approved
\* names an approver still.
ApproversKept ==
  /\ \A n \in Number : letters[n].approvedBy \in Approvers \cup {NoOne}
  /\ \A w \in Workers : updates[w] # NoUpdate /\ updates[w].seen.approvedBy # NoOne =>
       letters[updates[w].letter].approvedBy # NoOne

\* The only update of a letter still sees it as it read it, and began after
\* every approval of it.
UpdatesInTurn ==
  \A n \in Number \ disputed :
    /\ \A v, w \in Workers : updates[v].letter = n /\ updates[w].letter = n => v = w
    /\ \A w \in Workers : updates[w].letter = n =>
         /\ updates[w].seen = letters[n]
         /\ \A a \in approvals : a.letter = n => a.call < updates[w].number

LetterInv ==
  /\ BegunOK /\ LetterTypeOK
  /\ LetterNumbers /\ DraftsFresh /\ ApproversKept /\ UpdatesInTurn /\ ApprovalIsRecorded

LEMMA LetterRecords ==
  /\ NoLetter \in Letter /\ Draft \in Letter /\ NoUpdate \in Update
  /\ NoUpdate.letter = 0 /\ Draft.status = "draft" /\ Draft.approvedBy = NoOne
<1>1. NoLetter \in Letter
  BY DEF NoLetter, Letter
<1>2. Draft \in Letter /\ Draft.status = "draft" /\ Draft.approvedBy = NoOne
  BY DEF Draft, NoLetter, Letter
<1>3. NoUpdate \in Update /\ NoUpdate.letter = 0
  BY <1>1 DEF NoUpdate, Update
<1> QED BY <1>1, <1>2, <1>3

LEMMA LetterInitInv == Init => LetterInv
<1> SUFFICES ASSUME Init PROVE LetterInv
  OBVIOUS
<1> USE DEF Init, LetterInit
<1>1. BegunOK
  BY DEF BegunOK
<1>2. LetterTypeOK
  BY LetterRecords DEF LetterTypeOK
<1>3. \A n \in Number : letters[n].status = "absent" /\ letters[n].approvedBy = NoOne /\ n # 0
  BY DEF NoLetter, Number
<1> QED BY <1>1, <1>2, <1>3, LetterRecords
        DEF LetterInv, LetterNumbers, DraftsFresh, ApproversKept, UpdatesInTurn, ApprovalIsRecorded

LEMMA LetterTypes ==
  ASSUME LetterTypeOK
  PROVE  /\ \A w \in Workers : drafts[w] \in Nat /\ updates[w].number \in Nat
         /\ \A n \in Number : n \in Nat /\ n # 0
         /\ \A a \in approvals : a.call \in Nat
BY DEF LetterTypeOK, Update, Approval, Number

\* A step of the flags, which may begin a call.
LEMMA LetterFrame ==
  ASSUME LetterInv, UNCHANGED letterVars, begun' \in 0 .. MaxCalls, begun <= begun'
  PROVE  LetterInv'
<1> USE DEF LetterInv, letterVars
<1>1. BegunOK' /\ LetterTypeOK'
  BY DEF BegunOK, LetterTypeOK
<1>2. LetterNumbers'
  <2>1. begun \in Nat /\ begun' \in Nat
    BY DEF BegunOK
  <2> QED BY <2>1, LetterTypes DEF LetterNumbers
<1>3. DraftsFresh' /\ ApproversKept' /\ UpdatesInTurn' /\ ApprovalIsRecorded'
  BY DEF DraftsFresh, ApproversKept, UpdatesInTurn, ApprovalIsRecorded
<1> QED BY <1>1, <1>2, <1>3

LEMMA BeginDraftInv ==
  ASSUME LetterInv, NEW w \in Workers, BeginDraft(w) PROVE LetterInv'
<1> USE DEF LetterInv, BeginDraft, BeginCall
<1>1. begun \in Nat /\ begun' = begun + 1 /\ begun' \in 0 .. MaxCalls /\ begun + 1 \in Number
  BY DEF BegunOK, Number
<1>2. /\ drafts' \in [Workers -> Number \cup {0}] /\ drafts'[w] = begun + 1
      /\ \A v \in Workers \ {w} : drafts'[v] = drafts[v]
  BY <1>1 DEF LetterTypeOK
<1>3. BegunOK' /\ LetterTypeOK'
  BY <1>1, <1>2 DEF BegunOK, LetterTypeOK
<1>4. LetterNumbers'
  BY <1>1, <1>2, LetterTypes DEF LetterNumbers
<1>5. DraftsFresh'
  BY <1>1, <1>2, LetterTypes DEF DraftsFresh, LetterNumbers
<1>6. ApproversKept' /\ UpdatesInTurn' /\ ApprovalIsRecorded'
  BY DEF ApproversKept, UpdatesInTurn, ApprovalIsRecorded
<1> QED BY <1>3, <1>4, <1>5, <1>6

LEMMA EndDraftInv ==
  ASSUME LetterInv, NEW w \in Workers, CommitDraft(w) \/ AbandonDraft(w) PROVE LetterInv'
<1> USE DEF LetterInv
<1> DEFINE n == drafts[w]
<1>1. /\ UNCHANGED <<updates, approvals, disputed, begun>> /\ n # 0
      /\ drafts' = [drafts EXCEPT ![w] = 0]
      /\ letters' = letters \/ letters' = [letters EXCEPT ![n] = Draft]
  BY DEF CommitDraft, AbandonDraft
<1>2. n \in Number /\ n <= begun /\ letters[n].status = "absent"
  BY <1>1 DEF LetterTypeOK, LetterNumbers, DraftsFresh
<1>3. /\ drafts' \in [Workers -> Number \cup {0}] /\ drafts'[w] = 0
      /\ \A v \in Workers \ {w} : drafts'[v] = drafts[v]
  BY <1>1 DEF LetterTypeOK
<1>4. /\ letters' \in [Number -> Letter]
      /\ \A m \in Number \ {n} : letters'[m] = letters[m]
      /\ letters'[n] = letters[n] \/ letters'[n] = Draft
  BY <1>1, <1>2, LetterRecords DEF LetterTypeOK
<1>5. letters[n].approvedBy = NoOne /\ \A a \in approvals : a.letter # n
  BY <1>2 DEF DraftsFresh
<1>6. \A v \in Workers : updates[v] # NoUpdate => updates[v].letter \in Number \ {n}
  BY <1>2 DEF DraftsFresh, LetterNumbers, BegunOK, Number
<1>7. \A v \in Workers : updates[v].letter # n
  BY <1>1, <1>6, LetterRecords
<1>8. \A v \in Workers \ {w} : drafts[v] # 0 => drafts[v] \in Number \ {n}
  BY <1>1 DEF DraftsFresh, LetterTypeOK
<1> HIDE DEF n
<1>9. BegunOK' /\ LetterTypeOK'
  BY <1>1, <1>3, <1>4 DEF BegunOK, LetterTypeOK
<1>10. LetterNumbers'
  <2>1. \A v \in Workers : drafts'[v] <= begun
    BY <1>3 DEF LetterNumbers, BegunOK
  <2> QED BY <2>1, <1>1, <1>2, <1>4 DEF LetterNumbers
<1>11. DraftsFresh'
  <2>1. \A u, v \in Workers : drafts'[u] = drafts'[v] /\ drafts'[u] # 0 => u = v
    BY <1>3 DEF DraftsFresh
  <2>2. \A v \in Workers : drafts'[v] # 0 => letters'[drafts'[v]].status = "absent"
    BY <1>3, <1>4, <1>8 DEF DraftsFresh
  <2>3. \A v \in Workers : updates[v] # NoUpdate => letters'[updates[v].letter].status # "absent"
    BY <1>4, <1>6 DEF DraftsFresh
  <2>4. \A m \in Number : letters'[m].status = "absent" =>
          letters'[m].approvedBy = NoOne /\ \A a \in approvals : a.letter # m
    <3> TAKE m \in Number
    <3>1. CASE m = n
      BY <3>1, <1>4, <1>5 DEF Draft, NoLetter
    <3>2. CASE m # n
      BY <3>2, <1>4 DEF DraftsFresh
    <3> QED BY <3>1, <3>2
  <2> QED BY <2>1, <2>2, <2>3, <2>4, <1>1 DEF DraftsFresh
<1>12. ApproversKept'
  BY <1>1, <1>4, <1>5, <1>6, LetterRecords DEF ApproversKept
<1>13. UpdatesInTurn'
  BY <1>1, <1>4, <1>7 DEF UpdatesInTurn
<1>14. ApprovalIsRecorded'
  BY <1>1, <1>2, <1>4, <1>5, LetterRecords DEF ApprovalIsRecorded
<1> QED BY <1>9, <1>10, <1>11, <1>12, <1>13, <1>14

LEMMA BeginLetterUpdateInv ==
  ASSUME LetterInv, NEW w \in Workers, NEW n \in Number, NEW user \in Officers,
         NEW status \in {"draft", "approved", "sent", "unset"}, NEW edits \in BOOLEAN,
         BeginLetterUpdate(w, n, user, status, edits)
  PROVE  LetterInv'
<1> USE DEF LetterInv
<1> DEFINE u == [number |-> begun + 1, letter |-> n, by |-> user, status |-> status,
                 edits |-> edits, seen |-> letters[n]]
<1>1. /\ begun \in Nat /\ begun' = begun + 1 /\ begun' \in 0 .. MaxCalls /\ begun + 1 \in Number
      /\ UNCHANGED <<letters, drafts, approvals>> /\ letters[n].status # "absent"
      /\ status = "approved" => user \in Approvers
      /\ updates' = [updates EXCEPT ![w] = u] /\ updates[w] = NoUpdate
  BY DEF BeginLetterUpdate, BeginCall, BegunOK, Number
<1>2. u \in Update /\ u.number = begun + 1 /\ u.letter = n /\ u.by = user /\ u.status = status
      /\ u.seen = letters[n]
  BY <1>1 DEF Update, LetterTypeOK
<1> HIDE DEF u
<1>3. /\ updates' \in [Workers -> Update] /\ updates'[w] = u
      /\ \A v \in Workers \ {w} : updates'[v] = updates[v]
  BY <1>1, <1>2 DEF LetterTypeOK
<1>4. /\ disputed' \in SUBSET Number /\ disputed \subseteq disputed'
      /\ (\E v \in Workers : updates[v].letter = n) => n \in disputed'
  BY DEF BeginLetterUpdate, LetterTypeOK
<1>5. BegunOK' /\ LetterTypeOK'
  BY <1>1, <1>3, <1>4 DEF BegunOK, LetterTypeOK
<1>6. LetterNumbers'
  <2>1. n \in 1 .. begun
    BY <1>1 DEF LetterNumbers, Number
  <2>2. \A v \in Workers : updates'[v] # NoUpdate =>
          /\ updates'[v].number \in 1 .. begun' /\ updates'[v].letter \in 1 .. begun'
          /\ updates'[v].status = "approved" => updates'[v].by \in Approvers
    BY <1>1, <1>2, <1>3, <2>1 DEF LetterNumbers
  <2> QED BY <2>2, <1>1, LetterTypes DEF LetterNumbers
<1>7. DraftsFresh' /\ ApproversKept'
  BY <1>1, <1>2, <1>3 DEF DraftsFresh, ApproversKept
<1>8. UpdatesInTurn'
  <2> SUFFICES ASSUME NEW m \in Number \ disputed'
               PROVE  /\ \A t, v \in Workers : updates'[t].letter = m /\ updates'[v].letter = m => t = v
                      /\ \A v \in Workers : updates'[v].letter = m =>
                           /\ updates'[v].seen = letters[m]
                           /\ \A a \in approvals : a.letter = m => a.call < updates'[v].number
    BY <1>1 DEF UpdatesInTurn
  <2>1. CASE m # n
    BY <2>1, <1>2, <1>3, <1>4 DEF UpdatesInTurn
  <2>2. CASE m = n
    BY <2>2, <1>1, <1>2, <1>3, <1>4, LetterTypes DEF LetterNumbers
  <2> QED BY <2>1, <2>2
<1>9. ApprovalIsRecorded'
  BY <1>1, <1>4 DEF ApprovalIsRecorded
<1> QED BY <1>5, <1>6, <1>7, <1>8, <1>9

LEMMA AbandonLetterUpdateInv ==
  ASSUME LetterInv, NEW w \in Workers, AbandonLetterUpdate(w) PROVE LetterInv'
<1> USE DEF LetterInv, AbandonLetterUpdate
<1>1. /\ updates' \in [Workers -> Update] /\ updates'[w] = NoUpdate
      /\ \A v \in Workers \ {w} : updates'[v] = updates[v]
  BY LetterRecords DEF LetterTypeOK
<1>2. BegunOK' /\ LetterTypeOK'
  BY <1>1 DEF BegunOK, LetterTypeOK
<1>3. LetterNumbers' /\ DraftsFresh' /\ ApproversKept' /\ ApprovalIsRecorded'
  BY <1>1 DEF LetterNumbers, DraftsFresh, ApproversKept, ApprovalIsRecorded
<1>4. UpdatesInTurn'
  BY <1>1, LetterRecords, LetterTypes DEF UpdatesInTurn
<1> QED BY <1>2, <1>3, <1>4

LEMMA CommitLetterUpdateInv ==
  ASSUME LetterInv, NEW w \in Workers, CommitLetterUpdate(w) PROVE LetterInv'
<1> USE DEF LetterInv
<1> DEFINE u   == updates[w]
           n   == u.letter
           now == letters[n]
           row == [status     |-> IF u.status = "unset" THEN now.status
                                  ELSE Written(now.status, u.seen.status, u.status),
                   approvedBy |-> IF u.status = "approved"
                                  THEN Written(now.approvedBy, u.seen.approvedBy, u.by)
                                  ELSE now.approvedBy,
                   sent       |-> now.sent \/ u.status = "sent",
                   edited     |-> IF u.edits THEN u.number ELSE now.edited]
           entry == [call |-> u.number, letter |-> n, by |-> u.by]
<1>1. /\ u # NoUpdate /\ letters' = [letters EXCEPT ![n] = row]
      /\ approvals' = IF u.status = "approved" THEN approvals \cup {entry} ELSE approvals
      /\ updates' = [updates EXCEPT ![w] = NoUpdate]
      /\ UNCHANGED <<drafts, disputed, begun>>
  BY DEF CommitLetterUpdate
<1>2. /\ u \in Update /\ u.number \in 1 .. begun /\ n \in 1 .. begun /\ begun <= MaxCalls
      /\ u.status = "approved" => u.by \in Approvers
  BY <1>1 DEF LetterTypeOK, LetterNumbers, BegunOK
<1>3. u.number \in Number /\ n \in Number /\ now \in Letter /\ now.status # "absent"
      /\ u.status \in {"draft", "approved", "sent", "unset"}
  BY <1>1, <1>2 DEF Number, LetterTypeOK, DraftsFresh, BegunOK, Update
<1>4. row.status \in {"draft", "approved", "sent"} /\ row.approvedBy \in Approvers \cup {NoOne}
  BY <1>2, <1>3 DEF Written, Letter, ApproversKept
<1>5. row \in Letter
  <2>1. row.sent \in BOOLEAN /\ row.edited \in Number \cup {0}
    BY <1>3 DEF Letter
  <2> QED BY <1>4, <2>1 DEF Letter
<1>6. /\ now.approvedBy # NoOne => row.approvedBy # NoOne
      /\ row.status = "approved" => row.approvedBy \in Approvers
      /\ u.status = "approved" => row.approvedBy # NoOne
      /\ u.status # "approved" => row.approvedBy = now.approvedBy
  <2>1. u.seen.approvedBy # NoOne => now.approvedBy # NoOne
    BY <1>1 DEF ApproversKept
  <2>2. now.status = "approved" => now.approvedBy \in Approvers
    BY <1>3 DEF ApprovalIsRecorded
  <2>3. now.approvedBy \in Approvers \cup {NoOne}
    BY <1>3 DEF ApproversKept
  <2> QED BY <2>1, <2>2, <2>3, <1>2, <1>3 DEF Written
<1>7. n \notin disputed /\ u.status = "approved" => row.approvedBy = u.by
  <2>1. n \notin disputed => u.seen = now
    BY <1>3 DEF UpdatesInTurn
  <2> QED BY <2>1 DEF Written
<1>8. u.status = "approved" => entry \in Approval
  BY <1>2, <1>3 DEF Approval
<1> HIDE DEF row
<1>9. /\ letters' \in [Number -> Letter] /\ letters'[n] = row
      /\ \A m \in Number \ {n} : letters'[m] = letters[m]
  BY <1>1, <1>3, <1>5 DEF LetterTypeOK
<1>10. /\ updates' \in [Workers -> Update] /\ updates'[w] = NoUpdate
       /\ \A v \in Workers \ {w} : updates'[v] = updates[v]
  BY <1>1, LetterRecords DEF LetterTypeOK
<1>11. /\ approvals' \in SUBSET Approval /\ approvals \subseteq approvals'
       /\ \A a \in approvals' : a \in approvals \/ (u.status = "approved" /\ a = entry)
  BY <1>1, <1>8 DEF LetterTypeOK
<1>12. BegunOK' /\ LetterTypeOK'
  BY <1>1, <1>9, <1>10, <1>11 DEF BegunOK, LetterTypeOK
<1>13. LetterNumbers'
  <2>1. \A a \in approvals' : a.call <= begun
    BY <1>2, <1>11 DEF LetterNumbers
  <2>2. \A m \in Number : letters'[m].status # "absent" => m <= begun
    BY <1>2, <1>9 DEF LetterNumbers
  <2> QED BY <2>1, <2>2, <1>1, <1>10 DEF LetterNumbers
<1>14. DraftsFresh'
  <2>1. \A v \in Workers : drafts[v] # 0 => letters'[drafts[v]].status = "absent"
    <3>1. \A v \in Workers : drafts[v] # 0 => drafts[v] \in Number \ {n}
      BY <1>3 DEF DraftsFresh, LetterTypeOK
    <3> QED BY <3>1, <1>9 DEF DraftsFresh
  <2>2. \A v \in Workers : updates'[v] # NoUpdate => letters'[updates'[v].letter].status # "absent"
    <3>1. \A v \in Workers : updates[v] # NoUpdate => updates[v].letter \in Number
      BY DEF LetterNumbers, Number, BegunOK
    <3> QED BY <3>1, <1>4, <1>9, <1>10 DEF DraftsFresh
  <2>3. \A m \in Number : letters'[m].status = "absent" =>
          letters'[m].approvedBy = NoOne /\ \A a \in approvals' : a.letter # m
    BY <1>4, <1>9, <1>11 DEF DraftsFresh
  <2> QED BY <2>1, <2>2, <2>3, <1>1 DEF DraftsFresh
<1>15. ApproversKept'
  <2>1. \A m \in Number : letters'[m].approvedBy \in Approvers \cup {NoOne}
    BY <1>4, <1>9 DEF ApproversKept
  <2>2. \A m \in Number : letters[m].approvedBy # NoOne => letters'[m].approvedBy # NoOne
    BY <1>6, <1>9
  <2>3. \A v \in Workers : updates[v] # NoUpdate => updates[v].letter \in Number
    BY DEF LetterNumbers, Number, BegunOK
  <2> QED BY <2>1, <2>2, <2>3, <1>10 DEF ApproversKept
<1>16. UpdatesInTurn'
  <2> SUFFICES ASSUME NEW m \in Number \ disputed
               PROVE  /\ \A t, v \in Workers : updates'[t].letter = m /\ updates'[v].letter = m => t = v
                      /\ \A v \in Workers : updates'[v].letter = m =>
                           /\ updates'[v].seen = letters'[m]
                           /\ \A a \in approvals' : a.letter = m => a.call < updates'[v].number
    BY <1>1 DEF UpdatesInTurn
  <2>1. \A v \in Workers : updates'[v].letter = m => v # w /\ updates'[v] = updates[v]
    BY <1>10, LetterRecords, LetterTypes
  <2>2. \A v \in Workers : updates'[v].letter = m => m # n
    BY <2>1 DEF UpdatesInTurn
  <2> QED BY <2>1, <2>2, <1>9, <1>11 DEF UpdatesInTurn
<1>17. ApprovalIsRecorded'
  <2> SUFFICES ASSUME NEW m \in Number
               PROVE  /\ letters'[m].status = "approved" => letters'[m].approvedBy \in Approvers
                      /\ m \notin disputed =>
                           \/ letters'[m].approvedBy = NoOne /\ \A a \in approvals' : a.letter # m
                           \/ \E a \in approvals' :
                                /\ a.letter = m /\ a.by = letters'[m].approvedBy
                                /\ \A b \in approvals' \ {a} : b.letter = m => b.call < a.call
    BY <1>1 DEF ApprovalIsRecorded
  <2>1. CASE m # n
    <3>1. \A a \in approvals' : a.letter = m => a \in approvals
      BY <2>1, <1>11
    <3> QED BY <2>1, <3>1, <1>9, <1>11 DEF ApprovalIsRecorded
  <2>2. CASE m = n /\ u.status # "approved"
    BY <2>2, <1>1, <1>6, <1>9 DEF ApprovalIsRecorded
  <2>3. CASE m = n /\ u.status = "approved"
    <3>1. n \notin disputed => \A b \in approvals : b.letter = n => b.call < u.number
      BY <1>3 DEF UpdatesInTurn
    <3>2. entry \in approvals' /\ entry.letter = n /\ entry.by = u.by /\ entry.call = u.number
      BY <2>3, <1>1
    <3>3. \A b \in approvals' \ {entry} : b \in approvals
      BY <1>11
    <3> QED BY <2>3, <3>1, <3>2, <3>3, <1>6, <1>7, <1>9
  <2> QED BY <2>1, <2>2, <2>3
<1> QED BY <1>12, <1>13, <1>14, <1>15, <1>16, <1>17

LEMMA LetterStepInv == LetterInv /\ LetterNext => LetterInv'
BY BeginDraftInv, EndDraftInv, BeginLetterUpdateInv, CommitLetterUpdateInv, AbandonLetterUpdateInv
   DEF LetterNext

-------------------------------------------------------------------------------
(* The two together.                                                         *)

LEMMA NumbersGrow == BegunOK /\ Next => begun' \in 0 .. MaxCalls /\ begun <= begun'
<1> SUFFICES ASSUME BegunOK, Next PROVE begun' = begun \/ BeginCall
  BY DEF BegunOK, BeginCall
<1>1. CASE FlagNext
  BY <1>1 DEF FlagNext, BeginScan, ScanDocument, LookForFlag, CommitScan, AskModel, ScanStep,
              CommitSuggestions, AbandonScan, BeginReview, CommitReview, AbandonReview,
              ChangeRules, ChangeAttachments
<1>2. CASE LetterNext
  BY <1>2 DEF LetterNext, BeginDraft, CommitDraft, AbandonDraft, BeginLetterUpdate,
              CommitLetterUpdate, AbandonLetterUpdate
<1> QED BY <1>1, <1>2 DEF Next

DisclosureInv == FlagInv /\ LetterInv

THEOREM DisclosureInvariant == Spec => []DisclosureInv
<1>1. Init => DisclosureInv
  BY FlagInitInv, LetterInitInv DEF DisclosureInv
<1>2. DisclosureInv /\ [Next]_vars => DisclosureInv'
  <2> SUFFICES ASSUME DisclosureInv, [Next]_vars PROVE DisclosureInv'
    OBVIOUS
  <2>1. BegunOK
    BY DEF DisclosureInv, FlagInv
  <2>2. CASE FlagNext /\ UNCHANGED letterVars
    BY <2>1, <2>2, FlagStepInv, LetterFrame, NumbersGrow DEF DisclosureInv, Next
  <2>3. CASE LetterNext /\ UNCHANGED flagVars
    BY <2>1, <2>3, LetterStepInv, FlagFrame, NumbersGrow DEF DisclosureInv, Next
  <2>4. CASE UNCHANGED vars
    BY <2>1, <2>4, FlagFrame, LetterFrame DEF DisclosureInv, vars, BegunOK
  <2> QED BY <2>2, <2>3, <2>4 DEF Next
<1> QED BY <1>1, <1>2, PTL DEF Spec

\* Every variable of the flags and the letters keeps its type.
THEOREM DisclosureTypeCorrect == Spec => []TypeOK
<1>1. DisclosureInv => TypeOK
  BY DEF DisclosureInv, FlagInv, LetterInv, TypeOK, BegunOK
<1> QED BY <1>1, DisclosureInvariant, PTL

\* A match of a rule has one flag, unless two scans have looked at once.
THEOREM FlaggedOnceHolds == Spec => []FlaggedOnce
<1>1. DisclosureInv => FlaggedOnce
  BY DEF DisclosureInv, FlagInv
<1> QED BY <1>1, DisclosureInvariant, PTL

\* A decision is one review's, unless two of the flag have overlapped.
THEOREM DecisionHolds == Spec => []DecisionIsWhole
<1>1. DisclosureInv => DecisionIsWhole
  BY DEF DisclosureInv, FlagInv
<1> QED BY <1>1, DisclosureInvariant, PTL

\* A letter's approver is the one of the last approval on the timeline.
THEOREM ApprovalHolds == Spec => []ApprovalIsRecorded
<1>1. DisclosureInv => ApprovalIsRecorded
  BY DEF DisclosureInv, LetterInv
<1> QED BY <1>1, DisclosureInvariant, PTL
===============================================================================
