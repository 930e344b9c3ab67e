------------------------------- MODULE Exemptions -----------------------------
(***************************************************************************)
(* Exemption flags of one request.  A scan goes through the documents that *)
(* were attached when it began and inserts in one commit a flag for each   *)
(* match of a rule that has none yet; a second pass asks a language model  *)
(* and inserts whatever it suggests.  Staff decide on flags one by one.    *)
(*                                                                         *)
(* Every rule matches once in every document.                              *)
(***************************************************************************)
EXTENDS StaffCalls

CONSTANTS
  Documents,
  Rules,     \* rules, by category
  Builtin,   \* rules of patterns.py, which cannot be disabled
  Staff      \* users that may call these endpoints

Llm    == "llm"     \* stands for the categories "LLM: ..." that the model makes up
Nobody == "nobody"

ASSUME ExemptionsAssumption == Builtin \subseteq Rules /\ Llm \notin Rules /\ Nobody \notin Staff

VARIABLES
  attached,   \* documents attached to the request
  enabled,    \* rules that are enabled
  flags,      \* exemption_flags rows
  scans,      \* scans in progress
  reviews,    \* reviews in progress
  verdicts,   \* auxiliary: what each review was told to write
  together,   \* auxiliary: two scans have looked for flags at once
  contested   \* auxiliary: flags on which two reviews have overlapped

flagVars == <<attached, enabled, flags, scans, reviews, verdicts, together, contested>>

Finding == Documents \X (Rules \cup {Llm})
Flag    == Finding \X Number       \* by the scan that raised it
Decided == {"reviewed", "accepted", "rejected"}
Maybe   == Number \cup {0}

\* A row; "absent" until a scan inserts it.  reason and at are the numbers of
\* the reviews that gave the reason and wrote last.
Decision == [status : Decided \cup {"absent", "flagged"}, by : Staff \cup {Nobody},
             reason : Maybe, at : Maybe]
Absent   == [status |-> "absent", by |-> Nobody, reason |-> 0, at |-> 0]
Flagged  == [status |-> "flagged", by |-> Nobody, reason |-> 0, at |-> 0]

\* docs: documents still to go through; todo: findings of the present one.
Scan   == [number : Maybe, at : {"idle", "rules", "model"}, docs : SUBSET Documents,
           todo : SUBSET Finding, adds : SUBSET Finding, model : BOOLEAN]
NoScan == [number |-> 0, at |-> "idle", docs |-> {}, todo |-> {}, adds |-> {}, model |-> FALSE]

Review   == [number : Maybe, flag : Flag \cup {<<>>}, new : Decision, seen : Decision]
NoReview == [number |-> 0, flag |-> <<>>, new |-> Absent, seen |-> Absent]

Raised(i) == flags[i].status # "absent"

\* The rows a scan looks for: same chunk, category and text.
FlagsOf(f) == {i \in Flag : i[1] = f /\ Raised(i)}

FlagInit ==
  /\ attached = {}
  /\ enabled = Rules
  /\ flags = [i \in Flag |-> Absent]
  /\ scans = [w \in Workers |-> NoScan]
  /\ reviews = [w \in Workers |-> NoReview]
  /\ verdicts = [n \in Number |-> Absent]
  /\ together = FALSE
  /\ contested = {}

-------------------------------------------------------------------------------
(* POST /exemptions/scan/{request_id}                                        *)

Looking(w) == scans[w].at = "rules"

BeginScan(w, model) ==
  /\ scans[w] = NoScan
  /\ BeginCall
  /\ scans' = [scans EXCEPT ![w] = [NoScan EXCEPT
       !.number = begun + 1, !.at = "rules", !.docs = attached, !.model = model]]
  /\ together' = (together \/ \E v \in Workers \ {w} : Looking(v))
  /\ UNCHANGED <<attached, enabled, flags, reviews, verdicts, contested>>

ScanStep(w, scan) ==
  /\ scans' = [scans EXCEPT ![w] = scan]
  /\ UNCHANGED <<attached, enabled, reviews, verdicts, together, contested, begun>>

\* The rules are selected anew for each chunk.
ScanDocument(w, d) ==
  /\ Looking(w) /\ scans[w].todo = {} /\ d \in scans[w].docs
  /\ ScanStep(w, [scans[w] EXCEPT !.docs = scans[w].docs \ {d},
                                  !.todo = {<<d, r>> : r \in enabled \cup Builtin}])
  /\ UNCHANGED flags

\* Mutant: a match is raised whether or not it has a flag.
RaiseAgain(w, f) ==
  /\ Looking(w) /\ f \in scans[w].todo
  /\ ScanStep(w, [scans[w] EXCEPT !.todo = scans[w].todo \ {f},
                                  !.adds = scans[w].adds \cup {f}])
  /\ UNCHANGED flags

\* scalar_one_or_none: two flags of one match end the scan.
LookForFlag(w, f) ==
  /\ Looking(w) /\ f \in scans[w].todo
  /\ ScanStep(w, IF \E i, j \in FlagsOf(f) : i # j THEN NoScan
                 ELSE [scans[w] EXCEPT
                        !.todo = scans[w].todo \ {f},
                        !.adds = IF FlagsOf(f) = {} THEN scans[w].adds \cup {f}
                                 ELSE scans[w].adds])
  /\ UNCHANGED flags

InsertFlags(w) ==
  flags' = [i \in Flag |-> IF i[1] \in scans[w].adds /\ i[2] = scans[w].number THEN Flagged
                           ELSE flags[i]]

\* The model's pass selects the attached documents again.
CommitScan(w) ==
  /\ Looking(w) /\ scans[w].todo = {} /\ scans[w].docs = {}
  /\ InsertFlags(w)
  /\ ScanStep(w, IF scans[w].model
                 THEN [scans[w] EXCEPT !.at = "model", !.docs = attached, !.adds = {}]
                 ELSE NoScan)

\* The model suggests something, nothing, or cannot be reached.
AskModel(w, d, found) ==
  /\ scans[w].at = "model" /\ d \in scans[w].docs
  /\ ScanStep(w, [scans[w] EXCEPT !.docs = scans[w].docs \ {d},
                    !.adds = IF found THEN scans[w].adds \cup {<<d, Llm>>} ELSE scans[w].adds])
  /\ UNCHANGED flags

CommitSuggestions(w) ==
  /\ scans[w].at = "model" /\ scans[w].docs = {}
  /\ InsertFlags(w)
  /\ ScanStep(w, NoScan)

\* The call dies: what it has not committed is lost.
AbandonScan(w) == scans[w] # NoScan /\ ScanStep(w, NoScan) /\ UNCHANGED flags

-------------------------------------------------------------------------------
(* PATCH /exemptions/flags/{flag_id}                                         *)

\* A flag can be reviewed again; any status but "flagged" can be given.
BeginReview(w, i, status, user, reasoned) ==
  /\ reviews[w] = NoReview /\ Raised(i)
  /\ BeginCall
  /\ LET new == [status |-> status, by |-> user, at |-> begun + 1,
                 reason |-> IF reasoned THEN begun + 1 ELSE 0]
     IN  /\ reviews' = [reviews EXCEPT ![w] =
              [number |-> begun + 1, flag |-> i, new |-> new, seen |-> flags[i]]]
         /\ verdicts' = [verdicts EXCEPT ![begun + 1] = new]
  /\ contested' = IF \E v \in Workers : reviews[v].flag = i THEN contested \cup {i} ELSE contested
  /\ UNCHANGED <<attached, enabled, flags, scans, together>>

\* Mutant: only a flag that has not been decided gets a reviewer.
ReviewerOnce(w) ==
  /\ reviews[w] # NoReview
  /\ LET i == reviews[w].flag
     IN  flags' = [flags EXCEPT ![i] = [reviews[w].new EXCEPT
           !.by = IF flags[i].by = Nobody THEN reviews[w].new.by ELSE flags[i].by]]
  /\ reviews' = [reviews EXCEPT ![w] = NoReview]
  /\ UNCHANGED <<attached, enabled, scans, verdicts, together, contested, begun>>

CommitReview(w) ==
  /\ reviews[w] # NoReview
  /\ LET i == reviews[w].flag  new == reviews[w].new  seen == reviews[w].seen
     IN  flags' = [flags EXCEPT ![i] =
           [status |-> Written(flags[i].status, seen.status, new.status),
            by     |-> Written(flags[i].by, seen.by, new.by),
            reason |-> Written(flags[i].reason, seen.reason, new.reason),
            at     |-> new.at]]
  /\ reviews' = [reviews EXCEPT ![w] = NoReview]
  /\ UNCHANGED <<attached, enabled, scans, verdicts, together, contested, begun>>

AbandonReview(w) ==
  /\ reviews[w] # NoReview
  /\ reviews' = [reviews EXCEPT ![w] = NoReview]
  /\ UNCHANGED <<attached, enabled, flags, scans, verdicts, together, contested, begun>>

-------------------------------------------------------------------------------
\* An administrator creates, enables or disables rules.
ChangeRules ==
  /\ \E r \in Rules \ Builtin : enabled' = enabled \cup {r} \/ enabled' = enabled \ {r}
  /\ UNCHANGED <<attached, flags, scans, reviews, verdicts, together, contested, begun>>

\* Staff attach and remove documents: see RequestWorkflow.
ChangeAttachments ==
  /\ \E d \in Documents : attached' = attached \cup {d} \/ attached' = attached \ {d}
  /\ UNCHANGED <<enabled, flags, scans, reviews, verdicts, together, contested, begun>>

FlagNext ==
  \/ \E w \in Workers :
       \/ \E model \in BOOLEAN : BeginScan(w, model)
       \/ \E d \in Documents : ScanDocument(w, d)
       \/ \E f \in Finding : LookForFlag(w, f)
       \/ CommitScan(w)
       \/ \E d \in Documents, found \in BOOLEAN : AskModel(w, d, found)
       \/ CommitSuggestions(w) \/ AbandonScan(w)
       \/ \E i \in Flag, status \in Decided, user \in Staff, reasoned \in BOOLEAN :
            BeginReview(w, i, status, user, reasoned)
       \/ CommitReview(w) \/ AbandonReview(w)
  \/ ChangeRules \/ ChangeAttachments

-------------------------------------------------------------------------------
FlagTypeOK ==
  /\ attached \in SUBSET Documents
  /\ enabled \in SUBSET Rules
  /\ flags \in [Flag -> Decision]
  /\ scans \in [Workers -> Scan]
  /\ reviews \in [Workers -> Review]
  /\ verdicts \in [Number -> Decision]
  /\ together \in BOOLEAN
  /\ contested \in SUBSET Flag

\* A match of a rule has one flag at most, however often the request is
\* scanned, as long as no two scans look for flags at once: so no scan fails,
\* and a match that staff have rejected is not raised again.
FlaggedOnce ==
  ~together =>
    \A i, j \in Flag : i[1] = j[1] /\ i[1][2] # Llm /\ Raised(i) /\ Raised(j) => i = j

\* The status, the reviewer and the reason on a flag were given by one and the
\* same review, unless two reviews of it have overlapped.
DecisionIsWhole ==
  \A i \in Flag \ contested : flags[i].at # 0 => flags[i] = verdicts[flags[i].at]
===============================================================================
