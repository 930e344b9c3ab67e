------------------------------- MODULE CityProfile ----------------------------
(***************************************************************************)
(* The city's profile, which the form creates and edits and the onboarding *)
(* interview fills in answer by answer.  Nothing in the database keeps it  *)
(* to one row, and every call takes the first row that it gets.            *)
(***************************************************************************)
EXTENDS StaffCalls

CONSTANTS
  Fields,  \* DEFAULT_PROFILE_FIELDS: the interview asks for these
  Answers  \* what a field may be told

CityName == "city_name"
Blank    == "blank"

ASSUME ProfileAssumption == CityName \in Fields /\ Blank \notin Answers

VARIABLES
  profiles,  \* city_profile rows, by the number of the call that creates them
  edits,     \* calls in progress
  creating,  \* auxiliary: two calls that found no row were in progress at once
  crossed    \* auxiliary: two calls were in progress at once

profileVars == <<profiles, edits, creating, crossed>>

Value   == Answers \cup {Blank}
Status  == {"not_started", "in_progress", "complete"}
\* by: auxiliary, who wrote last.
Profile == [values : [Fields -> Value], status : Status, by : {"nobody", "form", "interview"}]
NoProfile == [values |-> [f \in Fields |-> Blank], status |-> "not_started", by |-> "nobody"]

\* row: the row that was found, or the one to be inserted if there was none.
Edit == [at : {"idle", "found", "none"}, row : Number \cup {0}, seen : Profile, new : Profile]
NoEdit == [at |-> "idle", row |-> 0, seen |-> NoProfile, new |-> NoProfile]

Rows == {i \in Number : profiles[i].by # "nobody"}

\* compute_onboarding_status, from the fields that are filled.
StatusOf(values) ==
  CASE \A f \in Fields : values[f] = Blank -> "not_started"
    [] \A f \in Fields : values[f] # Blank -> "complete"
    [] OTHER -> "in_progress"

ProfileInit ==
  /\ profiles = [i \in Number |-> NoProfile]
  /\ edits = [w \in Workers |-> NoEdit]
  /\ creating = FALSE
  /\ crossed = FALSE

-------------------------------------------------------------------------------
Begin(w, at, row, new) ==
  /\ edits[w].at = "idle" /\ BeginCall
  /\ edits' = [edits EXCEPT ![w] =
       [at |-> at, row |-> row, new |-> new,
        seen |-> IF at = "found" THEN profiles[row] ELSE NoProfile]]
  /\ crossed' = (crossed \/ \E v \in Workers : edits[v].at # "idle")
  /\ creating' = (creating \/ (at = "none" /\ \E v \in Workers : edits[v].at = "none"))
  /\ UNCHANGED profiles

\* Mutant: POST does not look for a profile first.
SecondProfile(w, values) ==
  /\ values[CityName] # Blank
  /\ Begin(w, "none", begun + 1, [values |-> values, status |-> "complete", by |-> "form"])

\* create_city_profile: complete, whatever is left out.
BeginCreate(w, values) ==
  /\ Rows = {} /\ values[CityName] # Blank
  /\ Begin(w, "none", begun + 1, [values |-> values, status |-> "complete", by |-> "form"])

\* update_city_profile: any fields, and the status too.
BeginEdit(w, i, values, status) ==
  /\ i \in Rows /\ values[CityName] # Blank
  /\ Begin(w, "found", i, [values |-> values, status |-> status, by |-> "form"])

\* Mutant: only the first answer computes the status.
StatusKept(w, i, field, answer) ==
  LET values == [profiles[i].values EXCEPT ![field] = answer] IN
  /\ i \in Rows
  /\ Begin(w, "found", i, [values |-> values, status |-> profiles[i].status, by |-> "interview"])

\* get_next_question with an answer: _persist_answer.
BeginAnswer(w, i, field, answer) ==
  LET values == [profiles[i].values EXCEPT ![field] = answer] IN
  /\ i \in Rows
  /\ Begin(w, "found", i, [values |-> values, status |-> StatusOf(values), by |-> "interview"])

\* Only the name of the city can make the row; any other answer is dropped.
BeginFirstAnswer(w, answer) ==
  LET values == [NoProfile.values EXCEPT ![CityName] = answer] IN
  /\ Rows = {}
  /\ Begin(w, "none", begun + 1,
           [values |-> values, status |-> StatusOf(values), by |-> "interview"])

\* The columns that differ from what was loaded, or all of those of a new row.
CommitEdit(w) ==
  LET call == edits[w]
      now  == profiles[call.row]
  IN
  /\ call.at # "idle"
  /\ profiles' = [profiles EXCEPT ![call.row] =
       [values |-> [f \in Fields |-> Written(now.values[f], call.seen.values[f], call.new.values[f])],
        status |-> Written(now.status, call.seen.status, call.new.status),
        by     |-> call.new.by]]
  /\ edits' = [edits EXCEPT ![w] = NoEdit]
  /\ UNCHANGED <<begun, creating, crossed>>

\* The commit fails, as one without a name must, or the process dies.
AbandonEdit(w) ==
  /\ edits[w].at # "idle"
  /\ edits' = [edits EXCEPT ![w] = NoEdit]
  /\ UNCHANGED <<begun, profiles, creating, crossed>>

ProfileCall(w) ==
  \/ \E values \in [Fields -> Value] :
       \/ BeginCreate(w, values)
       \/ \E i \in Number, status \in Status : BeginEdit(w, i, values, status)
  \/ \E answer \in Answers :
       \/ BeginFirstAnswer(w, answer)
       \/ \E i \in Number, field \in Fields : BeginAnswer(w, i, field, answer)

EndProfileCall(w) == CommitEdit(w) \/ AbandonEdit(w)

-------------------------------------------------------------------------------
ProfileTypeOK ==
  /\ profiles \in [Number -> Profile]
  /\ edits \in [Workers -> Edit]
  /\ creating \in BOOLEAN
  /\ crossed \in BOOLEAN

\* The deployment has one profile, unless two calls that found none overlapped.
OneProfile == creating \/ \A i, j \in Rows : i = j

\* Once the interview has had the last word, the status tells whether every
\* field is filled, unless calls overlapped: the form leaves the two apart.
OnboardingTold ==
  ~crossed => \A i \in Rows :
    profiles[i].by = "interview" => profiles[i].status = StatusOf(profiles[i].values)
===============================================================================
