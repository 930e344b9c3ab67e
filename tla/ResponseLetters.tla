---------------------------- MODULE ResponseLetters ---------------------------
(***************************************************************************)
(* Letters in answer to one request.  Drafting one takes a language model  *)
(* up to two minutes, and falls back on a template; staff then edit it and *)
(* set its status, of which only "approved" asks for a reviewer.           *)
(***************************************************************************)
EXTENDS StaffCalls

CONSTANTS
  Officers,  \* users that may call these endpoints
  Approvers  \* those of them that are reviewers or administrators

NoOne == "no one"

ASSUME LettersAssumption == Approvers \subseteq Officers /\ NoOne \notin Officers

VARIABLES
  letters,    \* response_letters rows, by the call that generated them
  drafts,     \* number of the generation in progress, 0 if there is none
  updates,    \* updates in progress
  approvals,  \* "response_approved" entries of the timeline; auxiliary: their letter
  disputed    \* auxiliary: letters on which two updates have overlapped

letterVars == <<letters, drafts, updates, approvals, disputed>>

\* edited: number of the update whose text it has, 0 for the generated one.
Letter   == [status : {"absent", "draft", "approved", "sent"},
             approvedBy : Officers \cup {NoOne}, sent : BOOLEAN, edited : Number \cup {0}]
NoLetter == [status |-> "absent", approvedBy |-> NoOne, sent |-> FALSE, edited |-> 0]
Draft    == [NoLetter EXCEPT !.status = "draft"]
Approval == [call : Number, letter : Number, by : Approvers]

Update   == [number : Number \cup {0}, letter : Number \cup {0}, by : Officers \cup {NoOne},
             status : {"draft", "approved", "sent", "unset"}, edits : BOOLEAN, seen : Letter]
NoUpdate == [number |-> 0, letter |-> 0, by |-> NoOne, status |-> "unset", edits |-> FALSE,
             seen |-> NoLetter]

LetterInit ==
  /\ letters = [n \in Number |-> NoLetter]
  /\ drafts = [w \in Workers |-> 0]
  /\ updates = [w \in Workers |-> NoUpdate]
  /\ approvals = {}
  /\ disputed = {}

-------------------------------------------------------------------------------
(* POST /requests/{id}/response-letter                                       *)

BeginDraft(w) ==
  /\ drafts[w] = 0
  /\ BeginCall
  /\ drafts' = [drafts EXCEPT ![w] = begun + 1]
  /\ UNCHANGED <<letters, updates, approvals, disputed>>

\* With the model's text, or the template's when it gave none.
CommitDraft(w) ==
  /\ drafts[w] # 0
  /\ letters' = [letters EXCEPT ![drafts[w]] = Draft]
  /\ drafts' = [drafts EXCEPT ![w] = 0]
  /\ UNCHANGED <<updates, approvals, disputed, begun>>

AbandonDraft(w) ==
  /\ drafts[w] # 0
  /\ drafts' = [drafts EXCEPT ![w] = 0]
  /\ UNCHANGED <<letters, updates, approvals, disputed, begun>>

-------------------------------------------------------------------------------
(* PATCH /requests/{id}/response-letter/{letter_id}                          *)

\* Any status can follow any other.
BeginLetterUpdate(w, n, user, status, edits) ==
  /\ updates[w] = NoUpdate /\ letters[n].status # "absent"
  /\ status = "approved" => user \in Approvers
  /\ BeginCall
  /\ updates' = [updates EXCEPT ![w] = [number |-> begun + 1, letter |-> n, by |-> user,
                   status |-> status, edits |-> edits, seen |-> letters[n]]]
  /\ disputed' = IF \E v \in Workers : updates[v].letter = n THEN disputed \cup {n} ELSE disputed
  /\ UNCHANGED <<letters, drafts, approvals>>

\* Mutant: a letter keeps the first user who approved it.
ApproverKept(w) ==
  /\ updates[w] # NoUpdate
  /\ LET u == updates[w]  now == letters[u.letter]
     IN  /\ letters' = [letters EXCEPT ![u.letter] =
              [status     |-> IF u.status = "unset" THEN now.status ELSE u.status,
               approvedBy |-> IF u.status = "approved" /\ now.approvedBy = NoOne THEN u.by
                              ELSE now.approvedBy,
               sent       |-> now.sent \/ u.status = "sent",
               edited     |-> IF u.edits THEN u.number ELSE now.edited]]
         /\ approvals' = IF u.status = "approved"
                         THEN approvals \cup {[call |-> u.number, letter |-> u.letter, by |-> u.by]}
                         ELSE approvals
  /\ updates' = [updates EXCEPT ![w] = NoUpdate]
  /\ UNCHANGED <<drafts, disputed, begun>>

\* The timeline's entry is part of the transaction; an earlier approval is
\* never taken back.
CommitLetterUpdate(w) ==
  /\ updates[w] # NoUpdate
  /\ LET u   == updates[w]
         now == letters[u.letter]
     IN  /\ letters' = [letters EXCEPT ![u.letter] =
              [status     |-> IF u.status = "unset" THEN now.status
                              ELSE Written(now.status, u.seen.status, u.status),
               approvedBy |-> IF u.status = "approved"
                              THEN Written(now.approvedBy, u.seen.approvedBy, u.by)
                              ELSE now.approvedBy,
               sent       |-> now.sent \/ u.status = "sent",
               edited     |-> IF u.edits THEN u.number ELSE now.edited]]
         /\ approvals' = IF u.status = "approved"
                         THEN approvals \cup {[call |-> u.number, letter |-> u.letter, by |-> u.by]}
                         ELSE approvals
  /\ updates' = [updates EXCEPT ![w] = NoUpdate]
  /\ UNCHANGED <<drafts, disputed, begun>>

AbandonLetterUpdate(w) ==
  /\ updates[w] # NoUpdate
  /\ updates' = [updates EXCEPT ![w] = NoUpdate]
  /\ UNCHANGED <<letters, drafts, approvals, disputed, begun>>

LetterNext ==
  \E w \in Workers :
    \/ BeginDraft(w) \/ CommitDraft(w) \/ AbandonDraft(w)
    \/ \E n \in Number, user \in Officers, status \in {"draft", "approved", "sent", "unset"},
          edits \in BOOLEAN : BeginLetterUpdate(w, n, user, status, edits)
    \/ CommitLetterUpdate(w) \/ AbandonLetterUpdate(w)

-------------------------------------------------------------------------------
LetterTypeOK ==
  /\ letters \in [Number -> Letter]
  /\ drafts \in [Workers -> Number \cup {0}]
  /\ updates \in [Workers -> Update]
  /\ approvals \in SUBSET Approval
  /\ disputed \in SUBSET Number

\* A letter that is approved names who approved it, and the name on a letter is
\* that of the last approval on the timeline, unless two updates of the letter
\* have overlapped.
ApprovalIsRecorded ==
  \A n \in Number :
    /\ letters[n].status = "approved" => letters[n].approvedBy \in Approvers
    /\ n \notin disputed =>
         \/ letters[n].approvedBy = NoOne /\ \A a \in approvals : a.letter # n
         \/ \E a \in approvals :
              /\ a.letter = n /\ a.by = letters[n].approvedBy
              /\ \A b \in approvals \ {a} : b.letter = n => b.call < a.call
===============================================================================
