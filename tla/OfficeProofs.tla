------------------------------ MODULE OfficeProofs ----------------------------
(***************************************************************************)
(* Proofs about Office, for any people, calls, fields, answers and texts.  *)
(***************************************************************************)
EXTENDS Office, TLAPS

\* One update is in progress at most, its caller is an administrator who can
\* sign in, and so is somebody after it; where neither overlapped nor the
\* library's routes were used.
Presides(c) == SignedIn(c) /\ accounts[c].admin

Harmless(w, c) ==
  /\ Presides(c)
  /\ updates[w].target = c =>
       /\ updates[w].new.admin = updates[w].seen.admin
       /\ updates[w].new.active \/ updates[w].new.active = updates[w].seen.active

InTurn(w) ==
  /\ \A v \in Workers : updates[v].at # "idle" => v = w
  /\ updates[w].at = "checked" => Presides(updates[w].caller)
  /\ updates[w].at = "loaded" => \E c \in People : Harmless(w, c)

AccountInv ==
  /\ AccountTypeOK
  /\ AdministratorRemains
  /\ ~overlapped /\ ~bypassed => \A w \in Workers : updates[w].at # "idle" => InTurn(w)

\* A call holds a row that is there, or the number of one that is not; and while
\* calls do not overlap, what it has seen is what is there.
CallInv ==
  \A w \in Workers : edits[w].at # "idle" =>
    /\ edits[w].row \in Number
    /\ edits[w].new.by # "nobody"
    /\ edits[w].at = "found" => edits[w].row \in Rows
    /\ edits[w].at = "none" /\ ~creating =>
         Rows = {} /\ \A v \in Workers : edits[v].at = "none" => v = w
    /\ ~crossed =>
         /\ edits[w].seen = profiles[edits[w].row]
         /\ \A v \in Workers : edits[v].at # "idle" => v = w
         /\ edits[w].new.by = "interview" => edits[w].new.status = StatusOf(edits[w].new.values)

ProfileInv ==
  /\ begun \in 0 .. MaxCalls
  /\ ProfileTypeOK
  /\ \A i \in Number : profiles[i].by = "nobody" => profiles[i] = NoProfile
  /\ CallInv
  /\ OneProfile
  /\ OnboardingTold

\* Of an item whose updates have taken turns, the history holds the row it has
\* and no later version, and an update in progress has seen that row, is the only
\* one, and keeps what the version stands for unless it raises it.
ItemInv(i) ==
  /\ Exists(i) => [item |-> i, row |-> items[i]] \in history
  /\ \A g \in history : g.item = i => Exists(i) /\ g.row.version <= items[i].version
  /\ \A w \in Workers : Revising(w, i) =>
       /\ Exists(i) /\ revisions[w].seen = items[i]
       /\ \A v \in Workers : Revising(v, i) => v = w
       /\ revisions[w].new.version >= items[i].version
       /\ revisions[w].new.version = items[i].version =>
            i \notin RuleItems /\ revisions[w].new.text = items[i].text

TextInv ==
  /\ TextsTypeOK
  /\ \A i \in Items \ raced : ItemInv(i)
  /\ VersionTellsText

-------------------------------------------------------------------------------
(* Accounts.                                                                 *)

LEMMA AccountRecords ==
  /\ NoAccount \in Account /\ NewAccount \in Account
  /\ NewAccount.exists /\ NewAccount.active /\ ~NoAccount.exists
  /\ NoUpdating \in Update /\ NoUpdating.at = "idle"
BY AccountsAssumption DEF NoAccount, NewAccount, Account, NoUpdating, Update

LEMMA GivenRow ==
  ASSUME NEW body \in Body, NEW row \in Account
  PROVE  /\ Given(body, row) \in Account
         /\ "admin" \notin DOMAIN body => Given(body, row).admin = row.admin
         /\ "active" \notin DOMAIN body => Given(body, row).active = row.active
         /\ "active" \in DOMAIN body => Given(body, row).active = body["active"]
<1>1. PICK given \in SUBSET {"admin", "active"} : body \in [given -> BOOLEAN]
  BY DEF Body
<1>2. /\ "admin" \in DOMAIN body => body["admin"] \in BOOLEAN
      /\ "active" \in DOMAIN body => body["active"] \in BOOLEAN
  BY <1>1
<1> QED BY <1>2 DEF Given, Account

LEMMA MergedRow ==
  ASSUME NEW now \in Account, NEW seen \in Account, NEW new \in Account
  PROVE  /\ Merged(now, seen, new) \in Account
         /\ Merged(now, seen, new).exists = now.exists
         /\ Merged(now, seen, new).admin = Written(now.admin, seen.admin, new.admin)
         /\ Merged(now, seen, new).active = Written(now.active, seen.active, new.active)
BY DEF Merged, Written, Account

\* A step that takes nobody's role or account away, and begins no update.
LEMMA KindStepInv ==
  ASSUME AccountInv, UNCHANGED <<updates, overlapped>>, bypassed => bypassed',
         bypassed' \in BOOLEAN, accounts' \in [People -> Account],
         ~bypassed' => \A p \in People :
           SignedIn(p) /\ accounts[p].admin => SignedIn(p)' /\ accounts'[p].admin
  PROVE  AccountInv'
<1>1. AccountTypeOK'
  BY DEF AccountInv, AccountTypeOK
<1>2. AdministratorRemains'
  BY DEF AccountInv, AdministratorRemains
<1>3. ASSUME ~overlapped, ~bypassed', NEW w \in Workers, updates[w].at # "idle"
      PROVE  InTurn(w)'
  <2>1. InTurn(w)
    BY <1>3 DEF AccountInv
  <2>2. updates[w].caller \in People
    BY <1>3 DEF AccountInv, AccountTypeOK, Update
  <2>3. \A c \in People : Presides(c) => Presides(c)'
    BY <1>3 DEF Presides
  <2> QED BY <2>1, <2>2, <2>3 DEF InTurn, Harmless
<1> QED BY <1>1, <1>2, <1>3 DEF AccountInv

LEMMA KindCalls ==
  ASSUME AccountInv,
         \/ \E p \in People, admin \in BOOLEAN : CreateUser(p, admin)
         \/ \E p \in People : RotatePassword(p)
         \/ \E caller, p \in People :
              LibraryDelete(caller, p) \/ \E row \in Account : row.exists /\ LibraryUpdate(caller, p, row)
  PROVE  AccountInv'
<1>1. CASE \E p \in People, admin \in BOOLEAN : CreateUser(p, admin)
  <2>1. PICK p \in People, admin \in BOOLEAN : CreateUser(p, admin)
    BY <1>1
  <2>2. [NewAccount EXCEPT !.admin = admin] \in Account
    BY AccountRecords DEF Account
  <2>3. /\ accounts' \in [People -> Account] /\ ~accounts[p].exists
        /\ \A q \in People \ {p} : accounts'[q] = accounts[q]
    BY <2>1, <2>2 DEF CreateUser, AccountInv, AccountTypeOK
  <2> QED BY <2>1, <2>3, KindStepInv DEF CreateUser, SignedIn, AccountInv, AccountTypeOK
<1>2. CASE \E p \in People : RotatePassword(p)
  <2>1. PICK p \in People : RotatePassword(p)
    BY <1>2
  <2>2. /\ accounts' \in [People -> Account]
        /\ \A q \in People : /\ accounts'[q].exists = accounts[q].exists
                             /\ accounts'[q].active = accounts[q].active
                             /\ accounts'[q].admin = accounts[q].admin
    BY <2>1 DEF RotatePassword, AccountInv, AccountTypeOK, Account
  <2> QED BY <2>1, <2>2, KindStepInv DEF RotatePassword, SignedIn, AccountInv, AccountTypeOK
<1>3. CASE \E caller, p \in People : LibraryDelete(caller, p)
  <2>1. PICK caller \in People, p \in People : LibraryDelete(caller, p)
    BY <1>3
  <2>2. accounts' \in [People -> Account] /\ bypassed'
    BY <2>1, AccountRecords DEF LibraryDelete, AccountInv, AccountTypeOK
  <2> QED BY <2>1, <2>2, KindStepInv DEF LibraryDelete
<1>4. CASE \E caller, p \in People, row \in Account : row.exists /\ LibraryUpdate(caller, p, row)
  <2>1. PICK caller \in People, p \in People, row \in Account : row.exists /\ LibraryUpdate(caller, p, row)
    BY <1>4
  <2>2. /\ accounts' \in [People -> Account] /\ accounts'[p] = row
        /\ \A q \in People \ {p} : accounts'[q] = accounts[q]
        /\ row.admin = accounts[p].admin
        /\ bypassed' \in BOOLEAN /\ (bypassed => bypassed') /\ (~bypassed' => row.active)
    BY <2>1 DEF LibraryUpdate, AccountInv, AccountTypeOK, Account
  <2> QED BY <2>1, <2>2, KindStepInv DEF LibraryUpdate, SignedIn
<1> QED BY <1>1, <1>2, <1>3, <1>4

\* The caller's check: no other update is in progress, if none has overlapped.
LEMMA BeginUpdateInv ==
  ASSUME AccountInv, NEW w \in Workers, NEW caller \in People, BeginUpdateUser(w, caller)
  PROVE  AccountInv'
<1> DEFINE call == [NoUpdating EXCEPT !.at = "checked", !.caller = caller, !.seen = accounts[caller]]
<1>1. call \in Update /\ call.at = "checked" /\ call.caller = caller
  BY AccountRecords DEF Update, AccountInv, AccountTypeOK
<1>2. /\ updates' \in [Workers -> Update] /\ updates'[w] = call
      /\ \A v \in Workers \ {w} : updates'[v] = updates[v]
  BY <1>1 DEF BeginUpdateUser, AccountInv, AccountTypeOK
<1>3. /\ UNCHANGED <<accounts, bypassed>> /\ overlapped' \in BOOLEAN
      /\ overlapped => overlapped'
      /\ ~overlapped' => \A v \in Workers : updates[v].at = "idle"
  BY DEF BeginUpdateUser, AccountInv, AccountTypeOK
<1>4. AccountTypeOK' /\ AdministratorRemains'
  BY <1>2, <1>3 DEF AccountInv, AccountTypeOK, AdministratorRemains, SignedIn
<1>5. Presides(caller)'
  BY <1>3 DEF BeginUpdateUser, MayAdminister, Presides, SignedIn
<1> HIDE DEF call
<1>6. ASSUME ~overlapped', ~bypassed', NEW u \in Workers, updates'[u].at # "idle"
      PROVE  InTurn(u)'
  <2>1. u = w /\ \A v \in Workers \ {w} : updates'[v].at = "idle"
    BY <1>2, <1>3, <1>6
  <2> QED BY <2>1, <1>1, <1>2, <1>5 DEF InTurn
<1> QED BY <1>4, <1>6 DEF AccountInv

\* The target's load: the caller is the administrator whom the update spares.
LEMMA LoadTargetInv ==
  ASSUME AccountInv, NEW w \in Workers, NEW p \in People, NEW body \in Body,
         LoadTarget(w, p, body)
  PROVE  AccountInv'
<1> PICK caller \in People : caller = updates[w].caller
  BY DEF AccountInv, AccountTypeOK, Update
<1> DEFINE row == Loaded(w, p)
<1>1. row \in Account /\ Given(body, row) \in Account /\ updates[w] \in Update
  BY GivenRow DEF Loaded, AccountInv, AccountTypeOK, Update
<1>2. /\ updates' = [updates EXCEPT ![w] =
                      [updates[w] EXCEPT !.at = "loaded", !.target = p,
                                         !.seen = row, !.new = Given(body, row)]]
      /\ updates[w].at = "checked"
      /\ UNCHANGED <<accounts, overlapped, bypassed>>
  BY DEF LoadTarget, Loads, AccountInv, AccountTypeOK
<1>3. caller = p => /\ Given(body, row).admin = row.admin
                    /\ Given(body, row).active \/ Given(body, row).active = row.active
  BY <1>1, GivenRow DEF LoadTarget
<1> HIDE DEF row
<1>4. /\ updates' \in [Workers -> Update]
      /\ \A v \in Workers \ {w} : updates'[v] = updates[v]
      /\ updates'[w].at = "loaded" /\ updates'[w].target = p
      /\ updates'[w].seen = row /\ updates'[w].new = Given(body, row)
  BY <1>1, <1>2 DEF Update, AccountInv, AccountTypeOK
<1>5. AccountTypeOK' /\ AdministratorRemains'
  BY <1>2, <1>4 DEF AccountInv, AccountTypeOK, AdministratorRemains, SignedIn
<1>6. ASSUME ~overlapped', ~bypassed', NEW u \in Workers, updates'[u].at # "idle"
      PROVE  InTurn(u)'
  <2>1. InTurn(w)
    BY <1>2, <1>6 DEF AccountInv
  <2>2. u = w /\ \A v \in Workers : updates'[v].at # "idle" => v = w
    BY <2>1, <1>4, <1>6 DEF InTurn
  <2>3. Presides(caller)'
    BY <2>1, <1>2 DEF InTurn, Presides, SignedIn
  <2>4. Harmless(w, caller)'
    BY <2>3, <1>3, <1>4 DEF Harmless
  <2> QED BY <2>2, <2>3, <2>4, <1>4 DEF InTurn
<1> QED BY <1>5, <1>6 DEF AccountInv

LEMMA EndUpdateInv ==
  ASSUME AccountInv, NEW w \in Workers, CommitUpdateUser(w) \/ AbandonUpdateUser(w)
  PROVE  AccountInv'
<1> DEFINE call == updates[w]
<1>1. /\ updates' \in [Workers -> Update] /\ updates'[w].at = "idle"
      /\ \A v \in Workers \ {w} : updates'[v] = updates[v]
      /\ UNCHANGED <<overlapped, bypassed>> /\ updates[w].at # "idle"
  BY AccountRecords DEF CommitUpdateUser, AbandonUpdateUser, AccountInv, AccountTypeOK
<1>2. CASE AbandonUpdateUser(w)
  <2>1. UNCHANGED accounts
    BY <1>2 DEF AbandonUpdateUser
  <2>2. AccountTypeOK' /\ AdministratorRemains'
    BY <2>1, <1>1 DEF AccountInv, AccountTypeOK, AdministratorRemains, SignedIn
  <2>3. ~overlapped /\ ~bypassed => \A v \in Workers : updates'[v].at = "idle"
    BY <1>1 DEF AccountInv, InTurn
  <2> QED BY <2>2, <2>3, <1>1 DEF AccountInv
<1>3. CASE CommitUpdateUser(w)
  <2> DEFINE row == Merged(accounts[call.target], call.seen, call.new)
  <2>1. /\ call.target \in People /\ call.seen \in Account /\ call.new \in Account
        /\ accounts[call.target] \in Account
    BY DEF AccountInv, AccountTypeOK, Update
  <2>2. /\ row \in Account /\ row.exists = accounts[call.target].exists
        /\ row.admin = Written(accounts[call.target].admin, call.seen.admin, call.new.admin)
        /\ row.active = Written(accounts[call.target].active, call.seen.active, call.new.active)
    BY <2>1, MergedRow
  <2> HIDE DEF row
  <2>3. /\ accounts' \in [People -> Account] /\ accounts'[call.target] = row
        /\ \A q \in People \ {call.target} : accounts'[q] = accounts[q]
    BY <1>3, <2>1, <2>2 DEF CommitUpdateUser, AccountInv, AccountTypeOK, row
  <2>4. AccountTypeOK'
    BY <2>3, <1>1 DEF AccountInv, AccountTypeOK
  <2>5. ~overlapped /\ ~bypassed => \A v \in Workers : updates'[v].at = "idle"
    BY <1>1 DEF AccountInv, InTurn
  <2>6. AdministratorRemains'
    <3> SUFFICES ASSUME ~overlapped, ~bypassed
                 PROVE  \E p \in People : SignedIn(p)' /\ accounts'[p].admin
      BY <1>1 DEF AdministratorRemains
    <3>1. PICK c \in People : Harmless(w, c)
      <4>1. updates[w].at = "loaded" /\ InTurn(w)
        BY <1>1, <1>3 DEF AccountInv, CommitUpdateUser
      <4> QED BY <4>1 DEF InTurn
    <3>2. CASE c # call.target
      BY <3>1, <3>2, <2>3 DEF Harmless, Presides, SignedIn
    <3>3. CASE c = call.target
      <4>1. row.exists /\ row.admin /\ row.active
        BY <3>1, <3>3, <2>2 DEF Harmless, Presides, SignedIn, Written
      <4> QED BY <4>1, <3>3, <2>3 DEF SignedIn
    <3> QED BY <3>2, <3>3
  <2> QED BY <2>4, <2>5, <2>6, <1>1 DEF AccountInv
<1> QED BY <1>2, <1>3

LEMMA AccountNextInv == AccountInv /\ [AccountNext]_accountVars => AccountInv'
<1> SUFFICES ASSUME AccountInv, [AccountNext]_accountVars PROVE AccountInv'
  OBVIOUS
<1>1. CASE AccountNext
  BY <1>1, KindCalls, BeginUpdateInv, LoadTargetInv, EndUpdateInv DEF AccountNext
<1>2. CASE UNCHANGED accountVars
  BY <1>2 DEF accountVars, AccountInv, AccountTypeOK, AdministratorRemains, SignedIn, InTurn,
               Presides, Harmless
<1> QED BY <1>1, <1>2

-------------------------------------------------------------------------------
(* The city's profile.                                                       *)

LEMMA ProfileRecords ==
  /\ NoProfile \in Profile /\ NoProfile.by = "nobody"
  /\ NoEdit \in Edit /\ NoEdit.at = "idle"
  /\ NoProfile.values \in [Fields -> Value]
BY DEF NoProfile, Profile, Status, Value, NoEdit, Edit

LEMMA StatusType == \A values : StatusOf(values) \in Status
BY DEF StatusOf, Status

\* A call begins: with a row that is there, or with the number of a new one.
LEMMA BeginInv ==
  ASSUME ProfileInv, NEW w \in Workers, NEW at \in {"found", "none"}, NEW row, NEW new \in Profile,
         Begin(w, at, row, new), new.by # "nobody",
         at = "found" => row \in Rows,
         at = "none" => Rows = {} /\ row = begun + 1,
         new.by = "interview" => new.status = StatusOf(new.values)
  PROVE  ProfileInv'
<1> USE DEF ProfileInv
<1>1. /\ begun \in Nat /\ begun < MaxCalls /\ begun' \in 0 .. MaxCalls
      /\ begun + 1 \in Number
  BY CallsAssumption DEF Begin, BeginCall, Number
<1>2. row \in Number
  BY <1>1 DEF Rows
<1> DEFINE seen == IF at = "found" THEN profiles[row] ELSE NoProfile
           call == [at |-> at, row |-> row, new |-> new, seen |-> seen]
<1>3. seen \in Profile
  BY <1>2, ProfileRecords DEF ProfileTypeOK
<1>4. seen = profiles[row]
  BY <1>2 DEF Rows
<1>5. /\ call \in Edit /\ call.at = at /\ call.row = row /\ call.new = new /\ call.seen = seen
  BY <1>2, <1>3 DEF Edit
<1>6. UNCHANGED profiles /\ Rows' = Rows /\ edits[w].at = "idle"
  BY DEF Begin, Rows
<1> HIDE DEF seen
<1>7. /\ edits' \in [Workers -> Edit] /\ edits'[w] = call
      /\ \A v \in Workers \ {w} : edits'[v] = edits[v]
  BY <1>5 DEF Begin, ProfileTypeOK, seen
<1> HIDE DEF call
<1>8. /\ creating' \in BOOLEAN /\ crossed' \in BOOLEAN
      /\ (creating => creating') /\ (crossed => crossed')
      /\ ~crossed' => \A v \in Workers : edits[v].at = "idle"
      /\ ~creating' /\ at = "none" => \A v \in Workers : edits[v].at # "none"
  BY DEF Begin, ProfileTypeOK
<1>9. ProfileTypeOK' /\ OneProfile' /\ OnboardingTold'
  BY <1>6, <1>7, <1>8 DEF ProfileTypeOK, OneProfile, OnboardingTold
<1>10. CallInv'
  <2> SUFFICES ASSUME NEW u \in Workers, edits'[u].at # "idle"
               PROVE  /\ edits'[u].row \in Number
                      /\ edits'[u].new.by # "nobody"
                      /\ edits'[u].at = "found" => edits'[u].row \in Rows
                      /\ edits'[u].at = "none" /\ ~creating' =>
                           Rows = {} /\ \A v \in Workers : edits'[v].at = "none" => v = u
                      /\ ~crossed' =>
                           /\ edits'[u].seen = profiles[edits'[u].row]
                           /\ \A v \in Workers : edits'[v].at # "idle" => v = u
                           /\ edits'[u].new.by = "interview" =>
                                edits'[u].new.status = StatusOf(edits'[u].new.values)
    BY <1>6 DEF CallInv
  <2>1. CASE u = w
    BY <2>1, <1>2, <1>4, <1>5, <1>7, <1>8
  <2>2. CASE u # w
    <3>1. edits'[u] = edits[u]
      BY <2>2, <1>7
    <3>2. crossed'
      BY <3>1, <1>8
    <3>3. edits[u].at = "none" /\ ~creating' => at # "none"
      BY <1>8
    <3> QED BY <3>1, <3>2, <3>3, <1>5, <1>7, <1>8 DEF CallInv
  <2> QED BY <2>1, <2>2
<1> QED BY <1>1, <1>6, <1>9, <1>10

LEMMA ProfileCallInv == ASSUME ProfileInv, NEW w \in Workers, ProfileCall(w) PROVE ProfileInv'
<1> DEFINE form(values, status) == [values |-> values, status |-> status, by |-> "form"]
           told(values) == [values |-> values, status |-> StatusOf(values), by |-> "interview"]
<1>1. /\ \A values \in [Fields -> Value], status \in Status :
           /\ form(values, status) \in Profile /\ form(values, status).by = "form"
      /\ \A values \in [Fields -> Value] :
           /\ told(values) \in Profile /\ told(values).by = "interview"
           /\ told(values).status = StatusOf(told(values).values)
      /\ "complete" \in Status
  BY StatusType DEF Profile, Status
<1>2. CASE \E values \in [Fields -> Value] : BeginCreate(w, values)
  <2>1. PICK values \in [Fields -> Value] : Rows = {} /\ Begin(w, "none", begun + 1, form(values, "complete"))
    BY <1>2 DEF BeginCreate
  <2>2. form(values, "complete") \in Profile /\ form(values, "complete").by = "form"
    BY <1>1
  <2> HIDE DEF form
  <2> QED BY <2>1, <2>2, BeginInv
<1>3. CASE \E values \in [Fields -> Value], i \in Number, status \in Status : BeginEdit(w, i, values, status)
  <2>1. PICK values \in [Fields -> Value], i \in Number, status \in Status :
          i \in Rows /\ Begin(w, "found", i, form(values, status))
    BY <1>3 DEF BeginEdit
  <2>2. form(values, status) \in Profile /\ form(values, status).by = "form"
    BY <1>1
  <2> HIDE DEF form
  <2> QED BY <2>1, <2>2, BeginInv
<1>4. ASSUME NEW old \in Profile, NEW field \in Fields, NEW answer \in Answers
      PROVE  [old.values EXCEPT ![field] = answer] \in [Fields -> Value]
  BY DEF Profile, Value
<1>5. CASE \E answer \in Answers : BeginFirstAnswer(w, answer)
  <2>1. PICK answer \in Answers :
          /\ Rows = {}
          /\ Begin(w, "none", begun + 1, told([NoProfile.values EXCEPT ![CityName] = answer]))
    BY <1>5 DEF BeginFirstAnswer
  <2> DEFINE new == told([NoProfile.values EXCEPT ![CityName] = answer])
  <2>2. new \in Profile /\ new.by = "interview" /\ new.status = StatusOf(new.values)
    BY <1>1, <1>4, ProfileRecords, ProfileAssumption
  <2> HIDE DEF new
  <2>3. Begin(w, "none", begun + 1, new)
    BY <2>1 DEF new
  <2> QED BY <2>1, <2>2, <2>3, BeginInv
<1>6. CASE \E answer \in Answers, i \in Number, field \in Fields : BeginAnswer(w, i, field, answer)
  <2>1. PICK answer \in Answers, i \in Number, field \in Fields :
          /\ i \in Rows
          /\ Begin(w, "found", i, told([profiles[i].values EXCEPT ![field] = answer]))
    BY <1>6 DEF BeginAnswer
  <2>2. profiles[i] \in Profile
    BY DEF ProfileInv, ProfileTypeOK
  <2> DEFINE new == told([profiles[i].values EXCEPT ![field] = answer])
  <2>3. new \in Profile /\ new.by = "interview" /\ new.status = StatusOf(new.values)
    BY <1>1, <1>4, <2>2
  <2> HIDE DEF new
  <2>4. Begin(w, "found", i, new)
    BY <2>1 DEF new
  <2> QED BY <2>1, <2>3, <2>4, BeginInv
<1> QED BY <1>2, <1>3, <1>5, <1>6 DEF ProfileCall

LEMMA CommitEditInv == ASSUME ProfileInv, NEW w \in Workers, CommitEdit(w) PROVE ProfileInv'
<1> USE DEF ProfileInv
<1> DEFINE call == edits[w]
           now  == profiles[call.row]
           values == [f \in Fields |-> Written(now.values[f], call.seen.values[f], call.new.values[f])]
           status == Written(now.status, call.seen.status, call.new.status)
           row == [values |-> values, status |-> status, by |-> call.new.by]
<1>1. /\ call \in Edit /\ call.at # "idle" /\ call.row \in Number /\ call.new.by # "nobody"
      /\ call.new \in Profile /\ call.seen \in Profile /\ now \in Profile
  BY DEF CommitEdit, CallInv, ProfileTypeOK, Edit
<1>2. values \in [Fields -> Value] /\ status \in Status
  BY <1>1 DEF Profile, Written
<1>3. row \in Profile /\ row.values = values /\ row.status = status /\ row.by = call.new.by
  BY <1>1, <1>2 DEF Profile
<1>4. call.seen = now => values = call.new.values /\ status = call.new.status
  <2> SUFFICES ASSUME call.seen = now PROVE values = call.new.values /\ status = call.new.status
    OBVIOUS
  <2>1. \A f \in Fields : values[f] = call.new.values[f]
    BY DEF Written
  <2>2. call.new.values \in [Fields -> Value]
    BY <1>1 DEF Profile
  <2> QED BY <2>1, <2>2, <1>2 DEF Written
<1>5. profiles' = [profiles EXCEPT ![call.row] = row]
  BY DEF CommitEdit
<1> HIDE DEF values, status
<1>6. /\ profiles' \in [Number -> Profile] /\ profiles'[call.row] = row
      /\ \A i \in Number \ {call.row} : profiles'[i] = profiles[i]
  BY <1>1, <1>3, <1>5 DEF ProfileTypeOK
<1> HIDE DEF row
<1>7. /\ edits' \in [Workers -> Edit] /\ edits'[w].at = "idle"
      /\ \A v \in Workers \ {w} : edits'[v] = edits[v]
      /\ UNCHANGED <<begun, creating, crossed>>
  BY ProfileRecords DEF CommitEdit, ProfileTypeOK
<1>8. Rows' = Rows \cup {call.row}
  BY <1>1, <1>3, <1>6 DEF Rows
<1>9. ProfileTypeOK' /\ \A i \in Number : profiles'[i].by = "nobody" => profiles'[i] = NoProfile
  BY <1>1, <1>3, <1>6, <1>7 DEF ProfileTypeOK
<1>10. OneProfile'
  <2> SUFFICES ASSUME ~creating PROVE \A i, j \in Rows' : i = j
    BY <1>7 DEF OneProfile
  <2>1. call.at = "found" => call.row \in Rows
    BY <1>1 DEF CallInv
  <2>2. call.at = "none" => Rows = {}
    BY <1>1 DEF CallInv
  <2>3. \A i, j \in Rows : i = j
    BY DEF OneProfile
  <2> QED BY <2>1, <2>2, <2>3, <1>1, <1>8 DEF Edit
<1>11. OnboardingTold'
  <2> SUFFICES ASSUME ~crossed, NEW i \in Rows', profiles'[i].by = "interview"
               PROVE  profiles'[i].status = StatusOf(profiles'[i].values)
    BY <1>7 DEF OnboardingTold
  <2>1. CASE i = call.row
    <3>1. call.seen = now /\ (call.new.by = "interview" => call.new.status = StatusOf(call.new.values))
      BY <1>1 DEF CallInv
    <3> QED BY <2>1, <3>1, <1>3, <1>4, <1>6
  <2>2. CASE i # call.row
    BY <2>2, <1>6, <1>8 DEF OnboardingTold, Rows
  <2> QED BY <2>1, <2>2
<1>12. CallInv'
  <2> SUFFICES ASSUME NEW u \in Workers, edits'[u].at # "idle"
               PROVE  /\ edits'[u].row \in Number
                      /\ edits'[u].new.by # "nobody"
                      /\ edits'[u].at = "found" => edits'[u].row \in Rows'
                      /\ edits'[u].at = "none" /\ ~creating =>
                           Rows' = {} /\ \A v \in Workers : edits'[v].at = "none" => v = u
                      /\ crossed
    BY <1>7 DEF CallInv
  <2>1. u # w /\ edits'[u] = edits[u] /\ crossed
    BY <1>1, <1>7 DEF CallInv
  <2>2. edits[u].at = "none" /\ ~creating => FALSE
    <3> SUFFICES ASSUME edits[u].at = "none", ~creating PROVE FALSE
      OBVIOUS
    <3>1. call.at = "found"
      BY <2>1, <1>1 DEF CallInv, Edit
    <3> QED BY <3>1 DEF CallInv
  <2> QED BY <2>1, <2>2, <1>8 DEF CallInv
<1> QED BY <1>7, <1>9, <1>10, <1>11, <1>12

LEMMA AbandonEditInv == ASSUME ProfileInv, NEW w \in Workers, AbandonEdit(w) PROVE ProfileInv'
<1> USE DEF ProfileInv
<1>1. /\ edits' \in [Workers -> Edit] /\ edits'[w].at = "idle"
      /\ \A v \in Workers \ {w} : edits'[v] = edits[v]
      /\ UNCHANGED <<begun, profiles, creating, crossed>> /\ Rows' = Rows
  BY ProfileRecords DEF AbandonEdit, ProfileTypeOK, Rows
<1>2. ProfileTypeOK' /\ OneProfile' /\ OnboardingTold'
  BY <1>1 DEF ProfileTypeOK, OneProfile, OnboardingTold
<1>3. CallInv'
  BY <1>1 DEF CallInv
<1> QED BY <1>1, <1>2, <1>3

\* Creating an account counts as a call and nothing else.
LEMMA ProfileKept ==
  ASSUME ProfileInv, UNCHANGED profileVars, UNCHANGED begun \/ BeginCall
  PROVE  ProfileInv'
<1>1. begun' \in 0 .. MaxCalls
  BY CallsAssumption DEF ProfileInv, BeginCall
<1>2. Rows' = Rows
  BY DEF profileVars, Rows
<1> QED BY <1>1, <1>2 DEF ProfileInv, profileVars, ProfileTypeOK, CallInv, OneProfile, OnboardingTold

-------------------------------------------------------------------------------
(* Rules and templates.                                                      *)

LEMMA TextRecords ==
  /\ NoText \in Text /\ NoText.version = 0
  /\ SeededText \in Text /\ SeededText.version = 1
  /\ NoRevision \in Revision /\ NoRevision.at = "idle"
<1>1. (CHOOSE i \in Items : TRUE) \in Items
  BY TextsAssumption
<1> QED BY <1>1, TextsAssumption DEF NoText, SeededText, Text, NoRevision, Revision

LEMMA RevisedRow ==
  ASSUME NEW i \in Items, NEW row \in Text, NEW change \in Change
  PROVE  /\ Revised(i, row, change) \in Text
         /\ Revised(i, row, change).version >= row.version
         /\ Revised(i, row, change).version = row.version =>
              i \notin RuleItems /\ Revised(i, row, change).text = row.text
<1>1. PICK given \in SUBSET {"text", "label"} : change \in [given -> Wordings]
  BY DEF Change
<1>2. /\ "text" \in DOMAIN change => change["text"] \in Wordings
      /\ "label" \in DOMAIN change => change["label"] \in Wordings
  BY <1>1
<1> QED BY <1>2 DEF Revised, Text

LEMMA CreateTextInv ==
  ASSUME TextInv, NEW i \in Items, NEW text \in Wordings, NEW label \in Wordings,
         CreateText(i, text, label)
  PROVE  TextInv'
<1> DEFINE row == [text |-> text, label |-> label, version |-> 1]
           entry == [item |-> i, row |-> row]
<1>1. row \in Text /\ row.version = 1
  BY DEF Text
<1>2. items' = [items EXCEPT ![i] = row] /\ UNCHANGED <<revisions, raced>> /\ ~Exists(i)
  BY DEF CreateText
<1> HIDE DEF row
<1>3. /\ items' \in [Items -> Text] /\ items'[i] = row
      /\ \A j \in Items \ {i} : items'[j] = items[j]
  BY <1>1, <1>2 DEF TextInv, TextsTypeOK
<1>4. history' = history \cup {entry}
  BY <1>3 DEF CreateText, Committed
<1>5. entry \in [item : Items, row : Text] /\ entry.item = i /\ entry.row = row
  BY <1>1
<1> HIDE DEF entry
<1>6. TextsTypeOK'
  BY <1>2, <1>3, <1>4, <1>5 DEF TextInv, TextsTypeOK
<1>7. i \notin raced => (\A g \in history : g.item # i) /\ \A w \in Workers : ~Revising(w, i)
  BY <1>2 DEF TextInv, ItemInv
<1>8. ASSUME NEW j \in Items \ raced' PROVE ItemInv(j)'
  <2>1. CASE j = i
    <3>1. [item |-> i, row |-> items'[i]] \in history'
      BY <1>3, <1>4 DEF entry
    <3> QED BY <2>1, <3>1, <1>1, <1>2, <1>3, <1>4, <1>5, <1>7 DEF ItemInv, Exists, Revising
  <2>2. CASE j # i
    BY <2>2, <1>2, <1>3, <1>4, <1>5 DEF TextInv, ItemInv, Exists, Revising
  <2> QED BY <2>1, <2>2
<1>9. VersionTellsText'
  BY <1>2, <1>4, <1>5, <1>7 DEF TextInv, VersionTellsText
<1> QED BY <1>6, <1>8, <1>9 DEF TextInv

LEMMA BeginRevisionInv ==
  ASSUME TextInv, NEW w \in Workers, NEW i \in Items, NEW change \in Change,
         BeginRevision(w, i, change)
  PROVE  TextInv'
<1> DEFINE new == Revised(i, items[i], change)
           call == [at |-> "loaded", item |-> i, seen |-> items[i], new |-> new]
<1>1. /\ items[i] \in Text /\ new \in Text /\ new.version >= items[i].version
      /\ new.version = items[i].version => i \notin RuleItems /\ new.text = items[i].text
  BY RevisedRow DEF TextInv, TextsTypeOK
<1>2. /\ revisions' = [revisions EXCEPT ![w] = call] /\ UNCHANGED <<items, history>>
      /\ Exists(i) /\ revisions[w].at = "idle"
  BY DEF BeginRevision
<1> HIDE DEF new
<1>3. call \in Revision /\ call.at = "loaded" /\ call.item = i /\ call.seen = items[i] /\ call.new = new
  BY <1>1 DEF Revision
<1> HIDE DEF call
<1>4. /\ revisions' \in [Workers -> Revision] /\ revisions'[w] = call
      /\ \A v \in Workers \ {w} : revisions'[v] = revisions[v]
  BY <1>2, <1>3 DEF TextInv, TextsTypeOK
<1>5. /\ raced' \in SUBSET Items /\ raced \subseteq raced'
      /\ i \notin raced' => \A v \in Workers : ~Revising(v, i)
  BY DEF BeginRevision, TextInv, TextsTypeOK
<1>6. TextsTypeOK' /\ VersionTellsText'
  BY <1>2, <1>4, <1>5 DEF TextInv, TextsTypeOK, VersionTellsText
<1>7. ASSUME NEW j \in Items \ raced' PROVE ItemInv(j)'
  <2>1. ItemInv(j)
    BY <1>5 DEF TextInv
  <2>2. CASE j = i
    BY <2>1, <2>2, <1>1, <1>2, <1>3, <1>4, <1>5 DEF ItemInv, Exists, Revising
  <2>3. CASE j # i
    BY <2>1, <2>3, <1>2, <1>3, <1>4 DEF ItemInv, Exists, Revising
  <2> QED BY <2>2, <2>3
<1> QED BY <1>6, <1>7 DEF TextInv

LEMMA CommitRevisionInv == ASSUME TextInv, NEW w \in Workers, CommitRevision(w) PROVE TextInv'
<1> DEFINE call == revisions[w]
           i    == call.item
           now  == items[i]
           row  == [text    |-> Written(now.text, call.seen.text, call.new.text),
                    label   |-> Written(now.label, call.seen.label, call.new.label),
                    version |-> Written(now.version, call.seen.version, call.new.version)]
           entry == [item |-> i, row |-> row]
<1>1. /\ i \in Items /\ now \in Text /\ call.seen \in Text /\ call.new \in Text
      /\ Revising(w, i)
  BY DEF CommitRevision, TextInv, TextsTypeOK, Revision, Revising
<1>2. row \in Text
  BY <1>1 DEF Text, Written
<1>3. call.seen = now => row = call.new
  BY <1>1 DEF Text, Written
<1>4. items' = [items EXCEPT ![i] = row] /\ UNCHANGED raced
      /\ revisions' = [revisions EXCEPT ![w] = NoRevision]
  BY DEF CommitRevision
<1> HIDE DEF row
<1>5. /\ items' \in [Items -> Text] /\ items'[i] = row
      /\ \A j \in Items \ {i} : items'[j] = items[j]
  BY <1>1, <1>2, <1>4 DEF TextInv, TextsTypeOK
<1>6. history' = history \cup {entry}
  BY <1>5 DEF CommitRevision, Committed
<1>7. entry \in [item : Items, row : Text] /\ entry.item = i /\ entry.row = row
  BY <1>1, <1>2
<1> HIDE DEF entry
<1>8. /\ revisions' \in [Workers -> Revision] /\ revisions'[w].at = "idle"
      /\ \A v \in Workers \ {w} : revisions'[v] = revisions[v]
  BY <1>4, TextRecords DEF TextInv, TextsTypeOK
<1>9. TextsTypeOK'
  BY <1>4, <1>5, <1>6, <1>7, <1>8 DEF TextInv, TextsTypeOK
<1>10. ASSUME i \notin raced
       PROVE  /\ now.version > 0 /\ row.version >= now.version
              /\ row.version = now.version => i \notin RuleItems /\ row.text = now.text
              /\ [item |-> i, row |-> now] \in history
              /\ \A g \in history : g.item = i => g.row.version <= now.version
              /\ \A v \in Workers : Revising(v, i) => v = w
  BY <1>1, <1>3, <1>10 DEF TextInv, ItemInv, Exists
<1>11. ASSUME NEW j \in Items \ raced' PROVE ItemInv(j)'
  <2>1. CASE j = i
    <3>1. [item |-> j, row |-> items'[j]] \in history'
      BY <2>1, <1>5, <1>6 DEF entry
    <3>2. now.version \in Nat /\ row.version \in Nat /\ \A g \in history : g.row.version \in Nat
      BY <1>1, <1>2 DEF Text, TextInv, TextsTypeOK
    <3>3. \A v \in Workers : ~(revisions'[v].at = "loaded" /\ revisions'[v].item = j)
      BY <2>1, <1>4, <1>8, <1>10 DEF Revising
    <3>4. \A g \in history' : g.item = j => g.row.version <= items'[j].version
      BY <2>1, <3>2, <1>4, <1>5, <1>6, <1>7, <1>10
    <3>5. items'[j].version > 0
      BY <2>1, <3>2, <1>4, <1>5, <1>10
    <3> QED BY <3>1, <3>3, <3>4, <3>5 DEF ItemInv, Exists, Revising
  <2>2. CASE j # i
    BY <2>2, <1>4, <1>5, <1>6, <1>7, <1>8 DEF TextInv, ItemInv, Exists, Revising
  <2> QED BY <2>1, <2>2
<1>12. VersionTellsText'
  <2>1. ASSUME i \notin raced, NEW g \in history, g.item = i, g.row.version = row.version
        PROVE  g.row.text = row.text /\ i \notin RuleItems
    <3>1. now.version \in Nat /\ row.version \in Nat /\ g.row.version \in Nat
      BY <1>1, <1>2 DEF Text, TextInv, TextsTypeOK
    <3>2. g.row.version = now.version /\ row.version = now.version
      BY <2>1, <3>1, <1>10
    <3>3. g.row.text = now.text
      BY <2>1, <3>2, <1>10 DEF TextInv, VersionTellsText
    <3> QED BY <2>1, <3>2, <3>3, <1>10
  <2> QED BY <2>1, <1>4, <1>6, <1>7 DEF TextInv, VersionTellsText
<1> QED BY <1>9, <1>11, <1>12 DEF TextInv

LEMMA AbandonRevisionInv == ASSUME TextInv, NEW w \in Workers, AbandonRevision(w) PROVE TextInv'
<1>1. /\ revisions' \in [Workers -> Revision] /\ revisions'[w].at = "idle"
      /\ \A v \in Workers \ {w} : revisions'[v] = revisions[v]
      /\ UNCHANGED <<items, history, raced>>
  BY TextRecords DEF AbandonRevision, TextInv, TextsTypeOK
<1>2. TextsTypeOK' /\ VersionTellsText'
  BY <1>1 DEF TextInv, TextsTypeOK, VersionTellsText
<1>3. ASSUME NEW i \in Items \ raced' PROVE ItemInv(i)'
  BY <1>1 DEF TextInv, ItemInv, Exists, Revising
<1> QED BY <1>2, <1>3 DEF TextInv

LEMMA TextsKept == ASSUME TextInv, UNCHANGED textVars PROVE TextInv'
<1>1. \A i \in Items : ItemInv(i) => ItemInv(i)'
  BY DEF textVars, ItemInv, Exists, Revising
<1> QED BY <1>1 DEF textVars, TextInv, TextsTypeOK, VersionTellsText

LEMMA TextStepInv ==
  ASSUME TextInv, NEW w \in Workers, TextCall(w) \/ EndTextCall(w)
  PROVE  TextInv' /\ (UNCHANGED begun \/ BeginCall)
<1>1. CASE TextCall(w)
  BY <1>1, CreateTextInv, BeginRevisionInv DEF TextCall, CreateText, BeginRevision
<1>2. CASE EndTextCall(w)
  BY <1>2, CommitRevisionInv, AbandonRevisionInv DEF EndTextCall, CommitRevision, AbandonRevision
<1> QED BY <1>1, <1>2

LEMMA TextInitInv == Init => TextInv
<1> SUFFICES ASSUME Init PROVE TextInv
  OBVIOUS
<1>0. TextsInit
  BY DEF Init
<1>1. /\ items \in [Items -> Text]
      /\ \A i \in Seeded : items[i].version = 1
      /\ \A i \in Items \ Seeded : items[i].version = 0
  BY <1>0, TextRecords, TextsAssumption DEF TextsInit
<1>2. revisions \in [Workers -> Revision] /\ \A w \in Workers : revisions[w].at = "idle"
  BY <1>0, TextRecords DEF TextsInit
<1>3. /\ history \in SUBSET [item : Items, row : Text]
      /\ \A g \in history : g.item \in Seeded /\ g.row = items[g.item]
      /\ \A i \in Seeded : [item |-> i, row |-> items[i]] \in history
      /\ raced = {}
  BY <1>0, <1>1, TextsAssumption DEF TextsInit
<1>4. TextsTypeOK
  BY <1>1, <1>2, <1>3 DEF TextsTypeOK
<1>5. ASSUME NEW i \in Items PROVE ItemInv(i)
  BY <1>1, <1>2, <1>3 DEF ItemInv, Exists, Revising
<1>6. VersionTellsText
  BY <1>3 DEF VersionTellsText
<1> QED BY <1>4, <1>5, <1>6 DEF TextInv

-------------------------------------------------------------------------------
LEMMA OfficeInvHolds == Spec => [](AccountInv /\ ProfileInv /\ TextInv)
<1>1. Init => AccountInv /\ ProfileInv
  <2> SUFFICES ASSUME Init PROVE AccountInv /\ ProfileInv
    OBVIOUS
  <2> USE DEF Init, AccountInit, ProfileInit
  <2>1. PICK rotate \in BOOLEAN :
          accounts = [p \in People |-> IF p = First
                        THEN [NewAccount EXCEPT !.admin = TRUE, !.superuser = TRUE, !.rotate = rotate]
                        ELSE NoAccount]
    OBVIOUS
  <2>2. /\ accounts \in [People -> Account]
        /\ accounts[First].exists /\ accounts[First].active /\ accounts[First].admin
    BY <2>1, AccountRecords, AccountsAssumption DEF Account, NewAccount, NoAccount
  <2>3. /\ updates \in [Workers -> Update]
        /\ \A w \in Workers : updates[w].at = "idle"
    BY AccountRecords
  <2>4. AccountTypeOK
    BY Zenon, <2>2, <2>3 DEF AccountTypeOK, Init, AccountInit
  <2>5. AdministratorRemains
    <3>1. SignedIn(First) /\ accounts[First].admin
      BY <2>2 DEF SignedIn
    <3> QED BY Zenon, <3>1, AccountsAssumption DEF AdministratorRemains
  <2>6. /\ ProfileTypeOK /\ Rows = {} /\ \A w \in Workers : edits[w].at = "idle"
        /\ begun \in 0 .. MaxCalls
    <3>1. begun \in 0 .. MaxCalls
      BY CallsAssumption
    <3>2. profiles \in [Number -> Profile] /\ Rows = {}
      BY ProfileRecords DEF Rows
    <3>3. edits \in [Workers -> Edit] /\ \A w \in Workers : edits[w].at = "idle"
      BY ProfileRecords
    <3>4. creating = FALSE /\ crossed = FALSE
      OBVIOUS
    <3> QED BY <3>1, <3>2, <3>3, <3>4 DEF ProfileTypeOK
  <2>7. ProfileInv
    BY <2>6 DEF ProfileInv, CallInv, OneProfile, OnboardingTold
  <2> QED BY <2>3, <2>4, <2>5, <2>7 DEF AccountInv
<1>2. AccountInv /\ ProfileInv /\ TextInv /\ [Next]_vars => (AccountInv /\ ProfileInv /\ TextInv)'
  <2> SUFFICES ASSUME AccountInv, ProfileInv, TextInv, [Next]_vars
               PROVE  AccountInv' /\ ProfileInv' /\ TextInv'
    OBVIOUS
  <2>1. CASE AccountNext /\ UNCHANGED <<profileVars, textVars>>
    <3>1. UNCHANGED begun \/ BeginCall
      BY <2>1 DEF AccountNext, CreateUser, BeginUpdateUser, LoadTarget, Loads, CommitUpdateUser, AbandonUpdateUser,
                  RotatePassword, LibraryUpdate, LibraryDelete
    <3> QED BY <2>1, <3>1, AccountNextInv, ProfileKept, TextsKept
  <2>2. CASE \E w \in Workers : (ProfileCall(w) \/ EndProfileCall(w)) /\ UNCHANGED <<accountVars, textVars>>
    BY <2>2, AccountNextInv, ProfileCallInv, CommitEditInv, AbandonEditInv, TextsKept DEF EndProfileCall
  <2>3. CASE \E w \in Workers : (TextCall(w) \/ EndTextCall(w)) /\ UNCHANGED <<accountVars, profileVars>>
    BY <2>3, AccountNextInv, ProfileKept, TextStepInv
  <2>4. CASE UNCHANGED vars
    BY <2>4, AccountNextInv, ProfileKept, TextsKept DEF vars
  <2> QED BY <2>1, <2>2, <2>3, <2>4 DEF Next
<1> QED BY <1>1, <1>2, TextInitInv, PTL DEF Spec

\* Every variable keeps its type.
THEOREM OfficeTypeCorrect == Spec => []TypeOK
<1>1. AccountInv /\ ProfileInv /\ TextInv => TypeOK
  BY DEF AccountInv, ProfileInv, TextInv, TypeOK
<1> QED BY <1>1, OfficeInvHolds, PTL

\* update_user, by itself, never leaves the deployment without an administrator.
THEOREM AdministratorHolds == Spec => []AdministratorRemains
<1>1. AccountInv => AdministratorRemains
  BY DEF AccountInv
<1> QED BY <1>1, OfficeInvHolds, PTL

\* The form and the interview make one city_profile row, if creations do not overlap.
THEOREM OneProfileHolds == Spec => []OneProfile
<1>1. ProfileInv => OneProfile
  BY DEF ProfileInv
<1> QED BY <1>1, OfficeInvHolds, PTL

\* After an answer, onboarding_status tells whether the profile is filled.
THEOREM OnboardingHolds == Spec => []OnboardingTold
<1>1. ProfileInv => OnboardingTold
  BY DEF ProfileInv
<1> QED BY <1>1, OfficeInvHolds, PTL

\* A version of a rule or a template stands for one text, if its updates do not overlap.
THEOREM VersionHolds == Spec => []VersionTellsText
<1>1. TextInv => VersionTellsText
  BY DEF TextInv
<1> QED BY <1>1, OfficeInvHolds, PTL
===============================================================================
