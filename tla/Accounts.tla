-------------------------------- MODULE Accounts ------------------------------
(***************************************************************************)
(* Accounts of staff, and the administrators' endpoints that create and    *)
(* change them.  Every call looks its caller up again: nobody who has been *)
(* deactivated, or has to change the first password, gets further.         *)
(*                                                                         *)
(* Of the roles, only the administrator's is told from the others.  Names, *)
(* departments and passwords are left out.                                 *)
(***************************************************************************)
EXTENDS StaffCalls

CONSTANTS
  People,  \* who may have an account
  First    \* the administrator of the first boot

ASSUME AccountsAssumption == First \in People

VARIABLES
  accounts,    \* rows of users
  updates,     \* update_user calls in progress
  overlapped,  \* auxiliary: two such calls were in progress at once
  bypassed     \* auxiliary: the library's routes of superusers took an account away

accountVars == <<accounts, updates, overlapped, bypassed>>

Account == [exists : BOOLEAN, admin : BOOLEAN, active : BOOLEAN, superuser : BOOLEAN, rotate : BOOLEAN]
NoAccount == [exists |-> FALSE, admin |-> FALSE, active |-> FALSE, superuser |-> FALSE, rotate |-> FALSE]
NewAccount == [NoAccount EXCEPT !.exists = TRUE, !.active = TRUE]

\* caller, seen: who calls, and the row the session has loaded: the caller's at
\* first, then the target's, of which new is to become.
Update   == [at : {"idle", "checked", "loaded"}, caller : People, target : People,
             seen : Account, new : Account]
NoUpdating == [at |-> "idle", caller |-> First, target |-> First,
               seen |-> NoAccount, new |-> NoAccount]

\* What a body gives.
Body == UNION {[given -> BOOLEAN] : given \in SUBSET {"admin", "active"}}

AccountInit ==
  /\ \E rotate \in BOOLEAN :
       accounts = [p \in People |-> IF p = First
                     THEN [NewAccount EXCEPT !.admin = TRUE, !.superuser = TRUE, !.rotate = rotate]
                     ELSE NoAccount]
  /\ updates = [w \in Workers |-> NoUpdating]
  /\ overlapped = FALSE
  /\ bypassed = FALSE

\* The fields of a row that a call writes.
Merged(now, seen, new) ==
  [now EXCEPT !.admin  = Written(now.admin, seen.admin, new.admin),
              !.active = Written(now.active, seen.active, new.active)]

-------------------------------------------------------------------------------
SignedIn(p) == accounts[p].exists /\ accounts[p].active

\* current_active_user, and require_role(UserRole.ADMIN).
MayAdminister(p) == SignedIn(p) /\ ~accounts[p].rotate /\ accounts[p].admin

CreateUser(p, admin) ==
  /\ \E caller \in People : MayAdminister(caller)
  /\ ~accounts[p].exists
  /\ BeginCall
  /\ accounts' = [accounts EXCEPT ![p] = [NewAccount EXCEPT !.admin = admin]]
  /\ UNCHANGED <<updates, overlapped, bypassed>>

Given(body, row) ==
  [row EXCEPT !.admin  = IF "admin" \in DOMAIN body THEN body["admin"] ELSE row.admin,
              !.active = IF "active" \in DOMAIN body THEN body["active"] ELSE row.active]

\* The caller is looked up, in the session that loads the target later.
BeginUpdateUser(w, caller) ==
  /\ updates[w].at = "idle" /\ BeginCall
  /\ MayAdminister(caller)
  /\ updates' = [updates EXCEPT ![w] =
       [NoUpdating EXCEPT !.at = "checked", !.caller = caller, !.seen = accounts[caller]]]
  /\ overlapped' = (overlapped \/ \E v \in Workers : updates[v].at # "idle")
  /\ UNCHANGED <<accounts, bypassed>>

\* session.get: a row the session has already loaded is not read again.
Loaded(w, p) == IF p = updates[w].caller THEN updates[w].seen ELSE accounts[p]

Loads(w, p, body) ==
  /\ updates[w].at = "checked" /\ Loaded(w, p).exists
  /\ updates' = [updates EXCEPT ![w].at = "loaded", ![w].target = p,
                                ![w].seen = Loaded(w, p), ![w].new = Given(body, Loaded(w, p))]
  /\ UNCHANGED <<begun, accounts, overlapped, bypassed>>

\* Mutant: administrators may change their own role.
SelfDemotion(w, p, body) ==
  /\ updates[w].caller = p => ("active" \in DOMAIN body => body["active"])
  /\ Loads(w, p, body)

\* The target's row is loaded and the body applied to it: nobody changes the
\* own role or deactivates the own account.
LoadTarget(w, p, body) ==
  /\ updates[w].caller = p => "admin" \notin DOMAIN body /\ ("active" \in DOMAIN body => body["active"])
  /\ Loads(w, p, body)

\* A row that is gone cannot be written.
CommitUpdateUser(w) ==
  LET call == updates[w] IN
  /\ call.at = "loaded"
  /\ call.new # call.seen => accounts[call.target].exists
  /\ accounts' = [accounts EXCEPT ![call.target] = Merged(accounts[call.target], call.seen, call.new)]
  /\ updates' = [updates EXCEPT ![w] = NoUpdating]
  /\ UNCHANGED <<begun, overlapped, bypassed>>

AbandonUpdateUser(w) ==
  /\ updates[w].at # "idle"
  /\ updates' = [updates EXCEPT ![w] = NoUpdating]
  /\ UNCHANGED <<begun, accounts, overlapped, bypassed>>

\* PATCH /users/me with a password: on_after_update ends the rotation.
RotatePassword(p) ==
  /\ SignedIn(p) /\ accounts[p].rotate
  /\ accounts' = [accounts EXCEPT ![p].rotate = FALSE]
  /\ UNCHANGED <<begun, updates, overlapped, bypassed>>

\* PATCH and DELETE /users/{id} are the library's: a superuser, with the first
\* password or without, may take any account away, and no guard spares the own one.
LibraryUpdate(caller, p, row) ==
  /\ SignedIn(caller) /\ accounts[caller].superuser /\ accounts[p].exists
  /\ row.admin = accounts[p].admin /\ row.rotate \in {accounts[p].rotate, FALSE}
  /\ accounts' = [accounts EXCEPT ![p] = row]
  /\ bypassed' = (bypassed \/ ~row.active)
  /\ UNCHANGED <<begun, updates, overlapped>>

LibraryDelete(caller, p) ==
  /\ SignedIn(caller) /\ accounts[caller].superuser /\ accounts[p].exists
  /\ accounts' = [accounts EXCEPT ![p] = NoAccount]
  /\ bypassed' = TRUE
  /\ UNCHANGED <<begun, updates, overlapped>>

AccountNext ==
  \/ \E p \in People, admin \in BOOLEAN : CreateUser(p, admin)
  \/ \E w \in Workers, caller \in People : BeginUpdateUser(w, caller)
  \/ \E w \in Workers, p \in People, body \in Body : LoadTarget(w, p, body)
  \/ \E w \in Workers : CommitUpdateUser(w) \/ AbandonUpdateUser(w)
  \/ \E p \in People : RotatePassword(p)
  \/ \E caller, p \in People :
       LibraryDelete(caller, p) \/ \E row \in Account : row.exists /\ LibraryUpdate(caller, p, row)

-------------------------------------------------------------------------------
AccountTypeOK ==
  /\ accounts \in [People -> Account]
  /\ updates \in [Workers -> Update]
  /\ overlapped \in BOOLEAN
  /\ bypassed \in BOOLEAN

\* Somebody can always sign in as an administrator, unless two administrators'
\* updates overlapped or a superuser took an account away through the library.
AdministratorRemains ==
  overlapped \/ bypassed \/ \E p \in People : SignedIn(p) /\ accounts[p].admin
===============================================================================
