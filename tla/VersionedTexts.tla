----------------------------- MODULE VersionedTexts ---------------------------
(***************************************************************************)
(* Exemption rules and disclosure templates, which carry a version.  An    *)
(* update of a rule raises it whatever it changes, one of a template if it *)
(* gives a new content; both raise what they have read.                    *)
(***************************************************************************)
EXTENDS StaffCalls

CONSTANTS
  Items,     \* rules and templates
  RuleItems, \* those that are rules
  Seeded,    \* those that the first boot has inserted
  Wordings,  \* what their columns may hold
  Baseline   \* what the first boot gives them

ASSUME TextsAssumption ==
  Items # {} /\ RuleItems \subseteq Items /\ Seeded \subseteq Items /\ Baseline \in Wordings

VARIABLES
  items,      \* the rows
  revisions,  \* updates in progress
  history,    \* auxiliary: what has been committed of each
  raced       \* auxiliary: items of which two updates have overlapped

textVars == <<items, revisions, history, raced>>

\* text: rule_definition, or a template's content; label: what else an update
\* may change, description and enabled, or state_code.  Version 0: no row.
Text   == [text : Wordings, label : Wordings, version : Nat]
NoText == [text |-> Baseline, label |-> Baseline, version |-> 0]
SeededText == [NoText EXCEPT !.version = 1]

Exists(i) == items[i].version > 0

Revision   == [at : {"idle", "loaded"}, item : Items, seen : Text, new : Text]
NoRevision == [at |-> "idle", item |-> CHOOSE i \in Items : TRUE, seen |-> NoText, new |-> NoText]

Revising(w, i) == revisions[w].at = "loaded" /\ revisions[w].item = i

\* What a body gives.
Change == UNION {[given -> Wordings] : given \in SUBSET {"text", "label"}}

Committed(i, row) == history \cup {[item |-> i, row |-> row]}

TextsInit ==
  /\ items = [i \in Items |-> IF i \in Seeded THEN SeededText ELSE NoText]
  /\ revisions = [w \in Workers |-> NoRevision]
  /\ history = {[item |-> i, row |-> items[i]] : i \in Seeded}
  /\ raced = {}

-------------------------------------------------------------------------------
\* create_rule, create_template.
CreateText(i, text, label) ==
  /\ ~Exists(i)
  /\ BeginCall
  /\ items' = [items EXCEPT ![i] = [text |-> text, label |-> label, version |-> 1]]
  /\ history' = Committed(i, items'[i])
  /\ UNCHANGED <<revisions, raced>>

\* Mutant: a rule's version is raised only with its definition.
DefinitionOnly(i, row, change) ==
  [text    |-> IF "text" \in DOMAIN change THEN change["text"] ELSE row.text,
   label   |-> IF "label" \in DOMAIN change THEN change["label"] ELSE row.label,
   version |-> IF "text" \in DOMAIN change THEN row.version + 1 ELSE row.version]

Revised(i, row, change) ==
  [text    |-> IF "text" \in DOMAIN change THEN change["text"] ELSE row.text,
   label   |-> IF "label" \in DOMAIN change THEN change["label"] ELSE row.label,
   version |-> IF i \in RuleItems \/ "text" \in DOMAIN change THEN row.version + 1 ELSE row.version]

\* update_rule, update_template.
BeginRevision(w, i, change) ==
  /\ revisions[w].at = "idle" /\ Exists(i)
  /\ BeginCall
  /\ revisions' = [revisions EXCEPT ![w] =
       [at |-> "loaded", item |-> i, seen |-> items[i], new |-> Revised(i, items[i], change)]]
  /\ raced' = IF \E v \in Workers : Revising(v, i) THEN raced \cup {i} ELSE raced
  /\ UNCHANGED <<items, history>>

CommitRevision(w) ==
  LET call == revisions[w]
      now  == items[call.item]
  IN
  /\ call.at = "loaded"
  /\ items' = [items EXCEPT ![call.item] =
       [text    |-> Written(now.text, call.seen.text, call.new.text),
        label   |-> Written(now.label, call.seen.label, call.new.label),
        version |-> Written(now.version, call.seen.version, call.new.version)]]
  /\ history' = Committed(call.item, items'[call.item])
  /\ revisions' = [revisions EXCEPT ![w] = NoRevision]
  /\ UNCHANGED <<begun, raced>>

AbandonRevision(w) ==
  /\ revisions[w].at = "loaded"
  /\ revisions' = [revisions EXCEPT ![w] = NoRevision]
  /\ UNCHANGED <<begun, items, history, raced>>

TextCall(w) ==
  \/ \E i \in Items, text, label \in Wordings : CreateText(i, text, label)
  \/ \E i \in Items, change \in Change : BeginRevision(w, i, change)

EndTextCall(w) == CommitRevision(w) \/ AbandonRevision(w)

-------------------------------------------------------------------------------
TextsTypeOK ==
  /\ items \in [Items -> Text]
  /\ revisions \in [Workers -> Revision]
  /\ history \in SUBSET [item : Items, row : Text]
  /\ raced \in SUBSET Items

\* A version stands for one text: no two rows that were ever committed of a
\* template had one version and two contents, nor of a rule one version and any
\* two different columns, unless two updates of it have overlapped.
VersionTellsText ==
  \A g, h \in history :
    g.item = h.item /\ g.item \notin raced /\ g.row.version = h.row.version =>
      g.row.text = h.row.text /\ (g.item \in RuleItems => g.row.label = h.row.label)
===============================================================================
