-------------------------------- MODULE Outbox --------------------------------
(***************************************************************************)
(* What a job that mails an outbox promises: a notice is mailed only while *)
(* it is queued, is marked sent only after a mail has left, and once it is *)
(* marked stays as it is.  It may be mailed more than once.                *)
(***************************************************************************)
EXTENDS Naturals

CONSTANT Number  \* notices

VARIABLES
  state,  \* of each notice
  mails   \* mails sent for each notice

outbox == <<state, mails>>

OutboxInit ==
  /\ state = [n \in Number |-> "absent"]
  /\ mails = [n \in Number |-> 0]

\* One column of one notice, in a commit that may write several.
Advance(n) ==
  \/ state'[n] = state[n]
  \/ state[n] = "absent" /\ state'[n] \in {"queued", "failed"}
  \/ state[n] = "queued" /\ state'[n] = "failed"
  \/ state[n] = "queued" /\ state'[n] = "sent" /\ mails[n] > 0

Write == (\A n \in Number : Advance(n)) /\ UNCHANGED mails

Mail(n) ==
  /\ state[n] = "queued"
  /\ mails' = [mails EXCEPT ![n] = @ + 1]
  /\ UNCHANGED state

OutboxNext == Write \/ \E n \in Number : Mail(n)

OutboxSpec == OutboxInit /\ [][OutboxNext]_outbox
===============================================================================
