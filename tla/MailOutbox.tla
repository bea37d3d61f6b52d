----------------------------- MODULE MailOutbox -----------------------------
(***************************************************************************)
(* What the outbound-mail queue promises to the rest of the backend: the   *)
(* mails of one request are published together or not at all, only a       *)
(* published mail reaches the relay, and every published mail reaches it.  *)
(* A second copy of a mail is not visible here (a stuttering step): the    *)
(* promise is at-least-once.                                               *)
(***************************************************************************)
CONSTANTS Request, Recipient

VARIABLES queued,  \* mails published and not yet accepted by the relay
          sent     \* mails the relay has accepted at least once

vars == <<queued, sent>>

Mail == Request \X Recipient

Init == queued = {} /\ sent = {}

Publish(r, to) ==
  /\ to # {}
  /\ \A m \in queued \cup sent : m[1] # r
  /\ queued' = queued \cup ({r} \X to)
  /\ sent' = sent

Deliver(m) ==
  /\ m \in queued
  /\ queued' = queued \ {m}
  /\ sent' = sent \cup {m}

Next ==
  \/ \E r \in Request, to \in SUBSET Recipient : Publish(r, to)
  \/ \E m \in Mail : Deliver(m)

SafetySpec == Init /\ [][Next]_vars

Spec == SafetySpec /\ \A m \in Mail : WF_vars(Deliver(m))
=============================================================================
