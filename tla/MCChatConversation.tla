------------------------- MODULE MCChatConversation -------------------------
(* Bounded instance of ChatConversation: two turns, one of them streamed,   *)
(* and two escalations; the history limit is below the number of messages,  *)
(* the cap of a transcript below, at or above the length of the chat.       *)
EXTENDS ChatConversation, TLC

\* A question is short, a reply or a confirmation longer: the cap is reached
\* by the second question exactly, or within a reply.
MCSize == [x \in Asker |-> [s \in {"user", "bot"} |-> IF s = "user" THEN 1 ELSE 2]]

\* Escalations are interchangeable; no liveness is checked.
Symmetry == Permutations(Escalation)
=============================================================================
