--------------------------- MODULE MCAssistantChat ---------------------------
(* Bounded instances of AssistantChat.                                      *)
EXTENDS AssistantChat, TLC

CONSTANTS page, fab, t1, t2, t3
==============================================================================
