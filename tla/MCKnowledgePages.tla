--------------------------- MODULE MCKnowledgePages ---------------------------
(* Bounded instances of KnowledgePages.                                       *)
EXTENDS KnowledgePages, TLC

CONSTANTS q1, q2
==============================================================================
