-------------------------- MODULE MCEmbeddingQueue --------------------------
(* Bounded instance of EmbeddingQueue.                                      *)
EXTENDS EmbeddingQueue
=============================================================================
