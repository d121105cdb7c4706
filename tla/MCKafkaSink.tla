---------------------------- MODULE MCKafkaSink -----------------------------
(* Two calls of PublishBatch.                                              *)
EXTENDS KafkaSink
CONSTANTS b1, b2
=============================================================================
