----------------------------- MODULE MCQueuePair -----------------------------
(* QueuePair together with the inductive invariant of its proofs, for TLC. *)
EXTENDS QueuePairProofs
==============================================================================
