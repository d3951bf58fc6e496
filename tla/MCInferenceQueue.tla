-------------------------- MODULE MCInferenceQueue --------------------------
(* InferenceQueue on small instances; meetings are interchangeable. *)
EXTENDS InferenceQueue, TLC

SessionSymmetry == Permutations(Sessions)

=============================================================================
