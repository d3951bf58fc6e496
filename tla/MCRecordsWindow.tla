-------------------------- MODULE MCRecordsWindow ---------------------------
(* Meetings are interchangeable. *)
EXTENDS RecordsWindow, TLC

Symmetry == Permutations(Meetings)

=============================================================================
