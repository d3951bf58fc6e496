--------------------------- MODULE MCDeletionVault ---------------------------
(* DeletionVault on small instances. *)
EXTENDS DeletionVault, TLC

CONSTANTS c1, c2

Symmetry == Permutations(Clients)

=============================================================================
