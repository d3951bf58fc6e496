-------------------------- MODULE MCSessionControl --------------------------
(* SessionControl on a small instance. *)
EXTENDS SessionControl, TLC

ClientSymmetry == Permutations(Clients)

=============================================================================
