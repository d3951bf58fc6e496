--------------------------- MODULE MCPauseProtocol ---------------------------
(* PauseProtocol on small instances; clients are interchangeable. *)
EXTENDS PauseProtocol, TLC

ClientSymmetry == Permutations(Clients)

=============================================================================
