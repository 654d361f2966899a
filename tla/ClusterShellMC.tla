--------------------------- MODULE ClusterShellMC ---------------------------
EXTENDS ClusterShell, TLC

(* Clients are told apart only by the order they connect in. *)
ClientSymmetry == Permutations(Client)

=============================================================================
