-------------------------- MODULE ForkPerClientMC --------------------------
(* Model-checking instances of ForkPerClient. *)
EXTENDS ForkPerClient, TLC

CONSTANTS c1, c2, c3
ThreeClients == {c1, c2, c3}
AllLines == {"text", "exit", "eof"}
ExitOnly == {"exit"}
ClientSymmetry == Permutations(ThreeClients)
=============================================================================
