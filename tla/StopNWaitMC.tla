---------------------------- MODULE StopNWaitMC ----------------------------
(* Model-checking instances of StopNWait. *)
EXTENDS StopNWaitInv

(* Text files of every length from 0 to n, all bytes different: empty, a    *)
(* multiple of PACKET_SIZE, and every remainder.                            *)
Texts(n) == {[j \in 1..m |-> 64 + j] : m \in 0..n}
Texts6 == Texts(6)

Texts11 == Texts(11)
=============================================================================
