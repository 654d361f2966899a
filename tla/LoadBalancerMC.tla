--------------------------- MODULE LoadBalancerMC ---------------------------
(* LoadBalancer for TLC: the number of children is given by the cfg.       *)
EXTENDS LoadBalancer
=============================================================================
