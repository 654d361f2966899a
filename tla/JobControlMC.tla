---------------------------- MODULE JobControlMC ----------------------------
(* JobControl for TLC: the pids and the shell are given by the cfg.        *)
EXTENDS JobControl
=============================================================================
