------------------------- MODULE SelectiveRepeatMC -------------------------
(* SelectiveRepeat for TLC: channels and lengths are given by the cfg.     *)
EXTENDS SelectiveRepeat
=============================================================================
