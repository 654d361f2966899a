-------------------------- MODULE MulticastChatMC --------------------------
(* MulticastChat for TLC: two subjects, the name of one begins the other's. *)
EXTENDS MulticastChat

Short == "chem"
Long == "chemistry"
TwoSubjects == {Short, Long}
ShortInLong == {<<Short, Short>>, <<Long, Long>>, <<Short, Long>>}
=============================================================================
