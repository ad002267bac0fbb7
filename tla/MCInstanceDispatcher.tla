------------------------ MODULE MCInstanceDispatcher ------------------------
(* The dispatcher for TLC: the tasks are alike, and no property of these     *)
(* runs is a temporal one, so their permutations are symmetries.             *)
EXTENDS InstanceDispatcher, TLC

Symmetry == Permutations(Tasks)
=============================================================================
