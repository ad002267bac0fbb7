--------------------------- MODULE MCConnections ---------------------------
(* The connections for TLC: instances, clients and tasks are alike, and no   *)
(* property of these runs is a temporal one.                                 *)
EXTENDS Connections, TLC

Symmetry == Permutations(Instances) \cup Permutations(Clients) \cup Permutations(Tasks)
=============================================================================
