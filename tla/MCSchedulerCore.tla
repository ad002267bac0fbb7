--------------------------- MODULE MCSchedulerCore ---------------------------
(* Values for the constants of SchedulerCore.                               *)
EXTENDS SchedulerCore

(* str(uuid) orders the instances. *)
MCRank == [i \in Instances |-> i]

(* A sharp prediction, one that trips the recalculation threshold after a    *)
(* completion, and one that is beyond it by itself.                          *)
MCPredictions == {[expected |-> 2, variance |-> 1], [expected |-> 3, variance |-> 40]}

MCSharp == {[expected |-> 2, variance |-> 1]}
MCVague == {[expected |-> 2, variance |-> 5]}
=============================================================================
