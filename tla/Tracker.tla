------------------------------ MODULE Tracker ------------------------------
(***************************************************************************)
(* What a task tracker promises the scheduler, whichever implementation is *)
(* configured: a task enters the tracker by being registered, is updated   *)
(* only while it is in it, and once it has left, only another registration *)
(* brings it back.  Old completed tasks may leave at any time.             *)
(***************************************************************************)
CONSTANT Tasks

VARIABLE status       (* "absent", "queued", "scheduled" or "completed" *)

Tracked(t) == status[t] # "absent"
Completed == {t \in Tasks : status[t] = "completed"}

Without(gone, statuses) ==
    [t \in Tasks |-> IF t \in gone THEN "absent" ELSE statuses[t]]

Register(t) == status' = [status EXCEPT ![t] = "queued"]

Schedule(t) == Tracked(t) /\ status' = [status EXCEPT ![t] = "scheduled"]

(* Completing a task may push completed ones out of the history. *)
Complete(t) ==
    /\ Tracked(t)
    /\ \E gone \in SUBSET (Completed \cup {t}) :
          status' = Without(gone, [status EXCEPT ![t] = "completed"])

Remove(t) == status' = Without({t}, status)

Trim == \E gone \in SUBSET Completed : status' = Without(gone, status)

Clear == status' = Without(Tasks, status)

Init == status = [t \in Tasks |-> "absent"]

Next ==
    \/ \E t \in Tasks : Register(t) \/ Schedule(t) \/ Complete(t) \/ Remove(t)
    \/ Trim
    \/ Clear

Spec == Init /\ [][Next]_status
=============================================================================
