---------------------------- MODULE TaskTracker ----------------------------
(***************************************************************************)
(* The scheduler's task tracker: the status of every task and a bounded    *)
(* history of completed ones.                                              *)
(*                                                                         *)
(* Every operation runs under one lock, so it is one step.  The tracker    *)
(* does not count the completed tasks when it needs their number: it keeps *)
(* a counter, and the callers are not kind to it.  The result handlers     *)
(* mark each task completed twice, ids are registered again, and the time  *)
(* of a completion is read before the lock is taken.                       *)
(***************************************************************************)
EXTENDS Integers, FiniteSets

CONSTANTS
    Tasks,            (* task ids                                            *)
    Times,            (* completion times                                    *)
    MaxHistory,       (* max_history                                         *)
    HistoryDivisor,   (* a cleanup frees max_history // 10 places more       *)
    MaxCount          (* bound: the value of the counter                     *)

ASSUME TrackerAssumption ==
    /\ IsFiniteSet(Tasks)
    /\ Times \subseteq Nat
    /\ MaxHistory \in Nat
    /\ HistoryDivisor \in Nat \ {0}
    /\ MaxCount \in Nat

VARIABLES
    status,           (* _tasks[t].task_status, "absent" without an entry    *)
    completedAt,      (* _tasks[t].completion_time                           *)
    completedCount    (* _completed_count                                    *)

vars == <<status, completedAt, completedCount>>

Statuses == {"absent", "queued", "scheduled", "completed"}
Completed == {t \in Tasks : status[t] = "completed"}
NoTime == 0           (* completion_time is None *)

(* The entries of `gone` are deleted. *)
Drop(gone, statuses, times) ==
    /\ status' = [t \in Tasks |-> IF t \in gone THEN "absent" ELSE statuses[t]]
    /\ completedAt' = [t \in Tasks |-> IF t \in gone THEN NoTime ELSE times[t]]

-----------------------------------------------------------------------------
(* register_task overwrites an entry, whatever its status.                   *)
RegisterTask(t) ==
    /\ status' = [status EXCEPT ![t] = "queued"]
    /\ completedAt' = [completedAt EXCEPT ![t] = NoTime]
    /\ UNCHANGED completedCount

(* mutant: an id that is not tracked is not refused *)
ScheduleUntracked(t) ==
    /\ status' = [status EXCEPT ![t] = "scheduled"]
    /\ UNCHANGED <<completedAt, completedCount>>

MarkScheduled(t) ==
    /\ status[t] # "absent"
    /\ status' = [status EXCEPT ![t] = "scheduled"]
    /\ UNCHANGED <<completedAt, completedCount>>

(* _cleanup_old_tasks: how many of n completed tasks go, and which.          *)
(* mutant: the number to keep, not the number to drop *)
SurplusOfCount(n) == completedCount - MaxHistory + MaxHistory \div HistoryDivisor

Surplus(n) == n - MaxHistory + MaxHistory \div HistoryDivisor

(* mutant: sorted newest first *)
NewestOf(gone, completed, at) ==
    \A t \in gone, u \in completed \ gone : at[t] >= at[u]

OldestOf(gone, completed, at) ==
    \A t \in gone, u \in completed \ gone : at[t] <= at[u]

CleanupOldTasks(gone, completed, at) ==
    /\ Cardinality(gone) =
           IF Surplus(Cardinality(completed)) > 0
           THEN Surplus(Cardinality(completed)) ELSE 0
    /\ OldestOf(gone, completed, at)

(* mark_completed, for a task that is tracked.                               *)
MarkCompleted(t, time) ==
    LET completed == Completed \cup {t}
        at == [completedAt EXCEPT ![t] = time]
    IN  /\ status[t] # "absent"
        /\ completedCount < MaxCount
        /\ \E gone \in SUBSET completed :
              /\ IF completedCount + 1 > MaxHistory
                 THEN CleanupOldTasks(gone, completed, at)
                 ELSE gone = {}
              /\ Drop(gone, [status EXCEPT ![t] = "completed"], at)
              /\ completedCount' = completedCount + 1 - Cardinality(gone)

(* mutant: the counter is lowered for any task *)
UncountAny(t) == completedCount' = completedCount - 1

UncountCompleted(t) ==
    completedCount' = IF status[t] = "completed" THEN completedCount - 1
                                                 ELSE completedCount

RemoveTask(t) ==
    /\ status[t] # "absent"
    /\ UncountCompleted(t)
    /\ Drop({t}, status, completedAt)

ClearCompleted ==
    /\ Drop(Completed, status, completedAt)
    /\ completedCount' = completedCount - Cardinality(Completed)

ClearAll ==
    /\ Drop(Tasks, status, completedAt)
    /\ completedCount' = 0

-----------------------------------------------------------------------------
Init ==
    /\ status = [t \in Tasks |-> "absent"]
    /\ completedAt = [t \in Tasks |-> NoTime]
    /\ completedCount = 0

Next ==
    \/ \E t \in Tasks : RegisterTask(t)
    \/ \E t \in Tasks : MarkScheduled(t)
    \/ \E t \in Tasks, time \in Times : MarkCompleted(t, time)
    \/ \E t \in Tasks : RemoveTask(t)
    \/ ClearCompleted
    \/ ClearAll

Spec == Init /\ [][Next]_vars

-----------------------------------------------------------------------------
(* Type invariant; the counter of completed tasks never becomes negative,    *)
(* although remove_task and clear_completed lower it (task_tracker.py).      *)
TypeOK ==
    /\ status \in [Tasks -> Statuses]
    /\ completedAt \in [Tasks -> Nat]
    /\ completedCount \in Nat

(* The history stays within max_history.  The counter that triggers the      *)
(* cleanup drifts (a task marked twice is counted twice, a completed task    *)
(* registered again stays counted), but never below the number of completed  *)
(* tasks: a cleanup may come too early, never too late.                      *)
HistoryBounded == Cardinality(Completed) <= MaxHistory

(* What a step drops from the tracker. *)
Dropped == {t \in Tasks : status[t] # "absent" /\ status'[t] = "absent"}

(* A completed task is pushed out of the history only by later ones: when a  *)
(* completion drops a task, as many tasks as a cleanup leaves are kept that  *)
(* completed no earlier.  The counter that starts the cleanup may have       *)
(* drifted far above their number, tasks may be completed again with another *)
(* time, and completions are not marked in the order of their times.         *)
KeptSince(time) == {u \in Completed' : completedAt'[u] >= time}

HistoryKept ==
    [][\A t \in Tasks, time \in Times :
          MarkCompleted(t, time) =>
              \A d \in Dropped :
                  Cardinality(KeptSince(IF d = t THEN time ELSE completedAt[d]))
                      >= MaxHistory - MaxHistory \div HistoryDivisor
      ]_vars

(* The tracker keeps the promise of every tracker: a step never updates a    *)
(* task that is not tracked, never loses one that is not completed unless it *)
(* is asked to, and never brings a removed one back.                         *)
Promise == INSTANCE Tracker WITH Tasks <- Tasks, status <- status

ImplementsTracker == Promise!Spec
=============================================================================
