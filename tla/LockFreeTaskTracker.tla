------------------------ MODULE LockFreeTaskTracker ------------------------
(***************************************************************************)
(* The scheduler's default task tracker.  An operation is not one step: it *)
(* reads the entry, writes a copy of it, and brings two indexes and the    *)
(* statistics up to date, each under a lock of its own.  Two threads use   *)
(* the tracker: the event loop, which runs the handlers of the API one     *)
(* after the other, and the periodic cleanup.                              *)
(*                                                                         *)
(* The reader-writer lock of the entries lets readers in together with a   *)
(* writer (see ReadWriteLock), so a section under it is one step only if   *)
(* it writes; a section that reads is a step for each access.              *)
(***************************************************************************)
EXTENDS Integers, Sequences, FiniteSets

CONSTANTS
    Tasks,            (* task ids                                            *)
    Instances,        (* UUIDs of the instances                              *)
    NoInstance,       (* the instance of a task without entry                *)
    MaxHistory,       (* max_history                                         *)
    HistoryDivisor,   (* a cleanup frees max_history // 10 places more       *)
    MaxSubmissions,   (* bound: how often a client submits an id             *)
    MaxReports        (* bound: how often an instance reports a completion   *)

ASSUME LockFreeAssumption ==
    /\ IsFiniteSet(Tasks)
    /\ NoInstance \notin Instances
    /\ MaxHistory \in Nat
    /\ HistoryDivisor \in Nat \ {0}
    /\ MaxSubmissions \in Nat
    /\ MaxReports \in Nat

VARIABLES
    tasks,            (* _tasks                                              *)
    statusIndex,      (* _status_index                                       *)
    instanceIndex,    (* _instance_index                                     *)
    stats,            (* _stats                                              *)
    calls,            (* the tracker calls a thread has still to make        *)
    pc,               (* the next section of a thread's current call         *)
    info,             (* the entry the current call has read                 *)
    uncollected,      (* completed ids the cleanup has not looked at         *)
    collected,        (* completed_tasks, the ones it has found              *)
    awaiting,         (* result handlers of a task that await the broadcast  *)
    submitted,        (* submissions of a task                               *)
    reported,         (* reports of a task's completion                      *)
    answered,         (* history: tasks a result has been submitted for      *)
    cleared           (* history: clear_all has been called                  *)

entryVars == <<tasks, statusIndex, instanceIndex, stats>>
cleanupVars == <<uncollected, collected>>
handlerVars == <<awaiting, submitted, reported, answered, cleared>>
vars == <<entryVars, calls, pc, info, cleanupVars, handlerVars>>

loop == "event loop"
cleaner == "cleanup"
Threads == {loop, cleaner}

Statuses == {"queued", "scheduled", "completed"}
NoEntry == [status |-> "absent", instance |-> NoInstance]
Entries == [status : Statuses, instance : Instances]
Present(t) == tasks[t] # NoEntry
Having(status) == {t \in Tasks : tasks[t].status = status}

-----------------------------------------------------------------------------
(* A call of the tracker, and the calls the handlers of the API make.        *)
Call(op, t, arg) == [op |-> op, task |-> t, arg |-> arg]

Submission(t, i) ==
    <<Call("register", t, i), Call("mark", t, "scheduled")>>

ResultStored(t) ==
    <<Call("mark", t, "completed"), Call("mark", t, "completed"), Call("get", t, "none")>>

Notification(t) == <<Call("mark", t, "completed")>>

Removal(t) == <<Call("remove", t, "none")>>

First(call) == CASE call.op \in {"register", "clear"}        -> "write"
                 [] call.op \in {"mark", "remove", "get"}    -> "contains"

Idle(th) == pc[th] = "idle"

Start(th, some) ==
    /\ calls' = [calls EXCEPT ![th] = some]
    /\ pc' = [pc EXCEPT ![th] = IF some = <<>> THEN "idle" ELSE First(Head(some))]
    /\ info' = [info EXCEPT ![th] = NoEntry]

Return(th) == Start(th, Tail(calls[th]))

(* A KeyError leaves the handler, or the cleanup. *)
Raise(th) == Start(th, <<>>)

At(th, op, section) == pc[th] = section /\ Head(calls[th]).op = op

Continue(th, section) ==
    /\ pc' = [pc EXCEPT ![th] = section]
    /\ UNCHANGED calls

TaskOf(th) == Head(calls[th]).task
ArgOf(th) == Head(calls[th]).arg

-----------------------------------------------------------------------------
(* register_task *)
RegisterEntry(th) ==
    /\ At(th, "register", "write")
    /\ tasks' = [tasks EXCEPT ![TaskOf(th)] =
                    [status |-> "queued", instance |-> ArgOf(th)]]
    /\ info' = [info EXCEPT ![th] = tasks[TaskOf(th)]]
    /\ Continue(th, "status")
    /\ UNCHANGED <<statusIndex, instanceIndex, stats, cleanupVars, handlerVars>>

RegisterStatus(th) ==
    /\ At(th, "register", "status")
    /\ LET others == IF info[th] = NoEntry THEN {} ELSE {TaskOf(th)}
       IN  statusIndex' = [s \in Statuses |->
                              IF s = "queued" THEN statusIndex[s] \cup {TaskOf(th)}
                                              ELSE statusIndex[s] \ others]
    /\ Continue(th, "instance")
    /\ UNCHANGED <<tasks, instanceIndex, stats, info, cleanupVars, handlerVars>>

RegisterInstance(th) ==
    /\ At(th, "register", "instance")
    /\ instanceIndex' = [instanceIndex EXCEPT ![ArgOf(th)] = @ \cup {TaskOf(th)}]
    /\ Continue(th, "stats")
    /\ UNCHANGED <<tasks, statusIndex, stats, info, cleanupVars, handlerVars>>

RegisterStats(th) ==
    /\ At(th, "register", "stats")
    /\ stats' = [stats EXCEPT !.queued = @ + 1,
                              !.total_tasks = IF info[th] = NoEntry THEN @ + 1 ELSE @]
    /\ Return(th)
    /\ UNCHANGED <<tasks, statusIndex, instanceIndex, cleanupVars, handlerVars>>

-----------------------------------------------------------------------------
(* The reads with which mark_scheduled, mark_completed and remove_task begin *)
Contains(th) ==
    /\ At(th, "mark", "contains") \/ At(th, "remove", "contains")
    /\ IF Present(TaskOf(th)) THEN Continue(th, "fetch") /\ UNCHANGED info
                              ELSE Return(th)
    /\ UNCHANGED <<entryVars, cleanupVars, handlerVars>>

Fetch(th) ==
    /\ At(th, "mark", "fetch") \/ At(th, "remove", "fetch")
    /\ IF Present(TaskOf(th))
       THEN Continue(th, "write") /\ info' = [info EXCEPT ![th] = tasks[TaskOf(th)]]
       ELSE Raise(th)
    /\ UNCHANGED <<entryVars, cleanupVars, handlerVars>>

-----------------------------------------------------------------------------
(* mark_scheduled and mark_completed                                         *)

(* mark_scheduled takes it that the task was queued. *)
OldStatus(th) == IF ArgOf(th) = "scheduled" THEN "queued" ELSE info[th].status

MarkEntry(th) ==
    /\ At(th, "mark", "write")
    /\ tasks' = [tasks EXCEPT ![TaskOf(th)] = [info[th] EXCEPT !.status = ArgOf(th)]]
    /\ Continue(th, "status")
    /\ UNCHANGED <<statusIndex, instanceIndex, stats, info, cleanupVars, handlerVars>>

MarkStatus(th) ==
    /\ At(th, "mark", "status")
    /\ LET without == [statusIndex EXCEPT ![OldStatus(th)] = @ \ {TaskOf(th)}]
       IN  statusIndex' = [without EXCEPT ![ArgOf(th)] = @ \cup {TaskOf(th)}]
    /\ Continue(th, "stats")
    /\ UNCHANGED <<tasks, instanceIndex, stats, info, cleanupVars, handlerVars>>

(* mutant: every completed task is taken to have been a scheduled one *)
ScheduledLess(counts, status) == [counts EXCEPT !["scheduled"] = @ - 1]

(* The task is no longer counted as queued or scheduled. *)
ActiveLess(counts, status) ==
    IF status = "completed" THEN counts ELSE [counts EXCEPT ![status] = @ - 1]

(* The cleanup that mark_completed submits when a history is full never runs:  *)
(* the pool's only thread is taken by the loop of the periodic one.          *)
MarkStats(th) ==
    /\ At(th, "mark", "stats")
    /\ LET less == ActiveLess(stats, OldStatus(th))
       IN  stats' = [less EXCEPT ![ArgOf(th)] = @ + 1]
    /\ Return(th)
    /\ UNCHANGED <<tasks, statusIndex, instanceIndex, cleanupVars, handlerVars>>

-----------------------------------------------------------------------------
(* remove_task *)

(* mutant: a removal goes on although another thread took the entry *)
DeleteAnyway(th) ==
    /\ At(th, "remove", "write")
    /\ tasks' = [tasks EXCEPT ![TaskOf(th)] = NoEntry]
    /\ Continue(th, "status")
    /\ UNCHANGED <<statusIndex, instanceIndex, stats, info, cleanupVars, handlerVars>>

RemoveEntry(th) ==
    /\ At(th, "remove", "write")
    /\ IF Present(TaskOf(th))
       THEN /\ tasks' = [tasks EXCEPT ![TaskOf(th)] = NoEntry]
            /\ Continue(th, "status") /\ UNCHANGED info
       ELSE UNCHANGED tasks /\ Return(th)
    /\ UNCHANGED <<statusIndex, instanceIndex, stats, cleanupVars, handlerVars>>

RemoveStatus(th) ==
    /\ At(th, "remove", "status")
    /\ statusIndex' = [statusIndex EXCEPT ![info[th].status] = @ \ {TaskOf(th)}]
    /\ Continue(th, "instance")
    /\ UNCHANGED <<tasks, instanceIndex, stats, info, cleanupVars, handlerVars>>

(* mutant: the index keeps the id *)
KeepInstance(th) ==
    /\ At(th, "remove", "instance")
    /\ Continue(th, "stats")
    /\ UNCHANGED <<entryVars, info, cleanupVars, handlerVars>>

RemoveInstance(th) ==
    /\ At(th, "remove", "instance")
    /\ instanceIndex' = [instanceIndex EXCEPT ![info[th].instance] = @ \ {TaskOf(th)}]
    /\ Continue(th, "stats")
    /\ UNCHANGED <<tasks, statusIndex, stats, info, cleanupVars, handlerVars>>

RemoveStats(th) ==
    /\ At(th, "remove", "stats")
    /\ stats' = [stats EXCEPT !.total_tasks = @ - 1, ![info[th].status] = @ - 1]
    /\ Return(th)
    /\ UNCHANGED <<tasks, statusIndex, instanceIndex, cleanupVars, handlerVars>>

-----------------------------------------------------------------------------
(* clear_all *)
NoTasks == [t \in Tasks |-> NoEntry]
NoStatuses == [s \in Statuses |-> {}]
NoInstances == [i \in Instances |-> {}]
NoStats == [total_tasks |-> 0, queued |-> 0, scheduled |-> 0, completed |-> 0]

ClearEntries(th) ==
    /\ At(th, "clear", "write")
    /\ tasks' = NoTasks
    /\ Continue(th, "status")
    /\ UNCHANGED <<statusIndex, instanceIndex, stats, info, cleanupVars, handlerVars>>

ClearStatus(th) ==
    /\ At(th, "clear", "status")
    /\ statusIndex' = NoStatuses
    /\ Continue(th, "instance")
    /\ UNCHANGED <<tasks, instanceIndex, stats, info, cleanupVars, handlerVars>>

ClearInstances(th) ==
    /\ At(th, "clear", "instance")
    /\ instanceIndex' = NoInstances
    /\ Continue(th, "stats")
    /\ UNCHANGED <<tasks, statusIndex, stats, info, cleanupVars, handlerVars>>

ClearStats(th) ==
    /\ At(th, "clear", "stats")
    /\ stats' = NoStats
    /\ Return(th)
    /\ UNCHANGED <<tasks, statusIndex, instanceIndex, cleanupVars, handlerVars>>

-----------------------------------------------------------------------------
(* The event loop: it takes up a handler when the one before has returned,   *)
(* or awaits.                                                                *)
Submit(t, i) ==
    /\ Idle(loop) /\ submitted[t] < MaxSubmissions
    /\ submitted' = [submitted EXCEPT ![t] = @ + 1]
    /\ answered' = answered \ {t}
    /\ Start(loop, Submission(t, i))
    /\ UNCHANGED <<entryVars, cleanupVars, awaiting, reported, cleared>>

(* An instance has a task, and may report it again. *)
MayReport(t) == submitted[t] > 0 /\ reported[t] < MaxReports

ReceiveResult(t) ==
    /\ Idle(loop) /\ MayReport(t)
    /\ reported' = [reported EXCEPT ![t] = @ + 1]
    /\ answered' = answered \cup {t}
    /\ Start(loop, ResultStored(t))
    /\ UNCHANGED <<entryVars, cleanupVars, awaiting, submitted, cleared>>

(* get_task_info, and the await of the broadcast for a task it has found.    *)
GetTaskInfo ==
    /\ At(loop, "get", "contains")
    /\ awaiting' = IF Present(TaskOf(loop))
                   THEN [awaiting EXCEPT ![TaskOf(loop)] = @ + 1] ELSE awaiting
    /\ Return(loop)
    /\ UNCHANGED <<entryVars, cleanupVars, submitted, reported, answered, cleared>>

FinishBroadcast(t) ==
    /\ Idle(loop) /\ awaiting[t] > 0
    /\ awaiting' = [awaiting EXCEPT ![t] = @ - 1]
    /\ Start(loop, Removal(t))
    /\ UNCHANGED <<entryVars, cleanupVars, submitted, reported, answered, cleared>>

NotifyTaskCompletion(t) ==
    /\ Idle(loop) /\ MayReport(t)
    /\ reported' = [reported EXCEPT ![t] = @ + 1]
    /\ Start(loop, Notification(t))
    /\ UNCHANGED <<entryVars, cleanupVars, awaiting, submitted, answered, cleared>>

ClearAll ==
    /\ Idle(loop) /\ ~cleared
    /\ cleared' = TRUE
    /\ Start(loop, <<Call("clear", "none", "none")>>)
    /\ UNCHANGED <<entryVars, cleanupVars, awaiting, submitted, reported, answered>>

-----------------------------------------------------------------------------
(* _async_cleanup.  Which completed tasks are the oldest is left open: their *)
(* times are read from a clock that may be set.                              *)
StartCleanup ==
    /\ Idle(cleaner)
    /\ uncollected' = statusIndex["completed"]
    /\ collected' = {}
    /\ pc' = [pc EXCEPT ![cleaner] = "collect"]
    /\ UNCHANGED <<entryVars, calls, info, handlerVars>>

(* Only a completed entry has a completion time. *)
Collect(t) ==
    /\ pc[cleaner] = "collect" /\ t \in uncollected
    /\ uncollected' = uncollected \ {t}
    /\ collected' = IF tasks[t].status = "completed" THEN collected \cup {t}
                                                     ELSE collected
    /\ UNCHANGED <<entryVars, calls, pc, info, handlerVars>>

(* The entry was there when it was looked for, and is not when it is read.   *)
CollectFails ==
    /\ pc[cleaner] = "collect"
    /\ \E t \in uncollected : ~Present(t)
    /\ uncollected' = {} /\ collected' = {}
    /\ Raise(cleaner)
    /\ UNCHANGED <<entryVars, handlerVars>>

(* How many of n completed tasks go. *)
Surplus(n) == IF n > MaxHistory THEN n - MaxHistory + MaxHistory \div HistoryDivisor ELSE 0

(* The calls that remove some tasks, in some order. *)
Removals(n) ==
    {[k \in 1..n |-> Call("remove", order[k], "none")] :
        order \in {o \in [1..n -> collected] : \A j, k \in 1..n : j # k => o[j] # o[k]}}

RemoveSurplus ==
    /\ pc[cleaner] = "collect" /\ uncollected = {}
    /\ \E removals \in Removals(Surplus(Cardinality(collected))) : Start(cleaner, removals)
    /\ collected' = {}
    /\ UNCHANGED <<entryVars, uncollected, handlerVars>>

-----------------------------------------------------------------------------
Init ==
    /\ tasks = NoTasks
    /\ statusIndex = NoStatuses
    /\ instanceIndex = NoInstances
    /\ stats = NoStats
    /\ calls = [th \in Threads |-> <<>>]
    /\ pc = [th \in Threads |-> "idle"]
    /\ info = [th \in Threads |-> NoEntry]
    /\ uncollected = {} /\ collected = {}
    /\ awaiting = [t \in Tasks |-> 0]
    /\ submitted = [t \in Tasks |-> 0]
    /\ reported = [t \in Tasks |-> 0]
    /\ answered = {}
    /\ cleared = FALSE

TrackerCall(th) ==
    \/ RegisterEntry(th) \/ RegisterStatus(th) \/ RegisterInstance(th) \/ RegisterStats(th)
    \/ Contains(th) \/ Fetch(th)
    \/ MarkEntry(th) \/ MarkStatus(th) \/ MarkStats(th)
    \/ RemoveEntry(th) \/ RemoveStatus(th) \/ RemoveInstance(th) \/ RemoveStats(th)
    \/ ClearEntries(th) \/ ClearStatus(th) \/ ClearInstances(th) \/ ClearStats(th)

Next ==
    \/ \E th \in Threads : TrackerCall(th)
    \/ \E t \in Tasks, i \in Instances : Submit(t, i)
    \/ \E t \in Tasks : ReceiveResult(t) \/ FinishBroadcast(t) \/ NotifyTaskCompletion(t)
    \/ GetTaskInfo
    \/ ClearAll
    \/ StartCleanup \/ CollectFails \/ RemoveSurplus
    \/ \E t \in Tasks : Collect(t)

Spec == Init /\ [][Next]_vars

-----------------------------------------------------------------------------
(* Type invariant; the statistics of queued and scheduled tasks never become *)
(* negative, the other two do (lockfree_task_tracker.py, _stats).            *)
TypeOK ==
    /\ tasks \in [Tasks -> Entries \cup {NoEntry}]
    /\ statusIndex \in [Statuses -> SUBSET Tasks]
    /\ instanceIndex \in [Instances -> SUBSET Tasks]
    /\ stats \in [total_tasks : Int, queued : Nat, scheduled : Nat, completed : Int]
    /\ info \in [Threads -> Entries \cup {NoEntry}]
    /\ uncollected \subseteq Tasks
    /\ collected \subseteq Tasks
    /\ awaiting \in [Tasks -> Nat]

(* Between two handlers, the statistics of queued and scheduled tasks count  *)
(* the entries, although the event loop updates them in another section than *)
(* the entries, from a status it read before, and the cleanup runs at any    *)
(* time.  It takes ids that are submitted once.                              *)
ActiveCounted ==
    Idle(loop) => \A s \in {"queued", "scheduled"} : stats[s] = Cardinality(Having(s))

(* As long as nothing was cleared, the statistic of completed tasks is not   *)
(* below their number, although an entry that the cleanup has removed may    *)
(* come back from the copy a mark_completed has read: mark_completed         *)
(* compares it with max_history to tell whether a cleanup is due.            *)
CompletedCovered ==
    Idle(loop) /\ ~cleared => stats.completed >= Cardinality(Having("completed"))

(* Once every handler of a task's result has returned, and the cleanup has   *)
(* too, the task has left the tracker and the index of its instance: also    *)
(* when the cleanup removes it first, or between a read and a write of the   *)
(* handler, or the handler ends with a KeyError.                             *)
ResultsForgotten ==
    (\A th \in Threads : Idle(th)) =>
        \A t \in answered :
            awaiting[t] = 0 =>
                ~Present(t) /\ \A i \in Instances : t \notin instanceIndex[i]

(* Refuted.  "Asynchronous cleanup of old completed tasks"                   *)
(* (lockfree_task_tracker.py:426): the cleanup removes an entry only while   *)
(* its task is completed.                                                    *)
CleanupTakesCompleted ==
    [][\A t \in Tasks :
          RemoveEntry(cleaner) /\ Present(t) /\ ~Present(t)' => tasks[t].status = "completed"
      ]_vars
=============================================================================
