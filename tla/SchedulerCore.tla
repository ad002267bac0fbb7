--------------------------- MODULE SchedulerCore ---------------------------
(***************************************************************************)
(* The synchronous scheduling path: the API handlers, the core's           *)
(* schedule() and handle_task_completion(), the background queue-update    *)
(* worker and the ShortestQueue strategy's bookkeeping.                    *)
(*                                                                         *)
(* Two threads share the strategy's queue states.  Every API endpoint is   *)
(* an `async def` that calls the core without awaiting, so one handler is  *)
(* one step of the event-loop thread (a result handler is two: it awaits   *)
(* the broadcast in between).  The queue-update worker is a second thread: *)
(* it reads a queue state in one step and writes it in a later one (the    *)
(* fields it assigns one after the other are written in one step).         *)
(*                                                                         *)
(* Data: expected_ms is a natural number, error_ms is represented by its   *)
(* square (`variance`), so that the code's sqrt(a^2 + b^2) is a sum and    *)
(* its comparison error > k * expected is variance > k^2 * expected^2.     *)
(***************************************************************************)
EXTENDS Integers, Sequences, FiniteSets

CONSTANTS
    Tasks,          (* task ids                                              *)
    Instances,      (* registered TaskInstances that serve the model         *)
    Rank,           (* Rank[i]: the order of str(uuid), the last tie-breaker *)
    Predictions,    (* predictions [expected, variance] a predictor may give *)
    NoPrediction,   (* a task that has no entry in pending_tasks             *)
    ExecTimes,      (* execution times an instance may report                *)
    ThresholdSq,    (* error_recalc_threshold squared (default 2.0 ^ 2)      *)
    Faults,         (* the environment events that occur, see FaultKinds     *)
    MaxAttempts,    (* bound: submissions of one task id                     *)
    MaxQueue,       (* bound: length of the update queue                     *)
    MaxHandlers     (* bound: result handlers of one task awaiting broadcast *)

(* unpredicted: the predictor fails; lost: an enqueue fails undelivered;     *)
(* timeout: an enqueue is delivered and reported as failed; duplicate: an    *)
(* instance reports a result again; clear: POST /task/clear; restrategy:     *)
(* POST /scheduler/set; legacy: POST /notify/task_complete.                  *)
FaultKinds == {"unpredicted", "lost", "timeout", "duplicate", "clear",
               "restrategy", "legacy"}

ASSUME CoreAssumption ==
    /\ Instances # {}
    /\ IsFiniteSet(Tasks)
    /\ Rank \in [Instances -> Nat]
    /\ \A i, j \in Instances : Rank[i] = Rank[j] => i = j
    /\ Predictions \subseteq [expected : Nat, variance : Nat]
    /\ NoPrediction \notin Predictions
    /\ ExecTimes \subseteq Nat
    /\ ThresholdSq \in Nat
    /\ Faults \subseteq FaultKinds
    /\ MaxAttempts \in Nat /\ MaxQueue \in Nat /\ MaxHandlers \in Nat

VARIABLES
    tracker,        (* task_tracker: the status of each task                *)
    requestTimes,   (* request_times: tasks whose arrival time is stored    *)
    updateQueue,    (* _queue_update_queue                                  *)
    worker,         (* the queue-update worker and its local variables      *)
    pending,        (* queue_states[i].pending_tasks                        *)
    expected,       (* queue_states[i].expected_ms                          *)
    variance,       (* queue_states[i].error_ms ^ 2                         *)
    taskCount,      (* queue_states[i].task_count                           *)
    running,        (* tasks an instance may still report a result for      *)
    handlers,       (* result handlers of a task that await the broadcast   *)
    attempts,       (* history: how often a task id was submitted           *)
    overtaken       (* history: ids whose last submission came while a      *)
                    (* result handler of the id awaited its broadcast       *)

queueStates == <<pending, expected, variance, taskCount>>
vars == <<tracker, requestTimes, updateQueue, worker, queueStates, running,
          handlers, attempts, overtaken>>

Status == {"absent", "scheduled", "completed"}

ScheduleUpdates == [type : {"schedule"}, task : Tasks, inst : Instances]
CompletionUpdates ==
    [type : {"completion"}, task : Tasks, inst : Instances, time : ExecTimes]
Update == ScheduleUpdates \cup CompletionUpdates

ScheduleUpdate(t, i) == [type |-> "schedule", task |-> t, inst |-> i]
CompletionUpdate(t, i, x) ==
    [type |-> "completion", task |-> t, inst |-> i, time |-> x]

(* The worker's pc: idle, or the next thing it does with the update it took. *)
Idle == [pc |-> "idle"]
SchedulePcs == {"schedule", "accumulate"}
CompletionPcs == {"completion", "subtract", "recalculate", "override"}
WorkerIn(pcs, items) ==
    [pc : pcs, item : items, expected : Nat, variance : Nat,
     todo : SUBSET Tasks, size : Nat]
BusyWorker == WorkerIn(SchedulePcs, ScheduleUpdates)
                  \cup WorkerIn(CompletionPcs, CompletionUpdates)

PendingTasks(i) == {t \in Tasks : pending[i][t] # NoPrediction}

-----------------------------------------------------------------------------
(* Selection: min over (expected_ms, error_ms, task_count, str(uuid)).       *)

Precedes(i, j) ==
    \/ expected[i] < expected[j]
    \/ /\ expected[i] = expected[j]
       /\ \/ variance[i] < variance[j]
          \/ /\ variance[i] = variance[j]
             /\ \/ taskCount[i] < taskCount[j]
                \/ taskCount[i] = taskCount[j] /\ Rank[i] <= Rank[j]

Selected(i) == \A j \in Instances : Precedes(i, j)

Room == Len(updateQueue) < MaxQueue

-----------------------------------------------------------------------------
(* The event-loop thread.                                                    *)

(* POST /queue/submit: schedule() selects, registers and marks the task,     *)
(* stores its arrival time, then enqueues it over HTTP; only a successful    *)
(* enqueue queues the strategy's update.  A failed enqueue is raised to the  *)
(* client and nothing is rolled back.                                        *)
Register(t) ==
    /\ attempts[t] < MaxAttempts
    /\ attempts' = [attempts EXCEPT ![t] = @ + 1]
    /\ tracker' = [tracker EXCEPT ![t] = "scheduled"]
    /\ requestTimes' = requestTimes \cup {t}
    /\ overtaken' = IF handlers[t] > 0 THEN overtaken \cup {t} ELSE overtaken \ {t}
    /\ UNCHANGED <<worker, queueStates, handlers>>

Deliver(t, i) == running' = [running EXCEPT ![i] = @ \cup {t}]

(* mutant: a last-in-first-out queue *)
SubmitAtFront(u) == updateQueue' = <<u>> \o updateQueue

SubmitQueueUpdate(u) == updateQueue' = Append(updateQueue, u)

Schedule(t, i) ==
    /\ Room
    /\ Selected(i)
    /\ Register(t)
    /\ Deliver(t, i)
    /\ SubmitQueueUpdate(ScheduleUpdate(t, i))

EnqueueTimesOut(t, i) ==
    /\ "timeout" \in Faults
    /\ Selected(i)
    /\ Register(t)
    /\ Deliver(t, i)
    /\ UNCHANGED updateQueue

EnqueueLost(t) ==
    /\ "lost" \in Faults
    /\ Register(t)
    /\ UNCHANGED <<running, updateQueue>>

(* mutant: the completion is not marked before the broadcast *)
CompleteUnmarked(t) == UNCHANGED tracker

MarkCompleted(t) ==
    tracker' = [tracker EXCEPT ![t] = IF @ = "absent" THEN @ ELSE "completed"]

(* handle_task_completion: mark_completed (which ignores a task that is not  *)
(* tracked), forget the arrival time, queue the completion update.  A result *)
(* that the instance will report again stays in `running`.                   *)
HandleTaskCompletion(t, i, x) ==
    /\ Room
    /\ t \in running[i]
    /\ \/ running' = [running EXCEPT ![i] = @ \ {t}]
       \/ "duplicate" \in Faults /\ UNCHANGED running
    /\ MarkCompleted(t)
    /\ requestTimes' = requestTimes \ {t}
    /\ SubmitQueueUpdate(CompletionUpdate(t, i, x))

(* POST /result/submit and the result messages of /ws/result_submit, up to   *)
(* the await: a tracked task has its event broadcast.                        *)
ReceiveResult(t, i, x) ==
    /\ HandleTaskCompletion(t, i, x)
    /\ IF tracker[t] # "absent"
       THEN /\ handlers[t] < MaxHandlers
            /\ handlers' = [handlers EXCEPT ![t] = @ + 1]
       ELSE UNCHANGED handlers
    /\ UNCHANGED <<worker, queueStates, attempts, overtaken>>

(* The rest of the handler, after the await: the task leaves the tracker.    *)
FinishBroadcast(t) ==
    /\ handlers[t] > 0
    /\ handlers' = [handlers EXCEPT ![t] = @ - 1]
    /\ tracker' = [tracker EXCEPT ![t] = "absent"]
    /\ UNCHANGED <<requestTimes, updateQueue, worker, queueStates, running,
                   attempts, overtaken>>

(* POST /notify/task_complete, the legacy endpoint: neither broadcasts nor   *)
(* removes.                                                                  *)
NotifyTaskCompletion(t, i, x) ==
    /\ "legacy" \in Faults
    /\ HandleTaskCompletion(t, i, x)
    /\ UNCHANGED <<worker, queueStates, handlers, attempts, overtaken>>

(* POST /task/clear: the tracker and the strategy's queue states are reset;  *)
(* request_times and the queued updates stay.                                *)
ResetQueueStates ==
    /\ pending' = [i \in Instances |-> [t \in Tasks |-> NoPrediction]]
    /\ expected' = [i \in Instances |-> 0]
    /\ variance' = [i \in Instances |-> 0]
    /\ taskCount' = [i \in Instances |-> 0]

ClearTasks ==
    /\ "clear" \in Faults
    /\ tracker' = [t \in Tasks |-> "absent"]
    /\ ResetQueueStates
    /\ UNCHANGED <<requestTimes, updateQueue, worker, running, handlers,
                   attempts, overtaken>>

(* POST /scheduler/set with shortest_queue: a new strategy object with fresh *)
(* queue states.  What the worker still does to the old object is not seen   *)
(* by anyone, so the worker is idle.                                         *)
SetStrategy ==
    /\ "restrategy" \in Faults
    /\ ResetQueueStates
    /\ worker' = Idle
    /\ UNCHANGED <<tracker, requestTimes, updateQueue, running, handlers,
                   attempts, overtaken>>

-----------------------------------------------------------------------------
(* The queue-update worker thread.                                           *)

Inst == worker.item.inst
Task == worker.item.task

Busy(u, pc, e, v) ==
    [pc |-> pc, item |-> u, expected |-> e, variance |-> v,
     todo |-> {}, size |-> 0]

WorkerOnly == UNCHANGED <<tracker, requestTimes, running, handlers, attempts,
                          overtaken>>

TakeUpdate ==
    /\ worker.pc = "idle"
    /\ updateQueue # <<>>
    /\ worker' = Busy(Head(updateQueue), Head(updateQueue).type, 0, 0)
    /\ updateQueue' = Tail(updateQueue)
    /\ UNCHANGED queueStates
    /\ WorkerOnly

(* update_queue: no usable prediction, the update is dropped.                *)
SkipPrediction ==
    /\ "unpredicted" \in Faults
    /\ worker.pc = "schedule"
    /\ worker' = Idle
    /\ UNCHANGED <<updateQueue, queueStates>>
    /\ WorkerOnly

(* update_queue: cache the prediction and read the old sums ...              *)
CachePrediction(p) ==
    /\ worker.pc = "schedule"
    /\ pending' = [pending EXCEPT ![Inst][Task] = p]
    /\ worker' = Busy(worker.item, "accumulate",
                      expected[Inst] + p.expected, variance[Inst] + p.variance)
    /\ UNCHANGED <<updateQueue, expected, variance, taskCount>>
    /\ WorkerOnly

(* ... then write the new ones.                                              *)
Accumulate ==
    /\ worker.pc = "accumulate"
    /\ expected' = [expected EXCEPT ![Inst] = worker.expected]
    /\ variance' = [variance EXCEPT ![Inst] = worker.variance]
    /\ taskCount' = [taskCount EXCEPT ![Inst] = @ + 1]
    /\ worker' = Idle
    /\ UNCHANGED <<updateQueue, pending>>
    /\ WorkerOnly

(* update_queue_on_completion: read the old sums, drop the prediction ...    *)
PopPending ==
    /\ worker.pc = "completion"
    /\ pending' = [pending EXCEPT ![Inst][Task] = NoPrediction]
    /\ worker' = Busy(worker.item, "subtract", expected[Inst], variance[Inst])
    /\ UNCHANGED <<updateQueue, expected, variance, taskCount>>
    /\ WorkerOnly

(* ... subtract the execution time, and decide whether to recalculate.       *)
(* mutant: max(0, ...) forgotten *)
Difference(a, b) == a - b

Monus(a, b) == IF a > b THEN a - b ELSE 0

(* mutant: the threshold applied to the sum before the subtraction *)
ExceedsOldThreshold(rest) ==
    rest > 0 /\ worker.variance > ThresholdSq * worker.expected * worker.expected

ExceedsThreshold(rest) ==
    rest > 0 /\ worker.variance > ThresholdSq * rest * rest

(* mutant: the recalculation returns before the count is lowered *)
CountUnlessRecalculated(rest) ==
    IF ExceedsThreshold(rest) THEN taskCount[Inst] ELSE Monus(taskCount[Inst], 1)

CountAfter(rest) == Monus(taskCount[Inst], 1)

Subtract ==
    LET rest == Monus(worker.expected, worker.item.time)
    IN  /\ worker.pc = "subtract"
        /\ expected' = [expected EXCEPT ![Inst] = rest]
        /\ taskCount' = [taskCount EXCEPT ![Inst] = CountAfter(rest)]
        /\ worker' = IF ExceedsThreshold(rest)
                     THEN [Busy(worker.item, "recalculate", 0, 0) EXCEPT
                              !.todo = PendingTasks(Inst),
                              !.size = Cardinality(PendingTasks(Inst))]
                     ELSE Idle
        /\ UNCHANGED <<updateQueue, pending, variance>>
        /\ WorkerOnly

(* The loop over pending_tasks.values() ...                                  *)
SizeUnchanged == Cardinality(PendingTasks(Inst)) = worker.size

AddPending(t) ==
    /\ worker.pc = "recalculate"
    /\ SizeUnchanged
    /\ t \in worker.todo \cap PendingTasks(Inst)
    /\ worker' = [worker EXCEPT !.expected = @ + pending[Inst][t].expected,
                                !.variance = @ + pending[Inst][t].variance,
                                !.todo = @ \ {t}]
    /\ UNCHANGED <<updateQueue, queueStates>>
    /\ WorkerOnly

(* ... raises when a clear changed the dictionary under it ...               *)
AbortRecalculation ==
    /\ worker.pc = "recalculate"
    /\ ~SizeUnchanged
    /\ worker' = Idle
    /\ UNCHANGED <<updateQueue, queueStates>>
    /\ WorkerOnly

(* ... and otherwise ends, and its sums override the queue state's.          *)
EndLoop ==
    /\ worker.pc = "recalculate"
    /\ SizeUnchanged
    /\ worker.todo = {}
    /\ worker' = [worker EXCEPT !.pc = "override"]
    /\ UNCHANGED <<updateQueue, queueStates>>
    /\ WorkerOnly

Override ==
    /\ worker.pc = "override"
    /\ expected' = [expected EXCEPT ![Inst] = worker.expected]
    /\ variance' = [variance EXCEPT ![Inst] = worker.variance]
    /\ worker' = Idle
    /\ UNCHANGED <<updateQueue, pending, taskCount>>
    /\ WorkerOnly

-----------------------------------------------------------------------------
Init ==
    /\ tracker = [t \in Tasks |-> "absent"]
    /\ requestTimes = {}
    /\ updateQueue = <<>>
    /\ worker = Idle
    /\ pending = [i \in Instances |-> [t \in Tasks |-> NoPrediction]]
    /\ expected = [i \in Instances |-> 0]
    /\ variance = [i \in Instances |-> 0]
    /\ taskCount = [i \in Instances |-> 0]
    /\ running = [i \in Instances |-> {}]
    /\ handlers = [t \in Tasks |-> 0]
    /\ attempts = [t \in Tasks |-> 0]
    /\ overtaken = {}

EventLoop ==
    \/ \E t \in Tasks, i \in Instances : Schedule(t, i)
    \/ \E t \in Tasks, i \in Instances : EnqueueTimesOut(t, i)
    \/ \E t \in Tasks : EnqueueLost(t)
    \/ \E t \in Tasks, i \in Instances, x \in ExecTimes : ReceiveResult(t, i, x)
    \/ \E t \in Tasks : FinishBroadcast(t)
    \/ \E t \in Tasks, i \in Instances, x \in ExecTimes :
           NotifyTaskCompletion(t, i, x)
    \/ ClearTasks
    \/ SetStrategy

QueueUpdateWorker ==
    \/ TakeUpdate
    \/ SkipPrediction
    \/ \E p \in Predictions : CachePrediction(p)
    \/ Accumulate
    \/ PopPending
    \/ Subtract
    \/ \E t \in Tasks : AddPending(t)
    \/ AbortRecalculation
    \/ EndLoop
    \/ Override

Next == EventLoop \/ QueueUpdateWorker

Spec == Init /\ [][Next]_vars

(* The worker is a thread that loops until shutdown: it keeps running.  No   *)
(* fairness on the event loop: clients and instances may stop at any time.   *)
FairSpec == Spec /\ WF_vars(QueueUpdateWorker)

-----------------------------------------------------------------------------
(* Type invariant; expected time and task counts are natural numbers, because*)
(* the strategy clamps what a completion subtracts.                          *)
TypeOK ==
    /\ tracker \in [Tasks -> Status]
    /\ requestTimes \subseteq Tasks
    /\ updateQueue \in Seq(Update)
    /\ worker \in {Idle} \cup BusyWorker
    /\ pending \in [Instances -> [Tasks -> Predictions \cup {NoPrediction}]]
    /\ expected \in [Instances -> Nat]
    /\ variance \in [Instances -> Nat]
    /\ taskCount \in [Instances -> Nat]
    /\ running \in [Instances -> SUBSET Tasks]
    /\ handlers \in [Tasks -> Nat]
    /\ attempts \in [Tasks -> Nat]
    /\ overtaken \subseteq Tasks

(* A prediction never outlives its task: while one is charged to an instance *)
(* the task's result is still to come, or its completion update is on its    *)
(* way to the strategy.  This is what the order of the two updates is for:   *)
(* schedule() queues its update before a result handler can run, and the     *)
(* queue is FIFO.  A completion processed first would leave the prediction   *)
(* in pending_tasks, and in every recalculation, for ever.                   *)
Queued(type, t, i) ==
    \E n \in 1..Len(updateQueue) :
        /\ updateQueue[n].type = type
        /\ updateQueue[n].task = t
        /\ updateQueue[n].inst = i

InHand(pcs, t, i) == worker.pc \in pcs /\ Task = t /\ Inst = i

PendingBacked ==
    \A i \in Instances, t \in Tasks :
        pending[i][t] # NoPrediction =>
            \/ t \in running[i]
            \/ Queued("completion", t, i)
            \/ InHand({"completion"}, t, i)

(* An instance is never charged for more tasks than it has outstanding: task *)
(* counts are raised and lowered by different handlers, a failed prediction  *)
(* skips the raise but not the later lowering, results may be repeated, and  *)
(* a reset may fall between any two steps of the worker.  In particular an   *)
(* instance with nothing outstanding is charged for nothing.  (Task ids are  *)
(* submitted once here: a reused id has one entry for two submissions.)      *)
Outstanding(i) ==
    {t \in Tasks : \/ t \in running[i]
                   \/ Queued("completion", t, i)
                   \/ InHand({"completion", "subtract"}, t, i)}

CountBacked ==
    \A i \in Instances : taskCount[i] <= Cardinality(Outstanding(i))

(* When nothing is running and every update has been processed, no instance  *)
(* shows expected time.  BaseStrategy documents that a completion subtracts  *)
(* the predicted value, which would make it so; the strategy subtracts the   *)
(* execution time.                                                           *)
Quiescent ==
    /\ worker.pc = "idle"
    /\ updateQueue = <<>>
    /\ \A i \in Instances : running[i] = {}

IdleExpectedZero == Quiescent => \A i \in Instances : expected[i] = 0

(* An instance without pending predictions that still shows expected time    *)
(* has an error within the threshold: the recalculation resets what a        *)
(* completion leaves beyond it.                                              *)
IdleErrorBounded ==
    \A i \in Instances :
        worker.pc = "idle" /\ PendingTasks(i) = {} /\ expected[i] > 0 =>
            variance[i] <= ThresholdSq * expected[i] * expected[i]

(* An id may be submitted again while its results are handled.  A running    *)
(* task's entry is lost, but for a clear, only if its submission came during *)
(* the broadcast of an earlier result of the id: then the handler removes    *)
(* what it finds.  Repeated results, other handlers' removals, lost and      *)
(* legacy ones before the submission or after it do no harm.                 *)
EntryStays ==
    [][\A t \in Tasks :
          tracker[t] = "scheduled" /\ tracker'[t] = "absent" =>
              t \in overtaken \/ ClearTasks]_vars

(* Refuted.  "Removed completed task" (api.py:1062) is what the handler      *)
(* reports when it has removed the entry after the broadcast it awaited, of  *)
(* which a retry of the id has made a running task's meanwhile.              *)
OnlyCompletedRemoved ==
    [][\A t \in Tasks : FinishBroadcast(t) => tracker[t] # "scheduled"]_vars

(* While the worker runs, the prediction of a task that has reported its     *)
(* result is dropped in the end.                                             *)
PendingDrains ==
    \A i \in Instances, t \in Tasks :
        pending[i][t] # NoPrediction /\ t \notin running[i]
            ~> pending[i][t] = NoPrediction
=============================================================================
