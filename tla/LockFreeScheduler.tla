------------------------- MODULE LockFreeScheduler -------------------------
(***************************************************************************)
(* The lock-free scheduler of one model under its manager: threads submit  *)
(* tasks to the lock-free queue, worker threads collect them in batches.   *)
(*                                                                         *)
(* A batch schedules nothing: the request for the selection is built with  *)
(* fields it does not have, so that every task of every batch raises and   *)
(* is counted as failed.                                                   *)
(***************************************************************************)
EXTENDS LockFreeQueue

CONSTANT BatchSize    (* batch_size                                          *)

ASSUME BatchAssumption == BatchSize \in Nat \ {0}

VARIABLES
    manager,          (* the manager: "new", "running" or "stopped"          *)
    exists,           (* the model has a scheduler                           *)
    stopping,         (* _stop_event                                         *)
    worker,           (* where a worker thread is in its loop                *)
    batch,            (* the tasks it has collected                          *)
    totals            (* total_scheduled and total_failed                    *)

controlVars == <<manager, exists, stopping>>
vars == <<queueVars, controlVars, worker, batch, totals>>

Workers == Consumers

-----------------------------------------------------------------------------
(* The manager.                                                              *)
StartWorkers == worker' = [w \in Workers |-> "top"]

CreateScheduler ==
    /\ ~exists
    /\ exists' = TRUE
    /\ IF manager = "running" THEN StartWorkers ELSE UNCHANGED worker
    /\ UNCHANGED <<queueVars, manager, stopping, batch, totals>>

StartManager ==
    /\ manager = "new"
    /\ manager' = "running"
    /\ IF exists THEN StartWorkers ELSE UNCHANGED worker
    /\ UNCHANGED <<queueVars, exists, stopping, batch, totals>>

(* The stop ends by shutting down the pool that a start would need.          *)
StopManager ==
    /\ manager = "running"
    /\ manager' = "stopped"
    /\ stopping' = exists
    /\ UNCHANGED <<queueVars, exists, worker, batch, totals>>

(* Submissions do not ask whether the workers run.                           *)
SubmitTask(p, x) ==
    /\ exists /\ Fresh(x)
    /\ BeginPut(p, x)
    /\ UNCHANGED <<controlVars, worker, batch, totals>>

Submitting(p) == PutStep(p) /\ UNCHANGED <<controlVars, worker, batch, totals>>

-----------------------------------------------------------------------------
(* A worker thread.                                                          *)
LoopTop(w) ==
    /\ worker[w] = "top"
    /\ worker' = [worker EXCEPT ![w] = IF stopping THEN "exited" ELSE "collect"]
    /\ UNCHANGED <<queueVars, controlVars, batch, totals>>

(* get_batch                                                                 *)
CollectNext(w) ==
    /\ worker[w] = "collect" /\ Cardinality(batch[w]) < BatchSize
    /\ BeginGet(w)
    /\ UNCHANGED <<controlVars, worker, batch, totals>>

Collecting(w) ==
    /\ PopItem(w) \/ UncountItem(w)
    /\ UNCHANGED <<controlVars, worker, batch, totals>>

(* mutant: the item is dropped when the batch is complete but for it *)
CollectUnlessLast(w) ==
    /\ FreePlace(w)
    /\ batch' = IF Cardinality(batch[w]) + 1 = BatchSize /\ batch[w] # {}
                THEN batch ELSE [batch EXCEPT ![w] = @ \cup {item[w]}]
    /\ UNCHANGED <<controlVars, worker, totals>>

Collected(w) ==
    /\ FreePlace(w)
    /\ batch' = [batch EXCEPT ![w] = @ \cup {item[w]}]
    /\ UNCHANGED <<controlVars, worker, totals>>

(* mutant: an empty batch ends the worker *)
EndBatchExit(w) ==
    /\ worker[w] = "collect" /\ Outside(w)
    /\ batch[w] # {} \/ semGet = 0
    /\ worker' = [worker EXCEPT ![w] = IF batch[w] = {} THEN "exited" ELSE "process"]
    /\ UNCHANGED <<queueVars, controlVars, batch, totals>>

(* The batch is full, or its deadline has passed.                            *)
EndBatch(w) ==
    /\ worker[w] = "collect" /\ Outside(w)
    /\ batch[w] # {} \/ semGet = 0
    /\ worker' = [worker EXCEPT ![w] = IF batch[w] = {} THEN "top" ELSE "process"]
    /\ UNCHANGED <<queueVars, controlVars, batch, totals>>

(* _process_single_task_async raises before it selects an instance.          *)
Successes(w) == {}

(* The workers' own counts are added up when the tasks scheduled so far are  *)
(* a multiple of a hundred, and that is at every batch.                      *)
ProcessBatch(w) ==
    /\ worker[w] = "process"
    /\ totals' = [scheduled |-> totals.scheduled + Cardinality(Successes(w)),
                  failed |-> totals.failed + Cardinality(batch[w] \ Successes(w))]
    /\ batch' = [batch EXCEPT ![w] = {}]
    /\ worker' = [worker EXCEPT ![w] = "top"]
    /\ UNCHANGED <<queueVars, controlVars>>

-----------------------------------------------------------------------------
Init ==
    /\ QueueInit
    /\ manager = "new" /\ exists = FALSE /\ stopping = FALSE
    /\ worker = [w \in Workers |-> "unstarted"]
    /\ batch = [w \in Workers |-> {}]
    /\ totals = [scheduled |-> 0, failed |-> 0]

WorkerLoop(w) ==
    \/ LoopTop(w) \/ CollectNext(w) \/ Collecting(w) \/ Collected(w)
    \/ EndBatch(w) \/ ProcessBatch(w)

Next ==
    \/ CreateScheduler \/ StartManager \/ StopManager
    \/ \E p \in Producers : Submitting(p) \/ \E x \in Items : SubmitTask(p, x)
    \/ \E w \in Workers : WorkerLoop(w)

(* A thread that submits goes on, and so does a worker until it is stopped.  *)
Fairness ==
    /\ \A p \in Producers : WF_vars(Submitting(p))
    /\ \A w \in Workers : WF_vars(WorkerLoop(w))

Spec == Init /\ [][Next]_vars /\ Fairness

-----------------------------------------------------------------------------
InHand(w) == {x \in Items : item[w] = x \/ x \in batch[w]}

(* No task is lost or processed twice between the queue, which the workers   *)
(* empty at the same time, their batches and the statistics: each task that  *)
(* was taken from the queue is in the hands of one worker, or counted.       *)
TasksCounted ==
    /\ \A v, w \in Workers : v # w => InHand(v) \cap InHand(w) = {}
    /\ \A w \in Workers : Cardinality(InHand(w)) <= BatchSize
    /\ Cardinality(taken) = totals.scheduled + totals.failed
                              + Cardinality(UNION {InHand(w) : w \in Workers})

(* A submitted task does not stay in the queue or in a batch, whatever steps *)
(* of puts and gets come in between, unless the scheduler is stopped.        *)
SubmittedEnds ==
    \A x \in Items :
        manager = "running" /\ ~Fresh(x) ~>
            stopping \/ (x \in taken /\ \A w \in Workers : x \notin InHand(w))
=============================================================================
