--------------------------- MODULE ModelScheduler ---------------------------
(***************************************************************************)
(* Asynchronous scheduling of the tasks of one model: a bounded queue,     *)
(* worker threads that take batches from it, and in each worker a          *)
(* coroutine for each task of its batch, with retries.  The event loop     *)
(* submits tasks, handles their results, clears, and disables the          *)
(* scheduler, while the workers run.                                       *)
(*                                                                         *)
(* Of the tracker the scheduler knows what every tracker promises: its     *)
(* steps are those of the abstract specification.                          *)
(***************************************************************************)
EXTENDS Integers, Sequences, FiniteSets

CONSTANTS
    Tasks,            (* task ids; every asynchronous submission has its own *)
    Workers,          (* num_workers threads                                 *)
    BatchSize,        (* batch_size                                          *)
    MaxQueue,         (* max_queue_size                                      *)
    RetryAttempts,    (* retry_attempts                                      *)
    Reporting,        (* bound: the tasks whose results are submitted        *)
    MaxReports        (* bound: how often a task's result is submitted       *)

ASSUME SchedulerAssumption ==
    /\ IsFiniteSet(Tasks)
    /\ IsFiniteSet(Workers)
    /\ Reporting \subseteq Tasks
    /\ {BatchSize, MaxQueue, RetryAttempts, MaxReports} \subseteq Nat \ {0}

VARIABLES
    mode,             (* _enabled, and how far disable has come              *)
    queue,            (* pending_queue                                       *)
    worker,           (* where a worker thread is in its loop                *)
    batch,            (* the tasks a worker has collected                    *)
    job,              (* how far the scheduling of a task has come           *)
    attempts,         (* failed attempts to schedule a task                  *)
    clientsOpen,      (* async_clients has the workers' clients              *)
    totals,           (* total_scheduled, total_failed, total_retries        *)
    status,           (* the tracker's entries                               *)
    handler,          (* the event loop's handler: its next step, its task   *)
    awaiting,         (* result handlers of a task that await the broadcast  *)
    delivered,        (* instances' copies of a task                         *)
    reported,         (* results submitted for a task                        *)
    cleared,          (* history: tasks a clear took from the queue          *)
    reset             (* history: a clear has begun                          *)

queueVars == <<mode, queue, clientsOpen, cleared, reset>>
workVars == <<worker, batch, job, attempts, totals>>
loopVars == <<handler, awaiting, reported>>
vars == <<queueVars, workVars, loopVars, status, delivered>>

T == INSTANCE Tracker

Modes == {"off", "enabled", "stopping", "stopped"}
Places == {"unstarted", "loop", "collecting", "processing", "exited"}
Jobs == {"none", "queued", "attempt", "sent", "registered", "scheduled", "failed", "cleared"}
Steps == {"idle", "store", "inform", "drain", "join"}
NoTask == ""

Idle == handler.step = "idle"
Handle(step, t) == handler' = [step |-> step, task |-> t]
Done == Handle("idle", NoTask)

(* mark_completed, which does nothing for a task that is not tracked. *)
Complete(t) == T!Complete(t) \/ (~T!Tracked(t) /\ UNCHANGED status)

-----------------------------------------------------------------------------
(* The event loop.                                                           *)
EnableAsync ==
    /\ Idle /\ mode = "off"
    /\ mode' = "enabled"
    /\ UNCHANGED <<queue, clientsOpen, cleared, reset, workVars, loopVars, status, delivered>>

(* mutant: one task too many *)
FullOrRoom == Len(queue) <= MaxQueue

HasRoom == Len(queue) < MaxQueue

(* The first submission of the model starts the scheduler's workers.  A full *)
(* queue refuses the task.                                                   *)
SubmitTask(t) ==
    /\ Idle /\ mode = "enabled" /\ job[t] = "none"
    /\ worker' = [w \in Workers |-> IF worker[w] = "unstarted" THEN "loop" ELSE worker[w]]
    /\ IF HasRoom
       THEN queue' = Append(queue, t) /\ job' = [job EXCEPT ![t] = "queued"]
       ELSE UNCHANGED <<queue, job>>
    /\ UNCHANGED <<mode, clientsOpen, cleared, reset, batch, attempts, totals,
                   loopVars, status, delivered>>

(* An instance submits the result of a task it was given: the task is marked *)
(* completed, its result is stored, its entry is read for the broadcast.     *)
ReceiveResult(t) ==
    /\ Idle /\ t \in Reporting /\ delivered[t] > 0 /\ reported[t] < MaxReports
    /\ reported' = [reported EXCEPT ![t] = @ + 1]
    /\ Complete(t)
    /\ Handle("store", t)
    /\ UNCHANGED <<queueVars, workVars, awaiting, delivered>>

StoreResult ==
    /\ handler.step = "store"
    /\ Complete(handler.task)
    /\ Handle("inform", handler.task)
    /\ UNCHANGED <<queueVars, workVars, awaiting, reported, delivered>>

AwaitBroadcast ==
    /\ handler.step = "inform"
    /\ awaiting' = IF T!Tracked(handler.task)
                   THEN [awaiting EXCEPT ![handler.task] = @ + 1] ELSE awaiting
    /\ Done
    /\ UNCHANGED <<queueVars, workVars, reported, status, delivered>>

FinishBroadcast(t) ==
    /\ Idle /\ awaiting[t] > 0
    /\ awaiting' = [awaiting EXCEPT ![t] = @ - 1]
    /\ T!Remove(t)
    /\ UNCHANGED <<queueVars, workVars, handler, reported, delivered>>

(* POST /task/clear empties the tracker, then the queue of an enabled        *)
(* scheduler; the workers may take tasks in between.                         *)
ClearTracker ==
    /\ Idle /\ ~reset
    /\ reset' = TRUE
    /\ T!Clear
    /\ IF mode = "enabled" THEN Handle("drain", NoTask) ELSE UNCHANGED handler
    /\ UNCHANGED <<mode, queue, clientsOpen, cleared, workVars, awaiting, reported, delivered>>

DrainQueue ==
    /\ handler.step = "drain"
    /\ cleared' = {queue[k] : k \in DOMAIN queue}
    /\ job' = [t \in Tasks |-> IF t \in cleared' THEN "cleared" ELSE job[t]]
    /\ queue' = <<>>
    /\ Done
    /\ UNCHANGED <<mode, clientsOpen, reset, worker, batch, attempts, totals,
                   awaiting, reported, status, delivered>>

(* disable: the workers are told to stop and joined, each for a while only.  *)
DisableAsync ==
    /\ Idle /\ mode = "enabled"
    /\ mode' = "stopping"
    /\ Handle("join", NoTask)
    /\ UNCHANGED <<queue, clientsOpen, cleared, reset, workVars, awaiting, reported,
                   status, delivered>>

EndJoin ==
    /\ handler.step = "join"
    /\ mode' = "stopped"
    /\ clientsOpen' = FALSE
    /\ Done
    /\ UNCHANGED <<queue, cleared, reset, workVars, awaiting, reported, status, delivered>>
-----------------------------------------------------------------------------
(* A worker thread.                                                          *)
(* mutant: the loop does not look at the stop event *)
LoopOn(w) ==
    /\ worker[w] = "loop"
    /\ worker' = [worker EXCEPT ![w] = "collecting"]
    /\ UNCHANGED <<queueVars, batch, job, attempts, totals, loopVars, status, delivered>>

LoopTop(w) ==
    /\ worker[w] = "loop"
    /\ worker' = [worker EXCEPT ![w] = IF mode \in {"stopping", "stopped"}
                                       THEN "exited" ELSE "collecting"]
    /\ UNCHANGED <<queueVars, batch, job, attempts, totals, loopVars, status, delivered>>

CollectTask(w) ==
    /\ worker[w] = "collecting"
    /\ queue # <<>> /\ Cardinality(batch[w]) < BatchSize
    /\ batch' = [batch EXCEPT ![w] = @ \cup {Head(queue)}]
    /\ job' = [job EXCEPT ![Head(queue)] = "attempt"]
    /\ queue' = Tail(queue)
    /\ UNCHANGED <<mode, clientsOpen, cleared, reset, worker, attempts, totals,
                   loopVars, status, delivered>>

(* mutant: an empty batch ends the worker *)
ExitWhenEmpty(w) ==
    /\ worker[w] = "collecting"
    /\ queue = <<>> \/ Cardinality(batch[w]) = BatchSize
    /\ worker' = [worker EXCEPT ![w] = IF batch[w] = {} THEN "exited" ELSE "processing"]
    /\ UNCHANGED <<queueVars, batch, job, attempts, totals, loopVars, status, delivered>>

(* The batch is full, or the queue stayed empty for a moment.  An empty      *)
(* batch makes the worker wait a while for a notification and start over.    *)
BeginBatch(w) ==
    /\ worker[w] = "collecting"
    /\ queue = <<>> \/ Cardinality(batch[w]) = BatchSize
    /\ worker' = [worker EXCEPT ![w] = IF batch[w] = {} THEN "loop" ELSE "processing"]
    /\ UNCHANGED <<queueVars, batch, job, attempts, totals, loopVars, status, delivered>>

(* A worker runs one coroutine at a time, to its next await: none of the     *)
(* others is between registering its task and marking it.                    *)
Turn(w, t) ==
    /\ worker[w] = "processing" /\ t \in batch[w]
    /\ \A u \in batch[w] \ {t} : job[u] # "registered"

(* An exception in an attempt: retry after a delay, or give up.              *)
Attempted(t) ==
    /\ attempts' = [attempts EXCEPT ![t] = @ + 1]
    /\ IF attempts[t] + 1 < RetryAttempts
       THEN /\ job' = [job EXCEPT ![t] = "attempt"]
            /\ totals' = [totals EXCEPT !.retries = @ + 1]
       ELSE /\ job' = [job EXCEPT ![t] = "failed"]
            /\ UNCHANGED totals

NoInstances(w, t) ==
    /\ Turn(w, t) /\ job[t] = "attempt"
    /\ job' = [job EXCEPT ![t] = "failed"]
    /\ UNCHANGED <<queueVars, worker, batch, attempts, totals, loopVars, status, delivered>>

(* The selection fails, the clients are gone, or the request does not arrive. *)
AttemptFails(w, t) ==
    /\ Turn(w, t) /\ job[t] = "attempt"
    /\ Attempted(t)
    /\ UNCHANGED <<queueVars, worker, batch, loopVars, status, delivered>>

(* An instance is selected and has received the task; the coroutine awaits   *)
(* the response.  A slow request is one whose response takes longer.         *)
Deliver(w, t) ==
    /\ Turn(w, t) /\ job[t] = "attempt" /\ clientsOpen
    /\ job' = [job EXCEPT ![t] = "sent"]
    /\ delivered' = [delivered EXCEPT ![t] = @ + 1]
    /\ UNCHANGED <<queueVars, worker, batch, attempts, totals, loopVars, status>>

ResponseLost(w, t) ==
    /\ Turn(w, t) /\ job[t] = "sent"
    /\ Attempted(t)
    /\ UNCHANGED <<queueVars, worker, batch, loopVars, status, delivered>>

RegisterTask(w, t) ==
    /\ Turn(w, t) /\ job[t] = "sent"
    /\ T!Register(t)
    /\ job' = [job EXCEPT ![t] = "registered"]
    /\ UNCHANGED <<queueVars, worker, batch, attempts, totals, loopVars, delivered>>

(* mutant: the attempts go on after one that succeeded *)
MarkAndRetry(w, t) ==
    /\ Turn(w, t) /\ job[t] = "registered"
    /\ T!Schedule(t) \/ (~T!Tracked(t) /\ UNCHANGED status)
    /\ job' = [job EXCEPT ![t] = "attempt"]
    /\ UNCHANGED <<queueVars, worker, batch, attempts, totals, loopVars, delivered>>

(* mutant: registered after it was marked *)
MarkThenRegister(w, t) ==
    /\ Turn(w, t) /\ job[t] = "registered"
    /\ T!Register(t)
    /\ job' = [job EXCEPT ![t] = "scheduled"]
    /\ UNCHANGED <<queueVars, worker, batch, attempts, totals, loopVars, delivered>>

(* mark_scheduled, and the queue update, which may fail and is only logged.  *)
MarkScheduled(w, t) ==
    /\ Turn(w, t) /\ job[t] = "registered"
    /\ T!Schedule(t) \/ (~T!Tracked(t) /\ UNCHANGED status)
    /\ job' = [job EXCEPT ![t] = "scheduled"]
    /\ UNCHANGED <<queueVars, worker, batch, attempts, totals, loopVars, delivered>>

(* mutant: tasks given up at once are not counted *)
RetriedFailures(w) == {t \in batch[w] : job[t] = "failed" /\ attempts[t] > 0}

Successes(w) == {t \in batch[w] : job[t] = "scheduled"}
Failures(w) == {t \in batch[w] : job[t] = "failed"}

EndBatch(w) ==
    /\ worker[w] = "processing"
    /\ \A t \in batch[w] : job[t] \in {"scheduled", "failed"}
    /\ totals' = [totals EXCEPT !.scheduled = @ + Cardinality(Successes(w)),
                                !.failed = @ + Cardinality(Failures(w))]
    /\ batch' = [batch EXCEPT ![w] = {}]
    /\ worker' = [worker EXCEPT ![w] = "loop"]
    /\ UNCHANGED <<queueVars, job, attempts, loopVars, status, delivered>>

-----------------------------------------------------------------------------
Init ==
    /\ mode = "off" /\ queue = <<>>
    /\ worker = [w \in Workers |-> "unstarted"]
    /\ batch = [w \in Workers |-> {}]
    /\ job = [t \in Tasks |-> "none"]
    /\ attempts = [t \in Tasks |-> 0]
    /\ clientsOpen = TRUE
    /\ totals = [scheduled |-> 0, failed |-> 0, retries |-> 0]
    /\ T!Init
    /\ handler = [step |-> "idle", task |-> NoTask]
    /\ awaiting = [t \in Tasks |-> 0]
    /\ delivered = [t \in Tasks |-> 0]
    /\ reported = [t \in Tasks |-> 0]
    /\ cleared = {} /\ reset = FALSE

EventLoop ==
    \/ EnableAsync \/ ClearTracker \/ DrainQueue \/ DisableAsync \/ EndJoin
    \/ StoreResult \/ AwaitBroadcast
    \/ \E t \in Tasks : SubmitTask(t) \/ ReceiveResult(t) \/ FinishBroadcast(t)

Coroutine(w, t) ==
    \/ NoInstances(w, t) \/ AttemptFails(w, t) \/ Deliver(w, t)
    \/ ResponseLost(w, t) \/ RegisterTask(w, t) \/ MarkScheduled(w, t)

WorkerLoop(w) ==
    \/ LoopTop(w) \/ CollectTask(w) \/ BeginBatch(w) \/ EndBatch(w)
    \/ \E t \in Tasks : Coroutine(w, t)

Next == EventLoop \/ \E w \in Workers : WorkerLoop(w)

(* A worker thread runs until it is stopped, and a request ends within the   *)
(* client's timeout.                                                         *)
Fairness == \A w \in Workers : WF_vars(WorkerLoop(w))

Spec == Init /\ [][Next]_vars /\ Fairness

-----------------------------------------------------------------------------
Collected == UNION {batch[w] : w \in Workers}
InQueue == {queue[k] : k \in DOMAIN queue}

(* Type invariant; the counts of model_scheduler.py's statistics are natural *)
(* numbers.                                                                  *)
TypeOK ==
    /\ mode \in Modes
    /\ queue \in Seq(Tasks) /\ Len(queue) <= MaxQueue
    /\ worker \in [Workers -> Places]
    /\ batch \in [Workers -> SUBSET Tasks]
    /\ job \in [Tasks -> Jobs]
    /\ attempts \in [Tasks -> 0..RetryAttempts]
    /\ clientsOpen \in BOOLEAN
    /\ totals \in [scheduled : Nat, failed : Nat, retries : Nat]
    /\ status \in [Tasks -> {"absent", "queued", "scheduled", "completed"}]
    /\ handler \in [step : Steps, task : Tasks \cup {NoTask}]
    /\ awaiting \in [Tasks -> Nat] /\ delivered \in [Tasks -> Nat]
    /\ reported \in [Tasks -> Nat]
    /\ cleared \subseteq Tasks /\ reset \in BOOLEAN

(* No task is lost or taken twice between the queue, which two workers and a *)
(* clear empty at the same time, the batches and the statistics: every       *)
(* accepted task is in the queue, in one worker's batch, cleared, or counted *)
(* as scheduled or failed.                                                   *)
TasksConserved ==
    /\ \A v, w \in Workers : v # w => batch[v] \cap batch[w] = {}
    /\ Cardinality({t \in Tasks : job[t] # "none"}) =
           Len(queue) + Cardinality(Collected) + Cardinality(cleared)
             + totals.scheduled + totals.failed

(* A task gets to a second instance only after an attempt that failed:       *)
(* without timeouts no task runs twice, whatever the retries.                *)
OneCopyPerAttempt == \A t \in Tasks : delivered[t] <= attempts[t] + 1

(* Unless a clear has run, a task that was scheduled and has not reported a  *)
(* result is in the tracker as scheduled.                                    *)
ScheduledTracked ==
    ~reset => \A t \in Tasks :
                 job[t] = "scheduled" /\ reported[t] = 0 => status[t] = "scheduled"

(* An accepted task is not left in the queue or in a batch: it is scheduled, *)
(* or given up, or cleared, unless the scheduler is disabled.                *)
AcceptedEnds ==
    \A t \in Tasks :
        job[t] = "queued" ~> \/ job[t] \in {"scheduled", "failed", "cleared"}
                             \/ mode \in {"stopping", "stopped"}

(* A scheduler that is disabled comes to rest: its workers leave their loops *)
(* after the batch they have, although its clients are closed under them.    *)
WorkersExit ==
    mode = "stopping" ~> \A w \in Workers : worker[w] \in {"unstarted", "exited"}

(* Refuted.  "Register task in tracker (must be done before dispatch)"       *)
(* (core.py:754): a task whose result was handled leaves the tracker.        *)
HandledForgotten ==
    \A t \in Tasks :
        job[t] = "scheduled" /\ reported[t] > 0 /\ awaiting[t] = 0 /\ Idle
            => status[t] = "absent"
=============================================================================
