# A verification of the SwarmPilot global queue scheduler

TLA+ models of the scheduler in `src/scheduler`, the TLC runs that check them on
small instances, and theorems that TLAPS proves for every instance.
`PROJECT.json` is the index: components, runs, mutants, the map from definitions
to source lines, hazards, findings and theorems. Paths below are relative to
`src/scheduler` of the repository unless they say otherwise.

To repeat a run: `tlc -config SchedulerCore.cfg MCSchedulerCore.tla`.
To repeat a proof: `tlapm SchedulerCoreProofs.tla`.

## The system

The scheduler receives tasks from clients, gives each to one of the registered
TaskInstances, and receives the results.

| Part | State | Operations | Threads |
|---|---|---|---|
| API (`api.py`) | the connection tables of `TaskEventManager` and `ResultSubmissionManager` | submit, batch, result, notify, clear, set strategy, register/remove instance, async on/off, WebSockets | one event loop |
| Core (`core.py`) | `request_times`, the update queue, instances and their id cache | `schedule`, `handle_task_completion`, `set_strategy`, add/remove instance, `shutdown` | callers' thread, and the queue-update worker |
| Strategies (`strategies/`) | `queue_states`: expected time, error, task count, pending predictions | `select`, `update_queue`, `update_queue_on_completion`, `clear_pending_tasks` | select and clear on the event loop, updates on the worker |
| Task tracker (`task_tracker.py`) | entries, counter of completed tasks | register, mark scheduled/completed, remove, clear, cleanup | any, under one lock |
| Lock-free tracker (`lockfree_task_tracker.py`), the default | entries, status and instance indexes, statistics | the same, and a periodic cleanup | any, and a cleanup thread |
| Reader-writer lock (same file) | two counters, two conditions | acquire/release for reading and writing | any |
| Model scheduler (`model_scheduler.py`) | a bounded queue and statistics for each model | submit, collect a batch, enqueue with retries, stop, clear; enable/disable | several workers with an event loop each |
| Lock-free scheduler (`lockfree_model_scheduler.py`, `lockfree_scheduler_manager.py`) | a deque-based queue and counters for each model | the same | several workers |
| Instance dispatcher (`instance_dispatcher.py`) | a task queue, a WebSocket connection, statistics | submit, dispatch over WebSocket with acknowledgement or HTTP, retry, stop | one worker for each instance |
| Predictor (`predictor*.py`), clients, models, CLI | none that changes | requests | |

How they interact. `POST /queue/submit` runs `schedule()` on the event loop: the
strategy selects, the tracker gets an entry, the task is enqueued over HTTP, and
an update is put on the core's queue. The queue-update worker takes it, asks the
predictor and charges the prediction to the instance. A result
(`POST /result/submit` or the `/ws/result_submit` socket) marks the entry
completed, queues a completion update, broadcasts the event and, after that
`await`, removes the entry. `POST /task/clear` and `POST /scheduler/set` reset
the strategy's state on the event loop while the worker may be in the middle of
an update.

What is hard here, in one list (each with its line under "hazards" in
`PROJECT.json`): two threads on the same queue states without a lock; selection
from states that lag behind; an order of updates that rests on a queue; an await
between completing and removing; retries of a task that did arrive; repeated
results; failed predictions; counters kept next to what they count; a
hand-written lock; stopping and clearing concurrently with workers.

What makes each part correct:

- scheduling path: what an instance is charged for is a task it has; completed
  tasks are forgotten in the end; a running task keeps its entry although its
  id's results are handled; the error of what remains charged stays within the threshold;
- reader-writer lock: exclusion, no lost wake-up;
- trackers: the history is bounded, and only later completions push a task out of it; statistics and
  indexes agree with the entries; a removed task stays removed;
- model schedulers: a task accepted is scheduled once, or reported as failed,
  also across stop, clear and disable;
- lock-free queue: a bounded queue, whatever steps of puts and gets interleave;
- dispatcher: what is reported as a success was received; the copies an instance
  may get are bounded by the attempts; a running dispatcher has a worker;
- connections: the limit is kept and places are given back; an instance whose
  result is acknowledged can rely on the events;
- registry and strategies: ids resolve to listed instances; a finished task does
  not weigh on the queue it was routed to; round robin is even.

## Modules

| Module | Models | Notes |
|---|---|---|
| `SchedulerCore` | `core.py` (scheduling, completion, worker), `strategies/shortest_queue.py`, and the API handlers that drive them | the core of the project |
| `MCSchedulerCore` | | values of the constants |
| `SchedulerCoreProofs` | | types, backed predictions, the error bound, how a running task's entry can be lost; counts, when ids are not reused |
| `ReadWriteLock` | `ReadWriteLock` of `lockfree_task_tracker.py` | |
| `TaskTracker` | `task_tracker.py` | |
| `TaskTrackerProofs` | | what a cleanup drops and keeps, and that it implements `Tracker` |
| `Tracker` | | the abstract specification: what the scheduler may expect of a tracker |
| `LockFreeTaskTracker` | `lockfree_task_tracker.py`, with the handlers of `api.py` and `core.py` that call it | the default tracker |
| `LockFreeTrackerProofs` | | `ReadWriteLock`: writers' exclusion, counters; `LockFreeTaskTracker`: which statistics are right, and that results leave it |
| `ModelScheduler` | `model_scheduler.py`, with the result and clear handlers | uses the steps of `Tracker` |
| `ModelSchedulerProofs` | | no task is lost or counted twice; retries duplicate a task only after a failed attempt |
| `LockFreeQueue` | the queue of `lockfree_model_scheduler.py` | four steps to a put or a get |
| `BoundedQueue` | | the abstract specification: what a pending queue promises |
| `LockFreeScheduler` | the rest of `lockfree_model_scheduler.py`, and `lockfree_scheduler_manager.py` | the queue in use: extends `LockFreeQueue` |
| `LockFreeQueueProofs` | | the books of the queue, that it implements `BoundedQueue`, and that no task is lost |
| `InstanceDispatcher` | `instance_dispatcher.py` | with the instance and the network |
| `MCInstanceDispatcher` | | symmetry |
| `InstanceDispatcherProofs` | | successes arrive, copies are bounded, a worker remains |
| `Connections` | the two WebSocket managers of `api.py` and their endpoints | |
| `MCConnections` | | symmetry |
| `ConnectionsProofs` | | the limit, the places, and what an acknowledgement means |
| `Routing` | the registry of `core.py`, `strategies/round_robin.py`, `weighted.py`, `probabilistic.py` | instances that come and go |
| `MCRouting` | | values of the constants |
| `RoutingProofs` | | the cache, the rotation, and what finished tasks leave on a queue |

### SchedulerCore

One action is one step of one thread.

*The event loop.* The endpoints are `async def` but call the core without
awaiting, so a handler runs to its end in one step. The exception is a result
handler, which awaits the broadcast: `ReceiveResult` is what comes before,
`FinishBroadcast` what comes after, and `handlers` counts the ones in between.
`Schedule`, `EnqueueTimesOut` and `EnqueueLost` are the three ends of
`schedule()`: enqueued, enqueued but reported as failed, not enqueued.
`NotifyTaskCompletion` is the legacy endpoint, `ClearTasks` is `/task/clear`,
`SetStrategy` is `/scheduler/set` with `shortest_queue`.

*The queue-update worker.* `TakeUpdate`, then for a submission
`SkipPrediction`, or `CachePrediction` and `Accumulate`; for a completion
`PopPending`, `Subtract`, and when the error is out of proportion the loop
`AddPending`, `EndLoop`, `Override`, or `AbortRecalculation` when a clear changed
the dictionary under the loop. Between reading the sums and writing them back,
any event-loop step may happen. The fields that are assigned one right after
the other are written in one step.

*Variables.* `tracker` is the status of each entry (`register_task` and
`mark_scheduled` are called together, so "queued" is never seen); `running` is
the environment's: tasks for which an instance may still send a result;
`attempts` and `overtaken` are history (`overtaken` are the ids whose last submission
came while a handler of the id awaited its broadcast). `_queue_update_queue` is unbounded in
the code and bounded by `MaxQueue` here.

*Numbers.* `error_ms` only occurs as a square root of sums of squares, so it is
kept squared (`variance`), and `error > k * expected` is compared squared too. A
prediction is a pair of the set `Predictions`; what the predictor computes, and
how a list of quantiles is summarised, is behind it.

*Faults* selects which environment events occur, so that a run can say what it
assumes. `SetStrategy` sets the worker idle: what it still writes goes to the old
strategy object, which nobody reads. A worker that has taken an update but not
yet read `self.strategy` uses the new object; that order is the same as taking the
update after the change, which the model has.

*Not in the model:* adding and removing instances (`Routing` has them), `shutdown`, timing statistics,
`last_routing_info`, batch submission (a loop over the same `schedule()`), and
the dispatch over WebSocket, which `_dispatch_task_sync` never uses from the API
because the loop is running. `Selected` compares the queue states in one step; the
strategy reads one instance's after the other while the worker may write: it may choose
an instance that was the least at no single moment. No property depends on which
instance is chosen.

### ReadWriteLock

The lock has two conditions with a mutex each, and two counters that either
side reads without the other's mutex. A thread's `lockPc` says where it is in a call.
A mutex is held when some thread is between its acquisition and its release
(`testWriters`, `countReader`; `testCounts`, `countWriter`); the test and the
increment under it are two steps because the other side's threads run in
between. A wait releases the mutex; a notified thread acquires it again and
repeats the test.

### TaskTracker

Every method runs under one lock: one action each. `MarkCompleted` contains the
cleanup. The number of places a cleanup frees beyond the necessary is
`max_history // 10` in the code and `MaxHistory \div HistoryDivisor` here, so that
small histories have one. Completion times are any of `Times`: they are read
before the lock is taken, so they need not grow. Among equal times any order is
allowed (the code's depends on insertion order).

`Tracker` says what any tracker promises: a task enters by being registered, is
updated only while it is in, and comes back only by being registered again.
`TaskTracker` implements it (`ImplementsTracker`): registering, marking, removing
and clearing map to the steps of the same name, a cleanup to part of a `Complete`.

### LockFreeTaskTracker

An operation is a sequence of sections, one action each: what it does to the
entries, to the status index, to the instance index, to the statistics.
`calls[th]` are the tracker calls a thread has still to make, `pc[th]` is the next
section of the first, `info[th]` the entry it has read. Sections that write the
entries exclude one another (that is `WriterExclusion`); a section that only reads
them is excluded by nothing (`lock_exclusion`), so the test for an id and the
read of its entry are two steps, and a `KeyError` (`Raise`) leaves the handler.
The two threads are the event loop, which takes up handlers one after the other
(`Submit`, `ReceiveResult`, `FinishBroadcast`, `NotifyTaskCompletion`, `ClearAll`),
and the cleanup (`StartCleanup`, `Collect`, `RemoveSurplus`). There are no others: the
workers of the lock-free asynchronous scheduler never get a task from this
program (`core.py:309` calls its `submit_task` with an argument missing).

What the model does not have: `clear_completed`, which nothing calls; `shutdown`,
which waits for a loop that nothing tells to stop; and the cleanup that
`mark_completed` submits to the pool, which has one thread and that is taken for
ever. It does not implement `Tracker`: a `mark_completed` that has read an entry
writes it back after the cleanup has removed it. `ResultsForgotten` says
why that is harmless for results: the handler itself removes the task in the end.

### ModelScheduler

`mode`, `queue`, `clientsOpen` are the manager's and scheduler's; `worker[w]` and
`batch[w]` a thread's; `job[t]` says how far the coroutine of a task is, and
`handler` is what the event loop is doing. A worker's coroutines interleave at
their awaits only (`Turn`); worker threads and the event loop interleave anywhere.
`Deliver` is the instance receiving the task; the response (`RegisterTask`), its loss
(`ResponseLost`) and the instance's result (`ReceiveResult`) come later in any order.
`disable` sets the stop event, joins each worker for a part of a timeout
(`EndJoin` may come before the workers are done) and closes their clients. One life
of the manager is modelled: enabling again makes new schedulers that share only
the tracker, where each task has its own entry. `update_queue` is called
with an argument that the queue-keeping strategies do not have; the `TypeError` is
logged, so the strategy's state does not change here. The task keeps its id when it is
registered; the code takes the id of the instance's response, which echoes it.

### LockFreeQueue, LockFreeScheduler

`LockFreeQueue` models `put_nowait`, `get` and `get_nowait`: a put takes a place
(`_sem_put`), appends, counts and offers (`_sem_get`); a get takes a token, pops,
uncounts and frees the place. Each of the four is one step, because each is
atomic by itself (a semaphore, the deque, the counter's lock) and other threads
run in between. `BoundedQueue` is what a user of a queue relies on, and
`ImplementsQueue` says the deque behaves like it: the append is the put, the
`popleft` is the take.

`LockFreeScheduler` puts the queue to use. `create_scheduler`, `start` and `stop` of
the manager are one step each: they hold its lock, and that a stop also waits for the
workers changes nothing that they or a submission see. The workers collect batches with repeated
gets, until the batch is full or the deadline passed (`EndBatch`), and process
them. An empty batch ends only when there is no token; in the code a
preempted worker's get may also time out with a token there, which then stays for the
worker's next batch. A batch schedules nothing: `_process_single_task_async` builds its request
with fields that the request does not have, so that `Successes` is empty; the
model counts what the code counts.

### InstanceDispatcher

One dispatcher and its manager. The manager's lock makes an operation one step, but
for a stop, which waits for the worker in `EndStop`, and not longer than its timeout: the
worker may still be busy. A later `start` clears the stop event, and a second
worker thread shares the queue, the WebSocket and the event loop with the first;
`place[w]` is where each of them is, `loop`, `closed` and `using` say which event
loop there is, and which thread runs it, because `run_until_complete` raises on a
loop that is closed or run by another thread. `websocket`, `up`, `sent` and `acks` are the
connections: messages on their way are lost when a connection drops, those that
have arrived can still be read. `ReceiveAck` reads the next message, whichever task
it is for; `AckTimeout` leaves it for later. A message that cannot be read makes the code give the
connection up: that is a `Drop`, which may come at any time, and a new connection.

### Connections

The coroutine of each WebSocket connection is a process; others run at its awaits
only. `Register` checks the limit and either takes a free place or, holding the
table's lock, awaits the close of the earlier connection (`Replace`). `Leave` is the
`finally` clause. A message is a batch of results; for each, `ProcessResult` marks and
stores, the broadcast sends to a copy of the clients (`SendEvent`, one await each),
`EndBroadcast` drops the clients that failed and removes the task, `LookUp` and `SendAck`
answer. `timed` are the tasks with an arrival time: the first result pops it, and the text
of a later acknowledgement cannot be formatted, so that a repeated result is
answered with an error although it was processed. `audience`, `told` and `acked` are
history.

### Routing

`SchedulerCore` has `shortest_queue` over instances that stay; `Routing` has the other
strategies over instances that are loaded, added, removed by id or address, registered
twice, and stop to answer. A uuid is the number of its registration; an
`instance_id` is what the instance reports (it derives from the port), and
`idToUuid` is the cache that a result is attributed with. The event loop runs each
handler to its end; the worker thread caches and adds, or pops and subtracts, a
prediction in two steps each, between which a clear may come.

Abstractions. `round_robin` keeps its index. `weighted` always ranks by the order of
the uuids (`Rank`), because on the synchronous path queue sizes are never known and its
`update_queue` does not take the worker's arguments: the code's scores are all
equal. `probabilistic` chooses any candidate, as it samples. A queue's distribution is
the *set* of the predictions summed in it; the code keeps sampled quantiles, from
which a subtraction does not exactly undo an addition. `Misfits` are tasks
whose prediction has another number of quantiles, for which both raise. When
`probabilistic` is asked to choose an instance it has no state for, the code stores an
empty state before the choice raises; the selection is only disabled here, and no update
reaches such a state, because nothing was routed. The configuration is loaded once,
at the start: loading it again would clear the instances and not the cache, and
`CacheCurrent` is not about that.

## Runs

| Run | Bounds | What it shows |
|---|---|---|
| `scheduler_core` | 2 tasks submitted once, 2 instances, 2 predictions, queue of 3, 2 handlers | what instances are charged for, and the drain, with unpredicted tasks, timeouts, repeated results and strategy changes |
| `scheduler_resets` | 2 tasks submitted twice, 1 instance, queue of 3, 2 handlers | predictions are backed, and drain, with lost and timed-out enqueues, clears, strategy changes and the legacy endpoint; a running task's entry is lost in one way only |
| `read_write_lock` | 3 threads | writers exclude each other, readers wake |
| `lost_wakeup` | 2 threads | **finding**: a writer sleeps for ever |
| `task_tracker` | 4 tasks, history of 2, 2 times, counter up to 5 | the history is bounded, and a task is pushed out of it only by enough later ones; the abstract tracker is implemented |
| `lockfree_tracker` | 2 tasks submitted once, 2 reports each, history of 1, one clear | which statistics and indexes stay right between two threads |
| `model_scheduler` | 2 workers, 2 tasks, batches of 2, queue of 1, 2 attempts, results of one task | nothing accepted is lost or counted twice, and everything ends |
| `lockfree_scheduler` | 3 tasks, 2 submitting threads, 2 workers, queue of 2, batches of 2 | the queue is a bounded queue, no task is lost or counted twice, everything submitted is processed |
| `instance_dispatcher` | 2 tasks, 2 starts, queue of 1, 1 retry, 1 connection | what a success means, how many copies there are, and that a worker remains |
| `connections` | 2 instances on 3 connections with 1 place, 2 clients, 1 task reported twice | the limit, the places, and what an acknowledgement means |
| `served_registered` | 1 instance on 2 connections | **finding**: a reconnected instance is unregistered by its earlier connection |
| `routing` | 3 tasks, 2 hosts, 3 registrations, 2 changes, 3 strategies | ids resolve to listed instances, finished tasks do not weigh on a queue, round robin is even wherever its index stands |

The properties of `SchedulerCore`:

- `PendingBacked`: a cached prediction belongs to a task that is running or whose
  completion update is on its way. It is what the order of the two updates is
  for.
- `PendingDrains`: once a task has reported its result, its prediction is
  dropped in the end.
- `CountBacked`: an instance's task count is at most its outstanding tasks,
  with raises skipped and lowerings repeated (and, in the theorem, clears in between). It bounds the
  count from above only: an unpaired or repeated lowering does take off another task's
  charge. It needs ids that are submitted once: a reused id is one entry for two submissions.
- `IdleErrorBounded`: an instance without pending predictions whose expected
  time is not zero has an error within the threshold. It is checked without
  `clear`: a clear in the middle of an update lets old sums return (`ResetReturns.cfg`).
- `EntryStays`: with an id submitted again and again while its results are handled,
  a running task's entry is lost only if the submission came while a handler of an
  earlier result awaited its broadcast, or to a clear. `overtaken` records those ids.
  That one way exists: `RetryRemoval.cfg` refutes `OnlyCompletedRemoved`.

The properties of `TaskTracker`:

- `HistoryBounded`: at most `max_history` completed tasks are kept, although the counter that
  starts the cleanup drifts.
- `HistoryKept`: a completion pushes a task out only if as many tasks as a cleanup leaves are
  kept that completed no earlier, with completions marked twice, out of the
  order of their times, and a drifted counter. A cleanup that drops too many, or the
  wrong ones, breaks it (one mutant each).
- `ImplementsTracker`: the promise of `Tracker` is kept.

The properties of `LockFreeTaskTracker`:

- `ActiveCounted`: between two handlers the counts of queued and scheduled tasks are
  exact. They are updated from a status read some sections before.
- `CompletedCovered`: until a clear, the count of completed tasks is not below their
  number, although two threads may remove the same task and one of them may
  bring it back. It is usually above: the result handlers mark a task completed
  twice.
- `ResultsForgotten`: after a result's handlers, the task is in neither the entries
  nor an instance's index. It may stay in the status index of completed tasks
  (the cleanup discards it before a `mark_completed` adds it), whose readers skip it.

The properties of `ModelScheduler`:

- `TasksConserved`: an accepted task is in the queue, in one batch, cleared, or
  counted once.
- `OneCopyPerAttempt`: only a failed attempt lets a task reach a second instance.
- `ScheduledTracked`: a scheduled task without result has its entry.
- `AcceptedEnds`, `WorkersExit`: accepted tasks end; disabled workers stop.

The properties of `LockFreeScheduler`:

- `TokensAccounted`: at every step of every thread, the two semaphores and the
  size agree with the deque, up to the threads that are between two steps.
- `ImplementsQueue`: nothing is lost, given out twice or out of order, and there
  are never more items than places.
- `TasksCounted`: a task taken from the queue is in the hands of one worker, which
  has at most a batch, or counted once.
- `SubmittedEnds`: what is submitted to a running manager is processed, unless
  the scheduler is stopped.

The properties of `InstanceDispatcher`:

- `SuccessDelivered`: a callback reports success only for a task that arrived,
  also when late acknowledgements of other tasks are read and two workers share
  the connection.
- `CopiesBounded`: an attempt delivers at most two copies.
- `RunningHasWorker`: of two workers one may end because the other runs the loop, or
  a stop has closed it, but not both.

The properties of `Connections`:

- `ConnectionsBounded`: the limit is kept, although it is tested before an await
  and the place taken after it.
- `PlacesServed`: a place belongs to a coroutine that will give it back.
- `AckedInformed`: when a result is acknowledged as a success, every client that was
  listening when it completed its task, and is still there, has been told.

The properties of `Routing`:

- `CacheCurrent`: an id in the cache resolves to a listed instance, unless it could
  not be asked for its id when it was removed.
- `ChargesReturned`: a finished task is pending only while its completion
  update is on the way, and a distribution keeps nothing that is not pending, being
  subtracted, or cleared. Two registrations with one id are the exception.
- `RotationEven`: while the candidates stay the same, round robin spreads tasks
  evenly, from wherever its index stood: picks among other candidates, before an
  instance was removed or registered, have moved it.

The type invariants also bound counters that could drift: the clamped sums, the
lock's counters, `stats` of the dispatcher against the callbacks, a queue's task
count against the predictions in it.

Why the bounds are enough. Two tasks are the least with which one task's update
can overtake, precede or fall inside the recalculation for another; two
instances are the least with a choice. One prediction of `MCPredictions` trips
the threshold only after a completion, the other by itself, so that both
branches and a recalculation with and without something pending occur. A queue of
3 lets both schedule updates and a completion wait. The counters that stand for
repetition (`MaxAttempts`, `MaxHandlers`) are 1 or 2: a second attempt or handler
is what makes the difference. For the lock, a third thread lets a reader wait
while one writer follows another. For the tracker, a history of 2 with 4
tasks lets the counter drift past the limit with fewer tasks completed than it
says, and lets a cleanup have a real choice. For the lock-free tracker, a history of 1 with 2
tasks makes the cleanup run against a handler of either task. For the model
scheduler, 2 tasks and 2 workers are the least with which two workers compete
for the queue and a batch has two coroutines; a queue of 1 refuses; the results of one
task are enough, because tasks meet in the queue and the batches only. For the lock-free scheduler, a
queue of 2 and 3 tasks lets a put be refused and both workers have a batch that is not
full; a second producer lets the deque's order and the order of the offers differ.
For the dispatcher, a second start makes the two workers that share a loop (a run with
3 found nothing more), and two tasks let the acknowledgement of the one be read by
the other. For the connections, a third connection lets one leave while another
replaces and a third one finds the limit reached; a second client lets one be
dropped by the broadcast while the other still waits for it; the one task is reported
twice at once, on two connections or in one message. For the routing, three
registrations on two hosts let an id be registered twice; two changes let an
instance stop answering and go, go and come back, or be registered twice and go once, with lookups,
and a clear or a new strategy fall between any two other steps; one
task has a prediction that does not fit. Three tasks let one move the
round-robin index before an instance goes and is registered again (in either order), and two more be
spread over the new candidates from there; the two whose predictions fit are interchangeable (`TaskSymmetry`).
For ids submitted again, a second submission is enough to come before, during or after the
broadcast of the first one's result; two handlers await at once. `PredictionsBacked`, `CountsBacked`
and the other theorems below remove the bounds for the safety properties.

Runs of terminating systems set `CHECK_DEADLOCK FALSE`: clients stop submitting
when their attempts are used up, and everything is processed; threads may never
call the lock again.

Fairness. `SchedulerCore` assumes weak fairness of the worker only: it is a
thread that loops until shutdown, and each of its steps stays enabled until it is
taken. Nothing is assumed about clients and instances. `ReadWriteLock` assumes
that a thread inside a call goes on, and gets a mutex that is free again and
again (strong fairness of `ContinueCall`); nobody has to call. `ModelScheduler` assumes
weak fairness of each worker: its loop runs until it is stopped, its waits have
timeouts, and so have the requests of its clients. Nothing is assumed about the event
loop. `LockFreeScheduler` assumes weak fairness of a submission that has begun and of each
worker, which loops until it is stopped: its gets have timeouts. `LockFreeTaskTracker`
states no liveness: its writers may sleep for ever (`lost_wakeup`). Nor do
`InstanceDispatcher`, `Connections` and `Routing`: whether a dispatcher ends a task
depends on stops that may come at any time, a coroutine that awaits a client may
wait for as long as the client stalls, and what drains in `Routing` is what drains in
`SchedulerCore`.

## Findings

Two places where the program does something else than its own text says; each
is a run that TLC refutes, quoted in `PROJECT.json`.

1. `lost_wakeup`: `release_read` notifies the condition writers do not wait on.
2. `served_registered`: the coroutine of a replaced connection unregisters the id,
   and with it the connection that replaced it.

Further counterexamples, which are not among the runs, can be repeated with `tlc`:

| Configuration | Module | What it shows |
|---|---|---|
| `IdleExpected.cfg` | `MCSchedulerCore` | the execution time is subtracted where the base class documents the predicted value: expected time stays on an idle instance |
| `RetryRemoval.cfg` | `MCSchedulerCore` | the handler that awaited its broadcast removes the entry that a submission of the id has meanwhile made a running task's, and reports it as completed |
| `ResetReturns.cfg` | `MCSchedulerCore` | the worker writes back sums that a clear has reset between its read and its write: a cleared task stays charged |
| `LockExclusion.cfg` | `ReadWriteLock` | a reader and a writer can both pass their test before either is counted |
| `CleanupRemoval.cfg` | `LockFreeTaskTracker` | the cleanup removes what it collected, without looking again |
| `FastResult.cfg` | `ModelScheduler` | the asynchronous scheduler registers after the enqueue: a finished task is registered for good |
| `DedicatedThread.cfg` | `MCInstanceDispatcher` | after a restart two threads dispatch at once |
| `RoundRobinEven.cfg` | `MCRouting` | the round-robin index is shared by the models, so that one model's tasks are not spread evenly |

## Theorems

All proofs are checked by TLAPS for every value of the constants allowed by the
assumptions the modules name: `CoreAssumption`, `ThreadsFinite`, `TrackerAssumption`, `LockFreeAssumption`,
`SchedulerAssumption`, `QueueAssumption`, `BatchAssumption`, `DispatcherAssumption`,
`ConnectionsAssumption` and `RoutingAssumption` (sets of tasks and threads are finite, bounds are
natural numbers, values have their shapes). Hypotheses beyond those are in the theorems.

**`TypeCorrect`** (`SchedulerCoreProofs`): `Spec => []TypeOK`. One step for each
action; the helpers' types are lemmas. It is the base of the two below.

**`PredictionsBacked`** (`SchedulerCoreProofs`): `Spec => []PendingBacked`, with
every fault and any number of submissions. `PendingBacked` alone is not inductive:
it says nothing about a schedule update that is still queued. The invariant
`Backed` adds `QueueBacked` (behind each queued schedule update, its task is
running or its completion is queued later) and `WorkerBacked` (the same for the
update the worker holds). The FIFO lemmas say what appending and taking do to "is
queued later".

**`IdleErrorIsBounded`** (`SchedulerCoreProofs`): `Spec => []IdleErrorBounded`, if there is no
clear. Only the instance whose completion the worker is in may be beyond the threshold
(`SettledInv`): the sums the worker read are still those of the instance, the size that the loop
compares does not change under it, so that `AbortRecalculation` is impossible, and a
recalculation that found nothing pending writes zero. A clear breaks the first of these.

**`CountsBacked`** (`SchedulerCoreProofs`): `Spec => []CountBacked`, if every id is
submitted at most once. The induction follows the set `Charged(i)` of tasks an
instance may be charged for, and shows that each raise adds a task to
it before any lowering removes it (`CountCharged`).

**`OnlyOvertakenLost`** (`SchedulerCoreProofs`): `Spec => EntryStays`, for any number of
submissions, handlers and faults. The invariant is `HandlersMarked`: while a handler of an id
awaits, its entry is not scheduled, unless the id is overtaken.

**`WriterExclusion`, `LockTypeCorrect`** (`LockFreeTrackerProofs`): the counters are
the numbers of threads that have been counted, the writers' test and count are
under one mutex, hence at most one writer.

**`TrackerTyped`, `ActiveIsCounted`, `CompletedIsCovered`, `ResultsAreForgotten`**
(`LockFreeTrackerProofs`): the type and the invariants of `LockFreeTaskTracker`, for any tasks, instances,
reports and history, if every id is submitted at most once. `IInv` follows the two
threads through the sections of their calls. `LoopKnows` is what the event loop may
conclude of the task in its hands: an entry read as scheduled is still that entry when
it is marked completed, or the task is past. `Past` is the key to the cleanup: what it
has found, and what it is about to remove, will not be queued or scheduled
again (`PastStep`), so it takes nothing from those two counts. The statistics
differ from the entries by `Late` and `Early`, what the event loop has in hand
(`ActiveInv`; it follows that those two are never negative), and for completed tasks by the removals under way (`CompletedInv`). For the
index, a task has one instance from its submission on (`HomeInv`), therefore whoever
removes its entry takes it out of the right set (`IndexInv`). `LoopMoves` and
`CleanerMoves` list the steps of the threads once for all parts of the invariant.
Only `MaxSubmissions <= 1` is used of the bounds: with an id submitted again, a
submission overwrites an entry that still counts as scheduled.

**`TrackerImplemented`** (`TaskTrackerProofs`): `Spec => ImplementsTracker`, the tracker
with one lock implements the abstract one. `StepIsPromised` maps each action; the
witness for the tasks that leave with a `Complete` is what the cleanup drops.

**`HistoryIsBounded`, `TrackerTypeCorrect`** (`TaskTrackerProofs`): the bound is
not inductive, because the cleanup is triggered by the counter; the invariant adds
`CountCovers`, the counter is never below the number of completed tasks.

**`HistoryIsKept`** (`TaskTrackerProofs`): `Spec => HistoryKept`. `CompletionDrops` says what
any completion drops; a cleanup that drops anything drops exactly its surplus, so that what stays is
counted exactly; and what stays completed no earlier than what goes (`CompletionKeeps`).

**`SchedulerTyped`, `NoTaskLost`, `ScheduledKnown`** (`ModelSchedulerProofs`): `TypeOK`,
`TasksConserved` and `ScheduledTracked`. For the second, `PlacesInv` relates each job to where
the task is: in the queue, in one batch and not ended, or counted; batches are disjoint because a
worker takes what is in the queue, which holds nothing twice. For the third, `TrackedInv` says
what the tracker knows of a task that has not reported: other tasks' completions may push
entries out of the history, but only completed ones.

**`CopiesBounded`** (`ModelSchedulerProofs`): `Spec => []OneCopyPerAttempt`, for any
number of workers, batches and retries. The bound needs `CopiesAccounted`, which
tells an attempt under way from one that is over, and that a task is in the queue
at most once and only before its first attempt (`QueueDistinct`, `QueueFresh`).

**`QueueAccounted`** (`LockFreeQueueProofs`): `Spec => []TokensAccounted`. Each step moves
one thread from one group to the next (`ThreadMoves`), and the three sums stay equal.
What follows is that a thread with a token finds an item (`PopFinds`), which the
invariant needs itself: the pop of an empty deque would break the sums. That each item
is put once (`ItemsOnce`) is part of the invariant for the sake of the two below.

**`QueueImplemented`** (`LockFreeQueueProofs`): `Spec => ImplementsQueue`. There is
room for an append because the appending thread is counted among the taken places.

**`TasksAreCounted`** (`LockFreeQueueProofs`): `Spec => []TasksCounted`. The invariant says
which workers may hold an item and which a batch with room (`WorkersInv`), and that
hands hold what was taken, each item in one of them (`HandsInv`).

**`LimitKept`, `PlacesAreServed`, `ConnectionsTyped`** (`ConnectionsProofs`): the induction
needs `PlaceKept`: a registration that awaits the close of the earlier connection holds
the lock, and the place it is going to take is still occupied when it gets
there. `CoroutinesKnow` says which coroutines have an id and a batch.

**`AcknowledgedInformed`** (`ConnectionsProofs`): `Spec => []AckedInformed`. The first result
of a task is told apart from the repeated ones by its arrival time (`FirstResult`), and
a coroutine about to acknowledge a success has told everyone, or still has them
to tell (`SuccessAfterTelling`).

**`DispatcherTyped`, `WorkerStays`, `SuccessesArrive`, `RetriesBoundCopies`**
(`InstanceDispatcherProofs`): the four invariants of the dispatcher, for any number of starts,
retries and connections. That a worker stays rests on `WorkersInv`: while the dispatcher runs no
stop is under way, and a closed loop is waited for only by the last thread, which has yet to
begin. Success is delivery because every acknowledgement on a connection, whoever reads it, is of a
task that the instance has (`AcksInv`). For the copies,
`CopiesInv` bounds what was received together with what is on its way on every connection by a
budget: two for each attempt that ended, one for the one under way before it goes over HTTP.

**`RoutingTyped`, `CacheStaysCurrent`, `RotationIsEven`, `ChargesComeBack`** (`RoutingProofs`): the four
invariants of `Routing`, for any number of hosts, registrations, tasks and changes. The cache:
an entry is for the id of the instance it points to (`CacheInv`), so that a removal,
which deletes the entry of an id, deletes the one that points to the instance it removes. The rotation: from some place of the
list to the index, members have been selected once more than the others, around the end of the
list (`StreakOf`). The charges: a prediction is on its way at most once and only to the queue its
task was routed to (`OnceInv`), what is in a distribution can still be taken off (`DistInv`), and the
completion update of a finished task stays behind its scheduling update (`DueInv`). The filter
loop over the candidates is a recursive function; what it computes is proved with the least round that would go
wrong (`Unfolds`, `Filters`), since the induction theorems of the library are out of reach.

Only model-checked: liveness (`PendingDrains`, `ReaderWakes`, `AcceptedEnds`,
`WorkersExit`, `SubmittedEnds`), which is outside the proof system's reach. Every safety property
of a passing run is a theorem.

## What is left

Every part that keeps state of its own is modelled. What could still be added, in the order
of what it would be worth:

1. `Connections` and `SchedulerCore` share the tracker's entries and the arrival times;
   a composition would put the WebSocket results next to the worker's updates.
2. Several models in `ModelScheduler`, and enabling it again after a disable.

## Not modelled

- `optimized_model_scheduler.py`: a former copy of `model_scheduler.py` that only an
  example imports.
- `strategies/quantile_convolution.py` and the arithmetic of `QuantileProb`:
  floating-point numerics without state, compiled or sampled.
- The predictor service and its client, the HTTP clients: stateless requests, whose
  outcomes are inputs of the models.
- `dispatch_task` of `ResultSubmissionManager` and the WebSocket branch of
  `_dispatch_task_sync`, which the API never reaches because its loop is running.
- The dispatcher's health check and statistics, timing statistics, profiling,
  `last_routing_info`: reports, which nothing decides by.
- Shutdown of the core's worker and of the lock-free tracker: the program ends.
- Batch submission: a loop over the same `schedule()`.
- Data models, middlewares and the CLI: no behaviour of their own.
