------------------------ MODULE ModelSchedulerProofs ------------------------
(***************************************************************************)
(* The safety of the asynchronous scheduler, for every number of workers,  *)
(* tasks and attempts and every batch size: how often a task is delivered, *)
(* the types, that no task is lost, and what the tracker knows.            *)
(*                                                                         *)
(* The bound on deliveries is not inductive.  A copy is accounted for by a *)
(* failed attempt or by the attempt under way; that a task begins its      *)
(* attempts with none of its own copies rests on the queue: what is in it  *)
(* has not been tried, and nothing is in it twice.                         *)
(***************************************************************************)
EXTENDS ModelScheduler, FiniteSetTheorems, TLAPS

Types ==
    /\ job \in [Tasks -> Jobs]
    /\ attempts \in [Tasks -> Nat]
    /\ delivered \in [Tasks -> Nat]
    /\ queue \in Seq(Tasks)

(* The attempt under way, or the one that succeeded, has delivered the task. *)
CopyOf(t) == IF job[t] \in {"sent", "registered", "scheduled"} THEN 1 ELSE 0

CopiesAccounted == \A t \in Tasks : delivered[t] <= attempts[t] + CopyOf(t)

(* What waits in the queue has not been tried, and waits once. *)
QueueFresh == \A k \in 1..Len(queue) : job[queue[k]] = "queued"
QueueDistinct == \A j, k \in 1..Len(queue) : j # k => queue[j] # queue[k]

IInv == Types /\ CopiesAccounted /\ QueueFresh /\ QueueDistinct

-----------------------------------------------------------------------------
(* A step of task t's coroutine: only t's job changes, and the queue stays.  *)
LEMMA CoroutineKeeps ==
    ASSUME IInv, NEW t \in Tasks, job[t] # "queued", UNCHANGED queue,
           NEW j \in Jobs \ {"queued"}, job' = [job EXCEPT ![t] = j],
           attempts' \in [Tasks -> Nat], delivered' \in [Tasks -> Nat],
           \A u \in Tasks \ {t} : attempts'[u] = attempts[u] /\ delivered'[u] = delivered[u],
           delivered'[t] <= attempts'[t] + CopyOf(t)'
    PROVE  IInv'
<1>1. Types'
  BY DEF IInv, Types
<1>2. CopiesAccounted'
  BY DEF IInv, Types, CopiesAccounted, CopyOf
<1>3. \A k \in 1..Len(queue) : queue[k] \in Tasks /\ queue[k] # t
  BY SMTT(30) DEF IInv, Types, QueueFresh
<1>4. QueueFresh'
  BY <1>3 DEF IInv, Types, QueueFresh
<1>5. QueueDistinct'
  BY DEF IInv, QueueDistinct
<1>6. QED
  BY <1>1, <1>2, <1>4, <1>5 DEF IInv

(* A failed attempt pays for the copy it may have delivered. *)
LEMMA FailureKeeps ==
    ASSUME IInv, NEW t \in Tasks, job[t] \in {"attempt", "sent"}, Attempted(t),
           UNCHANGED <<queue, delivered>>
    PROVE  IInv'
<1>1. PICK j \in {"attempt", "failed"} : job' = [job EXCEPT ![t] = j]
  BY DEF Attempted
<1>2. attempts' = [attempts EXCEPT ![t] = @ + 1]
  BY DEF Attempted
<1>3. /\ attempts' \in [Tasks -> Nat]
      /\ \A u \in Tasks \ {t} : attempts'[u] = attempts[u]
      /\ attempts'[t] = attempts[t] + 1
  BY <1>2 DEF IInv, Types
<1>4. delivered'[t] <= attempts'[t] + CopyOf(t)'
  BY <1>1, <1>3 DEF IInv, Types, CopiesAccounted, CopyOf
<1>5. j \in Jobs \ {"queued"} /\ job[t] # "queued"
  BY <1>1 DEF Jobs
<1>6. QED
  BY <1>1, <1>3, <1>4, <1>5, CoroutineKeeps DEF IInv, Types

LEMMA CoroutineStep ==
    ASSUME IInv, NEW w \in Workers, NEW t \in Tasks, Coroutine(w, t)
    PROVE  IInv'
<1>1. CASE NoInstances(w, t)
  <2>1. job[t] = "attempt" /\ job' = [job EXCEPT ![t] = "failed"]
        /\ UNCHANGED <<queue, attempts, delivered>>
    BY <1>1 DEF NoInstances, queueVars
  <2>2. delivered'[t] <= attempts'[t] + CopyOf(t)'
    BY <2>1 DEF IInv, Types, CopiesAccounted, CopyOf
  <2>3. QED
    BY <2>1, <2>2, CoroutineKeeps DEF IInv, Types, Jobs
<1>2. CASE AttemptFails(w, t)
  BY <1>2, FailureKeeps DEF AttemptFails, queueVars
<1>3. CASE Deliver(w, t)
  <2>1. /\ job[t] = "attempt" /\ job' = [job EXCEPT ![t] = "sent"]
        /\ delivered' = [delivered EXCEPT ![t] = @ + 1]
        /\ UNCHANGED <<queue, attempts>>
    BY <1>3 DEF Deliver, queueVars
  <2>2. /\ delivered' \in [Tasks -> Nat]
        /\ \A u \in Tasks \ {t} : delivered'[u] = delivered[u]
        /\ delivered'[t] = delivered[t] + 1 /\ delivered[t] \in Nat /\ attempts[t] \in Nat
    BY <2>1 DEF IInv, Types
  <2>3. CopyOf(t) = 0 /\ job'[t] = "sent"
    BY <2>1 DEF IInv, Types, CopyOf
  <2>4. CopyOf(t)' = 1
    BY <2>3 DEF CopyOf
  <2>5. delivered[t] <= attempts[t]
    BY <2>2, <2>3 DEF IInv, CopiesAccounted
  <2>6. delivered'[t] <= attempts'[t] + CopyOf(t)'
    BY <2>1, <2>2, <2>4, <2>5
  <2>7. QED
    BY <2>1, <2>2, <2>6, CoroutineKeeps DEF IInv, Types, Jobs
<1>4. CASE ResponseLost(w, t)
  BY <1>4, FailureKeeps DEF ResponseLost, queueVars
<1>5. CASE RegisterTask(w, t)
  <2>1. job[t] = "sent" /\ job' = [job EXCEPT ![t] = "registered"]
        /\ UNCHANGED <<queue, attempts, delivered>>
    BY <1>5 DEF RegisterTask, queueVars
  <2>2. delivered'[t] <= attempts'[t] + CopyOf(t)'
    BY <2>1 DEF IInv, Types, CopiesAccounted, CopyOf
  <2>3. QED
    BY <2>1, <2>2, CoroutineKeeps DEF IInv, Types, Jobs
<1>6. CASE MarkScheduled(w, t)
  <2>1. job[t] = "registered" /\ job' = [job EXCEPT ![t] = "scheduled"]
        /\ UNCHANGED <<queue, attempts, delivered>>
    BY <1>6 DEF MarkScheduled, queueVars
  <2>2. delivered'[t] <= attempts'[t] + CopyOf(t)'
    BY <2>1 DEF IInv, Types, CopiesAccounted, CopyOf
  <2>3. QED
    BY <2>1, <2>2, CoroutineKeeps DEF IInv, Types, Jobs
<1>7. QED
  BY <1>1, <1>2, <1>3, <1>4, <1>5, <1>6 DEF Coroutine

-----------------------------------------------------------------------------
(* The steps that move tasks into and out of the queue.                      *)
LEMMA SubmitKeeps ==
    ASSUME IInv, NEW t \in Tasks, SubmitTask(t)
    PROVE  IInv'
<1>1. CASE HasRoom
  <2>1. /\ job[t] = "none" /\ queue' = Append(queue, t)
        /\ job' = [job EXCEPT ![t] = "queued"]
        /\ UNCHANGED <<attempts, delivered>>
    BY <1>1 DEF SubmitTask
  <2>2. /\ Len(queue') = Len(queue) + 1 /\ Len(queue) \in Nat
        /\ queue'[Len(queue) + 1] = t
        /\ \A k \in 1..Len(queue) : queue'[k] = queue[k] /\ queue[k] \in Tasks /\ queue[k] # t
    BY <2>1 DEF IInv, Types, QueueFresh
  <2>3. Types'
    BY <2>1 DEF IInv, Types, Jobs
  <2>4. CopiesAccounted'
    BY <2>1 DEF IInv, Types, CopiesAccounted, CopyOf
  <2>5. QueueFresh'
    BY <2>1, <2>2 DEF IInv, Types, QueueFresh
  <2>6. QueueDistinct'
    BY <2>2 DEF IInv, QueueDistinct
  <2>7. QED
    BY <2>3, <2>4, <2>5, <2>6 DEF IInv
<1>2. CASE ~HasRoom
  BY <1>2 DEF SubmitTask, IInv, Types, CopiesAccounted, CopyOf, QueueFresh, QueueDistinct
<1>3. QED
  BY <1>1, <1>2

LEMMA CollectKeeps ==
    ASSUME IInv, NEW w \in Workers, CollectTask(w)
    PROVE  IInv'
<1> DEFINE t == Head(queue)
<1>1. /\ queue # <<>> /\ queue' = Tail(queue)
      /\ job' = [job EXCEPT ![t] = "attempt"]
      /\ UNCHANGED <<attempts, delivered>>
  BY DEF CollectTask
<1>2. /\ Len(queue) \in Nat \ {0} /\ t = queue[1] /\ t \in Tasks /\ job[t] = "queued"
      /\ Len(queue') = Len(queue) - 1
      /\ \A k \in 1..Len(queue') : /\ queue'[k] = queue[k + 1] /\ queue[k + 1] \in Tasks
                                   /\ k + 1 \in 1..Len(queue)
  BY <1>1 DEF IInv, Types, QueueFresh
<1>3. \A k \in 1..Len(queue') : queue'[k] # t
  BY <1>2 DEF IInv, QueueDistinct
<1> HIDE DEF t
<1>4. Types'
  BY <1>1, <1>2 DEF IInv, Types, Jobs
<1>5. CopiesAccounted'
  BY <1>1, <1>2 DEF IInv, Types, CopiesAccounted, CopyOf
<1>6. QueueFresh'
  BY <1>1, <1>2, <1>3 DEF IInv, Types, QueueFresh
<1>7. QueueDistinct'
  BY <1>2 DEF IInv, QueueDistinct
<1>8. QED
  BY <1>4, <1>5, <1>6, <1>7 DEF IInv

(* The tasks a clear takes have delivered nothing. *)
LEMMA DrainKeeps ==
    ASSUME IInv, DrainQueue
    PROVE  IInv'
<1>1. /\ queue' = <<>> /\ Len(queue') = 0
      /\ UNCHANGED <<attempts, delivered>>
      /\ job' = [t \in Tasks |-> IF t \in cleared' THEN "cleared" ELSE job[t]]
  BY DEF DrainQueue
<1>2. \A t \in cleared' : job[t] = "queued"
  BY DEF DrainQueue, IInv, Types, QueueFresh
<1>3. Types'
  BY <1>1 DEF IInv, Types, Jobs
<1>4. CopiesAccounted'
  BY <1>1, <1>2 DEF IInv, Types, CopiesAccounted, CopyOf
<1>5. QueueFresh' /\ QueueDistinct'
  BY <1>1 DEF QueueFresh, QueueDistinct
<1>6. QED
  BY <1>3, <1>4, <1>5 DEF IInv

(* Every other step leaves what the invariant is about.                      *)
LEMMA UntouchedKeeps ==
    ASSUME IInv, UNCHANGED <<queue, job, attempts, delivered>>
    PROVE  IInv'
BY DEF IInv, Types, CopiesAccounted, CopyOf, QueueFresh, QueueDistinct

-----------------------------------------------------------------------------
LEMMA CopiesInit == Init => IInv
<1> SUFFICES ASSUME Init PROVE IInv
  OBVIOUS
<1>1. Len(queue) = 0 /\ queue \in Seq(Tasks)
  BY DEF Init
<1>2. Types /\ CopiesAccounted
  BY <1>1 DEF Init, Types, CopiesAccounted, CopyOf, Jobs
<1>3. QED
  BY <1>1, <1>2 DEF IInv, QueueFresh, QueueDistinct

LEMMA CopiesStep == IInv /\ [Next]_vars => IInv'
<1> SUFFICES ASSUME IInv, [Next]_vars PROVE IInv'
  OBVIOUS
<1>1. CASE EventLoop
  <2>1. CASE EnableAsync \/ ClearTracker \/ DisableAsync \/ EndJoin \/ StoreResult \/ AwaitBroadcast
    <3>1. UNCHANGED <<queue, job, attempts, delivered>>
      BY <2>1 DEF EnableAsync, ClearTracker, DisableAsync, EndJoin, StoreResult,
                  AwaitBroadcast, queueVars, workVars
    <3>2. QED
      BY <3>1, UntouchedKeeps
  <2>2. CASE DrainQueue
    BY <2>2, DrainKeeps
  <2>3. ASSUME NEW t \in Tasks, SubmitTask(t)
        PROVE  IInv'
    BY <2>3, SubmitKeeps
  <2>4. ASSUME NEW t \in Tasks, ReceiveResult(t) \/ FinishBroadcast(t)
        PROVE  IInv'
    <3>1. UNCHANGED <<queue, job, attempts, delivered>>
      BY <2>4 DEF ReceiveResult, FinishBroadcast, queueVars, workVars
    <3>2. QED
      BY <3>1, UntouchedKeeps
  <2>5. QED
    BY <1>1, <2>1, <2>2, <2>3, <2>4 DEF EventLoop
<1>2. ASSUME NEW w \in Workers, WorkerLoop(w)
      PROVE  IInv'
  <2>1. CASE LoopTop(w) \/ BeginBatch(w) \/ EndBatch(w)
    <3>1. UNCHANGED <<queue, job, attempts, delivered>>
      BY <2>1 DEF LoopTop, BeginBatch, EndBatch, queueVars
    <3>2. QED
      BY <3>1, UntouchedKeeps
  <2>2. CASE CollectTask(w)
    BY <2>2, CollectKeeps
  <2>3. ASSUME NEW t \in Tasks, Coroutine(w, t)
        PROVE  IInv'
    BY <2>3, CoroutineStep
  <2>4. QED
    BY <1>2, <2>1, <2>2, <2>3 DEF WorkerLoop
<1>3. CASE UNCHANGED vars
  <2>1. UNCHANGED <<queue, job, attempts, delivered>>
    BY <1>3 DEF vars, queueVars, workVars
  <2>2. QED
    BY <2>1, UntouchedKeeps
<1>4. QED
  BY <1>1, <1>2, <1>3 DEF Next

(* A task reaches a second instance only after a failed attempt: however many *)
(* workers, batches and retries, no task is delivered twice if every response *)
(* arrives.                                                                  *)
THEOREM CopiesBounded == Spec => []OneCopyPerAttempt
<1>1. IInv => OneCopyPerAttempt
  BY DEF IInv, Types, CopiesAccounted, CopyOf, OneCopyPerAttempt
<1>2. QED
  BY CopiesInit, CopiesStep, <1>1, PTL DEF Spec

-----------------------------------------------------------------------------
(* Type correctness.  That the attempts stay within their limit rests on     *)
(* where a task is: one that is still tried has an attempt left.             *)
AttemptsLeft ==
    \A t \in Tasks :
        /\ job[t] \in {"none", "queued"} => attempts[t] = 0
        /\ job[t] \in {"attempt", "sent", "registered"} => attempts[t] < RetryAttempts

HandlerHolds == handler.step \in {"store", "inform"} => handler.task \in Tasks

TypeInv == TypeOK /\ AttemptsLeft /\ HandlerHolds

-----------------------------------------------------------------------------
(* A step of the tracker keeps the statuses what they are.                   *)
StatusSet == {"absent", "queued", "scheduled", "completed"}

LEMMA StatusTypes ==
    ASSUME status \in [Tasks -> StatusSet],
           \/ UNCHANGED status
           \/ T!Clear
           \/ \E t \in Tasks : T!Register(t) \/ T!Schedule(t) \/ T!Remove(t)
           \/ \E t : Complete(t)
    PROVE  status' \in [Tasks -> StatusSet]
BY DEF StatusSet, T!Clear, T!Register, T!Schedule, T!Remove, Complete, T!Complete,
       T!Without, T!Completed

LEMMA Limits ==
    /\ BatchSize \in Nat \ {0} /\ MaxQueue \in Nat \ {0}
    /\ RetryAttempts \in Nat \ {0}
BY SchedulerAssumption

LEMMA HandlerTypes ==
    ASSUME NEW s \in Steps, NEW t \in Tasks \cup {NoTask}, Handle(s, t),
           s \in {"store", "inform"} => t \in Tasks
    PROVE  handler' \in [step : Steps, task : Tasks \cup {NoTask}] /\ HandlerHolds'
BY DEF Handle, HandlerHolds

LEMMA TypeInit == Init => TypeInv
<1> SUFFICES ASSUME Init PROVE TypeInv
  OBVIOUS
<1>1. /\ mode \in Modes /\ worker \in [Workers -> Places] /\ job \in [Tasks -> Jobs]
      /\ queue \in Seq(Tasks) /\ Len(queue) = 0
      /\ handler \in [step : Steps, task : Tasks \cup {NoTask}]
  BY DEF Init, Modes, Places, Jobs, Steps
<1>2. TypeOK
  <2>1. status \in [Tasks -> {"absent", "queued", "scheduled", "completed"}]
    BY DEF Init, T!Init
  <2>2. attempts \in [Tasks -> 0..RetryAttempts] /\ Len(queue) <= MaxQueue
    BY <1>1, Limits DEF Init
  <2>3. totals \in [scheduled : Nat, failed : Nat, retries : Nat]
    BY DEF Init
  <2>4. QED
    BY <1>1, <2>1, <2>2, <2>3 DEF Init, TypeOK
<1>3. AttemptsLeft /\ HandlerHolds
  BY DEF Init, AttemptsLeft, HandlerHolds
<1>4. QED
  BY <1>2, <1>3 DEF TypeInv

(* What is left to show of a step for the type invariant.                    *)
LEMMA TypesKept ==
    ASSUME TypeInv,
           mode' \in Modes, queue' \in Seq(Tasks), Len(queue') <= MaxQueue,
           worker' \in [Workers -> Places], batch' \in [Workers -> SUBSET Tasks],
           job' \in [Tasks -> Jobs], attempts' \in [Tasks -> 0..RetryAttempts],
           clientsOpen' \in BOOLEAN,
           totals' \in [scheduled : Nat, failed : Nat, retries : Nat],
           status' \in [Tasks -> StatusSet],
           handler' \in [step : Steps, task : Tasks \cup {NoTask}],
           awaiting' \in [Tasks -> Nat], delivered' \in [Tasks -> Nat],
           reported' \in [Tasks -> Nat], cleared' \subseteq Tasks, reset' \in BOOLEAN,
           AttemptsLeft', HandlerHolds'
    PROVE  TypeInv'
BY DEF TypeInv, TypeOK, StatusSet

LEMMA LoopTypes ==
    ASSUME TypeInv, EventLoop
    PROVE  TypeInv'
<1> USE DEF TypeInv, TypeOK, queueVars, workVars, loopVars
<1>1. status' \in [Tasks -> StatusSet]
  <2>1. status \in [Tasks -> StatusSet]
    BY DEF StatusSet
  <2>2. \/ UNCHANGED status
        \/ T!Clear
        \/ \E t \in Tasks : T!Register(t) \/ T!Schedule(t) \/ T!Remove(t)
        \/ \E t : Complete(t)
    BY DEF EventLoop, EnableAsync, ClearTracker, DrainQueue, DisableAsync, EndJoin,
           StoreResult, AwaitBroadcast, SubmitTask, ReceiveResult, FinishBroadcast
  <2>3. QED
    BY <2>1, <2>2, StatusTypes
<1>2. {"idle", "store", "inform", "drain", "join"} \subseteq Steps
      /\ NoTask \in Tasks \cup {NoTask}
  BY DEF Steps
<1>3. CASE EnableAsync
  <2>1. mode' \in Modes
    BY <1>3 DEF EnableAsync, Modes
  <2>2. AttemptsLeft' /\ HandlerHolds'
    BY <1>3 DEF EnableAsync, AttemptsLeft, HandlerHolds
  <2>3. QED
    BY <1>1, <1>3, <2>1, <2>2, TypesKept DEF EnableAsync
<1>4. CASE ClearTracker
  <2>1. handler' \in [step : Steps, task : Tasks \cup {NoTask}] /\ HandlerHolds'
    <3>1. CASE mode = "enabled"
      BY <1>2, <1>4, <3>1, HandlerTypes DEF ClearTracker
    <3>2. CASE mode # "enabled"
      BY <1>4, <3>2 DEF ClearTracker, HandlerHolds
    <3>3. QED
      BY <3>1, <3>2
  <2>2. AttemptsLeft'
    BY <1>4 DEF ClearTracker, AttemptsLeft
  <2>3. QED
    BY <1>1, <1>4, <2>1, <2>2, TypesKept DEF ClearTracker
<1>5. CASE DrainQueue
  <2>1. handler' \in [step : Steps, task : Tasks \cup {NoTask}] /\ HandlerHolds'
    BY <1>2, <1>5, HandlerTypes DEF DrainQueue, Done
  <2>2. cleared' \subseteq Tasks
    BY <1>5 DEF DrainQueue
  <2>3. job' \in [Tasks -> Jobs]
    BY <1>5 DEF DrainQueue, Jobs
  <2>4. AttemptsLeft'
    BY <1>5 DEF DrainQueue, AttemptsLeft
  <2>5. queue' \in Seq(Tasks) /\ Len(queue') <= MaxQueue
    BY <1>5, Limits DEF DrainQueue
  <2>6. QED
    BY <1>1, <1>5, <2>1, <2>2, <2>3, <2>4, <2>5, TypesKept DEF DrainQueue
<1>6. CASE DisableAsync
  <2>1. handler' \in [step : Steps, task : Tasks \cup {NoTask}] /\ HandlerHolds'
    BY <1>2, <1>6, HandlerTypes DEF DisableAsync
  <2>2. mode' \in Modes /\ AttemptsLeft'
    BY <1>6 DEF DisableAsync, Modes, AttemptsLeft
  <2>3. QED
    BY <1>1, <1>6, <2>1, <2>2, TypesKept DEF DisableAsync
<1>7. CASE EndJoin
  <2>1. handler' \in [step : Steps, task : Tasks \cup {NoTask}] /\ HandlerHolds'
    BY <1>2, <1>7, HandlerTypes DEF EndJoin, Done
  <2>2. mode' \in Modes /\ AttemptsLeft'
    BY <1>7 DEF EndJoin, Modes, AttemptsLeft
  <2>3. QED
    BY <1>1, <1>7, <2>1, <2>2, TypesKept DEF EndJoin
<1>8. CASE StoreResult
  <2>1. handler.task \in Tasks
    BY <1>8 DEF StoreResult, HandlerHolds
  <2>2. handler' \in [step : Steps, task : Tasks \cup {NoTask}] /\ HandlerHolds'
    BY <1>2, <1>8, <2>1, HandlerTypes DEF StoreResult
  <2>3. AttemptsLeft'
    BY <1>8 DEF StoreResult, AttemptsLeft
  <2>4. QED
    BY <1>1, <1>8, <2>2, <2>3, TypesKept DEF StoreResult
<1>9. CASE AwaitBroadcast
  <2>1. handler' \in [step : Steps, task : Tasks \cup {NoTask}] /\ HandlerHolds'
    BY <1>2, <1>9, HandlerTypes DEF AwaitBroadcast, Done
  <2>2. AttemptsLeft'
    BY <1>9 DEF AwaitBroadcast, AttemptsLeft
  <2>3. awaiting' \in [Tasks -> Nat]
    <3>1. handler.task \in Tasks /\ awaiting \in [Tasks -> Nat]
      BY <1>9 DEF AwaitBroadcast, HandlerHolds
    <3>2. awaiting' \in {awaiting, [awaiting EXCEPT ![handler.task] = @ + 1]}
      BY <1>9 DEF AwaitBroadcast
    <3>3. QED
      BY <3>1, <3>2
  <2>4. QED
    BY <1>1, <1>9, <2>1, <2>2, <2>3, TypesKept DEF AwaitBroadcast
<1>10. ASSUME NEW t \in Tasks, SubmitTask(t)
       PROVE  TypeInv'
  <2>1. worker' \in [Workers -> Places]
    BY <1>10 DEF SubmitTask, Places
  <2>2. queue' \in Seq(Tasks) /\ Len(queue') <= MaxQueue
    <3>1. CASE HasRoom
      <4>1. queue' = Append(queue, t) /\ Len(queue) < MaxQueue /\ queue \in Seq(Tasks)
        BY <1>10, <3>1 DEF SubmitTask, HasRoom
      <4>2. QED
        BY <4>1, Limits
    <3>2. CASE ~HasRoom
      BY <1>10, <3>2 DEF SubmitTask
    <3>3. QED
      BY <3>1, <3>2
  <2>3. job' \in [Tasks -> Jobs]
    BY <1>10, ZenonT(30) DEF SubmitTask, Jobs
  <2>4. AttemptsLeft' /\ HandlerHolds'
    BY <1>10 DEF SubmitTask, AttemptsLeft, HandlerHolds
  <2>5. QED
    BY <1>1, <1>10, <2>1, <2>2, <2>3, <2>4, TypesKept DEF SubmitTask
<1>11. ASSUME NEW t \in Tasks, ReceiveResult(t)
       PROVE  TypeInv'
  <2>1. handler' \in [step : Steps, task : Tasks \cup {NoTask}] /\ HandlerHolds'
    BY <1>2, <1>11, HandlerTypes DEF ReceiveResult
  <2>2. AttemptsLeft' /\ reported' \in [Tasks -> Nat]
    BY <1>11 DEF ReceiveResult, AttemptsLeft
  <2>3. QED
    BY <1>1, <1>11, <2>1, <2>2, TypesKept DEF ReceiveResult
<1>12. ASSUME NEW t \in Tasks, FinishBroadcast(t)
       PROVE  TypeInv'
  <2>1. AttemptsLeft' /\ HandlerHolds' /\ awaiting' \in [Tasks -> Nat]
    BY <1>12 DEF FinishBroadcast, AttemptsLeft, HandlerHolds
  <2>2. QED
    BY <1>1, <1>12, <2>1, TypesKept DEF FinishBroadcast
<1>13. QED
  BY <1>3, <1>4, <1>5, <1>6, <1>7, <1>8, <1>9, <1>10, <1>11, <1>12 DEF EventLoop

(* An exception keeps the attempts within their limit. *)
LEMMA AttemptedTypes ==
    ASSUME TypeInv, NEW t \in Tasks, job[t] \in {"attempt", "sent"}, Attempted(t)
    PROVE  /\ job' \in [Tasks -> Jobs]
           /\ attempts' \in [Tasks -> 0..RetryAttempts]
           /\ totals' \in [scheduled : Nat, failed : Nat, retries : Nat]
           /\ AttemptsLeft'
<1>1. /\ job \in [Tasks -> Jobs] /\ attempts \in [Tasks -> 0..RetryAttempts]
      /\ totals \in [scheduled : Nat, failed : Nat, retries : Nat]
      /\ attempts[t] < RetryAttempts /\ AttemptsLeft
  BY DEF TypeInv, TypeOK, AttemptsLeft
<1>2. attempts' \in [Tasks -> 0..RetryAttempts]
  BY <1>1, Limits DEF Attempted
<1>3. CASE attempts[t] + 1 < RetryAttempts
  BY <1>1, <1>2, <1>3, Limits DEF Attempted, Jobs, AttemptsLeft
<1>4. CASE ~(attempts[t] + 1 < RetryAttempts)
  BY <1>1, <1>2, <1>4, Limits DEF Attempted, Jobs, AttemptsLeft
<1>5. QED
  BY <1>3, <1>4

LEMMA CountsAdded ==
    ASSUME NEW c \in [scheduled : Nat, failed : Nat, retries : Nat],
           NEW m \in Nat, NEW n \in Nat,
           NEW d, d = [c EXCEPT !.scheduled = @ + m, !.failed = @ + n]
    PROVE  /\ d \in [scheduled : Nat, failed : Nat, retries : Nat]
           /\ d.scheduled = c.scheduled + m /\ d.failed = c.failed + n
<1>1. c.scheduled \in Nat /\ c.failed \in Nat
  OBVIOUS
<1> DEFINE e == [c EXCEPT !.scheduled = @ + m]
<1>2. /\ e \in [scheduled : Nat, failed : Nat, retries : Nat]
      /\ e.scheduled = c.scheduled + m /\ e.failed = c.failed
  BY <1>1
<1>3. d = [e EXCEPT !.failed = @ + n]
  BY Zenon DEF e
<1> HIDE DEF e
<1>4. QED
  BY <1>1, <1>2, <1>3

LEMMA WorkerTypes ==
    ASSUME TypeInv, IInv, NEW w \in Workers, WorkerLoop(w)
    PROVE  TypeInv'
<1> USE DEF TypeInv, TypeOK, queueVars, workVars, loopVars
<1>1. status' \in [Tasks -> StatusSet]
  <2>1. status \in [Tasks -> StatusSet]
    BY DEF StatusSet
  <2>2. UNCHANGED status \/ \E t \in Tasks : T!Register(t) \/ T!Schedule(t)
    BY DEF WorkerLoop, LoopTop, CollectTask, BeginBatch, EndBatch, Coroutine, NoInstances,
           AttemptFails, Deliver, ResponseLost, RegisterTask, MarkScheduled
  <2>3. QED
    BY <2>1, <2>2, StatusTypes
<1>2. CASE LoopTop(w) \/ BeginBatch(w)
  <2>1. worker' \in [Workers -> Places]
    BY <1>2 DEF LoopTop, BeginBatch, Places
  <2>2. AttemptsLeft' /\ HandlerHolds'
    BY <1>2 DEF LoopTop, BeginBatch, AttemptsLeft, HandlerHolds
  <2>3. QED
    BY <1>1, <1>2, <2>1, <2>2, TypesKept, SMTT(30) DEF LoopTop, BeginBatch
<1>3. CASE CollectTask(w)
  <2>1. queue # <<>> /\ queue \in Seq(Tasks) /\ Len(queue) <= MaxQueue
    BY <1>3 DEF CollectTask
  <2>2. /\ Head(queue) \in Tasks /\ Tail(queue) \in Seq(Tasks)
        /\ Len(Tail(queue)) <= MaxQueue
    BY <2>1, Limits, SMTT(30)
  <2>3. job' \in [Tasks -> Jobs] /\ batch' \in [Workers -> SUBSET Tasks]
    BY <1>3, <2>2 DEF CollectTask, Jobs
  <2>4. job[Head(queue)] = "queued"
    BY <2>1 DEF IInv, QueueFresh
  <2>5. AttemptsLeft' /\ HandlerHolds'
    <3>1. PICK t \in Tasks : t = Head(queue)
      BY <2>2
    <3>2. attempts[t] = 0 /\ job' = [job EXCEPT ![t] = "attempt"] /\ UNCHANGED attempts
      BY <1>3, <2>4, <3>1 DEF CollectTask, AttemptsLeft
    <3>3. AttemptsLeft'
      BY <3>2, Limits DEF AttemptsLeft
    <3>4. HandlerHolds'
      BY <1>3 DEF CollectTask, HandlerHolds
    <3>5. QED
      BY <3>3, <3>4
  <2>6. QED
    BY <1>1, <1>3, <2>2, <2>3, <2>5, TypesKept DEF CollectTask
<1>4. CASE EndBatch(w)
  <2>1. Successes(w) \subseteq Tasks /\ Failures(w) \subseteq Tasks
    BY DEF Successes, Failures
  <2>2. Cardinality(Successes(w)) \in Nat /\ Cardinality(Failures(w)) \in Nat
    BY <2>1, SchedulerAssumption, FS_Subset, FS_CardinalityType
  <2>3. totals' \in [scheduled : Nat, failed : Nat, retries : Nat]
    <3>1. totals' = [totals EXCEPT !.scheduled = @ + Cardinality(Successes(w)),
                                   !.failed = @ + Cardinality(Failures(w))]
      BY <1>4 DEF EndBatch
    <3>2. totals \in [scheduled : Nat, failed : Nat, retries : Nat]
      OBVIOUS
    <3>3. QED
      BY <2>2, <3>1, <3>2, CountsAdded
  <2>4. worker' \in [Workers -> Places] /\ batch' \in [Workers -> SUBSET Tasks]
    BY <1>4 DEF EndBatch, Places
  <2>5. AttemptsLeft' /\ HandlerHolds'
    BY <1>4 DEF EndBatch, AttemptsLeft, HandlerHolds
  <2>6. QED
    BY <1>1, <1>4, <2>3, <2>4, <2>5, TypesKept DEF EndBatch
<1>5. ASSUME NEW t \in Tasks, Coroutine(w, t)
      PROVE  TypeInv'
  <2>1. CASE AttemptFails(w, t) \/ ResponseLost(w, t)
    <3>1. job[t] \in {"attempt", "sent"} /\ Attempted(t)
      BY <2>1 DEF AttemptFails, ResponseLost
    <3>2. HandlerHolds'
      BY <2>1 DEF AttemptFails, ResponseLost, HandlerHolds
    <3>3. QED
      BY <1>1, <2>1, <3>1, <3>2, AttemptedTypes, TypesKept DEF AttemptFails, ResponseLost
  <2>2. CASE NoInstances(w, t) \/ Deliver(w, t) \/ RegisterTask(w, t) \/ MarkScheduled(w, t)
    <3>1. PICK j \in {"failed", "sent", "registered", "scheduled"} :
              /\ job' = [job EXCEPT ![t] = j]
              /\ j \in {"sent", "registered"} => job[t] \in {"attempt", "sent"}
      BY <2>2 DEF NoInstances, Deliver, RegisterTask, MarkScheduled
    <3>2. job' \in [Tasks -> Jobs]
      BY <3>1 DEF Jobs
    <3>3. UNCHANGED attempts
      BY <2>2 DEF NoInstances, Deliver, RegisterTask, MarkScheduled
    <3>4. AttemptsLeft'
      BY <3>1, <3>3 DEF AttemptsLeft
    <3>5. HandlerHolds'
      BY <2>2 DEF NoInstances, Deliver, RegisterTask, MarkScheduled, HandlerHolds
    <3>6. delivered' \in {delivered, [delivered EXCEPT ![t] = @ + 1]}
      BY <2>2 DEF NoInstances, Deliver, RegisterTask, MarkScheduled
    <3>7. delivered' \in [Tasks -> Nat]
      BY <3>6, SMTT(30)
    <3>8. QED
      BY <1>1, <2>2, <3>2, <3>3, <3>4, <3>5, <3>7, TypesKept
      DEF NoInstances, Deliver, RegisterTask, MarkScheduled
  <2>3. QED
    BY <1>5, <2>1, <2>2 DEF Coroutine
<1>6. QED
  BY <1>2, <1>3, <1>4, <1>5 DEF WorkerLoop

LEMMA TypeStep == TypeInv /\ IInv /\ [Next]_vars => TypeInv'
<1> SUFFICES ASSUME TypeInv, IInv, [Next]_vars PROVE TypeInv'
  OBVIOUS
<1>1. CASE EventLoop
  BY <1>1, LoopTypes
<1>2. ASSUME NEW w \in Workers, WorkerLoop(w) PROVE TypeInv'
  BY <1>2, WorkerTypes
<1>3. CASE UNCHANGED vars
  BY <1>3 DEF TypeInv, TypeOK, AttemptsLeft, HandlerHolds, vars, queueVars, workVars, loopVars
<1>4. QED
  BY <1>1, <1>2, <1>3 DEF Next

(* The asynchronous scheduler's state is of its type: in particular no task  *)
(* is attempted more than retry_attempts times, and the queue never exceeds  *)
(* max_queue_size.                                                           *)
THEOREM SchedulerTyped == Spec => []TypeOK
<1>1. TypeInv => TypeOK
  BY DEF TypeInv
<1>2. QED
  BY TypeInit, TypeStep, CopiesInit, CopiesStep, <1>1, PTL DEF Spec

-----------------------------------------------------------------------------
(* Where an accepted task is: in the queue, in a batch, cleared or counted.  *)
Trying == {"attempt", "sent", "registered"}
Ended == {"scheduled", "failed"}
Counted == {t \in Tasks : job[t] \in Ended /\ t \notin Collected}

BatchesDisjoint == \A v, w \in Workers : v # w => batch[v] \cap batch[w] = {}

PlacesInv ==
    /\ BatchesDisjoint
    /\ \A t \in Tasks : job[t] = "queued" <=> t \in InQueue
    /\ \A t \in Tasks : job[t] \in Trying => t \in Collected
    /\ \A t \in Collected : job[t] \in Trying \cup Ended
    /\ cleared = {t \in Tasks : job[t] = "cleared"}
    /\ ~reset \/ handler.step = "drain" => cleared = {}
    /\ handler.step = "drain" => reset
    /\ totals.scheduled + totals.failed = Cardinality(Counted)

LEMMA QueueTypes ==
    ASSUME TypeInv
    PROVE  /\ queue \in Seq(Tasks) /\ Len(queue) \in Nat
           /\ InQueue = {queue[k] : k \in 1..Len(queue)}
           /\ InQueue \subseteq Tasks
<1>1. queue \in Seq(Tasks) /\ DOMAIN queue = 1..Len(queue)
  BY DEF TypeInv, TypeOK
<1>2. InQueue = {queue[k] : k \in 1..Len(queue)}
  BY <1>1 DEF InQueue
<1>3. QED
  BY <1>1, <1>2

LEMMA PlacesInit == Init => PlacesInv
<1> SUFFICES ASSUME Init PROVE PlacesInv
  OBVIOUS
<1>1. InQueue = {} /\ Collected = {} /\ \A t \in Tasks : job[t] = "none"
  BY DEF Init, InQueue, Collected
<1>2. Counted = {} /\ Cardinality(Counted) = 0
  BY <1>1, FS_EmptySet DEF Counted, Ended
<1>3. /\ BatchesDisjoint /\ cleared = {} /\ handler.step = "idle"
      /\ totals.scheduled + totals.failed = Cardinality(Counted)
  BY <1>2 DEF Init, BatchesDisjoint
<1>4. QED
  BY <1>1, <1>3 DEF PlacesInv, Trying

(* A coroutine's step: the task stays in its batch. *)
LEMMA CoroutinePlaces ==
    ASSUME TypeInv, PlacesInv, NEW w \in Workers, NEW t \in Tasks, Coroutine(w, t)
    PROVE  PlacesInv'
<1>1. /\ UNCHANGED <<batch, queue, cleared, reset, handler>>
      /\ t \in batch[w] /\ job[t] \in Trying
      /\ totals'.scheduled = totals.scheduled /\ totals'.failed = totals.failed
  BY DEF Coroutine, NoInstances, AttemptFails, Deliver, ResponseLost, RegisterTask,
         MarkScheduled, Attempted, Turn, Trying, queueVars, loopVars, TypeInv, TypeOK
<1>2. PICK j \in Trying \cup Ended : job' = [job EXCEPT ![t] = j]
  BY DEF Coroutine, NoInstances, AttemptFails, Deliver, ResponseLost, RegisterTask,
         MarkScheduled, Attempted, Trying, Ended
<1>3. /\ \A u \in Tasks \ {t} : job'[u] = job[u]
      /\ job'[t] = j
  BY <1>2 DEF TypeInv, TypeOK
<1>4. InQueue' = InQueue /\ Collected' = Collected
  BY <1>1 DEF InQueue, Collected
<1>5. t \in Collected
  BY <1>1 DEF Collected
<1>6. Counted' = Counted
  BY <1>3, <1>4, <1>5 DEF Counted
<1>7. /\ j \notin {"none", "queued", "cleared"}
      /\ job[t] \notin {"none", "queued", "cleared"}
  BY <1>1 DEF Trying, Ended
<1>8. BatchesDisjoint'
  BY <1>1 DEF PlacesInv, BatchesDisjoint
<1>9. \A u \in Tasks : job'[u] = "queued" <=> u \in InQueue'
  BY <1>3, <1>4, <1>7 DEF PlacesInv
<1>10. /\ \A u \in Tasks : job'[u] \in Trying => u \in Collected'
       /\ \A u \in Collected' : job'[u] \in Trying \cup Ended
  <2>1. Collected \subseteq Tasks
    BY DEF Collected, TypeInv, TypeOK
  <2>2. QED
    BY <1>2, <1>3, <1>4, <1>5, <2>1 DEF PlacesInv
<1>11. cleared' = {u \in Tasks : job'[u] = "cleared"}
  BY <1>1, <1>3, <1>7 DEF PlacesInv
<1>12. QED
  BY <1>1, <1>6, <1>8, <1>9, <1>10, <1>11 DEF PlacesInv

(* A step that moves no task. *)
LEMMA UnmovedPlaces ==
    ASSUME PlacesInv, UNCHANGED <<batch, queue, job, totals, cleared>>,
           ~reset' \/ handler'.step = "drain" => ~reset \/ handler.step = "drain",
           handler'.step = "drain" => reset'
    PROVE  PlacesInv'
BY DEF PlacesInv, BatchesDisjoint, InQueue, Collected, Counted

LEMMA SubmitPlaces ==
    ASSUME TypeInv, PlacesInv, NEW t \in Tasks, SubmitTask(t)
    PROVE  PlacesInv'
<1>1. CASE ~HasRoom
  BY <1>1, UnmovedPlaces DEF SubmitTask, loopVars, PlacesInv
<1>2. CASE HasRoom
  <2>1. /\ job[t] = "none" /\ queue' = Append(queue, t)
        /\ job' = [job EXCEPT ![t] = "queued"]
        /\ UNCHANGED <<batch, totals, cleared, reset, handler>>
    BY <1>2 DEF SubmitTask, loopVars
  <2>2. InQueue' = InQueue \cup {t}
    <3>1. /\ queue' \in Seq(Tasks) /\ Len(queue') = Len(queue) + 1
          /\ queue'[Len(queue) + 1] = t
          /\ \A k \in 1..Len(queue) : queue'[k] = queue[k]
      BY <2>1, QueueTypes
    <3>2. InQueue' = {queue'[k] : k \in 1..(Len(queue) + 1)}
      BY <3>1 DEF InQueue
    <3>3. QED
      BY <3>1, <3>2, QueueTypes
  <2>3. Collected' = Collected
    BY <2>1 DEF Collected
  <2>4. job'[t] = "queued" /\ \A u \in Tasks \ {t} : job'[u] = job[u]
    BY <2>1 DEF TypeInv, TypeOK
  <2>5. Counted' = Counted
    BY <2>1, <2>3, <2>4 DEF Counted, Ended
  <2>6. t \notin Collected
    BY <2>1 DEF PlacesInv, Trying, Ended
  <2>7. BatchesDisjoint'
    BY <2>1 DEF PlacesInv, BatchesDisjoint
  <2>8. \A u \in Tasks : job'[u] = "queued" <=> u \in InQueue'
    BY <2>2, <2>4 DEF PlacesInv
  <2>9. /\ \A u \in Tasks : job'[u] \in Trying => u \in Collected'
        /\ \A u \in Collected' : job'[u] \in Trying \cup Ended
    <3>1. Collected \subseteq Tasks
      BY DEF Collected, TypeInv, TypeOK
    <3>2. QED
      BY <2>3, <2>4, <2>6, <3>1 DEF PlacesInv, Trying
  <2>10. cleared' = {u \in Tasks : job'[u] = "cleared"}
    BY <2>1, <2>4 DEF PlacesInv
  <2>11. QED
    BY <2>1, <2>5, <2>7, <2>8, <2>9, <2>10 DEF PlacesInv
<1>3. QED
  BY <1>1, <1>2

LEMMA CollectPlaces ==
    ASSUME TypeInv, IInv, PlacesInv, NEW w \in Workers, CollectTask(w)
    PROVE  PlacesInv'
<1>1. queue # <<>> /\ queue \in Seq(Tasks) /\ queue' = Tail(queue)
      /\ UNCHANGED <<totals, cleared, reset, handler>>
  BY QueueTypes DEF CollectTask, loopVars
<1>2. PICK t \in Tasks : t = Head(queue)
  BY <1>1
<1>3. /\ job' = [job EXCEPT ![t] = "attempt"]
      /\ batch' = [batch EXCEPT ![w] = @ \cup {t}]
  BY <1>2 DEF CollectTask
<1>4. /\ Len(queue) \in Nat \ {0} /\ t = queue[1] /\ Len(queue') = Len(queue) - 1
      /\ \A k \in 1..Len(queue') : queue'[k] = queue[k + 1]
  BY <1>1, <1>2
<1>5. InQueue' = InQueue \ {t}
  <2>1. \A k \in 2..Len(queue) : queue[k] # t
    BY <1>4 DEF IInv, QueueDistinct
  <2>2. InQueue' = {queue'[k] : k \in 1..Len(queue')}
    <3>1. queue' \in Seq(Tasks) /\ DOMAIN queue' = 1..Len(queue')
      BY <1>1
    <3>2. QED
      BY <3>1 DEF InQueue
  <2>3. InQueue' = {queue[k] : k \in 2..Len(queue)}
    <3>1. ASSUME NEW x \in InQueue' PROVE \E k \in 2..Len(queue) : x = queue[k]
      <4>1. PICK k \in 1..Len(queue') : x = queue'[k]
        BY <2>2, <3>1
      <4>2. x = queue[k + 1] /\ k + 1 \in 2..Len(queue)
        BY <1>4, <4>1
      <4>3. QED
        BY <4>2
    <3>2. ASSUME NEW k \in 2..Len(queue) PROVE queue[k] \in InQueue'
      <4>1. k - 1 \in 1..Len(queue') /\ queue'[k - 1] = queue[k]
        BY <1>4
      <4>2. QED
        BY <2>2, <4>1
    <3>3. QED
      BY <3>1, <3>2
  <2>4. InQueue = {t} \cup {queue[k] : k \in 2..Len(queue)}
    BY <1>4, QueueTypes
  <2>5. QED
    BY <2>1, <2>3, <2>4
<1>6. t \in InQueue /\ job[t] = "queued"
  BY <1>4, QueueTypes DEF PlacesInv
<1>7. t \notin Collected
  BY <1>6 DEF PlacesInv, Trying, Ended
<1>8. \A v \in Workers : batch'[v] = IF v = w THEN batch[v] \cup {t} ELSE batch[v]
  BY <1>3 DEF TypeInv, TypeOK
<1>9. Collected' = Collected \cup {t}
  BY <1>8 DEF Collected
<1>10. job'[t] = "attempt" /\ \A u \in Tasks \ {t} : job'[u] = job[u]
  BY <1>3 DEF TypeInv, TypeOK
<1>11. Counted' = Counted
  BY <1>6, <1>9, <1>10 DEF Counted, Ended
<1>12. BatchesDisjoint'
  <2>1. \A v \in Workers : t \notin batch[v]
    BY <1>7 DEF Collected
  <2>2. QED
    BY <1>8, <2>1, ZenonT(30) DEF PlacesInv, BatchesDisjoint
<1>13. \A u \in Tasks : job'[u] = "queued" <=> u \in InQueue'
  BY <1>5, <1>10 DEF PlacesInv
<1>14. /\ \A u \in Tasks : job'[u] \in Trying => u \in Collected'
       /\ \A u \in Collected' : job'[u] \in Trying \cup Ended
  <2>1. Collected \subseteq Tasks
    BY DEF Collected, TypeInv, TypeOK
  <2>2. QED
    BY <1>9, <1>10, <2>1 DEF PlacesInv, Trying
<1>15. cleared' = {u \in Tasks : job'[u] = "cleared"}
  BY <1>1, <1>6, <1>10 DEF PlacesInv
<1>16. QED
  BY <1>1, <1>11, <1>12, <1>13, <1>14, <1>15 DEF PlacesInv

(* A clear empties the queue once: nothing was cleared before. *)
LEMMA DrainPlaces ==
    ASSUME TypeInv, PlacesInv, DrainQueue
    PROVE  PlacesInv'
<1>1. /\ cleared = {} /\ cleared' = InQueue /\ queue' = <<>>
      /\ job' = [t \in Tasks |-> IF t \in cleared' THEN "cleared" ELSE job[t]]
      /\ handler'.step = "idle" /\ UNCHANGED <<batch, totals, reset>>
  BY DEF DrainQueue, PlacesInv, InQueue, Done, Handle
<1>2. InQueue' = {} /\ Collected' = Collected
  BY <1>1 DEF InQueue, Collected
<1>3. \A t \in Tasks : IF job[t] = "queued" THEN job'[t] = "cleared"
                                           ELSE job'[t] = job[t] /\ job[t] # "cleared"
  BY <1>1 DEF PlacesInv
<1>4. Counted' = Counted
  BY <1>2, <1>3 DEF Counted, Ended
<1>5. BatchesDisjoint'
  BY <1>1 DEF PlacesInv, BatchesDisjoint
<1>6. /\ \A u \in Tasks : job'[u] \in Trying => u \in Collected'
      /\ \A u \in Collected' : job'[u] \in Trying \cup Ended
  <2>1. Collected \subseteq Tasks
    BY DEF Collected, TypeInv, TypeOK
  <2>2. QED
    BY <1>2, <1>3, <2>1 DEF PlacesInv, Trying, Ended
<1>7. cleared' = {u \in Tasks : job'[u] = "cleared"}
  BY <1>1, <1>3, QueueTypes DEF PlacesInv
<1>8. \A u \in Tasks : job'[u] = "queued" <=> u \in InQueue'
  BY <1>2, <1>3
<1>9. reset'
  BY <1>1 DEF DrainQueue, PlacesInv
<1>10. QED
  BY <1>1, <1>4, <1>5, <1>6, <1>7, <1>8, <1>9 DEF PlacesInv

LEMMA DisjointUnion ==
    ASSUME NEW A, NEW B, IsFiniteSet(A), IsFiniteSet(B), A \cap B = {}
    PROVE  /\ IsFiniteSet(A \cup B)
           /\ Cardinality(A) \in Nat /\ Cardinality(B) \in Nat
           /\ Cardinality(A \cup B) = Cardinality(A) + Cardinality(B)
<1>1. Cardinality(A) \in Nat /\ Cardinality(B) \in Nat
  BY FS_CardinalityType
<1>2. Cardinality(A \cap B) = 0
  BY FS_EmptySet
<1>3. /\ IsFiniteSet(A \cup B)
      /\ Cardinality(A \cup B) = Cardinality(A) + Cardinality(B) - Cardinality(A \cap B)
  BY FS_Union
<1>4. QED
  BY <1>1, <1>2, <1>3

(* What a worker counts at the end of a batch it no longer holds. *)
LEMMA EndPlaces ==
    ASSUME TypeInv, PlacesInv, NEW w \in Workers, EndBatch(w)
    PROVE  PlacesInv'
<1> USE SchedulerAssumption
<1>1. /\ \A t \in batch[w] : job[t] \in Ended
      /\ batch' = [batch EXCEPT ![w] = {}]
      /\ UNCHANGED <<queue, job, cleared, reset, handler>>
  BY DEF EndBatch, Ended, queueVars, loopVars
<1>2. /\ \A v \in Workers : batch'[v] = IF v = w THEN {} ELSE batch[v]
      /\ batch[w] \subseteq Tasks
  BY <1>1 DEF TypeInv, TypeOK
<1>3. Collected' = Collected \ batch[w]
  BY <1>2 DEF Collected, PlacesInv, BatchesDisjoint
<1>4. Counted' = Counted \cup batch[w] /\ Counted \cap batch[w] = {}
  BY <1>1, <1>2, <1>3 DEF Counted, Collected
<1>5. Cardinality(batch[w]) = Cardinality(Successes(w)) + Cardinality(Failures(w))
      /\ Cardinality(Successes(w)) \in Nat /\ Cardinality(Failures(w)) \in Nat
  <2>1. batch[w] = Successes(w) \cup Failures(w) /\ Successes(w) \cap Failures(w) = {}
    BY <1>1 DEF Successes, Failures, Ended
  <2>2. IsFiniteSet(Successes(w)) /\ IsFiniteSet(Failures(w))
    BY <1>2, <2>1, FS_Subset
  <2>3. QED
    BY <2>1, <2>2, DisjointUnion
<1>6. Cardinality(Counted') = Cardinality(Counted) + Cardinality(batch[w])
      /\ Cardinality(Counted) \in Nat
  <2>1. IsFiniteSet(Counted) /\ IsFiniteSet(batch[w])
    BY <1>2, FS_Subset DEF Counted
  <2>2. QED
    BY <1>4, <2>1, DisjointUnion
<1>7. /\ totals'.scheduled = totals.scheduled + Cardinality(Successes(w))
      /\ totals'.failed = totals.failed + Cardinality(Failures(w))
      /\ totals.scheduled \in Nat /\ totals.failed \in Nat
  <2>1. totals' = [totals EXCEPT !.scheduled = @ + Cardinality(Successes(w)),
                                 !.failed = @ + Cardinality(Failures(w))]
    BY DEF EndBatch
  <2>2. totals \in [scheduled : Nat, failed : Nat, retries : Nat]
    BY DEF TypeInv, TypeOK
  <2>3. QED
    BY <1>5, <2>1, <2>2, CountsAdded
<1>8. totals'.scheduled + totals'.failed = Cardinality(Counted')
  BY <1>5, <1>6, <1>7 DEF PlacesInv
<1>9. BatchesDisjoint'
  BY <1>2 DEF PlacesInv, BatchesDisjoint
<1>10. InQueue' = InQueue
  BY <1>1 DEF InQueue
<1>11. \A t \in Tasks : job[t] \in Trying => t \notin batch[w]
  BY <1>1 DEF Trying, Ended
<1>12. QED
  BY <1>1, <1>3, <1>8, <1>9, <1>10, <1>11 DEF PlacesInv

LEMMA PlacesStep == TypeInv /\ IInv /\ PlacesInv /\ [Next]_vars => PlacesInv'
<1> SUFFICES ASSUME TypeInv, IInv, PlacesInv, [Next]_vars PROVE PlacesInv'
  OBVIOUS
<1>1. CASE EventLoop
  <2>1. CASE EnableAsync \/ StoreResult \/ AwaitBroadcast \/ DisableAsync \/ EndJoin
    <3>1. /\ UNCHANGED <<batch, queue, job, totals, cleared, reset>>
          /\ handler'.step # "drain" \/ UNCHANGED handler
      BY <2>1 DEF EnableAsync, StoreResult, AwaitBroadcast, DisableAsync, EndJoin,
                  Done, Handle, queueVars, workVars, loopVars
    <3>2. QED
      BY <3>1, UnmovedPlaces DEF PlacesInv
  <2>2. CASE ClearTracker
    <3>1. UNCHANGED <<batch, queue, job, totals, cleared>> /\ ~reset /\ reset'
      BY <2>2 DEF ClearTracker, workVars
    <3>2. QED
      BY <3>1, UnmovedPlaces
  <2>3. CASE DrainQueue
    BY <2>3, DrainPlaces
  <2>4. ASSUME NEW t \in Tasks, SubmitTask(t)
        PROVE  PlacesInv'
    BY <2>4, SubmitPlaces
  <2>5. ASSUME NEW t \in Tasks, ReceiveResult(t) \/ FinishBroadcast(t)
        PROVE  PlacesInv'
    <3>1. /\ UNCHANGED <<batch, queue, job, totals, cleared, reset>>
          /\ handler'.step # "drain" \/ UNCHANGED handler
      BY <2>5 DEF ReceiveResult, FinishBroadcast, Handle, queueVars, workVars
    <3>2. QED
      BY <3>1, UnmovedPlaces DEF PlacesInv
  <2>6. QED
    BY <1>1, <2>1, <2>2, <2>3, <2>4, <2>5 DEF EventLoop
<1>2. ASSUME NEW w \in Workers, WorkerLoop(w)
      PROVE  PlacesInv'
  <2>1. CASE LoopTop(w) \/ BeginBatch(w)
    <3>1. UNCHANGED <<batch, queue, job, totals, cleared, reset, handler>>
      BY <2>1 DEF LoopTop, BeginBatch, queueVars, loopVars
    <3>2. QED
      BY <3>1, UnmovedPlaces DEF PlacesInv
  <2>2. CASE CollectTask(w)
    BY <2>2, CollectPlaces
  <2>3. CASE EndBatch(w)
    BY <2>3, EndPlaces
  <2>4. ASSUME NEW t \in Tasks, Coroutine(w, t)
        PROVE  PlacesInv'
    BY <2>4, CoroutinePlaces
  <2>5. QED
    BY <1>2, <2>1, <2>2, <2>3, <2>4 DEF WorkerLoop
<1>3. CASE UNCHANGED vars
  BY <1>3, UnmovedPlaces DEF vars, queueVars, workVars, loopVars, PlacesInv
<1>4. QED
  BY <1>1, <1>2, <1>3 DEF Next

(* A queue in which nothing is twice has as many places as tasks. *)
LEMMA QueueCount ==
    ASSUME TypeInv, IInv
    PROVE  IsFiniteSet(InQueue) /\ Cardinality(InQueue) = Len(queue)
<1> DEFINE f == [k \in 1..Len(queue) |-> queue[k]]
<1>1. Len(queue) \in Nat /\ InQueue = {queue[k] : k \in 1..Len(queue)}
  BY QueueTypes
<1>2. f \in Bijection(1..Len(queue), InQueue)
  BY <1>1 DEF IInv, QueueDistinct, Bijection, Injection, Surjection, IsInjective
<1>3. ExistsBijection(1..Len(queue), InQueue)
  BY <1>2 DEF ExistsBijection
<1>4. QED
  BY <1>1, <1>3, FS_CountingElements, FS_NatBijection

LEMMA Conserved == TypeInv /\ IInv /\ PlacesInv => TasksConserved
<1> SUFFICES ASSUME TypeInv, IInv, PlacesInv PROVE TasksConserved
  OBVIOUS
<1> USE SchedulerAssumption
<1> DEFINE Accepted == {t \in Tasks : job[t] # "none"}
<1>1. Collected \subseteq Tasks /\ InQueue \subseteq Tasks /\ job \in [Tasks -> Jobs]
  <2>1. Collected \subseteq Tasks
    BY DEF Collected, TypeInv, TypeOK
  <2>2. job \in [Tasks -> Jobs]
    BY DEF TypeInv, TypeOK
  <2>3. QED
    BY <2>1, <2>2, QueueTypes
<1>2. /\ IsFiniteSet(Collected) /\ IsFiniteSet(cleared) /\ IsFiniteSet(Counted)
      /\ IsFiniteSet(InQueue)
  BY <1>1, FS_Subset DEF TypeInv, TypeOK, Counted
<1>3. Accepted = (InQueue \cup Collected) \cup (cleared \cup Counted)
  BY <1>1 DEF PlacesInv, Counted, Jobs, Trying, Ended
<1>4. /\ InQueue \cap Collected = {} /\ cleared \cap Counted = {}
      /\ (InQueue \cup Collected) \cap (cleared \cup Counted) = {}
  BY <1>1 DEF PlacesInv, Counted, Trying, Ended
<1>5. /\ Cardinality(InQueue \cup Collected) = Cardinality(InQueue) + Cardinality(Collected)
      /\ Cardinality(cleared \cup Counted) = Cardinality(cleared) + Cardinality(Counted)
      /\ IsFiniteSet(InQueue \cup Collected) /\ IsFiniteSet(cleared \cup Counted)
  BY <1>2, <1>4, DisjointUnion
<1>6. Cardinality(Accepted) =
          Cardinality(InQueue \cup Collected) + Cardinality(cleared \cup Counted)
  BY <1>3, <1>4, <1>5, DisjointUnion
<1>7. /\ Cardinality(Collected) \in Nat /\ Cardinality(cleared) \in Nat
      /\ totals.scheduled \in Nat /\ totals.failed \in Nat
  BY <1>2, FS_CardinalityType DEF TypeInv, TypeOK
<1>8. Cardinality(Accepted) = Len(queue) + Cardinality(Collected) + Cardinality(cleared)
                                + totals.scheduled + totals.failed
  BY <1>2, <1>5, <1>6, <1>7, QueueCount, QueueTypes, SMTT(30) DEF PlacesInv
<1>9. QED
  BY <1>8 DEF TasksConserved, PlacesInv, BatchesDisjoint

(* No task is lost or taken twice, however many workers take batches from    *)
(* the queue while a clear empties it.                                       *)
THEOREM NoTaskLost == Spec => []TasksConserved
BY TypeInit, TypeStep, CopiesInit, CopiesStep, PlacesInit, PlacesStep, Conserved, PTL DEF Spec

-----------------------------------------------------------------------------
(* What the tracker knows of a task that has not reported. *)
TrackedInv ==
    /\ \A t \in Tasks : awaiting[t] > 0 => reported[t] > 0
    /\ handler.step \in {"store", "inform"} => reported[handler.task] > 0
    /\ ~reset => \A t \in Tasks :
           reported[t] = 0 =>
               /\ job[t] = "registered" => status[t] = "queued"
               /\ job[t] = "scheduled" => status[t] = "scheduled"

LEMMA TrackedInit == Init => TrackedInv
BY DEF Init, TrackedInv

(* A step of the tracker about one task leaves the others that are not       *)
(* completed alone.                                                          *)
LEMMA OthersKept ==
    ASSUME TypeInv, NEW t \in Tasks,
           \/ T!Register(t) \/ T!Schedule(t) \/ T!Remove(t) \/ Complete(t),
           NEW u \in Tasks \ {t}, status[u] # "completed"
    PROVE  status'[u] = status[u]
BY DEF TypeInv, TypeOK, T!Register, T!Schedule, T!Remove, Complete, T!Complete, T!Without,
       T!Completed

(* A step that is about a task whose result was reported. *)
LEMMA ReportedTracked ==
    ASSUME TypeInv, TrackedInv, UNCHANGED <<job, reset>>, NEW t \in Tasks, reported'[t] > 0,
           \A u \in Tasks : reported[u] > 0 => reported'[u] > 0,
           UNCHANGED status \/ T!Remove(t) \/ Complete(t),
           \A u \in Tasks : awaiting'[u] > 0 => reported'[u] > 0,
           handler'.step \in {"store", "inform"} => reported'[handler'.task] > 0,
           \A u \in Tasks : reported'[u] = 0 => reported[u] = 0
    PROVE  TrackedInv'
<1>1. ASSUME ~reset, NEW u \in Tasks, reported'[u] = 0
      PROVE  /\ job[u] = "registered" => status'[u] = "queued"
             /\ job[u] = "scheduled" => status'[u] = "scheduled"
  <2>1. u # t /\ reported[u] = 0
    BY <1>1
  <2>2. /\ job[u] = "registered" => status[u] = "queued"
        /\ job[u] = "scheduled" => status[u] = "scheduled"
    BY <1>1, <2>1 DEF TrackedInv
  <2>3. status[u] # "completed" => status'[u] = status[u]
    BY <2>1, OthersKept
  <2>4. QED
    BY <2>2, <2>3
<1>2. QED
  BY <1>1 DEF TrackedInv

LEMMA TrackedStep == TypeInv /\ TrackedInv /\ [Next]_vars => TrackedInv'
<1> SUFFICES ASSUME TypeInv, TrackedInv, [Next]_vars PROVE TrackedInv'
  OBVIOUS
<1>1. ASSUME UNCHANGED <<awaiting, handler, reported, reset, job, status>>
      PROVE  TrackedInv'
  BY <1>1 DEF TrackedInv
<1>2. CASE EventLoop
  <2>1. CASE EnableAsync \/ DisableAsync \/ EndJoin
    BY <2>1 DEF EnableAsync, DisableAsync, EndJoin, Done, Handle, TrackedInv,
                queueVars, workVars, loopVars
  <2>2. CASE ClearTracker
    BY <2>2 DEF ClearTracker, Handle, TrackedInv, Idle
  <2>3. CASE DrainQueue
    <3>1. /\ UNCHANGED <<awaiting, reported, reset, status>> /\ handler'.step = "idle"
          /\ \A t \in Tasks : job'[t] \in {"cleared", job[t]}
      BY <2>3 DEF DrainQueue, Done, Handle
    <3>2. QED
      BY <3>1 DEF TrackedInv
  <2>4. CASE StoreResult
    <3>1. /\ handler.task \in Tasks /\ Complete(handler.task) /\ reported[handler.task] > 0
          /\ handler'.task = handler.task
          /\ UNCHANGED <<job, reset, reported, awaiting>>
      BY <2>4 DEF StoreResult, TypeInv, HandlerHolds, TrackedInv, Handle, queueVars, workVars
    <3>2. QED
      BY <3>1, ReportedTracked DEF TrackedInv
  <2>5. CASE AwaitBroadcast
    <3>1. /\ handler.task \in Tasks /\ reported[handler.task] > 0
          /\ UNCHANGED <<job, reset, reported, status>> /\ handler'.step = "idle"
      BY <2>5 DEF AwaitBroadcast, TypeInv, HandlerHolds, TrackedInv, Done, Handle,
                  queueVars, workVars
    <3>2. \A u \in Tasks : awaiting'[u] > 0 => reported[u] > 0
      <4>1. awaiting' \in {awaiting, [awaiting EXCEPT ![handler.task] = @ + 1]}
        BY <2>5 DEF AwaitBroadcast
      <4>2. QED
        BY <3>1, <4>1 DEF TrackedInv, TypeInv, TypeOK
    <3>3. QED
      BY <3>1, <3>2 DEF TrackedInv
  <2>6. ASSUME NEW t \in Tasks, SubmitTask(t)
        PROVE  TrackedInv'
    <3>1. /\ UNCHANGED <<awaiting, handler, reported, reset, status>>
          /\ \A u \in Tasks : job'[u] \in {"queued", job[u]}
      BY <2>6 DEF SubmitTask, loopVars, TypeInv, TypeOK
    <3>2. QED
      BY <3>1 DEF TrackedInv
  <2>7. ASSUME NEW t \in Tasks, ReceiveResult(t)
        PROVE  TrackedInv'
    <3>1. /\ UNCHANGED <<job, reset, awaiting>> /\ Complete(t)
          /\ handler'.task = t /\ reported' = [reported EXCEPT ![t] = @ + 1]
      BY <2>7 DEF ReceiveResult, Handle, queueVars, workVars
    <3>2. /\ \A u \in Tasks : reported'[u] = IF u = t THEN reported[u] + 1 ELSE reported[u]
          /\ \A u \in Tasks : reported[u] \in Nat
      BY <3>1 DEF TypeInv, TypeOK
    <3>3. QED
      BY <3>1, <3>2, ReportedTracked DEF TrackedInv
  <2>8. ASSUME NEW t \in Tasks, FinishBroadcast(t)
        PROVE  TrackedInv'
    <3>1. /\ UNCHANGED <<job, reset, reported, handler>> /\ T!Remove(t) /\ reported[t] > 0
          /\ awaiting' = [awaiting EXCEPT ![t] = @ - 1]
      BY <2>8 DEF FinishBroadcast, TrackedInv, queueVars, workVars
    <3>2. \A u \in Tasks : awaiting'[u] > 0 => reported[u] > 0
      BY <3>1 DEF TrackedInv, TypeInv, TypeOK
    <3>3. QED
      BY <3>1, <3>2, ReportedTracked DEF TrackedInv
  <2>9. QED
    BY <1>2, <2>1, <2>2, <2>3, <2>4, <2>5, <2>6, <2>7, <2>8 DEF EventLoop
<1>3. ASSUME NEW w \in Workers, WorkerLoop(w)
      PROVE  TrackedInv'
  <2>1. UNCHANGED <<awaiting, handler, reported, reset>>
    BY <1>3 DEF WorkerLoop, LoopTop, CollectTask, BeginBatch, EndBatch, Coroutine, NoInstances,
                AttemptFails, Deliver, ResponseLost, RegisterTask, MarkScheduled,
                queueVars, loopVars
  <2>2. ASSUME UNCHANGED status,
               \A u \in Tasks : job'[u] = job[u] \/ job'[u] \notin {"registered", "scheduled"}
        PROVE  TrackedInv'
    BY <2>1, <2>2 DEF TrackedInv
  <2>3. CASE LoopTop(w) \/ BeginBatch(w) \/ EndBatch(w)
    BY <2>2, <2>3 DEF LoopTop, BeginBatch, EndBatch
  <2>4. CASE CollectTask(w)
    BY <2>2, <2>4 DEF CollectTask, TypeInv, TypeOK
  <2>5. ASSUME NEW t \in Tasks,
               NoInstances(w, t) \/ AttemptFails(w, t) \/ Deliver(w, t) \/ ResponseLost(w, t)
        PROVE  TrackedInv'
    BY <2>2, <2>5 DEF NoInstances, AttemptFails, Deliver, ResponseLost, Attempted, TypeInv, TypeOK
  <2>6. ASSUME NEW t \in Tasks, RegisterTask(w, t) \/ MarkScheduled(w, t)
        PROVE  TrackedInv'
    <3>1. ASSUME ~reset, NEW u \in Tasks, reported[u] = 0
          PROVE  /\ job'[u] = "registered" => status'[u] = "queued"
                 /\ job'[u] = "scheduled" => status'[u] = "scheduled"
      <4>1. CASE u = t /\ RegisterTask(w, t)
        BY <4>1 DEF RegisterTask, T!Register, TypeInv, TypeOK
      <4>2. CASE u = t /\ MarkScheduled(w, t)
        <5>1. status[t] = "queued"
          BY <3>1, <4>2 DEF MarkScheduled, TrackedInv
        <5>2. T!Schedule(t)
          BY <4>2, <5>1 DEF MarkScheduled, T!Tracked
        <5>3. QED
          BY <4>2, <5>2 DEF MarkScheduled, T!Schedule, TypeInv, TypeOK
      <4>3. CASE u # t
        <5>1. job'[u] = job[u]
          BY <2>6, <4>3 DEF RegisterTask, MarkScheduled, TypeInv, TypeOK
        <5>2. status[u] # "completed" => status'[u] = status[u]
          BY <2>6, <4>3, OthersKept DEF RegisterTask, MarkScheduled
        <5>3. QED
          BY <3>1, <5>1, <5>2 DEF TrackedInv
      <4>4. QED
        BY <2>6, <4>1, <4>2, <4>3
    <3>2. QED
      BY <2>1, <3>1 DEF TrackedInv
  <2>7. QED
    BY <1>3, <2>3, <2>4, <2>5, <2>6 DEF WorkerLoop, Coroutine
<1>4. CASE UNCHANGED vars
  BY <1>1, <1>4 DEF vars, queueVars, workVars, loopVars
<1>5. QED
  BY <1>2, <1>3, <1>4 DEF Next

(* Unless a clear has run, a scheduled task without a result is in the       *)
(* tracker as scheduled, although it was delivered before it was registered  *)
(* and other tasks' completions push old ones out of the history.            *)
THEOREM ScheduledKnown == Spec => []ScheduledTracked
<1>1. TrackedInv => ScheduledTracked
  BY DEF TrackedInv, ScheduledTracked
<1>2. QED
  BY TypeInit, TypeStep, CopiesInit, CopiesStep, TrackedInit, TrackedStep, <1>1, PTL DEF Spec
=============================================================================
