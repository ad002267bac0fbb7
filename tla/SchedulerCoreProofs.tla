------------------------ MODULE SchedulerCoreProofs ------------------------
(***************************************************************************)
(* Theorems about SchedulerCore, for every value of its constants: its     *)
(* types, what the worker and the result handlers keep although ids are    *)
(* submitted again, and the count of clients that submit each id once.     *)
(***************************************************************************)
EXTENDS SchedulerCore, FiniteSetTheorems, TLAPS

LEMMA IdleType == Idle.pc = "idle" /\ Idle \notin BusyWorker
  BY DEF Idle, BusyWorker, WorkerIn, SchedulePcs, CompletionPcs

(* A worker's pc goes with the kind of update it holds. *)
LEMMA BusyType ==
    ASSUME NEW u, NEW pc,
           \/ u \in ScheduleUpdates /\ pc \in SchedulePcs
           \/ u \in CompletionUpdates /\ pc \in CompletionPcs,
           NEW e \in Nat, NEW v \in Nat
    PROVE  /\ Busy(u, pc, e, v) \in BusyWorker
           /\ Busy(u, pc, e, v).pc = pc
           /\ Busy(u, pc, e, v).item = u
  BY DEF Busy, BusyWorker, WorkerIn

(* The loop's assignments to the worker's local variables. *)
LEMMA WorkerLocals ==
    ASSUME NEW w \in BusyWorker,
           NEW e \in Nat, NEW v \in Nat, NEW left \in SUBSET Tasks
    PROVE  [w EXCEPT !.expected = e, !.variance = v, !.todo = left] \in BusyWorker
  BY DEF BusyWorker, WorkerIn

LEMMA UpdateFields ==
    ASSUME NEW u \in Update
    PROVE  /\ u.task \in Tasks
           /\ u.inst \in Instances
           /\ u.type \in {"schedule", "completion"}
           /\ u.type = "completion" => u.time \in ExecTimes
  BY DEF Update, ScheduleUpdates, CompletionUpdates

LEMMA UpdateTypes ==
    ASSUME NEW t \in Tasks, NEW i \in Instances
    PROVE  /\ ScheduleUpdate(t, i) \in ScheduleUpdates
           /\ ScheduleUpdate(t, i) \in Update
           /\ \A x \in ExecTimes :
                 /\ CompletionUpdate(t, i, x) \in CompletionUpdates
                 /\ CompletionUpdate(t, i, x) \in Update
  BY DEF ScheduleUpdate, CompletionUpdate, Update, ScheduleUpdates,
         CompletionUpdates

LEMMA MonusType == \A a, b \in Nat : Monus(a, b) \in Nat
  BY DEF Monus

LEMMA PendingFinite ==
    ASSUME NEW i \in Instances
    PROVE  /\ PendingTasks(i) \in SUBSET Tasks
           /\ IsFiniteSet(PendingTasks(i))
           /\ Cardinality(PendingTasks(i)) \in Nat
  <1>1. PendingTasks(i) \in SUBSET Tasks
    BY DEF PendingTasks
  <1>2. IsFiniteSet(PendingTasks(i))
    BY <1>1, CoreAssumption, FS_Subset DEF CoreAssumption
  <1>3. Cardinality(PendingTasks(i)) \in Nat
    BY <1>2, FS_CardinalityType
  <1> QED
    BY <1>1, <1>2, <1>3

(* A worker that is not idle holds an update. *)
LEMMA BusyFields ==
    ASSUME TypeOK, worker.pc # "idle"
    PROVE  /\ worker \in BusyWorker
           /\ \/ worker.pc \in SchedulePcs /\ worker.item \in ScheduleUpdates
              \/ worker.pc \in CompletionPcs /\ worker.item \in CompletionUpdates
           /\ Task \in Tasks
           /\ Inst \in Instances
           /\ worker.expected \in Nat
           /\ worker.variance \in Nat
           /\ worker.todo \in SUBSET Tasks
  <1>1. worker \in BusyWorker
    BY IdleType DEF TypeOK
  <1>2. \/ worker.pc \in SchedulePcs /\ worker.item \in ScheduleUpdates
        \/ worker.pc \in CompletionPcs /\ worker.item \in CompletionUpdates
    BY <1>1 DEF BusyWorker, WorkerIn
  <1>3. worker.item \in Update
    BY <1>2 DEF Update
  <1> QED
    BY <1>1, <1>2, <1>3, UpdateFields DEF BusyWorker, WorkerIn, Task, Inst

-----------------------------------------------------------------------------
(* Type correctness.                                                        *)

LEMMA InitType == Init => TypeOK
  BY CoreAssumption DEF CoreAssumption, Init, TypeOK, Status

(* What the strategy's reset writes. *)
LEMMA ResetType ==
    ASSUME ResetQueueStates
    PROVE  /\ pending' \in [Instances -> [Tasks -> Predictions \cup {NoPrediction}]]
           /\ expected' \in [Instances -> Nat]
           /\ variance' \in [Instances -> Nat]
           /\ taskCount' \in [Instances -> Nat]
  BY DEF ResetQueueStates

LEMMA RegisterType ==
    ASSUME TypeOK, NEW t \in Tasks, Register(t)
    PROVE  /\ tracker' \in [Tasks -> Status]
           /\ requestTimes' \subseteq Tasks
           /\ attempts' \in [Tasks -> Nat]
           /\ worker' = worker /\ handlers' = handlers /\ overtaken' \subseteq Tasks
           /\ pending' = pending /\ expected' = expected
           /\ variance' = variance /\ taskCount' = taskCount
  BY DEF TypeOK, Register, Status, queueStates

LEMMA CompletionType ==
    ASSUME TypeOK, NEW t \in Tasks, NEW i \in Instances, NEW x \in ExecTimes,
           HandleTaskCompletion(t, i, x)
    PROVE  /\ tracker' \in [Tasks -> Status]
           /\ requestTimes' \subseteq Tasks
           /\ updateQueue' \in Seq(Update)
           /\ running' \in [Instances -> SUBSET Tasks]
  <1>1. updateQueue' \in Seq(Update)
    BY UpdateTypes DEF TypeOK, HandleTaskCompletion, SubmitQueueUpdate
  <1>2. tracker' \in [Tasks -> Status]
    BY DEF TypeOK, HandleTaskCompletion, MarkCompleted, Status
  <1>3. requestTimes' \subseteq Tasks /\ running' \in [Instances -> SUBSET Tasks]
    BY DEF TypeOK, HandleTaskCompletion
  <1> QED
    BY <1>1, <1>2, <1>3

LEMMA EventLoopType == TypeOK /\ EventLoop => TypeOK'
  <1> SUFFICES ASSUME TypeOK, EventLoop PROVE TypeOK'
    OBVIOUS
  <1>1. ASSUME NEW t \in Tasks, NEW i \in Instances, Schedule(t, i) PROVE TypeOK'
    <2>1. updateQueue' \in Seq(Update)
      <3>1. updateQueue' = Append(updateQueue, ScheduleUpdate(t, i))
        BY <1>1 DEF Schedule, SubmitQueueUpdate
      <3>2. updateQueue \in Seq(Update) /\ ScheduleUpdate(t, i) \in Update
        BY UpdateTypes DEF TypeOK
      <3> QED
        BY <3>1, <3>2
    <2>2. running' \in [Instances -> SUBSET Tasks]
      BY <1>1 DEF TypeOK, Schedule, Deliver
    <2> QED
      BY <1>1, <2>1, <2>2, RegisterType DEF TypeOK, Schedule
  <1>2. ASSUME NEW t \in Tasks, NEW i \in Instances, EnqueueTimesOut(t, i)
        PROVE TypeOK'
    <2>1. running' \in [Instances -> SUBSET Tasks]
      BY <1>2 DEF TypeOK, EnqueueTimesOut, Deliver
    <2> QED
      BY <1>2, <2>1, RegisterType DEF TypeOK, EnqueueTimesOut
  <1>3. ASSUME NEW t \in Tasks, EnqueueLost(t) PROVE TypeOK'
    BY <1>3, RegisterType DEF TypeOK, EnqueueLost
  <1>4. ASSUME NEW t \in Tasks, NEW i \in Instances, NEW x \in ExecTimes,
               ReceiveResult(t, i, x)
        PROVE TypeOK'
    <2>1. handlers' \in [Tasks -> Nat]
      <3>1. \/ handlers' = handlers
            \/ handlers' = [handlers EXCEPT ![t] = @ + 1]
        BY <1>4 DEF ReceiveResult
      <3>2. handlers \in [Tasks -> Nat]
        BY DEF TypeOK
      <3> QED
        BY <3>1, <3>2
    <2> QED
      BY <1>4, <2>1, CompletionType DEF TypeOK, ReceiveResult, queueStates
  <1>5. ASSUME NEW t \in Tasks, FinishBroadcast(t) PROVE TypeOK'
    <2>1. handlers' \in [Tasks -> Nat]
      BY <1>5 DEF TypeOK, FinishBroadcast
    <2>2. tracker' \in [Tasks -> Status]
      BY <1>5 DEF TypeOK, FinishBroadcast, Status
    <2> QED
      BY <1>5, <2>1, <2>2 DEF TypeOK, FinishBroadcast, queueStates
  <1>6. ASSUME NEW t \in Tasks, NEW i \in Instances, NEW x \in ExecTimes,
               NotifyTaskCompletion(t, i, x)
        PROVE TypeOK'
    BY <1>6, CompletionType DEF TypeOK, NotifyTaskCompletion, queueStates
  <1>7. CASE ClearTasks
    BY <1>7, ResetType DEF TypeOK, ClearTasks, Status
  <1>8. CASE SetStrategy
    BY <1>8, ResetType DEF TypeOK, SetStrategy
  <1> QED
    BY <1>1, <1>2, <1>3, <1>4, <1>5, <1>6, <1>7, <1>8 DEF EventLoop

LEMMA WorkerType == TypeOK /\ QueueUpdateWorker => TypeOK'
  <1> SUFFICES ASSUME TypeOK, QueueUpdateWorker PROVE TypeOK'
    OBVIOUS
  <1>1. CASE TakeUpdate
    <2>1. /\ Head(updateQueue) \in Update
          /\ updateQueue' \in Seq(Update)
      BY <1>1 DEF TypeOK, TakeUpdate
    <2>2. worker' \in BusyWorker
      BY <1>1, <2>1, BusyType
      DEF TakeUpdate, Update, ScheduleUpdates, CompletionUpdates, SchedulePcs,
          CompletionPcs
    <2> QED
      BY <1>1, <2>1, <2>2 DEF TypeOK, TakeUpdate, WorkerOnly, queueStates
  <1>2. CASE SkipPrediction
    BY <1>2 DEF TypeOK, SkipPrediction, WorkerOnly, queueStates
  <1>3. ASSUME NEW p \in Predictions, CachePrediction(p) PROVE TypeOK'
    <2>1. /\ worker.pc = "schedule" /\ worker.item \in ScheduleUpdates
          /\ Task \in Tasks /\ Inst \in Instances
      BY <1>3, BusyFields DEF CachePrediction, CompletionPcs
    <2>2. p.expected \in Nat /\ p.variance \in Nat
      BY CoreAssumption DEF CoreAssumption
    <2>3. /\ expected[Inst] + p.expected \in Nat
          /\ variance[Inst] + p.variance \in Nat
      BY <2>1, <2>2 DEF TypeOK
    <2>4. worker' \in BusyWorker
      BY <1>3, <2>1, <2>3, BusyType DEF CachePrediction, SchedulePcs
    <2>5. pending' \in [Instances -> [Tasks -> Predictions \cup {NoPrediction}]]
      BY <1>3, <2>1 DEF CachePrediction, TypeOK
    <2> QED
      BY <1>3, <2>4, <2>5 DEF CachePrediction, TypeOK, WorkerOnly
  <1>4. CASE Accumulate
    <2>1. /\ Inst \in Instances
          /\ worker.expected \in Nat /\ worker.variance \in Nat
      BY <1>4, BusyFields DEF Accumulate
    <2>2. /\ expected' \in [Instances -> Nat]
          /\ variance' \in [Instances -> Nat]
          /\ taskCount' \in [Instances -> Nat]
      BY <1>4, <2>1 DEF TypeOK, Accumulate
    <2> QED
      BY <1>4, <2>2 DEF TypeOK, Accumulate, WorkerOnly
  <1>5. CASE PopPending
    <2>1. /\ worker.pc = "completion" /\ worker.item \in CompletionUpdates
          /\ Task \in Tasks /\ Inst \in Instances
      BY <1>5, BusyFields DEF PopPending, SchedulePcs
    <2>2. worker' \in BusyWorker
      BY <1>5, <2>1, BusyType DEF PopPending, TypeOK, CompletionPcs
    <2>3. pending' \in [Instances -> [Tasks -> Predictions \cup {NoPrediction}]]
      BY <1>5, <2>1 DEF PopPending, TypeOK
    <2> QED
      BY <1>5, <2>2, <2>3 DEF PopPending, TypeOK, WorkerOnly
  <1>6. CASE Subtract
    <2> DEFINE rest == Monus(worker.expected, worker.item.time)
    <2>1. /\ worker.pc = "subtract" /\ worker.item \in CompletionUpdates
          /\ Inst \in Instances /\ worker.expected \in Nat
      BY <1>6, BusyFields DEF Subtract, SchedulePcs
    <2>2. rest \in Nat
      BY <2>1, MonusType, CoreAssumption DEF CoreAssumption, CompletionUpdates
    <2>3. expected' \in [Instances -> Nat]
      BY <1>6, <2>1, <2>2 DEF TypeOK, Subtract
    <2>4. taskCount' \in [Instances -> Nat]
      BY <1>6, <2>1, MonusType DEF TypeOK, Subtract, CountAfter
    <2>5. worker' \in {Idle} \cup BusyWorker
      <3>1. Busy(worker.item, "recalculate", 0, 0) \in BusyWorker
        BY <2>1, BusyType DEF CompletionPcs
      <3>2. [Busy(worker.item, "recalculate", 0, 0) EXCEPT
                !.todo = PendingTasks(Inst),
                !.size = Cardinality(PendingTasks(Inst))] \in BusyWorker
        BY <2>1, <3>1, PendingFinite DEF BusyWorker, WorkerIn, Busy
      <3> QED
        BY <1>6, <3>2 DEF Subtract
    <2> QED
      BY <1>6, <2>3, <2>4, <2>5 DEF TypeOK, Subtract, WorkerOnly
  <1>7. ASSUME NEW t \in Tasks, AddPending(t) PROVE TypeOK'
    <2>1. worker \in BusyWorker /\ worker.pc = "recalculate" /\ Inst \in Instances
      BY <1>7, BusyFields DEF AddPending
    <2>2. pending[Inst][t] \in Predictions
      BY <1>7, <2>1 DEF AddPending, PendingTasks, TypeOK
    <2>3. pending[Inst][t].expected \in Nat /\ pending[Inst][t].variance \in Nat
      BY <2>2, CoreAssumption DEF CoreAssumption
    <2>4. /\ worker.expected + pending[Inst][t].expected \in Nat
          /\ worker.variance + pending[Inst][t].variance \in Nat
          /\ worker.todo \ {t} \in SUBSET Tasks
      BY <1>7, <2>3, BusyFields DEF AddPending
    <2>5. worker' \in BusyWorker
      BY <1>7, <2>1, <2>4, WorkerLocals DEF AddPending
    <2> QED
      BY <1>7, <2>5 DEF TypeOK, AddPending, WorkerOnly, queueStates
  <1>8. CASE AbortRecalculation
    BY <1>8 DEF TypeOK, AbortRecalculation, WorkerOnly, queueStates
  <1>9. CASE EndLoop
    <2>1. worker \in BusyWorker /\ worker.pc = "recalculate"
      BY <1>9, BusyFields DEF EndLoop
    <2>2. worker' \in BusyWorker
      BY <1>9, <2>1
      DEF EndLoop, BusyWorker, WorkerIn, SchedulePcs, CompletionPcs
    <2> QED
      BY <1>9, <2>2 DEF TypeOK, EndLoop, WorkerOnly, queueStates
  <1>10. CASE Override
    <2>1. /\ Inst \in Instances
          /\ worker.expected \in Nat /\ worker.variance \in Nat
      BY <1>10, BusyFields DEF Override
    <2>2. /\ expected' \in [Instances -> Nat]
          /\ variance' \in [Instances -> Nat]
      BY <1>10, <2>1 DEF TypeOK, Override
    <2> QED
      BY <1>10, <2>2 DEF TypeOK, Override, WorkerOnly
  <1> QED
    BY <1>1, <1>2, <1>3, <1>4, <1>5, <1>6, <1>7, <1>8, <1>9, <1>10
    DEF QueueUpdateWorker

(* Every reachable state is well typed: in particular an instance's expected *)
(* time and task count never go below zero, whatever the order of the        *)
(* completions, resets and predictions (max(0, ...) in the completion).      *)
THEOREM TypeCorrect == Spec => []TypeOK
  <1>1. TypeOK /\ [Next]_vars => TypeOK'
    <2> SUFFICES ASSUME TypeOK, [Next]_vars PROVE TypeOK'
      OBVIOUS
    <2>1. CASE UNCHANGED vars
      BY <2>1 DEF vars, queueStates, TypeOK
    <2> QED
      BY <2>1, EventLoopType, WorkerType DEF Next
  <1> QED
    BY <1>1, InitType, PTL DEF Spec

-----------------------------------------------------------------------------
(* The update queue is FIFO.                                                 *)

LEMMA AppendedQueue ==
    ASSUME TypeOK, NEW u \in Update, SubmitQueueUpdate(u)
    PROVE  /\ Len(updateQueue) \in Nat
           /\ Len(updateQueue') = Len(updateQueue) + 1
           /\ \A n \in 1..Len(updateQueue) : updateQueue'[n] = updateQueue[n]
           /\ updateQueue'[Len(updateQueue) + 1] = u
  <1>1. updateQueue \in Seq(Update) /\ updateQueue' = Append(updateQueue, u)
    BY DEF TypeOK, SubmitQueueUpdate
  <1> QED
    BY <1>1

LEMMA TakenQueue ==
    ASSUME TypeOK, TakeUpdate
    PROVE  /\ Len(updateQueue') \in Nat
           /\ Len(updateQueue) = Len(updateQueue') + 1
           /\ \A n \in 1..Len(updateQueue') : updateQueue'[n] = updateQueue[n + 1]
           /\ updateQueue[1] \in Update
           /\ worker'.item = updateQueue[1]
           /\ worker'.pc = updateQueue[1].type
           /\ Task' = updateQueue[1].task
           /\ Inst' = updateQueue[1].inst
  <1>1. updateQueue \in Seq(Update) /\ updateQueue # <<>>
        /\ updateQueue' = Tail(updateQueue)
    BY DEF TypeOK, TakeUpdate
  <1>2. Head(updateQueue) = updateQueue[1] /\ updateQueue[1] \in Update
    BY <1>1
  <1>3. worker' = Busy(updateQueue[1], updateQueue[1].type, 0, 0)
    BY <1>2 DEF TakeUpdate
  <1>4. worker'.item = updateQueue[1] /\ worker'.pc = updateQueue[1].type
    BY <1>3 DEF Busy
  <1> QED
    BY <1>1, <1>2, <1>4 DEF Task, Inst

LEMMA QueuedAppend ==
    ASSUME TypeOK, NEW u \in Update, SubmitQueueUpdate(u),
           NEW type, NEW t, NEW i
    PROVE  Queued(type, t, i)'
             <=> \/ Queued(type, t, i)
                 \/ u.type = type /\ u.task = t /\ u.inst = i
  BY AppendedQueue DEF Queued

LEMMA QueuedTake ==
    ASSUME TypeOK, TakeUpdate, NEW type, NEW t, NEW i
    PROVE  Queued(type, t, i)
             <=> \/ Queued(type, t, i)'
                 \/ InHand({type}, t, i)'
  <1>1. ASSUME Queued(type, t, i)
        PROVE  Queued(type, t, i)' \/ InHand({type}, t, i)'
    <2>1. PICK n \in 1..Len(updateQueue) :
             /\ updateQueue[n].type = type
             /\ updateQueue[n].task = t
             /\ updateQueue[n].inst = i
      BY <1>1 DEF Queued
    <2>2. CASE n = 1
      BY <2>1, <2>2, TakenQueue DEF InHand
    <2>3. CASE n # 1
      <3>1. n - 1 \in 1..Len(updateQueue') /\ updateQueue'[n - 1] = updateQueue[n]
        BY <2>3, TakenQueue
      <3> QED
        BY <2>1, <3>1 DEF Queued
    <2> QED
      BY <2>2, <2>3
  <1>2. ASSUME Queued(type, t, i)' PROVE Queued(type, t, i)
    <2>1. PICK n \in 1..Len(updateQueue') :
             /\ updateQueue'[n].type = type
             /\ updateQueue'[n].task = t
             /\ updateQueue'[n].inst = i
      BY <1>2 DEF Queued
    <2>2. n + 1 \in 1..Len(updateQueue) /\ updateQueue'[n] = updateQueue[n + 1]
      BY TakenQueue
    <2> QED
      BY <2>1, <2>2 DEF Queued
  <1>3. ASSUME InHand({type}, t, i)' PROVE Queued(type, t, i)
    <2>1. 1 \in 1..Len(updateQueue)
      BY TakenQueue
    <2> QED
      BY <1>3, <2>1, TakenQueue DEF InHand, Queued
  <1> QED
    BY <1>1, <1>2, <1>3

-----------------------------------------------------------------------------
(* A prediction never outlives its task.                                     *)

(* Why it holds: the prediction is cached long after schedule() has run, so  *)
(* the task must be accounted for from the moment its update is queued.      *)
AnsweredAfter(n) ==
    \E m \in (n + 1)..Len(updateQueue) :
        /\ updateQueue[m].type = "completion"
        /\ updateQueue[m].task = updateQueue[n].task
        /\ updateQueue[m].inst = updateQueue[n].inst

QueueBacked ==
    \A n \in 1..Len(updateQueue) :
        updateQueue[n].type = "schedule" =>
            \/ updateQueue[n].task \in running[updateQueue[n].inst]
            \/ AnsweredAfter(n)

WorkerBacked ==
    worker.pc \in SchedulePcs =>
        Task \in running[Inst] \/ Queued("completion", Task, Inst)

Backed == QueueBacked /\ WorkerBacked /\ PendingBacked

(* A result arrives: its completion update is behind everything queued.      *)
LEMMA CompletionBacked ==
    ASSUME TypeOK, Backed,
           NEW t \in Tasks, NEW i \in Instances, NEW x \in ExecTimes,
           HandleTaskCompletion(t, i, x), UNCHANGED <<worker, pending>>
    PROVE  Backed'
  <1> DEFINE u == CompletionUpdate(t, i, x)
  <1>1. /\ u \in Update /\ u.type = "completion" /\ u.task = t /\ u.inst = i
        /\ SubmitQueueUpdate(u)
    BY UpdateTypes DEF CompletionUpdate, HandleTaskCompletion
  <1>2. \A j \in Instances : \A s \in running[j] :
           s \in running'[j] \/ (s = t /\ j = i)
    BY DEF HandleTaskCompletion, TypeOK
  <1> HIDE DEF u
  <1>3. \A s, j : Queued("completion", s, j)'
                    <=> Queued("completion", s, j) \/ (s = t /\ j = i)
    BY <1>1, QueuedAppend
  <1>4. QueueBacked'
    <2> SUFFICES ASSUME NEW n \in 1..Len(updateQueue'),
                        updateQueue'[n].type = "schedule"
                 PROVE  \/ updateQueue'[n].task \in running'[updateQueue'[n].inst]
                        \/ AnsweredAfter(n)'
      BY DEF QueueBacked
    <2>1. n \in 1..Len(updateQueue) /\ updateQueue'[n] = updateQueue[n]
      BY <1>1, AppendedQueue
    <2>2. updateQueue[n] \in Update
      BY <2>1 DEF TypeOK
    <2>3. updateQueue[n].inst \in Instances
      BY <2>2, UpdateFields
    <2>4. CASE updateQueue[n].task \in running[updateQueue[n].inst]
      <3>1. \/ updateQueue[n].task \in running'[updateQueue[n].inst]
            \/ updateQueue[n].task = t /\ updateQueue[n].inst = i
        BY <1>2, <2>3, <2>4
      <3>2. Len(updateQueue) + 1 \in (n + 1)..Len(updateQueue')
        BY <1>1, <2>1, AppendedQueue
      <3> QED
        BY <1>1, <2>1, <3>1, <3>2, AppendedQueue DEF AnsweredAfter
    <2>5. CASE AnsweredAfter(n)
      <3>1. PICK m \in (n + 1)..Len(updateQueue) :
                /\ updateQueue[m].type = "completion"
                /\ updateQueue[m].task = updateQueue[n].task
                /\ updateQueue[m].inst = updateQueue[n].inst
        BY <2>5 DEF AnsweredAfter
      <3>2. m \in (n + 1)..Len(updateQueue') /\ updateQueue'[m] = updateQueue[m]
        BY <1>1, <2>1, AppendedQueue
      <3> QED
        BY <2>1, <3>1, <3>2 DEF AnsweredAfter
    <2> QED
      BY <2>1, <2>4, <2>5 DEF Backed, QueueBacked
  <1>5. WorkerBacked'
    <2>1. Task' = Task /\ Inst' = Inst
      BY DEF Task, Inst
    <2> SUFFICES ASSUME worker.pc \in SchedulePcs,
                        NEW s, NEW j, s = Task, j = Inst
                 PROVE  s \in running'[j] \/ Queued("completion", s, j)'
      BY <2>1 DEF WorkerBacked, Queued
    <2>2. j \in Instances
      BY BusyFields DEF SchedulePcs, Inst
    <2>3. s \in running[j] \/ Queued("completion", s, j)
      BY DEF Backed, WorkerBacked, Queued
    <2> QED
      BY <1>2, <1>3, <2>2, <2>3
  <1>6. PendingBacked'
    <2> SUFFICES ASSUME NEW j \in Instances, NEW s \in Tasks,
                        pending[j][s] # NoPrediction
                 PROVE  \/ s \in running'[j]
                        \/ Queued("completion", s, j)'
                        \/ InHand({"completion"}, s, j)'
      BY DEF PendingBacked
    <2>1. \/ s \in running[j]
          \/ Queued("completion", s, j)
          \/ InHand({"completion"}, s, j)
      BY DEF Backed, PendingBacked
    <2>2. InHand({"completion"}, s, j) => InHand({"completion"}, s, j)'
      BY DEF InHand, Task, Inst
    <2> QED
      BY <1>2, <1>3, <2>1, <2>2
  <1> QED
    BY <1>4, <1>5, <1>6 DEF Backed

(* Nothing Backed needs is taken away: the queue, the worker and the         *)
(* predictions stay, and whatever was running still is.                      *)
LEMMA BackedMonotone ==
    ASSUME TypeOK, Backed, UNCHANGED <<updateQueue, worker, pending>>,
           \A i \in Instances : running[i] \subseteq running'[i]
    PROVE  Backed'
  <1>1. QueueBacked'
    <2>1. \A n \in 1..Len(updateQueue) : updateQueue[n].inst \in Instances
      <3> SUFFICES ASSUME NEW n \in 1..Len(updateQueue)
                   PROVE  updateQueue[n].inst \in Instances
        OBVIOUS
      <3>1. updateQueue[n] \in Update
        BY DEF TypeOK
      <3> QED
        BY <3>1, UpdateFields
    <2> QED
      BY <2>1 DEF Backed, QueueBacked, AnsweredAfter
  <1>2. WorkerBacked'
    <2>1. worker.pc \in SchedulePcs => Inst \in Instances
      BY BusyFields DEF SchedulePcs
    <2> QED
      BY <2>1 DEF Backed, WorkerBacked, Queued, Task, Inst
  <1>3. PendingBacked'
    BY DEF Backed, PendingBacked, Queued, InHand, Task, Inst
  <1> QED
    BY <1>1, <1>2, <1>3 DEF Backed

LEMMA ScheduleBacked ==
    ASSUME TypeOK, Backed, NEW t \in Tasks, NEW i \in Instances, Schedule(t, i)
    PROVE  Backed'
  <1> DEFINE u == ScheduleUpdate(t, i)
  <1>1. /\ u \in Update /\ u.type = "schedule" /\ u.task = t /\ u.inst = i
        /\ SubmitQueueUpdate(u)
    BY UpdateTypes DEF ScheduleUpdate, Schedule
  <1>2. /\ \A j \in Instances : running[j] \subseteq running'[j]
        /\ t \in running'[i]
        /\ UNCHANGED <<worker, pending>>
    BY RegisterType DEF Schedule, Deliver, TypeOK
  <1> HIDE DEF u
  <1>3. QueueBacked'
    <2> SUFFICES ASSUME NEW n \in 1..Len(updateQueue'),
                        updateQueue'[n].type = "schedule"
                 PROVE  \/ updateQueue'[n].task \in running'[updateQueue'[n].inst]
                        \/ AnsweredAfter(n)'
      BY DEF QueueBacked
    <2>1. CASE n = Len(updateQueue) + 1
      BY <1>1, <1>2, <2>1, AppendedQueue
    <2>2. CASE n # Len(updateQueue) + 1
      <3>1. n \in 1..Len(updateQueue) /\ updateQueue'[n] = updateQueue[n]
        BY <1>1, <2>2, AppendedQueue
      <3>2. updateQueue[n] \in Update
        BY <3>1 DEF TypeOK
      <3>3. updateQueue[n].inst \in Instances
        BY <3>2, UpdateFields
      <3>4. ASSUME AnsweredAfter(n) PROVE AnsweredAfter(n)'
        <4>1. PICK m \in (n + 1)..Len(updateQueue) :
                  /\ updateQueue[m].type = "completion"
                  /\ updateQueue[m].task = updateQueue[n].task
                  /\ updateQueue[m].inst = updateQueue[n].inst
          BY <3>4 DEF AnsweredAfter
        <4>2. m \in (n + 1)..Len(updateQueue') /\ updateQueue'[m] = updateQueue[m]
          BY <1>1, <3>1, AppendedQueue
        <4> QED
          BY <3>1, <4>1, <4>2 DEF AnsweredAfter
      <3> QED
        BY <1>2, <3>1, <3>3, <3>4 DEF Backed, QueueBacked
    <2> QED
      BY <2>1, <2>2
  <1>4. \A s, j : Queued("completion", s, j) => Queued("completion", s, j)'
    BY <1>1, QueuedAppend
  <1>5. WorkerBacked'
    <2>1. worker.pc \in SchedulePcs => Inst \in Instances
      BY BusyFields DEF SchedulePcs
    <2>2. Task' = Task /\ Inst' = Inst
      BY <1>2 DEF Task, Inst
    <2> QED
      BY <1>2, <1>4, <2>1, <2>2 DEF Backed, WorkerBacked, Queued
  <1>6. PendingBacked'
    <2>1. \A s, j : InHand({"completion"}, s, j) => InHand({"completion"}, s, j)'
      BY <1>2 DEF InHand, Task, Inst
    <2> QED
      BY <1>2, <1>4, <2>1 DEF Backed, PendingBacked
  <1> QED
    BY <1>3, <1>5, <1>6 DEF Backed

LEMMA EventLoopBacked == TypeOK /\ Backed /\ EventLoop => Backed'
  <1> SUFFICES ASSUME TypeOK, Backed, EventLoop PROVE Backed'
    OBVIOUS
  <1>1. ASSUME NEW t \in Tasks, NEW i \in Instances, EnqueueTimesOut(t, i)
        PROVE  Backed'
    <2>1. \A j \in Instances : running[j] \subseteq running'[j]
      BY <1>1 DEF EnqueueTimesOut, Deliver, TypeOK
    <2> QED
      BY <1>1, <2>1, RegisterType, BackedMonotone DEF EnqueueTimesOut
  <1>2. ASSUME NEW t \in Tasks, EnqueueLost(t) PROVE Backed'
    BY <1>2, RegisterType, BackedMonotone DEF EnqueueLost
  <1>3. ASSUME NEW t \in Tasks, NEW i \in Instances, NEW x \in ExecTimes,
               ReceiveResult(t, i, x)
        PROVE  Backed'
    BY <1>3, CompletionBacked DEF ReceiveResult, queueStates
  <1>4. ASSUME NEW t \in Tasks, FinishBroadcast(t) PROVE Backed'
    BY <1>4, BackedMonotone DEF FinishBroadcast, queueStates
  <1>5. ASSUME NEW t \in Tasks, NEW i \in Instances, NEW x \in ExecTimes,
               NotifyTaskCompletion(t, i, x)
        PROVE  Backed'
    BY <1>5, CompletionBacked DEF NotifyTaskCompletion, queueStates
  <1>6. CASE ClearTasks
    <2>1. /\ UNCHANGED <<updateQueue, worker, running>>
          /\ \A i \in Instances, t \in Tasks : pending'[i][t] = NoPrediction
      BY <1>6 DEF ClearTasks, ResetQueueStates
    <2>2. QueueBacked' /\ WorkerBacked'
      BY <2>1 DEF Backed, QueueBacked, WorkerBacked, AnsweredAfter, Queued,
                  Task, Inst
    <2> QED
      BY <2>1, <2>2 DEF Backed, PendingBacked
  <1>7. CASE SetStrategy
    <2>1. /\ UNCHANGED <<updateQueue, running>> /\ worker' = Idle
          /\ \A i \in Instances, t \in Tasks : pending'[i][t] = NoPrediction
      BY <1>7 DEF SetStrategy, ResetQueueStates
    <2>2. QueueBacked' /\ WorkerBacked'
      BY <2>1 DEF Backed, QueueBacked, WorkerBacked, AnsweredAfter, Idle,
                  SchedulePcs
    <2> QED
      BY <2>1, <2>2 DEF Backed, PendingBacked
  <1> QED
    BY ScheduleBacked, <1>1, <1>2, <1>3, <1>4, <1>5, <1>6, <1>7 DEF EventLoop

LEMMA TakeBacked ==
    ASSUME TypeOK, Backed, TakeUpdate
    PROVE  Backed'
  <1>1. UNCHANGED <<pending, running>> /\ worker.pc = "idle"
    BY DEF TakeUpdate, WorkerOnly, queueStates
  <1>2. QueueBacked'
    <2> SUFFICES ASSUME NEW n \in 1..Len(updateQueue'),
                        updateQueue'[n].type = "schedule"
                 PROVE  \/ updateQueue'[n].task \in running'[updateQueue'[n].inst]
                        \/ AnsweredAfter(n)'
      BY DEF QueueBacked
    <2>1. n + 1 \in 1..Len(updateQueue) /\ updateQueue'[n] = updateQueue[n + 1]
      BY TakenQueue
    <2>2. ASSUME AnsweredAfter(n + 1) PROVE AnsweredAfter(n)'
      <3>1. PICK m \in (n + 1 + 1)..Len(updateQueue) :
                /\ updateQueue[m].type = "completion"
                /\ updateQueue[m].task = updateQueue[n + 1].task
                /\ updateQueue[m].inst = updateQueue[n + 1].inst
        BY <2>2 DEF AnsweredAfter
      <3>2. /\ m - 1 \in (n + 1)..Len(updateQueue')
            /\ updateQueue'[m - 1] = updateQueue[m]
        BY TakenQueue
      <3> QED
        BY <2>1, <3>1, <3>2 DEF AnsweredAfter
    <2> QED
      BY <1>1, <2>1, <2>2 DEF Backed, QueueBacked
  <1>3. WorkerBacked'
    <2> SUFFICES ASSUME worker'.pc \in SchedulePcs
                 PROVE  (Task \in running[Inst] \/ Queued("completion", Task, Inst))'
      BY DEF WorkerBacked
    <2>1. updateQueue[1].type = "schedule" /\ 1 \in 1..Len(updateQueue)
      BY TakenQueue, UpdateFields DEF SchedulePcs
    <2>2. ASSUME AnsweredAfter(1) PROVE Queued("completion", Task, Inst)'
      <3>1. PICK m \in (1 + 1)..Len(updateQueue) :
                /\ updateQueue[m].type = "completion"
                /\ updateQueue[m].task = updateQueue[1].task
                /\ updateQueue[m].inst = updateQueue[1].inst
        BY <2>2 DEF AnsweredAfter
      <3>2. m - 1 \in 1..Len(updateQueue') /\ updateQueue'[m - 1] = updateQueue[m]
        BY TakenQueue
      <3> QED
        BY <3>1, <3>2, TakenQueue DEF Queued
    <2> QED
      BY <1>1, <2>1, <2>2, TakenQueue DEF Backed, QueueBacked
  <1>4. PendingBacked'
    <2> SUFFICES ASSUME NEW i \in Instances, NEW t \in Tasks,
                        pending[i][t] # NoPrediction
                 PROVE  \/ t \in running[i]
                        \/ Queued("completion", t, i)'
                        \/ InHand({"completion"}, t, i)'
      BY <1>1 DEF PendingBacked
    <2> QED
      BY <1>1, QueuedTake DEF Backed, PendingBacked, InHand
  <1> QED
    BY <1>2, <1>3, <1>4 DEF Backed

(* The steps after an update has been charged or dropped.                    *)
LEMMA MoveOnBacked ==
    ASSUME Backed, UNCHANGED <<updateQueue, running, pending>>,
           worker.pc # "completion", worker'.pc \notin SchedulePcs
    PROVE  Backed'
  <1>1. QueueBacked' /\ WorkerBacked'
    BY DEF Backed, QueueBacked, WorkerBacked, AnsweredAfter
  <1>2. PendingBacked'
    BY DEF Backed, PendingBacked, InHand, Queued
  <1> QED
    BY <1>1, <1>2 DEF Backed

LEMMA WorkerStepBacked == TypeOK /\ Backed /\ QueueUpdateWorker => Backed'
  <1> SUFFICES ASSUME TypeOK, Backed, QueueUpdateWorker PROVE Backed'
    OBVIOUS
  <1>1. CASE SkipPrediction
    BY <1>1, MoveOnBacked
    DEF SkipPrediction, WorkerOnly, queueStates, Idle, SchedulePcs
  <1>2. ASSUME NEW p \in Predictions, CachePrediction(p) PROVE Backed'
    <2>1. /\ worker.pc = "schedule" /\ worker'.pc = "accumulate"
          /\ worker'.item = worker.item
          /\ Task' = Task /\ Inst' = Inst
          /\ Task \in Tasks /\ Inst \in Instances
      BY <1>2, BusyFields DEF CachePrediction, Busy, Task, Inst
    <2>2. /\ pending' = [pending EXCEPT ![Inst][Task] = p]
          /\ UNCHANGED <<updateQueue, running>>
      BY <1>2 DEF CachePrediction, WorkerOnly
    <2>3. QueueBacked' /\ WorkerBacked'
      BY <2>1, <2>2
      DEF Backed, QueueBacked, WorkerBacked, AnsweredAfter, Queued, SchedulePcs
    <2>4. PendingBacked'
      <3> SUFFICES ASSUME NEW i \in Instances, NEW t \in Tasks,
                          pending'[i][t] # NoPrediction
                   PROVE  t \in running[i] \/ Queued("completion", t, i)
        BY <2>2 DEF PendingBacked, Queued
      <3>1. CASE i = Inst /\ t = Task
        BY <2>1, <3>1 DEF Backed, WorkerBacked, SchedulePcs
      <3>2. CASE ~(i = Inst /\ t = Task)
        <4>1. pending'[i][t] = pending[i][t]
          BY <2>1, <2>2, <3>2 DEF TypeOK
        <4> QED
          BY <2>1, <4>1 DEF Backed, PendingBacked, InHand
      <3> QED
        BY <3>1, <3>2
    <2> QED
      BY <2>3, <2>4 DEF Backed
  <1>3. CASE Accumulate
    BY <1>3, MoveOnBacked DEF Accumulate, WorkerOnly, Idle, SchedulePcs
  <1>4. CASE PopPending
    <2>1. /\ worker.pc = "completion" /\ worker'.pc = "subtract"
          /\ Task \in Tasks /\ Inst \in Instances
      BY <1>4, BusyFields DEF PopPending, Busy
    <2>2. /\ pending' = [pending EXCEPT ![Inst][Task] = NoPrediction]
          /\ UNCHANGED <<updateQueue, running>>
      BY <1>4 DEF PopPending, WorkerOnly
    <2>3. QueueBacked' /\ WorkerBacked'
      BY <2>1, <2>2
      DEF Backed, QueueBacked, WorkerBacked, AnsweredAfter, SchedulePcs
    <2>4. PendingBacked'
      <3> SUFFICES ASSUME NEW i \in Instances, NEW t \in Tasks,
                          pending'[i][t] # NoPrediction
                   PROVE  t \in running[i] \/ Queued("completion", t, i)
        BY <2>2 DEF PendingBacked, Queued
      <3>1. ~(i = Inst /\ t = Task) /\ pending[i][t] # NoPrediction
        BY <2>1, <2>2 DEF TypeOK
      <3> QED
        BY <3>1 DEF Backed, PendingBacked, InHand
    <2> QED
      BY <2>3, <2>4 DEF Backed
  <1>5. CASE Subtract
    <2>1. worker'.pc \notin SchedulePcs
      BY <1>5 DEF Subtract, Busy, Idle, SchedulePcs
    <2> QED
      BY <1>5, <2>1, MoveOnBacked DEF Subtract, WorkerOnly
  <1>6. ASSUME NEW t \in Tasks, AddPending(t) PROVE Backed'
    <2>1. worker'.pc = "recalculate" /\ worker.pc = "recalculate"
      BY <1>6, BusyFields DEF AddPending, BusyWorker, WorkerIn
    <2> QED
      BY <1>6, <2>1, MoveOnBacked
      DEF AddPending, WorkerOnly, queueStates, SchedulePcs
  <1>7. CASE AbortRecalculation
    BY <1>7, MoveOnBacked
    DEF AbortRecalculation, WorkerOnly, queueStates, Idle, SchedulePcs
  <1>8. CASE EndLoop
    <2>1. worker'.pc = "override" /\ worker.pc = "recalculate"
      BY <1>8, BusyFields DEF EndLoop, BusyWorker, WorkerIn
    <2> QED
      BY <1>8, <2>1, MoveOnBacked
      DEF EndLoop, WorkerOnly, queueStates, SchedulePcs
  <1>9. CASE Override
    BY <1>9, MoveOnBacked DEF Override, WorkerOnly, Idle, SchedulePcs
  <1> QED
    BY TakeBacked, <1>1, <1>2, <1>3, <1>4, <1>5, <1>6, <1>7, <1>8, <1>9
    DEF QueueUpdateWorker

LEMMA BackedInvariant == Spec => []Backed
  <1>1. Init => Backed
    BY DEF Init, Backed, QueueBacked, WorkerBacked, PendingBacked, Idle,
           SchedulePcs
  <1>2. TypeOK /\ Backed /\ [Next]_vars => Backed'
    <2> SUFFICES ASSUME TypeOK, Backed, [Next]_vars PROVE Backed'
      OBVIOUS
    <2>1. CASE UNCHANGED vars
      BY <2>1, BackedMonotone DEF vars, queueStates
    <2> QED
      BY <2>1, EventLoopBacked, WorkerStepBacked DEF Next
  <1> QED
    BY <1>1, <1>2, TypeCorrect, PTL DEF Spec

(* A prediction never outlives its task: as long as one is charged to an     *)
(* instance, the task's result is still to come or its completion update is  *)
(* on its way to the strategy, whatever fails, is repeated, reset or retried *)
(* in the meantime.                                                          *)
THEOREM PredictionsBacked == Spec => []PendingBacked
  <1>1. Backed => PendingBacked
    BY DEF Backed
  <1> QED
    BY <1>1, BackedInvariant, PTL

-----------------------------------------------------------------------------
(* The error of an instance with nothing pending stays within the threshold. *)

Settled(i) ==
    PendingTasks(i) = {} /\ expected[i] > 0 =>
        variance[i] <= ThresholdSq * expected[i] * expected[i]

(* The worker has changed the instance, and is not done with it. *)
Unsettled(i) == worker.pc \in {"subtract", "recalculate", "override"} /\ Inst = i

(* Only the instance whose completion is being processed may be beyond the   *)
(* threshold: the sums the worker has read are still those of the instance,  *)
(* nothing changes under the recalculation, and one that found nothing       *)
(* pending sums up to nothing.                                               *)
SettledInv ==
    /\ \A i \in Instances : Unsettled(i) \/ Settled(i)
    /\ worker.pc = "accumulate" => pending[Inst][Task] # NoPrediction
    /\ worker.pc = "subtract" =>
          worker.expected = expected[Inst] /\ worker.variance = variance[Inst]
    /\ worker.pc = "recalculate" => SizeUnchanged
    /\ worker.pc \in {"recalculate", "override"} /\ PendingTasks(Inst) = {} =>
          worker.expected = 0

(* A worker that ends an update leaves every instance settled. *)
LEMMA IdleSettled ==
    ASSUME worker' = Idle, \A i \in Instances : Settled(i)'
    PROVE  SettledInv'
  BY IdleType DEF SettledInv

LEMMA SettledKept ==
    ASSUME SettledInv, UNCHANGED <<worker, pending, expected, variance>>
    PROVE  SettledInv'
  BY DEF SettledInv, Settled, Unsettled, SizeUnchanged, PendingTasks, Inst, Task

(* What a step does not change of an instance, it leaves settled. *)
LEMMA OthersSettled ==
    ASSUME SettledInv, NEW i \in Instances, ~Unsettled(i),
           pending'[i] = pending[i], expected'[i] = expected[i],
           variance'[i] = variance[i]
    PROVE  Settled(i)'
  BY DEF SettledInv, Settled, PendingTasks

LEMMA ResetSettled ==
    ASSUME ResetQueueStates, NEW i \in Instances
    PROVE  Settled(i)'
  BY DEF ResetQueueStates, Settled

LEMMA EventLoopSettled ==
    ASSUME TypeOK, SettledInv, EventLoop, "clear" \notin Faults
    PROVE  SettledInv'
  <1>1. CASE SetStrategy
    BY <1>1, IdleSettled, ResetSettled DEF SetStrategy
  <1>2. CASE UNCHANGED <<worker, pending, expected, variance>>
    BY <1>2, SettledKept
  <1> QED
    BY <1>1, <1>2
    DEF EventLoop, Schedule, EnqueueTimesOut, EnqueueLost, Register, ReceiveResult,
        FinishBroadcast, NotifyTaskCompletion, ClearTasks, queueStates

LEMMA ScheduleSettled ==
    ASSUME TypeOK, SettledInv
    PROVE  /\ TakeUpdate => SettledInv'
           /\ SkipPrediction => SettledInv'
           /\ \A p \in Predictions : CachePrediction(p) => SettledInv'
           /\ Accumulate => SettledInv'
  <1>1. ASSUME TakeUpdate PROVE SettledInv'
    <2>1. Head(updateQueue).type \in {"schedule", "completion"}
      BY <1>1, UpdateFields DEF TakeUpdate, TypeOK
    <2>2. worker.pc = "idle" /\ worker'.pc \in {"schedule", "completion"}
      BY <1>1, <2>1 DEF TakeUpdate, Busy
    <2>3. \A i \in Instances : Settled(i)'
      BY <1>1, <2>2, OthersSettled DEF TakeUpdate, queueStates, Unsettled
    <2> QED
      BY <2>2, <2>3 DEF SettledInv
  <1>2. ASSUME SkipPrediction PROVE SettledInv'
    <2>1. \A i \in Instances : Settled(i)'
      BY <1>2, OthersSettled DEF SkipPrediction, queueStates, Unsettled
    <2> QED
      BY <1>2, <2>1, IdleSettled DEF SkipPrediction
  <1>3. ASSUME NEW p \in Predictions, CachePrediction(p) PROVE SettledInv'
    <2>1. Task \in Tasks /\ Inst \in Instances /\ worker.pc = "schedule"
      BY <1>3, BusyFields DEF CachePrediction
    <2>2. /\ worker'.pc = "accumulate" /\ Inst' = Inst /\ Task' = Task
      BY <1>3 DEF CachePrediction, Busy, Inst, Task
    <2>3. p # NoPrediction
      BY CoreAssumption DEF CoreAssumption
    <2>4. pending'[Inst][Task] = p
      BY <1>3, <2>1 DEF CachePrediction, TypeOK
    <2>5. Settled(Inst)'
      <3>1. \A i : i = Inst => Settled(i)'
        BY <2>1, <2>3, <2>4 DEF Settled, PendingTasks
      <3> QED
        BY <2>2, <3>1
    <2>6. ASSUME NEW i \in Instances, i # Inst PROVE Settled(i)'
      <3>1. pending'[i] = pending[i] /\ expected'[i] = expected[i]
            /\ variance'[i] = variance[i]
        BY <1>3, <2>6 DEF CachePrediction, TypeOK
      <3> QED
        BY <2>1, <3>1, OthersSettled DEF Unsettled
    <2>7. \A i \in Instances : Settled(i)'
      BY <2>2, <2>5, <2>6
    <2> QED
      BY <2>2, <2>3, <2>4, <2>7 DEF SettledInv
  <1>4. ASSUME Accumulate PROVE SettledInv'
    <2>1. Task \in Tasks /\ Inst \in Instances /\ worker.pc = "accumulate"
      BY <1>4, BusyFields DEF Accumulate
    <2>2. ASSUME NEW i \in Instances, i = Inst PROVE Settled(i)'
      BY <1>4, <2>1, <2>2 DEF Accumulate, SettledInv, Settled, PendingTasks
    <2>3. ASSUME NEW i \in Instances, i # Inst PROVE Settled(i)'
      <3>1. pending'[i] = pending[i] /\ expected'[i] = expected[i]
            /\ variance'[i] = variance[i]
        BY <1>4, <2>3 DEF Accumulate, TypeOK
      <3> QED
        BY <2>1, <3>1, OthersSettled DEF Unsettled
    <2> QED
      BY <1>4, <2>2, <2>3, IdleSettled DEF Accumulate
  <1> QED
    BY <1>1, <1>2, <1>3, <1>4

LEMMA SubtractSettled ==
    ASSUME TypeOK, SettledInv, Subtract
    PROVE  SettledInv'
  <1> DEFINE rest == Monus(worker.expected, worker.item.time)
             found == PendingTasks(Inst)
  <1>1. /\ Inst \in Instances /\ worker.pc = "subtract"
        /\ worker.item \in CompletionUpdates
        /\ worker.expected \in Nat /\ worker.variance = variance[Inst]
    BY BusyFields DEF Subtract, SettledInv, SchedulePcs
  <1>2. rest \in Nat
    BY <1>1, MonusType, CoreAssumption DEF CoreAssumption, CompletionUpdates
  <1>3. /\ expected' = [expected EXCEPT ![Inst] = rest]
        /\ UNCHANGED <<pending, variance>>
        /\ worker' = IF ExceedsThreshold(rest)
                     THEN [Busy(worker.item, "recalculate", 0, 0) EXCEPT
                              !.todo = found, !.size = Cardinality(found)]
                     ELSE Idle
    BY DEF Subtract
  <1> HIDE DEF rest
  <1>4. ASSUME NEW i \in Instances, i # Inst PROVE Settled(i)'
    <2>1. expected'[i] = expected[i]
      BY <1>3, <1>4 DEF TypeOK
    <2> QED
      BY <1>3, <1>4, <2>1, OthersSettled DEF Unsettled
  <1>5. CASE ExceedsThreshold(rest)
    <2>1. /\ worker'.pc = "recalculate" /\ worker'.item = worker.item
          /\ worker'.expected = 0 /\ worker'.size = Cardinality(found)
      BY <1>3, <1>5 DEF Busy
    <2>2. Inst' = Inst
      BY <2>1 DEF Inst
    <2>3. PendingTasks(Inst)' = found
      BY <1>3, <2>2 DEF PendingTasks
    <2>4. \A i \in Instances : Unsettled(i)' \/ Settled(i)'
      BY <1>4, <2>1, <2>2 DEF Unsettled
    <2>5. SizeUnchanged'
      BY <2>1, <2>3 DEF SizeUnchanged
    <2> QED
      BY <2>1, <2>4, <2>5 DEF SettledInv
  <1>6. CASE ~ExceedsThreshold(rest)
    <2>1. expected'[Inst] = rest /\ variance'[Inst] = worker.variance
      BY <1>1, <1>3 DEF TypeOK
    <2>2. rest > 0 => variance'[Inst] <= ThresholdSq * rest * rest
      <3>1. worker.variance \in Nat /\ ThresholdSq * rest * rest \in Int
        BY <1>1, <1>2, BusyFields, CoreAssumption DEF CoreAssumption
      <3> QED
        BY <1>6, <2>1, <3>1 DEF ExceedsThreshold
    <2>3. \A i : i = Inst => Settled(i)'
      BY <2>1, <2>2 DEF Settled
    <2>4. \A i \in Instances : Settled(i)'
      BY <1>4, <2>3
    <2> QED
      BY <1>3, <1>6, <2>4, IdleSettled
  <1> QED
    BY <1>5, <1>6

LEMMA CompletionSettled ==
    ASSUME TypeOK, SettledInv
    PROVE  /\ PopPending => SettledInv'
           /\ \A t \in Tasks : AddPending(t) => SettledInv'
           /\ ~AbortRecalculation
           /\ EndLoop => SettledInv'
           /\ Override => SettledInv'
  <1>1. ASSUME PopPending PROVE SettledInv'
    <2>1. Task \in Tasks /\ Inst \in Instances /\ worker.pc = "completion"
      BY <1>1, BusyFields DEF PopPending
    <2>2. /\ worker'.pc = "subtract" /\ Inst' = Inst
          /\ worker'.expected = expected[Inst] /\ worker'.variance = variance[Inst]
      BY <1>1 DEF PopPending, Busy, Inst
    <2>3. UNCHANGED <<expected, variance>>
      BY <1>1 DEF PopPending
    <2>4. ASSUME NEW i \in Instances, i # Inst PROVE Settled(i)'
      <3>1. pending'[i] = pending[i]
        BY <1>1, <2>4 DEF PopPending, TypeOK
      <3> QED
        BY <2>1, <2>3, <3>1, OthersSettled DEF Unsettled
    <2>5. \A i \in Instances : Unsettled(i)' \/ Settled(i)'
      BY <2>2, <2>4 DEF Unsettled
    <2> QED
      BY <2>2, <2>3, <2>5 DEF SettledInv
  <1>2. ASSUME NEW t \in Tasks, AddPending(t) PROVE SettledInv'
    <2>1. /\ worker.pc = "recalculate" /\ worker'.pc = "recalculate"
          /\ worker'.item = worker.item /\ worker'.size = worker.size
          /\ t \in PendingTasks(Inst)
          /\ UNCHANGED <<pending, expected, variance>>
      BY <1>2, BusyFields DEF AddPending, BusyWorker, WorkerIn, queueStates
    <2>2. Inst' = Inst
      BY <2>1 DEF Inst
    <2>3. PendingTasks(Inst)' = PendingTasks(Inst)
      BY <2>1, <2>2 DEF PendingTasks
    <2>4. \A i \in Instances : Unsettled(i)' \/ Settled(i)'
      BY <2>1, <2>2 DEF SettledInv, Settled, Unsettled, PendingTasks
    <2>5. SizeUnchanged'
      BY <2>1, <2>3 DEF SizeUnchanged, SettledInv
    <2> QED
      BY <2>1, <2>3, <2>4, <2>5 DEF SettledInv
  <1>3. ~AbortRecalculation
    BY DEF AbortRecalculation, SettledInv
  <1>4. ASSUME EndLoop PROVE SettledInv'
    <2>1. /\ worker.pc = "recalculate" /\ worker'.pc = "override"
          /\ worker'.item = worker.item /\ worker'.expected = worker.expected
          /\ UNCHANGED <<pending, expected, variance>>
      BY <1>4, BusyFields DEF EndLoop, BusyWorker, WorkerIn, queueStates
    <2>2. Inst' = Inst
      BY <2>1 DEF Inst
    <2>3. PendingTasks(Inst)' = PendingTasks(Inst)
      BY <2>1, <2>2 DEF PendingTasks
    <2>4. \A i \in Instances : Unsettled(i)' \/ Settled(i)'
      BY <2>1, <2>2 DEF SettledInv, Settled, Unsettled, PendingTasks
    <2> QED
      BY <2>1, <2>3, <2>4 DEF SettledInv
  <1>5. ASSUME Override PROVE SettledInv'
    <2>1. Inst \in Instances /\ worker.pc = "override"
      BY <1>5, BusyFields DEF Override
    <2>2. PendingTasks(Inst) = {} => worker.expected = 0
      BY <2>1 DEF SettledInv
    <2>3. expected'[Inst] = worker.expected /\ pending' = pending
      BY <1>5, <2>1 DEF Override, TypeOK
    <2>4. \A i : i = Inst => Settled(i)'
      BY <2>2, <2>3 DEF Settled, PendingTasks
    <2>5. ASSUME NEW i \in Instances, i # Inst PROVE Settled(i)'
      <3>1. expected'[i] = expected[i] /\ variance'[i] = variance[i]
        BY <1>5, <2>5 DEF Override, TypeOK
      <3> QED
        BY <2>3, <2>5, <3>1, OthersSettled DEF Unsettled
    <2> QED
      BY <1>5, <2>4, <2>5, IdleSettled DEF Override
  <1> QED
    BY <1>1, <1>2, <1>3, <1>4, <1>5

(* Without a clear, an instance that has expected time and nothing pending   *)
(* has an error within the threshold, whatever predictions, repeated results *)
(* and changes of strategy there are: what a completion leaves beyond it is  *)
(* reset by the recalculation it starts, which nothing else can disturb.     *)
THEOREM IdleErrorIsBounded ==
    ASSUME "clear" \notin Faults
    PROVE  Spec => []IdleErrorBounded
  <1>1. Init => SettledInv
    BY IdleType DEF Init, SettledInv, Settled
  <1>2. TypeOK /\ SettledInv /\ [Next]_vars => SettledInv'
    <2> SUFFICES ASSUME TypeOK, SettledInv, [Next]_vars PROVE SettledInv'
      OBVIOUS
    <2>1. CASE EventLoop
      BY <2>1, EventLoopSettled
    <2>2. CASE QueueUpdateWorker
      BY <2>2, ScheduleSettled, SubtractSettled, CompletionSettled
      DEF QueueUpdateWorker
    <2>3. CASE UNCHANGED vars
      BY <2>3, SettledKept DEF vars, queueStates
    <2> QED
      BY <2>1, <2>2, <2>3 DEF Next
  <1>3. SettledInv => IdleErrorBounded
    BY DEF SettledInv, IdleErrorBounded, Settled, Unsettled
  <1> QED
    BY <1>1, <1>2, <1>3, TypeCorrect, PTL DEF Spec

-----------------------------------------------------------------------------
(* Everything in the system was submitted.                                   *)

Submitted ==
    /\ \A i \in Instances : \A t \in running[i] : attempts[t] > 0
    /\ \A n \in 1..Len(updateQueue) : attempts[updateQueue[n].task] > 0
    /\ worker.pc # "idle" => attempts[Task] > 0
    /\ \A t \in Tasks : handlers[t] > 0 => attempts[t] > 0

LEMMA AttemptsGrow ==
    ASSUME TypeOK, [Next]_vars
    PROVE  \A t \in Tasks : attempts'[t] >= attempts[t]
  <1>1. attempts \in [Tasks -> Nat]
    BY DEF TypeOK
  <1>2. ASSUME NEW t \in Tasks, Register(t)
        PROVE  \A s \in Tasks : attempts'[s] >= attempts[s]
    BY <1>1, <1>2 DEF Register
  <1>3. CASE UNCHANGED attempts
    BY <1>1, <1>3
  <1>4. CASE EventLoop
    BY <1>2, <1>3, <1>4
    DEF EventLoop, Schedule, EnqueueTimesOut, EnqueueLost, ReceiveResult,
        FinishBroadcast, NotifyTaskCompletion, ClearTasks, SetStrategy
  <1>5. CASE QueueUpdateWorker
    BY <1>3, <1>5
    DEF QueueUpdateWorker, TakeUpdate, SkipPrediction, CachePrediction, Accumulate,
        PopPending, Subtract, AddPending, AbortRecalculation, EndLoop, Override,
        WorkerOnly
  <1> QED
    BY <1>3, <1>4, <1>5 DEF Next, vars

(* The tasks of the queued updates after one is appended.                    *)
LEMMA SubmittedAppend ==
    ASSUME TypeOK, Submitted, NEW u \in Update, SubmitQueueUpdate(u),
           \A t \in Tasks : attempts'[t] >= attempts[t], attempts'[u.task] > 0,
           attempts' \in [Tasks -> Nat]
    PROVE  \A n \in 1..Len(updateQueue') : attempts'[updateQueue'[n].task] > 0
  <1> SUFFICES ASSUME NEW n \in 1..Len(updateQueue')
               PROVE  attempts'[updateQueue'[n].task] > 0
    OBVIOUS
  <1>1. CASE n = Len(updateQueue) + 1
    BY <1>1, AppendedQueue
  <1>2. CASE n # Len(updateQueue) + 1
    <2>1. n \in 1..Len(updateQueue) /\ updateQueue'[n] = updateQueue[n]
      BY <1>2, AppendedQueue
    <2>2. updateQueue[n] \in Update
      BY <2>1 DEF TypeOK
    <2>3. updateQueue[n].task \in Tasks /\ attempts[updateQueue[n].task] > 0
      BY <2>1, <2>2, UpdateFields DEF Submitted
    <2> QED
      BY <2>1, <2>3 DEF TypeOK
  <1> QED
    BY <1>1, <1>2

LEMMA SubmittedStep == TypeOK /\ Submitted /\ [Next]_vars => Submitted'
  <1> SUFFICES ASSUME TypeOK, Submitted, [Next]_vars PROVE Submitted'
    OBVIOUS
  <1>1. /\ TypeOK'
        /\ attempts \in [Tasks -> Nat] /\ attempts' \in [Tasks -> Nat]
    <2>1. TypeOK'
      BY EventLoopType, WorkerType DEF Next, vars, queueStates, TypeOK
    <2> QED
      BY <2>1 DEF TypeOK
  <1>2. \A t \in Tasks : attempts'[t] >= attempts[t]
    BY AttemptsGrow
  <1>3. \A t \in Tasks : attempts[t] > 0 => attempts'[t] > 0
    BY <1>1, <1>2
  <1>4. \A n \in 1..Len(updateQueue) : updateQueue[n].task \in Tasks
    <2>1. \A n \in 1..Len(updateQueue) : updateQueue[n] \in Update
      BY DEF TypeOK
    <2> QED
      BY <2>1, UpdateFields
  <1>5. /\ \A i \in Instances : \A t \in running[i] : t \in Tasks /\ attempts'[t] > 0
        /\ \A n \in 1..Len(updateQueue) : attempts'[updateQueue[n].task] > 0
        /\ worker.pc # "idle" => attempts'[Task] > 0
        /\ \A t \in Tasks : handlers[t] > 0 => attempts'[t] > 0
    BY <1>3, <1>4, BusyFields DEF Submitted, TypeOK
  <1>6. ASSUME NEW t \in Tasks, NEW i \in Instances, NEW x \in ExecTimes,
               HandleTaskCompletion(t, i, x)
        PROVE  /\ \A j \in Instances : \A s \in running'[j] : attempts'[s] > 0
               /\ \A n \in 1..Len(updateQueue') : attempts'[updateQueue'[n].task] > 0
               /\ attempts'[t] > 0
    <2>1. attempts'[t] > 0
      BY <1>5, <1>6 DEF HandleTaskCompletion
    <2>2. \A j \in Instances : running'[j] \subseteq running[j]
      BY <1>6 DEF HandleTaskCompletion, TypeOK
    <2>3. /\ CompletionUpdate(t, i, x) \in Update
          /\ CompletionUpdate(t, i, x).task = t
          /\ SubmitQueueUpdate(CompletionUpdate(t, i, x))
      BY <1>6, UpdateTypes DEF HandleTaskCompletion, CompletionUpdate
    <2> QED
      BY <1>1, <1>2, <1>5, <2>1, <2>2, <2>3, SubmittedAppend
  <1>7. ASSUME NEW t \in Tasks, Register(t)
        PROVE  /\ attempts'[t] > 0
               /\ UNCHANGED <<worker, handlers>>
               /\ worker.pc # "idle" => attempts'[Task'] > 0
    BY <1>1, <1>5, <1>7 DEF Register, Task
  <1>8. CASE EventLoop
    <2>1. ASSUME NEW t \in Tasks, NEW i \in Instances, Schedule(t, i)
          PROVE  Submitted'
      <3>1. Register(t) /\ Deliver(t, i)
        BY <2>1 DEF Schedule
      <3>2. \A j \in Instances : \A s \in running'[j] : s \in running[j] \/ s = t
        BY <3>1 DEF Deliver, TypeOK
      <3>3. /\ ScheduleUpdate(t, i) \in Update
            /\ ScheduleUpdate(t, i).task = t
            /\ SubmitQueueUpdate(ScheduleUpdate(t, i))
        BY <2>1, UpdateTypes DEF Schedule, ScheduleUpdate
      <3>4. \A n \in 1..Len(updateQueue') : attempts'[updateQueue'[n].task] > 0
        BY <1>1, <1>2, <1>7, <3>1, <3>3, SubmittedAppend
      <3> QED
        BY <1>5, <1>7, <3>1, <3>2, <3>4 DEF Submitted
    <2>2. ASSUME NEW t \in Tasks, NEW i \in Instances, EnqueueTimesOut(t, i)
          PROVE  Submitted'
      <3>1. Register(t) /\ Deliver(t, i) /\ UNCHANGED updateQueue
        BY <2>2 DEF EnqueueTimesOut
      <3>2. \A j \in Instances : \A s \in running'[j] : s \in running[j] \/ s = t
        BY <3>1 DEF Deliver, TypeOK
      <3> QED
        BY <1>5, <1>7, <3>1, <3>2 DEF Submitted
    <2>3. ASSUME NEW t \in Tasks, EnqueueLost(t) PROVE Submitted'
      BY <1>5, <1>7, <2>3 DEF EnqueueLost, Submitted
    <2>4. ASSUME NEW t \in Tasks, NEW i \in Instances, NEW x \in ExecTimes,
                 ReceiveResult(t, i, x)
          PROVE  Submitted'
      <3>1. HandleTaskCompletion(t, i, x) /\ UNCHANGED <<worker, attempts>>
        BY <2>4 DEF ReceiveResult
      <3>2. \A s \in Tasks : s # t => handlers'[s] = handlers[s]
        BY <2>4 DEF ReceiveResult, TypeOK
      <3> QED
        BY <1>5, <1>6, <3>1, <3>2 DEF Submitted, Task
    <2>5. ASSUME NEW t \in Tasks, FinishBroadcast(t) PROVE Submitted'
      <3>1. /\ UNCHANGED <<updateQueue, worker, running, attempts>>
            /\ \A s \in Tasks : s # t => handlers'[s] = handlers[s]
            /\ handlers[t] > 0
        BY <2>5 DEF FinishBroadcast, TypeOK
      <3> QED
        BY <1>5, <3>1 DEF Submitted, Task
    <2>6. ASSUME NEW t \in Tasks, NEW i \in Instances, NEW x \in ExecTimes,
                 NotifyTaskCompletion(t, i, x)
          PROVE  Submitted'
      BY <1>5, <1>6, <2>6 DEF NotifyTaskCompletion, Submitted, Task
    <2>7. CASE ClearTasks
      BY <1>5, <2>7 DEF ClearTasks, Submitted, Task
    <2>8. CASE SetStrategy
      BY <1>5, <2>8 DEF SetStrategy, Submitted, Idle
    <2> QED
      BY <1>8, <2>1, <2>2, <2>3, <2>4, <2>5, <2>6, <2>7, <2>8 DEF EventLoop
  <1>9. CASE QueueUpdateWorker
    <2>1. CASE TakeUpdate
      <3>1. \A n \in 1..Len(updateQueue') : attempts'[updateQueue'[n].task] > 0
        BY <1>5, <2>1, TakenQueue
      <3>2. attempts'[Task'] > 0
        BY <1>5, <2>1, TakenQueue
      <3> QED
        BY <1>5, <2>1, <3>1, <3>2 DEF TakeUpdate, WorkerOnly, Submitted
    <2>2. /\ UNCHANGED <<updateQueue, running, handlers>>
          /\ worker.pc # "idle"
          /\ worker'.pc = "idle" \/ worker'.item = worker.item
          => Submitted'
      BY <1>5 DEF Submitted, Task
    <2>3. CASE ~TakeUpdate
      <3>1. /\ UNCHANGED <<updateQueue, running, handlers>>
            /\ worker.pc # "idle"
        BY <1>9, <2>3
        DEF QueueUpdateWorker, SkipPrediction, CachePrediction, Accumulate,
            PopPending, Subtract, AddPending, AbortRecalculation, EndLoop,
            Override, WorkerOnly
      <3>2. CASE worker' = Idle
        <4>1. worker'.pc = "idle"
          BY <3>2, IdleType
        <4> QED
          BY <2>2, <3>1, <4>1
      <3>3. CASE worker' # Idle
        <4>1. worker \in BusyWorker
          BY <3>1, BusyFields
        <4>2. ASSUME NEW p \in Predictions, CachePrediction(p)
              PROVE  worker'.item = worker.item
          BY <4>2 DEF CachePrediction, Busy
        <4>3. PopPending => worker'.item = worker.item
          BY DEF PopPending, Busy
        <4>4. Subtract => worker'.item = worker.item
          <5>1. Subtract =>
                   worker' = [Busy(worker.item, "recalculate", 0, 0) EXCEPT
                                 !.todo = PendingTasks(Inst),
                                 !.size = Cardinality(PendingTasks(Inst))]
            BY <3>3 DEF Subtract
          <5> QED
            BY <5>1 DEF Busy
        <4>5. ASSUME NEW t \in Tasks, AddPending(t)
              PROVE  worker'.item = worker.item
          BY <4>1, <4>5 DEF AddPending, BusyWorker, WorkerIn
        <4>6. EndLoop => worker'.item = worker.item
          BY <4>1 DEF EndLoop, BusyWorker, WorkerIn
        <4>7. worker'.item = worker.item
          BY <1>9, <2>3, <3>3, <4>2, <4>3, <4>4, <4>5, <4>6
          DEF QueueUpdateWorker, SkipPrediction, Accumulate, AbortRecalculation,
              Override
        <4> QED
          BY <2>2, <3>1, <4>7
      <3> QED
        BY <3>2, <3>3
    <2> QED
      BY <2>1, <2>3
  <1>10. CASE UNCHANGED vars
    BY <1>5, <1>10 DEF vars, Submitted, Task
  <1> QED
    BY <1>8, <1>9, <1>10 DEF Next

LEMMA SubmittedInvariant == Spec => []Submitted
  <1>1. Init => Submitted
    BY DEF Init, Submitted, Idle
  <1> QED
    BY <1>1, SubmittedStep, TypeCorrect, PTL DEF Spec

-----------------------------------------------------------------------------
(* What a result handler removes.                                            *)

(* A handler that awaits its broadcast has marked the entry it will remove,  *)
(* unless a submission came in between.                                      *)
HandlersMarked ==
    \A t \in Tasks : handlers[t] > 0 /\ tracker[t] = "scheduled" => t \in overtaken

(* The first registration of a task finds no handler waiting for it.         *)
LEMMA FirstRegistration ==
    ASSUME MaxAttempts <= 1, TypeOK, NEW t \in Tasks, Register(t)
    PROVE  attempts[t] = 0
  BY CoreAssumption DEF CoreAssumption, TypeOK, Register

LEMMA HandlersMarkedStep ==
    ASSUME TypeOK, HandlersMarked, [Next]_vars
    PROVE  HandlersMarked'
  <1> USE DEF HandlersMarked
  <1>1. /\ tracker \in [Tasks -> Status]
        /\ handlers \in [Tasks -> Nat]
    BY DEF TypeOK
  <1>2. ASSUME NEW t \in Tasks, Register(t) PROVE HandlersMarked'
    <2>1. /\ handlers' = handlers
          /\ handlers[t] > 0 => t \in overtaken'
          /\ \A s \in Tasks : s # t => /\ tracker'[s] = tracker[s]
                                       /\ s \in overtaken => s \in overtaken'
      BY <1>1, <1>2 DEF Register
    <2> QED
      BY <2>1
  <1>3. ASSUME NEW t \in Tasks, NEW i \in Instances, NEW x \in ExecTimes,
               ReceiveResult(t, i, x)
        PROVE  HandlersMarked'
    <2>1. /\ overtaken' = overtaken
          /\ \A s \in Tasks : s # t => handlers'[s] = handlers[s]
          /\ \A s \in Tasks : s # t => tracker'[s] = tracker[s]
          /\ tracker'[t] # "scheduled"
      BY <1>1, <1>3 DEF ReceiveResult, HandleTaskCompletion, MarkCompleted
    <2> QED
      BY <2>1
  <1>4. ASSUME NEW t \in Tasks, FinishBroadcast(t) PROVE HandlersMarked'
    BY <1>1, <1>4 DEF FinishBroadcast
  <1>5. ASSUME NEW t \in Tasks, NEW i \in Instances, NEW x \in ExecTimes,
               NotifyTaskCompletion(t, i, x)
        PROVE  HandlersMarked'
    BY <1>1, <1>5 DEF NotifyTaskCompletion, HandleTaskCompletion, MarkCompleted
  <1>6. CASE ClearTasks
    BY <1>6 DEF ClearTasks
  <1>7. CASE UNCHANGED <<tracker, handlers, overtaken>>
    BY <1>7
  <1> QED
    BY <1>2, <1>3, <1>4, <1>5, <1>6, <1>7
    DEF Next, vars, EventLoop, Schedule, EnqueueTimesOut, EnqueueLost, SetStrategy,
        QueueUpdateWorker, TakeUpdate, SkipPrediction, CachePrediction, Accumulate,
        PopPending, Subtract, AddPending, AbortRecalculation, EndLoop, Override,
        WorkerOnly

(* However often ids are submitted again, and whatever results are repeated, *)
(* lost or cleared: a scheduled entry disappears only by a clear, or because *)
(* its submission came during the broadcast of an earlier result of the id.  *)
THEOREM OnlyOvertakenLost == Spec => EntryStays
  <1> DEFINE Kept == \A t \in Tasks :
                        tracker[t] = "scheduled" /\ tracker'[t] = "absent" =>
                            t \in overtaken \/ ClearTasks
  <1>1. Init => HandlersMarked
    BY DEF Init, HandlersMarked
  <1>2. TypeOK /\ HandlersMarked /\ [Next]_vars => HandlersMarked'
    BY HandlersMarkedStep
  <1>3. TypeOK /\ HandlersMarked /\ [Next]_vars => [Kept]_vars
    <2> SUFFICES ASSUME TypeOK, HandlersMarked, Next PROVE Kept
      OBVIOUS
    <2>1. tracker \in [Tasks -> Status]
      BY DEF TypeOK
    <2>2. ASSUME NEW t \in Tasks, Register(t) PROVE Kept
      BY <2>1, <2>2 DEF Register
    <2>3. ASSUME NEW t \in Tasks, MarkCompleted(t) PROVE Kept
      BY <2>1, <2>3 DEF MarkCompleted
    <2>4. ASSUME NEW t \in Tasks, FinishBroadcast(t) PROVE Kept
      <3>1. tracker[t] = "scheduled" => t \in overtaken
        BY <2>4 DEF FinishBroadcast, HandlersMarked
      <3>2. \A s \in Tasks : s # t => tracker'[s] = tracker[s]
        BY <2>1, <2>4 DEF FinishBroadcast
      <3> QED
        BY <3>1, <3>2
    <2>5. CASE UNCHANGED tracker
      BY <2>5
    <2>6. CASE ClearTasks
      BY <2>6
    <2> QED
      BY <2>2, <2>3, <2>4, <2>5, <2>6
      DEF Next, EventLoop, Schedule, EnqueueTimesOut, EnqueueLost, ReceiveResult,
          NotifyTaskCompletion, HandleTaskCompletion, SetStrategy,
          QueueUpdateWorker, TakeUpdate, SkipPrediction, CachePrediction,
          Accumulate, PopPending, Subtract, AddPending, AbortRecalculation,
          EndLoop, Override, WorkerOnly
  <1> QED
    BY <1>1, <1>2, <1>3, TypeCorrect, PTL DEF Spec, EntryStays

-----------------------------------------------------------------------------
(* An instance is charged for no more tasks than it has outstanding.         *)

(* A task has at most one schedule update on its way to the strategy.        *)
Unique ==
    /\ \A m, n \in 1..Len(updateQueue) :
          /\ updateQueue[m].type = "schedule"
          /\ updateQueue[n].type = "schedule"
          /\ updateQueue[m].task = updateQueue[n].task
          => m = n
    /\ worker.pc \in SchedulePcs =>
          \A n \in 1..Len(updateQueue) :
              updateQueue[n].type = "schedule" => updateQueue[n].task # Task

(* The outstanding tasks that may have been counted: the strategy has their  *)
(* schedule update behind it.                                                *)
Charged(i) ==
    {t \in Outstanding(i) : ~Queued("schedule", t, i) /\ ~InHand(SchedulePcs, t, i)}

CountCharged == \A i \in Instances : taskCount[i] <= Cardinality(Charged(i))

LEMMA UniqueUnchanged ==
    ASSUME Unique, UNCHANGED updateQueue,
           \/ worker' = worker
           \/ worker'.pc \notin SchedulePcs
           \/ worker.pc \in SchedulePcs /\ worker'.item = worker.item
    PROVE  Unique'
  BY DEF Unique, Task

LEMMA UniqueAppend ==
    ASSUME Unique, TypeOK, UNCHANGED worker, NEW u \in Update,
           SubmitQueueUpdate(u),
           u.type = "schedule" =>
              /\ \A n \in 1..Len(updateQueue) : updateQueue[n].task # u.task
              /\ worker.pc \in SchedulePcs => Task # u.task
    PROVE  Unique'
  <1>1. ASSUME NEW m \in 1..Len(updateQueue'), NEW n \in 1..Len(updateQueue'),
               updateQueue'[m].type = "schedule", updateQueue'[n].type = "schedule",
               updateQueue'[m].task = updateQueue'[n].task
        PROVE  m = n
    BY <1>1, AppendedQueue DEF Unique
  <1>2. ASSUME worker.pc \in SchedulePcs, NEW n \in 1..Len(updateQueue'),
               updateQueue'[n].type = "schedule"
        PROVE  updateQueue'[n].task # Task
    BY <1>2, AppendedQueue DEF Unique
  <1> QED
    BY <1>1, <1>2 DEF Unique, Task

LEMMA UniqueTake ==
    ASSUME Unique, TypeOK, TakeUpdate
    PROVE  Unique'
  <1>1. ASSUME NEW m \in 1..Len(updateQueue'), NEW n \in 1..Len(updateQueue'),
               updateQueue'[m].type = "schedule", updateQueue'[n].type = "schedule",
               updateQueue'[m].task = updateQueue'[n].task
        PROVE  m = n
    <2>1. m + 1 \in 1..Len(updateQueue) /\ n + 1 \in 1..Len(updateQueue)
      BY TakenQueue
    <2>2. m + 1 = n + 1
      BY <1>1, <2>1, TakenQueue DEF Unique
    <2> QED
      BY <2>2
  <1>2. ASSUME worker'.pc \in SchedulePcs, NEW n \in 1..Len(updateQueue'),
               updateQueue'[n].type = "schedule"
        PROVE  updateQueue'[n].task # Task'
    <2>1. n + 1 \in 1..Len(updateQueue) /\ 1 \in 1..Len(updateQueue)
      BY TakenQueue
    <2>2. updateQueue[1].type = "schedule"
      BY <1>2, TakenQueue, UpdateFields DEF SchedulePcs
    <2> QED
      BY <1>2, <2>1, <2>2, TakenQueue DEF Unique
  <1> QED
    BY <1>1, <1>2 DEF Unique

LEMMA ChargedFinite ==
    ASSUME NEW i \in Instances
    PROVE  /\ IsFiniteSet(Charged(i)) /\ Cardinality(Charged(i)) \in Nat
           /\ Charged(i) \subseteq Tasks
  <1>1. Charged(i) \subseteq Tasks
    BY DEF Charged, Outstanding
  <1> QED
    BY <1>1, CoreAssumption, FS_Subset, FS_CardinalityType DEF CoreAssumption

LEMMA ChargedFinitePrime ==
    ASSUME NEW i \in Instances
    PROVE  IsFiniteSet(Charged(i)') /\ Cardinality(Charged(i)') \in Nat
  <1>1. Charged(i)' \subseteq Tasks
    BY DEF Charged, Outstanding
  <1> QED
    BY <1>1, CoreAssumption, FS_Subset, FS_CardinalityType DEF CoreAssumption

LEMMA RemoveOne ==
    ASSUME NEW S, NEW x, IsFiniteSet(S)
    PROVE  /\ IsFiniteSet(S \ {x})
           /\ Cardinality(S \ {x}) \in Nat
           /\ Cardinality(S \ {x}) >= Cardinality(S) - 1
  <1>1. /\ IsFiniteSet(S \ {x})
        /\ Cardinality(S \ {x}) = IF x \in S THEN Cardinality(S) - 1
                                            ELSE Cardinality(S)
    BY FS_RemoveElement
  <1>2. Cardinality(S) \in Nat /\ Cardinality(S \ {x}) \in Nat
    BY <1>1, FS_CardinalityType
  <1> QED
    BY <1>1, <1>2

(* The ways a step keeps an instance's count covered: the charged tasks  *)
(* stay charged and the count stays, or both change by one.                  *)
LEMMA CountKept ==
    ASSUME TypeOK, TypeOK', NEW i \in Instances,
           taskCount[i] <= Cardinality(Charged(i)),
           taskCount'[i] = taskCount[i], Charged(i) \subseteq Charged(i)'
    PROVE  taskCount'[i] <= Cardinality(Charged(i)')
  <1>1. Cardinality(Charged(i)) <= Cardinality(Charged(i)')
    BY ChargedFinite, ChargedFinitePrime, FS_Subset
  <1> QED
    BY <1>1, ChargedFinite, ChargedFinitePrime DEF TypeOK

LEMMA CountGrows ==
    ASSUME TypeOK, TypeOK', NEW i \in Instances, NEW t,
           taskCount[i] <= Cardinality(Charged(i)),
           taskCount'[i] = taskCount[i] + 1,
           Charged(i) \subseteq Charged(i)', t \notin Charged(i), t \in Charged(i)'
    PROVE  taskCount'[i] <= Cardinality(Charged(i)')
  <1>1. Charged(i) \cup {t} \subseteq Charged(i)'
    OBVIOUS
  <1>2. /\ IsFiniteSet(Charged(i) \cup {t})
        /\ Cardinality(Charged(i) \cup {t}) = Cardinality(Charged(i)) + 1
    BY ChargedFinite, FS_AddElement
  <1>3. Cardinality(Charged(i) \cup {t}) <= Cardinality(Charged(i)')
    BY <1>1, ChargedFinitePrime, FS_Subset
  <1> QED
    BY <1>2, <1>3, ChargedFinite, ChargedFinitePrime DEF TypeOK

LEMMA CountShrinks ==
    ASSUME TypeOK, TypeOK', NEW i \in Instances, NEW t,
           taskCount[i] <= Cardinality(Charged(i)),
           taskCount'[i] = Monus(taskCount[i], 1),
           Charged(i) \ {t} \subseteq Charged(i)'
    PROVE  taskCount'[i] <= Cardinality(Charged(i)')
  <1>1. /\ IsFiniteSet(Charged(i) \ {t})
        /\ Cardinality(Charged(i) \ {t}) \in Nat
        /\ Cardinality(Charged(i) \ {t}) >= Cardinality(Charged(i)) - 1
    BY ChargedFinite, RemoveOne
  <1>2. Cardinality(Charged(i) \ {t}) <= Cardinality(Charged(i)')
    BY <1>1, ChargedFinitePrime, FS_Subset
  <1>3. taskCount[i] \in Nat
    BY DEF TypeOK
  <1> QED
    BY <1>1, <1>2, <1>3, ChargedFinite, ChargedFinitePrime DEF Monus

(* When a step leaves a task charged.                                        *)
LEMMA StaysCharged ==
    ASSUME NEW i \in Instances, NEW t, t \in Charged(i),
           \/ t \in running'[i]
           \/ Queued("completion", t, i)'
           \/ InHand({"completion", "subtract"}, t, i)',
           Queued("schedule", t, i)' => Queued("schedule", t, i),
           InHand(SchedulePcs, t, i)' =>
              InHand(SchedulePcs, t, i) \/ Queued("schedule", t, i)
    PROVE  t \in Charged(i)'
  BY DEF Charged, Outstanding

LEMMA ChargedCases ==
    ASSUME NEW i \in Instances, NEW t, t \in Charged(i)
    PROVE  /\ t \in Tasks
           /\ \/ t \in running[i]
              \/ Queued("completion", t, i)
              \/ InHand({"completion", "subtract"}, t, i)
           /\ ~Queued("schedule", t, i)
           /\ ~InHand(SchedulePcs, t, i)
  BY DEF Charged, Outstanding

(* A task that is charged was submitted.                                     *)
LEMMA ChargedSubmitted ==
    ASSUME TypeOK, Submitted, NEW i \in Instances, NEW t, t \in Charged(i)
    PROVE  attempts[t] > 0
  BY ChargedCases, IdleType DEF Submitted, Queued, InHand, Idle

LEMMA EventLoopCount ==
    ASSUME MaxAttempts <= 1, TypeOK, TypeOK', Submitted, Unique, CountCharged,
           EventLoop
    PROVE  Unique' /\ CountCharged'
  <1>1. ASSUME NEW t \in Tasks, NEW i \in Instances, Schedule(t, i)
        PROVE  Unique' /\ CountCharged'
    <2> DEFINE u == ScheduleUpdate(t, i)
    <2>1. /\ u \in Update /\ u.type = "schedule" /\ u.task = t /\ u.inst = i
          /\ SubmitQueueUpdate(u) /\ Register(t)
      BY <1>1, UpdateTypes DEF Schedule, ScheduleUpdate
    <2> HIDE DEF u
    <2>2. attempts[t] = 0 /\ UNCHANGED <<worker, taskCount>>
      BY <2>1, FirstRegistration, RegisterType
    <2>3. \A n \in 1..Len(updateQueue) : updateQueue[n].task # t
      BY <2>2 DEF Submitted
    <2>4. worker.pc \in SchedulePcs => Task # t
      BY <2>2 DEF Submitted, SchedulePcs
    <2>5. Unique'
      BY <2>1, <2>2, <2>3, <2>4, UniqueAppend
    <2>6. ASSUME NEW j \in Instances, NEW s, s \in Charged(j)
          PROVE  s \in Charged(j)'
      <3>1. s # t
        BY <2>2, <2>6, ChargedSubmitted
      <3>2. s \in running[j] => s \in running'[j]
        BY <1>1 DEF Schedule, Deliver, TypeOK
      <3>3. /\ Queued("completion", s, j) => Queued("completion", s, j)'
            /\ Queued("schedule", s, j)' => Queued("schedule", s, j)
        BY <2>1, <3>1, QueuedAppend
      <3>4. \A pcs : InHand(pcs, s, j)' <=> InHand(pcs, s, j)
        BY <2>2 DEF InHand, Task, Inst
      <3> QED
        BY <2>6, <3>2, <3>3, <3>4, StaysCharged, ChargedCases
    <2>7. CountCharged'
      BY <2>2, <2>6, CountKept DEF CountCharged
    <2> QED
      BY <2>5, <2>7
  <1>2. ASSUME UNCHANGED <<updateQueue, worker, taskCount>>,
               \A j \in Instances : running[j] \subseteq running'[j]
        PROVE  Unique' /\ CountCharged'
    <2>1. ASSUME NEW j \in Instances PROVE Charged(j) \subseteq Charged(j)'
      BY <1>2, <2>1 DEF Charged, Outstanding, Queued, InHand, Task, Inst
    <2> QED
      BY <1>2, <2>1, UniqueUnchanged, CountKept DEF CountCharged
  <1>3. ASSUME NEW t \in Tasks, NEW i \in Instances, EnqueueTimesOut(t, i)
        PROVE  Unique' /\ CountCharged'
    <2>1. \A j \in Instances : running[j] \subseteq running'[j]
      BY <1>3 DEF EnqueueTimesOut, Deliver, TypeOK
    <2> QED
      BY <1>2, <1>3, <2>1, RegisterType DEF EnqueueTimesOut
  <1>4. ASSUME NEW t \in Tasks, EnqueueLost(t) PROVE Unique' /\ CountCharged'
    BY <1>2, <1>4, RegisterType DEF EnqueueLost
  <1>5. ASSUME NEW t \in Tasks, NEW i \in Instances, NEW x \in ExecTimes,
               HandleTaskCompletion(t, i, x), UNCHANGED <<worker, taskCount>>
        PROVE  Unique' /\ CountCharged'
    <2> DEFINE u == CompletionUpdate(t, i, x)
    <2>1. /\ u \in Update /\ u.type = "completion" /\ u.task = t /\ u.inst = i
          /\ SubmitQueueUpdate(u)
      BY <1>5, UpdateTypes DEF HandleTaskCompletion, CompletionUpdate
    <2> HIDE DEF u
    <2>2. Unique'
      BY <1>5, <2>1, UniqueAppend
    <2>3. ASSUME NEW j \in Instances, NEW s, s \in Charged(j)
          PROVE  s \in Charged(j)'
      <3>1. s \in running[j] => s \in running'[j] \/ (s = t /\ j = i)
        BY <1>5, ZenonT(30) DEF HandleTaskCompletion, TypeOK
      <3>2. /\ Queued("completion", s, j) \/ (s = t /\ j = i)
                  => Queued("completion", s, j)'
            /\ Queued("schedule", s, j)' => Queued("schedule", s, j)
        BY <2>1, QueuedAppend
      <3>3. \A pcs : InHand(pcs, s, j)' <=> InHand(pcs, s, j)
        BY <1>5 DEF InHand, Task, Inst
      <3> QED
        BY <2>3, <3>1, <3>2, <3>3, StaysCharged, ChargedCases
    <2>4. CountCharged'
      BY <1>5, <2>3, CountKept DEF CountCharged
    <2> QED
      BY <2>2, <2>4
  <1>6. ASSUME NEW t \in Tasks, FinishBroadcast(t) PROVE Unique' /\ CountCharged'
    BY <1>2, <1>6 DEF FinishBroadcast, queueStates
  <1>7. ASSUME UNCHANGED updateQueue, worker' = worker \/ worker' = Idle,
               ResetQueueStates
        PROVE  Unique' /\ CountCharged'
    <2>1. Unique'
      BY <1>7, IdleType, UniqueUnchanged DEF SchedulePcs
    <2>2. CountCharged'
      BY <1>7, ChargedFinitePrime DEF ResetQueueStates, CountCharged
    <2> QED
      BY <2>1, <2>2
  <1> QED
    BY <1>1, <1>3, <1>4, <1>5, <1>6, <1>7
    DEF EventLoop, ReceiveResult, NotifyTaskCompletion, ClearTasks, SetStrategy,
        queueStates

(* The worker's steps that leave the count alone.                            *)
LEMMA LocalStepCount ==
    ASSUME TypeOK, TypeOK', Unique, CountCharged,
           UNCHANGED <<updateQueue, running, taskCount>>,
           worker.pc \in {"completion", "subtract"} =>
              /\ worker'.pc \in {"completion", "subtract"}
              /\ worker'.item = worker.item,
           worker'.pc \in SchedulePcs =>
              worker.pc \in SchedulePcs /\ worker'.item = worker.item
    PROVE  Unique' /\ CountCharged'
  <1>1. Unique'
    BY UniqueUnchanged
  <1>2. ASSUME NEW i \in Instances PROVE Charged(i) \subseteq Charged(i)'
    BY <1>2 DEF Charged, Outstanding, Queued, InHand, Task, Inst
  <1>3. CountCharged'
    BY <1>2, CountKept DEF CountCharged
  <1> QED
    BY <1>1, <1>3

LEMMA TakeCount ==
    ASSUME TypeOK, TypeOK', Unique, CountCharged, TakeUpdate
    PROVE  Unique' /\ CountCharged'
  <1>1. Unique'
    BY UniqueTake
  <1>2. UNCHANGED <<running, taskCount>> /\ worker.pc = "idle"
    BY DEF TakeUpdate, WorkerOnly, queueStates
  <1>3. ASSUME NEW i \in Instances, NEW t, t \in Charged(i)
        PROVE  t \in Charged(i)'
    <2>1. ~InHand({"completion", "subtract"}, t, i)
      BY <1>2 DEF InHand
    <2>2. Queued("completion", t, i) =>
             \/ Queued("completion", t, i)'
             \/ InHand({"completion", "subtract"}, t, i)'
      BY QueuedTake DEF InHand
    <2>3. worker'.pc \in SchedulePcs => worker'.pc = "schedule"
      BY TakenQueue, UpdateFields DEF SchedulePcs
    <2>4. /\ Queued("schedule", t, i)' => Queued("schedule", t, i)
          /\ InHand(SchedulePcs, t, i)' => Queued("schedule", t, i)
      BY <2>3, QueuedTake DEF InHand
    <2> QED
      BY <1>2, <1>3, <2>1, <2>2, <2>4, StaysCharged, ChargedCases
  <1>4. CountCharged'
    BY <1>2, <1>3, CountKept DEF CountCharged
  <1> QED
    BY <1>1, <1>4

(* Charging a task: it is outstanding, and this was its only schedule update. *)
LEMMA AccumulateCount ==
    ASSUME TypeOK, TypeOK', WorkerBacked, Unique, CountCharged, Accumulate
    PROVE  Unique' /\ CountCharged'
  <1>1. /\ worker.pc = "accumulate" /\ worker'.pc = "idle"
        /\ UNCHANGED <<updateQueue, running>>
        /\ Task \in Tasks /\ Inst \in Instances
    BY BusyFields, IdleType DEF Accumulate, WorkerOnly
  <1>2. Unique'
    BY <1>1, UniqueUnchanged DEF SchedulePcs
  <1>3. /\ taskCount'[Inst] = taskCount[Inst] + 1
        /\ \A i \in Instances : i # Inst => taskCount'[i] = taskCount[i]
    BY <1>1 DEF Accumulate, TypeOK
  <1>4. /\ \A t, i : ~InHand({"completion", "subtract"}, t, i)
        /\ \A t, i : ~InHand(SchedulePcs, t, i)'
    BY <1>1 DEF InHand, SchedulePcs
  <1>5. \A type, t, i : Queued(type, t, i)' <=> Queued(type, t, i)
    BY <1>1 DEF Queued
  <1>6. ASSUME NEW i \in Instances PROVE Charged(i) \subseteq Charged(i)'
    BY <1>1, <1>4, <1>5 DEF Charged, Outstanding
  <1>7. Task \notin Charged(Inst)
    BY <1>1 DEF Charged, InHand, SchedulePcs
  <1>8. ASSUME NEW t, t = Task, NEW i, i = Inst PROVE t \in Charged(i)'
    <2>1. t \in running'[i] \/ Queued("completion", t, i)'
      BY <1>1, <1>5, <1>8 DEF WorkerBacked, SchedulePcs
    <2>2. ~Queued("schedule", t, i)
      BY <1>1, <1>8 DEF Unique, Queued, SchedulePcs
    <2> QED
      BY <1>1, <1>4, <1>5, <1>8, <2>1, <2>2 DEF Charged, Outstanding
  <1>9. CountCharged'
    <2> SUFFICES ASSUME NEW i \in Instances
                 PROVE  taskCount'[i] <= Cardinality(Charged(i)')
      BY DEF CountCharged
    <2>1. taskCount[i] <= Cardinality(Charged(i))
      BY DEF CountCharged
    <2>2. CASE i = Inst
      <3>1. PICK t : t = Task
        OBVIOUS
      <3>2. t \notin Charged(i) /\ t \in Charged(i)'
        BY <1>7, <1>8, <2>2, <3>1
      <3> QED
        BY <1>3, <1>6, <2>1, <2>2, <3>2, CountGrows
    <2>3. CASE i # Inst
      BY <1>3, <1>6, <2>1, <2>3, CountKept
    <2> QED
      BY <2>2, <2>3
  <1> QED
    BY <1>2, <1>9

LEMMA SubtractCount ==
    ASSUME TypeOK, TypeOK', Unique, CountCharged, Subtract
    PROVE  Unique' /\ CountCharged'
  <1>1. /\ worker.pc = "subtract" /\ worker'.pc \in {"idle", "recalculate"}
        /\ UNCHANGED <<updateQueue, running>>
        /\ Task \in Tasks /\ Inst \in Instances
    BY BusyFields DEF Subtract, WorkerOnly, Idle, Busy
  <1>2. Unique'
    BY <1>1, UniqueUnchanged DEF SchedulePcs
  <1>3. /\ taskCount'[Inst] = Monus(taskCount[Inst], 1)
        /\ \A i \in Instances : i # Inst => taskCount'[i] = taskCount[i]
    BY <1>1 DEF Subtract, CountAfter, TypeOK
  <1>4. \A type, t, i : Queued(type, t, i)' <=> Queued(type, t, i)
    BY <1>1 DEF Queued
  <1>5. ASSUME NEW i \in Instances, NEW t, t \in Charged(i), ~(t = Task /\ i = Inst)
        PROVE  t \in Charged(i)'
    <2>1. t \in running[i] \/ Queued("completion", t, i)
      BY <1>1, <1>5 DEF Charged, Outstanding, InHand
    <2>2. t \in running'[i] \/ Queued("completion", t, i)'
      BY <1>1, <1>4, <2>1
    <2>3. ~InHand(SchedulePcs, t, i)' /\ ~Queued("schedule", t, i)'
      <3>1. ~Queued("schedule", t, i)
        BY <1>5 DEF Charged
      <3> QED
        BY <1>1, <1>4, <3>1 DEF InHand, SchedulePcs
    <2> QED
      BY <1>5, <2>2, <2>3, StaysCharged
  <1>6. CountCharged'
    <2> SUFFICES ASSUME NEW i \in Instances
                 PROVE  taskCount'[i] <= Cardinality(Charged(i)')
      BY DEF CountCharged
    <2>1. taskCount[i] <= Cardinality(Charged(i))
      BY DEF CountCharged
    <2>2. CASE i = Inst
      <3>1. PICK t : t = Task
        OBVIOUS
      <3>2. Charged(i) \ {t} \subseteq Charged(i)'
        BY <1>5, <3>1
      <3> QED
        BY <1>3, <2>1, <2>2, <3>2, CountShrinks
    <2>3. CASE i # Inst
      <3>1. Charged(i) \subseteq Charged(i)'
        BY <1>5, <2>3
      <3> QED
        BY <1>3, <2>1, <2>3, <3>1, CountKept
    <2> QED
      BY <2>2, <2>3
  <1> QED
    BY <1>2, <1>6

LEMMA WorkerCount ==
    ASSUME TypeOK, TypeOK', WorkerBacked, Unique, CountCharged, QueueUpdateWorker
    PROVE  Unique' /\ CountCharged'
  <1>1. CASE SkipPrediction
    BY <1>1, IdleType, LocalStepCount
    DEF SkipPrediction, WorkerOnly, queueStates, SchedulePcs
  <1>2. ASSUME NEW p \in Predictions, CachePrediction(p)
        PROVE  Unique' /\ CountCharged'
    <2>1. /\ worker.pc = "schedule" /\ worker'.pc = "accumulate"
          /\ worker'.item = worker.item
          /\ UNCHANGED <<updateQueue, running, taskCount>>
      BY <1>2 DEF CachePrediction, Busy, WorkerOnly
    <2> QED
      BY <2>1, LocalStepCount DEF SchedulePcs
  <1>3. CASE PopPending
    <2>1. /\ worker.pc = "completion" /\ worker'.pc = "subtract"
          /\ worker'.item = worker.item
          /\ UNCHANGED <<updateQueue, running, taskCount>>
      BY <1>3 DEF PopPending, Busy, WorkerOnly
    <2> QED
      BY <2>1, LocalStepCount DEF SchedulePcs
  <1>4. ASSUME NEW t \in Tasks, AddPending(t) PROVE Unique' /\ CountCharged'
    <2>1. /\ worker.pc = "recalculate" /\ worker'.pc = "recalculate"
          /\ UNCHANGED <<updateQueue, running, taskCount>>
      BY <1>4, BusyFields
      DEF AddPending, WorkerOnly, queueStates, BusyWorker, WorkerIn
    <2> QED
      BY <2>1, LocalStepCount DEF SchedulePcs
  <1>5. CASE AbortRecalculation
    BY <1>5, IdleType, LocalStepCount
    DEF AbortRecalculation, WorkerOnly, queueStates, SchedulePcs
  <1>6. CASE EndLoop
    <2>1. /\ worker.pc = "recalculate" /\ worker'.pc = "override"
          /\ UNCHANGED <<updateQueue, running, taskCount>>
      BY <1>6, BusyFields
      DEF EndLoop, WorkerOnly, queueStates, BusyWorker, WorkerIn
    <2> QED
      BY <2>1, LocalStepCount DEF SchedulePcs
  <1>7. CASE Override
    BY <1>7, IdleType, LocalStepCount DEF Override, WorkerOnly, SchedulePcs
  <1> QED
    BY TakeCount, AccumulateCount, SubtractCount,
       <1>1, <1>2, <1>3, <1>4, <1>5, <1>6, <1>7
    DEF QueueUpdateWorker

LEMMA CountInvariant ==
    ASSUME MaxAttempts <= 1
    PROVE  Spec => [](Unique /\ CountCharged)
  <1>1. Init => Unique /\ CountCharged
    <2> SUFFICES ASSUME Init PROVE Unique /\ CountCharged
      OBVIOUS
    <2>1. Unique
      BY DEF Init, Unique, Idle, SchedulePcs
    <2>2. CountCharged
      BY ChargedFinite DEF Init, CountCharged
    <2> QED
      BY <2>1, <2>2
  <1>2. /\ TypeOK /\ TypeOK' /\ Submitted /\ Backed /\ Unique /\ CountCharged
        /\ [Next]_vars
        => (Unique /\ CountCharged)'
    <2> SUFFICES ASSUME TypeOK, TypeOK', Submitted, Backed, Unique, CountCharged,
                        [Next]_vars
                 PROVE  Unique' /\ CountCharged'
      OBVIOUS
    <2>1. CASE UNCHANGED vars
      <3>1. UNCHANGED <<updateQueue, running, taskCount, worker>>
        BY <2>1 DEF vars, queueStates
      <3> QED
        BY <3>1, LocalStepCount
    <2> QED
      BY <2>1, EventLoopCount, WorkerCount DEF Next, Backed
  <1> QED
    BY <1>1, <1>2, TypeCorrect, SubmittedInvariant, BackedInvariant, PTL DEF Spec

(* An instance is never charged for more tasks than it has outstanding, for  *)
(* any number of tasks and instances and whatever is lost, repeated, left    *)
(* unpredicted or reset, as long as no task id is submitted twice.           *)
THEOREM CountsBacked ==
    ASSUME MaxAttempts <= 1
    PROVE  Spec => []CountBacked
  <1>1. TypeOK /\ CountCharged => CountBacked
    <2> SUFFICES ASSUME TypeOK, CountCharged, NEW i \in Instances
                 PROVE  taskCount[i] <= Cardinality(Outstanding(i))
      BY DEF CountBacked
    <2>1. Charged(i) \subseteq Outstanding(i) /\ Outstanding(i) \subseteq Tasks
      BY DEF Charged, Outstanding
    <2>2. IsFiniteSet(Outstanding(i)) /\ Cardinality(Outstanding(i)) \in Nat
      BY <2>1, CoreAssumption, FS_Subset, FS_CardinalityType DEF CoreAssumption
    <2>3. Cardinality(Charged(i)) <= Cardinality(Outstanding(i))
      BY <2>1, <2>2, FS_Subset
    <2> QED
      BY <2>2, <2>3, ChargedFinite DEF CountCharged, TypeOK
  <1> QED
    BY <1>1, CountInvariant, TypeCorrect, PTL
=============================================================================
