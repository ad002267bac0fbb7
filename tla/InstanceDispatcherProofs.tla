---------------------- MODULE InstanceDispatcherProofs ----------------------
(***************************************************************************)
(* Proofs about the dispatcher: its types and counters, that a running       *)
(* dispatcher has a worker, that a success was delivered, and the bound on   *)
(* the copies of a task.  They hold for any number of restarts, of tasks,    *)
(* of retries and of connections.                                            *)
(***************************************************************************)
EXTENDS InstanceDispatcher, FiniteSetTheorems, SequenceTheorems, TLAPS

(* Where a worker can be; where it holds a task; the ends; the tasks in line. *)
Places == {"unstarted", "begin", "open", "opening", "loop", "connect", "connecting",
           "get", "attempt", "awaiting", "http", "exited"}
Dispatching == {"attempt", "awaiting", "http"}
Results == {"success", "failure"}
Queued == {queue[k] : k \in 1..Len(queue)}

(* The types, in parts that are preserved one after another.                 *)
ManagerTypes ==
    /\ managing \in BOOLEAN /\ running \in BOOLEAN /\ stopping \in BOOLEAN
    /\ listed \in {"not yet", "listed", "gone"}
    /\ stopper \in {"idle", "join"} /\ started \in 0..MaxStarts
    /\ place \in [Workers -> Places]

LoopTypes ==
    /\ loop \in 0..MaxStarts /\ closed \subseteq Workers
    /\ using \in [Workers -> 0..MaxStarts]

SocketTypes ==
    /\ up \in Seq(BOOLEAN) /\ sent \in Seq(Seq(Tasks)) /\ acks \in Seq(Seq(Tasks))
    /\ Len(sent) = Opened /\ Len(acks) = Opened
    /\ connected \in BOOLEAN /\ websocket \in 0..Opened
    /\ request \in [Workers -> 0..Opened]
    /\ \A w \in Workers : place[w] = "awaiting" => request[w] \in Connections
    /\ delivered \in [Tasks -> Nat]

TaskTypes ==
    /\ queue \in Seq(Tasks) /\ Len(queue) <= MaxQueue
    /\ task \in [Workers -> Tasks \cup {NoTask}]
    /\ retries \in [Tasks -> 0..(MaxRetries + 1)]
    /\ outcome \in [Tasks -> {"new", "accepted", "refused", "success", "failure"}]

(* The workers whose loops may exist.                                        *)
Begun == {w \in Workers : place[w] \notin {"unstarted", "begin"}}

(* While the dispatcher runs, no stop is under way, and a closed loop is     *)
(* about to be replaced by the last thread, which has yet to begin: this is  *)
(* why the workers cannot all end on a loop that they cannot run.            *)
WorkersInv ==
    /\ running => ~stopping /\ stopper = "idle" /\ started # 0
    /\ \A w \in Workers : w > started => place[w] = "unstarted"
    /\ loop # NoLoop => loop \in Begun
    /\ closed \subseteq Begun
    /\ running /\ loop \in closed => place[started] = "begin"
    /\ running => \E w \in Workers : Alive(w)

(* An accepted task is in one place: in line once, before any attempt, or    *)
(* with one worker, with a retry to spend.  So one callback ends it.         *)
QueuedInv ==
    /\ \A k \in 1..Len(queue) : outcome[queue[k]] = "accepted" /\ retries[queue[k]] = 0
    /\ \A j, k \in 1..Len(queue) : j # k => queue[j] # queue[k]

HoldersInv ==
    /\ \A w \in Workers : place[w] \in Dispatching =>
          /\ task[w] \in Tasks /\ task[w] \notin Queued
          /\ outcome[task[w]] = "accepted" /\ retries[task[w]] <= MaxRetries
    /\ \A v, w \in Workers :
          place[v] \in Dispatching /\ place[w] \in Dispatching /\ v # w => task[v] # task[w]

(* A task that was never submitted was never tried.                          *)
NewInv == \A t \in Tasks : outcome[t] = "new" => retries[t] = 0

(* The counters count the callbacks.                                         *)
CountInv ==
    /\ stats \in [Results -> Nat]
    /\ \A end \in Results : stats[end] = Cardinality({t \in Tasks : outcome[t] = end})

HeldInv == QueuedInv /\ HoldersInv /\ NewInv /\ CountInv

(* What is acknowledged was delivered, whoever reads the acknowledgement.    *)
AcksInv ==
    /\ \A c \in Connections : \A k \in 1..Len(acks[c]) : delivered[acks[c][k]] > 0
    /\ SuccessDelivered

(* The copies of a task on their way, by connection and position.            *)
InFlight(t) ==
    {p \in Connections \X Nat : p[2] \in 1..Len(sent[p[1]]) /\ sent[p[1]][p[2]] = t}

(* A worker has sent the task in this attempt, or is about to over HTTP.     *)
Tried(t) == \E w \in Workers : place[w] \in {"awaiting", "http"} /\ task[w] = t

(* Two copies for each attempt that ended, and for the one under way as many *)
(* as it can have sent before it goes over HTTP.                             *)
Budget(t) ==
    2 * retries[t] + (IF outcome[t] = "success" THEN 2 ELSE IF Tried(t) THEN 1 ELSE 0)

(* The copies received and on their way stay within the budget.              *)
CopiesInv ==
    \A t \in Tasks : IsFiniteSet(InFlight(t))
                     /\ delivered[t] + Cardinality(InFlight(t)) <= Budget(t)

-----------------------------------------------------------------------------
(* The bounds are numbers, and the tasks finitely many.                      *)
LEMMA Limits ==
    /\ MaxStarts \in Nat /\ MaxQueue \in Nat /\ MaxRetries \in Nat /\ MaxConnections \in Nat
    /\ IsFiniteSet(Tasks)
BY DispatcherAssumption

(* A step of a worker moves it, and concerns the manager in nothing else.    *)
LEMMA WorkerMoves ==
    ASSUME NEW w \in Workers, WorkerLoop(w)
    PROVE  /\ \E p \in Places \ {"unstarted", "begin"} : place' = [place EXCEPT ![w] = p]
           /\ UNCHANGED managerVars
<1> USE DEF Go, Places
<1>1. CASE Begin(w)
  BY <1>1 DEF Begin
<1>2. CASE RunConnect(w)
  BY <1>2 DEF RunConnect
<1>3. CASE Connect(w)
  BY <1>3 DEF Connect, EndConnect
<1>4. CASE ConnectFails(w)
  BY <1>4 DEF ConnectFails, EndConnect
<1>5. CASE LoopTop(w)
  BY <1>5 DEF LoopTop, Leave
<1>6. CASE GetTask(w)
  BY <1>6 DEF GetTask
<1>7. CASE Attempt(w)
  BY <1>7 DEF Attempt, Failed, Continue, Finish, SendTask
<1>8. CASE ReceiveAck(w)
  BY <1>8 DEF ReceiveAck, Continue, Finish
<1>9. CASE AckTimeout(w) \/ AckLost(w)
  BY <1>9 DEF AckTimeout, AckLost
<1>10. ASSUME NEW arrives \in BOOLEAN, EnqueueHttp(w, arrives)
       PROVE  /\ \E p \in Places \ {"unstarted", "begin"} : place' = [place EXCEPT ![w] = p]
              /\ UNCHANGED managerVars
  BY <1>10 DEF EnqueueHttp, HttpFailure, Failed, Continue, Finish
<1>11. QED
  BY <1>1, <1>2, <1>3, <1>4, <1>5, <1>6, <1>7, <1>8, <1>9, <1>10 DEF WorkerLoop

(* A step of the manager starts at most one worker, and leaves the loops,    *)
(* but for the one it closes, and the network alone.                         *)
LEMMA ManagerMoves ==
    ASSUME Manager
    PROVE  /\ UNCHANGED <<loop, using, request, netVars, task, retries, stats>>
           /\ StartThread \/ UNCHANGED <<started, place>>
           /\ UNCHANGED <<closed, socketVars>> \/ EndStop
           /\ UNCHANGED <<queue, outcome>> \/ \E t \in Tasks : SubmitTask(t)
BY DEF Manager, CreateDispatcher, StartAll, StopAll, RemoveDispatcher, EndStop, SubmitTask,
       NoStart, loopVars, taskVars, managerVars

(* The network and the instance touch nothing of the dispatcher's own.       *)
LEMMA EnvironmentMoves ==
    ASSUME Environment
    PROVE  UNCHANGED <<managerVars, loopVars, socketVars, request, taskVars, place>>
BY DEF Environment, InstanceReceives, Drop

(* The types of the manager's variables.                                     *)
LEMMA ManagerTyped ==
    ASSUME ManagerTypes, [Next]_vars
    PROVE  ManagerTypes'
<1>1. CASE Manager
  <2>1. /\ managing' \in BOOLEAN /\ running' \in BOOLEAN /\ stopping' \in BOOLEAN
        /\ listed' \in {"not yet", "listed", "gone"} /\ stopper' \in {"idle", "join"}
        /\ started' \in 0..MaxStarts
    <3>1. /\ managing' \in {managing, TRUE, FALSE} /\ stopper' \in {stopper, "idle", "join"}
          /\ listed' \in {listed, "listed", "gone"} /\ running' \in {running, TRUE, FALSE}
          /\ stopping' \in {stopping, TRUE, FALSE}
      BY <1>1 DEF Manager, CreateDispatcher, StartAll, StopAll, RemoveDispatcher, EndStop,
                  SubmitTask, NoStart, StartThread, BeginStop, managerVars
    <3>2. started' \in 0..MaxStarts
      <4>1. started \in 0..MaxStarts
        BY DEF ManagerTypes
      <4>2. started' = started \/ (started < MaxStarts /\ started' = started + 1)
        BY <1>1, ManagerMoves DEF StartThread
      <4>3. QED
        BY <4>1, <4>2, Limits
    <3>3. QED
      BY <3>1, <3>2 DEF ManagerTypes
  <2>2. place' \in [Workers -> Places]
    <3>1. CASE StartThread
      BY <3>1, Limits DEF ManagerTypes, StartThread, Places
    <3>2. CASE UNCHANGED place
      BY <3>2 DEF ManagerTypes
    <3>3. QED
      BY <1>1, <3>1, <3>2, ManagerMoves
  <2>3. QED
    BY <2>1, <2>2 DEF ManagerTypes
<1>2. ASSUME NEW w \in Workers, WorkerLoop(w)
      PROVE  ManagerTypes'
  BY <1>2, WorkerMoves DEF ManagerTypes, managerVars
<1>3. CASE Environment
  BY <1>3, EnvironmentMoves DEF ManagerTypes, managerVars
<1>4. CASE UNCHANGED vars
  BY <1>4 DEF ManagerTypes, vars, managerVars
<1>5. QED
  BY <1>1, <1>2, <1>3, <1>4 DEF Next

(* The types of the loops.                                                   *)
LEMMA LoopsTyped ==
    ASSUME LoopTypes, [Next]_vars
    PROVE  LoopTypes'
<1>1. CASE Manager
  <2>1. CASE EndStop
    <3>1. closed' \in {closed, closed \cup {loop}} /\ (loop = NoLoop => closed' = closed)
          /\ UNCHANGED <<loop, using>>
      BY <2>1 DEF EndStop
    <3>2. loop # NoLoop => loop \in Workers
      BY Limits DEF LoopTypes, NoLoop, Workers
    <3>3. QED
      BY <3>1, <3>2 DEF LoopTypes
  <2>2. CASE UNCHANGED closed
    BY <1>1, <2>2, ManagerMoves DEF LoopTypes
  <2>3. QED
    BY <1>1, <2>1, <2>2, ManagerMoves
<1>2. ASSUME NEW w \in Workers, WorkerLoop(w)
      PROVE  LoopTypes'
  <2>1. /\ loop' \in {loop, w} /\ UNCHANGED closed
        /\ \E l \in {loop, NoLoop} : using' \in {using, [using EXCEPT ![w] = l]}
    <3>1. CASE \/ Begin(w) \/ RunConnect(w) \/ Connect(w) \/ ConnectFails(w)
               \/ LoopTop(w) \/ GetTask(w)
      BY <3>1 DEF Begin, RunConnect, Connect, ConnectFails, EndConnect, OffLoop, LoopTop, GetTask,
                  loopVars
    <3>2. CASE Attempt(w) \/ ReceiveAck(w) \/ AckTimeout(w) \/ AckLost(w)
      BY <3>2 DEF Attempt, SendTask, ReceiveAck, AckTimeout, AckLost, OffLoop
    <3>3. CASE \E arrives \in BOOLEAN : EnqueueHttp(w, arrives)
      BY <3>3 DEF EnqueueHttp, loopVars
    <3>4. QED
      BY <1>2, <3>1, <3>2, <3>3 DEF WorkerLoop
  <2>2. w \in 0..MaxStarts /\ NoLoop \in 0..MaxStarts
    BY Limits DEF Workers, NoLoop
  <2>3. QED
    BY <2>1, <2>2 DEF LoopTypes
<1>3. CASE Environment
  BY <1>3, EnvironmentMoves DEF LoopTypes, loopVars
<1>4. CASE UNCHANGED vars
  BY <1>4 DEF LoopTypes, vars, loopVars
<1>5. QED
  BY <1>1, <1>2, <1>3, <1>4 DEF Next

-----------------------------------------------------------------------------
(* A running dispatcher has a worker.                                        *)
LEMMA WorkerNumbers ==
    \A n : n \in Workers <=> n \in Nat /\ n > 0 /\ n <= MaxStarts
BY Limits DEF Workers

(* The threads that are started stay within the bound.                       *)
LEMMA StartsCounted == ManagerTypes => started \in Nat /\ started <= MaxStarts
<1>1. ManagerTypes => started \in 0..MaxStarts
  BY DEF ManagerTypes
<1>2. QED
  BY <1>1, Limits

(* No worker has started at first.                                           *)
LEMMA WorkersInit == Init => WorkersInv
BY WorkerNumbers DEF Init, WorkersInv, NoLoop

(* The stop clears the flag; only afterwards is the lock free for a start.   *)
LEMMA ManagerKeepsWorkers ==
    ASSUME ManagerTypes, LoopTypes, WorkersInv, Manager
    PROVE  WorkersInv'
<1>1. CASE StartThread
  <2> DEFINE n == started + 1
  <2>1. /\ running' = TRUE /\ stopping' = FALSE /\ started' = n
        /\ started < MaxStarts /\ place' = [place EXCEPT ![n] = "begin"]
    BY <1>1 DEF StartThread
  <2>2. started \in Nat /\ MaxStarts \in Nat
    BY StartsCounted, Limits
  <2>3. n \in Nat /\ n > 0 /\ n <= MaxStarts /\ n > started
    BY <2>1, <2>2
  <2>4. n \in Workers
    BY <2>3, WorkerNumbers
  <2> HIDE DEF n
  <2>5. \A w \in Workers : place'[w] = IF w = n THEN "begin" ELSE place[w]
    BY <2>1 DEF ManagerTypes
  <2>6. place[n] = "unstarted"
    BY <2>3, <2>4 DEF WorkersInv
  <2>7. UNCHANGED <<loop, closed>> /\ stopper' = "idle"
    <3>1. CASE CreateDispatcher \/ StartAll
      BY <3>1 DEF CreateDispatcher, StartAll, Unlocked, loopVars
    <3>2. CASE StopAll \/ RemoveDispatcher \/ EndStop \/ \E t \in Tasks : SubmitTask(t)
      <4>1. UNCHANGED started
        BY <3>2 DEF StopAll, RemoveDispatcher, EndStop, SubmitTask, managerVars
      <4>2. QED
        BY <2>1, <2>2, <2>3, <4>1
    <3>3. QED
      BY <3>1, <3>2 DEF Manager
  <2>8. Begun' = Begun
    BY <2>5, <2>6 DEF Begun
  <2>9. \A w \in Workers : w > n => place'[w] = "unstarted"
    <3>1. ASSUME NEW w \in Workers, w > n PROVE w # n /\ w > started
      BY <2>2, <2>3, <3>1, WorkerNumbers DEF n
    <3>2. QED
      BY <2>5, <3>1 DEF WorkersInv
  <2>10. place'[n] = "begin" /\ \E w \in Workers : Alive(w)'
    BY <2>4, <2>5 DEF Alive
  <2>11. n # 0
    BY <2>3
  <2>12. QED
    BY <2>1, <2>7, <2>8, <2>9, <2>10, <2>11 DEF WorkersInv
<1>2. CASE UNCHANGED <<started, place>>
  <2>0. Begun' = Begun
    BY <1>2 DEF Begun
  <2>1. CASE EndStop
    <3>1. /\ ~running /\ ~running' /\ UNCHANGED loop
          /\ closed' \in {closed, closed \cup {loop}} /\ (loop = NoLoop => closed' = closed)
      BY <2>1 DEF EndStop, WorkersInv
    <3>2. QED
      BY <1>2, <2>0, <3>1 DEF WorkersInv
  <2>2. CASE UNCHANGED <<closed, loop>> /\ ~EndStop
    <3>1. \/ UNCHANGED <<running, stopping, stopper>>
          \/ running' = FALSE
          \/ StartThread
      BY <2>2 DEF Manager, CreateDispatcher, StartAll, StopAll, RemoveDispatcher, SubmitTask,
                  BeginStop, NoStart, managerVars
    <3>2. CASE StartThread
      BY <1>1, <3>2
    <3>3. CASE UNCHANGED <<running, stopping, stopper>> \/ running' = FALSE
      BY <1>2, <2>0, <2>2, <3>3 DEF WorkersInv, Alive
    <3>4. QED
      BY <3>1, <3>2, <3>3
  <2>3. CASE EndStop \/ UNCHANGED <<closed, socketVars>>
    BY <2>1, <2>2, <2>3, ManagerMoves
  <2>4. QED
    BY <2>3, ManagerMoves
<1>3. QED
  BY <1>1, <1>2, ManagerMoves

(* A worker that begins makes a loop of its own.  One that ends because it   *)
(* could not run the loop leaves another one that runs it, or one that is    *)
(* about to begin.                                                           *)
LEMMA WorkerKeepsWorkers ==
    ASSUME ManagerTypes, LoopTypes, WorkersInv, NEW w \in Workers, WorkerLoop(w)
    PROVE  WorkersInv'
<1>1. PICK p \in Places \ {"unstarted", "begin"} : place' = [place EXCEPT ![w] = p]
  BY WorkerMoves
<1>2. UNCHANGED <<running, stopping, stopper, started>>
  BY WorkerMoves DEF managerVars
<1>3. \A v \in Workers : place'[v] = IF v = w THEN p ELSE place[v]
  BY <1>1 DEF ManagerTypes
<1>4. place[w] # "unstarted" /\ (place[w] = "begin" => Begin(w))
  BY DEF WorkerLoop, Begin, RunConnect, Connect, ConnectFails, EndConnect, LoopTop, GetTask,
         Attempt, ReceiveAck, AckTimeout, AckLost, EnqueueHttp
<1>5. UNCHANGED closed /\ ((UNCHANGED loop /\ ~Begin(w)) \/ (Begin(w) /\ loop' = w))
  <2>1. CASE Begin(w)
    BY <2>1 DEF Begin
  <2>2. CASE RunConnect(w) \/ Connect(w) \/ ConnectFails(w) \/ LoopTop(w) \/ GetTask(w)
    BY <2>2 DEF RunConnect, Connect, ConnectFails, EndConnect, OffLoop, LoopTop, GetTask, loopVars,
                Begin
  <2>3. CASE Attempt(w) \/ ReceiveAck(w) \/ AckTimeout(w) \/ AckLost(w)
    BY <2>3 DEF Attempt, ReceiveAck, AckTimeout, AckLost, OffLoop, Begin
  <2>4. CASE \E arrives \in BOOLEAN : EnqueueHttp(w, arrives)
    BY <2>4 DEF EnqueueHttp, loopVars, Begin
  <2>5. QED
    BY <2>1, <2>2, <2>3, <2>4 DEF WorkerLoop
<1>6. p # "exited" \/ RunConnect(w) \/ LoopTop(w)
  <2>1. ASSUME p = "exited" PROVE place'[w] = "exited"
    BY <1>3, <2>1
  <2>2. CASE Begin(w) \/ Connect(w) \/ ConnectFails(w) \/ GetTask(w)
    BY <1>1, <2>1, <2>2 DEF Begin, Connect, ConnectFails, EndConnect, GetTask, Go, ManagerTypes
  <2>3. CASE Attempt(w)
    BY <1>1, <2>1, <2>3 DEF Attempt, SendTask, Failed, Continue, Finish, Go, ManagerTypes
  <2>4. CASE ReceiveAck(w) \/ AckTimeout(w) \/ AckLost(w)
    BY <1>1, <2>1, <2>4 DEF ReceiveAck, AckTimeout, AckLost, Continue, Finish, Go, ManagerTypes
  <2>5. CASE \E arrives \in BOOLEAN : EnqueueHttp(w, arrives)
    BY <1>1, <2>1, <2>5 DEF EnqueueHttp, HttpFailure, Failed, Continue, Finish, Go, ManagerTypes
  <2>6. QED
    BY <2>2, <2>3, <2>4, <2>5 DEF WorkerLoop
<1>7. Begun' = Begun \cup {w}
  BY <1>3 DEF Begun
<1>8. ASSUME NEW v \in Workers, v > started
      PROVE  place'[v] = "unstarted"
  <2>1. place[v] = "unstarted"
    BY <1>8 DEF WorkersInv
  <2>2. QED
    BY <1>3, <1>4, <2>1
<1>9. loop' # NoLoop => loop' \in Begun'
  BY <1>5, <1>7 DEF WorkersInv
<1>10. closed' \subseteq Begun'
  BY <1>5, <1>7 DEF WorkersInv
<1>11. ASSUME running, loop' \in closed
       PROVE  loop' = loop /\ place'[started] = "begin" /\ started \in Workers
  <2>1. loop' = loop /\ ~Begin(w)
    <3>1. Begin(w) => w \notin Begun
      BY DEF Begin, Begun
    <3>2. QED
      BY <1>5, <1>11, <3>1 DEF WorkersInv
  <2>2. place[started] = "begin" /\ started # 0
    BY <1>11, <2>1 DEF WorkersInv
  <2>3. started \in Workers
    <3>1. started \in Nat /\ started > 0 /\ started <= MaxStarts
      BY <2>2, StartsCounted
    <3>2. QED
      BY <3>1, WorkerNumbers
  <2>4. started # w
    BY <1>4, <2>1, <2>2
  <2>5. QED
    BY <1>3, <2>1, <2>2, <2>3, <2>4
<1>12. ASSUME running
       PROVE  \E v \in Workers : Alive(v)'
  <2>1. CASE p # "exited"
    <3>1. place'[w] \notin {"unstarted", "exited"}
      BY <1>3, <2>1
    <3>2. QED
      BY <3>1 DEF Alive
  <2>2. CASE p = "exited"
    <3>1. ~LoopTop(w)
      <4>1. ASSUME LoopTop(w) PROVE place' = [place EXCEPT ![w] = "get"]
                                    \/ place' = [place EXCEPT ![w] = "connect"]
        BY <1>12, <4>1 DEF LoopTop, WorkersInv, Go
      <4>2. place'[w] = "exited"
        BY <1>3, <2>2
      <4>3. QED
        BY <4>1, <4>2 DEF ManagerTypes
    <3>2. RunConnect(w)
      BY <1>6, <2>2, <3>1
    <3>3. ~Runnable /\ place[w] \notin OnLoop /\ UNCHANGED loop
      <4>1. place'[w] = "exited"
        BY <1>3, <2>2
      <4>2. QED
        BY <3>2, <4>1 DEF RunConnect, Go, ManagerTypes, OnLoop
    <3>4. CASE loop \in closed
      <4>1. started \in Workers /\ place'[started] = "begin"
        BY <1>11, <1>12, <3>3, <3>4
      <4>2. QED
        BY <4>1 DEF Alive
    <3>5. CASE IsRun(loop)
      <4>1. PICK v \in Workers : place[v] \in OnLoop
        BY <3>5 DEF IsRun
      <4>2. place'[v] = place[v]
        BY <1>3, <3>3, <4>1
      <4>3. QED
        BY <4>1, <4>2 DEF Alive, OnLoop
    <3>6. QED
      BY <3>3, <3>4, <3>5 DEF Runnable
  <2>3. QED
    BY <2>1, <2>2
<1>13. running' => ~stopping' /\ stopper' = "idle" /\ started' # 0
  BY <1>2 DEF WorkersInv
<1>14. running' /\ loop' \in closed' => place'[started'] = "begin"
  BY <1>2, <1>5, <1>11
<1>15. running' => \E v \in Workers : Alive(v)'
  BY <1>2, <1>12
<1>16. QED
  BY <1>2, <1>8, <1>9, <1>10, <1>13, <1>14, <1>15 DEF WorkersInv

(* Every step keeps the invariant of the workers.                            *)
LEMMA WorkersStep == ManagerTypes /\ LoopTypes /\ WorkersInv /\ [Next]_vars => WorkersInv'
<1> SUFFICES ASSUME ManagerTypes, LoopTypes, WorkersInv, [Next]_vars PROVE WorkersInv'
  OBVIOUS
<1>1. CASE Manager
  BY <1>1, ManagerKeepsWorkers
<1>2. ASSUME NEW w \in Workers, WorkerLoop(w) PROVE WorkersInv'
  BY <1>2, WorkerKeepsWorkers
<1>3. CASE Environment \/ UNCHANGED vars
  BY <1>3, EnvironmentMoves DEF WorkersInv, Begun, Alive, vars, managerVars, loopVars
<1>4. QED
  BY <1>1, <1>2, <1>3 DEF Next

(* The types hold at first.                                                  *)
LEMMA ManagerInit == Init => ManagerTypes /\ LoopTypes
<1>1. 0 \in 0..MaxStarts
  BY Limits
<1>2. QED
  BY <1>1, ZenonT(30) DEF Init, ManagerTypes, LoopTypes, Places, NoLoop

-----------------------------------------------------------------------------
(* What a step of a worker does to the tasks: nothing, or it takes one, sends *)
(* it again, or ends it.                                                     *)
Aside(w) == place[w] \notin Dispatching /\ place'[w] \notin Dispatching /\ UNCHANGED taskVars

Take(w) ==
    /\ place[w] = "get" /\ place'[w] = "attempt" /\ queue # <<>>
    /\ task' = [task EXCEPT ![w] = Head(queue)] /\ queue' = Tail(queue)
    /\ UNCHANGED <<retries, outcome, stats>>

Carry(w) ==
    /\ place[w] \in Dispatching /\ place'[w] \in Dispatching
    /\ UNCHANGED <<queue, task, outcome, stats>>
    /\ \/ UNCHANGED retries
       \/ /\ retries[task[w]] < MaxRetries
          /\ retries' = [retries EXCEPT ![task[w]] = @ + 1]

End(w, result) ==
    /\ place[w] \in Dispatching /\ place'[w] = "loop"
    /\ UNCHANGED queue
    /\ task' = [task EXCEPT ![w] = NoTask]
    /\ outcome' = [outcome EXCEPT ![task[w]] = result]
    /\ stats' = [stats EXCEPT ![result] = @ + 1]
    /\ UNCHANGED retries \/ retries' = [retries EXCEPT ![task[w]] = @ + 1]

(* A step of a worker is one of these four.                                  *)
LEMMA WorkerCases ==
    ASSUME ManagerTypes, NEW w \in Workers, WorkerLoop(w)
    PROVE  Aside(w) \/ Take(w) \/ Carry(w) \/ \E result \in Results : End(w, result)
<1>0. \A p : place' = [place EXCEPT ![w] = p] => place'[w] = p
  BY DEF ManagerTypes
<1> USE DEF Go, Dispatching, taskVars
<1>1. CASE Begin(w) \/ RunConnect(w) \/ Connect(w) \/ ConnectFails(w)
  BY <1>0, <1>1 DEF Begin, RunConnect, Connect, ConnectFails, EndConnect, Aside
<1>2. CASE LoopTop(w)
  BY <1>0, <1>2 DEF LoopTop, Leave, Aside
<1>3. CASE GetTask(w)
  BY <1>0, <1>3 DEF GetTask, Aside, Take
<1>4. ASSUME Failed(w), place[w] \in Dispatching, UNCHANGED queue
      PROVE  Carry(w) \/ \E result \in Results : End(w, result)
  BY <1>0, <1>4 DEF Failed, Continue, Finish, Carry, End, Results
<1>5. ASSUME Finish(w, "success"), place[w] \in Dispatching, UNCHANGED <<queue, retries>>
      PROVE  \E result \in Results : End(w, result)
  BY <1>0, <1>5 DEF Finish, End, Results
<1>6. CASE Attempt(w)
  <2>1. CASE connected /\ ~Runnable
    BY <1>4, <1>6, <2>1 DEF Attempt
  <2>2. CASE connected /\ Runnable
    BY <1>0, <1>6, <2>2 DEF Attempt, SendTask, Carry
  <2>3. CASE ~connected
    BY <1>0, <1>6, <2>3 DEF Attempt, Carry
  <2>4. QED
    BY <2>1, <2>2, <2>3
<1>7. CASE ReceiveAck(w)
  BY <1>0, <1>5, <1>7 DEF ReceiveAck, Continue, Carry
<1>8. CASE AckTimeout(w) \/ AckLost(w)
  BY <1>0, <1>8 DEF AckTimeout, AckLost, Carry
<1>9. CASE \E arrives \in BOOLEAN : EnqueueHttp(w, arrives)
  BY <1>4, <1>5, <1>9 DEF EnqueueHttp, HttpFailure
<1>10. QED
  BY <1>1, <1>2, <1>3, <1>6, <1>7, <1>8, <1>9 DEF WorkerLoop

(* The others stay where they are.                                           *)
LEMMA OthersStay ==
    ASSUME ManagerTypes, NEW w \in Workers, WorkerLoop(w)
    PROVE  \A v \in Workers : v # w => place'[v] = place[v]
<1>1. PICK p \in Places : place' = [place EXCEPT ![w] = p]
  BY WorkerMoves
<1>2. QED
  BY <1>1 DEF ManagerTypes

(* A thread that starts has taken no task.                                   *)
LEMMA StartsAside ==
    ASSUME ManagerTypes, WorkersInv, Manager, NEW w \in Workers
    PROVE  \/ place'[w] = place[w]
           \/ place[w] = "unstarted" /\ place'[w] = "begin"
<1>1. CASE StartThread
  <2>1. place' = [place EXCEPT ![started + 1] = "begin"]
    BY <1>1 DEF StartThread
  <2>2. w = started + 1 => w > started
    BY StartsCounted
  <2>3. QED
    BY <2>1, <2>2 DEF ManagerTypes, WorkersInv
<1>2. CASE UNCHANGED place
  BY <1>2
<1>3. QED
  BY <1>1, <1>2, ManagerMoves

(* The first task of the queue, and the others, which move up by one.        *)
LEMMA QueueTail ==
    ASSUME TaskTypes, queue # <<>>
    PROVE  /\ Head(queue) \in Tasks /\ Head(queue) = queue[1]
           /\ Len(queue) \in Nat /\ 1 \in 1..Len(queue)
           /\ Tail(queue) \in Seq(Tasks) /\ Len(Tail(queue)) = Len(queue) - 1
           /\ \A k \in 1..Len(Tail(queue)) :
                 k + 1 \in 1..Len(queue) /\ k + 1 # 1 /\ Tail(queue)[k] = queue[k + 1]
<1>1. queue \in Seq(Tasks)
  BY DEF TaskTypes
<1>2. QED
  BY <1>1, HeadTailProperties, LenProperties

(* The types of what is said of the tasks.                                   *)
LEMMA TasksTyped ==
    ASSUME ManagerTypes, WorkersInv, TaskTypes, HeldInv, [Next]_vars
    PROVE  TaskTypes'
<1>1. CASE Manager
  <2>1. ASSUME NEW t \in Tasks, SubmitTask(t) PROVE TaskTypes'
    <3>1. CASE Len(queue) < MaxQueue
      <4>1. queue' = Append(queue, t) /\ outcome' = [outcome EXCEPT ![t] = "accepted"]
            /\ UNCHANGED <<task, retries>>
        BY <2>1, <3>1 DEF SubmitTask
      <4>2. queue \in Seq(Tasks) /\ Len(queue) \in Nat
        BY LenProperties DEF TaskTypes
      <4>3. queue' \in Seq(Tasks) /\ Len(queue') = Len(queue) + 1
        BY <4>1, <4>2, AppendProperties
      <4>4. Len(queue') <= MaxQueue
        BY <3>1, <4>2, <4>3, Limits
      <4>5. QED
        BY <4>1, <4>3, <4>4 DEF TaskTypes
    <3>2. CASE ~(Len(queue) < MaxQueue)
      BY <2>1, <3>2 DEF SubmitTask, TaskTypes
    <3>3. QED
      BY <3>1, <3>2
  <2>2. CASE UNCHANGED <<queue, outcome>>
    BY <1>1, <2>2, ManagerMoves DEF TaskTypes
  <2>3. QED
    BY <1>1, <2>1, <2>2, ManagerMoves
<1>2. ASSUME NEW w \in Workers, WorkerLoop(w)
      PROVE  TaskTypes'
  <2>1. CASE Aside(w)
    BY <2>1 DEF Aside, TaskTypes, taskVars
  <2>2. CASE Take(w)
    <3>1. Head(queue) \in Tasks /\ Tail(queue) \in Seq(Tasks) /\ Len(Tail(queue)) = Len(queue) - 1
          /\ Len(queue) \in Nat
      BY <2>2, QueueTail DEF Take
    <3>2. Len(queue') <= MaxQueue
      BY <2>2, <3>1, Limits DEF Take, TaskTypes
    <3>3. QED
      BY <2>2, <3>1, <3>2 DEF Take, TaskTypes
  <2>3. CASE Carry(w) \/ \E result \in Results : End(w, result)
    <3>1. place[w] \in Dispatching
      BY <2>3 DEF Carry, End
    <3>2. task[w] \in Tasks /\ retries[task[w]] <= MaxRetries
      BY <3>1 DEF HeldInv, HoldersInv
    <3>3. retries[task[w]] \in 0..(MaxRetries + 1)
      BY <3>2 DEF TaskTypes
    <3>4. retries[task[w]] + 1 \in 0..(MaxRetries + 1)
      BY <3>2, <3>3, Limits
    <3>5. retries' = retries \/ retries' = [retries EXCEPT ![task[w]] = retries[task[w]] + 1]
      BY <2>3 DEF Carry, End
    <3>6. retries' \in [Tasks -> 0..(MaxRetries + 1)]
      BY <3>4, <3>5 DEF TaskTypes
    <3>7. queue' = queue /\ task' \in {task, [task EXCEPT ![w] = NoTask]}
          /\ outcome' \in {outcome, [outcome EXCEPT ![task[w]] = "success"],
                           [outcome EXCEPT ![task[w]] = "failure"]}
      BY <2>3 DEF Carry, End, Results
    <3>8. QED
      BY <3>6, <3>7 DEF TaskTypes
  <2>4. QED
    BY <1>2, <2>1, <2>2, <2>3, WorkerCases
<1>3. CASE Environment \/ UNCHANGED vars
  BY <1>3, EnvironmentMoves DEF TaskTypes, vars, taskVars
<1>4. QED
  BY <1>1, <1>2, <1>3 DEF Next

(* A task that gets its first result is counted under it, and under no other. *)
LEMMA Ended ==
    ASSUME TaskTypes, NEW t \in Tasks, outcome[t] \notin Results, NEW r,
           outcome' = [outcome EXCEPT ![t] = r], NEW end \in Results
    PROVE  Cardinality({u \in Tasks : outcome'[u] = end})
             = Cardinality({u \in Tasks : outcome[u] = end}) + IF r = end THEN 1 ELSE 0
<1> DEFINE S == {u \in Tasks : outcome[u] = end}
<1>1. \A u \in Tasks : outcome'[u] = IF u = t THEN r ELSE outcome[u]
  BY DEF TaskTypes
<1>2. IsFiniteSet(S) /\ t \notin S
  BY Limits, FS_Subset
<1>3. Cardinality(S) \in Nat
  BY <1>2, FS_CardinalityType
<1>4. CASE r = end
  <2>1. {u \in Tasks : outcome'[u] = end} = S \cup {t}
    BY <1>1, <1>4
  <2>2. Cardinality(S \cup {t}) = Cardinality(S) + 1
    BY <1>2, FS_AddElement
  <2>3. QED
    BY <1>4, <2>1, <2>2
<1>5. CASE r # end
  <2>1. {u \in Tasks : outcome'[u] = end} = S
    BY <1>1, <1>2, <1>5
  <2>2. QED
    BY <1>3, <1>5, <2>1
<1>6. QED
  BY <1>4, <1>5

(* A task that is submitted is new to the queue.                             *)
LEMMA SubmitHeld ==
    ASSUME ManagerTypes, TaskTypes, HeldInv, NEW t \in Tasks, SubmitTask(t)
    PROVE  HeldInv'
<1>1. outcome[t] = "new" /\ retries[t] = 0 /\ UNCHANGED <<task, retries, stats, place>>
  BY DEF SubmitTask, HeldInv, NewInv
<1>2. PICK r \in {"accepted", "refused"} :
        /\ outcome' = [outcome EXCEPT ![t] = r]
        /\ (r = "accepted" /\ queue' = Append(queue, t)) \/ queue' = queue
  BY DEF SubmitTask
<1>3. \A u \in Tasks : outcome'[u] = IF u = t THEN r ELSE outcome[u]
  BY <1>2 DEF TaskTypes
<1>4. \A k \in 1..Len(queue) : queue[k] \in Tasks /\ queue[k] # t
  <2>1. \A k \in 1..Len(queue) : queue[k] \in Tasks
    BY ElementOfSeq DEF TaskTypes
  <2>2. QED
    BY <1>1, <2>1 DEF HeldInv, QueuedInv
<1>5. CountInv'
  <2>1. outcome[t] \notin Results /\ \A end \in Results : r # end
    BY <1>1, <1>2 DEF Results
  <2>2. \A end \in Results : Cardinality({u \in Tasks : outcome'[u] = end})
                             = Cardinality({u \in Tasks : outcome[u] = end}) + 0
    BY <1>2, <2>1, Ended
  <2>3. \A end \in Results : stats[end] = stats[end] + 0
    BY DEF HeldInv, CountInv
  <2>4. QED
    BY <1>1, <2>2, <2>3 DEF HeldInv, CountInv
<1>6. NewInv'
  BY <1>1, <1>3 DEF HeldInv, NewInv
<1>7. Queued' = Queued \/ (r = "accepted" /\ Queued' = Queued \cup {t})
  <2>1. CASE queue' = queue
    BY <2>1 DEF Queued
  <2>2. CASE r = "accepted" /\ queue' = Append(queue, t)
    <3>1. /\ Len(queue') = Len(queue) + 1 /\ Len(queue) \in Nat
          /\ \A k \in 1..Len(queue) : queue'[k] = queue[k]
          /\ queue'[Len(queue) + 1] = t
      BY <2>2, AppendProperties, LenProperties DEF TaskTypes
    <3>2. 1..Len(queue') = (1..Len(queue)) \cup {Len(queue) + 1}
      BY <3>1
    <3>3. QED
      BY <2>2, <3>1, <3>2 DEF Queued
  <2>3. QED
    BY <1>2, <2>1, <2>2
<1>8. HoldersInv'
  <2>1. \A w \in Workers : place[w] \in Dispatching => task[w] # t
    BY <1>1 DEF HeldInv, HoldersInv
  <2>2. QED
    BY <1>1, <1>3, <1>7, <2>1 DEF HeldInv, HoldersInv
<1>9. QueuedInv'
  <2>1. CASE queue' = queue
    BY <1>1, <1>3, <1>4, <2>1 DEF HeldInv, QueuedInv
  <2>2. CASE r = "accepted" /\ queue' = Append(queue, t)
    <3>1. /\ Len(queue') = Len(queue) + 1 /\ Len(queue) \in Nat
          /\ \A k \in 1..Len(queue) : queue'[k] = queue[k]
          /\ queue'[Len(queue) + 1] = t
      BY <2>2, AppendProperties, LenProperties DEF TaskTypes
    <3>2. \A k \in 1..Len(queue') :
             k \in 1..Len(queue) \/ (k = Len(queue) + 1 /\ k \notin 1..Len(queue))
      BY <3>1
    <3>3. \A k \in 1..Len(queue') : outcome'[queue'[k]] = "accepted" /\ retries'[queue'[k]] = 0
      BY <1>1, <1>3, <1>4, <2>2, <3>1, <3>2 DEF HeldInv, QueuedInv
    <3>4. \A j, k \in 1..Len(queue') : j # k => queue'[j] # queue'[k]
      BY <1>4, <3>1, <3>2 DEF HeldInv, QueuedInv
    <3>5. QED
      BY <3>3, <3>4 DEF QueuedInv
  <2>3. QED
    BY <1>2, <2>1, <2>2
<1>10. QED
  BY <1>5, <1>6, <1>8, <1>9 DEF HeldInv

(* A worker that takes a task becomes the only one to hold it.               *)
LEMMA TakeHeld ==
    ASSUME ManagerTypes, TaskTypes, HeldInv, NEW w \in Workers, WorkerLoop(w), Take(w)
    PROVE  HeldInv'
<1> DEFINE t == Head(queue)
<1>1. /\ t \in Tasks /\ t = queue[1] /\ 1 \in 1..Len(queue)
      /\ queue' = Tail(queue)
      /\ \A k \in 1..Len(queue') :
            k + 1 \in 1..Len(queue) /\ k + 1 # 1 /\ queue'[k] = queue[k + 1]
  BY QueueTail DEF Take
<1>2. task'[w] = t /\ \A v \in Workers : v # w => task'[v] = task[v]
  BY DEF Take, TaskTypes
<1>3. /\ place'[w] = "attempt" /\ \A v \in Workers : v # w => place'[v] = place[v]
      /\ UNCHANGED <<retries, outcome, stats>>
  BY OthersStay DEF Take
<1> HIDE DEF t
<1>4. t \in Queued /\ t \notin Queued' /\ Queued' \subseteq Queued
  BY <1>1 DEF Queued, HeldInv, QueuedInv
<1>5. outcome[t] = "accepted" /\ retries[t] = 0
  BY <1>1 DEF HeldInv, QueuedInv
<1>6. 0 <= MaxRetries
  BY Limits
<1>7. QueuedInv'
  <2>1. \A k \in 1..Len(queue') : outcome'[queue'[k]] = "accepted" /\ retries'[queue'[k]] = 0
    BY <1>1, <1>3 DEF HeldInv, QueuedInv
  <2>2. ASSUME NEW j \in 1..Len(queue'), NEW k \in 1..Len(queue'), j # k
        PROVE  queue'[j] # queue'[k]
    <3>1. j + 1 # k + 1
      BY <2>2
    <3>2. QED
      BY <1>1, <3>1 DEF HeldInv, QueuedInv
  <2>3. QED
    BY <2>1, <2>2 DEF QueuedInv
<1>8. HoldersInv'
  <2>1. \A v \in Workers : v # w /\ place[v] \in Dispatching => task[v] # t
    BY <1>4 DEF HeldInv, HoldersInv
  <2>2. \A v \in Workers : place'[v] \in Dispatching =>
          /\ task'[v] \in Tasks /\ task'[v] \notin Queued'
          /\ outcome'[task'[v]] = "accepted" /\ retries'[task'[v]] <= MaxRetries
    BY <1>1, <1>2, <1>3, <1>4, <1>5, <1>6 DEF HeldInv, HoldersInv
  <2>3. \A u, v \in Workers :
          place'[u] \in Dispatching /\ place'[v] \in Dispatching /\ u # v => task'[u] # task'[v]
    BY <1>2, <1>3, <2>1 DEF HeldInv, HoldersInv
  <2>4. QED
    BY <2>2, <2>3 DEF HoldersInv
<1>9. NewInv' /\ CountInv'
  BY <1>3 DEF HeldInv, NewInv, CountInv
<1>10. QED
  BY <1>7, <1>8, <1>9 DEF HeldInv

(* A worker that sends its task again keeps it, within the retries.          *)
LEMMA CarryHeld ==
    ASSUME ManagerTypes, TaskTypes, HeldInv, NEW w \in Workers, WorkerLoop(w), Carry(w)
    PROVE  HeldInv'
<1> DEFINE t == task[w]
<1>1. /\ place[w] \in Dispatching /\ place'[w] \in Dispatching
      /\ \A v \in Workers : v # w => place'[v] = place[v]
      /\ UNCHANGED <<queue, task, outcome, stats>>
  BY OthersStay DEF Carry
<1>2. t \in Tasks /\ t \notin Queued /\ outcome[t] = "accepted" /\ retries[t] \in Nat
  <2>1. t \in Tasks /\ t \notin Queued /\ outcome[t] = "accepted"
    BY <1>1 DEF HeldInv, HoldersInv
  <2>2. retries[t] \in 0..(MaxRetries + 1)
    BY <2>1 DEF TaskTypes
  <2>3. QED
    BY <2>1, <2>2
<1>3. \A u \in Tasks : u # t => retries'[u] = retries[u]
  BY DEF Carry, TaskTypes
<1>4. retries'[t] <= MaxRetries
  <2>1. CASE UNCHANGED retries
    BY <1>1, <2>1 DEF HeldInv, HoldersInv
  <2>2. CASE retries[t] < MaxRetries /\ retries' = [retries EXCEPT ![t] = @ + 1]
    <3>1. retries'[t] = retries[t] + 1
      BY <1>2, <2>2 DEF TaskTypes
    <3>2. QED
      BY <1>2, <2>2, <3>1, Limits
  <2>3. QED
    BY <2>1, <2>2 DEF Carry
<1> HIDE DEF t
<1>5. \A k \in 1..Len(queue) : queue[k] \in Tasks /\ queue[k] # t
  <2>1. \A k \in 1..Len(queue) : queue[k] \in Tasks
    BY ElementOfSeq DEF TaskTypes
  <2>2. QED
    BY <1>2, <2>1 DEF Queued
<1>6. QueuedInv'
  BY <1>1, <1>3, <1>5 DEF HeldInv, QueuedInv
<1>7. HoldersInv'
  <2>1. Queued' = Queued
    BY <1>1 DEF Queued
  <2>2. \A v \in Workers : v # w /\ place[v] \in Dispatching => task[v] # t
    BY <1>1 DEF HeldInv, HoldersInv, t
  <2>3. \A v \in Workers : place'[v] \in Dispatching => retries'[task[v]] <= MaxRetries
    BY <1>1, <1>3, <1>4, <2>2 DEF HeldInv, HoldersInv, t
  <2>4. \A v \in Workers : place'[v] \in Dispatching => place[v] \in Dispatching
    BY <1>1
  <2>5. QED
    BY <1>1, <2>1, <2>3, <2>4 DEF HeldInv, HoldersInv
<1>8. NewInv' /\ CountInv'
  BY <1>1, <1>2, <1>3 DEF HeldInv, NewInv, CountInv
<1>9. QED
  BY <1>6, <1>7, <1>8 DEF HeldInv

(* A task that ends is nobody's, and is counted once.                        *)
LEMMA EndHeld ==
    ASSUME ManagerTypes, TaskTypes, HeldInv, NEW w \in Workers, WorkerLoop(w),
           NEW result \in Results, End(w, result)
    PROVE  HeldInv'
<1> DEFINE t == task[w]
<1>1. /\ place[w] \in Dispatching /\ place'[w] \notin Dispatching
      /\ \A v \in Workers : v # w => place'[v] = place[v]
      /\ UNCHANGED queue
  BY OthersStay DEF End, Dispatching
<1>2. t \in Tasks /\ t \notin Queued /\ outcome[t] = "accepted"
  BY <1>1 DEF HeldInv, HoldersInv
<1>3. \A u \in Tasks : u # t => retries'[u] = retries[u] /\ outcome'[u] = outcome[u]
  BY DEF End, TaskTypes
<1>4. outcome' = [outcome EXCEPT ![t] = result] /\ outcome'[t] = result
  BY <1>2 DEF End, TaskTypes
<1>5. \A v \in Workers : v # w => task'[v] = task[v]
  BY DEF End, TaskTypes
<1>6. \A k \in 1..Len(queue) : queue[k] \in Tasks /\ queue[k] # t
  <2>1. \A k \in 1..Len(queue) : queue[k] \in Tasks
    BY ElementOfSeq DEF TaskTypes
  <2>2. QED
    BY <1>2, <2>1 DEF Queued
<1>7. QueuedInv'
  BY <1>1, <1>3, <1>6 DEF HeldInv, QueuedInv
<1>8. HoldersInv'
  <2>1. Queued' = Queued
    BY <1>1 DEF Queued
  <2>2. \A v \in Workers : v # w /\ place[v] \in Dispatching => task[v] # t /\ task[v] \in Tasks
    BY <1>1 DEF HeldInv, HoldersInv
  <2>3. \A v \in Workers : place'[v] \in Dispatching =>
           v # w /\ place[v] \in Dispatching /\ task'[v] = task[v]
    BY <1>1, <1>5
  <2> HIDE DEF t
  <2>4. QED
    BY <1>3, <2>1, <2>2, <2>3 DEF HeldInv, HoldersInv
<1>9. NewInv'
  <2>1. result # "new"
    BY DEF Results
  <2>2. QED
    BY <1>3, <1>4, <2>1 DEF HeldInv, NewInv
<1>10. CountInv'
  <2>1. outcome[t] \notin Results
    BY <1>2 DEF Results
  <2>2. \A end \in Results : Cardinality({u \in Tasks : outcome'[u] = end})
             = Cardinality({u \in Tasks : outcome[u] = end}) + IF result = end THEN 1 ELSE 0
    BY <1>2, <1>4, <2>1, Ended
  <2>3. /\ stats \in [Results -> Nat]
        /\ \A end \in Results : stats[end] = Cardinality({u \in Tasks : outcome[u] = end})
    BY DEF HeldInv, CountInv
  <2>4. stats' = [stats EXCEPT ![result] = stats[result] + 1]
    BY DEF End
  <2>5. stats' \in [Results -> Nat]
    BY <2>3, <2>4
  <2>6. \A end \in Results : stats'[end] = stats[end] + IF result = end THEN 1 ELSE 0
    BY <2>3, <2>4
  <2>7. QED
    BY <2>2, <2>3, <2>5, <2>6 DEF CountInv
<1>11. QED
  BY <1>7, <1>8, <1>9, <1>10 DEF HeldInv

(* Every step keeps each accepted task in one place, the queue or a worker.  *)
LEMMA HeldStep == ManagerTypes /\ WorkersInv /\ TaskTypes /\ HeldInv /\ [Next]_vars => HeldInv'
<1> SUFFICES ASSUME ManagerTypes, WorkersInv, TaskTypes, HeldInv, [Next]_vars PROVE HeldInv'
  OBVIOUS
<1>1. CASE Manager
  <2>1. CASE \E t \in Tasks : SubmitTask(t)
    BY <2>1, SubmitHeld
  <2>2. CASE UNCHANGED <<queue, outcome>>
    <3>1. \A w \in Workers : place'[w] \in Dispatching => place[w] \in Dispatching
      BY <1>1, StartsAside DEF Dispatching
    <3>2. UNCHANGED <<queue, outcome, task, retries, stats>>
      BY <1>1, <2>2, ManagerMoves
    <3>3. QED
      BY <3>1, <3>2 DEF HeldInv, QueuedInv, HoldersInv, NewInv, CountInv, Queued
  <2>3. QED
    BY <1>1, <2>1, <2>2, ManagerMoves
<1>2. ASSUME NEW w \in Workers, WorkerLoop(w) PROVE HeldInv'
  <2>1. CASE Aside(w)
    <3>1. \A v \in Workers : place'[v] \in Dispatching => place[v] \in Dispatching
      BY <1>2, <2>1, OthersStay DEF Aside
    <3>2. UNCHANGED <<queue, outcome, task, retries, stats>>
      BY <2>1 DEF Aside, taskVars
    <3>3. QED
      BY <3>1, <3>2 DEF HeldInv, QueuedInv, HoldersInv, NewInv, CountInv, Queued
  <2>2. QED
    BY <1>2, <2>1, WorkerCases, TakeHeld, CarryHeld, EndHeld
<1>3. CASE Environment \/ UNCHANGED vars
  BY <1>3, EnvironmentMoves
     DEF HeldInv, QueuedInv, HoldersInv, NewInv, CountInv, Queued, vars, taskVars
<1>4. QED
  BY <1>1, <1>2, <1>3 DEF Next

-----------------------------------------------------------------------------
(* What a step does to the connections: it opens one, sends on one, reads an *)
(* acknowledgement from one, or brings a copy of a task over HTTP.           *)
Quiet(w) ==
    /\ UNCHANGED netVars
    /\ request' \in {request, [request EXCEPT ![w] = NoSocket]}
    /\ websocket' \in {websocket, NoSocket}
    /\ place'[w] = "awaiting" => place[w] = "awaiting" /\ UNCHANGED request

Opens(w) ==
    /\ place[w] \in {"opening", "connecting"} /\ place'[w] # "awaiting"
    /\ up' = Append(up, TRUE) /\ sent' = Append(sent, <<>>) /\ acks' = Append(acks, <<>>)
    /\ UNCHANGED delivered
    /\ request' = [request EXCEPT ![w] = NoSocket] /\ websocket' = Opened + 1

Sends(w) ==
    /\ place[w] = "attempt" /\ place'[w] = "awaiting"
    /\ websocket \in Connections /\ task[w] \in Tasks
    /\ sent' = [sent EXCEPT ![websocket] = Append(@, task[w])]
    /\ UNCHANGED <<up, acks, delivered, websocket>>
    /\ request' = [request EXCEPT ![w] = websocket]

Reads(w) ==
    /\ place[w] = "awaiting" /\ place'[w] # "awaiting"
    /\ request[w] \in Connections
    /\ acks[request[w]] # <<>> /\ acks' = [acks EXCEPT ![request[w]] = Tail(@)]
    /\ UNCHANGED <<up, sent, delivered, websocket>>
    /\ request' = [request EXCEPT ![w] = NoSocket]

Brings(w) ==
    /\ place[w] = "http" /\ place'[w] # "awaiting"
    /\ task[w] \in Tasks
    /\ delivered' = [delivered EXCEPT ![task[w]] = @ + 1]
    /\ UNCHANGED <<up, sent, acks, request, websocket>>

(* A step of a worker is one of these five.                                  *)
LEMMA NetCases ==
    ASSUME ManagerTypes, SocketTypes, HeldInv, NEW w \in Workers, WorkerLoop(w)
    PROVE  Quiet(w) \/ Opens(w) \/ Sends(w) \/ Reads(w) \/ Brings(w)
<1>0. \A p : place' = [place EXCEPT ![w] = p] => place'[w] = p
  BY DEF ManagerTypes
<1> USE DEF Go, socketVars, netVars
<1>1. CASE Begin(w) \/ RunConnect(w) \/ ConnectFails(w)
  BY <1>0, <1>1 DEF Begin, RunConnect, ConnectFails, EndConnect, OffLoop, Quiet
<1>2. CASE Connect(w)
  BY <1>0, <1>2 DEF Connect, EndConnect, OffLoop, Opens
<1>3. CASE LoopTop(w)
  BY <1>0, <1>3 DEF LoopTop, Leave, Disconnected, Quiet
<1>4. CASE GetTask(w)
  BY <1>0, <1>4 DEF GetTask, Quiet
<1>5. CASE Attempt(w)
  <2>1. CASE connected /\ ~Runnable
    BY <1>0, <1>5, <2>1 DEF Attempt, Failed, Continue, Finish, Quiet
  <2>2. CASE connected /\ Runnable
    <3>1. place[w] = "attempt" /\ SendTask(w) /\ UNCHANGED <<up, acks, delivered>>
      BY <1>5, <2>2 DEF Attempt
    <3>2. task[w] \in Tasks
      BY <3>1 DEF HeldInv, HoldersInv, Dispatching
    <3>3. CASE websocket # NoSocket /\ up[websocket]
      <4>1. websocket \in Connections
        <5>1. websocket \in 0..Opened /\ Opened \in Nat
          BY LenProperties DEF SocketTypes, Opened
        <5>2. QED
          BY <3>3, <5>1 DEF Connections, NoSocket
      <4>2. QED
        BY <1>0, <3>1, <3>2, <3>3, <4>1 DEF SendTask, Sends
    <3>4. CASE ~(websocket # NoSocket /\ up[websocket])
      BY <1>0, <3>1, <3>4 DEF SendTask, Disconnected, Quiet
    <3>5. QED
      BY <3>3, <3>4
  <2>3. CASE ~connected
    BY <1>0, <1>5, <2>3 DEF Attempt, Quiet
  <2>4. QED
    BY <2>1, <2>2, <2>3
<1>6. CASE ReceiveAck(w)
  BY <1>0, <1>6 DEF ReceiveAck, OffLoop, Continue, Finish, Reads, SocketTypes
<1>7. CASE AckTimeout(w) \/ AckLost(w)
  BY <1>0, <1>7 DEF AckTimeout, AckLost, OffLoop, Disconnected, Quiet
<1>8. ASSUME NEW arrives \in BOOLEAN, EnqueueHttp(w, arrives)
      PROVE  Quiet(w) \/ Brings(w)
  <2>1. place[w] = "http" /\ UNCHANGED <<request, websocket, up, sent, acks>>
        /\ delivered' = [delivered EXCEPT ![task[w]] = IF arrives THEN @ + 1 ELSE @]
    BY <1>8 DEF EnqueueHttp
  <2>2. place'[w] # "awaiting"
    BY <1>0, <1>8 DEF EnqueueHttp, HttpFailure, Failed, Continue, Finish
  <2>3. task[w] \in Tasks
    BY <2>1 DEF HeldInv, HoldersInv, Dispatching
  <2>4. arrives => Brings(w)
    BY <2>1, <2>2, <2>3 DEF Brings
  <2>5. ~arrives => Quiet(w)
    BY <2>1, <2>2, <2>3 DEF Quiet, SocketTypes
  <2>6. QED
    BY <2>4, <2>5
<1>9. QED
  BY <1>1, <1>2, <1>3, <1>4, <1>5, <1>6, <1>7, <1>8 DEF WorkerLoop

(* The types of the connections.                                             *)
LEMMA Lists ==
    ASSUME SocketTypes, NEW c \in Connections
    PROVE  /\ sent[c] \in Seq(Tasks) /\ acks[c] \in Seq(Tasks)
           /\ c \in 1..Len(sent) /\ c \in 1..Len(acks)
<1>1. /\ sent \in Seq(Seq(Tasks)) /\ acks \in Seq(Seq(Tasks))
      /\ c \in 1..Len(sent) /\ c \in 1..Len(acks)
  BY DEF SocketTypes, Connections
<1>2. QED
  BY <1>1, ElementOfSeq

(* One list of the lists of a connection is replaced.                        *)
LEMMA Updated ==
    ASSUME NEW rows \in Seq(Seq(Tasks)), NEW c \in 1..Len(rows), NEW row \in Seq(Tasks)
    PROVE  /\ [rows EXCEPT ![c] = row] \in Seq(Seq(Tasks))
           /\ Len([rows EXCEPT ![c] = row]) = Len(rows)
           /\ \A d \in 1..Len(rows) : [rows EXCEPT ![c] = row][d] = IF d = c THEN row ELSE rows[d]
BY ExceptSeq

(* The connections are numbered.                                             *)
LEMMA ConnectionsNumbered == SocketTypes => Opened \in Nat
BY LenProperties DEF SocketTypes, Opened

(* A copy more of one task, and none of another.                             *)
LEMMA Delivers ==
    ASSUME SocketTypes, NEW t \in Tasks, delivered' = [delivered EXCEPT ![t] = @ + 1]
    PROVE  /\ delivered' \in [Tasks -> Nat]
           /\ \A u \in Tasks : delivered[u] \in Nat
                /\ delivered'[u] = IF u = t THEN delivered[u] + 1 ELSE delivered[u]
<1>1. delivered \in [Tasks -> Nat] /\ delivered[t] + 1 \in Nat
  BY DEF SocketTypes
<1>2. QED
  BY <1>1

(* The instance takes the first message, and acknowledges it at the end.     *)
LEMMA Received ==
    ASSUME SocketTypes, NEW c \in Connections, InstanceReceives(c)
    PROVE  /\ Head(sent[c]) \in Tasks /\ Len(sent') = Len(sent) /\ Len(acks') = Len(acks)
           /\ sent' \in Seq(Seq(Tasks)) /\ acks' \in Seq(Seq(Tasks))
           /\ \A d \in Connections :
                 /\ sent'[d] = IF d = c THEN Tail(sent[c]) ELSE sent[d]
                 /\ acks'[d] = IF d = c THEN Append(acks[c], Head(sent[c])) ELSE acks[d]
<1>1. sent[c] \in Seq(Tasks) /\ sent[c] # <<>> /\ acks[c] \in Seq(Tasks)
      /\ sent' = [sent EXCEPT ![c] = Tail(sent[c])]
      /\ acks' = [acks EXCEPT ![c] = Append(acks[c], Head(sent[c]))]
  BY Lists DEF InstanceReceives
<1>2. Head(sent[c]) \in Tasks /\ Tail(sent[c]) \in Seq(Tasks)
      /\ Append(acks[c], Head(sent[c])) \in Seq(Tasks)
  BY <1>1, HeadTailProperties, AppendProperties
<1>3. /\ sent \in Seq(Seq(Tasks)) /\ acks \in Seq(Seq(Tasks))
      /\ Len(sent) = Opened /\ Len(acks) = Opened
  BY DEF SocketTypes
<1>4. QED
  BY <1>1, <1>2, <1>3, Updated DEF Connections

(* A connection that drops loses what was on its way to the instance.        *)
LEMMA Dropped ==
    ASSUME SocketTypes, NEW c \in Connections, Drop(c)
    PROVE  /\ sent' \in Seq(Seq(Tasks)) /\ up' \in Seq(BOOLEAN)
           /\ Len(sent') = Len(sent) /\ Len(up') = Len(up)
           /\ \A d \in Connections : sent'[d] = IF d = c THEN <<>> ELSE sent[d]
<1>1. <<>> \in Seq(Tasks) /\ sent \in Seq(Seq(Tasks)) /\ up \in Seq(BOOLEAN)
      /\ Len(sent) = Opened /\ c \in 1..Len(up) /\ FALSE \in BOOLEAN
  BY DEF SocketTypes, Connections, Opened
<1>2. sent' = [sent EXCEPT ![c] = <<>>] /\ up' = [up EXCEPT ![c] = FALSE]
  BY DEF Drop
<1>3. up' \in Seq(BOOLEAN) /\ Len(up') = Len(up)
  BY <1>1, <1>2, ExceptSeq
<1>4. QED
  BY <1>1, <1>2, <1>3, Updated DEF Connections, Opened

(* A new connection is empty, and the others are what they were.             *)
LEMMA Grown ==
    ASSUME SocketTypes, NEW w \in Workers, Opens(w)
    PROVE  /\ up' \in Seq(BOOLEAN) /\ sent' \in Seq(Seq(Tasks)) /\ acks' \in Seq(Seq(Tasks))
           /\ Opened' = Opened + 1 /\ Len(sent') = Opened' /\ Len(acks') = Opened'
           /\ Connections' = Connections \cup {Opened + 1}
           /\ sent'[Opened + 1] = <<>> /\ acks'[Opened + 1] = <<>>
           /\ \A c \in Connections : sent'[c] = sent[c] /\ acks'[c] = acks[c]
<1>1. up \in Seq(BOOLEAN) /\ sent \in Seq(Seq(Tasks)) /\ acks \in Seq(Seq(Tasks))
      /\ Len(sent) = Len(up) /\ Len(acks) = Len(up) /\ Len(up) \in Nat
      /\ <<>> \in Seq(Tasks) /\ TRUE \in BOOLEAN
  BY LenProperties DEF SocketTypes, Opened
<1>2. up' = Append(up, TRUE) /\ sent' = Append(sent, <<>>) /\ acks' = Append(acks, <<>>)
  BY DEF Opens
<1>3. up' \in Seq(BOOLEAN) /\ Len(up') = Len(up) + 1
  BY <1>1, <1>2, AppendProperties
<1>4. sent' \in Seq(Seq(Tasks)) /\ Len(sent') = Len(up) + 1 /\ sent'[Len(up) + 1] = <<>>
      /\ \A c \in 1..Len(up) : sent'[c] = sent[c]
  BY <1>1, <1>2, AppendProperties
<1>5. acks' \in Seq(Seq(Tasks)) /\ Len(acks') = Len(up) + 1 /\ acks'[Len(up) + 1] = <<>>
      /\ \A c \in 1..Len(up) : acks'[c] = acks[c]
  BY <1>1, <1>2, AppendProperties
<1>6. 1..(Len(up) + 1) = (1..Len(up)) \cup {Len(up) + 1}
  BY <1>1
<1>7. QED
  BY <1>3, <1>4, <1>5, <1>6 DEF Connections, Opened

(* A message is sent at the end of its connection.                           *)
LEMMA SentOn ==
    ASSUME SocketTypes, NEW w \in Workers, Sends(w)
    PROVE  /\ sent' \in Seq(Seq(Tasks)) /\ Len(sent') = Len(sent)
           /\ \A d \in Connections :
                 sent'[d] = IF d = websocket THEN Append(sent[websocket], task[w]) ELSE sent[d]
<1>1. sent' = [sent EXCEPT ![websocket] = Append(sent[websocket], task[w])]
      /\ sent \in Seq(Seq(Tasks)) /\ websocket \in 1..Len(sent) /\ Len(sent) = Opened
      /\ sent[websocket] \in Seq(Tasks) /\ task[w] \in Tasks
  BY Lists DEF Sends, SocketTypes
<1>2. Append(sent[websocket], task[w]) \in Seq(Tasks)
  BY <1>1, AppendProperties
<1>3. QED
  BY <1>1, <1>2, Updated DEF Connections

(* The first acknowledgement of a connection is read.                        *)
LEMMA ReadFrom ==
    ASSUME SocketTypes, NEW w \in Workers, Reads(w)
    PROVE  /\ acks' \in Seq(Seq(Tasks)) /\ Len(acks') = Len(acks)
           /\ \A d \in Connections :
                 acks'[d] = IF d = request[w] THEN Tail(acks[request[w]]) ELSE acks[d]
<1>1. acks' = [acks EXCEPT ![request[w]] = Tail(acks[request[w]])]
      /\ acks \in Seq(Seq(Tasks)) /\ request[w] \in 1..Len(acks) /\ Len(acks) = Opened
      /\ acks[request[w]] \in Seq(Tasks) /\ acks[request[w]] # <<>>
  BY Lists DEF Reads, SocketTypes
<1>2. Tail(acks[request[w]]) \in Seq(Tasks)
  BY <1>1, HeadTailProperties
<1>3. QED
  BY <1>1, <1>2, Updated DEF Connections

(* The flag of the connection is a Boolean.                                  *)
LEMMA Flags ==
    ASSUME SocketTypes, Next
    PROVE  connected' \in BOOLEAN
<1> USE DEF socketVars, Disconnected, SocketTypes
<1>1. CASE Manager
  BY <1>1, ManagerMoves DEF EndStop
<1>2. CASE Environment
  BY <1>2, EnvironmentMoves
<1>3. ASSUME NEW w \in Workers, WorkerLoop(w) PROVE connected' \in BOOLEAN
  BY <1>3 DEF WorkerLoop, Begin, RunConnect, Connect, ConnectFails, LoopTop, Leave, GetTask,
              Attempt, SendTask, ReceiveAck, AckTimeout, AckLost, EnqueueHttp
<1>4. QED
  BY <1>1, <1>2, <1>3 DEF Next

(* The types of the connections, and that a worker awaits an answer on one.  *)
LEMMA SocketsTyped ==
    ASSUME ManagerTypes, WorkersInv, SocketTypes, HeldInv, [Next]_vars
    PROVE  SocketTypes'
<1> USE DEF NoSocket
<1>0. Opened \in Nat /\ NoSocket \in 0..Opened /\ Connections \subseteq 0..Opened
  BY ConnectionsNumbered DEF Connections
<1>1. CASE Manager
  <2>1. UNCHANGED <<request, netVars>> /\ connected' \in BOOLEAN
    BY <1>1, ManagerMoves, Flags DEF Next
  <2>2. websocket' \in {websocket, NoSocket}
    BY <1>1, ManagerMoves DEF EndStop, Disconnected, socketVars
  <2>3. \A w \in Workers : place'[w] = "awaiting" => place[w] = "awaiting"
    BY <1>1, StartsAside
  <2>4. websocket' \in 0..Opened
    BY <1>0, <2>2 DEF SocketTypes
  <2>5. QED
    BY <2>1, <2>3, <2>4 DEF SocketTypes, netVars, Opened, Connections
<1>2. ASSUME NEW w \in Workers, WorkerLoop(w)
      PROVE  SocketTypes'
  <2>1. \A v \in Workers : v # w => place'[v] = place[v]
    BY <1>2, OthersStay
  <2>2. connected' \in BOOLEAN
    BY <1>2, Flags DEF Next
  <2>3. CASE Quiet(w)
    <3>1. request' \in [Workers -> 0..Opened] /\ websocket' \in 0..Opened
      BY <1>0, <2>3 DEF Quiet, SocketTypes
    <3>2. \A v \in Workers :
             place'[v] = "awaiting" => request'[v] = request[v] /\ place[v] = "awaiting"
      BY <2>1, <2>3 DEF Quiet, SocketTypes
    <3>3. QED
      BY <2>2, <2>3, <3>1, <3>2 DEF Quiet, SocketTypes, netVars, Opened, Connections
  <2>4. CASE Opens(w)
    <3>1. Opened' = Opened + 1 /\ Opened + 1 \in 0..Opened' /\ 0..Opened \subseteq 0..Opened'
      BY <1>0, <2>4, Grown
    <3>2. request' \in [Workers -> 0..Opened'] /\ websocket' \in 0..Opened'
      BY <1>0, <2>4, <3>1 DEF Opens, SocketTypes
    <3>3. \A v \in Workers : place'[v] = "awaiting" => request'[v] \in Connections
      BY <2>1, <2>4 DEF Opens, SocketTypes
    <3>4. QED
      BY <2>2, <2>4, <3>2, <3>3, Grown DEF Opens, SocketTypes
  <2>5. CASE Sends(w)
    <3>1. request' \in [Workers -> 0..Opened]
          /\ \A v \in Workers : place'[v] = "awaiting" => request'[v] \in Connections
      BY <1>0, <2>1, <2>5 DEF Sends, SocketTypes
    <3>2. QED
      BY <2>2, <2>5, <3>1, SentOn DEF Sends, SocketTypes, Opened, Connections
  <2>6. CASE Reads(w)
    <3>1. request' \in [Workers -> 0..Opened]
          /\ \A v \in Workers : place'[v] = "awaiting" => request'[v] \in Connections
      BY <1>0, <2>1, <2>6 DEF Reads, SocketTypes
    <3>2. QED
      BY <2>2, <2>6, <3>1, ReadFrom DEF Reads, SocketTypes, Opened, Connections
  <2>7. CASE Brings(w)
    <3>1. delivered' \in [Tasks -> Nat]
      BY <2>7, Delivers DEF Brings
    <3>2. \A v \in Workers : place'[v] = "awaiting" => request'[v] \in Connections
      BY <2>1, <2>7 DEF Brings, SocketTypes
    <3>3. QED
      BY <2>2, <2>7, <3>1, <3>2 DEF Brings, SocketTypes, Opened, Connections
  <2>8. QED
    BY <1>2, <2>3, <2>4, <2>5, <2>6, <2>7, NetCases
<1>3. ASSUME NEW c \in Connections, InstanceReceives(c)
      PROVE  SocketTypes'
  <2>1. delivered' \in [Tasks -> Nat]
    BY <1>3, Received, Delivers DEF InstanceReceives
  <2>2. QED
    BY <1>3, <2>1, Received DEF InstanceReceives, SocketTypes, Opened, Connections, socketVars
<1>4. ASSUME NEW c \in Connections, Drop(c)
      PROVE  SocketTypes'
  BY <1>4, Dropped DEF Drop, SocketTypes, Opened, Connections, socketVars
<1>5. CASE UNCHANGED vars
  BY <1>5 DEF SocketTypes, vars, netVars, socketVars, Opened, Connections
<1>6. QED
  BY <1>1, <1>2, <1>3, <1>4, <1>5 DEF Next, Environment

-----------------------------------------------------------------------------
(* An acknowledgement on its way is of a task the instance has received; so  *)
(* is a task that a callback reports as a success.                           *)
LEMMA AcksTail ==
    ASSUME SocketTypes, NEW c \in Connections, acks[c] # <<>>
    PROVE  /\ Head(acks[c]) \in Tasks /\ Head(acks[c]) = acks[c][1] /\ 1 \in 1..Len(acks[c])
           /\ \A k \in 1..Len(Tail(acks[c])) :
                 k + 1 \in 1..Len(acks[c]) /\ Tail(acks[c])[k] = acks[c][k + 1]
<1>1. acks[c] \in Seq(Tasks)
  BY Lists
<1>2. QED
  BY <1>1, HeadTailProperties, LenProperties

(* A success is an acknowledgement that was read, or a request that arrived. *)
LEMMA Successes ==
    ASSUME ManagerTypes, SocketTypes, TaskTypes, HeldInv, AcksInv, NEW w \in Workers, WorkerLoop(w),
           NEW t \in Tasks, outcome'[t] = "success"
    PROVE  outcome[t] = "success" \/ delivered'[t] > 0
<1>1. ASSUME Failed(w) PROVE outcome[t] = "success"
  BY <1>1 DEF Failed, Continue, Finish, TaskTypes
<1>2. ASSUME Finish(w, "success") PROVE outcome[t] = "success" \/ t = task[w]
  BY <1>2 DEF Finish, TaskTypes
<1>3. CASE Begin(w) \/ RunConnect(w) \/ Connect(w) \/ ConnectFails(w) \/ LoopTop(w) \/ GetTask(w)
           \/ AckTimeout(w) \/ AckLost(w)
  BY <1>3 DEF Begin, RunConnect, Connect, ConnectFails, LoopTop, GetTask, AckTimeout, AckLost,
              taskVars
<1>4. CASE Attempt(w)
  BY <1>1, <1>4 DEF Attempt
<1>5. CASE ReceiveAck(w)
  <2> DEFINE c == request[w]
  <2>1. c \in Connections /\ acks[c] # <<>> /\ UNCHANGED delivered
    BY <1>5 DEF ReceiveAck, SocketTypes
  <2>2. Head(acks[c]) \in Tasks /\ delivered[Head(acks[c])] > 0
    BY <2>1, AcksTail DEF AcksInv
  <2>3. CASE AckFor(Head(acks[c]), task[w]) /\ Finish(w, "success")
    BY <1>2, <2>1, <2>2, <2>3 DEF AckFor
  <2>4. CASE Continue(w, "http")
    BY <2>4 DEF Continue
  <2>5. QED
    BY <1>5, <2>3, <2>4 DEF ReceiveAck
<1>6. ASSUME NEW arrives \in BOOLEAN, EnqueueHttp(w, arrives)
      PROVE  outcome[t] = "success" \/ delivered'[t] > 0
  <2>1. CASE arrives /\ Finish(w, "success")
    <3>1. place[w] = "http" /\ delivered' = [delivered EXCEPT ![task[w]] = @ + 1]
      BY <1>6, <2>1 DEF EnqueueHttp
    <3>2. task[w] \in Tasks
      BY <3>1 DEF HeldInv, HoldersInv, Dispatching
    <3>3. delivered'[task[w]] = delivered[task[w]] + 1 /\ delivered[task[w]] \in Nat
      BY <3>1, <3>2, Delivers
    <3>4. QED
      BY <1>2, <2>1, <3>3
  <2>2. CASE Failed(w)
    BY <1>1, <2>2
  <2>3. QED
    BY <1>6, <2>1, <2>2 DEF EnqueueHttp, HttpFailure
<1>7. QED
  BY <1>3, <1>4, <1>5, <1>6 DEF WorkerLoop

(* Every step keeps what is acknowledged delivered.                          *)
LEMMA AcksStep ==
    ASSUME ManagerTypes, SocketTypes, TaskTypes, HeldInv, AcksInv, [Next]_vars
    PROVE  AcksInv'
<1>0. \A t \in Tasks : delivered[t] \in Nat
  BY DEF SocketTypes
<1>1. CASE Manager
  <2>1. UNCHANGED netVars
    BY <1>1, ManagerMoves
  <2>2. \A t \in Tasks : outcome'[t] = "success" => outcome[t] = "success"
    <3>1. CASE \E t \in Tasks : SubmitTask(t)
      BY <3>1 DEF SubmitTask, TaskTypes
    <3>2. CASE UNCHANGED outcome
      BY <3>2
    <3>3. QED
      BY <1>1, <3>1, <3>2, ManagerMoves
  <2>3. QED
    BY <2>1, <2>2 DEF AcksInv, SuccessDelivered, netVars, Connections, Opened
<1>2. ASSUME NEW w \in Workers, WorkerLoop(w)
      PROVE  AcksInv'
  <2>1. \A t \in Tasks : outcome'[t] = "success" => outcome[t] = "success" \/ delivered'[t] > 0
    BY <1>2, Successes
  <2>2. ASSUME UNCHANGED delivered PROVE SuccessDelivered'
    BY <2>1, <2>2 DEF AcksInv, SuccessDelivered
  <2>3. CASE Quiet(w)
    BY <2>2, <2>3 DEF Quiet, netVars, AcksInv, Connections, Opened
  <2>4. CASE Opens(w)
    <3>1. \A c \in Connections' : acks'[c] = <<>> \/ (c \in Connections /\ acks'[c] = acks[c])
      BY <2>4, Grown
    <3>2. Len(<<>>) = 0 /\ 1..0 = {}
      OBVIOUS
    <3>3. \A c \in Connections' : \A k \in 1..Len(acks'[c]) : delivered[acks'[c][k]] > 0
      BY <3>1, <3>2 DEF AcksInv
    <3>4. UNCHANGED delivered
      BY <2>4 DEF Opens
    <3>5. QED
      BY <2>2, <3>3, <3>4 DEF AcksInv
  <2>5. CASE Sends(w)
    BY <2>2, <2>5 DEF Sends, AcksInv, Connections, Opened
  <2>6. CASE Reads(w)
    <3>1. UNCHANGED <<up, delivered>> /\ request[w] \in Connections /\ acks[request[w]] # <<>>
      BY <2>6 DEF Reads
    <3>2. \A c \in Connections : \A k \in 1..Len(acks'[c]) : delivered[acks'[c][k]] > 0
      <4>1. ASSUME NEW c \in Connections, NEW k \in 1..Len(acks'[c]), c = request[w]
            PROVE  delivered[acks'[c][k]] > 0
        <5>1. acks'[c] = Tail(acks[c])
          BY <2>6, <4>1, ReadFrom
        <5>2. k + 1 \in 1..Len(acks[c]) /\ acks'[c][k] = acks[c][k + 1]
          BY <3>1, <4>1, <5>1, AcksTail
        <5>3. QED
          BY <5>2 DEF AcksInv
      <4>2. ASSUME NEW c \in Connections, c # request[w]
            PROVE  acks'[c] = acks[c]
        BY <2>6, <4>2, ReadFrom
      <4>3. QED
        BY <4>1, <4>2 DEF AcksInv
    <3>3. QED
      BY <2>2, <3>1, <3>2 DEF AcksInv, Connections, Opened
  <2>7. CASE Brings(w)
    <3>1. \A u \in Tasks : delivered'[u] >= delivered[u]
      BY <1>0, <2>7, Delivers DEF Brings
    <3>2. \A c \in Connections : \A k \in 1..Len(acks[c]) : acks[c][k] \in Tasks
      BY Lists, ElementOfSeq
    <3>3. \A u \in Tasks : delivered[u] > 0 => delivered'[u] > 0
      <4>1. \A u \in Tasks : delivered'[u] \in Nat
        BY <2>7, Delivers DEF Brings
      <4>2. QED
        BY <1>0, <3>1, <4>1
    <3>4. UNCHANGED <<acks, up>>
      BY <2>7 DEF Brings
    <3>5. QED
      BY <2>1, <3>2, <3>3, <3>4 DEF AcksInv, SuccessDelivered, Connections, Opened
  <2>8. QED
    BY <1>2, <2>3, <2>4, <2>5, <2>6, <2>7, NetCases
<1>3. ASSUME NEW c \in Connections, InstanceReceives(c)
      PROVE  AcksInv'
  <2> DEFINE t == Head(sent[c])
  <2>1. t \in Tasks /\ delivered' = [delivered EXCEPT ![t] = @ + 1] /\ UNCHANGED <<up, outcome>>
    BY <1>3, Received DEF InstanceReceives, taskVars
  <2>2. \A u \in Tasks : delivered'[u] = IF u = t THEN delivered[u] + 1 ELSE delivered[u]
    BY <2>1, Delivers
  <2>3. acks[c] \in Seq(Tasks) /\ Len(acks[c]) \in Nat
    BY Lists, LenProperties
  <2> HIDE DEF t
  <2>4. \A u \in Tasks : u = t \/ delivered[u] > 0 => delivered'[u] > 0
    BY <1>0, <2>2
  <2>5. \A d \in Connections : \A k \in 1..Len(acks[d]) :
           acks[d][k] \in Tasks /\ delivered[acks[d][k]] > 0
    BY Lists, ElementOfSeq DEF AcksInv
  <2>6. ASSUME NEW d \in Connections, NEW k \in 1..Len(acks'[d])
        PROVE  delivered'[acks'[d][k]] > 0
    <3>1. CASE d # c
      BY <1>3, <2>4, <2>5, <3>1, Received, ZenonT(40)
    <3>2. CASE d = c
      <4>1. acks'[c] = Append(acks[c], t)
        BY <1>3, Received DEF t
      <4>2. /\ Len(acks'[c]) = Len(acks[c]) + 1
            /\ \A j \in 1..Len(acks[c]) : acks'[c][j] = acks[c][j]
            /\ acks'[c][Len(acks[c]) + 1] = t
        BY <2>1, <2>3, <4>1, AppendProperties
      <4>3. k \in 1..Len(acks[c]) \/ k = Len(acks[c]) + 1
        BY <2>3, <3>2, <4>2
      <4>4. QED
        BY <2>1, <2>4, <2>5, <3>2, <4>2, <4>3
    <3>3. QED
      BY <3>1, <3>2
  <2>7. QED
    BY <2>1, <2>4, <2>6 DEF AcksInv, SuccessDelivered, Connections, Opened
<1>4. ASSUME NEW c \in Connections, Drop(c)
      PROVE  AcksInv'
  <2>1. UNCHANGED <<acks, delivered, outcome>> /\ Opened' = Opened
    BY <1>4, Dropped DEF Drop, taskVars, Opened
  <2>2. QED
    BY <2>1 DEF AcksInv, SuccessDelivered, Connections
<1>5. CASE UNCHANGED vars
  BY <1>5 DEF AcksInv, SuccessDelivered, Connections, Opened, vars, netVars, taskVars
<1>6. QED
  BY <1>1, <1>2, <1>3, <1>4, <1>5 DEF Next, Environment

-----------------------------------------------------------------------------
(* What an attempt may cost: the copies a step sends are paid by the budget. *)
Cost(w, t) == IF (Sends(w) \/ Brings(w)) /\ t = task[w] THEN 1 ELSE 0

(* A budget is a number, which the retries bound.                            *)
LEMMA BudgetTyped ==
    ASSUME TaskTypes, NEW t \in Tasks
    PROVE  retries[t] \in Nat /\ Budget(t) \in Nat /\ Budget(t) <= 2 * retries[t] + 2
<1>1. retries[t] \in 0..(MaxRetries + 1)
  BY DEF TaskTypes
<1>2. QED
  BY <1>1 DEF Budget

(* A worker changes the budget of no other task.                             *)
LEMMA OtherBudgets ==
    ASSUME ManagerTypes, TaskTypes, HeldInv, NEW w \in Workers, WorkerLoop(w),
           NEW t \in Tasks, t # task[w] \/ place[w] \notin Dispatching
    PROVE  Budget(t)' = Budget(t) /\ Cost(w, t) = 0
<1>1. \A v \in Workers : v # w => place'[v] = place[v] /\ task'[v] = task[v]
  <2>1. \A v \in Workers : v # w => place'[v] = place[v]
    BY OthersStay
  <2>2. \A v \in Workers : v # w => task'[v] = task[v]
    BY WorkerCases DEF Aside, Take, Carry, End, taskVars, TaskTypes
  <2>3. QED
    BY <2>1, <2>2
<1>2. Cost(w, t) = 0
  BY DEF Cost, Sends, Brings, Dispatching
<1>3. /\ ~(place[w] \in {"awaiting", "http"} /\ task[w] = t)
      /\ ~(place'[w] \in {"awaiting", "http"} /\ task'[w] = t)
  BY WorkerCases DEF Aside, Take, Carry, End, Dispatching
<1>4. retries'[t] = retries[t] /\ outcome'[t] = outcome[t]
  BY WorkerCases DEF Aside, Take, Carry, End, Dispatching, taskVars, TaskTypes
<1>5. Tried(t)' = Tried(t)
  BY <1>1, <1>3 DEF Tried
<1>6. QED
  BY <1>2, <1>4, <1>5 DEF Budget

(* A worker's step adds to its task's budget at least the copies it sends.   *)
LEMMA OwnBudget ==
    ASSUME ManagerTypes, SocketTypes, TaskTypes, HeldInv, NEW w \in Workers, WorkerLoop(w),
           place[w] \in Dispatching, NEW t \in Tasks, t = task[w]
    PROVE  Budget(t)' >= Budget(t) + Cost(w, t)
<1>0. \A p : place' = [place EXCEPT ![w] = p] => place'[w] = p
  BY DEF ManagerTypes
<1>1. t \in Tasks /\ outcome[t] = "accepted" /\ retries[t] \in Nat
  BY BudgetTyped DEF HeldInv, HoldersInv
<1>2. Tried(t) <=> place[w] # "attempt"
  BY DEF Tried, Dispatching, HeldInv, HoldersInv
<1>3. Budget(t) = 2 * retries[t] + IF place[w] = "attempt" THEN 0 ELSE 1
  BY <1>1, <1>2 DEF Budget
<1>4. Cost(w, t) \in {0, 1} /\ (place'[w] # "awaiting" /\ place[w] # "http" => Cost(w, t) = 0)
  BY DEF Cost, Sends, Brings
<1>5. ASSUME Failed(w) PROVE Budget(t)' \in Nat /\ Budget(t)' >= 2 * retries[t] + 2
  <2>1. retries'[t] = retries[t] + 1
    BY <1>1, <1>5 DEF Failed, TaskTypes
  <2>2. PICK extra \in {0, 1, 2} : Budget(t)' = 2 * retries'[t] + extra
    BY DEF Budget
  <2>3. QED
    BY <1>1, <2>1, <2>2
<1>6. ASSUME Finish(w, "success"), UNCHANGED retries PROVE Budget(t)' = 2 * retries[t] + 2
  <2>1. outcome'[t] = "success"
    BY <1>1, <1>6 DEF Finish, TaskTypes
  <2>2. Budget(t)' = 2 * retries'[t] + 2
    BY <2>1 DEF Budget
  <2>3. QED
    BY <1>6, <2>2
<1>7. ASSUME place'[w] \in {"awaiting", "http"}, UNCHANGED <<retries, outcome, task>>
      PROVE  Budget(t)' = 2 * retries[t] + 1
  <2>1. Tried(t)'
    BY <1>7 DEF Tried
  <2>2. QED
    BY <1>1, <1>7, <2>1 DEF Budget
<1>8. CASE Attempt(w)
  <2>1. place[w] = "attempt"
    BY <1>8 DEF Attempt
  <2>2. CASE connected /\ ~Runnable
    <3>1. Failed(w)
      BY <1>8, <2>2 DEF Attempt
    <3>2. QED
      BY <1>1, <1>3, <1>4, <1>5, <2>1, <3>1
  <2>3. CASE ~(connected /\ ~Runnable)
    <3>1. UNCHANGED <<retries, outcome, task>>
      BY <1>8, <2>3 DEF Attempt
    <3>2. place'[w] \in {"awaiting", "http"}
      BY <1>0, <1>8, <2>3 DEF Attempt, SendTask, Go
    <3>3. QED
      BY <1>1, <1>3, <1>4, <1>7, <2>1, <3>1, <3>2
  <2>4. QED
    BY <2>2, <2>3
<1>9. CASE ReceiveAck(w)
  <2>1. place[w] = "awaiting" /\ UNCHANGED retries
    BY <1>9 DEF ReceiveAck
  <2>2. place'[w] # "awaiting"
    BY <1>0, <1>9 DEF ReceiveAck, Finish, Continue, Go
  <2>3. CASE Finish(w, "success")
    BY <1>1, <1>3, <1>4, <1>6, <2>1, <2>2, <2>3
  <2>4. CASE Continue(w, "http")
    <3>1. place'[w] = "http" /\ UNCHANGED <<outcome, task>>
      BY <1>0, <2>4 DEF Continue, Go
    <3>2. QED
      BY <1>1, <1>3, <1>4, <1>7, <2>1, <2>2, <3>1
  <2>5. QED
    BY <1>9, <2>3, <2>4 DEF ReceiveAck
<1>10. CASE AckTimeout(w) \/ AckLost(w)
  <2>1. place[w] = "awaiting" /\ place'[w] = "http" /\ UNCHANGED <<retries, outcome, task>>
    BY <1>0, <1>10 DEF AckTimeout, AckLost, Go, taskVars
  <2>2. QED
    BY <1>1, <1>3, <1>4, <1>7, <2>1
<1>11. CASE \E arrives \in BOOLEAN : EnqueueHttp(w, arrives)
  <2>1. place[w] = "http"
    BY <1>11 DEF EnqueueHttp
  <2>2. Failed(w) \/ (Finish(w, "success") /\ UNCHANGED retries)
    BY <1>11 DEF EnqueueHttp, HttpFailure
  <2>3. Budget(t)' \in Nat /\ Budget(t)' >= 2 * retries[t] + 2
    BY <1>1, <1>5, <1>6, <2>2
  <2>4. QED
    BY <1>1, <1>3, <1>4, <2>1, <2>3
<1>12. ~(Begin(w) \/ RunConnect(w) \/ Connect(w) \/ ConnectFails(w) \/ LoopTop(w) \/ GetTask(w))
  BY DEF Begin, RunConnect, Connect, ConnectFails, EndConnect, LoopTop, GetTask, Dispatching
<1>13. QED
  BY <1>8, <1>9, <1>10, <1>11, <1>12 DEF WorkerLoop

(* Both together: every step pays for its copies.                            *)
LEMMA BudgetPays ==
    ASSUME ManagerTypes, SocketTypes, TaskTypes, HeldInv, NEW w \in Workers, WorkerLoop(w),
           NEW t \in Tasks
    PROVE  Budget(t)' >= Budget(t) + Cost(w, t)
<1>1. CASE t # task[w] \/ place[w] \notin Dispatching
  <2>1. Budget(t) \in Nat
    BY BudgetTyped
  <2>2. Budget(t)' = Budget(t) /\ Cost(w, t) = 0
    BY <1>1, OtherBudgets
  <2>3. QED
    BY <2>1, <2>2
<1>2. CASE t = task[w] /\ place[w] \in Dispatching
  BY <1>2, OwnBudget
<1>3. QED
  BY <1>1, <1>2

(* The copies on their way, as the connections change.                       *)
LEMMA FlightSame ==
    ASSUME NEW t, UNCHANGED <<up, sent>>
    PROVE  InFlight(t)' = InFlight(t)
BY DEF InFlight, Connections, Opened

(* A new connection brings no copy.                                          *)
LEMMA FlightOpens ==
    ASSUME SocketTypes, NEW w \in Workers, Opens(w), NEW t \in Tasks
    PROVE  InFlight(t)' = InFlight(t)
<1>1. \A c \in Connections' : \/ c \in Connections /\ sent'[c] = sent[c]
                              \/ c \notin Connections /\ 1..Len(sent'[c]) = {}
  <2>1. Len(<<>>) = 0 /\ 1..0 = {}
    OBVIOUS
  <2>2. Opened + 1 \notin Connections
    BY ConnectionsNumbered DEF Connections
  <2>3. QED
    BY <2>1, <2>2, Grown
<1>2. Connections \subseteq Connections'
  BY Grown
<1>3. \A p \in Connections' \X Nat :
         p[2] \in 1..Len(sent'[p[1]]) => p \in Connections \X Nat /\ sent'[p[1]] = sent[p[1]]
  BY <1>1
<1>4. \A p \in Connections \X Nat : p \in Connections' \X Nat /\ sent'[p[1]] = sent[p[1]]
  BY <1>2, Grown
<1>5. QED
  BY <1>3, <1>4 DEF InFlight

(* A message sent is one copy more.                                          *)
LEMMA FlightSends ==
    ASSUME SocketTypes, NEW w \in Workers, Sends(w), NEW t \in Tasks
    PROVE  \E p : InFlight(t)' \subseteq (IF t = task[w] THEN InFlight(t) \cup {p} ELSE InFlight(t))
<1> DEFINE c == websocket
           n == Len(sent[c]) + 1
<1>1. c \in Connections /\ sent[c] \in Seq(Tasks) /\ Len(sent[c]) \in Nat /\ task[w] \in Tasks
      /\ Connections' = Connections
  BY Lists, LenProperties DEF Sends, Connections, Opened
<1>2. sent'[c] = Append(sent[c], task[w]) /\ \A d \in Connections : d # c => sent'[d] = sent[d]
  BY <1>1, SentOn
<1>3. /\ Len(sent'[c]) = n /\ sent'[c][n] = task[w]
      /\ \A k \in 1..Len(sent[c]) : sent'[c][k] = sent[c][k]
  BY <1>1, <1>2, AppendProperties
<1>4. \A k \in 1..n : k \in 1..Len(sent[c]) \/ k = n
  BY <1>1
<1> HIDE DEF c, n
<1>5. ASSUME NEW p \in InFlight(t)', p \notin InFlight(t)
      PROVE  p = <<c, n>> /\ t = task[w]
  <2>1. p \in Connections \X Nat /\ p[2] \in 1..Len(sent'[p[1]]) /\ sent'[p[1]][p[2]] = t
    BY <1>1 DEF InFlight
  <2>2. p[1] = c
    BY <1>2, <1>5, <2>1 DEF InFlight
  <2>3. p[2] = n
    BY <1>3, <1>4, <1>5, <2>1, <2>2 DEF InFlight
  <2>4. QED
    BY <1>3, <2>1, <2>2, <2>3
<1>6. QED
  BY <1>5

(* A drop only loses copies.                                                 *)
LEMMA FlightDrops ==
    ASSUME SocketTypes, NEW c \in Connections, Drop(c), NEW t \in Tasks
    PROVE  InFlight(t)' \subseteq InFlight(t)
<1>1. Connections' = Connections
  BY Dropped DEF Connections, Opened
<1>2. \A d \in Connections : sent'[d] = sent[d] \/ 1..Len(sent'[d]) = {}
  <2>1. Len(<<>>) = 0 /\ 1..0 = {}
    OBVIOUS
  <2>2. QED
    BY <2>1, Dropped
<1>3. QED
  BY <1>1, <1>2 DEF InFlight

(* The copies behind the one that is received move up by one.                *)
LEMMA FlightReceives ==
    ASSUME SocketTypes, NEW c \in Connections, InstanceReceives(c), NEW t \in Tasks,
           IsFiniteSet(InFlight(t))
    PROVE  /\ IsFiniteSet(InFlight(t)')
           /\ Cardinality(InFlight(t)') <=
                 Cardinality(InFlight(t)) - IF t = Head(sent[c]) THEN 1 ELSE 0
<1> DEFINE s == sent[c]
           S == InFlight(t)'
           T == InFlight(t) \ {<<c, 1>>}
           f == [p \in S |-> IF p[1] = c THEN <<c, p[2] + 1>> ELSE p]
<1>1. /\ s \in Seq(Tasks) /\ s # <<>> /\ Len(s) \in Nat /\ Connections' = Connections
      /\ sent'[c] = Tail(s) /\ \A d \in Connections : d # c => sent'[d] = sent[d]
  BY Lists, LenProperties, Received DEF InstanceReceives, Connections, Opened
<1>2. /\ Head(s) = s[1] /\ 1 \in 1..Len(s)
      /\ \A k \in 1..Len(Tail(s)) :
            k \in Nat /\ k + 1 \in 1..Len(s) /\ k + 1 # 1 /\ Tail(s)[k] = s[k + 1]
  BY <1>1, HeadTailProperties, LenProperties
<1> HIDE DEF s
<1>3. ASSUME NEW p \in S PROVE f[p] \in T
  <2>1. p \in Connections \X Nat /\ p[2] \in 1..Len(sent'[p[1]]) /\ sent'[p[1]][p[2]] = t
    BY <1>1, <1>3 DEF InFlight
  <2>2. CASE p[1] = c
    <3>1. p[2] + 1 \in 1..Len(s) /\ p[2] + 1 # 1 /\ p[2] + 1 \in Nat /\ s[p[2] + 1] = t
      BY <1>1, <1>2, <2>1, <2>2
    <3>2. <<c, p[2] + 1>> \in T
      BY <3>1 DEF InFlight, s
    <3>3. QED
      BY <2>2, <3>2
  <2>3. CASE p[1] # c
    <3>1. p \in InFlight(t) /\ p # <<c, 1>>
      BY <1>1, <2>1, <2>3 DEF InFlight
    <3>2. QED
      BY <2>3, <3>1
  <2>4. QED
    BY <2>2, <2>3
<1>4. ASSUME NEW p \in S, NEW q \in S, f[p] = f[q] PROVE p = q
  <2>1. p \in Connections \X Nat /\ q \in Connections \X Nat
    BY <1>1, <1>4 DEF InFlight
  <2>2. /\ f[p] = IF p[1] = c THEN <<c, p[2] + 1>> ELSE p
        /\ f[q] = IF q[1] = c THEN <<c, q[2] + 1>> ELSE q
    OBVIOUS
  <2>3. f[p][1] = p[1] /\ f[q][1] = q[1]
    BY <2>1, <2>2
  <2>4. p[1] = q[1]
    BY <1>4, <2>3
  <2>5. CASE p[1] = c
    <3>1. p[2] + 1 = q[2] + 1
      BY <1>4, <2>2, <2>4, <2>5
    <3>2. QED
      BY <2>1, <2>4, <3>1
  <2>6. CASE p[1] # c
    BY <1>4, <2>2, <2>4, <2>6
  <2>7. QED
    BY <2>5, <2>6
<1>5. f \in Injection(S, T)
  BY <1>3, <1>4 DEF Injection, IsInjective
<1>6. IsFiniteSet(T) /\ Cardinality(T) <= Cardinality(InFlight(t)) - IF t = Head(s) THEN 1 ELSE 0
  <2>1. t = Head(s) => <<c, 1>> \in InFlight(t)
    BY <1>2 DEF InFlight, s
  <2>2. /\ IsFiniteSet(T)
        /\ Cardinality(T) = IF <<c, 1>> \in InFlight(t) THEN Cardinality(InFlight(t)) - 1
                                                       ELSE Cardinality(InFlight(t))
    BY FS_RemoveElement
  <2>3. Cardinality(InFlight(t)) \in Nat
    BY FS_CardinalityType
  <2>4. QED
    BY <2>1, <2>2, <2>3
<1>7. IsFiniteSet(S) /\ Cardinality(S) <= Cardinality(T)
  BY <1>5, <1>6, FS_Injection
<1>8. Cardinality(S) \in Nat /\ Cardinality(T) \in Nat /\ Cardinality(InFlight(t)) \in Nat
  BY <1>6, <1>7, FS_CardinalityType
<1>9. QED
  BY <1>6, <1>7, <1>8 DEF s

(* The numbers that the bound on the copies compares.                        *)
LEMMA CopiesTyped ==
    ASSUME SocketTypes, TaskTypes, CopiesInv, NEW t \in Tasks
    PROVE  /\ delivered[t] \in Nat /\ Budget(t) \in Nat
           /\ IsFiniteSet(InFlight(t)) /\ Cardinality(InFlight(t)) \in Nat
           /\ delivered[t] + Cardinality(InFlight(t)) <= Budget(t)
<1>1. IsFiniteSet(InFlight(t)) /\ delivered[t] + Cardinality(InFlight(t)) <= Budget(t)
  BY DEF CopiesInv
<1>2. Cardinality(InFlight(t)) \in Nat
  BY <1>1, FS_CardinalityType
<1>3. delivered[t] \in Nat
  BY DEF SocketTypes
<1>4. QED
  BY <1>1, <1>2, <1>3, BudgetTyped

(* A step pays for the copies it sends out of the budget, and none gets lost *)
(* or duplicated in between.                                                 *)
LEMMA CopiesWorker ==
    ASSUME ManagerTypes, SocketTypes, TaskTypes, HeldInv, CopiesInv, TaskTypes',
           NEW w \in Workers, WorkerLoop(w), NEW t \in Tasks
    PROVE  /\ IsFiniteSet(InFlight(t)')
           /\ delivered'[t] + Cardinality(InFlight(t)') <= Budget(t)'
<1>1. /\ delivered[t] \in Nat /\ Budget(t) \in Nat
      /\ IsFiniteSet(InFlight(t)) /\ Cardinality(InFlight(t)) \in Nat
      /\ delivered[t] + Cardinality(InFlight(t)) <= Budget(t)
  BY CopiesTyped
<1>2. Budget(t)' >= Budget(t) + Cost(w, t) /\ Cost(w, t) \in {0, 1} /\ Budget(t)' \in Nat
  <2>1. Budget(t)' \in Nat
    <3>1. retries'[t] \in 0..(MaxRetries + 1)
      BY DEF TaskTypes
    <3>2. QED
      BY <3>1 DEF Budget
  <2>2. QED
    BY <2>1, BudgetPays DEF Cost
<1>3. CASE Quiet(w) \/ Opens(w) \/ Reads(w)
  <2>1. InFlight(t)' = InFlight(t)
    BY <1>3, FlightSame, FlightOpens DEF Quiet, Reads, netVars
  <2>2. UNCHANGED delivered
    BY <1>3 DEF Quiet, Opens, Reads, netVars
  <2>3. QED
    BY <1>1, <1>2, <2>1, <2>2
<1>4. CASE Sends(w)
  <2>1. UNCHANGED delivered /\ (t = task[w] => Cost(w, t) = 1)
    BY <1>4 DEF Sends, Cost
  <2>2. PICK p : InFlight(t)' \subseteq IF t = task[w] THEN InFlight(t) \cup {p} ELSE InFlight(t)
    BY <1>4, FlightSends
  <2>3. /\ IsFiniteSet(InFlight(t) \cup {p})
        /\ Cardinality(InFlight(t) \cup {p}) \in Nat
        /\ Cardinality(InFlight(t) \cup {p}) <= Cardinality(InFlight(t)) + 1
    BY <1>1, FS_AddElement, SMTT(30)
  <2>4. /\ IsFiniteSet(InFlight(t)')
        /\ Cardinality(InFlight(t)') <= Cardinality(InFlight(t)) + IF t = task[w] THEN 1 ELSE 0
    <3>1. CASE t = task[w]
      <4>1. /\ IsFiniteSet(InFlight(t)')
            /\ Cardinality(InFlight(t)') <= Cardinality(InFlight(t) \cup {p})
        BY <2>2, <2>3, <3>1, FS_Subset
      <4>2. Cardinality(InFlight(t)') \in Nat
        BY <4>1, FS_CardinalityType
      <4>3. QED
        BY <1>1, <2>3, <3>1, <4>1, <4>2
    <3>2. CASE t # task[w]
      <4>1. IsFiniteSet(InFlight(t)') /\ Cardinality(InFlight(t)') <= Cardinality(InFlight(t))
        BY <1>1, <2>2, <3>2, FS_Subset
      <4>2. QED
        BY <1>1, <3>2, <4>1
    <3>3. QED
      BY <3>1, <3>2
  <2>5. Cardinality(InFlight(t)') \in Nat
    BY <2>4, FS_CardinalityType
  <2>6. QED
    BY <1>1, <1>2, <2>1, <2>4, <2>5
<1>5. CASE Brings(w)
  <2>1. InFlight(t)' = InFlight(t)
    BY <1>5, FlightSame DEF Brings
  <2>2. delivered'[t] = delivered[t] + IF t = task[w] THEN 1 ELSE 0
    <3>1. delivered' = [delivered EXCEPT ![task[w]] = @ + 1] /\ task[w] \in Tasks
      BY <1>5 DEF Brings
    <3>2. \A u \in Tasks : delivered'[u] = IF u = task[w] THEN delivered[u] + 1 ELSE delivered[u]
      BY <3>1, Delivers
    <3>3. QED
      BY <1>1, <3>2
  <2>3. t = task[w] => Cost(w, t) = 1
    BY <1>5 DEF Cost
  <2>4. QED
    BY <1>1, <1>2, <2>1, <2>2, <2>3
<1>6. QED
  BY <1>3, <1>4, <1>5, NetCases

(* Every step keeps the copies within the budget.                            *)
LEMMA CopiesStep ==
    ASSUME ManagerTypes, WorkersInv, SocketTypes, TaskTypes, HeldInv, CopiesInv, [Next]_vars
    PROVE  CopiesInv'
<1>0. TaskTypes'
  BY TasksTyped
<1> SUFFICES ASSUME NEW t \in Tasks
             PROVE  /\ IsFiniteSet(InFlight(t)')
                    /\ delivered'[t] + Cardinality(InFlight(t)') <= Budget(t)'
  BY DEF CopiesInv
<1>1. /\ delivered[t] \in Nat /\ Budget(t) \in Nat
      /\ IsFiniteSet(InFlight(t)) /\ Cardinality(InFlight(t)) \in Nat
      /\ delivered[t] + Cardinality(InFlight(t)) <= Budget(t)
  BY CopiesTyped
<1>2. CASE Manager
  <2>1. UNCHANGED <<netVars, retries, task>>
    BY <1>2, ManagerMoves
  <2>2. InFlight(t)' = InFlight(t) /\ UNCHANGED delivered
    BY <2>1, FlightSame DEF netVars
  <2>3. Tried(t)' = Tried(t)
    BY <1>2, <2>1, StartsAside DEF Tried
  <2>4. outcome'[t] = "success" <=> outcome[t] = "success"
    <3>1. CASE \E u \in Tasks : SubmitTask(u)
      BY <3>1 DEF SubmitTask, TaskTypes
    <3>2. CASE UNCHANGED outcome
      BY <3>2
    <3>3. QED
      BY <1>2, <3>1, <3>2, ManagerMoves
  <2>5. Budget(t)' = Budget(t)
    BY <2>1, <2>3, <2>4 DEF Budget
  <2>6. QED
    BY <1>1, <2>2, <2>5
<1>3. ASSUME NEW w \in Workers, WorkerLoop(w)
      PROVE  /\ IsFiniteSet(InFlight(t)')
             /\ delivered'[t] + Cardinality(InFlight(t)') <= Budget(t)'
  BY <1>0, <1>3, CopiesWorker
<1>4. CASE Environment \/ UNCHANGED vars
  <2>0. Budget(t)' = Budget(t)
    BY <1>4, EnvironmentMoves DEF Budget, Tried, vars, taskVars
  <2>1. ASSUME NEW c \in Connections, InstanceReceives(c)
        PROVE  /\ IsFiniteSet(InFlight(t)')
               /\ delivered'[t] + Cardinality(InFlight(t)') <= Budget(t)'
    <3>1. /\ IsFiniteSet(InFlight(t)')
          /\ Cardinality(InFlight(t)') <=
                Cardinality(InFlight(t)) - IF t = Head(sent[c]) THEN 1 ELSE 0
      BY <1>1, <2>1, FlightReceives
    <3>2. delivered'[t] = delivered[t] + IF t = Head(sent[c]) THEN 1 ELSE 0
      <4>1. delivered' = [delivered EXCEPT ![Head(sent[c])] = @ + 1] /\ Head(sent[c]) \in Tasks
        BY <2>1, Received DEF InstanceReceives
      <4>2. \A u \in Tasks :
               delivered'[u] = IF u = Head(sent[c]) THEN delivered[u] + 1 ELSE delivered[u]
        BY <4>1, Delivers
      <4>3. QED
        BY <1>1, <4>2
    <3>3. Cardinality(InFlight(t)') \in Nat
      BY <3>1, FS_CardinalityType
    <3>4. QED
      BY <1>1, <2>0, <3>1, <3>2, <3>3
  <2>2. ASSUME NEW c \in Connections, Drop(c)
        PROVE  /\ IsFiniteSet(InFlight(t)')
               /\ delivered'[t] + Cardinality(InFlight(t)') <= Budget(t)'
    <3>1. IsFiniteSet(InFlight(t)') /\ Cardinality(InFlight(t)') <= Cardinality(InFlight(t))
      BY <1>1, <2>2, FlightDrops, FS_Subset
    <3>2. Cardinality(InFlight(t)') \in Nat
      BY <3>1, FS_CardinalityType
    <3>3. UNCHANGED delivered
      BY <2>2 DEF Drop
    <3>4. QED
      BY <1>1, <2>0, <3>1, <3>2, <3>3
  <2>3. CASE UNCHANGED vars
    <3>1. InFlight(t)' = InFlight(t) /\ UNCHANGED delivered
      BY <2>3, FlightSame DEF vars, netVars
    <3>2. QED
      BY <1>1, <2>0, <3>1
  <2>4. QED
    BY <1>4, <2>1, <2>2, <2>3 DEF Environment
<1>5. QED
  BY <1>2, <1>3, <1>4 DEF Next

-----------------------------------------------------------------------------
DispatchInv == ManagerTypes /\ LoopTypes /\ WorkersInv /\ SocketTypes /\ TaskTypes /\ HeldInv

(* The invariant of the dispatcher holds at first.                           *)
LEMMA DispatchInit == Init => DispatchInv
<1> SUFFICES ASSUME Init PROVE DispatchInv
  OBVIOUS
<1>1. ManagerTypes /\ LoopTypes /\ WorkersInv
  BY ManagerInit, WorkersInit
<1>2. Len(<<>>) = 0 /\ 1..0 = {} /\ 0 \in 0..0
  OBVIOUS
<1>3. SocketTypes
  <2>1. <<>> \in Seq(BOOLEAN) /\ <<>> \in Seq(Seq(Tasks))
    OBVIOUS
  <2>2. QED
    BY <1>2, <2>1 DEF Init, SocketTypes, Opened, NoSocket
<1>4. TaskTypes
  <2>1. 0 <= MaxQueue /\ 0 \in 0..(MaxRetries + 1) /\ <<>> \in Seq(Tasks)
    BY Limits
  <2>2. QED
    BY <1>2, <2>1 DEF Init, TaskTypes, NoTask
<1>5. QueuedInv /\ HoldersInv /\ NewInv
  BY <1>2 DEF Init, QueuedInv, HoldersInv, NewInv, Dispatching
<1>6. CountInv
  <2>1. \A end \in Results : {t \in Tasks : outcome[t] = end} = {}
    BY DEF Init, Results
  <2>2. stats \in [Results -> Nat] /\ \A end \in Results : stats[end] = 0
    <3>1. stats = [success |-> 0, failure |-> 0]
      BY DEF Init
    <3>2. stats = [end \in Results |-> 0]
      BY <3>1 DEF Results
    <3>3. QED
      BY <3>2
  <2>3. QED
    BY <2>1, <2>2, FS_EmptySet DEF CountInv
<1>7. QED
  BY <1>1, <1>3, <1>4, <1>5, <1>6 DEF DispatchInv, HeldInv

(* Every step keeps the invariant of the dispatcher.                         *)
LEMMA DispatchStep == DispatchInv /\ [Next]_vars => DispatchInv'
BY ManagerTyped, LoopsTyped, WorkersStep, SocketsTyped, TasksTyped, HeldStep DEF DispatchInv

(* Nothing is acknowledged at first.                                         *)
LEMMA AcksInit == Init => AcksInv
<1>1. Len(<<>>) = 0 /\ 1..0 = {}
  OBVIOUS
<1>2. QED
  BY <1>1 DEF Init, AcksInv, SuccessDelivered, Connections, Opened

(* Nothing is sent at first.                                                 *)
LEMMA CopiesInit == Init => CopiesInv
<1> SUFFICES ASSUME Init, NEW t \in Tasks
             PROVE  IsFiniteSet(InFlight(t)) /\ delivered[t] + Cardinality(InFlight(t)) <= Budget(t)
  BY DEF CopiesInv
<1>1. Len(<<>>) = 0 /\ 1..0 = {}
  OBVIOUS
<1>2. InFlight(t) = {}
  BY <1>1 DEF Init, InFlight, Connections, Opened
<1>3. IsFiniteSet(InFlight(t)) /\ Cardinality(InFlight(t)) = 0
  BY <1>2, FS_EmptySet
<1>4. delivered[t] = 0 /\ retries[t] = 0
  BY DEF Init
<1>5. QED
  BY <1>3, <1>4 DEF Budget

(* Every variable stays in its type; the counters are those of the callbacks, *)
(* since a task is ended by one worker, once.                                *)
THEOREM DispatcherTyped == Spec => []TypeOK
<1>1. DispatchInv => TypeOK
  BY DEF DispatchInv, ManagerTypes, LoopTypes, SocketTypes, TaskTypes, HeldInv, CountInv,
         Places, Results, TypeOK
<1>2. QED
  BY DispatchInit, DispatchStep, <1>1, PTL DEF Spec

(* A dispatcher that runs has a worker, although a worker ends when another  *)
(* runs the loop both use, or when a stop has closed that loop.              *)
THEOREM WorkerStays == Spec => []RunningHasWorker
<1>1. DispatchInv => RunningHasWorker
  BY DEF DispatchInv, WorkersInv, RunningHasWorker
<1>2. QED
  BY DispatchInit, DispatchStep, <1>1, PTL DEF Spec

(* A callback reports success only for a task the instance has received,     *)
(* whichever acknowledgements the workers read, and in whatever order.       *)
THEOREM SuccessesArrive == Spec => []SuccessDelivered
<1>1. DispatchInv /\ AcksInv /\ [Next]_vars => AcksInv'
  BY AcksStep DEF DispatchInv
<1>2. AcksInv => SuccessDelivered
  BY DEF AcksInv
<1>3. QED
  BY DispatchInit, DispatchStep, AcksInit, <1>1, <1>2, PTL DEF Spec

(* The retries bound the copies of a task that the instance gets.            *)
THEOREM RetriesBoundCopies == Spec => []CopiesBounded
<1>1. DispatchInv /\ CopiesInv /\ [Next]_vars => CopiesInv'
  BY CopiesStep DEF DispatchInv
<1>2. DispatchInv /\ CopiesInv => CopiesBounded
  <2> SUFFICES ASSUME DispatchInv, CopiesInv, NEW t \in Tasks
               PROVE  delivered[t] <= 2 * (retries[t] + 1)
    BY DEF CopiesBounded
  <2>1. /\ delivered[t] \in Nat /\ Budget(t) \in Nat /\ Cardinality(InFlight(t)) \in Nat
        /\ delivered[t] + Cardinality(InFlight(t)) <= Budget(t)
    BY CopiesTyped DEF DispatchInv
  <2>2. retries[t] \in Nat /\ Budget(t) <= 2 * retries[t] + 2
    BY BudgetTyped DEF DispatchInv
  <2>3. QED
    BY <2>1, <2>2
<1>3. QED
  BY DispatchInit, DispatchStep, CopiesInit, <1>1, <1>2, PTL DEF Spec
=============================================================================
