------------------------- MODULE InstanceDispatcher -------------------------
(***************************************************************************)
(* The dispatcher of one TaskInstance, under its manager: a bounded queue, *)
(* and a worker thread that sends each task over a WebSocket, waits a      *)
(* while for the acknowledgement, and otherwise sends the task again over  *)
(* HTTP, with retries.                                                     *)
(*                                                                         *)
(* A stop waits for the worker only so long.  A start that follows clears  *)
(* the stop event before a busy worker has seen it: two workers then share *)
(* the queue, the connection and the event loop.                           *)
(***************************************************************************)
EXTENDS Integers, Sequences, FiniteSets

CONSTANTS
    Tasks,            (* task ids                                            *)
    MaxStarts,        (* bound: the worker threads that are started          *)
    MaxQueue,         (* max_queue_size                                      *)
    MaxRetries,       (* max_retries of a DispatchTask                       *)
    MaxConnections    (* bound: the connections that are opened              *)

ASSUME DispatcherAssumption ==
    /\ IsFiniteSet(Tasks)
    /\ {MaxStarts, MaxQueue, MaxRetries, MaxConnections} \subseteq Nat

VARIABLES
    managing,         (* DispatchQueueManager._running                       *)
    listed,           (* the dispatcher's entry: "not yet", "listed", "gone" *)
    running,          (* _running                                            *)
    stopping,         (* _stop_event                                         *)
    stopper,          (* the call of stop, which holds the manager's lock    *)
    started,          (* the threads started; _worker_thread is the last one *)
    queue,            (* dispatch_queue                                      *)
    place,            (* where a worker thread is                            *)
    task,             (* the task a worker has taken                         *)
    retries,          (* retry_count                                         *)
    outcome,          (* what became of a task                               *)
    stats,            (* tasks_dispatched, tasks_failed                      *)
    loop,             (* _loop: the worker that created it                   *)
    closed,           (* the loops that are closed                           *)
    using,            (* the loop a worker runs                              *)
    connected,        (* _websocket_connected                                *)
    websocket,        (* _websocket: the number of a connection              *)
    request,          (* the connection a worker awaits an answer on         *)
    up, sent, acks,   (* per connection: alive, on their way out and back    *)
    delivered         (* copies of a task the instance has received          *)

managerVars == <<managing, listed, running, stopping, stopper, started>>
loopVars == <<loop, closed, using>>
socketVars == <<connected, websocket>>
netVars == <<up, sent, acks, delivered>>
taskVars == <<queue, task, retries, outcome, stats>>
vars == <<managerVars, loopVars, socketVars, request, netVars, taskVars, place>>

Workers == 1..MaxStarts       (* in the order of their starts *)
NoTask == "none"
NoLoop == 0
NoSocket == 0
Opened == Len(up)
Connections == 1..Opened
OnLoop == {"opening", "connecting", "awaiting"}     (* inside run_until_complete *)
Alive(w) == place[w] \notin {"unstarted", "exited"}
Unlocked == stopper = "idle"             (* _dispatchers_lock is free *)

-----------------------------------------------------------------------------
(* The manager.  Its lock makes each operation one step, but for the stop.   *)
StartThread ==
    /\ started < MaxStarts
    /\ running' = TRUE /\ stopping' = FALSE
    /\ started' = started + 1
    /\ place' = [place EXCEPT ![started + 1] = "begin"]

NoStart == UNCHANGED <<running, stopping, started, place>>

CreateDispatcher ==
    /\ Unlocked /\ listed = "not yet"
    /\ listed' = "listed"
    /\ IF managing THEN StartThread ELSE NoStart
    /\ UNCHANGED <<managing, stopper, loopVars, socketVars, request, netVars, taskVars>>

StartAll ==
    /\ Unlocked /\ ~managing
    /\ managing' = TRUE
    /\ IF listed = "listed" THEN StartThread ELSE NoStart
    /\ UNCHANGED <<listed, stopper, loopVars, socketVars, request, netVars, taskVars>>

BeginStop ==
    IF running
    THEN running' = FALSE /\ stopping' = TRUE /\ stopper' = "join"
    ELSE UNCHANGED <<running, stopping, stopper>>

(* Without a dispatcher stop_all raises, when the flag is already cleared.   *)
StopAll ==
    /\ Unlocked /\ managing
    /\ managing' = FALSE
    /\ IF listed = "listed" THEN BeginStop ELSE UNCHANGED <<running, stopping, stopper>>
    /\ UNCHANGED <<listed, started, loopVars, socketVars, request, netVars, taskVars, place>>

RemoveDispatcher ==
    /\ Unlocked /\ listed = "listed"
    /\ listed' = "gone"
    /\ BeginStop
    /\ UNCHANGED <<managing, started, loopVars, socketVars, request, netVars, taskVars, place>>

Disconnected == connected' = FALSE /\ websocket' = NoSocket

IsRun(l) == \E v \in Workers : place[v] \in OnLoop /\ using[v] = l

(* The join ends with the worker, or without it: the timeout.  A loop that   *)
(* a worker runs can neither be run by the stop nor closed: stop raises.     *)
EndStop ==
    /\ stopper = "join"
    /\ stopper' = "idle"
    /\ IF loop = NoLoop \/ loop \in closed \/ IsRun(loop)
       THEN UNCHANGED <<closed, socketVars>>
       ELSE /\ closed' = closed \cup {loop}
            /\ IF connected /\ websocket # NoSocket
               THEN Disconnected
               ELSE UNCHANGED socketVars
    /\ UNCHANGED <<managing, listed, running, stopping, started, loop, using,
                   request, netVars, taskVars, place>>

(* DispatchQueueManager.submit_task passes the call on.                      *)
DispatcherFound == Unlocked /\ listed = "listed"

(* A full queue refuses the task, after a moment.                            *)
SubmitTask(t) ==
    /\ DispatcherFound /\ running /\ outcome[t] = "new"
    /\ IF Len(queue) < MaxQueue
       THEN queue' = Append(queue, t) /\ outcome' = [outcome EXCEPT ![t] = "accepted"]
       ELSE outcome' = [outcome EXCEPT ![t] = "refused"] /\ UNCHANGED queue
    /\ UNCHANGED <<managerVars, loopVars, socketVars, request, netVars, task, retries,
                   stats, place>>

-----------------------------------------------------------------------------
(* A worker thread.                                                          *)
Go(w, where) == place' = [place EXCEPT ![w] = where]

(* mutant: the event loop of an earlier start is used again *)
BeginAgain(w) ==
    /\ place[w] = "begin"
    /\ loop' = IF loop = NoLoop THEN w ELSE loop
    /\ Go(w, "open")
    /\ UNCHANGED <<managerVars, closed, using, socketVars, request, netVars, taskVars>>

Begin(w) ==
    /\ place[w] = "begin"
    /\ loop' = w
    /\ Go(w, "open")
    /\ UNCHANGED <<managerVars, closed, using, socketVars, request, netVars, taskVars>>

(* run_until_complete raises when the loop is closed or already run.         *)
Runnable == loop \notin closed /\ ~IsRun(loop)

(* Outside of a dispatch, the exception ends the thread.                     *)
RunConnect(w) ==
    /\ place[w] \in {"open", "connect"}
    /\ IF Runnable
       THEN /\ Go(w, IF place[w] = "open" THEN "opening" ELSE "connecting")
            /\ using' = [using EXCEPT ![w] = loop]
       ELSE Go(w, "exited") /\ UNCHANGED using
    /\ UNCHANGED <<managerVars, loop, closed, socketVars, request, netVars, taskVars>>

(* The worker's call of run_until_complete returns. *)
OffLoop(w) ==
    /\ using' = [using EXCEPT ![w] = NoLoop]
    /\ request' = [request EXCEPT ![w] = NoSocket]
    /\ UNCHANGED <<loop, closed>>

(* The first connection comes before the loop, a later one is made in it.    *)
EndConnect(w) ==
    /\ OffLoop(w)
    /\ \/ place[w] = "opening" /\ Go(w, "loop")
       \/ place[w] = "connecting" /\ Go(w, "get")

Connect(w) ==
    /\ EndConnect(w) /\ Opened < MaxConnections
    /\ up' = Append(up, TRUE)
    /\ sent' = Append(sent, <<>>) /\ acks' = Append(acks, <<>>)
    /\ connected' = TRUE /\ websocket' = Opened + 1
    /\ UNCHANGED <<managerVars, delivered, taskVars>>

(* An exception, or a registration that is not confirmed as expected.        *)
ConnectFails(w) ==
    /\ EndConnect(w)
    /\ websocket' = NoSocket
    /\ connected' \in {FALSE, connected}
    /\ UNCHANGED <<managerVars, netVars, taskVars>>

(* The loop ends by closing the connection, if that can be done.             *)
Leave(w) ==
    /\ Go(w, "exited")
    /\ IF connected /\ Runnable /\ websocket # NoSocket THEN Disconnected
                                                        ELSE UNCHANGED socketVars

LoopTop(w) ==
    /\ place[w] = "loop"
    /\ IF stopping THEN Leave(w)
       ELSE /\ Go(w, "get") \/ (~connected /\ Go(w, "connect"))
            /\ UNCHANGED socketVars
    /\ UNCHANGED <<managerVars, loopVars, request, netVars, taskVars>>

GetTask(w) ==
    /\ place[w] = "get"
    /\ IF queue = <<>>
       THEN Go(w, "loop") /\ UNCHANGED <<queue, task>>
       ELSE /\ task' = [task EXCEPT ![w] = Head(queue)]
            /\ queue' = Tail(queue)
            /\ Go(w, "attempt")
    /\ UNCHANGED <<managerVars, loopVars, socketVars, request, netVars, retries, outcome, stats>>

(* mutant: only the tasks that succeed are counted *)
FinishUncounted(w, result) ==
    /\ outcome' = [outcome EXCEPT ![task[w]] = result]
    /\ stats' = IF result = "failure" THEN stats ELSE [stats EXCEPT ![result] = @ + 1]
    /\ task' = [task EXCEPT ![w] = NoTask]
    /\ Go(w, "loop")

(* The counters, and the callback with the result.                           *)
Finish(w, result) ==
    /\ outcome' = [outcome EXCEPT ![task[w]] = result]
    /\ stats' = [stats EXCEPT ![result] = @ + 1]
    /\ task' = [task EXCEPT ![w] = NoTask]
    /\ Go(w, "loop")

Continue(w, where) == Go(w, where) /\ UNCHANGED <<outcome, stats, task>>

(* An exception in an attempt: retry after a delay, or give up.              *)
Failed(w) ==
    /\ retries' = [retries EXCEPT ![task[w]] = @ + 1]
    /\ IF retries[task[w]] < MaxRetries THEN Continue(w, "attempt")
                                        ELSE Finish(w, "failure")

(* _dispatch_via_websocket, up to the wait: without a socket, or on a closed *)
(* one, the task goes over HTTP at once.                                     *)
SendTask(w) ==
    /\ IF websocket # NoSocket /\ up[websocket]
       THEN /\ sent' = [sent EXCEPT ![websocket] = Append(@, task[w])]
            /\ request' = [request EXCEPT ![w] = websocket]
            /\ using' = [using EXCEPT ![w] = loop]
            /\ Go(w, "awaiting")
            /\ UNCHANGED socketVars
       ELSE /\ Go(w, "http")
            /\ IF websocket = NoSocket THEN UNCHANGED socketVars ELSE Disconnected
            /\ UNCHANGED <<sent, request, using>>

(* While another thread runs the loop, the dispatch itself raises.           *)
Attempt(w) ==
    /\ place[w] = "attempt"
    /\ IF connected /\ ~Runnable
       THEN Failed(w) /\ UNCHANGED <<using, request, sent, socketVars>>
       ELSE /\ IF connected THEN SendTask(w)
                            ELSE Go(w, "http") /\ UNCHANGED <<using, request, sent, socketVars>>
            /\ UNCHANGED <<retries, outcome, stats, task>>
    /\ UNCHANGED <<managerVars, loop, closed, up, acks, delivered, queue>>

(* mutant: any acknowledgement is taken for the task's own *)
AnyAck(ack, t) == TRUE

AckFor(ack, t) == ack = t

(* The next message on the connection is read.  One for another task, which  *)
(* came too late for it, counts as a failure and sends the task over HTTP.   *)
ReceiveAck(w) ==
    LET c == request[w] IN
    /\ place[w] = "awaiting" /\ acks[c] # <<>>
    /\ acks' = [acks EXCEPT ![c] = Tail(@)]
    /\ OffLoop(w)
    /\ IF AckFor(Head(acks[c]), task[w]) THEN Finish(w, "success") ELSE Continue(w, "http")
    /\ UNCHANGED <<managerVars, socketVars, up, sent, delivered, queue, retries>>

AckTimeout(w) ==
    /\ place[w] = "awaiting"
    /\ OffLoop(w)
    /\ Go(w, "http")
    /\ UNCHANGED <<managerVars, socketVars, netVars, taskVars>>

AckLost(w) ==
    /\ place[w] = "awaiting" /\ ~up[request[w]] /\ acks[request[w]] = <<>>
    /\ Disconnected
    /\ OffLoop(w)
    /\ Go(w, "http")
    /\ UNCHANGED <<managerVars, netVars, taskVars>>

(* mutant: an attempt that the instance received is not counted *)
FailedUnlessArrived(w, arrives) ==
    IF arrives THEN Continue(w, "attempt") /\ UNCHANGED retries ELSE Failed(w)

HttpFailure(w, arrives) == Failed(w)

(* enqueue_task: the request arrives or not, the response too.               *)
EnqueueHttp(w, arrives) ==
    /\ place[w] = "http"
    /\ delivered' = [delivered EXCEPT ![task[w]] = IF arrives THEN @ + 1 ELSE @]
    /\ \/ arrives /\ Finish(w, "success") /\ UNCHANGED retries
       \/ HttpFailure(w, arrives)
    /\ UNCHANGED <<managerVars, loopVars, socketVars, request, up, sent, acks, queue>>

-----------------------------------------------------------------------------
(* The TaskInstance and the network.                                         *)
InstanceReceives(c) ==
    /\ up[c] /\ sent[c] # <<>>
    /\ delivered' = [delivered EXCEPT ![Head(sent[c])] = @ + 1]
    /\ sent' = [sent EXCEPT ![c] = Tail(@)]
    /\ acks' = [acks EXCEPT ![c] = Append(@, Head(sent[c]))]
    /\ UNCHANGED <<managerVars, loopVars, socketVars, request, up, taskVars, place>>

(* What the instance has not received is lost; what it sent is not.          *)
Drop(c) ==
    /\ up[c]
    /\ up' = [up EXCEPT ![c] = FALSE]
    /\ sent' = [sent EXCEPT ![c] = <<>>]
    /\ UNCHANGED <<managerVars, loopVars, socketVars, request, acks, delivered, taskVars, place>>

-----------------------------------------------------------------------------
Init ==
    /\ managing = FALSE /\ listed = "not yet"
    /\ running = FALSE /\ stopping = FALSE /\ stopper = "idle" /\ started = 0
    /\ queue = <<>>
    /\ place = [w \in Workers |-> "unstarted"]
    /\ task = [w \in Workers |-> NoTask]
    /\ retries = [t \in Tasks |-> 0]
    /\ outcome = [t \in Tasks |-> "new"]
    /\ stats = [success |-> 0, failure |-> 0]
    /\ loop = NoLoop /\ closed = {} /\ using = [w \in Workers |-> NoLoop]
    /\ connected = FALSE /\ websocket = NoSocket
    /\ request = [w \in Workers |-> NoSocket]
    /\ up = <<>> /\ sent = <<>> /\ acks = <<>>
    /\ delivered = [t \in Tasks |-> 0]

Manager ==
    \/ CreateDispatcher \/ StartAll \/ StopAll \/ RemoveDispatcher \/ EndStop
    \/ \E t \in Tasks : SubmitTask(t)

WorkerLoop(w) ==
    \/ Begin(w) \/ RunConnect(w) \/ Connect(w) \/ ConnectFails(w)
    \/ LoopTop(w) \/ GetTask(w) \/ Attempt(w)
    \/ ReceiveAck(w) \/ AckTimeout(w) \/ AckLost(w)
    \/ \E arrives \in BOOLEAN : EnqueueHttp(w, arrives)

Environment == \E c \in Connections : InstanceReceives(c) \/ Drop(c)

Next == Manager \/ Environment \/ \E w \in Workers : WorkerLoop(w)

Spec == Init /\ [][Next]_vars

-----------------------------------------------------------------------------
(* Type invariant; the counters of instance_dispatcher.py are those of the   *)
(* callbacks.                                                                *)
TypeOK ==
    /\ managing \in BOOLEAN /\ running \in BOOLEAN /\ stopping \in BOOLEAN
    /\ listed \in {"not yet", "listed", "gone"}
    /\ stopper \in {"idle", "join"} /\ started \in 0..MaxStarts
    /\ queue \in Seq(Tasks) /\ Len(queue) <= MaxQueue
    /\ place \in [Workers ->
           {"unstarted", "begin", "open", "opening", "loop", "connect", "connecting",
            "get", "attempt", "awaiting", "http", "exited"}]
    /\ task \in [Workers -> Tasks \cup {NoTask}]
    /\ retries \in [Tasks -> 0..(MaxRetries + 1)]
    /\ outcome \in [Tasks -> {"new", "accepted", "refused", "success", "failure"}]
    /\ \A end \in {"success", "failure"} :
           stats[end] = Cardinality({t \in Tasks : outcome[t] = end})
    /\ loop \in 0..MaxStarts /\ closed \subseteq Workers
    /\ using \in [Workers -> 0..MaxStarts]
    /\ connected \in BOOLEAN /\ websocket \in 0..Opened
    /\ request \in [Workers -> 0..Opened]
    /\ up \in Seq(BOOLEAN) /\ sent \in Seq(Seq(Tasks)) /\ acks \in Seq(Seq(Tasks))
    /\ delivered \in [Tasks -> Nat]

(* A callback reports success only for a task the instance has received,     *)
(* although an acknowledgement that came too late is the next message that   *)
(* the dispatcher reads, a task or more later, and workers may share the     *)
(* connection.                                                               *)
SuccessDelivered == \A t \in Tasks : outcome[t] = "success" => delivered[t] > 0

(* Each attempt sends a task at most twice, over the WebSocket and over      *)
(* HTTP: this bounds the copies the instance gets by the retries.            *)
CopiesBounded == \A t \in Tasks : delivered[t] <= 2 * (retries[t] + 1)

(* A running dispatcher has a worker.  One of two workers may end because    *)
(* the other runs the loop both use, or because a stop has closed it, but    *)
(* never both of them.                                                       *)
RunningHasWorker == running => \E w \in Workers : Alive(w)

(* Refuted.  "each TaskInstance has a dedicated background thread"           *)
(* (instance_dispatcher.py:4): after a restart two may dispatch at once.     *)
DedicatedThread ==
    \A v, w \in Workers : task[v] # NoTask /\ task[w] # NoTask => v = w
=============================================================================
