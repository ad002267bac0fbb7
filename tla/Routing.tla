------------------------------ MODULE Routing ------------------------------
(***************************************************************************)
(* The registry of TaskInstances and the strategies round_robin, weighted  *)
(* and probabilistic, on the synchronous path (SchedulerCore has the       *)
(* shortest_queue strategy over instances that stay).  Instances come and  *)
(* go while tasks are routed to them, and their results are charged to the *)
(* uuid that the instance_id of the sender is resolved to.                 *)
(*                                                                         *)
(* The event loop runs each handler to its end; the queue-update worker is *)
(* a second thread.  A uuid is the number of its registration.  A queue's  *)
(* distribution is the set of the tasks whose predictions are summed in it.*)
(***************************************************************************)
EXTENDS Naturals, Sequences, SequencesExt, FiniteSets

CONSTANTS
    Hosts,          (* addresses (host and port) of instances                *)
    Ids,            (* instance ids, "ti-<port>"                             *)
    NoId,           (* no instance_id is cached                              *)
    IdOf,           (* IdOf[h]: the id in the status of the instance at h    *)
    Serves,         (* Serves[h]: the model it serves                        *)
    Configured,     (* the hosts of the configuration file                   *)
    Started,        (* the hosts that answer when it is loaded               *)
    Rank,           (* Rank[u]: the order of str(uuid)                       *)
    Tasks,
    Misfits,        (* tasks predicted with another number of quantiles      *)
    Strategies,     (* the strategies that are set                           *)
    MaxIssued,      (* bound: registrations                                  *)
    MaxChanges      (* bound: changes of the registry, the strategy, the     *)
                    (* hosts that answer, and clears                         *)

Uuids == 1..MaxIssued
Models == {Serves[h] : h \in Hosts}

ASSUME RoutingAssumption ==
    /\ IdOf \in [Hosts -> Ids] /\ NoId \notin Ids
    /\ Configured \in Seq(Hosts) /\ Len(Configured) <= MaxIssued
    /\ Started \subseteq Hosts
    /\ Rank \in [Uuids -> Nat] /\ IsInjective(Rank)
    /\ Misfits \subseteq Tasks
    /\ Strategies \subseteq {"round_robin", "weighted", "probabilistic"}
    /\ MaxIssued \in Nat /\ MaxChanges \in Nat

VARIABLES
    instances,      (* instances[u]: what was registered as u                *)
    taskinstances,  (* the list of registered uuids                          *)
    idToUuid,       (* _instance_id_to_uuid                                  *)
    answering,      (* hosts that answer requests                            *)
    strategy,       (* the name of the strategy and its current_index        *)
    queues,         (* queue_states of the probabilistic strategy            *)
    status,         (* what became of a task                                 *)
    route,          (* the uuid it was routed to                             *)
    updates,        (* _queue_update_queue                                   *)
    worker,         (* the queue-update worker                               *)
    unforgotten,    (* history: removed while not answering                  *)
    cleared,        (* history: tasks a clear took from the strategy's cache *)
    streak,         (* history: selections since the candidates changed      *)
    changes         (* history: changes so far                               *)

registryVars == <<instances, taskinstances, idToUuid, unforgotten>>
strategyVars == <<strategy, queues, cleared>>
taskVars == <<status, route>>
vars == <<registryVars, answering, strategyVars, taskVars, updates, worker, streak,
          changes>>

Listed == ToSet(taskinstances)
HostOf(u) == instances[u].host

Change == changes < MaxChanges /\ changes' = changes + 1

-----------------------------------------------------------------------------
(* The registry.                                                             *)

(* The status of the instance, asked once, gives the id that is cached.      *)
CachedId(h) == IF h \in answering THEN IdOf[h] ELSE NoId

Cached(cache, id, u) ==
    [i \in (DOMAIN cache \cup {id}) \ {NoId} |-> IF i = id THEN u ELSE cache[i]]

AddTaskInstance(h) ==
    LET u == Len(instances) + 1
    IN  /\ Change
        /\ u \in Uuids
        /\ instances' = Append(instances, [host |-> h, id |-> CachedId(h)])
        /\ taskinstances' = Append(taskinstances, u)
        /\ idToUuid' = Cached(idToUuid, CachedId(h), u)
        /\ UNCHANGED <<unforgotten, answering, strategyVars, taskVars,
                       updates, worker, streak>>

(* mutant: the removed instance stays in the cache *)
ForgetNothing(h) == idToUuid

(* The id's entry is deleted, whichever uuid it has by now.                  *)
Forgotten(h) == [i \in DOMAIN idToUuid \ {IdOf[h]} |-> idToUuid[i]]

RemoveIndex(k) ==
    LET u == taskinstances[k]
    IN  /\ Change
        /\ taskinstances' = RemoveAt(taskinstances, k)
        /\ IF HostOf(u) \in answering
           THEN idToUuid' = Forgotten(HostOf(u)) /\ UNCHANGED unforgotten
           ELSE unforgotten' = unforgotten \cup {u} /\ UNCHANGED idToUuid
        /\ UNCHANGED <<instances, answering, strategyVars, taskVars,
                       updates, worker, streak>>

RemoveTaskInstance(u) ==
    \E k \in DOMAIN taskinstances : taskinstances[k] = u /\ RemoveIndex(k)

RemoveTaskInstanceByAddress(h) ==
    LET At(u) == HostOf(u) = h
        k == SelectInSeq(taskinstances, At)
    IN  k # 0 /\ RemoveIndex(k)

(* An instance stops or starts to answer.                                    *)
ToggleAnswering(h) ==
    /\ Change
    /\ answering' = IF h \in answering THEN answering \ {h} ELSE answering \cup {h}
    /\ UNCHANGED <<registryVars, strategyVars, taskVars, updates, worker, streak>>

-----------------------------------------------------------------------------
(* Selection.                                                                *)
(* The loop over the list, after k of its members.                           *)
Filtered(list, suiting) ==
    LET after[k \in 0..Len(list)] ==
            IF k = 0 THEN <<>>
            ELSE IF list[k] \in suiting THEN Append(after[k - 1], list[k])
                                        ELSE after[k - 1]
    IN  after[Len(list)]

Candidates(m) ==
    Filtered(taskinstances,
             {u \in Listed : Serves[HostOf(u)] = m /\ instances[u].id # NoId})

(* mutant: the index wraps before the last place *)
AdvancedTooShort(cs) ==
    (strategy.index + 1) % (IF Len(cs) > 1 THEN Len(cs) - 1 ELSE 1)

Advanced(cs) == (strategy.index + 1) % Len(cs)

(* The weighted strategy: the scores are all 0, as no queue size is known    *)
(* and so no prediction asked for, and the task counts too, as update_queue  *)
(* rejects the arguments of the worker.                                      *)
FirstRanked(cs) ==
    CHOOSE u \in ToSet(cs) : \A v \in ToSet(cs) : Rank[u] <= Rank[v]

(* The probabilistic strategy raises on an instance that was registered      *)
(* after it was set.                                                         *)
Selects(cs, u) ==
    CASE strategy.name = "round_robin" -> u = cs[(strategy.index % Len(cs)) + 1]
      [] strategy.name = "weighted" -> u = FirstRanked(cs)
      [] strategy.name = "probabilistic" ->
            u \in ToSet(cs) /\ ToSet(cs) \subseteq DOMAIN queues

NoStreak == [of |-> <<>>, picks |-> <<>>]
Picked(cs, u) ==
    LET picks == IF streak.of = cs THEN streak.picks ELSE [v \in ToSet(cs) |-> 0]
    IN  [of |-> cs, picks |-> [picks EXCEPT ![u] = @ + 1]]

(* mutant: a last-in-first-out queue *)
SubmitAtFront(u) == updates' = <<u>> \o updates

SubmitUpdate(u) == updates' = Append(updates, u)

(* POST /queue/submit: the task is registered, then enqueued, and charged    *)
(* when the enqueue succeeds.                                                *)
Schedule(t, m) ==
    LET cs == Candidates(m)
    IN  /\ status[t] = "new" /\ cs # <<>>
        /\ \E u \in ToSet(cs) :
             /\ Selects(cs, u)
             /\ streak' = IF strategy.name = "round_robin"
                          THEN Picked(cs, u) ELSE NoStreak
             /\ route' = [route EXCEPT ![t] = u]
             /\ IF HostOf(u) \in answering
                THEN /\ status' = [status EXCEPT ![t] = "running"]
                     /\ SubmitUpdate([type |-> "schedule", task |-> t, uuid |-> u])
                ELSE status' = [status EXCEPT ![t] = "failed"] /\ UNCHANGED updates
        /\ strategy' = IF strategy.name = "round_robin"
                       THEN [strategy EXCEPT !.index = Advanced(cs)] ELSE strategy
        /\ UNCHANGED <<registryVars, answering, queues, cleared, worker, changes>>

-----------------------------------------------------------------------------
(* Results.                                                                  *)

(* The first listed instance whose status has the id.                        *)
SlowLookup(id) ==
    LET Has(u) == HostOf(u) \in answering /\ IdOf[HostOf(u)] = id
    IN  SelectInSeq(taskinstances, Has)

Complete(t, u) ==
    /\ status' = [status EXCEPT ![t] = "done"]
    /\ SubmitUpdate([type |-> "completion", task |-> t, uuid |-> u])
    /\ UNCHANGED <<instances, taskinstances, unforgotten, answering,
                   strategyVars, route, worker, streak, changes>>

(* POST /result/submit: get_uuid_by_instance_id takes the cache's answer, or *)
(* looks the id up and caches it; the result of an unknown id is refused.    *)
SubmitResult(t) ==
    /\ status[t] = "running"
    /\ LET id == IdOf[HostOf(route[t])]
           k == SlowLookup(id)
       IN  IF id \in DOMAIN idToUuid
           THEN Complete(t, idToUuid[id]) /\ UNCHANGED idToUuid
           ELSE /\ k # 0
                /\ Complete(t, taskinstances[k])
                /\ idToUuid' = Cached(idToUuid, id, taskinstances[k])

(* POST /notify/task_complete asks every instance, and fails with the first  *)
(* that does not answer.                                                     *)
NotifyTaskCompletion(t) ==
    /\ status[t] = "running"
    /\ LET k == SlowLookup(IdOf[HostOf(route[t])])
       IN  /\ k # 0
           /\ \A j \in 1..k : HostOf(taskinstances[j]) \in answering
           /\ Complete(t, taskinstances[k])
    /\ UNCHANGED idToUuid

-----------------------------------------------------------------------------
(* The strategy and its queue states.                                        *)
EmptyQueue == [pending |-> {}, dist |-> {}, taskCount |-> 0]
FreshQueues(name) ==
    IF name = "probabilistic" THEN [u \in Listed |-> EmptyQueue] ELSE <<>>

(* POST /scheduler/set: a new object; the worker goes on with the old one,   *)
(* which nobody looks at any more.                                           *)
SetStrategy(name) ==
    /\ Change
    /\ strategy' = [name |-> name, index |-> 0]
    /\ queues' = FreshQueues(name)
    /\ worker' = [pc |-> "idle"]
    /\ streak' = NoStreak
    /\ UNCHANGED <<registryVars, cleared, answering, taskVars, updates>>

Held == IF worker.pc = "idle" THEN {} ELSE {worker.task}

(* POST /task/clear: the pending tasks and the counts, not the distribution. *)
ClearPendingTasks ==
    /\ Change
    /\ strategy.name = "probabilistic"
    /\ queues' = [u \in DOMAIN queues |->
                    [queues[u] EXCEPT !.pending = {}, !.taskCount = 0]]
    /\ cleared' = cleared \cup Held
                      \cup UNION {queues[u].pending : u \in DOMAIN queues}
    /\ UNCHANGED <<registryVars, answering, strategy, taskVars, updates, worker,
                   streak>>

-----------------------------------------------------------------------------
(* The queue-update worker.                                                  *)
WorkerOnly ==
    UNCHANGED <<registryVars, answering, strategy, cleared, taskVars, streak,
                changes>>

TakeUpdate ==
    /\ worker.pc = "idle" /\ updates # <<>>
    /\ LET u == Head(updates)
       IN  worker' = [pc |-> u.type, task |-> u.task, uuid |-> u.uuid]
    /\ updates' = Tail(updates)
    /\ UNCHANGED queues
    /\ WorkerOnly

Tracked == worker.uuid \in DOMAIN queues
Pending == worker.task \in queues[worker.uuid].pending

(* The update raises or has no effect: another strategy, an unknown          *)
(* instance, no prediction, a completion without a prediction.               *)
Discard ==
    /\ \/ worker.pc = "schedule"
       \/ worker.pc = "completion" /\ ~(Tracked /\ Pending)
    /\ worker' = [pc |-> "idle"]
    /\ UNCHANGED <<queues, updates>>
    /\ WorkerOnly

(* update_queue caches the prediction ...                                    *)
CachePrediction ==
    /\ worker.pc = "schedule" /\ Tracked
    /\ queues' = [queues EXCEPT ![worker.uuid].pending = @ \cup {worker.task}]
    /\ worker' = [worker EXCEPT !.pc = "add"]
    /\ UNCHANGED updates
    /\ WorkerOnly

(* ... and adds it to the distribution, which raises when it has another     *)
(* number of quantiles.                                                      *)
(* mutant: counted before the quantiles are compared *)
CountedFirst(q, t) ==
    [q EXCEPT !.taskCount = @ + 1, !.dist = @ \cup ({t} \ Misfits)]

Added(q, t) ==
    IF t \in Misfits THEN q
    ELSE [q EXCEPT !.dist = @ \cup {t}, !.taskCount = @ + 1]

AddPrediction ==
    /\ worker.pc = "add"
    /\ queues' = [queues EXCEPT ![worker.uuid] = Added(@, worker.task)]
    /\ worker' = [pc |-> "idle"]
    /\ UNCHANGED updates
    /\ WorkerOnly

(* update_queue_on_completion: the prediction leaves the cache ...           *)
PopPrediction ==
    /\ worker.pc = "completion" /\ Tracked /\ Pending
    /\ queues' = [queues EXCEPT ![worker.uuid].pending = @ \ {worker.task}]
    /\ worker' = [worker EXCEPT !.pc = "sub"]
    /\ UNCHANGED updates
    /\ WorkerOnly

(* ... and is subtracted, unless it does not fit.                            *)
Subtracted(q, t) ==
    IF t \in Misfits THEN q
    ELSE [q EXCEPT !.dist = @ \ {t}, !.taskCount = IF @ > 0 THEN @ - 1 ELSE 0]

SubPrediction ==
    /\ worker.pc = "sub"
    /\ queues' = [queues EXCEPT ![worker.uuid] = Subtracted(@, worker.task)]
    /\ worker' = [pc |-> "idle"]
    /\ UNCHANGED updates
    /\ WorkerOnly

-----------------------------------------------------------------------------
(* The start: load_task_instances_from_config, with instances that answer or *)
(* do not, and then a strategy is set.                                       *)
Init ==
    /\ answering = Started
    /\ instances = [k \in DOMAIN Configured |->
                      [host |-> Configured[k], id |-> CachedId(Configured[k])]]
    /\ taskinstances = [k \in DOMAIN Configured |-> k]
    /\ idToUuid = [i \in {IdOf[h] : h \in ToSet(Configured) \cap answering} |->
                     CHOOSE u \in DOMAIN Configured :
                         /\ instances[u].id = i
                         /\ \A v \in DOMAIN Configured :
                                instances[v].id = i => v <= u]
    /\ \E name \in Strategies :
         strategy = [name |-> name, index |-> 0] /\ queues = FreshQueues(name)
    /\ status = [t \in Tasks |-> "new"] /\ route = [t \in Tasks |-> 0]
    /\ updates = <<>>
    /\ worker = [pc |-> "idle"]
    /\ unforgotten = {} /\ cleared = {}
    /\ changes = 0
    /\ streak = NoStreak

Next ==
    \/ \E h \in Hosts :
         AddTaskInstance(h) \/ RemoveTaskInstanceByAddress(h) \/ ToggleAnswering(h)
    \/ \E u \in Uuids : RemoveTaskInstance(u)
    \/ \E t \in Tasks, m \in Models : Schedule(t, m)
    \/ \E t \in Tasks : SubmitResult(t) \/ NotifyTaskCompletion(t)
    \/ \E name \in Strategies : SetStrategy(name)
    \/ ClearPendingTasks
    \/ TakeUpdate \/ Discard \/ CachePrediction \/ AddPrediction
    \/ PopPrediction \/ SubPrediction

Spec == Init /\ [][Next]_vars

-----------------------------------------------------------------------------
(* The types of the variables.  In particular the count of a queue is never  *)
(* above the number of predictions in it.                                    *)
TypeOK ==
    /\ instances \in Seq([host : Hosts, id : Ids \cup {NoId}])
    /\ Len(instances) <= MaxIssued
    /\ IsInjective(taskinstances) /\ Listed \subseteq DOMAIN instances
    /\ DOMAIN idToUuid \subseteq Ids
    /\ \A i \in DOMAIN idToUuid : idToUuid[i] \in DOMAIN instances
    /\ answering \subseteq Hosts
    /\ strategy.name \in Strategies /\ strategy.index \in 0..MaxIssued
    /\ DOMAIN queues \subseteq Uuids
    /\ \A u \in DOMAIN queues :
         /\ queues[u].pending \subseteq Tasks /\ queues[u].dist \subseteq Tasks
         /\ queues[u].taskCount \in 0..Cardinality(queues[u].dist)
    /\ status \in [Tasks -> {"new", "failed", "running", "done"}]
    /\ route \in [Tasks -> Uuids \cup {0}]

(* The instance_id cache does not go stale: an id resolves to a listed       *)
(* instance, whatever was registered twice, removed and looked up again,     *)
(* unless the instance could not be asked for its id when it was removed.    *)
CacheCurrent ==
    \A i \in DOMAIN idToUuid : idToUuid[i] \in Listed \cup unforgotten

(* As long as selections meet the same candidates, round_robin spreads them  *)
(* evenly, wherever its index stood, also after instances came and went.     *)
RotationEven ==
    strategy.name = "round_robin" =>
        \A u, v \in ToSet(streak.of) : streak.picks[u] <= streak.picks[v] + 1

Ambiguous(u) ==
    \E v \in DOMAIN instances \ {u} : IdOf[HostOf(v)] = IdOf[HostOf(u)]

CompletionDue(t, u) ==
    \/ \E k \in DOMAIN updates :
         updates[k] = [type |-> "completion", task |-> t, uuid |-> u]
    \/ worker = [pc |-> "completion", task |-> t, uuid |-> u]

(* A finished task does not weigh on the queue it was routed to: its         *)
(* prediction is pending only while its completion update is on the way, and *)
(* the distribution keeps only what is pending, being subtracted, or was     *)
(* cleared.  Two registrations with one instance_id are the exception: a     *)
(* result is then charged to one of them.                                    *)
ChargesReturned ==
    \A u \in DOMAIN queues :
        /\ \A t \in queues[u].pending :
             status[t] = "done" => CompletionDue(t, u) \/ Ambiguous(u)
        /\ queues[u].dist \subseteq queues[u].pending \cup Held \cup cleared

(* round_robin.py: "distributing tasks evenly across all available instances *)
(* regardless of their current load" - as long as no instance comes or goes  *)
(* and no strategy is set.  The index is shared by the models.               *)
PickedSoFar(u) == Cardinality({t \in Tasks : route[t] = u})
EvenlyDistributed ==
    strategy.name = "round_robin" =>
        \A u, v \in Listed :
            Serves[HostOf(u)] = Serves[HostOf(v)] =>
                PickedSoFar(u) <= PickedSoFar(v) + 1
=============================================================================
