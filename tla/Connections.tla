---------------------------- MODULE Connections ----------------------------
(***************************************************************************)
(* The WebSockets of the API server: TaskInstances register a connection   *)
(* under their id and submit results over it; clients listen to the events *)
(* of completed tasks.  Every connection has a coroutine of its own on the *)
(* one event loop, which the others may overtake at each await.            *)
(*                                                                         *)
(* The table of connections is keyed by the instance's id.  A registration *)
(* replaces the instance's earlier connection and holds the table's lock   *)
(* while it closes that one; the coroutine of the earlier connection ends  *)
(* by unregistering the id.                                                *)
(***************************************************************************)
EXTENDS Integers, Sequences, FiniteSets

CONSTANTS
    Instances,        (* the ids that instances register                     *)
    MaxHandlers,      (* bound: the connections instances make               *)
    MaxConnections,   (* max_connections                                     *)
    Clients,          (* connections of /ws/task_events                      *)
    Tasks,            (* tasks that are scheduled                            *)
    Asynchronous,     (* those without an arrival time: scheduled by another *)
                      (* path than SwarmPilotScheduler.schedule              *)
    MaxResults        (* bound: the result messages received                 *)

ASSUME ConnectionsAssumption ==
    /\ IsFiniteSet(Instances) /\ IsFiniteSet(Clients) /\ IsFiniteSet(Tasks)
    /\ Asynchronous \subseteq Tasks
    /\ {MaxHandlers, MaxConnections, MaxResults} \subseteq Nat

VARIABLES
    pc,               (* the next step of a connection's coroutine           *)
    id,               (* instance_id                                         *)
    up,               (* connections whose socket is open                    *)
    noticed,          (* connections with client_state DISCONNECTED          *)
    table,            (* ResultSubmissionManager.connections                 *)
    lock,             (* the coroutine that holds its _lock over an await    *)
    batch,            (* results a coroutine has still to process            *)
    verdict,          (* the acknowledgement of the one it processes         *)
    target,           (* the connection that is to be sent on                *)
    results,          (* result messages received                            *)
    listening,        (* TaskEventManager.active_connections                 *)
    heard,            (* clients: "away", "here" or "gone"                   *)
    todo, failed,     (* per broadcast: clients to be told, clients gone     *)
    tracked,          (* tasks with an entry in the task tracker             *)
    timed,            (* tasks with an arrival time in request_times         *)
    audience,         (* history: who listened when the first result of a    *)
                      (* task was processed, and still does                  *)
    told,             (* history: the events that reached a client, while it *)
                      (* is there                                            *)
    acked             (* history: tasks whose instance was told of success   *)

tableVars == <<id, up, noticed, table, lock>>
resultVars == <<batch, verdict, target, results>>
taskVars == <<tracked, timed, audience>>
eventVars == <<listening, heard, todo, failed, told>>
vars == <<pc, tableVars, resultVars, taskVars, eventVars, acked>>

Handlers == 1..MaxHandlers        (* in the order they connect *)
None == 0
NoInstance == "none"

Go(h, step) == pc' = [pc EXCEPT ![h] = step]
Registered == {i \in Instances : table[i] # None}
Unlocked == lock = None

-----------------------------------------------------------------------------
(* Registration (websocket_result_submit).                                   *)
Connect(h) ==
    /\ pc[h] = "away" /\ \A g \in 1..(h - 1) : pc[g] # "away"
    /\ up' = up \cup {h}
    /\ Go(h, "accepted")
    /\ UNCHANGED <<id, noticed, table, lock, resultVars, taskVars, eventVars, acked>>

(* No registration in time, or none: the server closes the connection.       *)
Refuse(h) ==
    /\ pc[h] = "accepted"
    /\ up' = up \ {h}
    /\ Go(h, "ended")
    /\ UNCHANGED <<id, noticed, table, lock, resultVars, taskVars, eventVars, acked>>

ReceiveRegister(h, i) ==
    /\ pc[h] = "accepted" /\ h \in up
    /\ id' = [id EXCEPT ![h] = i]
    /\ Go(h, "register")
    /\ UNCHANGED <<up, noticed, table, lock, resultVars, taskVars, eventVars, acked>>

LimitReached(i) == Cardinality(Registered) >= MaxConnections /\ table[i] = None

(* mutant: the lock is not held over the await *)
CloseUnlocked(h) == UNCHANGED lock

TakeLock(h) == lock' = h

(* register_instance: the limit is checked, and the earlier connection of    *)
(* the instance is closed, before the new one gets its place.                *)
Register(h) ==
    /\ pc[h] = "register" /\ Unlocked
    /\ \/ LimitReached(id[h]) /\ Go(h, "rejected") /\ UNCHANGED <<table, lock>>
       \/ /\ ~LimitReached(id[h]) /\ table[id[h]] # None
          /\ TakeLock(h)
          /\ Go(h, "replace")
          /\ UNCHANGED table
       \/ /\ ~LimitReached(id[h]) /\ table[id[h]] = None
          /\ table' = [table EXCEPT ![id[h]] = h]
          /\ Go(h, "confirm")
          /\ UNCHANGED lock
    /\ UNCHANGED <<id, up, noticed, resultVars, taskVars, eventVars, acked>>

(* mutant: the lock is not given back *)
ReplaceLocked(h) ==
    /\ pc[h] = "replace"
    /\ up' = up \ {table[id[h]]}
    /\ table' = [table EXCEPT ![id[h]] = h]
    /\ Go(h, "confirm")
    /\ UNCHANGED <<id, noticed, lock, resultVars, taskVars, eventVars, acked>>

Replace(h) ==
    /\ pc[h] = "replace"
    /\ up' = up \ {table[id[h]]}
    /\ table' = [table EXCEPT ![id[h]] = h]
    /\ lock' = None
    /\ Go(h, "confirm")
    /\ UNCHANGED <<id, noticed, resultVars, taskVars, eventVars, acked>>

(* The server closes the connection of a rejected registration.              *)
Reject(h) ==
    /\ pc[h] = "rejected"
    /\ up' = up \ {h}
    /\ Go(h, "leave")
    /\ UNCHANGED <<id, noticed, table, lock, resultVars, taskVars, eventVars, acked>>

Confirm(h) ==
    /\ pc[h] = "confirm"
    /\ Go(h, IF h \in up THEN "serve" ELSE "leave")
    /\ UNCHANGED <<tableVars, resultVars, taskVars, eventVars, acked>>

Unregister(i) == table' = [table EXCEPT ![i] = None]

(* mutant: the coroutine ends without unregistering *)
LeaveRegistered(h) ==
    /\ pc[h] = "leave" /\ Unlocked
    /\ up' = up \ {h}
    /\ Go(h, "ended")
    /\ UNCHANGED <<id, noticed, table, lock, resultVars, taskVars, eventVars, acked>>

(* The finally clause: whatever connection the id has is unregistered.       *)
(* Nothing refers to the ended coroutine and its connection any more.        *)
Leave(h) ==
    /\ pc[h] = "leave" /\ Unlocked
    /\ Unregister(id[h])
    /\ id' = [id EXCEPT ![h] = NoInstance]
    /\ up' = up \ {h} /\ noticed' = noticed \ {h}
    /\ Go(h, "ended")
    /\ UNCHANGED <<lock, resultVars, taskVars, eventVars, acked>>

(* cleanup_dead_connections, every minute.                                   *)
CleanUp ==
    /\ Unlocked
    /\ \E i \in Registered : table[i] \in noticed
    /\ table' = [i \in Instances |-> IF table[i] \in noticed THEN None ELSE table[i]]
    /\ UNCHANGED <<pc, id, up, noticed, lock, resultVars, taskVars, eventVars, acked>>

-----------------------------------------------------------------------------
(* The message loop.                                                         *)
ReceiveResults(h, messages) ==
    /\ pc[h] = "serve" /\ batch[h] = <<>> /\ h \in up
    /\ results + Len(messages) <= MaxResults
    /\ results' = results + Len(messages)
    /\ batch' = [batch EXCEPT ![h] = messages]
    /\ UNCHANGED <<pc, tableVars, verdict, target, taskVars, eventVars, acked>>

ReceiveDisconnect(h) ==
    /\ pc[h] = "serve" /\ batch[h] = <<>> /\ h \notin up
    /\ noticed' = noticed \cup {h}
    /\ Go(h, "leave")
    /\ UNCHANGED <<id, up, table, lock, resultVars, taskVars, eventVars, acked>>

(* A message that is no JSON object ends the loop.                           *)
ReceiveBroken(h) ==
    /\ pc[h] = "serve" /\ batch[h] = <<>> /\ h \in up
    /\ Go(h, "leave")
    /\ UNCHANGED <<tableVars, resultVars, taskVars, eventVars, acked>>

Answer(h, ok) == verdict' = [verdict EXCEPT ![h] = ok] /\ Go(h, "ack")

(* A field is missing, or no instance is known by the id.                    *)
RefuseResult(h) ==
    /\ pc[h] = "serve" /\ batch[h] # <<>>
    /\ Answer(h, FALSE)
    /\ UNCHANGED <<tableVars, batch, target, results, taskVars, eventVars, acked>>

(* Without an arrival time, the text of the acknowledgement cannot be        *)
(* formatted: the exception handler answers instead.                         *)
Formatted(t) == t \in timed

Present == {c \in listening : heard[c] = "here"}

(* The completion is handled and stored; without an entry in the tracker,    *)
(* or without clients, there is nothing to wait for.                         *)
ProcessResult(h) ==
    LET t == Head(batch[h]) IN
    /\ pc[h] = "serve" /\ batch[h] # <<>>
    /\ timed' = timed \ {t}
    /\ IF t \in tracked /\ listening # {}
       THEN /\ Go(h, "broadcast")
            /\ verdict' = [verdict EXCEPT ![h] = Formatted(t)]
            /\ todo' = [todo EXCEPT ![h] = listening]
            /\ UNCHANGED tracked
       ELSE Answer(h, Formatted(t)) /\ tracked' = tracked \ {t} /\ UNCHANGED todo
    /\ audience' = IF Formatted(t) THEN [audience EXCEPT ![t] = Present] ELSE audience
    /\ UNCHANGED <<tableVars, batch, target, results, listening, heard, failed, told, acked>>

(* broadcast_task_completion sends to a copy of the set, one by one.         *)
SendEvent(h, c) ==
    /\ pc[h] = "broadcast" /\ c \in todo[h]
    /\ todo' = [todo EXCEPT ![h] = @ \ {c}]
    /\ IF heard[c] = "here"
       THEN told' = told \cup {<<c, Head(batch[h])>>} /\ UNCHANGED failed
       ELSE failed' = [failed EXCEPT ![h] = @ \cup {c}] /\ UNCHANGED told
    /\ UNCHANGED <<pc, tableVars, resultVars, taskVars, listening, heard, acked>>

(* mutant: the broadcast is started and not awaited *)
Unawaited(h) == TRUE

AllTold(h) == todo[h] = {}

EndBroadcast(h) ==
    /\ pc[h] = "broadcast" /\ AllTold(h)
    /\ listening' = listening \ failed[h]
    /\ tracked' = tracked \ {Head(batch[h])}
    /\ failed' = [failed EXCEPT ![h] = {}]
    /\ Go(h, "ack")
    /\ UNCHANGED <<tableVars, resultVars, timed, audience, heard, todo, told, acked>>

(* The next result, or the next message. *)
NextResult(h) ==
    /\ batch' = [batch EXCEPT ![h] = Tail(@)]
    /\ verdict' = [verdict EXCEPT ![h] = FALSE]
    /\ target' = [target EXCEPT ![h] = None]
    /\ Go(h, "serve")

(* send_ack looks the connection up, and sends without the lock.             *)
LookUp(h) ==
    /\ pc[h] = "ack" /\ Unlocked
    /\ IF table[id[h]] = None
       THEN NextResult(h)
       ELSE /\ target' = [target EXCEPT ![h] = table[id[h]]]
            /\ Go(h, "send")
            /\ UNCHANGED <<batch, verdict>>
    /\ UNCHANGED <<tableVars, results, taskVars, eventVars, acked>>

(* A send that fails unregisters the id; one that times out does not.        *)
SendAck(h) ==
    /\ pc[h] = "send"
    /\ \/ /\ target[h] \in up
          /\ acked' = acked \cup {t \in {Head(batch[h])} : verdict[h]}
          /\ NextResult(h)
       \/ UNCHANGED acked /\ NextResult(h)
       \/ target[h] \notin up /\ Go(h, "unregister") /\ UNCHANGED <<acked, batch, verdict, target>>
    /\ UNCHANGED <<tableVars, results, taskVars, eventVars>>

SendAckFailed(h) ==
    /\ pc[h] = "unregister" /\ Unlocked
    /\ Unregister(id[h])
    /\ NextResult(h)
    /\ UNCHANGED <<id, up, noticed, lock, results, taskVars, eventVars, acked>>

-----------------------------------------------------------------------------
(* The clients of the task events, and the connections that break.           *)
Join(c) ==
    /\ heard[c] = "away"
    /\ heard' = [heard EXCEPT ![c] = "here"]
    /\ listening' = listening \cup {c}
    /\ UNCHANGED <<pc, tableVars, resultVars, taskVars, todo, failed, told, acked>>

ClientBreaks(c) ==
    /\ heard[c] = "here"
    /\ heard' = [heard EXCEPT ![c] = "gone"]
    /\ audience' = [t \in Tasks |-> audience[t] \ {c}]
    /\ told' = told \ ({c} \X Tasks)
    /\ UNCHANGED <<pc, tableVars, resultVars, tracked, timed, listening, todo, failed, acked>>

ClientLeaves(c) ==
    /\ heard[c] = "gone" /\ c \in listening
    /\ listening' = listening \ {c}
    /\ UNCHANGED <<pc, tableVars, resultVars, taskVars, heard, todo, failed, told, acked>>

Break(h) ==
    /\ h \in up
    /\ up' = up \ {h}
    /\ UNCHANGED <<pc, id, noticed, table, lock, resultVars, taskVars, eventVars, acked>>

-----------------------------------------------------------------------------
Init ==
    /\ pc = [h \in Handlers |-> "away"]
    /\ id = [h \in Handlers |-> NoInstance]
    /\ up = {} /\ noticed = {}
    /\ table = [i \in Instances |-> None] /\ lock = None
    /\ batch = [h \in Handlers |-> <<>>]
    /\ verdict = [h \in Handlers |-> FALSE]
    /\ target = [h \in Handlers |-> None]
    /\ results = 0
    /\ listening = {} /\ heard = [c \in Clients |-> "away"]
    /\ todo = [h \in Handlers |-> {}] /\ failed = [h \in Handlers |-> {}]
    /\ tracked = Tasks /\ timed = Tasks \ Asynchronous
    /\ audience = [t \in Tasks |-> {}] /\ told = {} /\ acked = {}

Coroutine(h) ==
    \/ Connect(h) \/ Refuse(h) \/ Register(h) \/ Replace(h) \/ Reject(h) \/ Confirm(h)
    \/ Leave(h) \/ ReceiveDisconnect(h) \/ ReceiveBroken(h)
    \/ ProcessResult(h) \/ RefuseResult(h) \/ EndBroadcast(h)
    \/ LookUp(h) \/ SendAck(h) \/ SendAckFailed(h)
    \/ \E i \in Instances : ReceiveRegister(h, i)
    \/ \E t \in Tasks, n \in 1..2 : ReceiveResults(h, [k \in 1..n |-> t])
    \/ \E c \in Clients : SendEvent(h, c)

Next ==
    \/ \E h \in Handlers : Coroutine(h) \/ Break(h)
    \/ \E c \in Clients : Join(c) \/ ClientBreaks(c) \/ ClientLeaves(c)
    \/ CleanUp

Spec == Init /\ [][Next]_vars

-----------------------------------------------------------------------------
(* Type invariant; the lock outlives no await but that of a replacement.     *)
TypeOK ==
    /\ pc \in [Handlers ->
           {"away", "accepted", "register", "rejected", "replace", "confirm", "serve",
            "broadcast", "ack", "send", "unregister", "leave", "ended"}]
    /\ id \in [Handlers -> Instances \cup {NoInstance}]
    /\ up \subseteq Handlers /\ noticed \subseteq Handlers
    /\ table \in [Instances -> Handlers \cup {None}] /\ lock \in Handlers \cup {None}
    /\ batch \in [Handlers -> Seq(Tasks)] /\ verdict \in [Handlers -> BOOLEAN]
    /\ target \in [Handlers -> Handlers \cup {None}] /\ results \in 0..MaxResults
    /\ listening \subseteq Clients /\ heard \in [Clients -> {"away", "here", "gone"}]
    /\ todo \in [Handlers -> SUBSET Clients] /\ failed \in [Handlers -> SUBSET Clients]
    /\ tracked \subseteq Tasks /\ timed \subseteq Tasks
    /\ audience \in [Tasks -> SUBSET Clients]
    /\ lock # None => pc[lock] = "replace"
    /\ told \subseteq Clients \X Tasks /\ acked \subseteq Tasks

(* The table never exceeds the limit, although a registration checks the     *)
(* limit before an await and takes its place after it, and unregistrations   *)
(* of the same id come in between (register_instance in api.py).             *)
ConnectionsBounded == Cardinality(Registered) <= MaxConnections

(* An instance that is told its result was received can rely on the events:  *)
(* every client that was listening when this result completed the task, and  *)
(* still is, has been told, whatever other broadcasts, clients that broke    *)
(* off and repeated results did.                                             *)
AckedInformed ==
    \A t \in Tasks, c \in Clients :
        t \in acked /\ c \in audience[t] => <<c, t>> \in told

(* A place in the table belongs to a coroutine that has not ended, of a      *)
(* connection registered under that id: whatever unregisters and replaces    *)
(* it meanwhile, a connection that breaks does not keep its place for ever.  *)
PlacesServed ==
    \A i \in Registered :
        id[table[i]] = i /\ pc[table[i]] \notin {"away", "accepted", "register", "ended"}

(* Refuted.  "Check if instance has active WebSocket connection"             *)
(* (api.py:425): the coroutine of the replaced connection unregisters the    *)
(* new one, which is served on.                                              *)
ServedRegistered ==
    \A h \in Handlers :
        pc[h] = "serve" /\ h \in up /\ (\A g \in Handlers : id[g] = id[h] => g <= h)
            => table[id[h]] = h
=============================================================================
