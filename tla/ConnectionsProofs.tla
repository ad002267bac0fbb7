-------------------------- MODULE ConnectionsProofs --------------------------
(* Theorems about Connections, for any number of instances, connections,     *)
(* clients, tasks and results.                                               *)
EXTENDS Connections, FiniteSetTheorems, TLAPS

(* A coroutine that has received its registration knows its instance, and    *)
(* one that processes a result has it at the head of its batch.              *)
Processing == {"broadcast", "ack", "send", "unregister"}

CoroutinesKnow ==
    \A h \in Handlers :
        /\ pc[h] \notin {"away", "accepted", "ended"} => id[h] \in Instances
        /\ pc[h] \in Processing => batch[h] # <<>>

(* A registration that awaits the close of the earlier connection holds the  *)
(* lock, and the place it is going to take is occupied.                      *)
PlaceKept ==
    \A h \in Handlers : pc[h] = "replace" => lock = h /\ table[id[h]] # None

PlacesFacts == PlaceKept /\ ConnectionsBounded /\ PlacesServed

PlacesInv == TypeOK /\ CoroutinesKnow /\ PlacesFacts

-----------------------------------------------------------------------------
(* The first result of a task finds it tracked; only it is acknowledged with *)
(* success, and only when its audience has been told.                        *)
FirstResult ==
    \A t \in timed : t \in tracked /\ audience[t] = {} /\ t \notin acked

AudiencePresent ==
    \A t \in Tasks : \A c \in audience[t] : heard[c] = "here"

SuccessAfterTelling ==
    \A h \in Handlers :
        /\ pc[h] = "broadcast" => Head(batch[h]) \notin timed
        /\ verdict[h] =>
              /\ pc[h] \in Processing
              /\ Head(batch[h]) \notin timed
              /\ \A c \in audience[Head(batch[h])] :
                     \/ <<c, Head(batch[h])>> \in told
                     \/ pc[h] = "broadcast" /\ c \in todo[h]

EventsFacts == FirstResult /\ AudiencePresent /\ SuccessAfterTelling /\ AckedInformed

-----------------------------------------------------------------------------
(* What is at the head of a batch is a task, and the rest is a batch.        *)
LEMMA HeadIsTask ==
    ASSUME TypeOK, NEW h \in Handlers, batch[h] # <<>>
    PROVE  Head(batch[h]) \in Tasks /\ Tail(batch[h]) \in Seq(Tasks)
  <1>1. batch[h] \in Seq(Tasks)
    BY DEF TypeOK
  <1> QED
    BY <1>1

LEMMA NextResultTyped ==
    ASSUME TypeOK, CoroutinesKnow, NEW h \in Handlers, batch[h] # <<>>, pc[h] \in Processing,
           NextResult(h), UNCHANGED id
    PROVE  /\ pc' = [pc EXCEPT ![h] = "serve"]
           /\ batch' \in [Handlers -> Seq(Tasks)] /\ verdict' \in [Handlers -> BOOLEAN]
           /\ target' \in [Handlers -> Handlers \cup {None}]
           /\ CoroutinesKnow'
  <1>1. Tail(batch[h]) \in Seq(Tasks)
    BY HeadIsTask
  <1> QED
    BY <1>1 DEF TypeOK, NextResult, Go, CoroutinesKnow, Processing

(* Type correctness, one step for each action.                               *)
LEMMA TypeStep == TypeOK /\ CoroutinesKnow /\ [Next]_vars => TypeOK' /\ CoroutinesKnow'
  <1> SUFFICES ASSUME TypeOK, CoroutinesKnow, [Next]_vars PROVE TypeOK' /\ CoroutinesKnow'
    OBVIOUS
  <1> USE DEF vars, tableVars, resultVars, taskVars, eventVars, Go, Unlocked, Processing, Handlers, None
  <1>1. ASSUME NEW h \in Handlers, Connect(h) PROVE TypeOK' /\ CoroutinesKnow'
    BY <1>1 DEF Connect, TypeOK, CoroutinesKnow
  <1>2. ASSUME NEW h \in Handlers, Refuse(h) PROVE TypeOK' /\ CoroutinesKnow'
    BY <1>2 DEF Refuse, TypeOK, CoroutinesKnow
  <1>3. ASSUME NEW h \in Handlers, Register(h) PROVE TypeOK' /\ CoroutinesKnow'
    <2>1. pc[h] = "register" /\ id[h] \in Instances /\ UNCHANGED <<id, up, noticed, resultVars, taskVars, eventVars, acked>>
      BY <1>3 DEF Register, CoroutinesKnow
    <2>2. CASE Go(h, "rejected") /\ UNCHANGED <<table, lock>>
      BY <2>1, <2>2 DEF TypeOK, CoroutinesKnow
    <2>3. CASE TakeLock(h) /\ Go(h, "replace") /\ UNCHANGED table
      BY <2>1, <2>3 DEF TakeLock, TypeOK, CoroutinesKnow
    <2>4. CASE table' = [table EXCEPT ![id[h]] = h] /\ Go(h, "confirm") /\ UNCHANGED lock
      BY <2>1, <2>4 DEF TypeOK, CoroutinesKnow
    <2> QED
      BY <1>3, <2>2, <2>3, <2>4 DEF Register
  <1>4. ASSUME NEW h \in Handlers, Replace(h) PROVE TypeOK' /\ CoroutinesKnow'
    BY <1>4 DEF Replace, TypeOK, CoroutinesKnow
  <1>5. ASSUME NEW h \in Handlers, Reject(h) PROVE TypeOK' /\ CoroutinesKnow'
    BY <1>5 DEF Reject, TypeOK, CoroutinesKnow
  <1>6. ASSUME NEW h \in Handlers, Confirm(h) PROVE TypeOK' /\ CoroutinesKnow'
    BY <1>6 DEF Confirm, TypeOK, CoroutinesKnow
  <1>7. ASSUME NEW h \in Handlers, Leave(h) PROVE TypeOK' /\ CoroutinesKnow'
    BY <1>7 DEF Leave, Unregister, TypeOK, CoroutinesKnow
  <1>8. ASSUME NEW h \in Handlers, ReceiveDisconnect(h) PROVE TypeOK' /\ CoroutinesKnow'
    BY <1>8 DEF ReceiveDisconnect, TypeOK, CoroutinesKnow
  <1>9. ASSUME NEW h \in Handlers, ReceiveBroken(h) PROVE TypeOK' /\ CoroutinesKnow'
    BY <1>9 DEF ReceiveBroken, TypeOK, CoroutinesKnow
  <1>10. ASSUME NEW h \in Handlers, ProcessResult(h) PROVE TypeOK' /\ CoroutinesKnow'
    <2>1. Head(batch[h]) \in Tasks
      BY <1>10, HeadIsTask DEF ProcessResult
    <2>2. Present \subseteq Clients /\ Formatted(Head(batch[h])) \in BOOLEAN
      BY DEF Present, Formatted, TypeOK
    <2>3. audience' \in [Tasks -> SUBSET Clients]
      BY <1>10, <2>1, <2>2 DEF ProcessResult, TypeOK
    <2>4. pc[h] = "serve" /\ batch[h] # <<>> /\ id[h] \in Instances
      BY <1>10 DEF ProcessResult, CoroutinesKnow
    <2>5. CASE Head(batch[h]) \in tracked /\ listening # {}
      <3>1. /\ pc' = [pc EXCEPT ![h] = "broadcast"] /\ todo' = [todo EXCEPT ![h] = listening]
            /\ verdict' = [verdict EXCEPT ![h] = Formatted(Head(batch[h]))]
            /\ timed' = timed \ {Head(batch[h])}
            /\ UNCHANGED <<tableVars, batch, target, results, listening, heard, failed, told, acked, tracked>>
        BY <1>10, <2>5 DEF ProcessResult
      <3>2. todo' \in [Handlers -> SUBSET Clients] /\ verdict' \in [Handlers -> BOOLEAN]
        BY <3>1, <2>2 DEF TypeOK
      <3>3. CoroutinesKnow'
        BY <3>1, <2>4 DEF TypeOK, CoroutinesKnow
      <3> QED
        BY <3>1, <3>2, <3>3, <2>3, <2>4 DEF TypeOK
    <2>6. CASE ~(Head(batch[h]) \in tracked /\ listening # {})
      BY <1>10, <2>2, <2>3, <2>4, <2>6 DEF ProcessResult, Answer, TypeOK, CoroutinesKnow
    <2> QED
      BY <2>5, <2>6
  <1>11. ASSUME NEW h \in Handlers, RefuseResult(h) PROVE TypeOK' /\ CoroutinesKnow'
    BY <1>11 DEF RefuseResult, Answer, TypeOK, CoroutinesKnow
  <1>12. ASSUME NEW h \in Handlers, EndBroadcast(h) PROVE TypeOK' /\ CoroutinesKnow'
    BY <1>12 DEF EndBroadcast, TypeOK, CoroutinesKnow
  <1>13. ASSUME NEW h \in Handlers, LookUp(h) PROVE TypeOK' /\ CoroutinesKnow'
    <2>1. batch[h] # <<>> /\ pc[h] \in Processing /\ id[h] \in Instances /\ UNCHANGED id
      BY <1>13 DEF LookUp, CoroutinesKnow
    <2>2. CASE table[id[h]] = 0
      BY <1>13, <2>1, <2>2, NextResultTyped, ZenonT(30) DEF LookUp, TypeOK
    <2>3. CASE table[id[h]] # 0
      BY <1>13, <2>1, <2>3, ZenonT(30) DEF LookUp, TypeOK, CoroutinesKnow
    <2> QED
      BY <2>2, <2>3
  <1>14. ASSUME NEW h \in Handlers, SendAck(h) PROVE TypeOK' /\ CoroutinesKnow'
    <2>1. batch[h] # <<>> /\ pc[h] \in Processing /\ UNCHANGED id
      BY <1>14 DEF SendAck, CoroutinesKnow
    <2>2. Head(batch[h]) \in Tasks
      BY <2>1, HeadIsTask
    <2>3. CASE NextResult(h)
      BY <1>14, <2>1, <2>2, <2>3, NextResultTyped, ZenonT(30) DEF SendAck, TypeOK
    <2>4. CASE ~NextResult(h)
      BY <1>14, <2>4 DEF SendAck, TypeOK, CoroutinesKnow
    <2> QED
      BY <2>3, <2>4
  <1>15. ASSUME NEW h \in Handlers, SendAckFailed(h) PROVE TypeOK' /\ CoroutinesKnow'
    <2>1. batch[h] # <<>> /\ pc[h] \in Processing /\ UNCHANGED id /\ NextResult(h)
      BY <1>15 DEF SendAckFailed, CoroutinesKnow
    <2> QED
      BY <1>15, <2>1, NextResultTyped DEF SendAckFailed, Unregister, TypeOK
  <1>16. ASSUME NEW h \in Handlers, Break(h) PROVE TypeOK' /\ CoroutinesKnow'
    BY <1>16 DEF Break, TypeOK, CoroutinesKnow
  <1>17. ASSUME NEW h \in Handlers, NEW i \in Instances, ReceiveRegister(h, i) PROVE TypeOK' /\ CoroutinesKnow'
    BY <1>17 DEF ReceiveRegister, TypeOK, CoroutinesKnow
  <1>18. ASSUME NEW h \in Handlers, NEW t \in Tasks, NEW k \in 1..2, ReceiveResults(h, [j \in 1..k |-> t]) PROVE TypeOK' /\ CoroutinesKnow'
    BY <1>18 DEF ReceiveResults, TypeOK, CoroutinesKnow
  <1>19. ASSUME NEW h \in Handlers, NEW c \in Clients, SendEvent(h, c) PROVE TypeOK' /\ CoroutinesKnow'
    <2>1. Head(batch[h]) \in Tasks
      BY <1>19, HeadIsTask DEF SendEvent, CoroutinesKnow
    <2> QED
      BY <1>19, <2>1, SMTT(30) DEF SendEvent, TypeOK, CoroutinesKnow
  <1>20. ASSUME NEW c \in Clients, Join(c) PROVE TypeOK' /\ CoroutinesKnow'
    BY <1>20 DEF Join, TypeOK, CoroutinesKnow
  <1>21. ASSUME NEW c \in Clients, ClientBreaks(c) PROVE TypeOK' /\ CoroutinesKnow'
    BY <1>21 DEF ClientBreaks, TypeOK, CoroutinesKnow
  <1>22. ASSUME NEW c \in Clients, ClientLeaves(c) PROVE TypeOK' /\ CoroutinesKnow'
    BY <1>22 DEF ClientLeaves, TypeOK, CoroutinesKnow
  <1>23. ASSUME CleanUp PROVE TypeOK' /\ CoroutinesKnow'
    BY <1>23 DEF CleanUp, TypeOK, CoroutinesKnow
  <1>24. ASSUME UNCHANGED vars PROVE TypeOK' /\ CoroutinesKnow'
    BY <1>24 DEF TypeOK, CoroutinesKnow
  <1> QED
    BY <1>1, <1>2, <1>3, <1>4, <1>5, <1>6, <1>7, <1>8, <1>9, <1>10, <1>11, <1>12, <1>13, <1>14, <1>15, <1>16, <1>17, <1>18, <1>19, <1>20, <1>21, <1>22, <1>23, <1>24 DEF Next, Coroutine
-----------------------------------------------------------------------------
(* Most steps leave the table, its lock and the ids alone, and take no       *)
(* coroutine to where it has no place yet.                                   *)
Placeless == {"away", "accepted", "register", "ended"}

Quiet ==
    /\ UNCHANGED <<id, table, lock>>
    /\ \A h \in Handlers :
           /\ pc'[h] = "replace" => pc[h] = "replace"
           /\ pc'[h] \in Placeless => pc[h] \in Placeless

LEMMA QuietKeepsPlaces ==
    ASSUME TypeOK, PlacesFacts, Quiet
    PROVE  PlacesFacts'
  <1>1. PlaceKept'
    BY DEF PlacesFacts, PlaceKept, Quiet
  <1>2. Registered' = Registered
    BY DEF Registered, Quiet
  <1>3. ConnectionsBounded'
    BY <1>2 DEF PlacesFacts, ConnectionsBounded
  <1>4. PlacesServed'
    <2> SUFFICES ASSUME NEW i \in Registered
                 PROVE  id'[table'[i]] = i /\ pc'[table'[i]] \notin Placeless
      BY <1>2 DEF PlacesServed, Placeless
    <2>1. i \in Instances /\ table[i] \in Handlers /\ id[table[i]] = i /\ pc[table[i]] \notin Placeless
      BY DEF Registered, TypeOK, PlacesFacts, PlacesServed, Placeless
    <2> QED
      BY <2>1 DEF Quiet
  <1> QED
    BY <1>1, <1>3, <1>4 DEF PlacesFacts

LEMMA QuietSteps ==
    ASSUME TypeOK, NEW h \in Handlers,
           \/ Connect(h) \/ Refuse(h) \/ Reject(h) \/ Confirm(h)
           \/ ReceiveDisconnect(h) \/ ReceiveBroken(h)
           \/ ProcessResult(h) \/ RefuseResult(h) \/ EndBroadcast(h)
           \/ LookUp(h) \/ SendAck(h) \/ Break(h)
           \/ \E t \in Tasks, n \in 1..2 : ReceiveResults(h, [k \in 1..n |-> t])
           \/ \E c \in Clients : SendEvent(h, c)
    PROVE  Quiet
  <1>1. \/ UNCHANGED <<id, table, lock, pc>>
        \/ /\ UNCHANGED <<id, table, lock>>
           /\ \E s \in {"rejected", "confirm", "serve", "broadcast", "ack", "send", "unregister", "leave"} :
                  pc' = [pc EXCEPT ![h] = s]
        \/ /\ UNCHANGED <<id, table, lock>>
           /\ pc[h] \in Placeless
           /\ \E s \in Placeless : pc' = [pc EXCEPT ![h] = s]
    BY DEF Connect, Refuse, Reject, Confirm, ReceiveDisconnect, ReceiveBroken, ProcessResult, Answer,
           RefuseResult, EndBroadcast, LookUp, SendAck, NextResult, Break, ReceiveResults, SendEvent,
           Go, tableVars, Placeless
  <1> QED
    BY <1>1 DEF Quiet, TypeOK, Placeless

(* Where the lock is free, no registration awaits a close; unregistering     *)
(* then takes away places and disturbs no others.                            *)
LEMMA UnregisteringKeepsPlaces ==
    ASSUME TypeOK, PlacesFacts, Unlocked, UNCHANGED lock,
           table' \in [Instances -> Handlers \cup {None}],
           \A i \in Instances : table'[i] \in {table[i], None},
           \A h \in Handlers :
               /\ pc'[h] = "replace" => pc[h] = "replace"
               /\ pc'[h] = pc[h] \/ pc'[h] \notin Placeless \/ \A i \in Instances : table'[i] # h
               /\ id'[h] = id[h] \/ \A i \in Instances : table'[i] # h
    PROVE  PlacesFacts'
  <1> USE DEF None
  <1>1. PlaceKept'
    BY DEF PlacesFacts, PlaceKept, Unlocked, Handlers
  <1>2. Registered' \subseteq Registered
    BY DEF Registered
  <1>3. ConnectionsBounded'
    <2>1. IsFiniteSet(Registered)
      BY FS_Subset, ConnectionsAssumption DEF Registered
    <2>2. Cardinality(Registered') <= Cardinality(Registered) /\ IsFiniteSet(Registered')
      BY <1>2, <2>1, FS_Subset
    <2>3. Cardinality(Registered) \in Nat /\ Cardinality(Registered') \in Nat
      BY <2>1, <2>2, FS_CardinalityType
    <2>4. MaxConnections \in Nat
      BY ConnectionsAssumption
    <2> QED
      BY <2>2, <2>3, <2>4 DEF PlacesFacts, ConnectionsBounded
  <1>4. PlacesServed'
    <2> SUFFICES ASSUME NEW i \in Registered'
                 PROVE  id'[table'[i]] = i /\ pc'[table'[i]] \notin Placeless
      BY DEF PlacesServed, Placeless
    <2>1. i \in Instances /\ i \in Registered /\ table'[i] = table[i] /\ table[i] \in Handlers
      BY <1>2 DEF Registered, TypeOK
    <2>2. id[table[i]] = i /\ pc[table[i]] \notin Placeless
      BY <2>1 DEF PlacesFacts, PlacesServed, Placeless
    <2> QED
      BY <2>1, <2>2
  <1> QED
    BY <1>1, <1>3, <1>4 DEF PlacesFacts
LEMMA PlacesStep == PlacesInv /\ [Next]_vars => PlacesFacts'
  <1> SUFFICES ASSUME PlacesInv, [Next]_vars PROVE PlacesFacts'
    OBVIOUS
  <1>0. TypeOK /\ CoroutinesKnow /\ PlacesFacts /\ PlaceKept /\ ConnectionsBounded /\ PlacesServed
    BY DEF PlacesInv, PlacesFacts
  <1>t. TypeOK' /\ CoroutinesKnow'
    BY <1>0, TypeStep
  <1>1. ASSUME NEW h \in Handlers, Register(h) PROVE PlacesFacts'
    <2>1. /\ pc[h] = "register" /\ lock = None /\ id[h] \in Instances
          /\ UNCHANGED id
      BY <1>1, <1>0 DEF Register, Unlocked, tableVars, CoroutinesKnow
    <2>2. CASE Go(h, "rejected") /\ UNCHANGED <<table, lock>>
      <3>1. Quiet
        BY <2>1, <2>2, <1>0 DEF Go, Quiet, TypeOK, Placeless
      <3> QED
        BY <3>1, <1>0, QuietKeepsPlaces
    <2>3. CASE table[id[h]] # None /\ TakeLock(h) /\ Go(h, "replace") /\ UNCHANGED table
      <3>1. PlaceKept'
        BY <2>1, <2>3, <1>0 DEF PlaceKept, Go, TakeLock, TypeOK, Handlers, None
      <3>2. Registered' = Registered
        BY <2>3 DEF Registered
      <3>3. PlacesServed'
        BY <2>1, <2>3, <1>0, <3>2 DEF PlacesServed, Registered, Go, TypeOK
      <3> QED
        BY <3>1, <3>2, <3>3, <1>0 DEF PlacesFacts, ConnectionsBounded
    <2>4. CASE /\ ~LimitReached(id[h]) /\ table[id[h]] = None
               /\ table' = [table EXCEPT ![id[h]] = h] /\ Go(h, "confirm") /\ UNCHANGED lock
      <3>1. PlaceKept'
        BY <2>1, <2>4, <1>0 DEF PlaceKept, Go, TypeOK, Handlers, None
      <3>2. Registered' = Registered \cup {id[h]}
        BY <2>1, <2>4, <1>0 DEF Registered, TypeOK, Handlers, None
      <3>3. ConnectionsBounded'
        <4>1. IsFiniteSet(Registered)
          BY FS_Subset, ConnectionsAssumption DEF Registered
        <4>2. Cardinality(Registered') = Cardinality(Registered) + 1
          <5>1. id[h] \notin Registered
            BY <2>4 DEF Registered
          <5> QED
            BY <3>2, <4>1, <5>1, FS_AddElement
        <4>3. ~(Cardinality(Registered) >= MaxConnections)
          BY <2>4 DEF LimitReached
        <4>4. Cardinality(Registered) \in Nat /\ MaxConnections \in Nat
          BY <4>1, FS_CardinalityType, ConnectionsAssumption
        <4> QED
          BY <4>2, <4>3, <4>4 DEF ConnectionsBounded
      <3>4. PlacesServed'
        BY <2>1, <2>4, <1>0, <3>2 DEF PlacesServed, Registered, Go, TypeOK
      <3> QED
        BY <3>1, <3>3, <3>4 DEF PlacesFacts
    <2> QED
      BY <1>1, <2>2, <2>3, <2>4 DEF Register
  <1>2. ASSUME NEW h \in Handlers, Replace(h) PROVE PlacesFacts'
    <2>1. /\ pc[h] = "replace" /\ id[h] \in Instances /\ lock = h /\ table[id[h]] # None
          /\ table' = [table EXCEPT ![id[h]] = h] /\ pc' = [pc EXCEPT ![h] = "confirm"]
          /\ UNCHANGED id
      BY <1>2, <1>0 DEF Replace, CoroutinesKnow, PlaceKept, Go, tableVars
    <2>2. PlaceKept'
      BY <2>1, <1>0 DEF PlaceKept, TypeOK
    <2>3. Registered' = Registered
      BY <2>1, <1>0 DEF Registered, TypeOK, Handlers, None
    <2>4. PlacesServed'
      BY <2>1, <2>3, <1>0 DEF PlacesServed, Registered, TypeOK
    <2> QED
      BY <2>2, <2>3, <2>4, <1>0 DEF PlacesFacts, ConnectionsBounded
  <1>3. ASSUME NEW h \in Handlers, Leave(h) PROVE PlacesFacts'
    <2>1. /\ Unlocked /\ UNCHANGED lock /\ pc' = [pc EXCEPT ![h] = "ended"]
          /\ id' = [id EXCEPT ![h] = NoInstance] /\ table' = [table EXCEPT ![id[h]] = None]
      BY <1>3 DEF Leave, Unregister, Go
    <2>2. \A i \in Instances : table'[i] # h
      BY <2>1, <1>0 DEF PlacesServed, Registered, TypeOK, Handlers, None
    <2>3. table' \in [Instances -> Handlers \cup {None}] /\ \A i \in Instances : table'[i] \in {table[i], None}
      BY <2>1, <1>0 DEF TypeOK
    <2>4. \A g \in Handlers :
              /\ pc'[g] = "replace" => pc[g] = "replace"
              /\ pc'[g] = pc[g] \/ pc'[g] \notin Placeless \/ \A i \in Instances : table'[i] # g
              /\ id'[g] = id[g] \/ \A i \in Instances : table'[i] # g
      BY <2>1, <2>2, <1>0 DEF TypeOK
    <2> QED
      BY <2>1, <2>3, <2>4, <1>0, UnregisteringKeepsPlaces
  <1>4. ASSUME NEW h \in Handlers, SendAckFailed(h) PROVE PlacesFacts'
    <2>1. /\ Unlocked /\ UNCHANGED <<lock, id>> /\ pc' = [pc EXCEPT ![h] = "serve"]
          /\ table' = [table EXCEPT ![id[h]] = None]
      BY <1>4 DEF SendAckFailed, NextResult, Unregister, Go
    <2>2. table' \in [Instances -> Handlers \cup {None}] /\ \A i \in Instances : table'[i] \in {table[i], None}
      BY <2>1, <1>0 DEF TypeOK
    <2>3. \A g \in Handlers :
              /\ pc'[g] = "replace" => pc[g] = "replace"
              /\ pc'[g] = pc[g] \/ pc'[g] \notin Placeless \/ \A i \in Instances : table'[i] # g
              /\ id'[g] = id[g] \/ \A i \in Instances : table'[i] # g
      BY <2>1, <1>0 DEF TypeOK, Placeless
    <2> QED
      BY <2>1, <2>2, <2>3, <1>0, UnregisteringKeepsPlaces
  <1>5. ASSUME NEW h \in Handlers, NEW i \in Instances, ReceiveRegister(h, i) PROVE PlacesFacts'
    <2>1. /\ pc[h] = "accepted" /\ id' = [id EXCEPT ![h] = i] /\ pc' = [pc EXCEPT ![h] = "register"]
          /\ UNCHANGED <<table, lock>>
      BY <1>5 DEF ReceiveRegister, Go
    <2>2. PlaceKept'
      BY <2>1, <1>0 DEF PlaceKept, TypeOK
    <2>3. Registered' = Registered
      BY <2>1 DEF Registered
    <2>4. PlacesServed'
      BY <2>1, <2>3, <1>0 DEF PlacesServed, Registered, TypeOK
    <2> QED
      BY <2>2, <2>3, <2>4, <1>0 DEF PlacesFacts, ConnectionsBounded
  <1>6. ASSUME CleanUp PROVE PlacesFacts'
    <2>1. table' \in [Instances -> Handlers \cup {None}] /\ \A i \in Instances : table'[i] \in {table[i], None}
      BY <1>6, <1>0 DEF CleanUp, TypeOK
    <2>2. Unlocked /\ UNCHANGED <<lock, pc, id>>
      BY <1>6 DEF CleanUp
    <2> QED
      BY <2>1, <2>2, <1>0, UnregisteringKeepsPlaces
  <1>7. ASSUME UNCHANGED <<pc, id, table, lock>> PROVE PlacesFacts'
    <2>1. Quiet
      BY <1>7 DEF Quiet
    <2> QED
      BY <2>1, <1>0, QuietKeepsPlaces
  <1>8. ASSUME NEW c \in Clients, Join(c) \/ ClientBreaks(c) \/ ClientLeaves(c) PROVE PlacesFacts'
    BY <1>7, <1>8 DEF Join, ClientBreaks, ClientLeaves, tableVars
  <1>9. ASSUME NEW h \in Handlers, Quiet PROVE PlacesFacts'
    BY <1>9, <1>0, QuietKeepsPlaces
  <1>10. CASE UNCHANGED vars
    BY <1>7, <1>10 DEF vars, tableVars
  <1> QED
    BY <1>0, <1>1, <1>2, <1>3, <1>4, <1>5, <1>6, <1>8, <1>9, <1>10, QuietSteps DEF Next, Coroutine

LEMMA PlacesInit == Init => PlacesInv
  <1> SUFFICES ASSUME Init PROVE PlacesInv
    OBVIOUS
  <1> USE DEF Init, Handlers, None
  <1>1. TypeOK
    BY ConnectionsAssumption DEF TypeOK
  <1>2. CoroutinesKnow /\ PlaceKept
    BY DEF CoroutinesKnow, PlaceKept, Processing
  <1>3. Registered = {}
    BY DEF Registered
  <1>4. ConnectionsBounded /\ PlacesServed
    BY <1>3, FS_EmptySet, ConnectionsAssumption DEF ConnectionsBounded, PlacesServed
  <1> QED
    BY <1>1, <1>2, <1>4 DEF PlacesInv, PlacesFacts

THEOREM PlacesHold == Spec => []PlacesInv
  <1>1. PlacesInv /\ [Next]_vars => PlacesInv'
    BY TypeStep, PlacesStep DEF PlacesInv
  <1> QED
    BY <1>1, PlacesInit, PTL DEF Spec

(* Every variable of the connections has its type, and the lock of the table *)
(* is held over no await but that of a replacement.                          *)
THEOREM ConnectionsTyped == Spec => []TypeOK
  <1>1. PlacesInv => TypeOK
    BY DEF PlacesInv
  <1> QED
    BY <1>1, PlacesHold, PTL

(* max_connections is never exceeded.                                        *)
THEOREM LimitKept == Spec => []ConnectionsBounded
  <1>1. PlacesInv => ConnectionsBounded
    BY DEF PlacesInv, PlacesFacts
  <1> QED
    BY <1>1, PlacesHold, PTL

(* Every place in the table belongs to a coroutine that will give it back.   *)
THEOREM PlacesAreServed == Spec => []PlacesServed
  <1>1. PlacesInv => PlacesServed
    BY DEF PlacesInv, PlacesFacts
  <1> QED
    BY <1>1, PlacesHold, PTL
-----------------------------------------------------------------------------
(* Most steps leave the events alone, and take a coroutine from one result   *)
(* to none, or keep its verdict once the broadcast is over.                  *)
Answering == {"ack", "send", "unregister"}

Unheard ==
    /\ UNCHANGED <<tracked, timed, audience, heard, told, todo, acked>>
    /\ \A g \in Handlers :
           \/ UNCHANGED <<pc[g], verdict[g], batch[g]>>
           \/ ~verdict'[g] /\ pc'[g] # "broadcast"
           \/ pc[g] \in Answering /\ pc'[g] \in Answering /\ UNCHANGED <<verdict[g], batch[g]>>

LEMMA UnheardKeepsEvents ==
    ASSUME TypeOK, EventsFacts, Unheard
    PROVE  EventsFacts'
  <1>1. FirstResult' /\ AudiencePresent' /\ AckedInformed'
    BY DEF EventsFacts, FirstResult, AudiencePresent, AckedInformed, Unheard
  <1>2. SuccessAfterTelling'
    <2> SUFFICES ASSUME NEW g \in Handlers
                 PROVE  /\ pc'[g] = "broadcast" => Head(batch'[g]) \notin timed
                        /\ verdict'[g] =>
                              /\ pc'[g] \in Processing
                              /\ Head(batch'[g]) \notin timed
                              /\ \A c \in audience[Head(batch'[g])] :
                                     \/ <<c, Head(batch'[g])>> \in told
                                     \/ pc'[g] = "broadcast" /\ c \in todo[g]
      BY DEF SuccessAfterTelling, Unheard
    <2>1. CASE UNCHANGED <<pc[g], verdict[g], batch[g]>>
      BY <2>1 DEF EventsFacts, SuccessAfterTelling
    <2>2. CASE ~verdict'[g] /\ pc'[g] # "broadcast"
      BY <2>2
    <2>3. CASE pc[g] \in Answering /\ pc'[g] \in Answering /\ UNCHANGED <<verdict[g], batch[g]>>
      BY <2>3 DEF EventsFacts, SuccessAfterTelling, Answering, Processing
    <2> QED
      BY <2>1, <2>2, <2>3 DEF Unheard
  <1> QED
    BY <1>1, <1>2 DEF EventsFacts

LEMMA UnheardSteps ==
    ASSUME TypeOK, SuccessAfterTelling, NEW h \in Handlers,
           \/ Connect(h) \/ Refuse(h) \/ Register(h) \/ Replace(h) \/ Reject(h) \/ Confirm(h)
           \/ Leave(h) \/ ReceiveDisconnect(h) \/ ReceiveBroken(h) \/ RefuseResult(h)
           \/ LookUp(h) \/ SendAckFailed(h) \/ Break(h)
           \/ \E i \in Instances : ReceiveRegister(h, i)
           \/ \E t \in Tasks, n \in 1..2 : ReceiveResults(h, [k \in 1..n |-> t])
    PROVE  Unheard
  <1> USE DEF Go, tableVars, resultVars, taskVars, eventVars
  <1>1. /\ UNCHANGED <<tracked, timed, audience, heard, told, todo, acked>>
        /\ \/ UNCHANGED <<pc, verdict, batch>>
           \/ /\ pc[h] \notin Processing /\ UNCHANGED verdict
              /\ \/ UNCHANGED <<pc, verdict>>
                    /\ \E s \in Seq(Tasks) : batch' = [batch EXCEPT ![h] = s]
                 \/ UNCHANGED batch
                    /\ \E s \in {"accepted", "ended", "register", "rejected", "replace", "confirm",
                                 "serve", "leave"} : pc' = [pc EXCEPT ![h] = s]
           \/ /\ verdict' = [verdict EXCEPT ![h] = FALSE]
              /\ \E s \in {"serve", "ack"} : pc' = [pc EXCEPT ![h] = s]
              /\ \E s : batch' = [batch EXCEPT ![h] = s]
           \/ /\ pc[h] \in Answering /\ UNCHANGED <<verdict, batch>>
              /\ \E s \in Answering : pc' = [pc EXCEPT ![h] = s]
    <2>0. ASSUME NextResult(h)
          PROVE  /\ verdict' = [verdict EXCEPT ![h] = FALSE] /\ pc' = [pc EXCEPT ![h] = "serve"]
                 /\ batch' = [batch EXCEPT ![h] = Tail(batch[h])]
      BY <2>0 DEF NextResult, TypeOK
    <2>1. CASE Connect(h) \/ Refuse(h) \/ Replace(h) \/ Reject(h) \/ Confirm(h) \/ Leave(h)
               \/ ReceiveDisconnect(h) \/ ReceiveBroken(h) \/ \E i \in Instances : ReceiveRegister(h, i)
      BY <2>1 DEF Connect, Refuse, Replace, Reject, Confirm, Leave, ReceiveDisconnect, ReceiveBroken,
                  ReceiveRegister, Processing
    <2>2. CASE Register(h)
      <3>1. \E s \in {"rejected", "replace", "confirm"} : pc' = [pc EXCEPT ![h] = s]
        BY <2>2 DEF Register
      <3> QED
        BY <2>2, <3>1 DEF Register, Processing
    <2>3. CASE RefuseResult(h)
      <3>1. batch' = [batch EXCEPT ![h] = batch[h]]
        BY <2>3 DEF RefuseResult, TypeOK
      <3>2. verdict' = [verdict EXCEPT ![h] = FALSE] /\ pc' = [pc EXCEPT ![h] = "ack"]
        BY <2>3 DEF RefuseResult, Answer
      <3>3. UNCHANGED <<tracked, timed, audience, heard, told, todo, acked>>
        BY <2>3 DEF RefuseResult
      <3> QED
        BY <3>1, <3>2, <3>3
    <2>4. CASE LookUp(h)
      <3>1. /\ pc[h] = "ack"
            /\ UNCHANGED <<tracked, timed, audience, heard, told, todo, acked>>
            /\ NextResult(h) \/ (Go(h, "send") /\ UNCHANGED <<batch, verdict>>)
        <4>1. CASE table[id[h]] = None
          BY <2>4, <4>1 DEF LookUp
        <4>2. CASE table[id[h]] # None
          BY <2>4, <4>2 DEF LookUp
        <4> QED
          BY <4>1, <4>2
      <3>2. CASE NextResult(h)
        BY <3>1, <3>2, <2>0
      <3>3. CASE Go(h, "send") /\ UNCHANGED <<batch, verdict>>
        BY <3>1, <3>3 DEF Answering
      <3> QED
        BY <3>1, <3>2, <3>3
    <2>5. CASE SendAckFailed(h)
      <3>1. NextResult(h) /\ UNCHANGED <<tracked, timed, audience, heard, told, todo, acked>>
        BY <2>5 DEF SendAckFailed
      <3> QED
        BY <3>1, <2>0
    <2>6. CASE Break(h)
      BY <2>6 DEF Break
    <2>7. CASE \E t \in Tasks, n \in 1..2 : ReceiveResults(h, [k \in 1..n |-> t])
      <3>1. PICK t \in Tasks, n \in 1..2 : ReceiveResults(h, [k \in 1..n |-> t])
        BY <2>7
      <3>2. [k \in 1..n |-> t] \in Seq(Tasks)
        OBVIOUS
      <3>3. /\ pc[h] = "serve" /\ UNCHANGED <<pc, verdict>>
            /\ batch' = [batch EXCEPT ![h] = [k \in 1..n |-> t]]
            /\ UNCHANGED <<tracked, timed, audience, heard, told, todo, acked>>
        BY <3>1 DEF ReceiveResults
      <3>4. \E s \in Seq(Tasks) : batch' = [batch EXCEPT ![h] = s]
        BY <3>2, <3>3
      <3> QED
        BY <3>3, <3>4 DEF Processing
    <2> QED
      BY <2>1, <2>2, <2>3, <2>4, <2>5, <2>6, <2>7
  <1>2. pc[h] \notin Processing => ~verdict[h]
    BY DEF SuccessAfterTelling
  <1>3. SUFFICES ASSUME NEW g \in Handlers
                 PROVE  \/ UNCHANGED <<pc[g], verdict[g], batch[g]>>
                        \/ ~verdict'[g] /\ pc'[g] # "broadcast"
                        \/ pc[g] \in Answering /\ pc'[g] \in Answering /\ UNCHANGED <<verdict[g], batch[g]>>
    BY <1>1 DEF Unheard
  <1>4. CASE g # h
    BY <1>1, <1>4 DEF TypeOK
  <1>5. CASE g = h
    BY <1>1, <1>2, <1>5 DEF TypeOK, Answering, Processing
  <1> QED
    BY <1>4, <1>5
(* The steps that change what is told, who is there, or what is tracked.     *)
LEMMA EventsStep == PlacesInv /\ EventsFacts /\ [Next]_vars => EventsFacts'
  <1> SUFFICES ASSUME PlacesInv, EventsFacts, [Next]_vars PROVE EventsFacts'
    OBVIOUS
  <1>0. /\ TypeOK /\ CoroutinesKnow
        /\ FirstResult /\ AudiencePresent /\ SuccessAfterTelling /\ AckedInformed
    BY DEF PlacesInv, EventsFacts
  <1>t. ASSUME NEW g \in Handlers, verdict[g] \/ pc[g] \in Processing
        PROVE  batch[g] # <<>> /\ Head(batch[g]) \in Tasks
    <2>1. pc[g] \in Processing
      BY <1>t, <1>0 DEF SuccessAfterTelling
    <2>2. batch[g] # <<>>
      BY <2>1, <1>0 DEF CoroutinesKnow
    <2> QED
      BY <2>2, <1>0, HeadIsTask
  <1>1. ASSUME NEW h \in Handlers, ProcessResult(h) PROVE EventsFacts'
    <2> DEFINE t == Head(batch[h])
    <2>1. /\ pc[h] = "serve" /\ t \in Tasks /\ timed' = timed \ {t}
          /\ audience' = IF t \in timed THEN [audience EXCEPT ![t] = Present] ELSE audience
          /\ UNCHANGED <<batch, heard, told, acked>>
      BY <1>1, <1>0, HeadIsTask DEF ProcessResult, Formatted
    <2>2. \/ /\ t \in tracked /\ listening # {} /\ tracked' = tracked
             /\ pc' = [pc EXCEPT ![h] = "broadcast"]
             /\ todo' = [todo EXCEPT ![h] = listening]
             /\ verdict' = [verdict EXCEPT ![h] = t \in timed]
          \/ /\ t \notin tracked \/ listening = {}
             /\ tracked' = tracked \ {t} /\ todo' = todo
             /\ pc' = [pc EXCEPT ![h] = "ack"]
             /\ verdict' = [verdict EXCEPT ![h] = t \in timed]
      BY <1>1 DEF ProcessResult, Answer, Formatted, Go
    <2>3. Present \subseteq listening /\ \A c \in Present : heard[c] = "here"
      BY DEF Present
    <2>4. FirstResult'
      BY <2>1, <2>2, <1>0 DEF FirstResult, TypeOK
    <2>5. AudiencePresent'
      BY <2>1, <2>3, <1>0 DEF AudiencePresent, TypeOK
    <2>6. AckedInformed'
      BY <2>1, <1>0 DEF AckedInformed, FirstResult, TypeOK
    <2>7. SuccessAfterTelling'
      <3> SUFFICES ASSUME NEW g \in Handlers
                   PROVE  /\ pc'[g] = "broadcast" => Head(batch[g]) \notin timed'
                          /\ verdict'[g] =>
                                /\ pc'[g] \in Processing
                                /\ Head(batch[g]) \notin timed'
                                /\ \A c \in audience'[Head(batch[g])] :
                                       \/ <<c, Head(batch[g])>> \in told
                                       \/ pc'[g] = "broadcast" /\ c \in todo'[g]
        BY <2>1 DEF SuccessAfterTelling
      <3>1. CASE g # h
        <4>1. pc'[g] = pc[g] /\ verdict'[g] = verdict[g] /\ todo'[g] = todo[g]
          BY <2>2, <3>1, <1>0 DEF TypeOK
        <4>2. pc[g] = "broadcast" => Head(batch[g]) \notin timed'
          BY <2>1, <1>0 DEF SuccessAfterTelling
        <4>3. ASSUME verdict[g] PROVE audience'[Head(batch[g])] = audience[Head(batch[g])]
          <5>1. Head(batch[g]) \in Tasks /\ Head(batch[g]) \notin timed
            BY <4>3, <1>t, <1>0 DEF SuccessAfterTelling
          <5> QED
            BY <5>1, <2>1, <1>0 DEF TypeOK
        <4> QED
          BY <4>1, <4>2, <4>3, <2>1, <1>0 DEF SuccessAfterTelling
      <3>2. CASE g = h
        <4>1. t \notin timed'
          BY <2>1
        <4>2. ASSUME verdict'[g]
              PROVE  /\ t \in timed /\ audience'[t] = Present /\ t \in tracked
                     /\ pc'[g] \in {"broadcast", "ack"}
          BY <4>2, <2>1, <2>2, <3>2, <1>0, ZenonT(30) DEF FirstResult, TypeOK
        <4>3. ASSUME verdict'[g], NEW c \in audience'[t] PROVE pc'[g] = "broadcast" /\ c \in todo'[g]
          BY <4>2, <4>3, <2>2, <2>3, <3>2, <1>0 DEF TypeOK
        <4> QED
          BY <4>1, <4>2, <4>3, <3>2 DEF Processing
      <3> QED
        BY <3>1, <3>2
    <2> QED
      BY <2>4, <2>5, <2>6, <2>7 DEF EventsFacts
  <1>2. ASSUME NEW h \in Handlers, NEW c \in Clients, SendEvent(h, c) PROVE EventsFacts'
    <2>1. /\ pc[h] = "broadcast" /\ todo' = [todo EXCEPT ![h] = todo[h] \ {c}]
          /\ told \subseteq told' /\ (heard[c] = "here" => <<c, Head(batch[h])>> \in told')
          /\ UNCHANGED <<pc, batch, verdict, tracked, timed, audience, heard, acked>>
      BY <1>2, <1>0 DEF SendEvent, resultVars, taskVars, TypeOK
    <2>2. FirstResult' /\ AudiencePresent' /\ AckedInformed'
      BY <2>1, <1>0 DEF FirstResult, AudiencePresent, AckedInformed
    <2>3. \A g \in Handlers : g # h => todo'[g] = todo[g]
      BY <2>1, <1>0 DEF TypeOK
    <2>4. todo'[h] = todo[h] \ {c} /\ Head(batch[h]) \in Tasks
      BY <2>1, <1>0, <1>t DEF TypeOK, Processing
    <2>5. \A d \in audience[Head(batch[h])] : d = c => <<d, Head(batch[h])>> \in told'
      BY <2>1, <2>4, <1>0 DEF AudiencePresent
    <2>6. SuccessAfterTelling'
      BY <2>1, <2>3, <2>4, <2>5, <1>0 DEF SuccessAfterTelling
    <2> QED
      BY <2>2, <2>6 DEF EventsFacts
  <1>3. ASSUME NEW h \in Handlers, EndBroadcast(h) PROVE EventsFacts'
    <2>1. /\ pc[h] = "broadcast" /\ todo[h] = {} /\ tracked' = tracked \ {Head(batch[h])}
          /\ pc' = [pc EXCEPT ![h] = "ack"]
          /\ UNCHANGED <<batch, verdict, timed, audience, heard, told, todo, acked>>
      BY <1>3 DEF EndBroadcast, AllTold, Go, resultVars
    <2>2. FirstResult' /\ AudiencePresent' /\ AckedInformed'
      BY <2>1, <1>0 DEF FirstResult, AudiencePresent, AckedInformed, SuccessAfterTelling
    <2>3. SuccessAfterTelling'
      BY <2>1, <1>0 DEF SuccessAfterTelling, TypeOK, Processing
    <2> QED
      BY <2>2, <2>3 DEF EventsFacts
  <1>4. ASSUME NEW h \in Handlers, SendAck(h) PROVE EventsFacts'
    <2>1. CASE UNCHANGED acked
      <3>1. \/ /\ verdict' = [verdict EXCEPT ![h] = FALSE]
               /\ pc' = [pc EXCEPT ![h] = "serve"] /\ \A g \in Handlers : g # h => batch'[g] = batch[g]
            \/ /\ pc[h] = "send" /\ pc' = [pc EXCEPT ![h] = "unregister"] /\ UNCHANGED <<batch, verdict>>
        BY <1>4, <1>0 DEF SendAck, NextResult, Go, TypeOK
      <3>2. UNCHANGED <<tracked, timed, audience, heard, told, todo, acked>>
        BY <1>4, <2>1 DEF SendAck, taskVars, eventVars
      <3>3. Unheard
        BY <3>1, <3>2, <1>0 DEF Unheard, TypeOK, Answering
      <3> QED
        BY <3>3, <1>0, UnheardKeepsEvents
    <2>2. CASE acked' = acked \cup {t \in {Head(batch[h])} : verdict[h]} /\ NextResult(h)
      <3>1. /\ verdict' = [verdict EXCEPT ![h] = FALSE] /\ pc' = [pc EXCEPT ![h] = "serve"]
            /\ \A g \in Handlers : g # h => batch'[g] = batch[g]
            /\ pc[h] = "send"
            /\ UNCHANGED <<tracked, timed, audience, heard, told, todo>>
        BY <1>4, <2>2, <1>0 DEF SendAck, NextResult, Go, TypeOK, taskVars, eventVars
      <3>2. \A t \in acked' : t \in acked \/ (t = Head(batch[h]) /\ verdict[h])
        BY <2>2
      <3>3. verdict[h] => /\ Head(batch[h]) \notin timed
                          /\ \A c \in audience[Head(batch[h])] : <<c, Head(batch[h])>> \in told
        BY <3>1, <1>0 DEF SuccessAfterTelling
      <3>4. FirstResult' /\ AudiencePresent' /\ AckedInformed'
        BY <3>1, <3>2, <3>3, <1>0 DEF FirstResult, AudiencePresent, AckedInformed
      <3>5. SuccessAfterTelling'
        BY <3>1, <1>0 DEF SuccessAfterTelling, TypeOK
      <3> QED
        BY <3>4, <3>5 DEF EventsFacts
    <2> QED
      BY <1>4, <2>1, <2>2 DEF SendAck
  <1>5. ASSUME NEW c \in Clients, Join(c) PROVE EventsFacts'
    <2>1. /\ heard' = [heard EXCEPT ![c] = "here"]
          /\ UNCHANGED <<pc, batch, verdict, tracked, timed, audience, told, todo, acked>>
      BY <1>5 DEF Join, resultVars, taskVars
    <2>2. AudiencePresent'
      BY <2>1, <1>0 DEF AudiencePresent, TypeOK
    <2> QED
      BY <2>1, <2>2, <1>0 DEF EventsFacts, FirstResult, AckedInformed, SuccessAfterTelling
  <1>6. ASSUME NEW c \in Clients, ClientBreaks(c) PROVE EventsFacts'
    <2>1. /\ heard' = [heard EXCEPT ![c] = "gone"]
          /\ \A t \in Tasks : audience'[t] = audience[t] \ {c}
          /\ told' = told \ ({c} \X Tasks)
          /\ UNCHANGED <<pc, batch, verdict, tracked, timed, todo, acked>>
      BY <1>6 DEF ClientBreaks, resultVars
    <2>2. \A d, t : <<d, t>> \in told /\ d # c => <<d, t>> \in told'
      BY <2>1
    <2>3. FirstResult'
      BY <2>1, <1>0 DEF FirstResult, TypeOK
    <2>4. AudiencePresent'
      BY <2>1, <1>0 DEF AudiencePresent, TypeOK
    <2>5. AckedInformed'
      BY <2>1, <2>2, <1>0 DEF AckedInformed
    <2>6. SuccessAfterTelling'
      <3> SUFFICES ASSUME NEW g \in Handlers, verdict[g], NEW d \in audience'[Head(batch[g])]
                   PROVE  \/ <<d, Head(batch[g])>> \in told'
                          \/ pc[g] = "broadcast" /\ d \in todo[g]
        BY <2>1, <1>0 DEF SuccessAfterTelling
      <3>1. d \in audience[Head(batch[g])] /\ d # c
        BY <2>1, <1>t
      <3> QED
        BY <3>1, <2>2, <1>0 DEF SuccessAfterTelling
    <2> QED
      BY <2>3, <2>4, <2>5, <2>6 DEF EventsFacts
  <1>7. ASSUME UNCHANGED <<pc, batch, verdict, tracked, timed, audience, heard, told, todo, acked>>
        PROVE  EventsFacts'
    <2>1. Unheard
      BY <1>7 DEF Unheard
    <2> QED
      BY <2>1, <1>0, UnheardKeepsEvents
  <1>8. CASE CleanUp \/ \E c \in Clients : ClientLeaves(c)
    BY <1>7, <1>8 DEF CleanUp, ClientLeaves, resultVars, taskVars, eventVars
  <1>9. CASE UNCHANGED vars
    BY <1>7, <1>9 DEF vars, resultVars, taskVars, eventVars
  <1>10. ASSUME Unheard PROVE EventsFacts'
    BY <1>10, <1>0, UnheardKeepsEvents
  <1> QED
    BY <1>0, <1>1, <1>2, <1>3, <1>4, <1>5, <1>6, <1>8, <1>9, <1>10, UnheardSteps DEF Next, Coroutine

(* An instance whose result is acknowledged with success can rely on the     *)
(* events: every client that was listening when the result completed the     *)
(* task, and still is there, has been told.                                  *)
THEOREM AcknowledgedInformed == Spec => []AckedInformed
  <1>1. Init => EventsFacts
    BY DEF Init, EventsFacts, FirstResult, AudiencePresent, SuccessAfterTelling, AckedInformed
  <1>2. PlacesInv /\ EventsFacts /\ [Next]_vars => EventsFacts'
    BY EventsStep
  <1>3. EventsFacts => AckedInformed
    BY DEF EventsFacts
  <1> QED
    BY <1>1, <1>2, <1>3, PlacesHold, PTL DEF Spec
=============================================================================
