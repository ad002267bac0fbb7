------------------------- MODULE TaskTrackerProofs -------------------------
(***************************************************************************)
(* The task tracker keeps its history within max_history, for every        *)
(* number of tasks and every history size.  The bound alone is not         *)
(* inductive: the cleanup is triggered by the counter, so the invariant    *)
(* also says that the counter is never below the number of completed       *)
(* tasks, however far above it may be.                                     *)
(***************************************************************************)
EXTENDS TaskTracker, FiniteSetTheorems, TLAPS

CountCovers == Cardinality(Completed) <= completedCount

IInv == TypeOK /\ CountCovers /\ HistoryBounded

(* Completed' is what a step leaves of a set that was completed before it. *)
Leaves(completed, gone) == Completed' = completed \ gone

-----------------------------------------------------------------------------
(* The extra places a cleanup frees are a natural number. *)
LEMMA ExtraPlaces == MaxHistory \div HistoryDivisor \in Nat
BY TrackerAssumption

LEMMA CompletedFinite ==
    IsFiniteSet(Completed) /\ Cardinality(Completed) \in Nat
BY TrackerAssumption, FS_Subset, FS_CardinalityType DEF Completed

(* Taking a subset away subtracts its cardinality. *)
LEMMA CardinalityLeft ==
    ASSUME NEW S, IsFiniteSet(S), NEW G \in SUBSET S
    PROVE  /\ Cardinality(S) \in Nat
           /\ Cardinality(G) \in Nat
           /\ Cardinality(S \ G) = Cardinality(S) - Cardinality(G)
<1>1. IsFiniteSet(G) /\ S \cap G = G
  BY FS_Subset
<1>2. QED
  BY <1>1, FS_Difference, FS_CardinalityType

(* A step that completes nothing and leaves the counter keeps the invariant. *)
LEMMA FewerCompleted ==
    ASSUME CountCovers, HistoryBounded, completedCount \in Nat,
           Completed' \subseteq Completed, UNCHANGED completedCount
    PROVE  CountCovers' /\ HistoryBounded'
<1>1. Cardinality(Completed') <= Cardinality(Completed)
  BY CompletedFinite, FS_Subset
<1>2. Cardinality(Completed') \in Nat
  BY CompletedFinite, FS_Subset, FS_CardinalityType
<1>3. QED
  BY <1>1, <1>2, CompletedFinite, TrackerAssumption DEF CountCovers, HistoryBounded

-----------------------------------------------------------------------------
LEMMA RegisterKeeps ==
    ASSUME IInv, NEW t \in Tasks, RegisterTask(t)
    PROVE  IInv'
<1>1. Completed' \subseteq Completed
  BY DEF IInv, TypeOK, RegisterTask, Completed
<1>2. TypeOK'
  BY DEF IInv, TypeOK, RegisterTask, Statuses, NoTime
<1>3. QED
  BY <1>1, <1>2, FewerCompleted DEF IInv, TypeOK, RegisterTask

LEMMA ScheduledKeeps ==
    ASSUME IInv, NEW t \in Tasks, MarkScheduled(t)
    PROVE  IInv'
<1>1. Completed' \subseteq Completed
  BY DEF IInv, TypeOK, MarkScheduled, Completed
<1>2. TypeOK'
  BY DEF IInv, TypeOK, MarkScheduled, Statuses
<1>3. QED
  BY <1>1, <1>2, FewerCompleted DEF IInv, TypeOK, MarkScheduled

LEMMA CompletedKeeps ==
    ASSUME IInv, NEW t \in Tasks, NEW time \in Times, MarkCompleted(t, time)
    PROVE  IInv'
<1> DEFINE completed == Completed \cup {t}
           at == [completedAt EXCEPT ![t] = time]
           extra == MaxHistory \div HistoryDivisor
<1>1. PICK gone \in SUBSET completed :
          /\ IF completedCount + 1 > MaxHistory
             THEN CleanupOldTasks(gone, completed, at)
             ELSE gone = {}
          /\ Drop(gone, [status EXCEPT ![t] = "completed"], at)
          /\ completedCount' = completedCount + 1 - Cardinality(gone)
  BY DEF MarkCompleted
<1>2. Completed' = completed \ gone
  BY <1>1 DEF Drop, Completed, IInv, TypeOK
<1>3. /\ IsFiniteSet(completed)
      /\ Cardinality(completed) <= Cardinality(Completed) + 1
  <2>1. /\ IsFiniteSet(completed)
        /\ \/ Cardinality(completed) = Cardinality(Completed)
           \/ Cardinality(completed) = Cardinality(Completed) + 1
    BY CompletedFinite, FS_AddElement
  <2>2. QED
    BY ONLY <2>1, CompletedFinite
<1>4. /\ Cardinality(completed) \in Nat
      /\ Cardinality(gone) \in Nat
      /\ Cardinality(Completed') = Cardinality(completed) - Cardinality(gone)
      /\ Cardinality(Completed') \in Nat
  <2>1. IsFiniteSet(completed \ gone)
    BY <1>3, FS_Subset
  <2>2. QED
    BY <1>2, <1>3, <2>1, CardinalityLeft, FS_CardinalityType
<1> HIDE DEF completed
<1>5. CountCovers'
  BY <1>1, <1>3, <1>4, CompletedFinite DEF CountCovers, IInv, TypeOK
<1>6. HistoryBounded'
  <2>1. CASE completedCount + 1 > MaxHistory
    <3>1. Cardinality(gone) = IF Surplus(Cardinality(completed)) > 0
                              THEN Surplus(Cardinality(completed)) ELSE 0
      BY <1>1, <2>1 DEF CleanupOldTasks
    <3>2. extra \in Nat
      BY ExtraPlaces
    <3>3. Surplus(Cardinality(completed)) = Cardinality(completed) - MaxHistory + extra
      BY DEF Surplus
    <3> HIDE DEF extra
    <3>4. QED
      BY <3>1, <3>2, <3>3, <1>4, TrackerAssumption DEF HistoryBounded
  <2>2. CASE ~(completedCount + 1 > MaxHistory)
    <3>1. Cardinality(gone) = 0
      BY <1>1, <2>2, FS_EmptySet
    <3>2. QED
      BY <3>1, <2>2, <1>3, <1>4, CompletedFinite, TrackerAssumption
      DEF HistoryBounded, CountCovers, IInv, TypeOK
  <2>3. QED
    BY <2>1, <2>2
<1>7. TypeOK'
  <2>1. completedCount' \in Nat
    BY <1>1, <1>4, <1>5 DEF CountCovers, IInv, TypeOK
  <2>2. at \in [Tasks -> Nat]
    BY TrackerAssumption DEF IInv, TypeOK
  <2>3. QED
    BY <1>1, <2>1, <2>2 DEF Drop, IInv, TypeOK, Statuses, NoTime
<1>8. QED
  BY <1>5, <1>6, <1>7 DEF IInv

(* remove_task, clear_completed and clear_all take away part of Completed.   *)
LEMMA TakenAway ==
    ASSUME IInv, NEW gone \in SUBSET Tasks, Drop(gone, status, completedAt),
           completedCount' = completedCount - Cardinality(gone \cap Completed)
    PROVE  IInv'
<1> DEFINE lost == gone \cap Completed
<1>1. Completed' = Completed \ lost
  BY DEF Drop, Completed, IInv, TypeOK
<1>2. /\ Cardinality(Completed) \in Nat
      /\ Cardinality(lost) \in Nat
      /\ Cardinality(Completed') = Cardinality(Completed) - Cardinality(lost)
      /\ Cardinality(Completed') \in Nat
  <2>1. lost \in SUBSET Completed /\ IsFiniteSet(Completed \ lost)
    BY CompletedFinite, FS_Subset
  <2>2. QED
    BY <1>1, <2>1, CompletedFinite, CardinalityLeft, FS_CardinalityType
<1>3. CountCovers' /\ HistoryBounded' /\ completedCount' \in Nat
  BY <1>2, TrackerAssumption DEF CountCovers, HistoryBounded, IInv, TypeOK
<1>4. TypeOK'
  BY <1>3 DEF Drop, IInv, TypeOK, Statuses, NoTime
<1>5. QED
  BY <1>3, <1>4 DEF IInv

LEMMA RemoveKeeps ==
    ASSUME IInv, NEW t \in Tasks, RemoveTask(t)
    PROVE  IInv'
<1>1. Cardinality({t} \cap Completed) = IF status[t] = "completed" THEN 1 ELSE 0
  <2>1. CASE status[t] = "completed"
    <3>1. {t} \cap Completed = {t}
      BY <2>1 DEF Completed
    <3>2. QED
      BY <2>1, <3>1, FS_Singleton
  <2>2. CASE status[t] # "completed"
    <3>1. {t} \cap Completed = {}
      BY <2>2 DEF Completed
    <3>2. QED
      BY <2>2, <3>1, FS_EmptySet
  <2>3. QED
    BY <2>1, <2>2
<1>2. completedCount' = completedCount - Cardinality({t} \cap Completed)
  BY <1>1 DEF RemoveTask, UncountCompleted, IInv, TypeOK
<1>3. QED
  BY <1>2, TakenAway DEF RemoveTask

LEMMA ClearCompletedKeeps ==
    ASSUME IInv, ClearCompleted
    PROVE  IInv'
<1>1. Completed \in SUBSET Tasks /\ Completed \cap Completed = Completed
  BY DEF Completed
<1>2. QED
  BY <1>1, TakenAway DEF ClearCompleted

LEMMA ClearAllKeeps ==
    ASSUME IInv, ClearAll
    PROVE  IInv'
<1>1. Completed' = {}
  BY DEF ClearAll, Drop, Completed
<1>2. CountCovers' /\ HistoryBounded'
  BY <1>1, FS_EmptySet, TrackerAssumption DEF ClearAll, CountCovers, HistoryBounded
<1>3. TypeOK'
  BY DEF ClearAll, Drop, TypeOK, Statuses, NoTime
<1>4. QED
  BY <1>2, <1>3 DEF IInv

-----------------------------------------------------------------------------
LEMMA TrackerInit == Init => IInv
<1> SUFFICES ASSUME Init PROVE IInv
  OBVIOUS
<1>1. Completed = {}
  BY DEF Init, Completed
<1>2. CountCovers /\ HistoryBounded
  BY <1>1, FS_EmptySet, TrackerAssumption DEF Init, CountCovers, HistoryBounded
<1>3. TypeOK
  BY DEF Init, TypeOK, Statuses, NoTime
<1>4. QED
  BY <1>2, <1>3 DEF IInv

LEMMA TrackerStep == IInv /\ [Next]_vars => IInv'
<1> SUFFICES ASSUME IInv, [Next]_vars PROVE IInv'
  OBVIOUS
<1>1. CASE Next
  BY <1>1, RegisterKeeps, ScheduledKeeps, CompletedKeeps, RemoveKeeps,
     ClearCompletedKeeps, ClearAllKeeps DEF Next
<1>2. CASE UNCHANGED vars
  BY <1>2 DEF vars, IInv, TypeOK, CountCovers, HistoryBounded, Completed
<1>3. QED
  BY <1>1, <1>2

(* The tracker never keeps more than max_history completed tasks, although   *)
(* the counter that triggers its cleanup drifts.                             *)
THEOREM HistoryIsBounded == Spec => []HistoryBounded
<1>1. IInv => HistoryBounded
  BY DEF IInv
<1>2. QED
  BY TrackerInit, TrackerStep, <1>1, PTL DEF Spec

(* The statuses, times and counter stay in their types; in particular the    *)
(* counter never becomes negative.                                           *)
THEOREM TrackerTypeCorrect == Spec => []TypeOK
<1>1. IInv => TypeOK
  BY DEF IInv
<1>2. QED
  BY TrackerInit, TrackerStep, <1>1, PTL DEF Spec

-----------------------------------------------------------------------------
(* What a completion that is recorded in the tracker drops: `gone` of the    *)
(* completed tasks and the one completed now.                                *)
LEMMA CompletionDrops ==
    ASSUME IInv, NEW t \in Tasks, NEW time \in Times, MarkCompleted(t, time)
    PROVE  \E gone \in SUBSET (Completed \cup {t}) :
              LET at == [completedAt EXCEPT ![t] = time]
              IN  /\ Dropped \subseteq gone
                  /\ Completed' = (Completed \cup {t}) \ gone
                  /\ \A u \in Completed' : completedAt'[u] = at[u]
                  /\ gone # {} => CleanupOldTasks(gone, Completed \cup {t}, at)
<1> DEFINE at == [completedAt EXCEPT ![t] = time]
<1>1. PICK gone \in SUBSET (Completed \cup {t}) :
          /\ IF completedCount + 1 > MaxHistory
             THEN CleanupOldTasks(gone, Completed \cup {t}, at)
             ELSE gone = {}
          /\ Drop(gone, [status EXCEPT ![t] = "completed"], at)
  BY DEF MarkCompleted
<1>2. Dropped \subseteq gone
  BY <1>1 DEF Dropped, Drop, IInv, TypeOK
<1>3. Completed' = (Completed \cup {t}) \ gone
  BY <1>1 DEF Drop, Completed, IInv, TypeOK
<1>4. \A u \in Completed' : completedAt'[u] = at[u]
  BY <1>1, <1>3 DEF Drop, Completed
<1>5. QED
  BY <1>1, <1>2, <1>3, <1>4

LEMMA CompletionKeeps ==
    ASSUME IInv, NEW t \in Tasks, NEW time \in Times, MarkCompleted(t, time),
           NEW d \in Dropped
    PROVE  Cardinality(KeptSince(IF d = t THEN time ELSE completedAt[d]))
               >= MaxHistory - MaxHistory \div HistoryDivisor
<1> DEFINE completed == Completed \cup {t}
           at == [completedAt EXCEPT ![t] = time]
<1>1. PICK gone \in SUBSET completed :
          /\ Dropped \subseteq gone
          /\ Completed' = completed \ gone
          /\ \A u \in Completed' : completedAt'[u] = at[u]
          /\ gone # {} => CleanupOldTasks(gone, completed, at)
  BY CompletionDrops
<1>2. IsFiniteSet(completed)
  BY CompletedFinite, FS_AddElement
<1>3. KeptSince(IF d = t THEN time ELSE completedAt[d]) = Completed'
  <2>1. d \in Tasks /\ at[d] = IF d = t THEN time ELSE completedAt[d]
    BY DEF Dropped, IInv, TypeOK
  <2>2. \A u \in Completed' : at[d] <= at[u]
    BY <1>1 DEF CleanupOldTasks, OldestOf
  <2>3. \A u \in Completed' : at[u] \in Int /\ at[d] \in Int
    BY <2>1, TrackerAssumption DEF Completed, IInv, TypeOK, TrackerAssumption
  <2>4. QED
    BY <1>1, <2>1, <2>2, <2>3 DEF KeptSince
<1> HIDE DEF completed, at
<1>4. /\ Cardinality(completed) \in Nat
      /\ Cardinality(gone) \in Nat
      /\ Cardinality(Completed') = Cardinality(completed) - Cardinality(gone)
  BY <1>1, <1>2, CardinalityLeft
<1>5. Cardinality(gone) # 0
  BY <1>1, <1>2, FS_Subset, FS_EmptySet
<1>6. Cardinality(gone) = Surplus(Cardinality(completed))
  BY <1>1, <1>4, <1>5 DEF CleanupOldTasks
<1>7. QED
  BY <1>3, <1>4, <1>6, ExtraPlaces, TrackerAssumption DEF Surplus

(* A completed task is pushed out of the history only by as many tasks as a  *)
(* cleanup leaves that completed no earlier, however far the counter has     *)
(* drifted and in whatever order completions are marked.                     *)
THEOREM HistoryIsKept == Spec => HistoryKept
<1>1. IInv => [\A t \in Tasks, time \in Times :
                  MarkCompleted(t, time) =>
                      \A d \in Dropped :
                          Cardinality(KeptSince(IF d = t THEN time
                                                ELSE completedAt[d]))
                              >= MaxHistory - MaxHistory \div HistoryDivisor]_vars
  BY CompletionKeeps
<1>2. QED
  BY TrackerInit, TrackerStep, <1>1, PTL DEF Spec, HistoryKept

-----------------------------------------------------------------------------
(* What the abstract specification does to a tracker of this state.          *)
LEMMA StepIsPromised ==
    ASSUME TypeOK, [Next]_vars
    PROVE  [Promise!Next]_status
<1>1. ASSUME NEW t \in Tasks, RegisterTask(t)
      PROVE  Promise!Register(t)
  BY <1>1 DEF RegisterTask, Promise!Register
<1>2. ASSUME NEW t \in Tasks, MarkScheduled(t)
      PROVE  Promise!Schedule(t)
  BY <1>2 DEF MarkScheduled, Promise!Schedule, Promise!Tracked
<1>3. ASSUME NEW t \in Tasks, NEW time \in Times, MarkCompleted(t, time)
      PROVE  Promise!Complete(t)
  <2>1. PICK gone \in SUBSET (Completed \cup {t}) :
            Drop(gone, [status EXCEPT ![t] = "completed"],
                 [completedAt EXCEPT ![t] = time])
    BY <1>3 DEF MarkCompleted
  <2>2. status' = Promise!Without(gone, [status EXCEPT ![t] = "completed"])
    BY <2>1 DEF Drop, Promise!Without
  <2>3. gone \in SUBSET (Promise!Completed \cup {t})
    BY DEF Completed, Promise!Completed
  <2>4. QED
    BY <1>3, <2>2, <2>3 DEF MarkCompleted, Promise!Complete, Promise!Tracked
<1>4. ASSUME NEW t \in Tasks, RemoveTask(t)
      PROVE  Promise!Remove(t)
  BY <1>4 DEF RemoveTask, Drop, Promise!Remove, Promise!Without
<1>5. ASSUME ClearCompleted
      PROVE  Promise!Trim
  <2>1. status' = Promise!Without(Completed, status)
    BY <1>5 DEF ClearCompleted, Drop, Promise!Without
  <2>2. QED
    BY <2>1 DEF Promise!Trim, Completed, Promise!Completed
<1>6. ASSUME ClearAll
      PROVE  Promise!Clear
  BY <1>6 DEF ClearAll, Drop, Promise!Clear, Promise!Without
<1>7. CASE UNCHANGED vars
  BY <1>7 DEF vars
<1>8. QED
  BY <1>1, <1>2, <1>3, <1>4, <1>5, <1>6, <1>7 DEF Next, Promise!Next

(* The tracker with one lock keeps the promise of every tracker: only what   *)
(* is tracked is updated, and what has left stays away until it is           *)
(* registered again.                                                         *)
THEOREM TrackerImplemented == Spec => ImplementsTracker
<1>1. Init => Promise!Init
  BY DEF Init, Promise!Init
<1>2. IInv /\ [Next]_vars => [Promise!Next]_status
  BY StepIsPromised DEF IInv
<1>3. QED
  BY TrackerInit, TrackerStep, <1>1, <1>2, PTL
  DEF Spec, ImplementsTracker, Promise!Spec
=============================================================================
