---------------------- MODULE LockFreeTrackerProofs ----------------------
(* Theorems about the default task tracker: about ReadWriteLock, the lock of *)
(* its entries, for any number of threads, and about LockFreeTaskTracker for *)
(* any tasks and instances and any max_history, as long as an id is          *)
(* submitted once (MaxSubmissions <= 1).                                     *)
(*                                                                           *)
(* The lock has one invariant, of its counters.  The tracker's invariant     *)
(* says what each of its two threads knows at each section of its calls:     *)
(* what the event loop may conclude of the task in its hands (LoopKnows), by *)
(* how much the statistics lag behind the entries there (Late, Early), that  *)
(* the cleanup only ever has tasks in its hands that will not be queued or   *)
(* scheduled again (Past), and who is about to take a removed task out of    *)
(* its index (TakingOut).  Each part has a lemma ...Stays that every step    *)
(* keeps it; the lemmas LoopMoves and CleanerMoves list, once for all of     *)
(* them, what the steps of the two threads do.                               *)
EXTENDS LockFreeTaskTracker, ReadWriteLock, FiniteSetTheorems, SequenceTheorems, TLAPS

-----------------------------------------------------------------------------
(* The counters count: readers exactly, writers at most one.                 *)
Reading == {t \in LockThreads : lockPc[t] = "reading"}

ReadersCountedOnce == readers = Cardinality(Reading)

WriteMutexExclusive ==
    \A t, u \in LockThreads :
        lockPc[t] \in {"testCounts", "countWriter"} /\ lockPc[u] \in {"testCounts", "countWriter"}
            => t = u

WritersCountedOnce ==
    /\ \A t \in LockThreads : lockPc[t] = "countWriter" => writers = 0
    /\ \A t \in LockThreads : lockPc[t] = "writing" => writers = 1

LockInv ==
    /\ LockTypeOK
    /\ ReadersCountedOnce
    /\ WriteMutexExclusive
    /\ WritersCountedOnce
    /\ WritersExclusive

LEMMA ReadingFinite ==
    /\ IsFiniteSet(Reading) /\ Cardinality(Reading) \in Nat
    /\ IsFiniteSet(Reading')
  BY ThreadsFinite, FS_Subset, FS_CardinalityType DEF Reading

LEMMA InitLock == LockInit => LockInv
  <1> SUFFICES ASSUME LockInit PROVE LockInv
    OBVIOUS
  <1>1. Reading = {}
    BY DEF LockInit, Reading
  <1>2. ReadersCountedOnce
    BY <1>1, FS_EmptySet DEF LockInit, ReadersCountedOnce
  <1> QED
    BY <1>2 DEF LockInit, LockInv, LockTypeOK, WriteMutexExclusive, WritersCountedOnce,
                WritersExclusive

(* A step that moves thread t between two labels other than "reading" leaves *)
(* the readers as they are.                                                  *)
LEMMA ReadersUnmoved ==
    ASSUME LockInv, NEW t \in LockThreads, NEW l, Goto(t, l), l # "reading",
           lockPc[t] # "reading", UNCHANGED readers
    PROVE  ReadersCountedOnce'
  <1>1. Reading' = Reading
    BY DEF LockInv, LockTypeOK, Goto, Reading
  <1> QED
    BY <1>1 DEF LockInv, ReadersCountedOnce

LEMMA StepLock ==
    ASSUME LockInv, [LockNext]_lockVars
    PROVE  LockInv'
  <1> USE DEF LockInv
  <1>0. lockPc \in [LockThreads -> {"idle"} \cup ReaderPcs \cup WriterPcs]
    BY DEF LockTypeOK
  <1>1. ASSUME NEW t \in LockThreads, AcquireRead(t) PROVE LockInv'
    <2>1. ReadersCountedOnce'
      BY <1>1, ReadersUnmoved DEF AcquireRead
    <2>2. LockTypeOK'
      BY <1>1 DEF AcquireRead, Goto, LockTypeOK, ReaderPcs
    <2> QED
      BY <1>0, <1>1, <2>1, <2>2
      DEF AcquireRead, Goto, WriteMutexExclusive, WritersCountedOnce, WritersExclusive
  <1>2. ASSUME NEW t \in LockThreads, TestWriters(t) PROVE LockInv'
    <2>1. ReadersCountedOnce'
      BY <1>2, ReadersUnmoved DEF TestWriters
    <2>2. LockTypeOK'
      BY <1>2 DEF TestWriters, Goto, LockTypeOK, ReaderPcs
    <2> QED
      BY <1>0, <1>2, <2>1, <2>2
      DEF TestWriters, Goto, WriteMutexExclusive, WritersCountedOnce, WritersExclusive
  <1>3. ASSUME NEW t \in LockThreads, CountReader(t) PROVE LockInv'
    <2>1. ReadersCountedOnce'
      <3>1. Reading' = Reading \cup {t} /\ t \notin Reading
        BY <1>0, <1>3 DEF CountReader, Goto, Reading
      <3> QED
        BY <1>3, <3>1, ReadingFinite, FS_AddElement
        DEF CountReader, ReadersCountedOnce
    <2>2. LockTypeOK'
      BY <1>3 DEF CountReader, Goto, LockTypeOK, ReaderPcs
    <2> QED
      BY <1>0, <1>3, <2>1, <2>2
      DEF CountReader, Goto, WriteMutexExclusive, WritersCountedOnce, WritersExclusive
  <1>4. ASSUME NEW t \in LockThreads, RetryRead(t) PROVE LockInv'
    <2>1. ReadersCountedOnce'
      BY <1>4, ReadersUnmoved DEF RetryRead
    <2>2. LockTypeOK'
      BY <1>4 DEF RetryRead, Goto, LockTypeOK, ReaderPcs
    <2> QED
      BY <1>0, <1>4, <2>1, <2>2
      DEF RetryRead, Goto, WriteMutexExclusive, WritersCountedOnce, WritersExclusive
  <1>5. ASSUME NEW t \in LockThreads, ReleaseRead(t) PROVE LockInv'
    <2>1. t \in Reading /\ Reading' = Reading \ {t}
      BY <1>0, <1>5 DEF ReleaseRead, Goto, Reading
    <2>2. Cardinality(Reading') = readers - 1
      BY <2>1, ReadingFinite, FS_RemoveElement DEF ReadersCountedOnce
    <2>3. Cardinality(Reading') \in Nat
      BY ReadingFinite, FS_CardinalityType
    <2>4. ReadersCountedOnce' /\ readers' \in Nat
      BY <1>5, <2>2, <2>3 DEF ReleaseRead, ReadersCountedOnce
    <2>5. LockTypeOK'
      BY <1>5, <2>4 DEF ReleaseRead, Goto, LockTypeOK
    <2> QED
      BY <1>0, <1>5, <2>4, <2>5
      DEF ReleaseRead, Goto, WriteMutexExclusive, WritersCountedOnce, WritersExclusive
  <1>6. ASSUME NEW t \in LockThreads, AcquireWrite(t) PROVE LockInv'
    <2>1. ReadersCountedOnce'
      BY <1>6, ReadersUnmoved DEF AcquireWrite
    <2>2. LockTypeOK'
      BY <1>6 DEF AcquireWrite, Goto, LockTypeOK, WriterPcs
    <2> QED
      BY <1>0, <1>6, <2>1, <2>2
      DEF AcquireWrite, WriteMutexFree, Goto, WriteMutexExclusive,
          WritersCountedOnce, WritersExclusive
  <1>7. ASSUME NEW t \in LockThreads, TestCounts(t) PROVE LockInv'
    <2>1. ReadersCountedOnce'
      BY <1>7, ReadersUnmoved DEF TestCounts
    <2>2. LockTypeOK'
      BY <1>7 DEF TestCounts, Goto, LockTypeOK, WriterPcs
    <2>3. lockPc'[t] = "countWriter" => writers' = 0
      BY <1>0, <1>7 DEF TestCounts, SomeoneCounted, Goto, LockTypeOK
    <2> QED
      BY <1>0, <1>7, <2>1, <2>2, <2>3
      DEF TestCounts, Goto, WriteMutexExclusive, WritersCountedOnce, WritersExclusive
  <1>8. ASSUME NEW t \in LockThreads, CountWriter(t) PROVE LockInv'
    <2>1. ReadersCountedOnce'
      BY <1>8, ReadersUnmoved DEF CountWriter
    <2>2. LockTypeOK'
      BY <1>8 DEF CountWriter, Goto, LockTypeOK, WriterPcs
    <2>3. writers = 0 /\ writers' = 1
      BY <1>8 DEF CountWriter, WritersCountedOnce
    <2>4. \A u \in LockThreads : lockPc[u] # "writing" /\ (lockPc[u] = "countWriter" => u = t)
      BY <1>8, <2>3 DEF CountWriter, WritersCountedOnce, WriteMutexExclusive
    <2> QED
      BY <1>0, <1>8, <2>1, <2>2, <2>3, <2>4
      DEF CountWriter, Goto, WriteMutexExclusive, WritersCountedOnce, WritersExclusive
  <1>9. ASSUME NEW t \in LockThreads, RetryWrite(t) PROVE LockInv'
    <2>1. ReadersCountedOnce'
      BY <1>9, ReadersUnmoved DEF RetryWrite
    <2>2. LockTypeOK'
      BY <1>9 DEF RetryWrite, Goto, LockTypeOK, WriterPcs
    <2> QED
      BY <1>0, <1>9, <2>1, <2>2
      DEF RetryWrite, WriteMutexFree, Goto, WriteMutexExclusive,
          WritersCountedOnce, WritersExclusive
  <1>10. ASSUME NEW t \in LockThreads, ReleaseWrite(t) PROVE LockInv'
    <2>1. ReadersCountedOnce'
      BY <1>10, ReadersUnmoved DEF ReleaseWrite
    <2>2. /\ writers = 1 /\ writers' = 0
          /\ \A u \in LockThreads : lockPc[u] = "writing" => u = t
      BY <1>10 DEF ReleaseWrite, WritersCountedOnce, WritersExclusive
    <2>3. LockTypeOK'
      BY <1>10, <2>2 DEF ReleaseWrite, Goto, LockTypeOK, WriterPcs
    <2> QED
      BY <1>0, <1>10, <2>1, <2>2, <2>3
      DEF ReleaseWrite, Goto, WriteMutexExclusive, WritersCountedOnce, WritersExclusive
  <1>11. ASSUME NEW t \in LockThreads, NotifyReaders(t) PROVE LockInv'
    <2>1. ReadersCountedOnce'
      BY <1>11, ReadersUnmoved DEF NotifyReaders
    <2>2. LockTypeOK'
      BY <1>11 DEF NotifyReaders, Goto, LockTypeOK
    <2> QED
      BY <1>0, <1>11, <2>1, <2>2
      DEF NotifyReaders, Goto, WriteMutexExclusive, WritersCountedOnce, WritersExclusive
  <1>12. CASE UNCHANGED lockVars
    <2>1. Reading' = Reading
      BY <1>12 DEF lockVars, Reading
    <2> QED
      BY <1>12, <2>1 DEF lockVars, LockTypeOK, ReadersCountedOnce, WriteMutexExclusive,
                         WritersCountedOnce, WritersExclusive
  <1> QED
    BY <1>1, <1>2, <1>3, <1>4, <1>5, <1>6, <1>7, <1>8, <1>9, <1>10, <1>11, <1>12
    DEF LockNext, ContinueCall

(* Two writers never hold the lock together, for any number of threads: the  *)
(* writers' test and count are under one mutex, and only that makes it so.   *)
THEOREM WriterExclusion == LockSpec => []WritersExclusive
  <1>0. LockInv /\ [LockNext]_lockVars => LockInv'
    BY StepLock
  <1>1. LockInv => WritersExclusive
    BY DEF LockInv
  <1> QED
    BY <1>0, <1>1, InitLock, PTL DEF LockSpec

(* The counters never go below zero.                                         *)
THEOREM LockTypeCorrect == LockSpec => []LockTypeOK
  <1>0. LockInv /\ [LockNext]_lockVars => LockInv'
    BY StepLock
  <1>1. LockInv => LockTypeOK
    BY DEF LockInv
  <1> QED
    BY <1>0, <1>1, InitLock, PTL DEF LockSpec

-----------------------------------------------------------------------------
(* The event loop's current call: what it is about, and what comes after it. *)
Op == Head(calls[loop]).op
Task == TaskOf(loop)
Arg == ArgOf(loop)
After == Len(calls[loop]) - 1

Busy(op, sections) == pc[loop] \in sections /\ Op = op
Marking(status, sections) == Busy("mark", sections) /\ Arg = status

(* The calls that a handler of the event loop has still to make.             *)
LoopCalls ==
    {<<Call("clear", "none", "none")>>}
    \cup {Submission(t, i) : t \in Tasks, i \in Instances}
    \cup {<<Call("mark", t, "scheduled")>> : t \in Tasks}
    \cup {ResultStored(t) : t \in Tasks}
    \cup {<<Call("mark", t, "completed"), Call("get", t, "none")>> : t \in Tasks}
    \cup {<<Call("get", t, "none")>> : t \in Tasks}
    \cup {Notification(t) : t \in Tasks}
    \cup {Removal(t) : t \in Tasks}

Sections(op) ==
    CASE op = "register" -> {"write", "status", "instance", "stats"}
      [] op = "mark"     -> {"contains", "fetch", "write", "status", "stats"}
      [] op = "remove"   -> {"contains", "fetch", "write", "status", "instance", "stats"}
      [] op = "get"      -> {"contains"}
      [] op = "clear"    -> {"write", "status", "instance", "stats"}

RemoveCalls == [op : {"remove"}, task : Tasks, arg : {"none"}]

CallsInv ==
    /\ \/ calls[loop] = <<>> /\ pc[loop] = "idle"
       \/ calls[loop] \in LoopCalls /\ pc[loop] \in Sections(Op)
    /\ \/ calls[cleaner] = <<>> /\ pc[cleaner] \in {"idle", "collect"}
       \/ /\ calls[cleaner] \in Seq(RemoveCalls) /\ calls[cleaner] # <<>>
          /\ pc[cleaner] \in Sections("remove")

TypeInv ==
    /\ tasks \in [Tasks -> Entries \cup {NoEntry}]
    /\ instanceIndex \in [Instances -> SUBSET Tasks]
    /\ statusIndex \in [Statuses -> SUBSET Tasks]
    /\ stats \in [total_tasks : Int, queued : Int, scheduled : Int, completed : Int]
    /\ info \in [Threads -> Entries \cup {NoEntry}]
    /\ uncollected \subseteq Tasks /\ collected \subseteq Tasks
    /\ awaiting \in [Tasks -> Nat] /\ submitted \in [Tasks -> Nat]
    /\ answered \subseteq Tasks
    /\ DOMAIN calls = Threads /\ DOMAIN pc = Threads

(* The handler of a submission is at work on t.                              *)
Submitting(t) ==
    /\ pc[loop] # "idle" /\ Task = t
    /\ \/ Op = "register"
       \/ Op = "mark" /\ Arg = "scheduled"

(* The task has been submitted, and will not be queued or scheduled again.   *)
Past(t) ==
    /\ submitted[t] > 0 /\ ~Submitting(t)
    /\ tasks[t].status \notin {"queued", "scheduled"}

(* Nothing is known of a task that has not been submitted; one whose         *)
(* submission has been handled is not left queued.                           *)
FreshInv ==
    \A t \in Tasks :
        /\ submitted[t] = 0 =>
              /\ ~Present(t) /\ t \notin answered /\ awaiting[t] = 0
              /\ \A i \in Instances : t \notin instanceIndex[i]
        /\ tasks[t].status = "queued" => Submitting(t)
        /\ Submitting(t) => t \notin answered
        /\ awaiting[t] > 0 => Past(t)

(* The cleanup and its removals are about tasks that are past.               *)
CleanerInv ==
    /\ \A t \in collected : Past(t)
    /\ \A k \in 1..Len(calls[cleaner]) : Past(calls[cleaner][k].task)
    /\ info[cleaner] # NoEntry => info[cleaner].status = "completed"
    /\ pc[cleaner] \in {"write", "status", "instance", "stats"} => info[cleaner] # NoEntry

(* What the event loop knows of the task in its hands.                       *)
LoopKnows(t) ==
    /\ submitted[t] > 0
    /\ Busy("register", {"write"}) => ~Present(t)
    /\ Busy("register", {"status", "instance", "stats"}) =>
          tasks[t].status = "queued" /\ info[loop] = NoEntry
    /\ Marking("scheduled", {"contains", "fetch", "write"}) => tasks[t].status = "queued"
    /\ Marking("scheduled", {"status", "stats"}) => tasks[t].status = "scheduled"
    /\ Marking("completed", {"write", "status", "stats"}) =>
          info[loop].status \in {"scheduled", "completed"}
    /\ Marking("completed", {"write"}) =>
          IF info[loop].status = "scheduled" THEN tasks[t] = info[loop] ELSE Past(t)
    /\ Marking("completed", {"status", "stats"}) => Past(t)
    /\ (Op = "mark" /\ After = 1) \/ Op \in {"get", "remove"} => Past(t)
    /\ Busy("remove", {"write", "status", "instance", "stats"}) =>
          info[loop].status = "completed"
    /\ Busy("remove", {"status", "instance", "stats"}) => ~Present(t)
    /\ Busy("mark", {"write"}) => info[loop] # NoEntry
LoopInv ==
    \A t \in Tasks : pc[loop] # "idle" /\ Op # "clear" /\ Task = t => LoopKnows(t)

Clearing(sections) == Busy("clear", sections)
ClearInv == Clearing({"status", "instance", "stats"}) => \A t \in Tasks : ~Present(t)
ClearedInv == pc[loop] # "idle" /\ Op = "clear" => cleared

(* The statistics lag behind the entries by what the event loop has in hand. *)
One(yes) == IF yes THEN 1 ELSE 0
Late(s) ==
    One(\/ s = "queued" /\ Busy("register", {"status", "instance", "stats"})
        \/ s \in {"scheduled", "completed"} /\ Marking(s, {"status", "stats"}))
Early(s) == One(Busy("mark", {"status", "stats"}) /\ OldStatus(loop) = s)
ActiveInv ==
    ~Clearing({"status", "instance", "stats"}) =>
        \A s \in {"queued", "scheduled"} :
            stats[s] + Late(s) = Cardinality(Having(s)) + Early(s)

(* clear_all finds them as they were left.                                   *)
LeftInv ==
    Clearing({"status", "instance", "stats"}) =>
        \A s \in {"queued", "scheduled"} : stats[s] >= 0

Removing(th) == pc[th] \in {"status", "instance", "stats"} /\ Head(calls[th]).op = "remove"
CompletedInv ==
    ~cleared =>
        stats.completed + Late("completed") >=
            Cardinality(Having("completed")) + One(Removing(loop)) + One(Removing(cleaner))

(* A task has one instance.                                                  *)
HomesAre(home) ==
    /\ \A t \in Tasks : Present(t) => tasks[t].instance = home[t]
    /\ \A t \in Tasks, i \in Instances : t \in instanceIndex[i] => i = home[t]
    /\ pc[loop] # "idle" /\ Op = "register" => Arg = home[Task]
    /\ \A th \in Threads :
          calls[th] # <<>> /\ info[th] # NoEntry => info[th].instance = home[TaskOf(th)]
HomeInv == \E home \in [Tasks -> Instances \cup {NoInstance}] : HomesAre(home)

(* An instance's index keeps a task that has gone only until whoever removed *)
(* it gets there.                                                            *)
TakingOut(th, t) ==
    pc[th] \in {"status", "instance"} /\ Head(calls[th]).op = "remove" /\ TaskOf(th) = t
IndexInv ==
    \A t \in Tasks, i \in Instances :
        t \in instanceIndex[i] /\ ~Present(t) =>
            \/ Clearing({"status", "instance"})
            \/ \E th \in Threads : TakingOut(th, t)

(* The handlers of a result are not done with the task.                      *)
Handling(t) ==
    /\ pc[loop] # "idle" /\ Task = t
    /\ \/ Op \in {"get", "remove"}
       \/ Op = "mark" /\ Arg = "completed" /\ After > 0
ForgetInv ==
    \A t \in answered :
        awaiting[t] = 0 =>
            \/ Handling(t)
            \/ ~Present(t) /\ ~(Busy("mark", {"fetch", "write"}) /\ Task = t)
-----------------------------------------------------------------------------
LEMMA OneCall ==
    ASSUME NEW a
    PROVE  /\ Head(<<a>>) = a /\ Tail(<<a>>) = <<>> /\ Len(<<a>>) = 1
           /\ <<a>> # <<>>
  OBVIOUS

LEMMA TwoCalls ==
    ASSUME NEW a, NEW b
    PROVE  /\ Head(<<a, b>>) = a /\ Tail(<<a, b>>) = <<b>> /\ Len(<<a, b>>) = 2
           /\ <<a, b>> # <<>>
  OBVIOUS

LEMMA ThreeCalls ==
    ASSUME NEW a, NEW b, NEW c
    PROVE  /\ Head(<<a, b, c>>) = a /\ Tail(<<a, b, c>>) = <<b, c>>
           /\ Len(<<a, b, c>>) = 3
  OBVIOUS

LEMMA CallFields ==
    ASSUME NEW op, NEW t, NEW arg
    PROVE  /\ Call(op, t, arg).op = op /\ Call(op, t, arg).task = t
           /\ Call(op, t, arg).arg = arg
  BY DEF Call

LEMMA FirstSection ==
    ASSUME NEW call
    PROVE  /\ call.op \in {"mark", "remove", "get"} => First(call) = "contains"
           /\ call.op \in {"register", "clear"} => First(call) = "write"
  BY DEF First
-----------------------------------------------------------------------------
(* What a call of the event loop is about, and what comes after it.          *)
LEMMA LoopCall ==
    ASSUME calls[loop] \in LoopCalls
    PROVE  /\ Op \in {"register", "mark", "remove", "get", "clear"}
           /\ Op # "clear" => Task \in Tasks
           /\ Op = "register" =>
                 /\ Arg \in Instances /\ After = 1
                 /\ Tail(calls[loop]) = <<Call("mark", Task, "scheduled")>>
           /\ Op = "mark" =>
                 \/ Arg = "scheduled" /\ After = 0
                 \/ Arg = "completed" /\ After = 0
                 \/ /\ Arg = "completed" /\ After = 1
                    /\ Tail(calls[loop]) = <<Call("get", Task, "none")>>
                 \/ /\ Arg = "completed" /\ After = 2
                    /\ Tail(calls[loop]) =
                          <<Call("mark", Task, "completed"), Call("get", Task, "none")>>
           /\ Op \in {"remove", "get", "clear"} => After = 0
           /\ After = 0 => Tail(calls[loop]) = <<>>
<1>1. CASE calls[loop] = <<Call("clear", "none", "none")>>
  <2>1. Op = "clear" /\ After = 0 /\ Tail(calls[loop]) = <<>>
    BY <1>1, OneCall, CallFields DEF Op, Task, TaskOf, Arg, ArgOf, After
  <2>2. QED
    BY <2>1
<1>2. CASE \E t \in Tasks, i \in Instances : calls[loop] = Submission(t, i)
  <2>1. PICK t \in Tasks, i \in Instances :
           calls[loop] = <<Call("register", t, i), Call("mark", t, "scheduled")>>
    BY <1>2 DEF Submission
  <2>2. /\ Op = "register" /\ Task = t /\ Arg = i /\ After = 1
        /\ Tail(calls[loop]) = <<Call("mark", t, "scheduled")>>
    BY <2>1, TwoCalls, CallFields DEF Op, Task, TaskOf, Arg, ArgOf, After
  <2>3. QED
    BY <2>2
<1>3. CASE \E t \in Tasks : calls[loop] = <<Call("mark", t, "scheduled")>>
  <2>1. PICK t \in Tasks :
           calls[loop] = <<Call("mark", t, "scheduled")>>
    BY <1>3
  <2>2. /\ Op = "mark" /\ Task = t /\ Arg = "scheduled" /\ After = 0
        /\ Tail(calls[loop]) = <<>>
    BY <2>1, OneCall, CallFields DEF Op, Task, TaskOf, Arg, ArgOf, After
  <2>3. QED
    BY <2>2
<1>4. CASE \E t \in Tasks : calls[loop] = ResultStored(t)
  <2>1. PICK t \in Tasks :
           calls[loop] = <<Call("mark", t, "completed"), Call("mark", t, "completed"), Call("get", t, "none")>>
    BY <1>4 DEF ResultStored
  <2>2. /\ Op = "mark" /\ Task = t /\ Arg = "completed" /\ After = 2
        /\ Tail(calls[loop]) = <<Call("mark", t, "completed"), Call("get", t, "none")>>
    BY <2>1, ThreeCalls, CallFields DEF Op, Task, TaskOf, Arg, ArgOf, After
  <2>3. QED
    BY <2>2
<1>5. CASE \E t \in Tasks : calls[loop] = <<Call("mark", t, "completed"), Call("get", t, "none")>>
  <2>1. PICK t \in Tasks :
           calls[loop] = <<Call("mark", t, "completed"), Call("get", t, "none")>>
    BY <1>5
  <2>2. /\ Op = "mark" /\ Task = t /\ Arg = "completed" /\ After = 1
        /\ Tail(calls[loop]) = <<Call("get", t, "none")>>
    BY <2>1, TwoCalls, CallFields DEF Op, Task, TaskOf, Arg, ArgOf, After
  <2>3. QED
    BY <2>2
<1>6. CASE \E t \in Tasks : calls[loop] = <<Call("get", t, "none")>>
  <2>1. PICK t \in Tasks :
           calls[loop] = <<Call("get", t, "none")>>
    BY <1>6
  <2>2. /\ Op = "get" /\ Task = t /\ After = 0 /\ Tail(calls[loop]) = <<>>
    BY <2>1, OneCall, CallFields DEF Op, Task, TaskOf, Arg, ArgOf, After
  <2>3. QED
    BY <2>2
<1>7. CASE \E t \in Tasks : calls[loop] = Notification(t)
  <2>1. PICK t \in Tasks :
           calls[loop] = <<Call("mark", t, "completed")>>
    BY <1>7 DEF Notification
  <2>2. /\ Op = "mark" /\ Task = t /\ Arg = "completed" /\ After = 0
        /\ Tail(calls[loop]) = <<>>
    BY <2>1, OneCall, CallFields DEF Op, Task, TaskOf, Arg, ArgOf, After
  <2>3. QED
    BY <2>2
<1>8. CASE \E t \in Tasks : calls[loop] = Removal(t)
  <2>1. PICK t \in Tasks :
           calls[loop] = <<Call("remove", t, "none")>>
    BY <1>8 DEF Removal
  <2>2. /\ Op = "remove" /\ Task = t /\ After = 0 /\ Tail(calls[loop]) = <<>>
    BY <2>1, OneCall, CallFields DEF Op, Task, TaskOf, Arg, ArgOf, After
  <2>3. QED
    BY <2>2
<1>9. QED
  BY <1>1, <1>2, <1>3, <1>4, <1>5, <1>6, <1>7, <1>8 DEF LoopCalls

(* A thread starts on some calls, or goes on to the next one.                *)
LEMMA Starts ==
    ASSUME TypeInv, NEW th \in Threads, NEW some, Start(th, some)
    PROVE  /\ calls'[th] = some /\ info'[th] = NoEntry
           /\ pc'[th] = IF some = <<>> THEN "idle" ELSE First(Head(some))
           /\ \A u \in Threads \ {th} :
                 calls'[u] = calls[u] /\ info'[u] = info[u] /\ pc'[u] = pc[u]
           /\ DOMAIN calls' = Threads /\ DOMAIN pc' = Threads
           /\ info' \in [Threads -> Entries \cup {NoEntry}]
  BY DEF TypeInv, Start

LEMMA Continues ==
    ASSUME TypeInv, NEW th \in Threads, NEW section, Continue(th, section)
    PROVE  /\ calls' = calls /\ pc'[th] = section
           /\ \A u \in Threads \ {th} : pc'[u] = pc[u]
           /\ DOMAIN pc' = Threads
  BY DEF TypeInv, Continue

LEMMA TwoThreads == loop \in Threads /\ cleaner \in Threads /\ loop # cleaner
                    /\ \A th \in Threads : th = loop \/ th = cleaner
  BY DEF Threads, loop, cleaner

(* Where the event loop is after a call has returned.                        *)
LoopReturns ==
    /\ info'[loop] = NoEntry
    /\ After = 0 => calls'[loop] = <<>> /\ pc'[loop] = "idle"
    /\ After > 0 =>
          /\ calls'[loop] \in LoopCalls /\ pc'[loop] = "contains"
          /\ Task' = Task /\ After' = After - 1
          /\ IF Op = "mark" /\ After = 1 THEN Op' = "get" ELSE Op' = "mark"
          /\ Arg' = IF Op = "register" THEN "scheduled"
                    ELSE IF After = 1 THEN "none" ELSE Arg

LEMMA Returning ==
    ASSUME TypeInv, calls[loop] \in LoopCalls, Return(loop)
    PROVE  LoopReturns
<1> DEFINE c == calls[loop]
<1>1. /\ calls'[loop] = Tail(c) /\ info'[loop] = NoEntry
      /\ pc'[loop] = IF Tail(c) = <<>> THEN "idle" ELSE First(Head(Tail(c)))
  BY Starts, TwoThreads DEF Return
<1>2. CASE After = 0
  BY <1>1, <1>2, LoopCall DEF LoopReturns
<1>3. CASE Op = "register"
  <2>1. calls'[loop] = <<Call("mark", Task, "scheduled")>> /\ Task \in Tasks /\ After = 1
    BY <1>1, <1>3, LoopCall
  <2>2. calls'[loop] \in LoopCalls
    BY <2>1 DEF LoopCalls
  <2>3. Op' = "mark" /\ Task' = Task /\ Arg' = "scheduled" /\ After' = 0
    BY <2>1, OneCall, TwoCalls, CallFields DEF Op, Task, TaskOf, Arg, ArgOf, After
  <2>4. pc'[loop] = "contains"
    <3>1. calls'[loop] # <<>> /\ Head(calls'[loop]).op = "mark"
      BY <2>1, OneCall, TwoCalls, CallFields
    <3>2. QED
      BY <1>1, <3>1, FirstSection
  <2>5. QED
    BY <1>1, <1>3, <2>1, <2>2, <2>3, <2>4 DEF LoopReturns
<1>4. CASE Op = "mark" /\ After = 1
  <2>1. calls'[loop] = <<Call("get", Task, "none")>> /\ Task \in Tasks
    BY <1>1, <1>4, LoopCall
  <2>2. calls'[loop] \in LoopCalls
    BY <2>1 DEF LoopCalls
  <2>3. Op' = "get" /\ Task' = Task /\ Arg' = "none" /\ After' = 0
    BY <2>1, OneCall, TwoCalls, CallFields DEF Op, Task, TaskOf, Arg, ArgOf, After
  <2>4. pc'[loop] = "contains"
    <3>1. calls'[loop] # <<>> /\ Head(calls'[loop]).op = "get"
      BY <2>1, OneCall, TwoCalls, CallFields
    <3>2. QED
      BY <1>1, <3>1, FirstSection
  <2>5. QED
    BY <1>1, <1>4, <2>2, <2>3, <2>4 DEF LoopReturns
<1>5. CASE Op = "mark" /\ After = 2
  <2>1. /\ calls'[loop] = <<Call("mark", Task, "completed"), Call("get", Task, "none")>>
        /\ Task \in Tasks /\ Arg = "completed"
    BY <1>1, <1>5, LoopCall
  <2>2. calls'[loop] \in LoopCalls
    BY <2>1 DEF LoopCalls
  <2>3. Op' = "mark" /\ Task' = Task /\ Arg' = "completed" /\ After' = 1
    BY <2>1, OneCall, TwoCalls, CallFields DEF Op, Task, TaskOf, Arg, ArgOf, After
  <2>4. pc'[loop] = "contains"
    <3>1. calls'[loop] # <<>> /\ Head(calls'[loop]).op = "mark"
      BY <2>1, OneCall, TwoCalls, CallFields
    <3>2. QED
      BY <1>1, <3>1, FirstSection
  <2>5. QED
    BY <1>1, <1>5, <2>1, <2>2, <2>3, <2>4 DEF LoopReturns
<1>6. QED
  BY <1>2, <1>3, <1>4, <1>5, LoopCall


-----------------------------------------------------------------------------
(* The statistics.                                                           *)
Counts == [total_tasks : Int, queued : Int, scheduled : Int, completed : Int]

LEMMA CountSet ==
    ASSUME NEW c \in Counts, NEW s \in Statuses, NEW n \in Int,
           NEW d, d = [c EXCEPT ![s] = n]
    PROVE  /\ d \in Counts
           /\ \A r \in Statuses : d[r] = IF r = s THEN n ELSE c[r]
<1>1. CASE s = "queued"
  BY <1>1 DEF Counts, Statuses
<1>2. CASE s = "scheduled"
  BY <1>2 DEF Counts, Statuses
<1>3. CASE s = "completed"
  BY <1>3 DEF Counts, Statuses
<1>4. QED
  BY <1>1, <1>2, <1>3 DEF Statuses

LEMMA TotalSet ==
    ASSUME NEW c \in Counts, NEW n \in Int, NEW d, d = [c EXCEPT !.total_tasks = n]
    PROVE  /\ d \in Counts
           /\ \A r \in Statuses : d[r] = c[r]
  BY DEF Counts, Statuses

LEMMA CountsCount ==
    ASSUME NEW c \in Counts
    PROVE  /\ c.total_tasks \in Int
           /\ \A s \in Statuses : c[s] \in Int /\ s \in DOMAIN c
  BY DEF Counts, Statuses

(* An entry is absent, or has a status and an instance.                      *)
LEMMA EntryFields ==
    ASSUME NEW e \in Entries \cup {NoEntry}
    PROVE  /\ e # NoEntry => e \in Entries /\ e.status \in Statuses /\ e.instance \in Instances
           /\ e = NoEntry <=> e.status = "absent"
  BY DEF Entries, NoEntry, Statuses

LEMMA CopyFields ==
    ASSUME NEW e \in Entries \cup {NoEntry}, e # NoEntry, NEW s \in Statuses
    PROVE  /\ [e EXCEPT !.status = s] \in Entries
           /\ [e EXCEPT !.status = s].status = s
           /\ [e EXCEPT !.status = s].instance = e.instance
           /\ [e EXCEPT !.status = s] # NoEntry
  BY DEF Entries, NoEntry, Statuses

-----------------------------------------------------------------------------
(* What thread th is doing: a removal, if it is the cleanup.                 *)
LEMMA CleanerCall ==
    ASSUME CallsInv, calls[cleaner] # <<>>
    PROVE  /\ Head(calls[cleaner]).op = "remove" /\ TaskOf(cleaner) \in Tasks
           /\ Len(calls[cleaner]) \in Nat \ {0} /\ calls[cleaner][1] = Head(calls[cleaner])
           /\ Tail(calls[cleaner]) \in Seq(RemoveCalls)
           /\ Len(Tail(calls[cleaner])) = Len(calls[cleaner]) - 1
           /\ \A k \in 1..Len(Tail(calls[cleaner])) :
                 Tail(calls[cleaner])[k] = calls[cleaner][k + 1]
<1>1. calls[cleaner] \in Seq(RemoveCalls)
  BY DEF CallsInv
<1>2. /\ Head(calls[cleaner]) \in RemoveCalls
      /\ Tail(calls[cleaner]) \in Seq(RemoveCalls)
      /\ Len(Tail(calls[cleaner])) = Len(calls[cleaner]) - 1
      /\ \A k \in 1..Len(Tail(calls[cleaner])) :
            Tail(calls[cleaner])[k] = calls[cleaner][k + 1]
  BY <1>1, HeadTailProperties
<1>3. Len(calls[cleaner]) \in Nat \ {0} /\ calls[cleaner][1] = Head(calls[cleaner])
  BY <1>1, EmptySeq, LenProperties
<1>4. Head(calls[cleaner]).op = "remove" /\ TaskOf(cleaner) \in Tasks
  BY <1>2 DEF RemoveCalls, TaskOf
<1>5. QED
  BY <1>2, <1>3, <1>4

(* A thread at a section of an operation has such a call.                    *)
LEMMA CallAt ==
    ASSUME CallsInv, NEW th \in Threads, NEW op, NEW section, At(th, op, section),
           section \notin {"idle", "collect"}
    PROVE  /\ calls[th] # <<>> /\ pc[th] = section
           /\ th = cleaner => op = "remove" /\ TaskOf(cleaner) \in Tasks
           /\ th = loop => calls[loop] \in LoopCalls /\ Op = op
           /\ op # "clear" => TaskOf(th) \in Tasks
<1>1. pc[th] = section /\ Head(calls[th]).op = op
  BY DEF At
<1>2. CASE th = cleaner
  <2>1. calls[cleaner] # <<>>
    BY <1>1, <1>2 DEF CallsInv
  <2>2. QED
    BY <1>1, <1>2, <2>1, CleanerCall, TwoThreads
<1>3. CASE th = loop
  <2>1. calls[loop] \in LoopCalls /\ calls[loop] # <<>>
    BY <1>1, <1>3, OneCall, TwoCalls, ThreeCalls
    DEF CallsInv, LoopCalls, Submission, ResultStored, Notification, Removal
  <2>2. Op = op
    BY <1>1, <1>3 DEF Op
  <2>3. QED
    BY <1>1, <1>3, <2>1, <2>2, LoopCall, TwoThreads DEF Task
<1>4. QED
  BY <1>2, <1>3, TwoThreads

-----------------------------------------------------------------------------
IInv ==
    /\ TypeInv /\ CallsInv /\ FreshInv /\ CleanerInv /\ LoopInv
    /\ ClearInv /\ ClearedInv /\ ActiveInv /\ LeftInv /\ CompletedInv
    /\ HomeInv /\ IndexInv /\ ForgetInv

LEMMA KnowsTask ==
    ASSUME CallsInv, LoopInv, pc[loop] # "idle", Op # "clear"
    PROVE  Task \in Tasks /\ LoopKnows(Task) /\ pc[loop] \in Sections(Op)
  BY LoopCall DEF CallsInv, LoopInv

(* What thread th has read, at the sections that use it.                     *)
LEMMA Known ==
    ASSUME TypeInv, CallsInv, CleanerInv, LoopInv, NEW th \in Threads
    PROVE  /\ \A section \in {"status", "instance", "stats"} :
                 At(th, "remove", section) => info[th].status = "completed"
           /\ At(th, "mark", "write") => info[th] # NoEntry
           /\ \A section \in {"write", "status", "stats"} :
                 At(th, "mark", section) =>
                    ArgOf(th) \in {"scheduled", "completed"} /\ OldStatus(th) \in Statuses
<1>1. CASE th = loop
  <2>1. ASSUME NEW section \in {"status", "instance", "stats"}, At(loop, "remove", section)
        PROVE  info[loop].status = "completed"
    <3>1. Op = "remove" /\ pc[loop] = section
      BY <2>1, CallAt, TwoThreads
    <3>2. QED
      BY <3>1, KnowsTask DEF LoopKnows, Busy
  <2>2. ASSUME At(loop, "mark", "write") PROVE info[loop] # NoEntry
    <3>1. Op = "mark" /\ pc[loop] = "write"
      BY <2>2, CallAt, TwoThreads
    <3>2. QED
      BY <3>1, KnowsTask DEF LoopKnows, Busy
  <2>3. ASSUME NEW section \in {"write", "status", "stats"}, At(loop, "mark", section)
        PROVE  ArgOf(loop) \in {"scheduled", "completed"} /\ OldStatus(loop) \in Statuses
    <3>1. Op = "mark" /\ pc[loop] = section /\ calls[loop] \in LoopCalls
      BY <2>3, CallAt, TwoThreads
    <3>2. Arg \in {"scheduled", "completed"}
      BY <3>1, LoopCall
    <3>3. Arg = "completed" => info[loop].status \in {"scheduled", "completed"}
      BY <3>1, <3>2, KnowsTask DEF LoopKnows, Busy, Marking
    <3>4. QED
      BY <3>2, <3>3 DEF OldStatus, Arg, Statuses
  <2>4. QED
    BY <1>1, <2>1, <2>2, <2>3
<1>2. CASE th = cleaner
  <2>1. ASSUME NEW section \in {"write", "status", "instance", "stats"}, NEW op,
               At(cleaner, op, section)
        PROVE  op = "remove" /\ info[cleaner].status = "completed"
    <3>1. op = "remove" /\ pc[cleaner] = section
      BY <2>1, CallAt, TwoThreads
    <3>2. QED
      BY <3>1 DEF CleanerInv
  <2>2. QED
    BY <1>2, <2>1
<1>3. QED
  BY <1>1, <1>2, TwoThreads

LEMMA TypeStep == ASSUME IInv, Next PROVE TypeInv'
<1> USE DEF IInv
<1>1. ASSUME NEW th \in Threads, TrackerCall(th)
      PROVE  /\ tasks' \in [Tasks -> Entries \cup {NoEntry}]
             /\ instanceIndex' \in [Instances -> SUBSET Tasks]
             /\ statusIndex' \in [Statuses -> SUBSET Tasks]
             /\ stats' \in Counts
  <2>1. CASE RegisterEntry(th)
    <3>1. th = loop /\ TaskOf(th) \in Tasks /\ ArgOf(th) \in Instances
      BY <2>1, CallAt, LoopCall, TwoThreads DEF RegisterEntry, Arg
    <3>2. [status |-> "queued", instance |-> ArgOf(th)] \in Entries
      BY <3>1 DEF Entries, Statuses
    <3>3. QED
      BY <2>1, <3>1, <3>2 DEF RegisterEntry, TypeInv, Counts
  <2>2. CASE RegisterStatus(th)
    <3>1. TaskOf(th) \in Tasks
      BY <2>2, CallAt DEF RegisterStatus
    <3>2. QED
      BY <2>2, <3>1 DEF RegisterStatus, TypeInv, Counts
  <2>3. CASE RegisterInstance(th)
    <3>1. TaskOf(th) \in Tasks
      BY <2>3, CallAt DEF RegisterInstance
    <3>2. QED
      BY <2>3, <3>1 DEF RegisterInstance, TypeInv, Counts
  <2>4. CASE RegisterStats(th)
    <3>1. stats \in Counts
      BY DEF TypeInv, Counts
    <3> DEFINE c == [stats EXCEPT !.queued = @ + 1]
    <3>2. c \in Counts
      BY <3>1, CountSet, CountsCount DEF Statuses
    <3>3. \/ stats' = [c EXCEPT !.total_tasks = stats.total_tasks + 1]
          \/ stats' = [c EXCEPT !.total_tasks = stats.total_tasks]
      BY <2>4, Zenon DEF RegisterStats
    <3> HIDE DEF c
    <3>4. stats' \in Counts
      BY <3>1, <3>2, <3>3, TotalSet, CountsCount
    <3>5. QED
      BY <2>4, <3>4 DEF RegisterStats, TypeInv
  <2>5. CASE Contains(th) \/ Fetch(th)
    BY <2>5 DEF Contains, Fetch, entryVars, TypeInv, Counts
  <2>6. CASE MarkEntry(th)
    <3>1. TaskOf(th) \in Tasks
      BY <2>6, CallAt DEF MarkEntry
    <3>2. ArgOf(th) \in Statuses /\ info[th] # NoEntry
      BY <2>6, Known DEF MarkEntry, Statuses
    <3>3. [info[th] EXCEPT !.status = ArgOf(th)] \in Entries
      BY <3>2, CopyFields DEF TypeInv
    <3>4. QED
      BY <2>6, <3>1, <3>3 DEF MarkEntry, TypeInv, Counts
  <2>7. CASE MarkStatus(th)
    <3>1. TaskOf(th) \in Tasks
      BY <2>7, CallAt DEF MarkStatus
    <3>2. QED
      BY <2>7, <3>1 DEF MarkStatus, TypeInv, Counts
  <2>8. CASE MarkStats(th)
    <3>1. ArgOf(th) \in Statuses /\ OldStatus(th) \in Statuses
      BY <2>8, Known DEF MarkStats, Statuses
    <3>2. stats \in Counts
      BY DEF TypeInv, Counts
    <3> DEFINE less == ActiveLess(stats, OldStatus(th))
    <3>3. less \in Counts
      BY <3>1, <3>2, CountSet, CountsCount DEF ActiveLess
    <3>a. stats' = [less EXCEPT ![ArgOf(th)] = less[ArgOf(th)] + 1]
      BY <2>8, Zenon DEF MarkStats
    <3> HIDE DEF less
    <3>b. less[ArgOf(th)] + 1 \in Int
      BY <3>1, <3>3, CountsCount
    <3>4. stats' \in Counts
      BY <3>a, <3>b, <3>1, <3>3, CountSet
    <3>5. QED
      BY <2>8, <3>4 DEF MarkStats, TypeInv
  <2>9. CASE RemoveEntry(th)
    <3>1. TaskOf(th) \in Tasks
      BY <2>9, CallAt DEF RemoveEntry
    <3>2. QED
      BY <2>9, <3>1 DEF RemoveEntry, TypeInv, Counts
  <2>10. CASE RemoveStatus(th) \/ RemoveInstance(th)
    BY <2>10 DEF RemoveStatus, RemoveInstance, TypeInv, Counts
  <2>11. CASE RemoveStats(th)
    <3>1. info[th].status \in Statuses
      BY <2>11, Known DEF RemoveStats, Statuses
    <3>2. stats \in Counts
      BY DEF TypeInv, Counts
    <3> DEFINE c == [stats EXCEPT !.total_tasks = @ - 1]
    <3>3. c \in Counts
      BY <3>2, TotalSet, CountsCount
    <3>4. stats' = [c EXCEPT ![info[th].status] = stats[info[th].status] - 1]
      BY <2>11, Zenon DEF RemoveStats
    <3> HIDE DEF c
    <3>a. stats[info[th].status] - 1 \in Int
      BY <3>1, <3>2, CountsCount
    <3>5. stats' \in Counts
      BY <3>a, <3>1, <3>3, <3>4, CountSet
    <3>6. QED
      BY <2>11, <3>5 DEF RemoveStats, TypeInv
  <2>12. CASE ClearEntries(th) \/ ClearStatus(th) \/ ClearInstances(th) \/ ClearStats(th)
    BY <2>12 DEF ClearEntries, ClearStatus, ClearInstances, ClearStats, NoTasks, NoStatuses,
       NoInstances, NoStats, TypeInv, Counts
  <2>13. QED
    BY <1>1, <2>1, <2>2, <2>3, <2>4, <2>5, <2>6, <2>7, <2>8, <2>9, <2>10, <2>11, <2>12
    DEF TrackerCall
<1>2. ASSUME NEW th \in Threads, TrackerCall(th)
      PROVE  /\ info' \in [Threads -> Entries \cup {NoEntry}]
             /\ DOMAIN calls' = Threads /\ DOMAIN pc' = Threads
  <2>1. CASE \E some : Start(th, some)
    BY <2>1, Starts
  <2>2. CASE UNCHANGED info /\ \E section : Continue(th, section)
    BY <2>2, Continues DEF TypeInv
  <2>3. CASE RegisterEntry(th)
    <3>1. TaskOf(th) \in Tasks
      BY <2>3, CallAt DEF RegisterEntry
    <3>2. QED
      BY <2>3, <3>1, Continues DEF RegisterEntry, TypeInv
  <2>4. CASE Fetch(th) /\ Present(TaskOf(th))
    <3>1. TaskOf(th) \in Tasks
      BY <2>4, CallAt DEF Fetch
    <3>2. QED
      BY <2>4, <3>1, Continues DEF Fetch, TypeInv
  <2>5. CASE RegisterStatus(th) \/ RegisterInstance(th) \/ RegisterStats(th)
    BY <2>1, <2>2, <2>5 DEF RegisterStatus, RegisterInstance, RegisterStats, Return
  <2>6. CASE MarkEntry(th) \/ MarkStatus(th) \/ MarkStats(th)
    BY <2>1, <2>2, <2>6 DEF MarkEntry, MarkStatus, MarkStats, Return
  <2>7. CASE RemoveEntry(th) \/ RemoveStatus(th) \/ RemoveInstance(th) \/ RemoveStats(th)
    BY <2>1, <2>2, <2>7 DEF RemoveEntry, RemoveStatus, RemoveInstance, RemoveStats, Return
  <2>8. CASE ClearEntries(th) \/ ClearStatus(th) \/ ClearInstances(th) \/ ClearStats(th)
    BY <2>1, <2>2, <2>8 DEF ClearEntries, ClearStatus, ClearInstances, ClearStats, Return
  <2>9. CASE Contains(th) \/ (Fetch(th) /\ ~Present(TaskOf(th)))
    BY <2>1, <2>2, <2>9 DEF Contains, Fetch, Return, Raise
  <2>10. QED
    BY <1>2, <2>3, <2>4, <2>5, <2>6, <2>7, <2>8, <2>9 DEF TrackerCall
<1>3. CASE \E th \in Threads : TrackerCall(th)
  <2>1. UNCHANGED <<cleanupVars, handlerVars>>
    BY <1>3 DEF TrackerCall, RegisterEntry, RegisterStatus, RegisterInstance, RegisterStats,
       Contains, Fetch, MarkEntry, MarkStatus, MarkStats, RemoveEntry, RemoveStatus,
       RemoveInstance, RemoveStats, ClearEntries, ClearStatus, ClearInstances, ClearStats
  <2>2. QED
    BY <1>1, <1>2, <1>3, <2>1 DEF TypeInv, Counts, cleanupVars, handlerVars
<1>4. ASSUME NEW t \in Tasks, NEW i \in Instances, Submit(t, i) PROVE TypeInv'
  BY <1>4, Starts, TwoThreads DEF Submit, TypeInv, entryVars, cleanupVars
<1>5. ASSUME NEW t \in Tasks, ReceiveResult(t) PROVE TypeInv'
  BY <1>5, Starts, TwoThreads DEF ReceiveResult, TypeInv, entryVars, cleanupVars
<1>6. ASSUME NEW t \in Tasks, FinishBroadcast(t) PROVE TypeInv'
  BY <1>6, Starts, TwoThreads DEF FinishBroadcast, TypeInv, entryVars, cleanupVars
<1>7. ASSUME NEW t \in Tasks, NotifyTaskCompletion(t) PROVE TypeInv'
  BY <1>7, Starts, TwoThreads DEF NotifyTaskCompletion, TypeInv, entryVars, cleanupVars
<1>8. CASE GetTaskInfo
  <2>1. awaiting' \in [Tasks -> Nat]
    <3>1. awaiting' \in {awaiting, [awaiting EXCEPT ![TaskOf(loop)] = @ + 1]}
      BY <1>8, Zenon DEF GetTaskInfo
    <3>2. QED
      BY <3>1 DEF TypeInv
  <2>2. /\ info' \in [Threads -> Entries \cup {NoEntry}]
        /\ DOMAIN calls' = Threads /\ DOMAIN pc' = Threads
    BY <1>8, Starts, TwoThreads DEF GetTaskInfo, Return
  <2>3. QED
    BY <1>8, <2>1, <2>2 DEF GetTaskInfo, TypeInv, entryVars, cleanupVars
<1>9. CASE ClearAll
  BY <1>9, Starts, TwoThreads DEF ClearAll, TypeInv, entryVars, cleanupVars
<1>10. CASE StartCleanup
  BY <1>10, TwoThreads DEF StartCleanup, TypeInv, Statuses, entryVars, handlerVars
<1>11. CASE CollectFails \/ RemoveSurplus
  BY <1>11, Starts, TwoThreads DEF CollectFails, RemoveSurplus, Raise, TypeInv, entryVars, handlerVars
<1>12. CASE \E t \in Tasks : Collect(t)
  BY <1>12 DEF Collect, TypeInv, entryVars, handlerVars
<1>13. QED
  BY <1>3, <1>4, <1>5, <1>6, <1>7, <1>8, <1>9, <1>10, <1>11, <1>12 DEF Next

-----------------------------------------------------------------------------
(* A step is one thread's.                                                   *)
LoopKept == calls'[loop] = calls[loop] /\ pc'[loop] = pc[loop] /\ info'[loop] = info[loop]
CleanerKept ==
    /\ calls'[cleaner] = calls[cleaner] /\ pc'[cleaner] = pc[cleaner]
    /\ info'[cleaner] = info[cleaner]
    /\ UNCHANGED cleanupVars

LoopTakesUp ==
    \/ \E t \in Tasks, i \in Instances : Submit(t, i)
    \/ \E t \in Tasks : ReceiveResult(t) \/ FinishBroadcast(t) \/ NotifyTaskCompletion(t)
    \/ ClearAll
LoopStep == TrackerCall(loop) \/ GetTaskInfo \/ LoopTakesUp
Cleanup == StartCleanup \/ CollectFails \/ RemoveSurplus \/ \E t \in Tasks : Collect(t)
CleanerStep == TrackerCall(cleaner) \/ Cleanup

LEMMA OneThread ==
    ASSUME TypeInv, NEW th \in Threads, TrackerCall(th)
    PROVE  /\ \A u \in Threads \ {th} :
                 calls'[u] = calls[u] /\ info'[u] = info[u] /\ pc'[u] = pc[u]
           /\ UNCHANGED <<cleanupVars, handlerVars>>
<1> DEFINE Others == \A u \in Threads \ {th} :
                 calls'[u] = calls[u] /\ info'[u] = info[u] /\ pc'[u] = pc[u]
<1>1. UNCHANGED <<cleanupVars, handlerVars>>
  BY DEF TrackerCall, RegisterEntry, RegisterStatus, RegisterInstance, RegisterStats,
     Contains, Fetch, MarkEntry, MarkStatus, MarkStats, RemoveEntry, RemoveStatus,
     RemoveInstance, RemoveStats, ClearEntries, ClearStatus, ClearInstances, ClearStats
<1>2. (\E some : Start(th, some)) => Others
  BY Starts
<1>3. UNCHANGED info /\ (\E section : Continue(th, section)) => Others
  BY Continues
<1>4. (\E e : info' = [info EXCEPT ![th] = e]) /\ (\E section : Continue(th, section)) => Others
  BY Continues DEF TypeInv
<1>5. CASE RegisterEntry(th) \/ RegisterStatus(th) \/ RegisterInstance(th) \/ RegisterStats(th)
  BY <1>1, <1>2, <1>3, <1>4, <1>5 DEF RegisterEntry, RegisterStatus, RegisterInstance,
     RegisterStats, Return
<1>6. CASE Contains(th) \/ Fetch(th)
  BY <1>1, <1>2, <1>3, <1>4, <1>6 DEF Contains, Fetch, Return, Raise
<1>7. CASE MarkEntry(th) \/ MarkStatus(th) \/ MarkStats(th)
  BY <1>1, <1>2, <1>3, <1>7 DEF MarkEntry, MarkStatus, MarkStats, Return
<1>8. CASE RemoveEntry(th) \/ RemoveStatus(th) \/ RemoveInstance(th) \/ RemoveStats(th)
  BY <1>1, <1>2, <1>3, <1>8 DEF RemoveEntry, RemoveStatus, RemoveInstance, RemoveStats, Return
<1>9. CASE ClearEntries(th) \/ ClearStatus(th) \/ ClearInstances(th) \/ ClearStats(th)
  BY <1>1, <1>2, <1>3, <1>9 DEF ClearEntries, ClearStatus, ClearInstances, ClearStats, Return
<1>10. QED
  BY <1>5, <1>6, <1>7, <1>8, <1>9 DEF TrackerCall

LEMMA LoopKeepsCleaner ==
    ASSUME TypeInv, LoopStep
    PROVE  CleanerKept
<1>1. CASE TrackerCall(loop)
  BY <1>1, OneThread, TwoThreads DEF CleanerKept
<1>2. CASE (\E some : Start(loop, some)) /\ UNCHANGED cleanupVars
  BY <1>2, Starts, TwoThreads DEF CleanerKept
<1>3. QED
  BY <1>1, <1>2 DEF LoopStep, LoopTakesUp, GetTaskInfo, Return, Submit, ReceiveResult,
     FinishBroadcast, NotifyTaskCompletion, ClearAll

LEMMA CleanerKeepsLoop ==
    ASSUME TypeInv, CleanerStep
    PROVE  LoopKept /\ UNCHANGED handlerVars
<1>1. CASE TrackerCall(cleaner)
  BY <1>1, OneThread, TwoThreads DEF LoopKept
<1>2. CASE StartCleanup \/ \E t \in Tasks : Collect(t)
  BY <1>2, TwoThreads DEF StartCleanup, Collect, LoopKept, TypeInv
<1>3. CASE CollectFails \/ RemoveSurplus
  BY <1>3, Starts, TwoThreads DEF CollectFails, RemoveSurplus, Raise, LoopKept
<1>4. QED
  BY <1>1, <1>2, <1>3 DEF CleanerStep, Cleanup

LEMMA SameCall ==
    ASSUME calls'[loop] = calls[loop]
    PROVE  Op' = Op /\ Task' = Task /\ Arg' = Arg /\ After' = After
  BY DEF Op, Task, TaskOf, Arg, ArgOf, After

LEMMA SectionSets ==
    /\ Sections("register") = {"write", "status", "instance", "stats"}
    /\ Sections("mark") = {"contains", "fetch", "write", "status", "stats"}
    /\ Sections("remove") = {"contains", "fetch", "write", "status", "instance", "stats"}
    /\ Sections("get") = {"contains"}
    /\ Sections("clear") = {"write", "status", "instance", "stats"}
  BY DEF Sections

(* The calls that the cleanup makes.                                         *)
LEMMA SurplusCalls ==
    ASSUME IInv, NEW removals \in Removals(Surplus(Cardinality(collected)))
    PROVE  /\ removals \in Seq(RemoveCalls)
           /\ removals # <<>> => Head(removals).op = "remove"
           /\ \A k \in 1..Len(removals) : removals[k].task \in collected
<1> DEFINE n == Surplus(Cardinality(collected))
<1>1. Cardinality(collected) \in Nat
  BY LockFreeAssumption, FS_Subset, FS_CardinalityType DEF IInv, TypeInv
<1>2. n \in Nat
  <2>1. MaxHistory \div HistoryDivisor \in Nat
    BY LockFreeAssumption
  <2>2. QED
    BY <1>1, <2>1, LockFreeAssumption DEF Surplus
<1> HIDE DEF n
<1>3. PICK order \in [1..n -> collected] :
         removals = [k \in 1..n |-> Call("remove", order[k], "none")]
  BY DEF Removals, n
<1>4. \A k \in 1..n : Call("remove", order[k], "none") \in RemoveCalls
  BY <1>3 DEF IInv, TypeInv, RemoveCalls, Call
<1>5. removals \in Seq(RemoveCalls) /\ Len(removals) = n
  <2>1. removals \in [1..n -> RemoveCalls]
    BY <1>3, <1>4
  <2>2. QED
    BY <1>2, <2>1, SeqDef, LenProperties
<1>6. \A k \in 1..n : removals[k].task \in collected
  BY <1>3, CallFields
<1>7. removals # <<>> => Head(removals) \in RemoveCalls
  BY <1>5, HeadTailProperties
<1>8. QED
  BY <1>5, <1>6, <1>7 DEF RemoveCalls

-----------------------------------------------------------------------------
LEMMA LoopCallsStep ==
    ASSUME IInv, LoopStep
    PROVE  /\ \/ calls'[loop] = <<>> /\ pc'[loop] = "idle"
              \/ calls'[loop] \in LoopCalls /\ pc'[loop] \in Sections(Op')
           /\ TrackerCall(loop) \/ GetTaskInfo => calls[loop] \in LoopCalls /\ pc[loop] # "idle"
<1> USE DEF IInv
<1>a. TypeInv
  OBVIOUS
<1>1. ASSUME calls[loop] \in LoopCalls, Return(loop)
      PROVE  \/ calls'[loop] = <<>> /\ pc'[loop] = "idle"
             \/ calls'[loop] \in LoopCalls /\ pc'[loop] \in Sections(Op')
  <2>1. LoopReturns
    BY <1>a, <1>1, Returning
  <2>2. CASE After = 0
    BY <2>1, <2>2 DEF LoopReturns
  <2>3. CASE After > 0
    BY <2>1, <2>3, SectionSets DEF LoopReturns
  <2>4. QED
    BY <2>2, <2>3, <1>1, LoopCall
<1>2. ASSUME calls[loop] \in LoopCalls, NEW section \in Sections(Op), Continue(loop, section)
      PROVE  calls'[loop] \in LoopCalls /\ pc'[loop] \in Sections(Op')
  BY <1>a, <1>2, Continues, SameCall, TwoThreads
<1>3. ASSUME Raise(loop)
      PROVE  calls'[loop] = <<>> /\ pc'[loop] = "idle"
  BY <1>a, <1>3, Starts, TwoThreads DEF Raise
<1>4. ASSUME NEW op, NEW section, section \notin {"idle", "collect"}, At(loop, op, section)
      PROVE  calls[loop] \in LoopCalls /\ pc[loop] # "idle" /\ Op = op
  BY <1>4, CallAt, TwoThreads
<1>5. CASE RegisterEntry(loop) \/ RegisterStatus(loop) \/ RegisterInstance(loop) \/ RegisterStats(loop)
  BY <1>1, <1>2, <1>4, <1>5, SectionSets DEF RegisterEntry, RegisterStatus, RegisterInstance,
     RegisterStats
<1>6. CASE Contains(loop) \/ Fetch(loop)
  BY <1>1, <1>2, <1>3, <1>4, <1>6, SectionSets DEF Contains, Fetch
<1>7. CASE MarkEntry(loop) \/ MarkStatus(loop) \/ MarkStats(loop)
  BY <1>1, <1>2, <1>4, <1>7, SectionSets DEF MarkEntry, MarkStatus, MarkStats
<1>8. CASE RemoveEntry(loop) \/ RemoveStatus(loop) \/ RemoveInstance(loop) \/ RemoveStats(loop)
  BY <1>1, <1>2, <1>4, <1>8, SectionSets DEF RemoveEntry, RemoveStatus, RemoveInstance, RemoveStats
<1>9. CASE ClearEntries(loop) \/ ClearStatus(loop) \/ ClearInstances(loop) \/ ClearStats(loop)
  BY <1>1, <1>2, <1>4, <1>9, SectionSets DEF ClearEntries, ClearStatus, ClearInstances, ClearStats
<1>10. CASE GetTaskInfo
  BY <1>1, <1>4, <1>10 DEF GetTaskInfo
<1>11. CASE LoopTakesUp
  <2>1. PICK some : /\ Start(loop, some) /\ some \in LoopCalls /\ some # <<>>
                    /\ \/ Head(some).op = "register" \/ Head(some).op = "mark"
                       \/ Head(some).op = "remove" \/ Head(some).op = "clear"
    <3>1. CASE \E t \in Tasks, i \in Instances : Submit(t, i)
      BY <3>1, TwoCalls, CallFields DEF Submit, Submission, LoopCalls
    <3>2. CASE \E t \in Tasks : ReceiveResult(t)
      BY <3>2, ThreeCalls, CallFields DEF ReceiveResult, ResultStored, LoopCalls
    <3>3. CASE \E t \in Tasks : FinishBroadcast(t)
      BY <3>3, OneCall, CallFields DEF FinishBroadcast, Removal, LoopCalls
    <3>4. CASE \E t \in Tasks : NotifyTaskCompletion(t)
      BY <3>4, OneCall, CallFields DEF NotifyTaskCompletion, Notification, LoopCalls
    <3>5. CASE ClearAll
      BY <3>5, OneCall, CallFields DEF ClearAll, LoopCalls
    <3>6. QED
      BY <1>11, <3>1, <3>2, <3>3, <3>4, <3>5 DEF LoopTakesUp
  <2>2. calls'[loop] = some /\ pc'[loop] = First(Head(some)) /\ Op' = Head(some).op
    BY <1>a, <2>1, Starts, TwoThreads DEF Op
  <2>3. ~TrackerCall(loop) /\ ~GetTaskInfo
    <3>1. pc[loop] = "idle"
      BY <1>11 DEF LoopTakesUp, Submit, ReceiveResult, FinishBroadcast, NotifyTaskCompletion,
         ClearAll, Idle
    <3>2. QED
      BY <3>1 DEF GetTaskInfo, At, TrackerCall, RegisterEntry, RegisterStatus,
         RegisterInstance, RegisterStats, Contains, Fetch, MarkEntry, MarkStatus, MarkStats,
         RemoveEntry, RemoveStatus, RemoveInstance, RemoveStats, ClearEntries, ClearStatus,
         ClearInstances, ClearStats
  <2>4. QED
    BY <2>1, <2>2, <2>3, SectionSets, FirstSection
<1>12. QED
  BY <1>5, <1>6, <1>7, <1>8, <1>9, <1>10, <1>11 DEF LoopStep, TrackerCall

(* The cleanup starts, reads, or removes; these are the steps that matter to *)
(* others.                                                                   *)
CleanerDeletes ==
    LET t == TaskOf(cleaner) IN
    /\ pc[cleaner] = "write" /\ pc'[cleaner] = "status"
    /\ Present(t) /\ tasks' = [tasks EXCEPT ![t] = NoEntry]
    /\ UNCHANGED <<instanceIndex, stats>>
CleanerUnlinks ==
    LET t == TaskOf(cleaner) IN
    /\ pc[cleaner] = "instance" /\ pc'[cleaner] = "stats"
    /\ instanceIndex' = [instanceIndex EXCEPT ![info[cleaner].instance] = @ \ {t}]
    /\ UNCHANGED <<tasks, stats>>
CleanerUncounts ==
    /\ pc[cleaner] = "stats" /\ pc'[cleaner] \in {"idle", "contains"}
    /\ stats' = [stats EXCEPT !.total_tasks = @ - 1, ![info[cleaner].status] = @ - 1]
    /\ UNCHANGED <<tasks, instanceIndex>>
CleanerElse ==
    /\ \/ /\ pc[cleaner] \notin {"status", "instance", "stats"}
          /\ pc'[cleaner] \notin {"status", "instance", "stats"}
       \/ pc[cleaner] = "status" /\ pc'[cleaner] = "instance" /\ calls' = calls
    /\ UNCHANGED <<tasks, instanceIndex, stats>>

(* Without a section of a call, a thread makes none.                         *)
LEMMA NoCallYet ==
    ASSUME NEW th \in Threads, pc[th] \in {"idle", "collect"}
    PROVE  ~TrackerCall(th) /\ ~Fetch(th)
  BY DEF At, TrackerCall, RegisterEntry, RegisterStatus, RegisterInstance, RegisterStats,
     Contains, Fetch, MarkEntry, MarkStatus, MarkStats, RemoveEntry, RemoveStatus,
     RemoveInstance, RemoveStats, ClearEntries, ClearStatus, ClearInstances, ClearStats

LEMMA CleanerReturns ==
    ASSUME IInv, calls[cleaner] # <<>>, Return(cleaner) \/ Raise(cleaner)
    PROVE  /\ calls'[cleaner] \in {<<>>, Tail(calls[cleaner])}
           /\ info'[cleaner] = NoEntry
           /\ pc'[cleaner] = IF calls'[cleaner] = <<>> THEN "idle" ELSE "contains"
<1>1. TypeInv /\ CallsInv
  BY DEF IInv
<1>2. Tail(calls[cleaner]) # <<>> => Head(Tail(calls[cleaner])).op = "remove"
  <2>1. Tail(calls[cleaner]) \in Seq(RemoveCalls)
    BY <1>1, CleanerCall
  <2>2. Tail(calls[cleaner]) # <<>> => Head(Tail(calls[cleaner])) \in RemoveCalls
    BY <2>1, HeadTailProperties
  <2>3. QED
    BY <2>2 DEF RemoveCalls
<1>3. PICK some \in {<<>>, Tail(calls[cleaner])} : Start(cleaner, some)
  BY DEF Return, Raise
<1>4. /\ calls'[cleaner] = some /\ info'[cleaner] = NoEntry
      /\ pc'[cleaner] = IF some = <<>> THEN "idle" ELSE First(Head(some))
  BY <1>1, <1>3, Starts, TwoThreads
<1>5. some # <<>> => First(Head(some)) = "contains"
  BY <1>2, <1>3, FirstSection
<1>6. QED
  BY <1>3, <1>4, <1>5

CleanerAt ==
    \/ calls[cleaner] = <<>> /\ pc[cleaner] \in {"idle", "collect"}
    \/ /\ calls[cleaner] \in Seq(RemoveCalls) /\ calls[cleaner] # <<>>
       /\ pc[cleaner] \in Sections("remove")

(* Where its calls, what it has read, and the ids it has found come from.    *)
CallsFrom ==
    \/ calls'[cleaner] \in {<<>>, calls[cleaner]}
    \/ calls[cleaner] # <<>> /\ calls'[cleaner] = Tail(calls[cleaner])
    \/ \A k \in 1..Len(calls'[cleaner]) : calls'[cleaner][k].task \in collected
ReadFrom ==
    /\ \/ calls'[cleaner] = calls[cleaner] /\ info'[cleaner] = info[cleaner]
       \/ info'[cleaner] = NoEntry
       \/ Fetch(cleaner) /\ calls'[cleaner] = calls[cleaner] /\ calls[cleaner] # <<>>
    /\ pc'[cleaner] \in {"write", "status", "instance", "stats"} =>
          \/ /\ pc[cleaner] \in {"write", "status", "instance"}
             /\ info'[cleaner] = info[cleaner] /\ calls'[cleaner] = calls[cleaner]
          \/ Fetch(cleaner) /\ Present(TaskOf(cleaner))
FoundFrom == \A t \in collected' : t \in collected \/ tasks[t].status = "completed"

LEMMA CleanerMoves ==
    ASSUME IInv, CleanerStep
    PROVE  /\ CleanerDeletes \/ CleanerUnlinks \/ CleanerUncounts \/ CleanerElse
           /\ CleanerAt' /\ CallsFrom /\ ReadFrom /\ FoundFrom
<1> USE DEF IInv
<1>a. TypeInv /\ CallsInv /\ CleanerInv /\ LoopInv
  OBVIOUS
<1>1. ASSUME NEW op, NEW section, section \notin {"idle", "collect"}, At(cleaner, op, section)
      PROVE  /\ op = "remove" /\ pc[cleaner] = section
             /\ calls[cleaner] # <<>> /\ calls[cleaner] \in Seq(RemoveCalls)
  BY <1>a, <1>1, CallAt, TwoThreads DEF CallsInv
<1>2. ASSUME NEW section, Continue(cleaner, section)
      PROVE  calls' = calls /\ pc'[cleaner] = section
  BY <1>a, <1>2, Continues, TwoThreads
<1>3. ASSUME calls[cleaner] # <<>>, Return(cleaner) \/ Raise(cleaner)
      PROVE  /\ calls'[cleaner] \in {<<>>, Tail(calls[cleaner])}
             /\ calls'[cleaner] \in Seq(RemoveCalls)
             /\ info'[cleaner] = NoEntry
             /\ pc'[cleaner] = IF calls'[cleaner] = <<>> THEN "idle" ELSE "contains"
  BY <1>a, <1>3, CleanerReturns, CleanerCall, EmptySeq
<1>4. ASSUME TrackerCall(cleaner) PROVE UNCHANGED cleanupVars
  BY <1>a, <1>4, OneThread, TwoThreads
<1>5. CASE Contains(cleaner) \/ Fetch(cleaner)
  <2>1. /\ pc[cleaner] \in {"contains", "fetch"} /\ calls[cleaner] # <<>>
        /\ calls[cleaner] \in Seq(RemoveCalls) /\ UNCHANGED <<collected, entryVars>>
    BY <1>1, <1>4, <1>5 DEF Contains, Fetch, TrackerCall, cleanupVars
  <2>2. CASE Contains(cleaner) /\ Present(TaskOf(cleaner))
    <3>1. calls' = calls /\ pc'[cleaner] = "fetch" /\ UNCHANGED info
      BY <1>2, <2>2 DEF Contains
    <3>2. CleanerElse
      BY <2>1, <3>1 DEF CleanerElse, entryVars
    <3>3. CleanerAt' /\ CallsFrom /\ ReadFrom /\ FoundFrom
      BY <2>1, <3>1, SectionSets DEF CleanerAt, CallsFrom, ReadFrom, FoundFrom
    <3>4. QED
      BY <3>2, <3>3
  <2>3. CASE Fetch(cleaner) /\ Present(TaskOf(cleaner))
    <3>1. calls' = calls /\ pc'[cleaner] = "write"
      BY <1>2, <2>3 DEF Fetch
    <3>2. CleanerElse
      BY <2>1, <3>1 DEF CleanerElse, entryVars
    <3>3. CleanerAt' /\ CallsFrom /\ ReadFrom /\ FoundFrom
      BY <2>1, <2>3, <3>1, SectionSets DEF CleanerAt, CallsFrom, ReadFrom, FoundFrom
    <3>4. QED
      BY <3>2, <3>3
  <2>4. CASE ~Present(TaskOf(cleaner))
    <3>1. Return(cleaner) \/ Raise(cleaner)
      BY <1>5, <2>4 DEF Contains, Fetch
    <3>2. CleanerElse
      BY <1>3, <2>1, <3>1 DEF CleanerElse, entryVars
    <3>3. CleanerAt' /\ CallsFrom /\ ReadFrom /\ FoundFrom
      BY <1>3, <2>1, <3>1, SectionSets DEF CleanerAt, CallsFrom, ReadFrom, FoundFrom
    <3>4. QED
      BY <3>2, <3>3
  <2>5. QED
    BY <1>5, <2>2, <2>3, <2>4
<1>7. CASE RemoveEntry(cleaner)
  <2>1. /\ pc[cleaner] = "write" /\ calls[cleaner] # <<>>
        /\ calls[cleaner] \in Seq(RemoveCalls) /\ UNCHANGED collected
    BY <1>1, <1>4, <1>7 DEF RemoveEntry, TrackerCall, cleanupVars
  <2>2. CASE Present(TaskOf(cleaner))
    <3>1. calls' = calls /\ pc'[cleaner] = "status" /\ UNCHANGED info
      BY <1>2, <1>7, <2>2 DEF RemoveEntry
    <3>2. CleanerDeletes
      BY <1>7, <2>1, <2>2, <3>1 DEF RemoveEntry, CleanerDeletes
    <3>3. CleanerAt' /\ CallsFrom /\ ReadFrom /\ FoundFrom
      BY <2>1, <3>1, SectionSets DEF CleanerAt, CallsFrom, ReadFrom, FoundFrom
    <3>4. QED
      BY <3>2, <3>3
  <2>3. CASE ~Present(TaskOf(cleaner))
    <3>1. Return(cleaner) /\ UNCHANGED <<tasks, instanceIndex, stats>>
      BY <1>7, <2>3 DEF RemoveEntry
    <3>2. CleanerElse
      BY <1>3, <2>1, <3>1 DEF CleanerElse
    <3>3. CleanerAt' /\ CallsFrom /\ ReadFrom /\ FoundFrom
      BY <1>3, <2>1, <3>1, SectionSets DEF CleanerAt, CallsFrom, ReadFrom, FoundFrom
    <3>4. QED
      BY <3>2, <3>3
  <2>4. QED
    BY <2>2, <2>3
<1>8. CASE RemoveStatus(cleaner) \/ RemoveInstance(cleaner)
  <2>1. /\ pc[cleaner] \in {"status", "instance"} /\ calls[cleaner] # <<>>
        /\ calls[cleaner] \in Seq(RemoveCalls) /\ UNCHANGED <<collected, info, calls>>
        /\ pc'[cleaner] \in {"instance", "stats"}
    BY <1>1, <1>2, <1>4, <1>8 DEF RemoveStatus, RemoveInstance, TrackerCall, cleanupVars
  <2>2. CleanerUnlinks \/ CleanerElse
    BY <1>1, <1>2, <1>8, <2>1 DEF RemoveStatus, RemoveInstance, CleanerUnlinks, CleanerElse
  <2>3. CleanerAt' /\ CallsFrom /\ ReadFrom /\ FoundFrom
    BY <2>1, SectionSets DEF CleanerAt, CallsFrom, ReadFrom, FoundFrom
  <2>4. QED
    BY <2>2, <2>3
<1>10. CASE RemoveStats(cleaner)
  <2>1. /\ pc[cleaner] = "stats" /\ calls[cleaner] # <<>>
        /\ calls[cleaner] \in Seq(RemoveCalls) /\ UNCHANGED collected /\ Return(cleaner)
    BY <1>1, <1>4, <1>10 DEF RemoveStats, TrackerCall, cleanupVars
  <2>2. CleanerUncounts
    BY <1>3, <1>10, <2>1 DEF RemoveStats, CleanerUncounts
  <2>3. CleanerAt' /\ CallsFrom /\ ReadFrom /\ FoundFrom
    BY <1>3, <2>1, SectionSets DEF CleanerAt, CallsFrom, ReadFrom, FoundFrom
  <2>4. QED
    BY <2>2, <2>3
<1>11. CASE StartCleanup \/ \E t \in Tasks : Collect(t)
  <2>1. pc[cleaner] \in {"idle", "collect"}
    BY <1>11 DEF StartCleanup, Collect, Idle
  <2>2. calls[cleaner] = <<>>
    BY <2>1, SectionSets DEF CallsInv
  <2>3. pc'[cleaner] = "collect" /\ UNCHANGED <<calls, info, entryVars>>
    BY <1>11, TwoThreads DEF StartCleanup, Collect, TypeInv
  <2>4. FoundFrom
    BY <1>11 DEF StartCleanup, Collect, FoundFrom
  <2>5. CleanerElse
    BY <2>1, <2>3 DEF CleanerElse, entryVars
  <2>6. CleanerAt' /\ CallsFrom /\ ReadFrom
    BY <2>2, <2>3 DEF CleanerAt, CallsFrom, ReadFrom
  <2>7. QED
    BY <2>4, <2>5, <2>6
<1>13. CASE CollectFails \/ RemoveSurplus
  <2>1. PICK some : /\ Start(cleaner, some) /\ some \in Seq(RemoveCalls)
                    /\ some # <<>> => Head(some).op = "remove"
                    /\ \A k \in 1..Len(some) : some[k].task \in collected
    <3>1. CASE CollectFails
      <4>1. /\ <<>> \in Seq(RemoveCalls)
            /\ \A k \in 1..Len(<<>>) : (<<>>)[k].task \in collected
        OBVIOUS
      <4>2. Start(cleaner, <<>>)
        BY <3>1 DEF CollectFails, Raise
      <4>3. QED
        BY <4>1, <4>2, Zenon
    <3>2. CASE RemoveSurplus
      BY <3>2, SurplusCalls DEF RemoveSurplus
    <3>3. QED
      BY <1>13, <3>1, <3>2
  <2>2. /\ calls'[cleaner] = some /\ info'[cleaner] = NoEntry
        /\ pc'[cleaner] = IF some = <<>> THEN "idle" ELSE "contains"
    BY <1>a, <2>1, Starts, TwoThreads, FirstSection
  <2>3. pc[cleaner] = "collect" /\ collected' = {} /\ UNCHANGED <<tasks, instanceIndex, stats>>
    BY <1>13 DEF CollectFails, RemoveSurplus, entryVars
  <2>4. CleanerElse /\ FoundFrom
    BY <2>2, <2>3 DEF CleanerElse, FoundFrom
  <2>5. CleanerAt' /\ CallsFrom /\ ReadFrom
    BY <2>1, <2>2, SectionSets DEF CleanerAt, CallsFrom, ReadFrom
  <2>6. QED
    BY <2>4, <2>5
<1>15. QED
  <2>1. TrackerCall(cleaner) =>
           \/ Contains(cleaner) \/ Fetch(cleaner) \/ RemoveEntry(cleaner)
           \/ RemoveStatus(cleaner) \/ RemoveInstance(cleaner) \/ RemoveStats(cleaner)
    BY <1>1 DEF TrackerCall, RegisterEntry, RegisterStatus, RegisterInstance, RegisterStats,
       MarkEntry, MarkStatus, MarkStats, ClearEntries, ClearStatus, ClearInstances, ClearStats
  <2>2. QED
    BY <2>1, <1>5, <1>7, <1>8, <1>10, <1>11, <1>13
    DEF CleanerStep, Cleanup

LEMMA OneStep == Next => LoopStep \/ CleanerStep
  BY TwoThreads DEF Next, LoopStep, LoopTakesUp, CleanerStep, Cleanup

LEMMA CallsStep == ASSUME IInv, Next PROVE CallsInv'
<1>1. CASE LoopStep
  BY <1>1, LoopCallsStep, LoopKeepsCleaner DEF IInv, CallsInv, CleanerKept
<1>2. CASE CleanerStep
  BY <1>2, CleanerMoves, CleanerKeepsLoop, SameCall DEF IInv, CallsInv, CleanerAt, LoopKept
<1>3. QED
  BY <1>1, <1>2, OneStep

-----------------------------------------------------------------------------
(* The steps of the event loop.                                              *)
Goes(section) ==
    /\ calls'[loop] = calls[loop] /\ pc'[loop] = section
    /\ Op' = Op /\ Task' = Task /\ Arg' = Arg /\ After' = After
LoopStops == calls'[loop] = <<>> /\ pc'[loop] = "idle" /\ info'[loop] = NoEntry
InfoKept == info'[loop] = info[loop]

Passes ==
    /\ pc[loop] = "status" /\ Op # "get" /\ InfoKept
    /\ Goes(IF Op = "mark" THEN "stats" ELSE "instance")
    /\ UNCHANGED <<tasks, instanceIndex, stats, handlerVars>>
Registers ==
    /\ Op = "register" /\ pc[loop] = "write" /\ Goes("status") /\ info'[loop] = tasks[Task]
    /\ tasks' = [tasks EXCEPT ![Task] = [status |-> "queued", instance |-> Arg]]
    /\ UNCHANGED <<instanceIndex, stats, handlerVars>>
Links ==
    /\ Op = "register" /\ pc[loop] = "instance" /\ Goes("stats") /\ InfoKept
    /\ instanceIndex' = [instanceIndex EXCEPT ![Arg] = @ \cup {Task}]
    /\ UNCHANGED <<tasks, stats, handlerVars>>
CountsNew ==
    /\ Op = "register" /\ pc[loop] = "stats" /\ LoopReturns
    /\ stats' = [stats EXCEPT !.queued = @ + 1,
                              !.total_tasks = IF info[loop] = NoEntry THEN @ + 1 ELSE @]
    /\ UNCHANGED <<tasks, instanceIndex, handlerVars>>
Finds ==
    /\ Op \in {"mark", "remove"} /\ pc[loop] = "contains" /\ Present(Task)
    /\ Goes("fetch") /\ InfoKept
    /\ UNCHANGED <<tasks, instanceIndex, stats, handlerVars>>
Fetches ==
    /\ Op \in {"mark", "remove"} /\ pc[loop] = "fetch" /\ Present(Task)
    /\ Goes("write") /\ info'[loop] = tasks[Task]
    /\ UNCHANGED <<tasks, instanceIndex, stats, handlerVars>>
Misses ==
    /\ Op \in {"mark", "remove"} /\ pc[loop] \in {"contains", "fetch", "write"}
    /\ pc[loop] = "write" => Op = "remove"
    /\ ~Present(Task)
    /\ LoopReturns \/ LoopStops
    /\ UNCHANGED <<tasks, instanceIndex, stats, handlerVars>>
Marks ==
    /\ Op = "mark" /\ pc[loop] = "write" /\ Goes("status") /\ InfoKept
    /\ tasks' = [tasks EXCEPT ![Task] = [info[loop] EXCEPT !.status = Arg]]
    /\ UNCHANGED <<instanceIndex, stats, handlerVars>>
CountsMark ==
    /\ Op = "mark" /\ pc[loop] = "stats" /\ LoopReturns
    /\ LET less == ActiveLess(stats, OldStatus(loop))
       IN  stats' = [less EXCEPT ![Arg] = @ + 1]
    /\ UNCHANGED <<tasks, instanceIndex, handlerVars>>
Deletes ==
    /\ Op = "remove" /\ pc[loop] = "write" /\ Present(Task) /\ Goes("status") /\ InfoKept
    /\ tasks' = [tasks EXCEPT ![Task] = NoEntry]
    /\ UNCHANGED <<instanceIndex, stats, handlerVars>>
Unlinks ==
    /\ Op = "remove" /\ pc[loop] = "instance" /\ Goes("stats") /\ InfoKept
    /\ instanceIndex' = [instanceIndex EXCEPT ![info[loop].instance] = @ \ {Task}]
    /\ UNCHANGED <<tasks, stats, handlerVars>>
Uncounts ==
    /\ Op = "remove" /\ pc[loop] = "stats" /\ LoopReturns
    /\ stats' = [stats EXCEPT !.total_tasks = @ - 1, ![info[loop].status] = @ - 1]
    /\ UNCHANGED <<tasks, instanceIndex, handlerVars>>
Clears ==
    /\ Op = "clear" /\ pc[loop] = "write" /\ Goes("status") /\ InfoKept
    /\ tasks' = NoTasks
    /\ UNCHANGED <<instanceIndex, stats, handlerVars>>
ClearsIndex ==
    /\ Op = "clear" /\ pc[loop] = "instance" /\ Goes("stats") /\ InfoKept
    /\ instanceIndex' = NoInstances
    /\ UNCHANGED <<tasks, stats, handlerVars>>
ClearsCounts ==
    /\ Op = "clear" /\ pc[loop] = "stats" /\ LoopReturns
    /\ stats' = NoStats
    /\ UNCHANGED <<tasks, instanceIndex, handlerVars>>
Gets ==
    /\ Op = "get" /\ pc[loop] = "contains" /\ LoopReturns
    /\ awaiting' = IF Present(Task) THEN [awaiting EXCEPT ![Task] = @ + 1] ELSE awaiting
    /\ UNCHANGED <<tasks, instanceIndex, stats, submitted, reported, answered, cleared>>

(* The event loop takes up a handler, whose first call is op for t.          *)
Begins(op, t, arg, after) ==
    /\ pc[loop] = "idle" /\ info'[loop] = NoEntry
    /\ calls'[loop] \in LoopCalls
    /\ pc'[loop] = IF op \in {"register", "clear"} THEN "write" ELSE "contains"
    /\ Op' = op /\ Task' = t /\ Arg' = arg /\ After' = after
    /\ UNCHANGED <<tasks, instanceIndex, stats>>
Submits(t, i) ==
    /\ Begins("register", t, i, 1) /\ submitted[t] < MaxSubmissions
    /\ submitted' = [submitted EXCEPT ![t] = @ + 1] /\ answered' = answered \ {t}
    /\ UNCHANGED <<awaiting, cleared>>
Receives(t) ==
    /\ Begins("mark", t, "completed", 2) /\ submitted[t] > 0
    /\ answered' = answered \cup {t}
    /\ UNCHANGED <<awaiting, submitted, cleared>>
Finishes(t) ==
    /\ Begins("remove", t, "none", 0) /\ awaiting[t] > 0
    /\ awaiting' = [awaiting EXCEPT ![t] = @ - 1]
    /\ UNCHANGED <<submitted, answered, cleared>>
Notifies(t) ==
    /\ Begins("mark", t, "completed", 0) /\ submitted[t] > 0
    /\ UNCHANGED <<awaiting, submitted, answered, cleared>>
BeginsClear ==
    /\ Begins("clear", "none", "none", 0) /\ cleared' = TRUE
    /\ UNCHANGED <<awaiting, submitted, answered>>

LoopCalling ==
    \/ Passes \/ Registers \/ Links \/ CountsNew \/ Finds \/ Fetches \/ Misses
    \/ Marks \/ CountsMark \/ Deletes \/ Unlinks \/ Uncounts
    \/ Clears \/ ClearsIndex \/ ClearsCounts \/ Gets
LoopBeginning ==
    \/ \E t \in Tasks, i \in Instances : Submits(t, i)
    \/ \E t \in Tasks : Receives(t) \/ Finishes(t) \/ Notifies(t)
    \/ BeginsClear

LEMMA LoopMoves ==
    ASSUME IInv, LoopStep
    PROVE  \/ LoopCalling /\ pc[loop] # "idle" /\ calls[loop] \in LoopCalls
           \/ LoopBeginning
<1>a. TypeInv /\ CallsInv
  BY DEF IInv
<1>1. ASSUME NEW section, Continue(loop, section)
      PROVE  Goes(section)
  BY <1>a, <1>1, Continues, SameCall, TwoThreads DEF Goes
<1>2. ASSUME NEW op, NEW section, section \notin {"idle", "collect"}, At(loop, op, section)
      PROVE  calls[loop] \in LoopCalls /\ pc[loop] = section /\ Op = op
  BY <1>a, <1>2, CallAt, TwoThreads
<1>3. calls[loop] \in LoopCalls /\ Return(loop) => LoopReturns
  BY <1>a, Returning
<1>4. Raise(loop) => LoopStops
  BY <1>a, Starts, TwoThreads DEF Raise, LoopStops
<1>5. UNCHANGED info => InfoKept
  BY DEF InfoKept
<1>6. ASSUME NEW e, info' = [info EXCEPT ![loop] = e] PROVE info'[loop] = e
  BY <1>a, <1>6, TwoThreads DEF TypeInv
<1>7. TaskOf(loop) = Task /\ ArgOf(loop) = Arg
  BY DEF Task, Arg
<1>8. ASSUME RegisterEntry(loop) PROVE Registers /\ calls[loop] \in LoopCalls
  BY <1>1, <1>2, <1>6, <1>7, <1>8 DEF RegisterEntry, Registers
<1>9. ASSUME RegisterStatus(loop) PROVE Passes /\ calls[loop] \in LoopCalls
  BY <1>1, <1>2, <1>5, <1>9 DEF RegisterStatus, Passes
<1>10. ASSUME RegisterInstance(loop) PROVE Links /\ calls[loop] \in LoopCalls
  BY <1>1, <1>2, <1>5, <1>7, <1>10 DEF RegisterInstance, Links
<1>11. ASSUME RegisterStats(loop) PROVE CountsNew /\ calls[loop] \in LoopCalls
  BY <1>2, <1>3, <1>11 DEF RegisterStats, CountsNew
<1>12. ASSUME Contains(loop) PROVE (Finds \/ Misses) /\ calls[loop] \in LoopCalls
  BY <1>1, <1>2, <1>3, <1>5, <1>7, <1>12 DEF Contains, Finds, Misses, entryVars
<1>13. ASSUME Fetch(loop) PROVE (Fetches \/ Misses) /\ calls[loop] \in LoopCalls
  BY <1>1, <1>2, <1>4, <1>6, <1>7, <1>13 DEF Fetch, Fetches, Misses, entryVars
<1>14. ASSUME MarkEntry(loop) PROVE Marks /\ calls[loop] \in LoopCalls
  BY <1>1, <1>2, <1>5, <1>7, <1>14 DEF MarkEntry, Marks
<1>15. ASSUME MarkStatus(loop) PROVE Passes /\ calls[loop] \in LoopCalls
  BY <1>1, <1>2, <1>5, <1>15 DEF MarkStatus, Passes
<1>16. ASSUME MarkStats(loop) PROVE CountsMark /\ calls[loop] \in LoopCalls
  BY <1>2, <1>3, <1>7, <1>16 DEF MarkStats, CountsMark
<1>17. ASSUME RemoveEntry(loop) PROVE (Deletes \/ Misses) /\ calls[loop] \in LoopCalls
  BY <1>1, <1>2, <1>3, <1>5, <1>7, <1>17 DEF RemoveEntry, Deletes, Misses
<1>18. ASSUME RemoveStatus(loop) PROVE Passes /\ calls[loop] \in LoopCalls
  BY <1>1, <1>2, <1>5, <1>18 DEF RemoveStatus, Passes
<1>19. ASSUME RemoveInstance(loop) PROVE Unlinks /\ calls[loop] \in LoopCalls
  BY <1>1, <1>2, <1>5, <1>7, <1>19 DEF RemoveInstance, Unlinks
<1>20. ASSUME RemoveStats(loop) PROVE Uncounts /\ calls[loop] \in LoopCalls
  BY <1>2, <1>3, <1>20 DEF RemoveStats, Uncounts
<1>21. ASSUME ClearEntries(loop) PROVE Clears /\ calls[loop] \in LoopCalls
  BY <1>1, <1>2, <1>5, <1>21 DEF ClearEntries, Clears
<1>22. ASSUME ClearStatus(loop) PROVE Passes /\ calls[loop] \in LoopCalls
  BY <1>1, <1>2, <1>5, <1>22 DEF ClearStatus, Passes
<1>23. ASSUME ClearInstances(loop) PROVE ClearsIndex /\ calls[loop] \in LoopCalls
  BY <1>1, <1>2, <1>5, <1>23 DEF ClearInstances, ClearsIndex
<1>24. ASSUME ClearStats(loop) PROVE ClearsCounts /\ calls[loop] \in LoopCalls
  BY <1>2, <1>3, <1>24 DEF ClearStats, ClearsCounts
<1>25. ASSUME GetTaskInfo PROVE Gets /\ calls[loop] \in LoopCalls
  BY <1>2, <1>3, <1>7, <1>25 DEF GetTaskInfo, Gets, entryVars
<1>26. CASE TrackerCall(loop) \/ GetTaskInfo
  <2>1. pc[loop] # "idle"
    BY <1>26, LoopCallsStep
  <2>2. QED
    BY <1>26, <2>1, <1>8, <1>9, <1>10, <1>11, <1>12, <1>13, <1>14, <1>15, <1>16, <1>17, <1>18,
       <1>19, <1>20, <1>21, <1>22, <1>23, <1>24, <1>25 DEF TrackerCall, LoopCalling
<1>27. ASSUME NEW some, Start(loop, some), some \in LoopCalls, some # <<>>,
              NEW op \in {"register", "mark", "remove", "clear"}, NEW t, NEW arg,
              Head(some) = Call(op, t, arg), NEW after, after = Len(some) - 1,
              pc[loop] = "idle", UNCHANGED entryVars
       PROVE  Begins(op, t, arg, after)
  <2>1. /\ calls'[loop] = some /\ info'[loop] = NoEntry /\ pc'[loop] = First(Head(some))
    BY <1>a, <1>27, Starts, TwoThreads
  <2>2. Op' = op /\ Task' = t /\ Arg' = arg /\ After' = after
    BY <1>27, <2>1, CallFields DEF Op, Task, TaskOf, Arg, ArgOf, After
  <2>3. First(Head(some)) = IF op \in {"register", "clear"} THEN "write" ELSE "contains"
    BY <1>27, CallFields, FirstSection
  <2>4. QED
    BY <1>27, <2>1, <2>2, <2>3 DEF Begins, entryVars
<1>28. CASE LoopTakesUp
  <2>0. pc[loop] = "idle" /\ UNCHANGED entryVars
    BY <1>28 DEF LoopTakesUp, Submit, ReceiveResult, FinishBroadcast, NotifyTaskCompletion,
       ClearAll, Idle
  <2>1. ASSUME NEW t \in Tasks, NEW i \in Instances, Submit(t, i) PROVE Submits(t, i)
    <3> DEFINE s == <<Call("register", t, i), Call("mark", t, "scheduled")>>
    <3>1. /\ s \in LoopCalls /\ s # <<>> /\ Head(s) = Call("register", t, i) 
          /\ 1 = Len(s) - 1
          /\ Start(loop, s)
      BY <2>1, TwoCalls DEF Submit, Submission, LoopCalls
    <3> HIDE DEF s
    <3>2. Begins("register", t, i, 1)
      BY <1>27, <2>0, <3>1
    <3>3. QED
      BY <2>1, <3>2 DEF Submit, Submits
  <2>2. ASSUME NEW t \in Tasks, ReceiveResult(t) PROVE Receives(t)
    <3> DEFINE s == <<Call("mark", t, "completed"), Call("mark", t, "completed"),
                      Call("get", t, "none")>>
    <3>1. /\ s \in LoopCalls /\ s # <<>> /\ Head(s) = Call("mark", t, "completed") 
          /\ 2 = Len(s) - 1
          /\ Start(loop, s)
      BY <2>2, ThreeCalls DEF ReceiveResult, ResultStored, LoopCalls
    <3> HIDE DEF s
    <3>2. Begins("mark", t, "completed", 2)
      BY <1>27, <2>0, <3>1
    <3>3. QED
      BY <2>2, <3>2 DEF ReceiveResult, MayReport, Receives
  <2>3. ASSUME NEW t \in Tasks, FinishBroadcast(t) PROVE Finishes(t)
    <3> DEFINE s == <<Call("remove", t, "none")>>
    <3>1. /\ s \in LoopCalls /\ s # <<>> /\ Head(s) = Call("remove", t, "none") 
          /\ 0 = Len(s) - 1
          /\ Start(loop, s)
      BY <2>3, OneCall DEF FinishBroadcast, Removal, LoopCalls
    <3> HIDE DEF s
    <3>2. Begins("remove", t, "none", 0)
      BY <1>27, <2>0, <3>1
    <3>3. QED
      BY <2>3, <3>2 DEF FinishBroadcast, Finishes
  <2>4. ASSUME NEW t \in Tasks, NotifyTaskCompletion(t) PROVE Notifies(t)
    <3> DEFINE s == <<Call("mark", t, "completed")>>
    <3>1. /\ s \in LoopCalls /\ s # <<>> /\ Head(s) = Call("mark", t, "completed") 
          /\ 0 = Len(s) - 1
          /\ Start(loop, s)
      BY <2>4, OneCall DEF NotifyTaskCompletion, Notification, LoopCalls
    <3> HIDE DEF s
    <3>2. Begins("mark", t, "completed", 0)
      BY <1>27, <2>0, <3>1
    <3>3. QED
      BY <2>4, <3>2 DEF NotifyTaskCompletion, MayReport, Notifies
  <2>5. ASSUME ClearAll PROVE BeginsClear
    <3> DEFINE s == <<Call("clear", "none", "none")>>
    <3>1. /\ s \in LoopCalls /\ s # <<>> /\ Head(s) = Call("clear", "none", "none") 
          /\ 0 = Len(s) - 1
          /\ Start(loop, s)
      BY <2>5, OneCall DEF ClearAll, LoopCalls
    <3> HIDE DEF s
    <3>2. Begins("clear", "none", "none", 0)
      BY <1>27, <2>0, <3>1
    <3>3. QED
      BY <2>5, <3>2 DEF ClearAll, BeginsClear
  <2>6. QED
    BY <1>28, <2>1, <2>2, <2>3, <2>4, <2>5 DEF LoopTakesUp, LoopBeginning
<1>29. QED
  BY <1>26, <1>28 DEF LoopStep

-----------------------------------------------------------------------------
LEMMA CleanerNext == CleanerStep => Next
  BY TwoThreads DEF Next, CleanerStep, Cleanup

LEMMA LoopNext == LoopStep => Next
  BY TwoThreads DEF Next, LoopStep, LoopTakesUp

(* A completed task is past, and of a task that is past, the entry is        *)
(* completed if it is there.                                                 *)
LEMMA CompletedPast ==
    ASSUME IInv, NEW t \in Tasks, tasks[t].status = "completed"
    PROVE  Past(t)
<1>1. submitted[t] > 0
  <2>1. Present(t)
    BY DEF Present, NoEntry
  <2>2. QED
    BY <2>1 DEF IInv, TypeInv, FreshInv
<1>2. ASSUME Submitting(t) PROVE FALSE
  <2>1. pc[loop] # "idle" /\ Task = t /\ pc[loop] \in Sections(Op)
    BY <1>2 DEF Submitting, IInv, CallsInv
  <2>2. CASE Op = "register"
    <3>1. tasks[t] = NoEntry \/ tasks[t].status = "queued"
      BY <2>1, <2>2, KnowsTask, SectionSets DEF IInv, LoopKnows, Busy, Present
    <3>2. QED
      BY <3>1 DEF NoEntry
  <2>3. CASE Op = "mark" /\ Arg = "scheduled"
    <3>1. pc[loop] \in {"contains", "fetch", "write", "status", "stats"}
      BY <2>1, <2>3, SectionSets
    <3>2. tasks[t].status \in {"queued", "scheduled"}
      BY <2>1, <2>3, <3>1, KnowsTask DEF IInv, LoopKnows, Busy, Marking
    <3>3. QED
      BY <3>2
  <2>4. QED
    BY <1>2, <2>2, <2>3 DEF Submitting
<1>3. QED
  BY <1>1, <1>2 DEF Past

LEMMA PresentPast ==
    ASSUME TypeInv, NEW t \in Tasks, Past(t), Present(t)
    PROVE  tasks[t].status = "completed" /\ tasks[t] \in Entries
  BY EntryFields DEF TypeInv, Past, Present, Statuses

LEMMA RemovalTasks ==
    ASSUME NEW s, s = <<>> \/ s \in Seq(RemoveCalls)
    PROVE  \A k \in 1..Len(s) : s[k].task \in Tasks
<1>1. CASE s = <<>>
  BY <1>1
<1>2. CASE s \in Seq(RemoveCalls)
  <2>1. \A k \in 1..Len(s) : s[k] \in RemoveCalls
    BY <1>2, ElementOfSeq
  <2>2. QED
    BY <2>1 DEF RemoveCalls
<1>3. QED
  BY <1>1, <1>2

LEMMA CleanerTasks ==
    ASSUME CallsInv
    PROVE  \A k \in 1..Len(calls[cleaner]) : calls[cleaner][k].task \in Tasks
  BY RemovalTasks DEF CallsInv

LEMMA CleanerPast ==
    ASSUME CallsInv, CleanerInv, calls[cleaner] # <<>>
    PROVE  TaskOf(cleaner) \in Tasks /\ Past(TaskOf(cleaner))
<1>1. /\ TaskOf(cleaner) = calls[cleaner][1].task /\ 1 \in 1..Len(calls[cleaner])
      /\ TaskOf(cleaner) \in Tasks
  BY CleanerCall DEF TaskOf
<1>2. QED
  BY <1>1 DEF CleanerInv

-----------------------------------------------------------------------------
(* A task that is past stays so: its handler was the only one to queue it.   *)
LEMMA SubmittingStep ==
    ASSUME IInv, LoopStep, NEW t, Submitting(t)'
    PROVE  \/ Submitting(t) /\ calls[loop] \in LoopCalls
           \/ \E i \in Instances : t \in Tasks /\ Submits(t, i)
<1>1. CASE LoopCalling /\ pc[loop] # "idle" /\ calls[loop] \in LoopCalls
  <2>1. ASSUME LoopReturns PROVE Submitting(t)
    BY <1>1, <2>1, LoopCall DEF LoopReturns, Submitting
  <2>2. ASSUME NEW section, Goes(section) PROVE Submitting(t)
    BY <1>1, <2>2 DEF Goes, Submitting
  <2>3. ~LoopStops
    BY DEF LoopStops, Submitting
  <2>4. LoopReturns \/ LoopStops \/ \E section : Goes(section)
    BY <1>1 DEF LoopCalling, Passes, Registers, Links, CountsNew, Finds, Fetches, Misses, Marks,
       CountsMark, Deletes, Unlinks, Uncounts, Clears, ClearsIndex, ClearsCounts, Gets
  <2>5. QED
    BY <1>1, <2>1, <2>2, <2>3, <2>4
<1>2. CASE LoopBeginning
  BY <1>2 DEF LoopBeginning, Submits, Receives, Finishes, Notifies, BeginsClear, Begins, Submitting
<1>3. QED
  BY <1>1, <1>2, LoopMoves

LEMMA MarkedEntry ==
    ASSUME IInv, Marks
    PROVE  /\ calls[loop] \in LoopCalls /\ Arg \in {"scheduled", "completed"}
           /\ Task \in Tasks /\ info[loop] \in Entries
           /\ \A t \in Tasks : t # Task => tasks'[t] = tasks[t]
           /\ tasks'[Task] = [info[loop] EXCEPT !.status = Arg]
           /\ tasks'[Task].status = Arg /\ tasks'[Task].instance = info[loop].instance
           /\ tasks'[Task] \in Entries
<1>1. pc[loop] = "write" /\ Op = "mark"
  BY DEF Marks
<1>2. calls[loop] \in LoopCalls
  BY <1>1 DEF IInv, CallsInv
<1>3. Arg \in {"scheduled", "completed"} /\ Task \in Tasks
  BY <1>1, <1>2, LoopCall
<1>4. info[loop] \in Entries \cup {NoEntry} /\ info[loop] # NoEntry
  BY <1>1, KnowsTask, TwoThreads DEF IInv, TypeInv, LoopKnows, Busy
<1>5. /\ [info[loop] EXCEPT !.status = Arg].status = Arg
      /\ [info[loop] EXCEPT !.status = Arg].instance = info[loop].instance
      /\ [info[loop] EXCEPT !.status = Arg] \in Entries
  BY <1>3, <1>4, CopyFields DEF Statuses
<1>6. \A t \in Tasks :
          tasks'[t] = IF t = Task THEN [info[loop] EXCEPT !.status = Arg] ELSE tasks[t]
  BY DEF Marks, IInv, TypeInv
<1>7. QED
  BY <1>2, <1>3, <1>4, <1>5, <1>6

LEMMA LoopEntries ==
    ASSUME IInv, LoopStep, NEW t \in Tasks
    PROVE  \/ tasks'[t] = tasks[t]
           \/ tasks'[t] = NoEntry
           \/ Registers /\ t = Task /\ tasks'[t] = [status |-> "queued", instance |-> Arg]
           \/ /\ Marks /\ t = Task /\ tasks'[t] = [info[loop] EXCEPT !.status = Arg]
              /\ tasks'[t].status = Arg /\ tasks'[t].instance = info[loop].instance
              /\ tasks'[t] \in Entries
<1>0. tasks \in [Tasks -> Entries \cup {NoEntry}]
  BY DEF IInv, TypeInv
<1>1. CASE LoopCalling /\ pc[loop] # "idle" /\ calls[loop] \in LoopCalls
  <2>1. CASE UNCHANGED tasks
    BY <2>1
  <2>2. CASE Registers
    BY <1>0, <2>2 DEF Registers
  <2>3. CASE Marks
    BY <2>3, MarkedEntry
  <2>4. CASE Deletes \/ Clears
    BY <1>0, <2>4 DEF Deletes, Clears, NoTasks
  <2>5. QED
    BY <1>1, <2>1, <2>2, <2>3, <2>4 DEF LoopCalling, Passes, Links, CountsNew, Finds, Fetches, Misses,
       CountsMark, Unlinks, Uncounts, ClearsIndex, ClearsCounts, Gets
<1>2. CASE LoopBeginning
  BY <1>2 DEF LoopBeginning, Submits, Receives, Finishes, Notifies, BeginsClear, Begins
<1>3. QED
  BY <1>1, <1>2, LoopMoves

LEMMA LoopSubmitted ==
    ASSUME IInv, LoopStep
    PROVE  \/ UNCHANGED submitted
           \/ \E t \in Tasks, i \in Instances : Submits(t, i)
  BY LoopMoves DEF LoopCalling, LoopBeginning, handlerVars, Passes, Registers, Links, CountsNew, Finds,
     Fetches, Misses, Marks, CountsMark, Deletes, Unlinks, Uncounts, Clears, ClearsIndex,
     ClearsCounts, Gets, Receives, Finishes, Notifies, BeginsClear

LEMMA PastStep ==
    ASSUME IInv, MaxSubmissions <= 1, Next, NEW t \in Tasks, Past(t)
    PROVE  Past(t)'
<1>0. submitted[t] > 0 /\ ~Submitting(t) /\ tasks[t].status \notin {"queued", "scheduled"}
  BY DEF Past
<1>a. submitted \in [Tasks -> Nat]
  BY DEF IInv, TypeInv
<1>b. "absent" \notin {"queued", "scheduled"} /\ NoEntry.status = "absent"
  BY DEF NoEntry
<1>1. CASE LoopStep
  <2>1. ASSUME NEW u \in Tasks, NEW i \in Instances, Submits(u, i) PROVE u # t /\ submitted[u] = 0
    BY <1>0, <1>a, <2>1, LockFreeAssumption DEF Submits
  <2>2. submitted'[t] > 0
    <3>1. CASE UNCHANGED submitted
      BY <1>0, <3>1
    <3>2. CASE \E u \in Tasks, i \in Instances : Submits(u, i)
      <4>1. PICK u \in Tasks, i \in Instances : Submits(u, i)
        BY <3>2
      <4>2. submitted' = [submitted EXCEPT ![u] = @ + 1] /\ u # t
        BY <2>1, <4>1 DEF Submits
      <4>3. QED
        BY <1>0, <1>a, <4>2
    <3>3. QED
      BY <1>1, <3>1, <3>2, LoopSubmitted
  <2>3. ~Submitting(t)'
    BY <1>0, <1>1, <2>1, SubmittingStep
  <2>4. tasks'[t].status \notin {"queued", "scheduled"}
    <3>1. ~(Registers /\ t = Task)
      BY <1>0 DEF Registers, Submitting
    <3>2. Marks /\ t = Task => Arg \notin {"queued", "scheduled"}
      <4>1. ASSUME Marks, t = Task PROVE pc[loop] = "write" /\ Op = "mark" /\ Arg # "scheduled"
        BY <1>0, <4>1 DEF Marks, Submitting
      <4>2. ASSUME Marks, t = Task PROVE calls[loop] \in LoopCalls
        BY <4>1, <4>2 DEF IInv, CallsInv
      <4>3. QED
        BY <4>1, <4>2, LoopCall
    <3>3. QED
      BY <1>0, <1>1, <1>b, <3>1, <3>2, LoopEntries
  <2>5. QED
    BY <2>2, <2>3, <2>4 DEF Past
<1>2. CASE CleanerStep
  <2>1. LoopKept /\ UNCHANGED submitted
    BY <1>2, CleanerKeepsLoop DEF IInv, handlerVars
  <2>2. ~Submitting(t)'
    BY <1>0, <2>1, SameCall DEF LoopKept, Submitting
  <2>3. tasks' = tasks \/ \E u : tasks' = [tasks EXCEPT ![u] = NoEntry]
    BY <1>2, CleanerMoves DEF CleanerDeletes, CleanerUnlinks, CleanerUncounts, CleanerElse
  <2>4. tasks'[t].status \notin {"queued", "scheduled"}
    BY <1>0, <1>b, <2>3 DEF IInv, TypeInv
  <2>5. QED
    BY <1>0, <2>1, <2>2, <2>4 DEF Past
<1>3. QED
  BY <1>1, <1>2, OneStep

LEMMA CleanerStays ==
    ASSUME IInv, MaxSubmissions <= 1, Next
    PROVE  CleanerInv'
<1>1. \A t \in Tasks : Past(t) => Past(t)'
  BY PastStep
<1>a. TypeInv /\ CallsInv /\ CleanerInv /\ FreshInv
  BY DEF IInv
<1>2. CASE LoopStep
  <2>1. CleanerKept
    BY <1>a, <1>2, LoopKeepsCleaner
  <2>2. \A k \in 1..Len(calls[cleaner]) : calls[cleaner][k].task \in Tasks
    BY <1>a, CleanerTasks
  <2>3. collected \subseteq Tasks
    BY <1>a DEF TypeInv
  <2>4. QED
    BY <1>1, <1>a, <2>1, <2>2, <2>3 DEF CleanerInv, CleanerKept, cleanupVars
<1>3. CASE CleanerStep
  <2>1. \A t \in collected' : Past(t)'
    <3>1. \A t \in collected : t \in Tasks /\ Past(t)
      BY <1>a DEF TypeInv, CleanerInv
    <3>2. TypeInv'
      BY <1>3, TypeStep, CleanerNext
    <3>3. \A t \in collected' : t \in Tasks
      BY <3>2 DEF TypeInv
    <3>a. FoundFrom
      BY <1>3, CleanerMoves
    <3>b. \A t \in collected' : Past(t)
      BY <3>1, <3>3, <3>a, CompletedPast DEF FoundFrom
    <3>4. QED
      BY <1>1, <3>3, <3>b
  <2>2. \A k \in 1..Len(calls'[cleaner]) : \A t \in Tasks :
           t = calls'[cleaner][k].task => Past(t)'
    <3>1. \A k \in 1..Len(calls'[cleaner]) :
             calls'[cleaner][k].task \in Tasks /\ Past(calls'[cleaner][k].task)
      <4> TAKE k \in 1..Len(calls'[cleaner])
      <4>1. CASE calls'[cleaner] = <<>>
        BY <4>1
      <4>2. CASE calls'[cleaner] = calls[cleaner]
        BY <4>2, <1>a, CleanerTasks DEF CleanerInv
      <4>3. CASE calls[cleaner] # <<>> /\ calls'[cleaner] = Tail(calls[cleaner])
        <5>1. calls'[cleaner][k] = calls[cleaner][k + 1] /\ k + 1 \in 1..Len(calls[cleaner])
          BY <1>a, <4>3, CleanerCall
        <5>2. QED
          BY <1>a, <5>1, CleanerTasks DEF CleanerInv
      <4>4. CASE calls'[cleaner][k].task \in collected
        BY <1>a, <4>4 DEF CleanerInv, TypeInv
      <4>5. QED
        BY <1>3, <4>1, <4>2, <4>3, <4>4, CleanerMoves DEF CallsFrom
    <3>2. QED
      BY <1>1, <3>1
  <2>3. /\ info'[cleaner] # NoEntry => info'[cleaner].status = "completed"
        /\ pc'[cleaner] \in {"write", "status", "instance", "stats"} => info'[cleaner] # NoEntry
    <3>1. CASE Fetch(cleaner) /\ Present(TaskOf(cleaner))
      <4>1. info'[cleaner] = tasks[TaskOf(cleaner)]
        BY <1>a, <3>1, TwoThreads DEF Fetch, TypeInv
      <4>2. Past(TaskOf(cleaner)) /\ TaskOf(cleaner) \in Tasks
        BY <1>a, <3>1, CallAt, CleanerPast, TwoThreads DEF Fetch
      <4>3. QED
        BY <1>a, <3>1, <4>1, <4>2, PresentPast DEF Present
    <3>2. CASE Fetch(cleaner) /\ ~Present(TaskOf(cleaner))
      BY <1>a, <3>2, Starts, TwoThreads DEF Fetch, Raise
    <3>3. CASE ~Fetch(cleaner)
      BY <1>3, <1>a, <3>3, CleanerMoves DEF ReadFrom, CleanerInv
    <3>4. QED
      BY <3>1, <3>2, <3>3
  <2>4. QED
    <3>1. CallsInv'
      BY <1>3, CallsStep, CleanerNext
    <3>2. \A k \in 1..Len(calls'[cleaner]) : calls'[cleaner][k].task \in Tasks
      BY <3>1, RemovalTasks DEF CallsInv
    <3>3. QED
      BY <2>1, <2>2, <2>3, <3>2 DEF CleanerInv, Past, Submitting
<1>4. QED
  BY <1>2, <1>3, OneStep

-----------------------------------------------------------------------------
(* Which of the event loop's steps change what.                              *)
LEMMA LoopChanges ==
    ASSUME IInv, LoopStep
    PROVE  /\ UNCHANGED answered \/ (\E t \in Tasks : Receives(t))
                 \/ (\E t \in Tasks, i \in Instances : Submits(t, i))
           /\ UNCHANGED awaiting \/ Gets \/ \E t \in Tasks : Finishes(t)
           /\ UNCHANGED instanceIndex \/ Links \/ Unlinks \/ ClearsIndex
           /\ UNCHANGED cleared \/ BeginsClear
           /\ UNCHANGED stats \/ CountsNew \/ CountsMark \/ Uncounts \/ ClearsCounts
           /\ UNCHANGED tasks \/ Registers \/ Marks \/ Deletes \/ Clears
<1>1. CASE LoopBeginning
  BY <1>1 DEF LoopBeginning, Begins, Submits, Receives, Finishes, Notifies, BeginsClear
<1>2. CASE LoopCalling
  BY <1>2 DEF LoopCalling, handlerVars, Passes, Registers, Links, CountsNew, Finds,
     Fetches, Misses, Marks, CountsMark, Deletes, Unlinks, Uncounts, Clears, ClearsIndex,
     ClearsCounts, Gets
<1>3. QED
  BY <1>1, <1>2, LoopMoves

LEMMA CallingTask ==
    ASSUME IInv, calls[loop] \in LoopCalls, pc[loop] # "idle", Op # "clear"
    PROVE  Task \in Tasks /\ submitted[Task] > 0
  BY KnowsTask DEF IInv, LoopKnows

LEMMA CallingSteps ==
    ASSUME IInv, LoopStep, LoopCalling, ~LoopBeginning
    PROVE  pc[loop] # "idle" /\ calls[loop] \in LoopCalls
  BY LoopMoves

(* A task whose entry is queued is being submitted.                          *)
LEMMA QueuedStep ==
    ASSUME IInv, LoopStep, NEW t \in Tasks, tasks'[t].status = "queued"
    PROVE  Submitting(t)'
<1>1. CASE LoopCalling /\ pc[loop] # "idle" /\ calls[loop] \in LoopCalls
  <2>1. CASE Registers
    <3>1. t = Task => Submitting(t)'
      BY <1>1, <2>1 DEF Registers, Goes, Submitting
    <3>2. t # Task => tasks[t].status = "queued"
      BY <2>1 DEF Registers, IInv, TypeInv
    <3>3. t # Task => ~Submitting(t)
      BY DEF Submitting
    <3>4. QED
      BY <3>1, <3>2, <3>3 DEF IInv, FreshInv
  <2>2. CASE ~Registers
    <3>1. tasks'[t] = tasks[t]
      <4>1. ~(tasks'[t] = NoEntry)
        BY DEF NoEntry
      <4>2. Marks => Arg # "queued"
        BY <1>1, LoopCall DEF Marks
      <4>3. QED
        BY <2>2, <4>1, <4>2, LoopEntries
    <3>2. Submitting(t) /\ t = Task /\ pc[loop] \in Sections(Op) /\ Present(Task)
      BY <1>1, <3>1 DEF IInv, FreshInv, Submitting, CallsInv, Present, NoEntry
    <3>3. CASE Op = "register"
      <4>1. After > 0
        BY <1>1, <3>3, LoopCall
      <4>2. LoopReturns => Submitting(t)'
        BY <3>2, <3>3, <4>1 DEF LoopReturns, Submitting
      <4>3. \A section : Goes(section) /\ section # "idle" => Submitting(t)'
        BY <3>2, <3>3 DEF Goes, Submitting
      <4>4. LoopReturns \/ \E section : Goes(section) /\ section # "idle"
        BY <1>1, <3>3 DEF LoopCalling, Passes, Registers, Links, CountsNew, Finds, Fetches,
           Misses, Marks, CountsMark, Deletes, Unlinks, Uncounts, Clears, ClearsIndex,
           ClearsCounts, Gets
      <4>5. QED
        BY <4>2, <4>3, <4>4
    <3>4. CASE Op = "mark" /\ Arg = "scheduled"
      <4>1. pc[loop] \in {"contains", "fetch", "write"}
        <5>1. pc[loop] \notin {"status", "stats"}
          BY <3>1, <3>2, <3>4, KnowsTask DEF IInv, LoopKnows, Busy, Marking
        <5>2. QED
          BY <3>2, <3>4, <5>1, SectionSets
      <4>2. ~Marks
        BY <3>2, <3>4, MarkedEntry
      <4>3. Goes("fetch") \/ Goes("write")
        BY <1>1, <3>2, <3>4, <4>1, <4>2 DEF LoopCalling, Passes, Registers, Links, CountsNew,
           Finds, Fetches, Misses, Marks, CountsMark, Deletes, Unlinks, Uncounts, Clears,
           ClearsIndex, ClearsCounts, Gets
      <4>4. QED
        BY <3>2, <3>4, <4>3 DEF Goes, Submitting
    <3>5. QED
      BY <3>2, <3>3, <3>4 DEF Submitting
  <2>3. QED
    BY <2>1, <2>2
<1>2. CASE LoopBeginning
  <2>1. pc[loop] = "idle" /\ UNCHANGED tasks
    BY <1>2 DEF LoopBeginning, Begins, Submits, Receives, Finishes, Notifies, BeginsClear
  <2>2. QED
    BY <2>1 DEF IInv, FreshInv, Submitting
<1>3. QED
  BY <1>1, <1>2, LoopMoves

Unknown(t) ==
    ~Present(t) /\ t \notin answered /\ awaiting[t] = 0 /\ \A i \in Instances : t \notin instanceIndex[i]

LEMMA UnknownStep ==
    ASSUME IInv, LoopStep, NEW t \in Tasks, submitted[t] = 0, submitted'[t] = 0
    PROVE  Unknown(t)'
<1>1. Unknown(t)
  BY DEF IInv, FreshInv, Unknown
<1>2. (LoopCalling /\ ~LoopBeginning) => (Op # "clear" => t # Task)
  BY CallingSteps, CallingTask
<1>3. Registers \/ Links \/ Marks \/ Gets => t # Task
  <2>1. Registers \/ Links \/ Marks \/ Gets =>
           LoopCalling /\ Op # "clear" /\ pc[loop] # "idle"
    BY DEF LoopCalling, Registers, Links, Marks, Gets
  <2>2. LoopBeginning => pc[loop] = "idle"
    BY DEF LoopBeginning, Begins, Submits, Receives, Finishes, Notifies, BeginsClear
  <2>3. QED
    BY <1>2, <2>1, <2>2
<1>4. ~Present(t)'
  BY <1>1, <1>3, LoopEntries DEF Unknown, Present
<1>5. t \notin answered'
  BY <1>1, LoopChanges DEF Unknown, Receives, Submits
<1>6. awaiting'[t] = 0
  BY <1>1, <1>3, LoopChanges DEF Unknown, Gets, Finishes, IInv, TypeInv
<1>7. \A i \in Instances : t \notin instanceIndex'[i]
  BY <1>1, <1>3, LoopChanges DEF Unknown, Links, Unlinks, ClearsIndex, NoInstances, IInv, TypeInv
<1>8. QED
  BY <1>4, <1>5, <1>6, <1>7 DEF Unknown

LEMMA FreshStays ==
    ASSUME IInv, MaxSubmissions <= 1, Next
    PROVE  FreshInv'
<1>a. TypeInv /\ FreshInv
  BY DEF IInv
<1>1. ASSUME NEW t \in Tasks, LoopStep
      PROVE  /\ submitted'[t] = 0 => Unknown(t)'
             /\ tasks'[t].status = "queued" => Submitting(t)'
             /\ Submitting(t)' => t \notin answered'
             /\ awaiting'[t] > 0 => Past(t)'
  <2>1. submitted'[t] = 0 => submitted[t] = 0
    <3>1. ASSUME NEW u \in Tasks, NEW i \in Instances, Submits(u, i)
          PROVE  submitted'[t] = 0 => submitted[t] = 0
      BY <1>a, <3>1 DEF Submits, TypeInv
    <3>2. QED
      BY <1>1, <3>1, LoopSubmitted
  <2>2. submitted'[t] = 0 => Unknown(t)'
    BY <1>1, <2>1, UnknownStep
  <2>3. tasks'[t].status = "queued" => Submitting(t)'
    BY <1>1, QueuedStep
  <2>4. Submitting(t)' => t \notin answered'
    <3>1. ASSUME Submitting(t), Submitting(t)' PROVE t \notin answered'
      <4>1. t \notin answered /\ pc[loop] # "idle"
        BY <1>a, <3>1 DEF FreshInv, Submitting
      <4>2. QED
        BY <1>1, <4>1, LoopChanges DEF Receives, Submits, Begins
    <3>2. ASSUME NEW i \in Instances, Submits(t, i) PROVE t \notin answered'
      BY <3>2 DEF Submits
    <3>3. QED
      BY <1>1, <3>1, <3>2, SubmittingStep
  <2>5. awaiting'[t] > 0 => Past(t)'
    <3>1. awaiting[t] > 0 => Past(t)
      BY <1>a DEF FreshInv
    <3>2. Gets => Past(Task) /\ Task \in Tasks
      <4>1. Gets => pc[loop] # "idle" /\ Op = "get" /\ calls[loop] \in LoopCalls
        BY DEF Gets, IInv, CallsInv
      <4>2. QED
        BY <4>1, KnowsTask DEF IInv, LoopKnows
    <3>3. awaiting'[t] > 0 => awaiting[t] > 0 \/ (Gets /\ t = Task)
      BY <1>1, <1>a, LoopChanges DEF Gets, Finishes, TypeInv
    <3>4. QED
      BY <1>1, <3>1, <3>2, <3>3, PastStep, LoopNext
  <2>6. QED
    BY <2>2, <2>3, <2>4, <2>5
<1>2. ASSUME NEW t \in Tasks, CleanerStep
      PROVE  /\ submitted'[t] = 0 => Unknown(t)'
             /\ tasks'[t].status = "queued" => Submitting(t)'
             /\ Submitting(t)' => t \notin answered'
             /\ awaiting'[t] > 0 => Past(t)'
  <2>1. LoopKept /\ UNCHANGED handlerVars
    BY <1>a, <1>2, CleanerKeepsLoop
  <2>2. Submitting(t)' = Submitting(t)
    BY <2>1, SameCall DEF LoopKept, Submitting
  <2>3. tasks'[t] = tasks[t] \/ tasks'[t] = NoEntry
    BY <1>2, <1>a, CleanerMoves DEF CleanerDeletes, CleanerUnlinks, CleanerUncounts, CleanerElse, TypeInv
  <2>4. \A i \in Instances : instanceIndex'[i] \subseteq instanceIndex[i]
    BY <1>2, <1>a, CleanerMoves DEF CleanerDeletes, CleanerUnlinks, CleanerUncounts, CleanerElse, TypeInv
  <2>5. awaiting'[t] > 0 => Past(t)'
    BY <1>2, <1>a, <2>1, PastStep, CleanerNext DEF FreshInv, handlerVars
  <2>6. QED
    BY <1>a, <2>1, <2>2, <2>3, <2>4, <2>5 DEF FreshInv, handlerVars, Unknown, Present, NoEntry
<1>3. QED
  BY <1>1, <1>2, OneStep DEF FreshInv, Unknown

(* The cleanup only removes entries that are past.                           *)
LEMMA CleanerEntries ==
    ASSUME IInv, CleanerStep, NEW t \in Tasks
    PROVE  tasks'[t] = tasks[t] \/ (tasks'[t] = NoEntry /\ Past(t))
<1>1. CASE CleanerDeletes
  <2>1. calls[cleaner] # <<>>
    BY <1>1, SectionSets DEF CleanerDeletes, IInv, CallsInv
  <2>2. Past(TaskOf(cleaner))
    BY <2>1, CleanerPast DEF IInv
  <2>3. QED
    BY <1>1, <2>2 DEF CleanerDeletes, IInv, TypeInv
<1>2. CASE UNCHANGED tasks
  BY <1>2
<1>3. QED
  BY <1>1, <1>2, CleanerMoves DEF CleanerUnlinks, CleanerUncounts, CleanerElse

-----------------------------------------------------------------------------
(* What the event loop knows stays true.                                     *)
LEMMA BeginsKnowing ==
    ASSUME IInv, MaxSubmissions <= 1, LoopStep, LoopBeginning, NEW t \in Tasks,
           Op' # "clear", Task' = t
    PROVE  LoopKnows(t)'
<1>a. submitted \in [Tasks -> Nat]
  BY DEF IInv, TypeInv
<1>1. CASE \E i \in Instances : Submits(t, i)
  <2>1. PICK i \in Instances : Submits(t, i)
    BY <1>1
  <2>2. submitted[t] = 0 /\ submitted'[t] > 0 /\ UNCHANGED tasks
    BY <1>a, <2>1, LockFreeAssumption DEF Submits, Begins
  <2>3. ~Present(t)'
    BY <2>2 DEF IInv, FreshInv, Present
  <2>4. Op' = "register" /\ pc'[loop] = "write"
    BY <2>1 DEF Submits, Begins
  <2>5. QED
    BY <2>2, <2>3, <2>4 DEF LoopKnows, Busy, Marking
<1>2. CASE Receives(t) \/ Notifies(t)
  <2>1. /\ submitted'[t] > 0 /\ Op' = "mark" /\ Arg' = "completed" /\ After' # 1
        /\ pc'[loop] = "contains"
    BY <1>2 DEF Receives, Notifies, Begins
  <2>2. QED
    BY <2>1 DEF LoopKnows, Busy, Marking
<1>3. CASE Finishes(t)
  <2>1. Past(t)
    BY <1>3 DEF Finishes, IInv, FreshInv
  <2>2. Past(t)'
    BY <2>1, PastStep, LoopNext
  <2>3. submitted'[t] > 0 /\ Op' = "remove" /\ pc'[loop] = "contains"
    BY <1>3, <2>1 DEF Finishes, Begins, Past
  <2>4. QED
    BY <2>2, <2>3 DEF LoopKnows, Busy, Marking
<1>4. QED
  BY <1>1, <1>2, <1>3 DEF LoopBeginning, Submits, Receives, Finishes, Notifies, BeginsClear, Begins

LEMMA CallsKnowing ==
    ASSUME IInv, MaxSubmissions <= 1, LoopStep, LoopCalling, pc[loop] # "idle",
           calls[loop] \in LoopCalls, NEW t \in Tasks,
           pc'[loop] # "idle", Op' # "clear", Task' = t
    PROVE  LoopKnows(t)'
<1>a. /\ submitted \in [Tasks -> Nat] /\ tasks \in [Tasks -> Entries \cup {NoEntry}]
      /\ CallsInv /\ LoopInv
  BY DEF IInv, TypeInv
<1>1. LoopReturns \/ \E section : Goes(section)
  BY DEF LoopCalling, Passes, Registers, Links, CountsNew, Finds, Fetches, Misses, Marks,
     CountsMark, Deletes, Unlinks, Uncounts, Clears, ClearsIndex, ClearsCounts, Gets, LoopStops
<1>2. Task = t /\ Op # "clear" /\ (LoopReturns /\ ~(\E section : Goes(section)) => After > 0)
  BY <1>1, LoopCall DEF LoopReturns, Goes
<1>3. LoopKnows(t) /\ pc[loop] \in Sections(Op)
  BY <1>a, <1>2, KnowsTask
<1>4. submitted'[t] > 0
  BY <1>3, <1>a, LoopSubmitted DEF LoopKnows, Submits, Begins
<1>5. Past(t) => Past(t)'
  BY PastStep, LoopNext
<1>6. CASE LoopReturns /\ After > 0
  <2>1. pc'[loop] = "contains" /\ Op' \in {"mark", "get"}
    BY <1>6 DEF LoopReturns
  <2>2. CASE Op = "register"
    <3>1. CountsNew \/ \E section \in {"status", "instance", "stats"} : Goes(section)
      BY <1>2, <2>2 DEF LoopCalling, Passes, Registers, Links, CountsNew, Finds, Fetches, Misses, Marks,
         CountsMark, Deletes, Unlinks, Uncounts, Clears, ClearsIndex, ClearsCounts, Gets
    <3>2. CountsNew
      BY <2>1, <3>1 DEF Goes
    <3>3. tasks'[t].status = "queued"
      BY <1>3, <2>2, <3>2 DEF CountsNew, LoopKnows, Busy
    <3>4. Op' = "mark" /\ Arg' = "scheduled" /\ After' = 0
      BY <1>6, <2>2, LoopCall DEF LoopReturns
    <3>5. QED
      BY <1>4, <2>1, <3>3, <3>4 DEF LoopKnows, Busy, Marking
  <2>3. CASE Op = "mark"
    <3>1. Arg = "completed" /\ After \in {1, 2}
      BY <1>6, <2>3, LoopCall
    <3>2. CountsMark \/ Misses \/ \E section \in {"fetch", "write", "status", "stats"} : Goes(section)
      BY <1>2, <2>3 DEF LoopCalling, Passes, Registers, Links, CountsNew, Finds, Fetches, Misses, Marks,
         CountsMark, Deletes, Unlinks, Uncounts, Clears, ClearsIndex, ClearsCounts, Gets
    <3>3. CountsMark \/ Misses
      BY <2>1, <3>2 DEF Goes
    <3>4. CountsMark => Past(t)
      BY <1>3, <2>3, <3>1 DEF CountsMark, LoopKnows, Busy, Marking
    <3>5. Misses => Past(t)
      BY <1>2, <1>3, <2>3, <3>1 DEF Misses, LoopKnows, Past, Submitting, Present, NoEntry
    <3>6. Past(t)' /\ Arg' # "scheduled"
      BY <1>5, <1>6, <2>3, <3>1, <3>3, <3>4, <3>5 DEF LoopReturns
    <3>7. QED
      BY <1>4, <2>1, <3>6 DEF LoopKnows, Busy, Marking
  <2>4. QED
    BY <1>6, <2>2, <2>3, <1>2, LoopCall
<1>7. CASE ~LoopReturns
  <2>0. \/ pc'[loop] # "contains" /\ UNCHANGED tasks
       \/ Registers \/ Marks \/ Deletes
    BY <1>2, <1>7 DEF LoopCalling, Passes, Registers, Links, CountsNew, Finds, Fetches, Misses, Marks,
       CountsMark, Deletes, Unlinks, Uncounts, Clears, ClearsIndex, ClearsCounts, Gets, Goes, LoopStops
  <2>1. CASE Registers
    <3>1. /\ info'[loop] = NoEntry /\ tasks'[t].status = "queued"
          /\ Op' = "register" /\ pc'[loop] = "status"
      BY <1>2, <1>3, <1>a, <2>1 DEF Registers, Goes, LoopKnows, Busy, Present
    <3>2. QED
      BY <1>4, <3>1 DEF LoopKnows, Busy, Marking
  <2>2. CASE Links
    <3>1. /\ info'[loop] = info[loop] /\ UNCHANGED tasks
          /\ Op' = "register" /\ pc'[loop] = "stats" /\ Busy("register", {"status", "instance", "stats"})
      BY <2>2 DEF Links, Goes, InfoKept, Busy
    <3>2. QED
      BY <1>3, <1>4, <3>1 DEF LoopKnows, Busy, Marking
  <2>3. CASE Finds
    <3>1. /\ UNCHANGED tasks /\ pc[loop] = "contains" /\ pc'[loop] = "fetch"
          /\ Op' = Op /\ Arg' = Arg /\ After' = After /\ Op \in {"mark", "remove"}
      BY <2>3 DEF Finds, Goes
    <3>2. QED
      BY <1>3, <1>4, <1>5, <3>1 DEF LoopKnows, Busy, Marking
  <2>4. CASE Fetches
    <3>1. /\ UNCHANGED tasks /\ pc[loop] = "fetch" /\ pc'[loop] = "write"
          /\ Op' = Op /\ Arg' = Arg /\ After' = After /\ Op \in {"mark", "remove"}
          /\ info'[loop] = tasks[t] /\ Present(t)
      BY <1>2, <2>4 DEF Fetches, Goes
    <3>2. tasks[t] # NoEntry /\ tasks[t].status \in Statuses
      BY <1>a, <3>1, EntryFields DEF Present
    <3>3. Op = "remove" => tasks[t].status = "completed"
      BY <1>3, <3>1, PresentPast DEF LoopKnows, IInv
    <3>4. Op = "mark" /\ Arg = "completed" =>
             IF tasks[t].status = "scheduled" THEN TRUE ELSE tasks[t].status = "completed" /\ Past(t)
      <4>1. ASSUME Op = "mark", Arg = "completed" PROVE tasks[t].status # "queued"
        BY <4>1 DEF IInv, FreshInv, Submitting
      <4>2. tasks[t].status = "completed" => Past(t)
        BY CompletedPast
      <4>3. QED
        BY <3>2, <4>1, <4>2 DEF Statuses
    <3>5. QED
      BY <1>3, <1>4, <1>5, <3>1, <3>2, <3>3, <3>4 DEF LoopKnows, Busy, Marking
  <2>5. CASE Marks
    <3>1. /\ pc[loop] = "write" /\ Op = "mark" /\ pc'[loop] = "status"
          /\ Op' = Op /\ Arg' = Arg /\ After' = After /\ info'[loop] = info[loop]
      BY <2>5 DEF Marks, Goes, InfoKept
    <3>2. tasks'[t].status = Arg /\ Arg \in {"scheduled", "completed"}
      BY <1>2, <2>5, MarkedEntry
    <3>3. Arg = "completed" => Past(t)'
      BY <1>2, <1>4, <3>1, <3>2 DEF Past, Submitting
    <3>4. QED
      BY <1>3, <1>4, <1>5, <3>1, <3>2, <3>3 DEF LoopKnows, Busy, Marking
  <2>6. CASE Deletes
    <3>1. /\ pc[loop] = "write" /\ Op = "remove" /\ pc'[loop] = "status"
          /\ Op' = Op /\ info'[loop] = info[loop] /\ ~Present(t)'
      BY <1>2, <1>a, <2>6 DEF Deletes, Goes, InfoKept, Present
    <3>2. QED
      BY <1>3, <1>4, <1>5, <3>1 DEF LoopKnows, Busy, Marking
  <2>7. CASE Unlinks \/ Passes
    <3>1. /\ UNCHANGED tasks /\ pc[loop] \in {"status", "instance"} /\ Op \notin {"get", "clear"}
          /\ pc'[loop] \in {"instance", "stats"} /\ (Op = "mark" => pc'[loop] = "stats")
          /\ Op' = Op /\ Arg' = Arg /\ After' = After /\ info'[loop] = info[loop]
          /\ Op = "mark" => pc[loop] = "status"
      BY <1>2, <2>7 DEF Unlinks, Passes, Goes, InfoKept
    <3>2. CASE Op = "register"
      BY <1>3, <1>4, <3>1, <3>2 DEF LoopKnows, Busy, Marking
    <3>3. CASE Op = "mark"
      BY <1>3, <1>4, <1>5, <3>1, <3>3 DEF LoopKnows, Busy, Marking
    <3>4. CASE Op = "remove"
      BY <1>3, <1>4, <1>5, <3>1, <3>4 DEF LoopKnows, Busy, Marking, Present
    <3>5. QED
      BY <1>2, <3>1, <3>2, <3>3, <3>4, LoopCall
  <2>8. QED
    BY <1>2, <1>7, <2>1, <2>2, <2>3, <2>4, <2>5, <2>6, <2>7
    DEF LoopCalling, CountsNew, Misses, CountsMark, Uncounts, Clears, ClearsIndex, ClearsCounts,
        Gets, LoopStops
<1>8. QED
  BY <1>2, <1>6, <1>7, LoopCall DEF LoopReturns

LEMMA LoopStays ==
    ASSUME IInv, MaxSubmissions <= 1, Next
    PROVE  LoopInv'
<1>1. CASE LoopStep
  BY <1>1, LoopMoves, BeginsKnowing, CallsKnowing DEF LoopInv
<1>2. ASSUME CleanerStep, NEW t \in Tasks, pc[loop] # "idle", Op # "clear", Task = t
      PROVE  LoopKnows(t)'
  <2>a. TypeInv /\ CallsInv /\ CleanerInv
    BY DEF IInv
  <2>1. /\ pc'[loop] = pc[loop] /\ info'[loop] = info[loop] /\ UNCHANGED submitted
        /\ Op' = Op /\ Arg' = Arg /\ After' = After
    BY <1>2, <2>a, CleanerKeepsLoop, SameCall DEF LoopKept, handlerVars
  <2>2. LoopKnows(t)
    BY <1>2 DEF IInv, LoopInv
  <2>3. Past(t) => Past(t)'
    BY <1>2, PastStep, CleanerNext
  <2>4. tasks'[t] = tasks[t] \/ (tasks'[t] = NoEntry /\ Past(t) /\ Past(t)')
    BY <1>2, <2>3, CleanerEntries
  <2>5. Past(t) => tasks[t].status \notin {"queued", "scheduled"}
    BY DEF Past
  <2>6. CASE tasks'[t] = tasks[t]
    BY <2>1, <2>2, <2>3, <2>6 DEF LoopKnows, Busy, Marking, Present
  <2>7. CASE tasks'[t] = NoEntry /\ Past(t) /\ Past(t)'
    <3>1. /\ ~Busy("register", {"status", "instance", "stats"})
          /\ ~Marking("scheduled", {"contains", "fetch", "write", "status", "stats"})
      BY <2>2, <2>5, <2>7 DEF LoopKnows, Busy, Marking
    <3>2. Marking("completed", {"write"}) => info[loop].status # "scheduled"
      BY <2>2, <2>5, <2>7 DEF LoopKnows
    <3>3. QED
      BY <2>1, <2>2, <2>7, <3>1, <3>2 DEF LoopKnows, Busy, Marking, Present
  <2>8. QED
    BY <2>4, <2>6, <2>7
<1>3. CASE CleanerStep
  <2>1. pc'[loop] = pc[loop] /\ Op' = Op /\ Task' = Task
    BY <1>3, CleanerKeepsLoop, SameCall DEF LoopKept, IInv
  <2>2. QED
    BY <1>2, <1>3, <2>1 DEF LoopInv
<1>4. QED
  BY <1>1, <1>3, OneStep

-----------------------------------------------------------------------------
LEMMA ClearStays ==
    ASSUME IInv, Next
    PROVE  ClearInv' /\ ClearedInv'
<1>a. TypeInv /\ CallsInv /\ ClearInv /\ ClearedInv
  BY DEF IInv
<1>1. CASE LoopStep
  <2>1. CASE LoopCalling /\ pc[loop] # "idle" /\ calls[loop] \in LoopCalls
    <3>1. cleared' = cleared
      BY <2>1 DEF LoopCalling, handlerVars, Passes, Registers, Links, CountsNew, Finds, Fetches, Misses,
         Marks, CountsMark, Deletes, Unlinks, Uncounts, Clears, ClearsIndex, ClearsCounts, Gets
    <3>2. ASSUME pc'[loop] # "idle", Op' = "clear" PROVE Op = "clear" /\ ~LoopReturns /\ ~LoopStops
      <4>1. LoopReturns \/ LoopStops \/ \E section : Goes(section)
        BY <2>1 DEF LoopCalling, Passes, Registers, Links, CountsNew, Finds, Fetches, Misses, Marks,
           CountsMark, Deletes, Unlinks, Uncounts, Clears, ClearsIndex, ClearsCounts, Gets
      <4>2. ~LoopReturns /\ ~LoopStops
        BY <2>1, <3>2, LoopCall DEF LoopReturns, LoopStops
      <4>3. QED
        BY <3>2, <4>1, <4>2 DEF Goes
    <3>3. ClearedInv'
      BY <1>a, <2>1, <3>1, <3>2 DEF ClearedInv
    <3>4. ASSUME Clearing({"status", "instance", "stats"})', NEW t \in Tasks PROVE ~Present(t)'
      <4>1. Op = "clear" /\ ~LoopReturns /\ pc'[loop] \in {"status", "instance", "stats"}
        BY <3>2, <3>4 DEF Clearing, Busy
      <4>2. Clears \/ Passes \/ ClearsIndex
        BY <2>1, <4>1 DEF LoopCalling, Registers, Links, CountsNew, Finds, Fetches, Misses, Marks,
           CountsMark, Deletes, Unlinks, Uncounts, ClearsCounts, Gets
      <4>3. CASE Clears
        BY <4>3 DEF Clears, NoTasks, Present
      <4>4. CASE Passes \/ ClearsIndex
        BY <1>a, <4>1, <4>4 DEF Passes, ClearsIndex, ClearInv, Clearing, Busy, Present
      <4>5. QED
        BY <4>2, <4>3, <4>4
    <3>5. QED
      BY <3>3, <3>4 DEF ClearInv
  <2>2. CASE LoopBeginning
    BY <2>2 DEF LoopBeginning, Begins, Submits, Receives, Finishes, Notifies, BeginsClear,
       ClearInv, ClearedInv, Clearing, Busy
  <2>3. QED
    BY <1>1, <2>1, <2>2, LoopMoves
<1>2. CASE CleanerStep
  <2>1. pc'[loop] = pc[loop] /\ Op' = Op /\ UNCHANGED cleared
    BY <1>2, <1>a, CleanerKeepsLoop, SameCall DEF LoopKept, handlerVars
  <2>2. \A t \in Tasks : ~Present(t) => ~Present(t)'
    BY <1>2, CleanerEntries DEF Present
  <2>3. QED
    BY <1>a, <2>1, <2>2 DEF ClearInv, ClearedInv, Clearing, Busy
<1>3. QED
  BY <1>1, <1>2, OneStep

-----------------------------------------------------------------------------
(* How the statistics and the numbers of entries move.                       *)
LEMMA EntryMoves ==
    ASSUME TypeInv, NEW t \in Tasks, NEW e, \A u \in Tasks : tasks'[u] = IF u = t THEN e ELSE tasks[u],
           NEW s
    PROVE  /\ Cardinality(Having(s)) \in Nat
           /\ Cardinality(Having(s)') =
                 Cardinality(Having(s)) + One(e.status = s) - One(tasks[t].status = s)
<1>1. IsFiniteSet(Having(s)) /\ Cardinality(Having(s)) \in Nat
  BY LockFreeAssumption, FS_Subset, FS_CardinalityType DEF Having
<1>2. Having(s)' = IF e.status = s THEN Having(s) \cup {t} ELSE Having(s) \ {t}
  BY DEF Having
<1>3. t \in Having(s) <=> tasks[t].status = s
  BY DEF Having
<1>4. Cardinality(Having(s) \cup {t}) =
         IF t \in Having(s) THEN Cardinality(Having(s)) ELSE Cardinality(Having(s)) + 1
  BY <1>1, FS_AddElement
<1>5. Cardinality(Having(s) \ {t}) =
         IF t \in Having(s) THEN Cardinality(Having(s)) - 1 ELSE Cardinality(Having(s))
  BY <1>1, FS_RemoveElement
<1>6. CASE e.status = s
  BY <1>1, <1>2, <1>3, <1>4, <1>6 DEF One
<1>7. CASE e.status # s
  BY <1>1, <1>2, <1>3, <1>5, <1>7 DEF One
<1>8. QED
  BY <1>6, <1>7

LEMMA StatsType ==
    ASSUME TypeInv
    PROVE  stats \in Counts /\ \A s \in Statuses : stats[s] \in Int
  BY CountsCount DEF TypeInv, Counts

LEMMA NewCounted ==
    ASSUME TypeInv, CountsNew, NEW s \in Statuses
    PROVE  stats'[s] = stats[s] + One(s = "queued")
<1>1. stats \in Counts /\ stats[s] \in Int
  BY StatsType
<1> DEFINE c == [stats EXCEPT !["queued"] = stats["queued"] + 1]
<1>2. stats["queued"] + 1 \in Int
  BY StatsType DEF Statuses
<1>3. c \in Counts /\ c[s] = IF s = "queued" THEN stats["queued"] + 1 ELSE stats[s]
  BY <1>1, <1>2, CountSet DEF Statuses
<1>4. \/ stats' = [c EXCEPT !.total_tasks = stats.total_tasks + 1]
      \/ stats' = [c EXCEPT !.total_tasks = stats.total_tasks]
  BY Zenon DEF CountsNew
<1> HIDE DEF c
<1>5. stats.total_tasks + 1 \in Int /\ stats.total_tasks \in Int
  BY <1>1, CountsCount
<1>6. stats'[s] = c[s]
  BY <1>3, <1>4, <1>5, TotalSet
<1>7. QED
  BY <1>1, <1>3, <1>6 DEF One

LEMMA RemovalCounted ==
    ASSUME TypeInv, NEW th \in Threads, info[th].status = "completed",
           stats' = [stats EXCEPT !.total_tasks = @ - 1, ![info[th].status] = @ - 1],
           NEW s \in Statuses
    PROVE  stats'[s] = stats[s] - One(s = "completed")
<1>1. stats \in Counts /\ stats[s] \in Int
  BY StatsType
<1> DEFINE c == [stats EXCEPT !.total_tasks = stats.total_tasks - 1]
<1>2. stats.total_tasks - 1 \in Int
  BY <1>1, CountsCount
<1>3. c \in Counts /\ c[s] = stats[s]
  BY <1>1, <1>2, TotalSet
<1>4. stats' = [c EXCEPT ![info[th].status] = stats[info[th].status] - 1]
  BY Zenon
<1> HIDE DEF c
<1>5. stats["completed"] - 1 \in Int
  BY StatsType DEF Statuses
<1>a. stats' = [c EXCEPT !["completed"] = stats["completed"] - 1]
  BY <1>4
<1>6. stats'[s] = IF s = "completed" THEN stats["completed"] - 1 ELSE c[s]
  <2>1. "completed" \in Statuses
    BY DEF Statuses
  <2>2. QED
    BY <1>3, <1>a, CountsCount
<1>7. QED
  BY <1>1, <1>3, <1>6 DEF One

LEMMA MarkCounted ==
    ASSUME TypeInv, CountsMark, Arg \in Statuses, OldStatus(loop) \in Statuses, NEW s \in Statuses
    PROVE  stats'[s] = stats[s] + One(s = Arg)
                         - One(s = OldStatus(loop) /\ OldStatus(loop) # "completed")
<1>1. stats \in Counts /\ stats[s] \in Int /\ stats[OldStatus(loop)] - 1 \in Int
  BY StatsType
<1> DEFINE less == ActiveLess(stats, OldStatus(loop))
<1>2. /\ less \in Counts
      /\ \A r \in Statuses :
            less[r] = stats[r] - One(r = OldStatus(loop) /\ OldStatus(loop) # "completed")
  <2>1. CASE OldStatus(loop) = "completed"
    BY <1>1, <2>1, StatsType DEF ActiveLess, One
  <2>2. CASE OldStatus(loop) # "completed"
    <3>0. PICK n \in Int : n = stats[OldStatus(loop)] - 1
      BY <1>1
    <3>1. less = [stats EXCEPT ![OldStatus(loop)] = n]
      BY <2>2, <3>0, Zenon DEF ActiveLess
    <3>2. /\ less \in Counts
          /\ \A r \in Statuses : less[r] = IF r = OldStatus(loop) THEN n ELSE stats[r]
      BY <1>1, <3>1, CountSet, CountsCount
    <3>3. QED
      BY <2>2, <3>0, <3>2, StatsType DEF One
  <2>3. QED
    BY <2>1, <2>2
<1>3. stats' = [less EXCEPT ![Arg] = less[Arg] + 1]
  BY Zenon DEF CountsMark
<1> HIDE DEF less
<1>4. less[Arg] + 1 \in Int /\ less[s] \in Int
  BY <1>2, CountsCount
<1>5. stats'[s] = IF s = Arg THEN less[Arg] + 1 ELSE less[s]
  BY <1>2, <1>3, <1>4, CountSet
<1>6. stats'[s] = less[s] + One(s = Arg)
  BY <1>4, <1>5 DEF One
<1>7. less[s] = stats[s] - One(s = OldStatus(loop) /\ OldStatus(loop) # "completed")
  BY <1>2
<1>8. QED
  BY <1>1, <1>6, <1>7 DEF One

-----------------------------------------------------------------------------
(* Outside the sections that follow a write, the event loop has nothing in   *)
(* hand that the statistics are still to count.                              *)
LEMMA NothingInHand ==
    ASSUME NEW s
    PROVE  /\ pc[loop] \notin {"status", "instance", "stats"} => Late(s) = 0 /\ Early(s) = 0
           /\ pc'[loop] \notin {"status", "instance", "stats"} => Late(s)' = 0 /\ Early(s)' = 0
           /\ Late(s) \in {0, 1} /\ Early(s) \in {0, 1}
  BY DEF Late, Early, Busy, Marking, One

LEMMA ReturnsOutside ==
    ASSUME LoopReturns \/ LoopStops, calls[loop] \in LoopCalls
    PROVE  pc'[loop] \in {"idle", "contains"}
  BY LoopCall DEF LoopReturns, LoopStops

LEMMA SameInHand ==
    ASSUME NEW s, Op' = Op, Task' = Task, Arg' = Arg, info'[loop] = info[loop],
           pc'[loop] = pc[loop] \/ (pc[loop] = "status" /\ pc'[loop] = "stats")
    PROVE  Late(s)' = Late(s) /\ Early(s)' = Early(s)
<1>1. OldStatus(loop)' = OldStatus(loop)
  BY DEF OldStatus, Arg
<1>2. QED
  BY <1>1 DEF Late, Early, Busy, Marking

(* An entry that is past is not counted as queued or scheduled.              *)
LEMMA DeletionKeepsActive ==
    ASSUME TypeInv, NEW t \in Tasks, Past(t), tasks' = [tasks EXCEPT ![t] = NoEntry],
           NEW s \in {"queued", "scheduled"}
    PROVE  Cardinality(Having(s)') = Cardinality(Having(s))
<1>1. Having(s)' = Having(s)
  BY DEF TypeInv, Having, Past, NoEntry
<1>2. QED
  BY <1>1

LEMMA ActiveLoopStays ==
    ASSUME IInv, LoopCalling, pc[loop] # "idle", calls[loop] \in LoopCalls,
           ~Clearing({"status", "instance", "stats"})',
           NEW s \in {"queued", "scheduled"}
    PROVE  stats'[s] + Late(s)' = Cardinality(Having(s)') + Early(s)'
<1>a. TypeInv /\ CallsInv /\ LoopInv
  BY DEF IInv
<1>b. s \in Statuses /\ stats[s] \in Int /\ Cardinality(Having(s)) \in Nat
  BY <1>a, StatsType, LockFreeAssumption, FS_Subset, FS_CardinalityType DEF Statuses, Having
<1>c. /\ Op \in {"register", "mark", "remove", "get", "clear"}
      /\ Op # "clear" => Task \in Tasks /\ LoopKnows(Task)
  BY <1>a, KnowsTask, LoopCall
<1>d. ~Clearing({"status", "instance", "stats"}) =>
         stats[s] + Late(s) = Cardinality(Having(s)) + Early(s)
  BY DEF IInv, ActiveInv
<1>e. UNCHANGED tasks => Having(s)' = Having(s)
  BY DEF Having
<1>1. CASE Passes \/ Links
  <2>1. ~Clearing({"status", "instance", "stats"})
    BY <1>1 DEF Passes, Links, Goes, Clearing, Busy
  <2>2. Late(s)' = Late(s) /\ Early(s)' = Early(s)
    BY <1>1 DEF Passes, Links, Goes, InfoKept, OldStatus, Late, Early, Busy, Marking, Arg
  <2>3. stats'[s] = stats[s] /\ Having(s)' = Having(s)
    BY <1>1, <1>e DEF Passes, Links
  <2>4. QED
    BY <1>d, <2>1, <2>2, <2>3
<1>2. CASE Registers
  <2>1. /\ Op = "register" /\ Task \in Tasks /\ tasks[Task] = NoEntry
        /\ stats[s] = Cardinality(Having(s))
    BY <1>2, <1>b, <1>c, <1>d, NothingInHand DEF Registers, LoopKnows, Busy, Clearing, Present
  <2>2. Late(s)' = One(s = "queued") /\ Early(s)' = 0
    BY <1>2 DEF Registers, Goes, Late, Early, Busy, Marking, One
  <2>3. PICK e : e = [status |-> "queued", instance |-> Arg]
    OBVIOUS
  <2>4. \A u \in Tasks : tasks'[u] = IF u = Task THEN e ELSE tasks[u]
    BY <1>2, <1>a, <2>3 DEF Registers, TypeInv
  <2>5. Cardinality(Having(s)') =
           Cardinality(Having(s)) + One(e.status = s) - One(tasks[Task].status = s)
    BY <1>a, <2>1, <2>4, EntryMoves
  <2>6. One(e.status = s) = One(s = "queued") /\ One(tasks[Task].status = s) = 0
    BY <2>1, <2>3 DEF One, NoEntry
  <2>7. stats'[s] = stats[s] /\ One(s = "queued") \in {0, 1}
    BY <1>2 DEF Registers, One
  <2>8. QED
    BY <1>b, <2>1, <2>2, <2>5, <2>6, <2>7
<1>3. CASE CountsNew
  <2>1. stats'[s] = stats[s] + One(s = "queued")
    BY <1>a, <1>b, <1>3, NewCounted
  <2>2. /\ Late(s) = One(s = "queued") /\ Early(s) = 0
        /\ ~Clearing({"status", "instance", "stats"})
    BY <1>3 DEF CountsNew, Late, Early, Busy, Marking, One, Clearing
  <2>3. Late(s)' = 0 /\ Early(s)' = 0 /\ Having(s)' = Having(s)
    BY <1>3, <1>e, ReturnsOutside, NothingInHand DEF CountsNew
  <2>4. One(s = "queued") \in {0, 1}
    BY DEF One
  <2>5. QED
    BY <1>b, <1>d, <2>1, <2>2, <2>3, <2>4
<1>4. CASE Finds \/ Fetches \/ Misses \/ Gets
  <2>1. /\ pc[loop] \notin {"status", "instance", "stats"}
        /\ pc'[loop] \notin {"status", "instance", "stats"}
        /\ ~Clearing({"status", "instance", "stats"})
        /\ UNCHANGED <<tasks, stats>>
    BY <1>4, ReturnsOutside DEF Finds, Fetches, Misses, Gets, Goes, Clearing, Busy
  <2>2. QED
    BY <1>b, <1>d, <1>e, <2>1, NothingInHand
<1>5. CASE Marks
  <2>1. /\ Op = "mark" /\ Task \in Tasks /\ Arg \in {"scheduled", "completed"}
        /\ \A t \in Tasks : tasks'[t] = IF t = Task THEN tasks'[Task] ELSE tasks[t]
        /\ tasks'[Task].status = Arg
    BY <1>5, MarkedEntry DEF Marks
  <2>2. stats[s] = Cardinality(Having(s))
    BY <1>5, <1>b, <1>d, NothingInHand DEF Marks, Clearing, Busy
  <2>3. Late(s)' = One(s = Arg) /\ Early(s)' = One(OldStatus(loop) = s)
    <3>1. OldStatus(loop)' = OldStatus(loop)
      BY <1>5 DEF Marks, Goes, InfoKept, OldStatus, Arg
    <3>2. Early(s)' = One(OldStatus(loop) = s)
      BY <1>5, <3>1 DEF Marks, Goes, Early, Busy, One
    <3>3. Late(s)' = One(s = Arg)
      BY <1>5, <2>1 DEF Marks, Goes, Late, Busy, Marking, One
    <3>4. QED
      BY <3>2, <3>3
  <2>4. Cardinality(Having(s)') =
           Cardinality(Having(s)) + One(Arg = s) - One(tasks[Task].status = s)
    <3>1. PICK e : e = tasks'[Task]
      OBVIOUS
    <3>2. \A t \in Tasks : tasks'[t] = IF t = Task THEN e ELSE tasks[t]
      BY <2>1, <3>1
    <3>3. Cardinality(Having(s)') =
             Cardinality(Having(s)) + One(e.status = s) - One(tasks[Task].status = s)
      BY <1>a, <2>1, <3>2, EntryMoves
    <3>4. QED
      BY <2>1, <3>1, <3>3
  <2>5. tasks[Task].status = s <=> OldStatus(loop) = s
    <3>1. CASE Arg = "scheduled"
      BY <1>5, <1>c, <3>1 DEF Marks, LoopKnows, Busy, Marking, OldStatus, Arg
    <3>2. CASE Arg = "completed"
      BY <1>5, <1>c, <3>2 DEF Marks, LoopKnows, Busy, Marking, OldStatus, Arg, Past
    <3>3. QED
      BY <2>1, <3>1, <3>2
  <2>6. /\ One(s = Arg) = One(Arg = s) /\ One(s = Arg) \in {0, 1}
        /\ One(tasks[Task].status = s) = One(OldStatus(loop) = s)
        /\ One(OldStatus(loop) = s) \in {0, 1}
    BY <2>5 DEF One
  <2>7. stats'[s] = stats[s]
    BY <1>5 DEF Marks
  <2>8. QED
    BY <1>b, <2>2, <2>3, <2>4, <2>6, <2>7
<1>6. CASE CountsMark
  <2>1. Arg \in Statuses /\ OldStatus(loop) \in Statuses /\ Arg \in {"scheduled", "completed"}
    <3>1. Arg \in {"scheduled", "completed"}
      BY <1>6, LoopCall DEF CountsMark
    <3>2. Arg = "completed" => info[loop].status \in {"scheduled", "completed"}
      BY <1>6, <1>c DEF CountsMark, LoopKnows, Busy, Marking
    <3>3. QED
      BY <3>1, <3>2 DEF Statuses, OldStatus, Arg
  <2>2. stats'[s] = stats[s] + One(s = Arg)
                         - One(s = OldStatus(loop) /\ OldStatus(loop) # "completed")
    BY <1>a, <1>b, <1>6, <2>1, MarkCounted
  <2>3. /\ Late(s) = One(s = Arg)
        /\ Early(s) = One(s = OldStatus(loop) /\ OldStatus(loop) # "completed")
        /\ ~Clearing({"status", "instance", "stats"})
    BY <1>6, <2>1 DEF CountsMark, Late, Early, Busy, Marking, One, Clearing
  <2>4. Late(s)' = 0 /\ Early(s)' = 0 /\ Having(s)' = Having(s)
    BY <1>6, <1>e, ReturnsOutside, NothingInHand DEF CountsMark
  <2>5. Late(s) \in {0, 1} /\ Early(s) \in {0, 1}
    BY NothingInHand
  <2>6. QED
    BY <1>b, <1>d, <2>2, <2>3, <2>4, <2>5
<1>7. CASE Deletes
  <2>1. /\ Op = "remove" /\ Task \in Tasks /\ Past(Task)
        /\ stats[s] = Cardinality(Having(s)) /\ stats'[s] = stats[s]
    BY <1>7, <1>b, <1>c, <1>d, NothingInHand DEF Deletes, LoopKnows, Clearing, Busy
  <2>2. Cardinality(Having(s)') = Cardinality(Having(s))
    BY <1>7, <1>a, <2>1, DeletionKeepsActive DEF Deletes
  <2>3. Late(s)' = 0 /\ Early(s)' = 0
    BY <1>7 DEF Deletes, Goes, Late, Early, Busy, Marking, One
  <2>4. QED
    BY <1>b, <2>1, <2>2, <2>3
<1>8. CASE Unlinks
  BY <1>8, <1>b, <1>d, <1>e DEF Unlinks, Goes, Late, Early, Busy, Marking, One, Clearing
<1>9. CASE Uncounts
  <2>1. stats'[s] = stats[s]
    <3>1. info[loop].status = "completed"
      BY <1>9, <1>c DEF Uncounts, LoopKnows, Busy
    <3>2. stats'[s] = stats[s] - One(s = "completed")
      BY <1>9, <1>a, <1>b, <3>1, RemovalCounted, TwoThreads DEF Uncounts
    <3>3. QED
      BY <1>b, <3>2 DEF One
  <2>2. Late(s) = 0 /\ Early(s) = 0 /\ ~Clearing({"status", "instance", "stats"})
    BY <1>9 DEF Uncounts, Late, Early, Busy, Marking, One, Clearing
  <2>3. Late(s)' = 0 /\ Early(s)' = 0 /\ Having(s)' = Having(s)
    BY <1>9, <1>e, ReturnsOutside, NothingInHand DEF Uncounts
  <2>4. QED
    BY <1>d, <2>1, <2>2, <2>3
<1>10. CASE Clears \/ ClearsIndex
  BY <1>10 DEF Clears, ClearsIndex, Goes, Clearing, Busy
<1>11. CASE ClearsCounts
  <2>1. Having(s) = {}
    BY <1>11 DEF ClearsCounts, IInv, ClearInv, Clearing, Busy, Present, Having, NoEntry
  <2>2. Cardinality(Having(s)') = 0
    BY <1>11, <1>e, <2>1, FS_EmptySet DEF ClearsCounts
  <2>3. stats'[s] = 0
    BY <1>11 DEF ClearsCounts, NoStats
  <2>4. Late(s)' = 0 /\ Early(s)' = 0
    BY <1>11, ReturnsOutside, NothingInHand DEF ClearsCounts
  <2>5. QED
    BY <2>2, <2>3, <2>4
<1>12. QED
  BY <1>1, <1>2, <1>3, <1>4, <1>5, <1>6, <1>7, <1>8, <1>9, <1>10, <1>11 DEF LoopCalling

(* The cleanup changes neither the numbers of queued and scheduled entries   *)
(* nor their statistics.                                                     *)
LEMMA CleanerKeepsActive ==
    ASSUME IInv, CleanerStep, NEW s \in {"queued", "scheduled"}
    PROVE  stats'[s] = stats[s] /\ Cardinality(Having(s)') = Cardinality(Having(s))
<1>a. TypeInv /\ CallsInv /\ CleanerInv
  BY DEF IInv
<1>1. CASE CleanerDeletes
  <2>1. TaskOf(cleaner) \in Tasks /\ Past(TaskOf(cleaner))
    <3>1. calls[cleaner] # <<>>
      BY <1>1, <1>a DEF CleanerDeletes, CallsInv
    <3>2. QED
      BY <1>a, <3>1, CleanerPast
  <2>2. QED
    BY <1>1, <1>a, <2>1, DeletionKeepsActive DEF CleanerDeletes
<1>2. CASE CleanerUnlinks \/ CleanerElse
  <2>1. UNCHANGED <<tasks, stats>>
    BY <1>2 DEF CleanerUnlinks, CleanerElse
  <2>2. QED
    BY <2>1 DEF Having
<1>3. CASE CleanerUncounts
  <2>1. info[cleaner].status = "completed"
    BY <1>3, <1>a DEF CleanerUncounts, CleanerInv
  <2>2. s \in Statuses /\ stats[s] \in Int
    BY <1>a, StatsType DEF Statuses
  <2>3. stats'[s] = stats[s] - One(s = "completed")
    BY <1>3, <1>a, <2>1, <2>2, RemovalCounted, TwoThreads DEF CleanerUncounts
  <2>4. stats'[s] = stats[s]
    BY <2>2, <2>3 DEF One
  <2>5. Having(s)' = Having(s)
    BY <1>3 DEF CleanerUncounts, Having
  <2>6. QED
    BY <2>4, <2>5
<1>4. QED
  BY <1>1, <1>2, <1>3, CleanerMoves

LEMMA ActiveStays ==
    ASSUME IInv, MaxSubmissions <= 1, Next
    PROVE  ActiveInv'
<1>1. CASE LoopStep
  <2>1. CASE LoopCalling /\ pc[loop] # "idle" /\ calls[loop] \in LoopCalls
    BY <2>1, ActiveLoopStays DEF ActiveInv
  <2>2. CASE LoopBeginning
    <3>1. /\ UNCHANGED <<tasks, stats>>
          /\ pc[loop] \notin {"status", "instance", "stats"}
          /\ pc'[loop] \notin {"status", "instance", "stats"}
      BY <2>2 DEF LoopBeginning, Begins, Submits, Receives, Finishes, Notifies, BeginsClear
    <3>2. \A s \in {"queued", "scheduled"} : stats[s] + Late(s) = Cardinality(Having(s)) + Early(s)
      BY <3>1 DEF IInv, ActiveInv, Clearing, Busy
    <3>3. \A s : Having(s)' = Having(s)
      BY <3>1 DEF Having
    <3>4. QED
      BY <3>1, <3>2, <3>3, NothingInHand DEF ActiveInv
  <2>3. QED
    BY <1>1, <2>1, <2>2, LoopMoves
<1>2. CASE CleanerStep
  <2>a. TypeInv /\ CallsInv /\ CleanerInv
    BY DEF IInv
  <2>1. /\ pc'[loop] = pc[loop] /\ info'[loop] = info[loop]
        /\ Op' = Op /\ Task' = Task /\ Arg' = Arg
    BY <1>2, <2>a, CleanerKeepsLoop, SameCall DEF LoopKept
  <2>2. \A s : Late(s)' = Late(s) /\ Early(s)' = Early(s)
    BY <2>1, SameInHand
  <2>3. Clearing({"status", "instance", "stats"})' <=> Clearing({"status", "instance", "stats"})
    BY <2>1 DEF Clearing, Busy
  <2>4. \A s \in {"queued", "scheduled"} :
           stats'[s] = stats[s] /\ Cardinality(Having(s)') = Cardinality(Having(s))
    BY <1>2, CleanerKeepsActive
  <2>5. QED
    BY <2>2, <2>3, <2>4 DEF IInv, ActiveInv
<1>3. QED
  BY <1>1, <1>2, OneStep

(* The statistics of queued and scheduled tasks are never negative: an entry *)
(* that they are late for is there.                                          *)
LEMMA ActiveNatural ==
    ASSUME IInv, NEW s \in {"queued", "scheduled"}
    PROVE  stats[s] \in Nat
<1>a. TypeInv /\ CallsInv /\ LoopInv
  BY DEF IInv
<1>b. stats[s] \in Int /\ IsFiniteSet(Having(s)) /\ Cardinality(Having(s)) \in Nat
  BY <1>a, StatsType, LockFreeAssumption, FS_Subset, FS_CardinalityType DEF Statuses, Having
<1>1. CASE Clearing({"status", "instance", "stats"})
  BY <1>b, <1>1 DEF IInv, LeftInv
<1>2. CASE ~Clearing({"status", "instance", "stats"})
  <2>1. stats[s] + Late(s) = Cardinality(Having(s)) + Early(s)
    BY <1>2 DEF IInv, ActiveInv
  <2>2. Late(s) \in {0, 1} /\ Early(s) \in {0, 1}
    BY NothingInHand
  <2>3. CASE Late(s) = 1
    <3>1. /\ pc[loop] # "idle" /\ Op # "clear"
          /\ \/ s = "queued" /\ Busy("register", {"status", "instance", "stats"})
             \/ s = "scheduled" /\ Marking("scheduled", {"status", "stats"})
      BY <2>3 DEF Late, One, Busy, Marking
    <3>2. Task \in Tasks /\ tasks[Task].status = s
      BY <1>a, <3>1, KnowsTask DEF LoopKnows
    <3>3. Having(s) # {}
      BY <3>2 DEF Having
    <3>4. Cardinality(Having(s)) # 0
      BY <1>b, <3>3, FS_EmptySet
    <3>5. QED
      BY <1>b, <2>1, <2>2, <2>3, <3>4
  <2>4. QED
    BY <1>b, <2>1, <2>2, <2>3
<1>3. QED
  BY <1>1, <1>2

LEMMA LeftStays ==
    ASSUME IInv, Next
    PROVE  LeftInv'
<1>1. SUFFICES ASSUME Clearing({"status", "instance", "stats"})', NEW s \in {"queued", "scheduled"}
               PROVE  stats'[s] = stats[s]
  BY ActiveNatural DEF LeftInv
<1>2. CASE LoopStep
  <2>1. CASE LoopCalling /\ pc[loop] # "idle" /\ calls[loop] \in LoopCalls
    <3>1. pc'[loop] \in {"status", "instance", "stats"} /\ Op' = "clear"
      BY <1>1 DEF Clearing, Busy
    <3>2. ~LoopReturns /\ ~LoopStops
      BY <2>1, <3>1, ReturnsOutside
    <3>3. QED
      BY <2>1, <3>1, <3>2 DEF LoopCalling, Passes, Registers, Links, CountsNew, Finds, Fetches,
         Misses, Marks, CountsMark, Deletes, Unlinks, Uncounts, Clears, ClearsIndex,
         ClearsCounts, Gets
  <2>2. CASE LoopBeginning
    BY <2>2 DEF LoopBeginning, Begins, Submits, Receives, Finishes, Notifies, BeginsClear
  <2>3. QED
    BY <1>2, <2>1, <2>2, LoopMoves
<1>3. CASE CleanerStep
  BY <1>3, CleanerKeepsActive
<1>4. QED
  BY <1>2, <1>3, OneStep

-----------------------------------------------------------------------------
(* How many completed entries there are, when a completed one goes.          *)
LEMMA DeletionCompleted ==
    ASSUME TypeInv, NEW t \in Tasks, Past(t), Present(t), tasks' = [tasks EXCEPT ![t] = NoEntry]
    PROVE  Cardinality(Having("completed")') = Cardinality(Having("completed")) - 1
<1>1. \A u \in Tasks : tasks'[u] = IF u = t THEN NoEntry ELSE tasks[u]
  BY DEF TypeInv
<1>2. /\ Cardinality(Having("completed")) \in Nat
      /\ Cardinality(Having("completed")') =
            Cardinality(Having("completed")) + One(NoEntry.status = "completed")
               - One(tasks[t].status = "completed")
  BY <1>1, EntryMoves
<1>3. One(NoEntry.status = "completed") = 0 /\ One(tasks[t].status = "completed") = 1
  BY PresentPast DEF One, NoEntry
<1>4. QED
  BY <1>2, <1>3

LEMMA CleanerRemoving ==
    /\ CallsInv => (Removing(cleaner) <=> pc[cleaner] \in {"status", "instance", "stats"})
    /\ CleanerAt' => (Removing(cleaner)' <=> pc'[cleaner] \in {"status", "instance", "stats"})
<1>1. ASSUME NEW s \in Seq(RemoveCalls), s # <<>> PROVE Head(s).op = "remove"
  <2>1. Head(s) \in RemoveCalls
    BY <1>1, HeadTailProperties
  <2>2. QED
    BY <2>1 DEF RemoveCalls
<1>2. CallsInv => (Removing(cleaner) <=> pc[cleaner] \in {"status", "instance", "stats"})
  BY <1>1 DEF CallsInv, Removing
<1>3. CleanerAt' => (Removing(cleaner)' <=> pc'[cleaner] \in {"status", "instance", "stats"})
  BY <1>1 DEF CleanerAt, Removing
<1>4. QED
  BY <1>2, <1>3

LEMMA CompletedLoopStays ==
    ASSUME IInv, LoopCalling, pc[loop] # "idle", calls[loop] \in LoopCalls, Op # "clear",
           NEW n \in Int,
           stats.completed + Late("completed") >=
               Cardinality(Having("completed")) + One(Removing(loop)) + n
    PROVE  stats'.completed + Late("completed")' >=
               Cardinality(Having("completed")') + One(Removing(loop)') + n
<1>a. TypeInv /\ CallsInv /\ LoopInv
  BY DEF IInv
<1>b. /\ stats.completed \in Int /\ Cardinality(Having("completed")) \in Nat
      /\ "completed" \in Statuses
  BY <1>a, StatsType, LockFreeAssumption, FS_Subset, FS_CardinalityType DEF Statuses, Having
<1>c. Op \in {"register", "mark", "remove", "get"} /\ Task \in Tasks /\ LoopKnows(Task)
  BY <1>a, KnowsTask, LoopCall
<1>d. UNCHANGED tasks => Having("completed")' = Having("completed")
  BY DEF Having
<1>e. Removing(loop) <=> pc[loop] \in {"status", "instance", "stats"} /\ Op = "remove"
  BY DEF Removing, Op
<1>f. Removing(loop)' <=> pc'[loop] \in {"status", "instance", "stats"} /\ Op' = "remove"
  BY DEF Removing, Op
<1>g. One(Removing(loop)) \in {0, 1}
  BY DEF One
<1>1. CASE Passes \/ Links
  <2>1. Late("completed")' = Late("completed")
    BY <1>1 DEF Passes, Links, Goes, Late, Busy, Marking
  <2>2. One(Removing(loop)') = One(Removing(loop))
    BY <1>1, <1>e, <1>f DEF Passes, Links, Goes, One
  <2>3. stats'.completed = stats.completed /\ Having("completed")' = Having("completed")
    BY <1>1, <1>d DEF Passes, Links
  <2>4. QED
    BY <2>1, <2>2, <2>3
<1>2. CASE Registers
  <2>1. tasks[Task] = NoEntry
    BY <1>2, <1>c DEF Registers, LoopKnows, Busy, Present
  <2>2. Having("completed")' = Having("completed")
    BY <1>2, <1>a, <2>1 DEF Registers, Having, TypeInv, NoEntry
  <2>3. /\ stats'.completed = stats.completed
        /\ Late("completed") = 0 /\ Late("completed")' = 0
        /\ One(Removing(loop)) = 0 /\ One(Removing(loop)') = 0
    BY <1>2, <1>e, <1>f DEF Registers, Goes, Late, Busy, Marking, One
  <2>4. QED
    BY <2>2, <2>3
<1>3. CASE CountsNew
  <2>1. stats'.completed = stats.completed
    <3>1. stats'["completed"] = stats["completed"] + One("completed" = "queued")
      BY <1>a, <1>b, <1>3, NewCounted
    <3>2. QED
      BY <1>b, <3>1 DEF One
  <2>2. /\ Late("completed") = 0 /\ Late("completed")' = 0
        /\ One(Removing(loop)) = 0 /\ One(Removing(loop)') = 0
    BY <1>3, <1>e, <1>f, ReturnsOutside DEF CountsNew, Late, Busy, Marking, One
  <2>3. Having("completed")' = Having("completed")
    BY <1>3, <1>d DEF CountsNew
  <2>4. QED
    BY <2>1, <2>2, <2>3
<1>4. CASE Finds \/ Fetches \/ Misses \/ Gets
  <2>1. /\ pc[loop] \notin {"status", "instance", "stats"}
        /\ pc'[loop] \notin {"status", "instance", "stats"}
        /\ UNCHANGED <<tasks, stats>>
    BY <1>4, ReturnsOutside DEF Finds, Fetches, Misses, Gets, Goes
  <2>2. One(Removing(loop)) = 0 /\ One(Removing(loop)') = 0
    BY <1>e, <1>f, <2>1 DEF One
  <2>3. Late("completed") = 0 /\ Late("completed")' = 0
    BY <2>1, NothingInHand
  <2>4. QED
    BY <1>d, <2>1, <2>2, <2>3
<1>5. CASE Marks
  <2>1. /\ Op = "mark" /\ Arg \in {"scheduled", "completed"}
        /\ \A t \in Tasks : tasks'[t] = IF t = Task THEN tasks'[Task] ELSE tasks[t]
        /\ tasks'[Task].status = Arg
    BY <1>5, MarkedEntry DEF Marks
  <2>2. /\ Late("completed") = 0 /\ Late("completed")' = One(Arg = "completed")
        /\ One(Removing(loop)) = 0 /\ One(Removing(loop)') = 0
    BY <1>5, <1>e, <1>f, <2>1 DEF Marks, Goes, Late, Busy, Marking, One
  <2>3. Cardinality(Having("completed")') =
           Cardinality(Having("completed")) + One(Arg = "completed")
              - One(tasks[Task].status = "completed")
    <3>1. PICK e : e = tasks'[Task]
      OBVIOUS
    <3>2. \A t \in Tasks : tasks'[t] = IF t = Task THEN e ELSE tasks[t]
      BY <2>1, <3>1
    <3>3. Cardinality(Having("completed")') =
             Cardinality(Having("completed")) + One(e.status = "completed")
                - One(tasks[Task].status = "completed")
      BY <1>a, <1>c, <3>2, EntryMoves
    <3>4. QED
      BY <2>1, <3>1, <3>3
  <2>4. One(Arg = "completed") \in {0, 1} /\ One(tasks[Task].status = "completed") \in {0, 1}
    BY DEF One
  <2>5. stats'.completed = stats.completed
    BY <1>5 DEF Marks
  <2>6. QED
    BY <1>b, <2>2, <2>3, <2>4, <2>5
<1>6. CASE CountsMark
  <2>1. Arg \in Statuses /\ OldStatus(loop) \in Statuses /\ Arg \in {"scheduled", "completed"}
    <3>1. Arg \in {"scheduled", "completed"}
      BY <1>6, LoopCall DEF CountsMark
    <3>2. Arg = "completed" => info[loop].status \in {"scheduled", "completed"}
      BY <1>6, <1>c DEF CountsMark, LoopKnows, Busy, Marking
    <3>3. QED
      BY <3>1, <3>2 DEF Statuses, OldStatus, Arg
  <2>2. stats'.completed = stats.completed + One(Arg = "completed")
    <3>1. stats'["completed"] = stats["completed"] + One("completed" = Arg)
             - One("completed" = OldStatus(loop) /\ OldStatus(loop) # "completed")
      BY <1>a, <1>b, <1>6, <2>1, MarkCounted
    <3>2. One("completed" = OldStatus(loop) /\ OldStatus(loop) # "completed") = 0
      BY DEF One
    <3>3. One("completed" = Arg) = One(Arg = "completed") /\ One(Arg = "completed") \in {0, 1}
      BY DEF One
    <3>4. QED
      BY <1>b, <3>1, <3>2, <3>3
  <2>3. /\ Late("completed") = One(Arg = "completed") /\ Late("completed")' = 0
        /\ One(Removing(loop)) = 0 /\ One(Removing(loop)') = 0
    BY <1>6, <1>e, <1>f, <2>1, ReturnsOutside DEF CountsMark, Late, Busy, Marking, One
  <2>4. Having("completed")' = Having("completed") /\ Late("completed") \in {0, 1}
    BY <1>6, <1>d, NothingInHand DEF CountsMark
  <2>5. QED
    BY <1>b, <2>2, <2>3, <2>4
<1>7. CASE Deletes
  <2>1. Op = "remove" /\ Past(Task) /\ Present(Task) /\ stats'.completed = stats.completed
    BY <1>7, <1>c DEF Deletes, LoopKnows
  <2>2. Cardinality(Having("completed")') = Cardinality(Having("completed")) - 1
    BY <1>7, <1>a, <1>c, <2>1, DeletionCompleted DEF Deletes
  <2>3. /\ Late("completed") = 0 /\ Late("completed")' = 0
        /\ One(Removing(loop)) = 0 /\ One(Removing(loop)') = 1
    BY <1>7, <1>e, <1>f DEF Deletes, Goes, Late, Busy, Marking, One
  <2>4. QED
    BY <1>b, <2>1, <2>2, <2>3
<1>8. CASE Unlinks
  <2>1. /\ Late("completed") = 0 /\ Late("completed")' = 0
        /\ One(Removing(loop)) = 1 /\ One(Removing(loop)') = 1
    BY <1>8, <1>e, <1>f DEF Unlinks, Goes, Late, Busy, Marking, One
  <2>2. QED
    BY <1>8, <1>d, <2>1 DEF Unlinks
<1>9. CASE Uncounts
  <2>1. stats'.completed = stats.completed - 1
    <3>1. info[loop].status = "completed"
      BY <1>9, <1>c DEF Uncounts, LoopKnows, Busy
    <3>2. stats'["completed"] = stats["completed"] - One("completed" = "completed")
      BY <1>9, <1>a, <1>b, <3>1, RemovalCounted, TwoThreads DEF Uncounts
    <3>3. QED
      BY <1>b, <3>2 DEF One
  <2>2. /\ Late("completed") = 0 /\ Late("completed")' = 0
        /\ One(Removing(loop)) = 1 /\ One(Removing(loop)') = 0
    BY <1>9, <1>e, <1>f, ReturnsOutside DEF Uncounts, Late, Busy, Marking, One
  <2>3. Having("completed")' = Having("completed")
    BY <1>9, <1>d DEF Uncounts
  <2>4. QED
    BY <1>b, <2>1, <2>2, <2>3
<1>10. QED
  BY <1>1, <1>2, <1>3, <1>4, <1>5, <1>6, <1>7, <1>8, <1>9
  DEF LoopCalling, Clears, ClearsIndex, ClearsCounts

LEMMA CompletedCleanerStays ==
    ASSUME IInv, CleanerStep, NEW n \in Int,
           stats.completed + n >= Cardinality(Having("completed")) + One(Removing(cleaner))
    PROVE  stats'.completed + n >=
               Cardinality(Having("completed")') + One(Removing(cleaner)')
<1>a. TypeInv /\ CallsInv /\ CleanerInv
  BY DEF IInv
<1>b. /\ stats.completed \in Int /\ Cardinality(Having("completed")) \in Nat
      /\ "completed" \in Statuses
  BY <1>a, StatsType, LockFreeAssumption, FS_Subset, FS_CardinalityType DEF Statuses, Having
<1>c. /\ Removing(cleaner) <=> pc[cleaner] \in {"status", "instance", "stats"}
      /\ Removing(cleaner)' <=> pc'[cleaner] \in {"status", "instance", "stats"}
  BY <1>a, CleanerRemoving, CleanerMoves
<1>d. UNCHANGED tasks => Having("completed")' = Having("completed")
  BY DEF Having
<1>1. CASE CleanerDeletes
  <2>1. TaskOf(cleaner) \in Tasks /\ Past(TaskOf(cleaner))
    <3>1. calls[cleaner] # <<>>
      BY <1>1, <1>a DEF CleanerDeletes, CallsInv
    <3>2. QED
      BY <1>a, <3>1, CleanerPast
  <2>2. Cardinality(Having("completed")') = Cardinality(Having("completed")) - 1
    BY <1>1, <1>a, <2>1, DeletionCompleted DEF CleanerDeletes
  <2>3. /\ One(Removing(cleaner)) = 0 /\ One(Removing(cleaner)') = 1
        /\ stats'.completed = stats.completed
    BY <1>1, <1>c DEF CleanerDeletes, One
  <2>4. QED
    BY <1>b, <2>2, <2>3
<1>2. CASE CleanerUnlinks \/ CleanerElse
  <2>1. One(Removing(cleaner)') = One(Removing(cleaner))
    BY <1>2, <1>c DEF CleanerUnlinks, CleanerElse, One
  <2>2. UNCHANGED <<tasks, stats>>
    BY <1>2 DEF CleanerUnlinks, CleanerElse
  <2>3. QED
    BY <1>d, <2>1, <2>2
<1>3. CASE CleanerUncounts
  <2>1. info[cleaner].status = "completed"
    BY <1>3, <1>a DEF CleanerUncounts, CleanerInv
  <2>2. stats'["completed"] = stats["completed"] - One("completed" = "completed")
    BY <1>3, <1>a, <1>b, <2>1, RemovalCounted, TwoThreads DEF CleanerUncounts
  <2>3. One(Removing(cleaner)) = 1 /\ One(Removing(cleaner)') = 0
    BY <1>3, <1>c DEF CleanerUncounts, One
  <2>4. Having("completed")' = Having("completed")
    BY <1>3, <1>d DEF CleanerUncounts
  <2>5. stats'.completed = stats.completed - 1
    BY <1>b, <2>2 DEF One
  <2>6. QED
    BY <1>b, <2>3, <2>4, <2>5
<1>4. QED
  BY <1>1, <1>2, <1>3, CleanerMoves

LEMMA CompletedStays ==
    ASSUME IInv, MaxSubmissions <= 1, Next
    PROVE  CompletedInv'
<1>a. TypeInv /\ CallsInv /\ CompletedInv /\ ClearedInv
  BY DEF IInv
<1>b. /\ One(Removing(loop)) \in Int /\ One(Removing(cleaner)) \in Int
      /\ Late("completed") \in Int
      /\ stats.completed \in Int /\ Cardinality(Having("completed")) \in Nat
  BY <1>a, StatsType, NothingInHand, LockFreeAssumption, FS_Subset, FS_CardinalityType
  DEF One, Statuses, Having
<1>1. CASE LoopStep
  <2>1. One(Removing(cleaner)') = One(Removing(cleaner))
    BY <1>1, <1>a, LoopKeepsCleaner DEF CleanerKept, Removing
  <2>2. CASE LoopCalling /\ pc[loop] # "idle" /\ calls[loop] \in LoopCalls
    <3>1. cleared' = cleared
      BY <2>2 DEF LoopCalling, handlerVars, Passes, Registers, Links, CountsNew, Finds, Fetches,
         Misses, Marks, CountsMark, Deletes, Unlinks, Uncounts, Clears, ClearsIndex,
         ClearsCounts, Gets
    <3>2. ASSUME ~cleared
          PROVE  stats'.completed + Late("completed")' >=
                     Cardinality(Having("completed")') + One(Removing(loop)')
                        + One(Removing(cleaner))
      <4>1. Op # "clear"
        BY <1>a, <2>2, <3>2 DEF ClearedInv
      <4>2. QED
        BY <1>a, <1>b, <2>2, <3>2, <4>1, CompletedLoopStays DEF CompletedInv
    <3>3. QED
      BY <2>1, <3>1, <3>2 DEF CompletedInv
  <2>3. CASE LoopBeginning
    <3>1. /\ UNCHANGED <<tasks, stats>> /\ (cleared => cleared')
          /\ pc[loop] \notin {"status", "instance", "stats"}
          /\ pc'[loop] \notin {"status", "instance", "stats"}
      BY <2>3 DEF LoopBeginning, Begins, Submits, Receives, Finishes, Notifies, BeginsClear
    <3>2. One(Removing(loop)) = 0 /\ One(Removing(loop)') = 0
      BY <3>1 DEF Removing, One
    <3>3. Late("completed") = 0 /\ Late("completed")' = 0
      BY <3>1, NothingInHand
    <3>4. Having("completed")' = Having("completed")
      BY <3>1 DEF Having
    <3>5. QED
      BY <1>a, <2>1, <3>1, <3>2, <3>3, <3>4 DEF CompletedInv
  <2>4. QED
    BY <1>1, <2>2, <2>3, LoopMoves
<1>2. CASE CleanerStep
  <2>1. /\ pc'[loop] = pc[loop] /\ calls'[loop] = calls[loop] /\ info'[loop] = info[loop]
        /\ Op' = Op /\ Task' = Task /\ Arg' = Arg /\ UNCHANGED cleared
    BY <1>2, <1>a, CleanerKeepsLoop, SameCall DEF LoopKept, handlerVars
  <2>2. Late("completed")' = Late("completed") /\ One(Removing(loop)') = One(Removing(loop))
    BY <2>1, SameInHand DEF Removing
  <2>3. PICK n \in Int : n = Late("completed") - One(Removing(loop))
    BY <1>b
  <2>4. ASSUME ~cleared
        PROVE  stats'.completed + n >=
                   Cardinality(Having("completed")') + One(Removing(cleaner)')
    <3>1. stats.completed + n >= Cardinality(Having("completed")) + One(Removing(cleaner))
      BY <1>a, <1>b, <2>3, <2>4 DEF CompletedInv
    <3>2. QED
      BY <1>2, <3>1, CompletedCleanerStays
  <2>5. /\ stats'.completed \in Int /\ Cardinality(Having("completed")') \in Int
        /\ One(Removing(cleaner)') \in Int
    <3>1. TypeInv'
      BY <1>2, CleanerNext, TypeStep
    <3>2. IsFiniteSet(Having("completed")')
      BY LockFreeAssumption, FS_Subset DEF Having
    <3>3. QED
      BY <3>1, <3>2, FS_CardinalityType DEF TypeInv, One
  <2>6. QED
    BY <1>b, <2>1, <2>2, <2>3, <2>4, <2>5 DEF CompletedInv
<1>3. QED
  BY <1>1, <1>2, OneStep

-----------------------------------------------------------------------------
(* The event loop has a call of a handler to make.                           *)
LEMMA SomeCall == calls[loop] \in LoopCalls => calls[loop] # <<>>
  BY OneCall, TwoCalls, ThreeCalls
  DEF LoopCalls, Submission, ResultStored, Notification, Removal

(* A call of the event loop keeps the instances of the tasks.                *)
LEMMA CallsKeepHomes ==
    ASSUME IInv, LoopStep, LoopCalling, pc[loop] # "idle", calls[loop] \in LoopCalls,
           NEW home \in [Tasks -> Instances \cup {NoInstance}], HomesAre(home)
    PROVE  HomesAre(home)'
<1>a. TypeInv /\ CallsInv /\ LoopInv
  BY DEF IInv
<1>b. Op # "clear" => Task \in Tasks /\ LoopKnows(Task)
  BY <1>a, KnowsTask
<1>c. calls[loop] # <<>>
  BY SomeCall
<1>d. Task = TaskOf(loop) /\ Task' = TaskOf(loop)'
  BY DEF Task
<1>1. ASSUME NEW t \in Tasks, Present(t)' PROVE tasks'[t].instance = home[t]
  <2>1. CASE tasks'[t] = tasks[t]
    BY <1>1, <2>1 DEF HomesAre, Present
  <2>2. CASE Registers /\ t = Task /\ tasks'[t] = [status |-> "queued", instance |-> Arg]
    BY <2>2 DEF HomesAre, Registers
  <2>3. CASE Marks /\ t = Task /\ tasks'[t].instance = info[loop].instance
    <3>1. info[loop] # NoEntry
      BY <2>3, <1>b DEF Marks, LoopKnows, Busy
    <3>2. QED
      BY <1>c, <1>d, <2>3, <3>1, TwoThreads DEF HomesAre
  <2>4. QED
    BY <1>1, <2>1, <2>2, <2>3, LoopEntries DEF Present
<1>2. ASSUME NEW t \in Tasks, NEW i \in Instances, t \in instanceIndex'[i] PROVE i = home[t]
  <2>1. CASE UNCHANGED instanceIndex
    BY <1>2, <2>1 DEF HomesAre
  <2>2. CASE Links
    <3>1. t \in instanceIndex[i] \/ (t = Task /\ i = Arg)
      BY <1>2, <1>a, <2>2 DEF Links, TypeInv
    <3>2. QED
      BY <2>2, <3>1 DEF HomesAre, Links
  <2>3. CASE Unlinks
    <3>1. t \in instanceIndex[i]
      BY <1>2, <1>a, <2>3 DEF Unlinks, TypeInv
    <3>2. QED
      BY <3>1 DEF HomesAre
  <2>4. CASE ClearsIndex
    BY <1>2, <2>4 DEF ClearsIndex, NoInstances
  <2>5. QED
    BY <2>1, <2>2, <2>3, <2>4, LoopChanges
<1>3. LoopReturns \/ LoopStops \/ \E section : Goes(section)
  BY DEF LoopCalling, Passes, Registers, Links, CountsNew, Finds, Fetches, Misses, Marks,
     CountsMark, Deletes, Unlinks, Uncounts, Clears, ClearsIndex, ClearsCounts, Gets
<1>4. ASSUME pc'[loop] # "idle", Op' = "register" PROVE Arg' = home[Task']
  <2>1. \E section : Goes(section)
    BY <1>3, <1>4, LoopCall DEF LoopReturns, LoopStops
  <2>2. QED
    BY <1>4, <2>1 DEF Goes, HomesAre
<1>5. ASSUME info'[loop] # NoEntry PROVE info'[loop].instance = home[Task']
  <2>1. \E section : Goes(section)
    BY <1>3, <1>5 DEF LoopReturns, LoopStops
  <2>2. Task' = Task
    BY <2>1 DEF Goes
  <2>3. CASE InfoKept
    BY <1>c, <1>d, <1>5, <2>2, <2>3, TwoThreads DEF HomesAre, InfoKept
  <2>4. CASE Registers
    BY <1>b, <1>5, <2>4 DEF Registers, LoopKnows, Busy, Present
  <2>5. CASE Fetches
    BY <1>b, <2>2, <2>5 DEF Fetches, HomesAre
  <2>6. InfoKept \/ Registers \/ Fetches
    BY <1>5 DEF LoopCalling, Passes, Links, CountsNew, Finds, Misses, Marks, LoopReturns,
       LoopStops, CountsMark, Deletes, Unlinks, Uncounts, Clears, ClearsIndex, ClearsCounts, Gets
  <2>7. QED
    BY <2>3, <2>4, <2>5, <2>6
<1>6. ASSUME calls'[cleaner] # <<>>, info'[cleaner] # NoEntry
      PROVE  info'[cleaner].instance = home[TaskOf(cleaner)']
  <2>1. calls'[cleaner] = calls[cleaner] /\ info'[cleaner] = info[cleaner]
    BY <1>a, LoopKeepsCleaner DEF CleanerKept
  <2>2. QED
    BY <1>6, <2>1, TwoThreads DEF HomesAre, TaskOf
<1>7. QED
  BY <1>d, <1>1, <1>2, <1>4, <1>5, <1>6, TwoThreads DEF HomesAre

(* A task gets its instance when it is submitted, before anything else is    *)
(* known of it.                                                              *)
LEMMA BeginningKeepsHomes ==
    ASSUME IInv, MaxSubmissions <= 1, LoopStep, LoopBeginning,
           NEW home \in [Tasks -> Instances \cup {NoInstance}], HomesAre(home)
    PROVE  HomeInv'
<1>a. TypeInv /\ CallsInv /\ CleanerInv /\ FreshInv
  BY DEF IInv
<1>b. /\ calls'[cleaner] = calls[cleaner] /\ info'[cleaner] = info[cleaner]
      /\ TaskOf(cleaner)' = TaskOf(cleaner)
  BY <1>a, LoopKeepsCleaner DEF CleanerKept, TaskOf
<1>c. info'[loop] = NoEntry /\ UNCHANGED <<tasks, instanceIndex>>
  BY DEF LoopBeginning, Begins, Submits, Receives, Finishes, Notifies, BeginsClear
<1>1. CASE \E t \in Tasks, i \in Instances : Submits(t, i)
  <2>1. PICK t \in Tasks, i \in Instances : Submits(t, i)
    BY <1>1
  <2>2. submitted[t] = 0
    BY <1>a, <2>1, LockFreeAssumption DEF TypeInv, Submits
  <2>3. ~Present(t) /\ \A j \in Instances : t \notin instanceIndex[j]
    BY <1>a, <2>2 DEF FreshInv
  <2>4. PICK new : new = [home EXCEPT ![t] = i]
    OBVIOUS
  <2>5. /\ new \in [Tasks -> Instances \cup {NoInstance}] /\ new[t] = i
        /\ \A u \in Tasks : u # t => new[u] = home[u]
    BY <2>4
  <2>6. \A u \in Tasks : Present(u)' => tasks'[u].instance = new[u]
    BY <1>c, <2>3, <2>5 DEF HomesAre, Present
  <2>7. \A u \in Tasks, j \in Instances : u \in instanceIndex'[j] => j = new[u]
    BY <1>c, <2>3, <2>5 DEF HomesAre
  <2>8. Arg' = new[Task']
    BY <2>1, <2>5 DEF Submits, Begins
  <2>9. ASSUME calls'[cleaner] # <<>>, info'[cleaner] # NoEntry
        PROVE  info'[cleaner].instance = new[TaskOf(cleaner)']
    <3>1. TaskOf(cleaner) \in Tasks /\ Past(TaskOf(cleaner))
      BY <1>a, <1>b, <2>9, CleanerPast
    <3>2. TaskOf(cleaner) # t
      BY <2>2, <3>1 DEF Past
    <3>3. QED
      BY <1>b, <2>5, <2>9, <3>1, <3>2, TwoThreads DEF HomesAre
  <2>10. HomesAre(new)'
    BY <1>c, <2>6, <2>7, <2>8, <2>9, TwoThreads DEF HomesAre
  <2>11. QED
    BY <2>5, <2>10 DEF HomeInv
<1>2. CASE ~\E t \in Tasks, i \in Instances : Submits(t, i)
  <2>1. Op' # "register"
    BY <1>2 DEF LoopBeginning, Begins, Receives, Finishes, Notifies, BeginsClear
  <2>2. HomesAre(home)'
    BY <1>b, <1>c, <2>1, TwoThreads DEF HomesAre, Present
  <2>3. QED
    BY <2>2 DEF HomeInv
<1>3. QED
  BY <1>1, <1>2

LEMMA CleanerKeepsHomes ==
    ASSUME IInv, CleanerStep,
           NEW home \in [Tasks -> Instances \cup {NoInstance}], HomesAre(home)
    PROVE  HomesAre(home)'
<1>a. TypeInv /\ CallsInv /\ CleanerInv
  BY DEF IInv
<1>1. /\ pc'[loop] = pc[loop] /\ calls'[loop] = calls[loop] /\ info'[loop] = info[loop]
      /\ Op' = Op /\ Task' = Task /\ Arg' = Arg /\ TaskOf(loop)' = TaskOf(loop)
  BY <1>a, CleanerKeepsLoop, SameCall DEF LoopKept, TaskOf
<1>2. \A t \in Tasks : Present(t)' => tasks'[t].instance = home[t]
  BY CleanerEntries DEF HomesAre, Present
<1>3. ASSUME NEW t \in Tasks, NEW i \in Instances, t \in instanceIndex'[i]
      PROVE  t \in instanceIndex[i]
  BY <1>a, <1>3, CleanerMoves
  DEF CleanerDeletes, CleanerUnlinks, CleanerUncounts, CleanerElse, TypeInv
<1>4. ASSUME calls'[cleaner] # <<>>, info'[cleaner] # NoEntry
      PROVE  info'[cleaner].instance = home[TaskOf(cleaner)']
  <2>1. CASE calls'[cleaner] = calls[cleaner] /\ info'[cleaner] = info[cleaner]
    BY <1>4, <2>1, TwoThreads DEF HomesAre, TaskOf
  <2>2. CASE Fetch(cleaner) /\ calls'[cleaner] = calls[cleaner] /\ calls[cleaner] # <<>>
    <3>1. TaskOf(cleaner) \in Tasks /\ TaskOf(cleaner)' = TaskOf(cleaner)
      BY <1>a, <2>2, CleanerPast DEF TaskOf
    <3>2. CASE Present(TaskOf(cleaner))
      <4>1. info'[cleaner] = tasks[TaskOf(cleaner)]
        BY <1>a, <2>2, <3>2, TwoThreads DEF Fetch, TypeInv
      <4>2. QED
        BY <3>1, <3>2, <4>1 DEF HomesAre
    <3>3. CASE ~Present(TaskOf(cleaner))
      BY <1>a, <1>4, <2>2, <3>3, Starts, TwoThreads DEF Fetch, Raise
    <3>4. QED
      BY <3>2, <3>3
  <2>3. QED
    BY <1>4, <2>1, <2>2, CleanerMoves DEF ReadFrom
<1>5. QED
  BY <1>1, <1>2, <1>3, <1>4, TwoThreads DEF HomesAre

LEMMA HomeStays ==
    ASSUME IInv, MaxSubmissions <= 1, Next
    PROVE  HomeInv'
<1>1. PICK home \in [Tasks -> Instances \cup {NoInstance}] : HomesAre(home)
  BY DEF IInv, HomeInv
<1>2. CASE LoopStep
  BY <1>1, <1>2, LoopMoves, CallsKeepHomes, BeginningKeepsHomes DEF HomeInv
<1>3. CASE CleanerStep
  BY <1>1, <1>3, CleanerKeepsHomes DEF HomeInv
<1>4. QED
  BY <1>2, <1>3, OneStep

-----------------------------------------------------------------------------
(* Whoever removes a task takes it out of the index it is in.                *)
LEMMA TakesOut ==
    ASSUME IInv, NEW th \in Threads, calls[th] # <<>>, info[th].status = "completed",
           TaskOf(th) \in Tasks, NEW i \in Instances,
           instanceIndex' = [instanceIndex EXCEPT ![info[th].instance] = @ \ {TaskOf(th)}]
    PROVE  TaskOf(th) \notin instanceIndex'[i]
<1>1. PICK home \in [Tasks -> Instances \cup {NoInstance}] : HomesAre(home)
  BY DEF IInv, HomeInv
<1>2. info[th].instance = home[TaskOf(th)]
  BY <1>1 DEF HomesAre, NoEntry
<1>3. TaskOf(th) \in instanceIndex[i] => i = info[th].instance
  BY <1>1, <1>2 DEF HomesAre
<1>4. QED
  BY <1>3 DEF IInv, TypeInv

LEMMA IndexLoopStays ==
    ASSUME IInv, LoopStep, NEW t \in Tasks, NEW i \in Instances,
           t \in instanceIndex'[i], ~Present(t)'
    PROVE  Clearing({"status", "instance"})' \/ \E th \in Threads : TakingOut(th, t)'
<1>a. TypeInv /\ CallsInv /\ LoopInv /\ IndexInv
  BY DEF IInv
<1>b. TakingOut(cleaner, t) => TakingOut(cleaner, t)'
  BY <1>a, LoopKeepsCleaner DEF CleanerKept, TakingOut, TaskOf
<1>c. TakingOut(loop, t) <=> pc[loop] \in {"status", "instance"} /\ Op = "remove" /\ Task = t
  BY DEF TakingOut, Op, Task
<1>d. TakingOut(loop, t)' <=> pc'[loop] \in {"status", "instance"} /\ Op' = "remove" /\ Task' = t
  BY DEF TakingOut, Op, Task
<1>e. t \in instanceIndex[i] /\ ~Present(t) =>
         Clearing({"status", "instance"}) \/ TakingOut(loop, t) \/ TakingOut(cleaner, t)
  BY <1>a, TwoThreads DEF IndexInv
<1>1. CASE LoopBeginning
  <2>1. UNCHANGED <<tasks, instanceIndex>> /\ pc[loop] = "idle"
    BY <1>1 DEF LoopBeginning, Begins, Submits, Receives, Finishes, Notifies, BeginsClear
  <2>2. t \in instanceIndex[i] /\ ~Present(t)
    BY <2>1 DEF Present
  <2>3. TakingOut(cleaner, t)'
    BY <1>b, <1>c, <1>e, <2>1, <2>2 DEF Clearing, Busy
  <2>4. QED
    BY <2>3, TwoThreads
<1>2. CASE LoopCalling /\ pc[loop] # "idle" /\ calls[loop] \in LoopCalls
  <2>a. Op # "clear" => Task \in Tasks /\ LoopKnows(Task)
    BY <1>a, <1>2, KnowsTask
  <2>b. calls[loop] # <<>>
    BY <1>2, SomeCall
  <2>1. t \in instanceIndex[i]
    <3>1. CASE UNCHANGED instanceIndex
      BY <3>1
    <3>2. CASE Links
      <4>1. tasks'[Task] # NoEntry
        BY <2>a, <3>2 DEF Links, LoopKnows, Busy, NoEntry
      <4>2. t # Task
        BY <4>1 DEF Present
      <4>3. QED
        BY <1>a, <3>2, <4>2 DEF Links, TypeInv
    <3>3. CASE Unlinks
      BY <1>a, <3>3 DEF Unlinks, TypeInv
    <3>4. CASE ClearsIndex
      BY <3>4 DEF ClearsIndex, NoInstances
    <3>5. QED
      BY <3>1, <3>2, <3>3, <3>4, LoopChanges
  <2>2. CASE Present(t)
    <3>1. Deletes \/ Clears
      <4>1. Registers \/ Marks => Present(t)'
        <5>1. CASE Registers
          BY <1>a, <2>2, <5>1 DEF Registers, TypeInv, Present, NoEntry
        <5>2. CASE Marks
          BY <2>2, <5>2, MarkedEntry, EntryFields DEF Present, NoEntry
        <5>3. QED
          BY <5>1, <5>2
      <4>2. UNCHANGED tasks => Present(t)'
        BY <2>2 DEF Present
      <4>3. QED
        BY <4>1, <4>2, LoopChanges
    <3>2. CASE Deletes
      <4>1. t = Task
        BY <1>a, <2>2, <3>2 DEF Deletes, Present, TypeInv
      <4>2. TakingOut(loop, t)'
        BY <1>d, <3>2, <4>1 DEF Deletes, Goes
      <4>3. QED
        BY <4>2, TwoThreads
    <3>3. CASE Clears
      BY <3>3 DEF Clears, Goes, Clearing, Busy
    <3>4. QED
      BY <3>1, <3>2, <3>3
  <2>3. CASE Clearing({"status", "instance"})
    <3>1. Passes \/ ClearsIndex
      BY <1>2, <2>3 DEF LoopCalling, Clearing, Busy, Registers, Links, CountsNew, Finds, Fetches,
         Misses, Marks, CountsMark, Deletes, Unlinks, Uncounts, Clears, ClearsCounts, Gets
    <3>2. CASE Passes
      BY <2>3, <3>2 DEF Passes, Goes, Clearing, Busy
    <3>3. CASE ClearsIndex
      BY <3>3 DEF ClearsIndex, NoInstances
    <3>4. QED
      BY <3>1, <3>2, <3>3
  <2>4. CASE TakingOut(loop, t)
    <3>1. Passes \/ Unlinks
      BY <1>2, <1>c, <2>4 DEF LoopCalling, Registers, Links, CountsNew, Finds, Fetches,
         Misses, Marks, CountsMark, Deletes, Uncounts, Clears, ClearsIndex, ClearsCounts, Gets
    <3>2. CASE Passes
      BY <1>c, <1>d, <2>4, <3>2, TwoThreads DEF Passes, Goes
    <3>3. CASE Unlinks
      <4>1. info[loop].status = "completed" /\ TaskOf(loop) = t
        BY <1>c, <2>4, <2>a, <3>3 DEF Unlinks, LoopKnows, Busy, Task
      <4>2. instanceIndex' = [instanceIndex EXCEPT ![info[loop].instance] = @ \ {TaskOf(loop)}]
        BY <3>3, Zenon DEF Unlinks, Task
      <4>3. QED
        BY <2>b, <4>1, <4>2, TakesOut, TwoThreads
    <3>4. QED
      BY <3>1, <3>2, <3>3
  <2>5. CASE TakingOut(cleaner, t)
    BY <1>b, <2>5, TwoThreads
  <2>6. QED
    BY <1>e, <2>1, <2>2, <2>3, <2>4, <2>5
<1>3. QED
  BY <1>1, <1>2, LoopMoves

LEMMA IndexCleanerStays ==
    ASSUME IInv, CleanerStep, NEW t \in Tasks, NEW i \in Instances,
           t \in instanceIndex'[i], ~Present(t)'
    PROVE  Clearing({"status", "instance"})' \/ \E th \in Threads : TakingOut(th, t)'
<1>a. TypeInv /\ CallsInv /\ CleanerInv /\ IndexInv
  BY DEF IInv
<1>b. /\ pc'[loop] = pc[loop] /\ calls'[loop] = calls[loop] /\ Op' = Op
  BY <1>a, CleanerKeepsLoop, SameCall DEF LoopKept
<1>c. TakingOut(loop, t) => TakingOut(loop, t)'
  BY <1>b DEF TakingOut, TaskOf
<1>d. Clearing({"status", "instance"}) => Clearing({"status", "instance"})'
  BY <1>b DEF Clearing, Busy
<1>e. pc[cleaner] \in {"write", "status", "instance"} =>
         /\ calls[cleaner] # <<>> /\ Head(calls[cleaner]).op = "remove"
         /\ TaskOf(cleaner) \in Tasks
  BY <1>a, CleanerCall DEF CallsInv
<1>1. t \in instanceIndex[i]
  BY <1>a, CleanerMoves
  DEF CleanerDeletes, CleanerUnlinks, CleanerUncounts, CleanerElse, TypeInv
<1>2. CASE Present(t)
  <2>1. CleanerDeletes
    BY <1>2, CleanerMoves DEF CleanerUnlinks, CleanerUncounts, CleanerElse, Present
  <2>2. t = TaskOf(cleaner)
    BY <1>a, <1>2, <2>1 DEF CleanerDeletes, Present, TypeInv
  <2>3. calls'[cleaner] = calls[cleaner]
    BY <2>1, CleanerMoves DEF CleanerDeletes, ReadFrom, At, Fetch
  <2>4. TakingOut(cleaner, t)'
    BY <1>e, <2>1, <2>2, <2>3 DEF TakingOut, TaskOf, CleanerDeletes
  <2>5. QED
    BY <2>4, TwoThreads
<1>3. CASE TakingOut(cleaner, t)
  <2>1. CASE CleanerUnlinks
    <3>1. info[cleaner].status = "completed" /\ TaskOf(cleaner) = t /\ calls[cleaner] # <<>>
      BY <1>a, <1>3, <1>e, <2>1 DEF CleanerUnlinks, CleanerInv, TakingOut
    <3>2. instanceIndex' =
             [instanceIndex EXCEPT ![info[cleaner].instance] = @ \ {TaskOf(cleaner)}]
      BY <2>1, Zenon DEF CleanerUnlinks
    <3>3. QED
      BY <3>1, <3>2, TakesOut, TwoThreads
  <2>2. CASE pc[cleaner] = "status" /\ pc'[cleaner] = "instance" /\ calls' = calls
    BY <1>3, <2>2, TwoThreads DEF TakingOut, TaskOf
  <2>3. QED
    BY <1>3, <2>1, <2>2, CleanerMoves
    DEF TakingOut, CleanerDeletes, CleanerUncounts, CleanerElse, CleanerUnlinks
<1>4. QED
  BY <1>a, <1>c, <1>d, <1>1, <1>2, <1>3, TwoThreads DEF IndexInv

LEMMA IndexStays ==
    ASSUME IInv, Next
    PROVE  IndexInv'
  BY IndexLoopStays, IndexCleanerStays, OneStep DEF IndexInv

-----------------------------------------------------------------------------
(* What is to hold of each task with a result.                               *)
Forgotten(t) ==
    awaiting[t] = 0 =>
        \/ Handling(t)
        \/ ~Present(t) /\ ~(Busy("mark", {"fetch", "write"}) /\ Task = t)

LEMMA ForgetLoopStays ==
    ASSUME IInv, LoopStep, LoopCalling, pc[loop] # "idle", calls[loop] \in LoopCalls,
           NEW t \in Tasks, t \in answered, Forgotten(t), awaiting'[t] = 0
    PROVE  Forgotten(t)'
<1>a. TypeInv /\ CallsInv /\ LoopInv /\ FreshInv
  BY DEF IInv
<1>b. Op # "clear" => Task \in Tasks /\ LoopKnows(Task)
  BY <1>a, KnowsTask
<1>c. awaiting[t] = 0
  <2>1. CASE UNCHANGED awaiting
    BY <2>1
  <2>2. CASE Gets
    <3>1. awaiting' = awaiting \/ awaiting' = [awaiting EXCEPT ![Task] = @ + 1]
      BY <2>2, Zenon DEF Gets
    <3>2. QED
      BY <1>a, <3>1 DEF TypeInv
  <2>3. CASE \E u \in Tasks : Finishes(u)
    BY <2>3 DEF Finishes, Begins
  <2>4. QED
    BY <2>1, <2>2, <2>3, LoopChanges
<1>1. CASE Handling(t)
  <2>1. CASE \E section : Goes(section) /\ section # "idle"
    BY <1>1, <2>1 DEF Goes, Handling, Forgotten
  <2>2. CASE LoopReturns /\ After > 0
    BY <1>1, <2>2, LoopCall DEF LoopReturns, Handling, Forgotten
  <2>3. CASE (LoopReturns /\ After = 0) \/ LoopStops
    <3>1. pc'[loop] = "idle"
      BY <2>3 DEF LoopReturns, LoopStops
    <3>2. Gets \/ Uncounts \/ Misses
      <4>1. Op \in {"get", "remove"} \/ (Op = "mark" /\ After > 0)
        BY <1>1 DEF Handling
      <4>2. pc'[loop] \notin {"status", "instance", "stats", "fetch", "write"}
        BY <3>1
      <4>3. CountsMark => Op = "mark" /\ After > 0 /\ ~LoopStops
        <5>1. CASE CountsMark
          <6>1. LoopReturns /\ Op = "mark" /\ After > 0
            BY <4>1, <5>1 DEF CountsMark
          <6>2. QED
            BY <3>1, <6>1 DEF LoopReturns
        <5>2. QED
          BY <5>1
      <4>4. ~CountsMark
        BY <2>3, <4>3
      <4>5. QED
        BY <4>1, <4>2, <4>4 DEF LoopCalling, Passes, Registers, Links, CountsNew, Finds, Fetches,
           Marks, Deletes, Unlinks, Clears, ClearsIndex, ClearsCounts, Goes
    <3>3. Task = t
      BY <1>1 DEF Handling
    <3>4. ~Present(t)'
      <4>1. CASE Gets
        <5>1. CASE Present(t)
          <6>1. awaiting' = [awaiting EXCEPT ![t] = @ + 1]
            BY <3>3, <4>1, <5>1, Zenon DEF Gets
          <6>2. QED
            BY <1>a, <1>c, <6>1 DEF TypeInv
        <5>2. CASE ~Present(t)
          BY <4>1, <5>2 DEF Gets, Present
        <5>3. QED
          BY <5>1, <5>2
      <4>2. CASE Uncounts
        BY <1>b, <3>3, <4>2 DEF Uncounts, LoopKnows, Busy, Present
      <4>3. CASE Misses
        BY <3>3, <4>3 DEF Misses, Present
      <4>4. QED
        BY <3>2, <4>1, <4>2, <4>3
    <3>5. QED
      BY <3>1, <3>4 DEF Forgotten, Busy
  <2>4. (\E section : Goes(section) /\ section # "idle") \/ LoopReturns \/ LoopStops
    <3>1. Passes => \E section : Goes(section) /\ section # "idle"
      BY DEF Passes
    <3>2. QED
      BY <3>1 DEF LoopCalling, Registers, Links, CountsNew, Finds, Fetches, Misses, Marks,
         CountsMark, Deletes, Unlinks, Uncounts, Clears, ClearsIndex, ClearsCounts, Gets
  <2>5. QED
    BY <2>1, <2>2, <2>3, <2>4, LoopCall
<1>2. CASE ~Present(t) /\ ~(Busy("mark", {"fetch", "write"}) /\ Task = t)
  <2>1. ~Registers \/ t # Task
    BY <1>a DEF Registers, FreshInv, Submitting
  <2>2. ~Marks \/ t # Task
    BY <1>2 DEF Marks, Busy
  <2>3. ~Present(t)'
    BY <1>2, <2>1, <2>2, LoopEntries DEF Present
  <2>4. ASSUME Busy("mark", {"fetch", "write"})', Task' = t PROVE FALSE
    <3>1. pc'[loop] \in {"fetch", "write"}
      BY <2>4 DEF Busy
    <3>2. ~LoopReturns /\ ~LoopStops
      BY <3>1, ReturnsOutside
    <3>3. Finds \/ Fetches
      BY <3>1, <3>2 DEF LoopCalling, Passes, Registers, Links, CountsNew, Misses, Marks,
         CountsMark, Deletes, Unlinks, Uncounts, Clears, ClearsIndex, ClearsCounts, Gets, Goes
    <3>4. QED
      BY <1>2, <2>4, <3>3 DEF Finds, Fetches, Goes
  <2>5. QED
    BY <2>3, <2>4 DEF Forgotten
<1>3. QED
  BY <1>1, <1>2, <1>c DEF Forgotten

LEMMA ForgetStays ==
    ASSUME IInv, MaxSubmissions <= 1, Next
    PROVE  ForgetInv'
<1>a. TypeInv /\ CallsInv
  BY DEF IInv
<1>b. /\ answered \subseteq Tasks /\ answered' \subseteq Tasks
      /\ \A t \in answered : Forgotten(t)
  BY TypeStep DEF IInv, TypeInv, ForgetInv, Forgotten
<1>1. ASSUME LoopStep, NEW t \in answered', awaiting'[t] = 0 PROVE Forgotten(t)'
  <2>1. CASE LoopCalling /\ pc[loop] # "idle" /\ calls[loop] \in LoopCalls
    <3>1. answered' = answered
      BY <2>1 DEF LoopCalling, handlerVars, Passes, Registers, Links, CountsNew, Finds, Fetches,
         Misses, Marks, CountsMark, Deletes, Unlinks, Uncounts, Clears, ClearsIndex,
         ClearsCounts, Gets
    <3>2. QED
      BY <1>1, <1>b, <2>1, <3>1, ForgetLoopStays
  <2>2. CASE LoopBeginning
    <3>1. /\ pc[loop] = "idle" /\ UNCHANGED tasks
          /\ Busy("mark", {"fetch", "write"})' => FALSE
      BY <2>2 DEF LoopBeginning, Begins, Submits, Receives, Finishes, Notifies, BeginsClear, Busy
    <3>2. t \in answered /\ awaiting[t] = 0 => ~Present(t)
      BY <1>b, <3>1 DEF Forgotten, Handling
    <3>3. t \in answered /\ awaiting[t] = 0 => Forgotten(t)'
      BY <3>1, <3>2 DEF Forgotten, Present
    <3>4. t \in answered \/ Receives(t)
      BY <1>1, <2>2 DEF LoopBeginning, Submits, Receives, Finishes, Notifies, BeginsClear
    <3>5. awaiting[t] = 0 \/ Finishes(t)
      BY <1>1, <1>a, <1>b, <2>2
      DEF LoopBeginning, Submits, Receives, Finishes, Notifies, BeginsClear, TypeInv
    <3>6. Receives(t) \/ Finishes(t) => Handling(t)'
      BY DEF Receives, Finishes, Begins, Handling
    <3>7. QED
      BY <3>3, <3>4, <3>5, <3>6 DEF Forgotten
  <2>3. QED
    BY <1>1, <2>1, <2>2, LoopMoves
<1>2. ASSUME CleanerStep, NEW t \in answered', awaiting'[t] = 0 PROVE Forgotten(t)'
  <2>1. /\ pc'[loop] = pc[loop] /\ UNCHANGED <<answered, awaiting>>
        /\ Op' = Op /\ Task' = Task /\ Arg' = Arg /\ After' = After
    BY <1>2, <1>a, CleanerKeepsLoop, SameCall DEF LoopKept, handlerVars
  <2>2. ~Present(t) => ~Present(t)'
    BY <1>2, <1>b, CleanerEntries DEF Present
  <2>3. Forgotten(t)
    BY <1>2, <1>b, <2>1
  <2>4. QED
    BY <2>1, <2>2, <2>3 DEF Forgotten, Handling, Busy
<1>3. QED
  BY <1>1, <1>2, OneStep DEF ForgetInv, Forgotten

-----------------------------------------------------------------------------
LEMMA InitInv == Init => IInv
<1> SUFFICES ASSUME Init PROVE IInv
  OBVIOUS
<1>1. /\ pc[loop] = "idle" /\ pc[cleaner] = "idle"
      /\ calls[loop] = <<>> /\ calls[cleaner] = <<>>
      /\ info[loop] = NoEntry /\ info[cleaner] = NoEntry
  BY TwoThreads DEF Init
<1>2. \A t \in Tasks : tasks[t] = NoEntry /\ ~Present(t) /\ submitted[t] = 0 /\ awaiting[t] = 0
  BY DEF Init, NoTasks, Present
<1>3. TypeInv
  BY DEF Init, TypeInv, NoTasks, NoStatuses, NoInstances, NoStats
<1>4. CallsInv
  BY <1>1 DEF CallsInv
<1>5. FreshInv
  BY <1>2 DEF Init, FreshInv, NoInstances, NoEntry, Submitting
<1>6. CleanerInv
  <2>1. Len(calls[cleaner]) = 0
    BY <1>1
  <2>2. QED
    BY <1>1, <2>1 DEF Init, CleanerInv
<1>7. LoopInv /\ ClearInv /\ ClearedInv /\ LeftInv
  BY <1>1 DEF LoopInv, ClearInv, ClearedInv, LeftInv, Clearing, Busy
<1>8. ASSUME NEW s \in Statuses
      PROVE  Cardinality(Having(s)) = 0 /\ stats[s] = 0 /\ Late(s) = 0 /\ Early(s) = 0
  <2>1. Having(s) = {}
    BY <1>2 DEF Having, NoEntry, Statuses
  <2>2. stats[s] = 0
    BY DEF Init, NoStats, Statuses
  <2>3. QED
    BY <1>1, <2>1, <2>2, FS_EmptySet, NothingInHand
<1>9. ActiveInv
  BY <1>8 DEF ActiveInv, Statuses
<1>10. CompletedInv
  <2>1. One(Removing(loop)) = 0 /\ One(Removing(cleaner)) = 0
    BY <1>1 DEF Removing, One
  <2>2. Cardinality(Having("completed")) = 0 /\ stats["completed"] = 0 /\ Late("completed") = 0
    BY <1>8 DEF Statuses
  <2>3. QED
    BY <2>1, <2>2 DEF CompletedInv
<1>11. HomeInv
  <2>1. PICK home : home = [t \in Tasks |-> NoInstance]
    OBVIOUS
  <2>2. home \in [Tasks -> Instances \cup {NoInstance}]
    BY <2>1
  <2>3. HomesAre(home)
    BY <1>1, <1>2, TwoThreads DEF HomesAre, Init, NoInstances
  <2>4. QED
    BY <2>2, <2>3 DEF HomeInv
<1>12. IndexInv /\ ForgetInv
  BY DEF Init, NoInstances, IndexInv, ForgetInv
<1>13. QED
  BY <1>3, <1>4, <1>5, <1>6, <1>7, <1>9, <1>10, <1>11, <1>12 DEF IInv

LEMMA StutterInv == ASSUME IInv, UNCHANGED vars PROVE IInv'
<1> USE DEF vars, entryVars, cleanupVars, handlerVars
<1>1. /\ TypeInv' = TypeInv /\ CallsInv' = CallsInv
  BY DEF TypeInv, CallsInv, Op
<1>2. FreshInv' = FreshInv /\ CleanerInv' = CleanerInv
  BY DEF FreshInv, CleanerInv, Past, Submitting, Op, Task, Arg, TaskOf, ArgOf, Present
<1>3. LoopInv' = LoopInv
  BY DEF LoopInv, LoopKnows, Busy, Marking, Past, Submitting, Op, Task, Arg, After, TaskOf, ArgOf,
     Present
<1>4. ClearInv' = ClearInv /\ ClearedInv' = ClearedInv
  BY DEF ClearInv, ClearedInv, Clearing, Busy, Op, Present
<1>5. ActiveInv' = ActiveInv /\ LeftInv' = LeftInv /\ CompletedInv' = CompletedInv
  BY DEF ActiveInv, LeftInv, CompletedInv, Late, Early, Clearing, Busy, Marking, Op, Arg, ArgOf, OldStatus,
     Having, Removing
<1>6. HomeInv' = HomeInv
  BY DEF HomeInv, HomesAre, Op, Task, Arg, TaskOf, ArgOf, Present
<1>7. IndexInv' = IndexInv /\ ForgetInv' = ForgetInv
  BY DEF IndexInv, ForgetInv, TakingOut, Clearing, Handling, Busy, Op, Task, Arg, After, TaskOf,
     ArgOf, Present
<1>8. QED
  BY <1>1, <1>2, <1>3, <1>4, <1>5, <1>6, <1>7 DEF IInv

LEMMA StepInv == ASSUME MaxSubmissions <= 1, IInv, [Next]_vars PROVE IInv'
<1>1. CASE Next
  BY <1>1, TypeStep, CallsStep, FreshStays, CleanerStays, LoopStays, ClearStays, ActiveStays, LeftStays,
     CompletedStays, HomeStays, IndexStays, ForgetStays DEF IInv
<1>2. CASE UNCHANGED vars
  BY <1>2, StutterInv
<1>3. QED
  BY <1>1, <1>2

(* What the tracker's threads know of the entries holds at every step of     *)
(* their interleaved calls.                                                  *)
THEOREM TrackerInvariant == ASSUME MaxSubmissions <= 1 PROVE Spec => []IInv
<1>1. IInv /\ [Next]_vars => IInv'
  BY StepInv
<1>2. QED
  BY <1>1, InitInv, PTL DEF Spec

(* The tracker's state is of its type: the statistics of queued and          *)
(* scheduled tasks never become negative, however its calls interleave.      *)
THEOREM TrackerTyped == ASSUME MaxSubmissions <= 1 PROVE Spec => []TypeOK
<1>1. ASSUME IInv PROVE TypeOK
  <2>1. stats.queued \in Nat /\ stats.scheduled \in Nat
    <3>1. stats["queued"] \in Nat /\ stats["scheduled"] \in Nat
      BY <1>1, ActiveNatural
    <3>2. QED
      BY <3>1
  <2>2. stats \in [total_tasks : Int, queued : Nat, scheduled : Nat, completed : Int]
    BY <1>1, <2>1 DEF IInv, TypeInv
  <2>3. QED
    BY <1>1, <2>2 DEF IInv, TypeInv, TypeOK
<1>2. QED
  BY <1>1, TrackerInvariant, PTL

(* For every number of tasks: between two handlers of the event loop, the    *)
(* statistics of queued and scheduled tasks count the entries, whatever the  *)
(* cleanup is doing.                                                         *)
THEOREM ActiveIsCounted == ASSUME MaxSubmissions <= 1 PROVE Spec => []ActiveCounted
<1>1. ASSUME IInv PROVE ActiveCounted
  <2>1. SUFFICES ASSUME pc[loop] = "idle", NEW s \in {"queued", "scheduled"}
                 PROVE  stats[s] = Cardinality(Having(s))
    BY DEF ActiveCounted, Idle
  <2>2. /\ stats[s] \in Int /\ Cardinality(Having(s)) \in Nat
        /\ Late(s) = 0 /\ Early(s) = 0
    BY <1>1, <2>1, StatsType, NothingInHand, LockFreeAssumption, FS_Subset, FS_CardinalityType
    DEF IInv, Statuses, Having
  <2>3. stats[s] + Late(s) = Cardinality(Having(s)) + Early(s)
    BY <1>1, <2>1 DEF IInv, ActiveInv, Clearing, Busy
  <2>4. QED
    BY <2>2, <2>3
<1>2. QED
  BY <1>1, TrackerInvariant, PTL

(* For every number of tasks and every max_history: as long as nothing was   *)
(* cleared, the statistic that mark_completed compares with max_history is   *)
(* not below the number of completed entries.                                *)
THEOREM CompletedIsCovered == ASSUME MaxSubmissions <= 1 PROVE Spec => []CompletedCovered
<1>1. ASSUME IInv PROVE CompletedCovered
  <2>1. SUFFICES ASSUME pc[loop] = "idle", ~cleared
                 PROVE  stats.completed >= Cardinality(Having("completed"))
    BY DEF CompletedCovered, Idle
  <2>2. /\ stats.completed \in Int /\ Cardinality(Having("completed")) \in Nat
        /\ Late("completed") = 0
        /\ One(Removing(loop)) \in {0, 1} /\ One(Removing(cleaner)) \in {0, 1}
    BY <1>1, <2>1, StatsType, NothingInHand, LockFreeAssumption, FS_Subset, FS_CardinalityType
    DEF IInv, Statuses, Having, One
  <2>3. stats.completed + Late("completed") >=
            Cardinality(Having("completed")) + One(Removing(loop)) + One(Removing(cleaner))
    BY <1>1, <2>1 DEF IInv, CompletedInv
  <2>4. QED
    BY <2>2, <2>3
<1>2. QED
  BY <1>1, TrackerInvariant, PTL

(* For every number of tasks and instances: once the handlers of a task's    *)
(* result and the cleanup have returned, the tracker and the index of its    *)
(* instance have lost the task, whatever the order of their sections was.    *)
THEOREM ResultsAreForgotten == ASSUME MaxSubmissions <= 1 PROVE Spec => []ResultsForgotten
<1>1. ASSUME IInv PROVE ResultsForgotten
  <2>1. SUFFICES ASSUME \A th \in Threads : pc[th] = "idle",
                        NEW t \in answered, awaiting[t] = 0
                 PROVE  ~Present(t) /\ \A i \in Instances : t \notin instanceIndex[i]
    BY DEF ResultsForgotten, Idle
  <2>2. ~Present(t) /\ t \in Tasks
    BY <1>1, <2>1, TwoThreads DEF IInv, TypeInv, ForgetInv, Handling
  <2>3. \A i \in Instances : t \notin instanceIndex[i]
    BY <1>1, <2>1, <2>2, TwoThreads DEF IInv, IndexInv, Clearing, Busy, TakingOut
  <2>4. QED
    BY <2>2, <2>3
<1>2. QED
  BY <1>1, TrackerInvariant, PTL
=============================================================================
