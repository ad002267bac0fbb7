--------------------------- MODULE ReadWriteLock ---------------------------
(***************************************************************************)
(* The reader-writer lock of the lock-free task tracker.                   *)
(*                                                                         *)
(* It has two counters and two condition variables, each with a mutex of   *)
(* its own: readers hold _read_ready's while they test and count, writers  *)
(* hold _write_ready's.  Each thread of the tracker acquires the lock as a *)
(* reader or as a writer, runs a short dictionary operation and releases   *)
(* it.  The names say lock where the tracker, whose threads these are, has  *)
(* a definition of that name.                                              *)
(***************************************************************************)
EXTENDS Naturals, FiniteSets

CONSTANT LockThreads    (* the threads that use the lock *)

ASSUME ThreadsFinite == IsFiniteSet(LockThreads)

VARIABLES
    readers,            (* _readers                                          *)
    writers,            (* _writers                                          *)
    readWaiting,        (* threads waiting on _read_ready, not yet notified  *)
    writeWaiting,       (* threads waiting on _write_ready, not yet notified *)
    lockPc              (* where each thread is                              *)

lockVars == <<readers, writers, readWaiting, writeWaiting, lockPc>>

ReaderPcs == {"testWriters", "countReader", "parkedReader", "reading"}
WriterPcs == {"testCounts", "countWriter", "parkedWriter", "writing",
              "notifyReaders"}

Goto(t, l) == lockPc' = [lockPc EXCEPT ![t] = l]

(* A condition's mutex is held between entering the `with` block and either  *)
(* waiting or leaving it.  A block without a test in it is a single step.    *)
ReadMutexFree == \A t \in LockThreads : lockPc[t] \notin {"testWriters", "countReader"}
WriteMutexFree == \A t \in LockThreads : lockPc[t] \notin {"testCounts", "countWriter"}

-----------------------------------------------------------------------------
(* acquire_read: wait while a writer is counted, then count the reader.      *)

AcquireRead(t) ==
    /\ lockPc[t] = "idle"
    /\ ReadMutexFree
    /\ Goto(t, "testWriters")
    /\ UNCHANGED <<readers, writers, readWaiting, writeWaiting>>

TestWriters(t) ==
    /\ lockPc[t] = "testWriters"
    /\ IF writers > 0
       THEN Goto(t, "parkedReader") /\ readWaiting' = readWaiting \cup {t}
       ELSE Goto(t, "countReader") /\ UNCHANGED readWaiting
    /\ UNCHANGED <<readers, writers, writeWaiting>>

(* mutant: the reader enters without counting itself *)
EnterUncounted(t) ==
    /\ lockPc[t] = "countReader"
    /\ Goto(t, "reading")
    /\ UNCHANGED <<readers, writers, readWaiting, writeWaiting>>

CountReader(t) ==
    /\ lockPc[t] = "countReader"
    /\ readers' = readers + 1
    /\ Goto(t, "reading")
    /\ UNCHANGED <<writers, readWaiting, writeWaiting>>

(* A notified reader takes the mutex again and repeats the test.             *)
RetryRead(t) ==
    /\ lockPc[t] = "parkedReader"
    /\ t \notin readWaiting
    /\ ReadMutexFree
    /\ Goto(t, "testWriters")
    /\ UNCHANGED <<readers, writers, readWaiting, writeWaiting>>

(* release_read: the last reader notifies _read_ready.                       *)
ReleaseRead(t) ==
    /\ lockPc[t] = "reading"
    /\ ReadMutexFree
    /\ readers' = readers - 1
    /\ readWaiting' = IF readers = 1 THEN {} ELSE readWaiting
    /\ Goto(t, "idle")
    /\ UNCHANGED <<writers, writeWaiting>>

-----------------------------------------------------------------------------
(* acquire_write: wait while anyone is counted, then count the writer.       *)

AcquireWrite(t) ==
    /\ lockPc[t] = "idle"
    /\ WriteMutexFree
    /\ Goto(t, "testCounts")
    /\ UNCHANGED <<readers, writers, readWaiting, writeWaiting>>

(* mutant: a writer only waits for the readers *)
ReadersCounted == readers > 0

SomeoneCounted == writers > 0 \/ readers > 0

TestCounts(t) ==
    /\ lockPc[t] = "testCounts"
    /\ IF SomeoneCounted
       THEN Goto(t, "parkedWriter") /\ writeWaiting' = writeWaiting \cup {t}
       ELSE Goto(t, "countWriter") /\ UNCHANGED writeWaiting
    /\ UNCHANGED <<readers, writers, readWaiting>>

CountWriter(t) ==
    /\ lockPc[t] = "countWriter"
    /\ writers' = writers + 1
    /\ Goto(t, "writing")
    /\ UNCHANGED <<readers, readWaiting, writeWaiting>>

RetryWrite(t) ==
    /\ lockPc[t] = "parkedWriter"
    /\ t \notin writeWaiting
    /\ WriteMutexFree
    /\ Goto(t, "testCounts")
    /\ UNCHANGED <<readers, writers, readWaiting, writeWaiting>>

(* release_write: uncount and notify the writers, then notify the readers.   *)
ReleaseWrite(t) ==
    /\ lockPc[t] = "writing"
    /\ WriteMutexFree
    /\ writers' = writers - 1
    /\ writeWaiting' = {}
    /\ Goto(t, "notifyReaders")
    /\ UNCHANGED <<readers, readWaiting>>

(* mutant: only writers are notified, as release_read only notifies readers *)
LeaveReadersWaiting(t) ==
    /\ lockPc[t] = "notifyReaders"
    /\ ReadMutexFree
    /\ Goto(t, "idle")
    /\ UNCHANGED <<readers, writers, readWaiting, writeWaiting>>

NotifyReaders(t) ==
    /\ lockPc[t] = "notifyReaders"
    /\ ReadMutexFree
    /\ readWaiting' = {}
    /\ Goto(t, "idle")
    /\ UNCHANGED <<readers, writers, writeWaiting>>

-----------------------------------------------------------------------------
LockInit ==
    /\ readers = 0
    /\ writers = 0
    /\ readWaiting = {}
    /\ writeWaiting = {}
    /\ lockPc = [t \in LockThreads |-> "idle"]

(* A thread that has called the lock goes on with the call.                  *)
ContinueCall(t) ==
    \/ TestWriters(t)
    \/ CountReader(t)
    \/ RetryRead(t)
    \/ ReleaseRead(t)
    \/ TestCounts(t)
    \/ CountWriter(t)
    \/ RetryWrite(t)
    \/ ReleaseWrite(t)
    \/ NotifyReaders(t)

LockNext == \E t \in LockThreads : AcquireRead(t) \/ AcquireWrite(t) \/ ContinueCall(t)

LockSpec == LockInit /\ [][LockNext]_lockVars

(* Threads run, the operations under the lock are finite, and a mutex that   *)
(* is free again and again is acquired in the end.  Nobody has to call.      *)
LockFairSpec == LockSpec /\ \A t \in LockThreads : SF_lockVars(ContinueCall(t))

-----------------------------------------------------------------------------
(* Type invariant; the counters are never negative: every release follows    *)
(* its own acquire.                                                          *)
LockTypeOK ==
    /\ readers \in Nat
    /\ writers \in Nat
    /\ readWaiting \subseteq LockThreads
    /\ writeWaiting \subseteq LockThreads
    /\ lockPc \in [LockThreads -> {"idle"} \cup ReaderPcs \cup WriterPcs]

(* Two writers never hold the lock at the same time.                         *)
WritersExclusive ==
    \A t, u \in LockThreads : lockPc[t] = "writing" /\ lockPc[u] = "writing" => t = u

(* A reader and a writer never hold the lock at the same time: what a        *)
(* reader-writer lock is for.                                                *)
ReadersExcludeWriters ==
    ~ \E t, u \in LockThreads : lockPc[t] = "reading" /\ lockPc[u] = "writing"

(* A waiting reader is always notified, and tests again: the writer that it  *)
(* waits for notifies the readers after it has uncounted itself.             *)
ReaderWakes ==
    \A t \in LockThreads : lockPc[t] = "parkedReader" ~> lockPc[t] = "testWriters"

(* A waiting writer is always notified, and tests again.                     *)
WriterWakes ==
    \A t \in LockThreads : lockPc[t] = "parkedWriter" ~> lockPc[t] = "testCounts"
=============================================================================
