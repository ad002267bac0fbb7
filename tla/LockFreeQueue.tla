--------------------------- MODULE LockFreeQueue ---------------------------
(***************************************************************************)
(* The queue of the lock-free scheduler: a deque between two semaphores,   *)
(* and a size of its own under a lock.  A put or a get is four steps, and  *)
(* any number of threads may be between them; only each step by itself is  *)
(* atomic.                                                                 *)
(***************************************************************************)
EXTENDS Integers, Sequences, FiniteSets

CONSTANTS
    Items,            (* what is put into the queue, each item once          *)
    Producers,        (* threads that put                                    *)
    Consumers,        (* threads that get                                    *)
    Capacity          (* maxsize, above 0                                    *)

ASSUME QueueAssumption ==
    /\ IsFiniteSet(Producers) /\ IsFiniteSet(Consumers)
    /\ Producers \cap Consumers = {}
    /\ Capacity \in Nat \ {0}
    /\ "none" \notin Items

VARIABLES
    deque,            (* _queue                                              *)
    semPut,           (* _sem_put: the places that are free                  *)
    semGet,           (* _sem_get: the items that can be had                 *)
    size,             (* _size                                               *)
    at,               (* the next step of a thread's put or get              *)
    item,             (* the item it puts, or has got                        *)
    taken             (* history: the items popped                           *)

queueVars == <<deque, semPut, semGet, size, at, item, taken>>

Threads == Producers \cup Consumers
NoItem == "none"
Outside(t) == at[t] = "out"
InStep(group, step) == {t \in group : at[t] = step}

To(t, step) == at' = [at EXCEPT ![t] = step]

-----------------------------------------------------------------------------
(* put_nowait                                                                *)
(* mutant: the free places are looked at and not taken *)
TestPlace(p) == semPut > 0 /\ UNCHANGED semPut

(* Without a free place put_nowait raises queue.Full and changes nothing.    *)
TakePlace(p) == semPut > 0 /\ semPut' = semPut - 1

BeginPut(p, x) ==
    /\ Outside(p)
    /\ TakePlace(p)
    /\ item' = [item EXCEPT ![p] = x]
    /\ To(p, "append")
    /\ UNCHANGED <<deque, semGet, size, taken>>

AppendItem(p) ==
    /\ at[p] = "append"
    /\ deque' = Append(deque, item[p])
    /\ To(p, "count")
    /\ UNCHANGED <<semPut, semGet, size, item, taken>>

CountItem(p) ==
    /\ at[p] = "count"
    /\ size' = size + 1
    /\ To(p, "offer")
    /\ UNCHANGED <<deque, semPut, semGet, item, taken>>

(* mutant: the item is never announced *)
KeepItem(p) ==
    /\ at[p] = "offer"
    /\ item' = [item EXCEPT ![p] = NoItem]
    /\ To(p, "out")
    /\ UNCHANGED <<deque, semPut, semGet, size, taken>>

OfferItem(p) ==
    /\ at[p] = "offer"
    /\ semGet' = semGet + 1
    /\ item' = [item EXCEPT ![p] = NoItem]
    /\ To(p, "out")
    /\ UNCHANGED <<deque, semPut, size, taken>>

-----------------------------------------------------------------------------
(* get, get_nowait                                                           *)
BeginGet(c) ==
    /\ Outside(c) /\ semGet > 0
    /\ semGet' = semGet - 1
    /\ To(c, "pop")
    /\ UNCHANGED <<deque, semPut, size, item, taken>>

(* On an empty deque popleft raises: queue.Empty, and the token is gone.     *)
PopItem(c) ==
    /\ at[c] = "pop"
    /\ IF deque = <<>>
       THEN To(c, "out") /\ UNCHANGED <<deque, item, taken>>
       ELSE /\ item' = [item EXCEPT ![c] = Head(deque)]
            /\ taken' = taken \cup {Head(deque)}
            /\ deque' = Tail(deque)
            /\ To(c, "uncount")
    /\ UNCHANGED <<semPut, semGet, size>>

UncountItem(c) ==
    /\ at[c] = "uncount"
    /\ size' = size - 1
    /\ To(c, "free")
    /\ UNCHANGED <<deque, semPut, semGet, item, taken>>

(* The place is free again; the thread has its item.                         *)
FreePlace(c) ==
    /\ at[c] = "free"
    /\ semPut' = semPut + 1
    /\ item' = [item EXCEPT ![c] = NoItem]
    /\ To(c, "out")
    /\ UNCHANGED <<deque, semGet, size, taken>>

-----------------------------------------------------------------------------
QueueInit ==
    /\ deque = <<>> /\ semPut = Capacity /\ semGet = 0 /\ size = 0
    /\ at = [t \in Threads |-> "out"]
    /\ item = [t \in Threads |-> NoItem]
    /\ taken = {}

Fresh(x) ==
    /\ x \notin taken /\ \A k \in DOMAIN deque : deque[k] # x
    /\ \A t \in Threads : item[t] # x

PutStep(p) == AppendItem(p) \/ CountItem(p) \/ OfferItem(p)
GetStep(c) == PopItem(c) \/ UncountItem(c) \/ FreePlace(c)

QueueNext ==
    \/ \E p \in Producers : PutStep(p) \/ \E x \in Items : Fresh(x) /\ BeginPut(p, x)
    \/ \E c \in Consumers : BeginGet(c) \/ GetStep(c)

QueueSpec == QueueInit /\ [][QueueNext]_queueVars

-----------------------------------------------------------------------------
(* Type invariant.                                                           *)
QueueTypeOK ==
    /\ deque \in Seq(Items)
    /\ semPut \in Int /\ semGet \in Int /\ size \in Int
    /\ at \in [Threads -> {"out", "append", "count", "offer", "pop", "uncount", "free"}]
    /\ \A p \in Producers : at[p] \in {"out", "append", "count", "offer"}
    /\ \A c \in Consumers : at[c] \in {"out", "pop", "uncount", "free"}
    /\ item \in [Threads -> Items \cup {NoItem}]
    /\ taken \subseteq Items

(* The books agree with the deque at every step of every put and get: an     *)
(* item in the deque has a token, or is about to have one, or its token was  *)
(* taken to pop it ...                                                       *)
ItemTokens ==
    Len(deque) = semGet + Cardinality(InStep(Consumers, "pop"))
        + Cardinality(InStep(Producers, "count")) + Cardinality(InStep(Producers, "offer"))

(* ... a place is free, or taken by an item or on its behalf ...             *)
PlaceTokens ==
    Capacity = semPut + Len(deque) + Cardinality(InStep(Producers, "append"))
        + Cardinality(InStep(Consumers, "uncount")) + Cardinality(InStep(Consumers, "free"))

(* ... and the size lags by the threads that have still to count.            *)
SizeLags ==
    size = Len(deque) - Cardinality(InStep(Producers, "count"))
        + Cardinality(InStep(Consumers, "uncount"))

TokensAccounted ==
    semGet >= 0 /\ semPut >= 0 /\ ItemTokens /\ PlaceTokens /\ SizeLags

(* A thread that took a token finds an item: popleft never raises.           *)
NeverPopsEmpty == \A c \in Consumers : at[c] = "pop" => deque # <<>>

(* The queue keeps the promise of a bounded queue: no item is lost, given    *)
(* out twice or out of order, and there are never more than its capacity.    *)
Abstract == INSTANCE BoundedQueue WITH contents <- deque, taken <- taken

ImplementsQueue == Abstract!Spec
=============================================================================
