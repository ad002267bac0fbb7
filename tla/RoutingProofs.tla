--------------------------- MODULE RoutingProofs ---------------------------
(***************************************************************************)
(* Proofs about the registry and the strategies: the types, that the cache *)
(* of instance ids does not go stale, that round_robin spreads its          *)
(* selections evenly, and that what a task adds to a queue is taken off     *)
(* again.  They hold for any number of instances that come and go, of      *)
(* tasks, of models and of changes of the strategy.                        *)
(***************************************************************************)
EXTENDS Routing, FiniteSetTheorems, SequenceTheorems, WellFoundedInduction, TLAPS

(* The registry: a uuid is listed once and was registered.                   *)
RegistryInv ==
    /\ instances \in Seq([host : Hosts, id : Ids \cup {NoId}])
    /\ Len(instances) <= MaxIssued
    /\ taskinstances \in Seq(Uuids) /\ IsInjective(taskinstances)
    /\ Len(taskinstances) <= Len(instances)
    /\ Listed \subseteq DOMAIN instances
    /\ answering \subseteq Hosts

(* An entry of the cache is for the id of the instance it points to.         *)
CacheInv ==
    /\ DOMAIN idToUuid \subseteq Ids
    /\ \A i \in DOMAIN idToUuid :
         /\ idToUuid[i] \in DOMAIN instances
         /\ IdOf[HostOf(idToUuid[i])] = i
         /\ idToUuid[i] \in Listed \cup unforgotten

(* A task that is no longer new was routed to a registered uuid.             *)
RouteInv ==
    /\ status \in [Tasks -> {"new", "failed", "running", "done"}]
    /\ route \in [Tasks -> Uuids \cup {0}]
    /\ \A t \in Tasks : status[t] # "new" => route[t] \in DOMAIN instances

(* The places from first to last, round the end of the list.                 *)
Between(first, end, j) ==
    IF first <= end THEN first <= j /\ j < end ELSE first <= j \/ j < end

(* What a streak of selections from cs has left: the members from one place  *)
(* to the index have been selected once more than the others.                *)
StreakOf(cs, picks, index) ==
    /\ cs \in Seq(Uuids) /\ cs # <<>> /\ IsInjective(cs)
    /\ picks \in [ToSet(cs) -> Nat]
    /\ index \in 0..(Len(cs) - 1)
    /\ \E first \in 0..(Len(cs) - 1), rounds \in Nat :
         \A j \in 0..(Len(cs) - 1) :
            picks[cs[j + 1]] = IF Between(first, index, j) THEN rounds + 1 ELSE rounds

(* The index is 0 or one that a list of candidates has left; once there is   *)
(* a streak it is a place in its list.                                       *)
StrategyInv ==
    /\ strategy \in [name : Strategies, index : 0..MaxIssued]
    /\ \/ streak = NoStreak
       \/ /\ streak = [of |-> streak.of, picks |-> streak.picks]
          /\ strategy.name = "round_robin"
          /\ StreakOf(streak.of, streak.picks, strategy.index)

(* A queue counts no more tasks than its distribution has.                   *)
Queue == [pending : SUBSET Tasks, dist : SUBSET Tasks, taskCount : Nat]
QueueOK(q) ==
    /\ q \in Queue /\ IsFiniteSet(q.dist)
    /\ q.taskCount <= Cardinality(q.dist) /\ q.dist \cap Misfits = {}

QueueInv == DOMAIN queues \subseteq Uuids /\ \A u \in DOMAIN queues : QueueOK(queues[u])

(* The worker changes only queues that there are.                            *)
Update == [type : {"schedule", "completion"}, task : Tasks, uuid : Uuids]
UpdateInv ==
    /\ updates \in Seq(Update)
    /\ \/ worker = [pc |-> "idle"]
       \/ worker \in [pc : {"schedule", "completion", "add", "sub"},
                      task : Tasks, uuid : Uuids]
    /\ worker.pc \in {"add", "sub"} => worker.uuid \in DOMAIN queues

(* Where the prediction of a task can be: on its way in the updates or with  *)
(* the worker, or in a distribution.                                         *)
Scheduled(j, t) == updates[j].type = "schedule" /\ updates[j].task = t
Arriving(t) == worker.pc \in {"schedule", "add"} /\ worker.task = t
InDist(t) == \E u \in DOMAIN queues : t \in queues[u].dist

(* A prediction is on its way in at most once and is not in a distribution   *)
(* yet, and it only ever goes to the queue its task was routed to.           *)
OnceInv ==
    /\ \A t \in Tasks, j \in 1..Len(updates) :
         Scheduled(j, t) =>
            /\ updates[j].uuid = route[t] /\ status[t] # "new"
            /\ ~InDist(t)
            /\ \A k \in 1..Len(updates) : Scheduled(k, t) => k = j
    /\ \A t \in Tasks :
         Arriving(t) =>
            /\ worker.uuid = route[t] /\ status[t] # "new"
            /\ ~InDist(t)
            /\ \A k \in 1..Len(updates) : ~Scheduled(k, t)
    /\ \A u \in DOMAIN queues : \A t \in queues[u].pending \cup queues[u].dist :
         route[t] = u /\ status[t] # "new"
    /\ worker.pc = "sub" =>
         worker.uuid = route[worker.task] /\ status[worker.task] # "new"

(* What is in a distribution can still be taken off: it is pending, or       *)
(* cleared, or being subtracted.  Between caching and adding, a clear may    *)
(* come.                                                                     *)
DistInv ==
    /\ \A u \in DOMAIN queues : \A t \in queues[u].dist :
         \/ t \in queues[u].pending \cup cleared
         \/ worker = [pc |-> "sub", task |-> t, uuid |-> u]
    /\ worker.pc = "add" =>
         worker.task \in queues[worker.uuid].pending \cup cleared

(* The completion update of t is on its way to the queue of t.               *)
Returning(t, from) ==
    \E k \in from..Len(updates) :
        updates[k] = [type |-> "completion", task |-> t, uuid |-> route[t]]
Finished(t) == status[t] = "done" /\ ~Ambiguous(route[t])

(* The order of the updates: the completion of a finished task comes after   *)
(* its scheduling, wherever that is.                                         *)
DueInv ==
    \A t \in Tasks : Finished(t) =>
        /\ \A j \in 1..Len(updates) : Scheduled(j, t) => Returning(t, j + 1)
        /\ Arriving(t) => Returning(t, 1)
        /\ \A u \in DOMAIN queues : t \in queues[u].pending => CompletionDue(t, u)

-----------------------------------------------------------------------------
(* A set of numbers has a least member.                                      *)
LEMMA Least ==
    ASSUME NEW T, T \subseteq Nat, T # {}
    PROVE  \E n \in T : \A m \in T : n <= m
<1>1. \E n \in T : \A m \in T : ~(<<m, n>> \in OpToRel(<, Nat))
  BY NatLessThanWellFounded, WFMin
<1>2. \A m, n \in Nat : <<m, n>> \in OpToRel(<, Nat) <=> m < n
  BY DEF OpToRel
<1>3. PICK n \in T : \A m \in T : ~(<<m, n>> \in OpToRel(<, Nat))
  BY <1>1
<1>4. ASSUME NEW m \in T PROVE n <= m
  <2>1. m \in Nat /\ n \in Nat
    OBVIOUS
  <2>2. ~(m < n)
    BY <1>2, <1>3, <2>1
  <2>3. QED
    BY <2>1, <2>2
<1>5. QED
  BY <1>4

(* The function that Filtered is defined by, as a step from f.               *)
Unfolded(s, S, f, n) ==
    [k \in 0..n |-> IF k = 0 THEN <<>>
                    ELSE IF s[k] \in S THEN Append(f[k - 1], s[k]) ELSE f[k - 1]]

(* There is a function that satisfies the recursion: the least number up to  *)
(* which there is none would be one more than a number up to which there is  *)
(* one.                                                                      *)
LEMMA Unfolds ==
    ASSUME NEW s, NEW S, Len(s) \in Nat
    PROVE  \A n \in Nat : \E f : f = Unfolded(s, S, f, n)
<1> USE DEF Unfolded
<1> DEFINE Good(n) == \E f : f = Unfolded(s, S, f, n)
<1> DEFINE Bad == {n \in Nat : ~Good(n)}
<1>1. SUFFICES ASSUME Bad # {} PROVE FALSE
  BY DEF Bad
<1>2. PICK n \in Bad : \A m \in Bad : n <= m
  BY <1>1, Least
<1>3. n \in Nat /\ ~Good(n)
  BY <1>2
<1>4. n # 0
  <2>1. [k \in 0..0 |-> <<>>] = [k \in 0..0 |-> IF k = 0 THEN <<>>
            ELSE IF s[k] \in S THEN Append([j \in 0..0 |-> <<>>][k - 1], s[k])
                                ELSE [j \in 0..0 |-> <<>>][k - 1]]
    OBVIOUS
  <2>2. Good(0)
    BY <2>1
  <2>3. QED
    BY <1>3, <2>2
<1>5. Good(n - 1)
  <2>1. n - 1 \in Nat /\ ~(n <= n - 1)
    BY <1>3, <1>4
  <2> HIDE DEF Good
  <2>2. QED
    BY <1>2, <2>1
<1>6. PICK f : f = [k \in 0..n-1 |-> IF k = 0 THEN <<>>
            ELSE IF s[k] \in S THEN Append(f[k - 1], s[k]) ELSE f[k - 1]]
  BY <1>5
<1> DEFINE g == [k \in 0..n |-> IF k = 0 THEN <<>>
            ELSE IF s[k] \in S THEN Append(f[k - 1], s[k]) ELSE f[k - 1]]
<1>7. \A k \in 0..n-1 : g[k] = f[k]
  <2> TAKE k \in 0..n-1
  <2>1. k \in 0..n
    BY <1>3
  <2>2. f[k] = IF k = 0 THEN <<>>
            ELSE IF s[k] \in S THEN Append(f[k - 1], s[k]) ELSE f[k - 1]
    BY <1>6, Zenon
  <2>3. QED
    BY <2>1, <2>2
<1>8. g = [k \in 0..n |-> IF k = 0 THEN <<>>
            ELSE IF s[k] \in S THEN Append(g[k - 1], s[k]) ELSE g[k - 1]]
  <2>1. \A k \in 0..n : k # 0 => k - 1 \in 0..n-1
    BY <1>3
  <2> HIDE DEF g
  <2>2. \A k \in 0..n : k # 0 => g[k-1] = f[k-1]
    BY <2>1, <1>7
  <2> QED
    BY <2>2 DEF g
<1>9. Good(n)
  BY <1>8
<1>10. QED
  BY <1>3, <1>9

(* What the loop over a list keeps: the members that suit, once each if the  *)
(* list had them once.  The proof is by the least number of rounds that      *)
(* would go wrong.                                                           *)
LEMMA Filters ==
    ASSUME NEW T, NEW s \in Seq(T), NEW S
    PROVE  /\ Filtered(s, S) \in Seq(T)
           /\ ToSet(Filtered(s, S)) = ToSet(s) \cap S
           /\ IsInjective(s) => IsInjective(Filtered(s, S))
           /\ Len(Filtered(s, S)) <= Len(s)
<1> DEFINE f == CHOOSE g : g = Unfolded(s, S, g, Len(s))
<1>0. Len(s) \in Nat
  BY LenProperties
<1>1. f = Unfolded(s, S, f, Len(s))
  <2>1. \E g : g = Unfolded(s, S, g, Len(s))
    BY <1>0, Unfolds
  <2>2. QED
    BY <2>1, Zenon
<1>2. Filtered(s, S) = f[Len(s)]
  BY DEF Filtered, Unfolded
<1> HIDE DEF f
(* What has been gone through: its members of S, and none twice. *)
<1> DEFINE Good(n) ==
       /\ f[n] \in Seq(T) /\ Len(f[n]) <= n
       /\ \A j \in 1..Len(f[n]) : \E k \in 1..n : f[n][j] = s[k] /\ s[k] \in S
       /\ \A k \in 1..n : s[k] \in S => \E j \in 1..Len(f[n]) : f[n][j] = s[k]
       /\ IsInjective(s) => \A i, j \in 1..Len(f[n]) : f[n][i] = f[n][j] => i = j
<1> DEFINE Bad == {n \in 0..Len(s) : ~Good(n)}
<1>3. f[0] = <<>>
  BY <1>0, <1>1 DEF Unfolded
<1>4. Good(0)
  <2>1. <<>> \in Seq(T) /\ Len(<<>>) = 0 /\ 1..0 = {}
    OBVIOUS
  <2>2. QED
    BY <1>3, <2>1
<1>5. ASSUME NEW n \in 1..Len(s), Good(n - 1) PROVE Good(n)
  <2> DEFINE g == f[n - 1]
  <2>0. /\ n - 1 \in Nat /\ n - 1 \in 0..Len(s)
        /\ 1..n = (1..(n - 1)) \cup {n} /\ n \notin 1..(n - 1)
        /\ n \in Nat /\ 1..n \subseteq 1..Len(s) /\ 1..(n-1) \subseteq 1..n
    BY <1>0
  <2>1. f[n] = IF s[n] \in S THEN Append(g, s[n]) ELSE g
    <3>1. n \in 0..Len(s) /\ n # 0
      BY <1>0
    <3>2. QED
      BY <1>1, <3>1 DEF Unfolded
  <2>2. /\ g \in Seq(T) /\ Len(g) <= n - 1
        /\ \A j \in 1..Len(g) : \E k \in 1..(n - 1) : g[j] = s[k] /\ s[k] \in S
        /\ \A k \in 1..(n - 1) : s[k] \in S => \E j \in 1..Len(g) : g[j] = s[k]
        /\ IsInjective(s) => \A i, j \in 1..Len(g) : g[i] = g[j] => i = j
    BY <1>5
  <2> HIDE DEF g
  <2>3. Len(g) \in Nat
    BY <2>2, LenProperties
  <2>4. CASE s[n] \notin S
    <3>1. f[n] = g
      BY <2>1, <2>4
    <3>2. Len(g) <= n
      BY <2>0, <2>2, <2>3
    <3>3. \A j \in 1..Len(g) : \E k \in 1..n : g[j] = s[k] /\ s[k] \in S
      BY <2>0, <2>2
    <3>4. \A k \in 1..n : s[k] \in S => \E j \in 1..Len(g) : g[j] = s[k]
      BY <2>0, <2>2, <2>4
    <3>5. QED
      BY <2>2, <3>1, <3>2, <3>3, <3>4
  <2>5. CASE s[n] \in S
    <3>0. s[n] \in T
      BY ElementOfSeq
    <3>1. f[n] = Append(g, s[n])
      BY <2>1, <2>5
    <3>2. /\ f[n] \in Seq(T) /\ Len(f[n]) = Len(g) + 1
          /\ \A j \in 1..Len(g) : f[n][j] = g[j]
          /\ f[n][Len(g) + 1] = s[n]
      BY <2>2, <3>0, <3>1, AppendProperties
    <3>3. 1..Len(f[n]) = (1..Len(g)) \cup {Len(g) + 1} /\ Len(f[n]) <= n
      BY <2>0, <2>2, <2>3, <3>2
    <3>4. \A j \in 1..Len(f[n]) : \E k \in 1..n : f[n][j] = s[k] /\ s[k] \in S
      BY <2>0, <2>2, <2>5, <3>2, <3>3
    <3>5. \A k \in 1..n : s[k] \in S => \E j \in 1..Len(f[n]) : f[n][j] = s[k]
      BY <2>0, <2>2, <2>5, <3>2, <3>3
    <3>6. ASSUME IsInjective(s), NEW i \in 1..Len(f[n]), NEW j \in 1..Len(f[n]),
                 f[n][i] = f[n][j]
          PROVE  i = j
      <4>1. DOMAIN s = 1..Len(s)
        OBVIOUS
      <4>2. \A k \in 1..(n - 1) : s[k] # s[n]
        BY <2>0, <3>6, <4>1 DEF IsInjective
      <4>3. \A k \in 1..Len(g) : g[k] # s[n]
        BY <2>2, <4>2
      <4>4. CASE i \in 1..Len(g) /\ j \in 1..Len(g)
        BY <2>2, <3>2, <3>6, <4>4
      <4>5. CASE i = Len(g) + 1 /\ j \in 1..Len(g)
        BY <3>2, <3>6, <4>3, <4>5
      <4>6. CASE i \in 1..Len(g) /\ j = Len(g) + 1
        BY <3>2, <3>6, <4>3, <4>6
      <4>7. QED
        BY <3>3, <4>4, <4>5, <4>6
    <3>7. QED
      BY <3>2, <3>3, <3>4, <3>5, <3>6
  <2>6. QED
    BY <2>4, <2>5
<1> HIDE DEF Good
<1>6. Bad = {}
  <2>1. SUFFICES ASSUME Bad # {} PROVE FALSE
    OBVIOUS
  <2>2. PICK n \in Bad : \A m \in Bad : n <= m
    <3>1. Bad \subseteq Nat
      BY <1>0
    <3> HIDE DEF Bad
    <3>2. QED
      BY <2>1, <3>1, Least
  <2>3. n \in 1..Len(s)
    BY <1>0, <1>4, <2>2
  <2>4. n - 1 \in 0..Len(s) /\ ~(n <= n - 1)
    BY <1>0, <2>3
  <2>5. Good(n - 1)
    BY <2>2, <2>4
  <2>6. QED
    BY <1>5, <2>2, <2>3, <2>5
<1>7. Good(Len(s))
  BY <1>0, <1>6
<1> DEFINE r == f[Len(s)]
<1>8. /\ r \in Seq(T) /\ Len(r) <= Len(s)
      /\ \A j \in 1..Len(r) : \E k \in 1..Len(s) : r[j] = s[k] /\ s[k] \in S
      /\ \A k \in 1..Len(s) : s[k] \in S => \E j \in 1..Len(r) : r[j] = s[k]
      /\ IsInjective(s) => \A i, j \in 1..Len(r) : r[i] = r[j] => i = j
  BY <1>7 DEF Good
<1> HIDE DEF r
<1>9. DOMAIN r = 1..Len(r) /\ DOMAIN s = 1..Len(s)
  BY <1>8
<1>10. Filtered(s, S) = r
  BY <1>2 DEF r
<1>11. ToSet(r) = ToSet(s) \cap S
  <2>1. ASSUME NEW x \in ToSet(r) PROVE x \in ToSet(s) \cap S
    <3>1. PICK j \in 1..Len(r) : x = r[j]
      BY <1>9, <2>1 DEF ToSet
    <3>2. PICK k \in 1..Len(s) : r[j] = s[k] /\ s[k] \in S
      BY <1>8
    <3>3. QED
      BY <1>9, <3>1, <3>2 DEF ToSet
  <2>2. ASSUME NEW x \in ToSet(s) \cap S PROVE x \in ToSet(r)
    <3>1. PICK k \in 1..Len(s) : x = s[k] /\ s[k] \in S
      BY <1>9, <2>2 DEF ToSet
    <3>2. PICK j \in 1..Len(r) : r[j] = s[k]
      BY <1>8, <3>1
    <3>3. QED
      BY <1>9, <3>1, <3>2 DEF ToSet
  <2>3. QED
    BY <2>1, <2>2
<1>12. IsInjective(s) => IsInjective(r)
  <2>1. SUFFICES ASSUME IsInjective(s) PROVE IsInjective(r)
    OBVIOUS
  <2>2. \A i, j \in 1..Len(r) : r[i] = r[j] => i = j
    BY <1>8, <2>1
  <2>3. QED
    BY <1>9, <2>2 DEF IsInjective
<1>13. QED
  BY <1>8, <1>10, <1>11, <1>12

(* Taking a place out of a list.                                             *)
LEMMA Removed ==
    ASSUME NEW T, NEW s \in Seq(T), IsInjective(s), NEW k \in DOMAIN s,
           NEW r, r = RemoveAt(s, k)
    PROVE  /\ r \in Seq(T) /\ IsInjective(r)
           /\ ToSet(r) = ToSet(s) \ {s[k]}
           /\ Len(r) <= Len(s)
<1>1. Len(s) \in Nat /\ DOMAIN s = 1..Len(s) /\ \A i \in 1..Len(s) : s[i] \in T
  BY LenProperties, ElementOfSeq
<1>2. k \in 1..Len(s) /\ k \in Nat
  BY <1>1
<1> DEFINE a == SubSeq(s, 1, k - 1)
           b == SubSeq(s, k + 1, Len(s))
<1>3. a \in Seq(T) /\ Len(a) = k - 1 /\ \A i \in 1..(k - 1) : a[i] = s[i]
  <2>1. 1 \in Int /\ k - 1 \in Int /\ \A i \in 1..(k - 1) : s[i] \in T
    BY <1>1, <1>2
  <2>2. /\ a \in Seq(T)
        /\ Len(a) = IF 1 <= k - 1 THEN (k - 1) - 1 + 1 ELSE 0
        /\ \A i \in 1..((k - 1) - 1 + 1) : a[i] = s[1 + i - 1]
    BY <2>1, SubSeqProperties
  <2>3. \A i \in 1..(k - 1) : 1 + i - 1 = i
    OBVIOUS
  <2> HIDE DEF a
  <2>4. QED
    BY <1>2, <2>2, <2>3
<1>4. /\ b \in Seq(T) /\ Len(b) = Len(s) - k
      /\ \A i \in 1..(Len(s) - k) : b[i] = s[k + i]
  <2>1. Len(s) \in Int /\ k + 1 \in Int /\ \A i \in (k + 1)..Len(s) : s[i] \in T
    BY <1>1, <1>2
  <2>2. /\ b \in Seq(T)
        /\ Len(b) = IF k + 1 <= Len(s) THEN Len(s) - (k + 1) + 1 ELSE 0
        /\ \A i \in 1..(Len(s) - (k + 1) + 1) : b[i] = s[(k + 1) + i - 1]
    BY <2>1, SubSeqProperties
  <2> HIDE DEF b
  <2>3. Len(b) = Len(s) - k
    BY <1>1, <1>2, <2>2
  <2>4. ASSUME NEW i \in 1..(Len(s) - k) PROVE b[i] = s[k + i]
    <3>1. i \in 1..(Len(s) - (k + 1) + 1) /\ (k + 1) + i - 1 = k + i
      BY <1>1, <1>2
    <3>2. b[i] = s[(k + 1) + i - 1]
      BY <2>2, <3>1
    <3>3. QED
      BY <3>1, <3>2
  <2>5. QED
    BY <2>2, <2>3, <2>4
<1>5. r = a \o b
  BY DEF RemoveAt
<1> HIDE DEF a, b
<1>6. /\ r \in Seq(T) /\ Len(r) = Len(s) - 1
      /\ \A i \in 1..(Len(s) - 1) : r[i] = IF i < k THEN s[i] ELSE s[i + 1]
  <2>1. /\ r \in Seq(T) /\ Len(r) = Len(a) + Len(b)
        /\ \A i \in 1..(Len(a) + Len(b)) :
             r[i] = IF i <= Len(a) THEN a[i] ELSE b[i - Len(a)]
    <3>1. a \in Seq(T) /\ b \in Seq(T)
      BY <1>3, <1>4
    <3>2. QED
      BY <1>5, <3>1, ConcatProperties, ZenonT(30)
  <2>2. Len(a) + Len(b) = Len(s) - 1
    BY <1>1, <1>2, <1>3, <1>4
  <2>3. ASSUME NEW i \in 1..(Len(s) - 1) PROVE r[i] = IF i < k THEN s[i] ELSE s[i + 1]
    <3>1. CASE i < k
      <4>1. i \in 1..(k - 1) /\ i <= Len(a)
        BY <1>2, <1>3, <3>1
      <4>2. QED
        BY <1>3, <2>1, <2>2, <3>1, <4>1
    <3>2. CASE ~(i < k)
      <4>1. i - (k - 1) \in 1..(Len(s) - k) /\ ~(i <= k - 1) /\ k + (i - (k - 1)) = i + 1
        BY <1>1, <1>2, <3>2
      <4>2. r[i] = b[i - (k - 1)]
        BY <1>3, <2>1, <2>2, <4>1
      <4>3. QED
        BY <1>4, <3>2, <4>1, <4>2
    <3>3. QED
      BY <3>1, <3>2
  <2>4. QED
    BY <2>1, <2>2, <2>3
<1>7. DOMAIN r = 1..(Len(s) - 1)
  BY <1>6, LenProperties
<1>8. \A i, j \in 1..Len(s) : s[i] = s[j] => i = j
  BY <1>1 DEF IsInjective
<1>9. IsInjective(r)
  <2>1. ASSUME NEW i \in 1..(Len(s) - 1), NEW j \in 1..(Len(s) - 1), r[i] = r[j]
        PROVE  i = j
    <3> DEFINE p(x) == IF x < k THEN x ELSE x + 1
    <3>1. r[i] = s[p(i)] /\ r[j] = s[p(j)]
      BY <1>6
    <3>2. p(i) \in 1..Len(s) /\ p(j) \in 1..Len(s)
      BY <1>1, <1>2
    <3>3. p(i) = p(j)
      <4> HIDE DEF p
      <4> QED
        BY <1>8, <2>1, <3>1, <3>2
    <3>4. QED
      BY <1>2, <3>3
  <2>2. QED
    BY <1>7, <2>1 DEF IsInjective
<1>10. ToSet(r) = ToSet(s) \ {s[k]}
  <2>1. ASSUME NEW x \in ToSet(r) PROVE x \in ToSet(s) \ {s[k]}
    <3>1. PICK i \in 1..(Len(s) - 1) : x = r[i]
      BY <1>7 DEF ToSet
    <3>2. PICK j \in 1..Len(s) : x = s[j] /\ j # k
      <4>1. CASE i < k
        <5>1. i \in 1..Len(s) /\ i # k
          BY <1>1, <1>2, <4>1
        <5>2. QED
          BY <1>6, <3>1, <4>1, <5>1
      <4>2. CASE ~(i < k)
        <5>1. i + 1 \in 1..Len(s) /\ i + 1 # k
          BY <1>1, <1>2, <4>2
        <5>2. QED
          BY <1>6, <3>1, <4>2, <5>1
      <4>3. QED
        BY <4>1, <4>2
    <3>3. QED
      BY <1>1, <1>2, <1>8, <3>2 DEF ToSet
  <2>2. ASSUME NEW x \in ToSet(s) \ {s[k]} PROVE x \in ToSet(r)
    <3>1. PICK j \in 1..Len(s) : x = s[j]
      BY <1>1, <2>2 DEF ToSet
    <3>2. j # k
      BY <2>2, <3>1
    <3>3. CASE j < k
      <4>1. j \in 1..(Len(s) - 1)
        BY <1>1, <1>2, <3>3
      <4>2. x = r[j]
        BY <1>6, <3>1, <3>3, <4>1
      <4>3. QED
        BY <1>7, <4>1, <4>2 DEF ToSet
    <3>4. CASE ~(j < k)
      <4>1. j - 1 \in 1..(Len(s) - 1) /\ ~(j - 1 < k) /\ (j - 1) + 1 = j
        BY <1>1, <1>2, <3>2, <3>4
      <4>2. x = r[j - 1]
        BY <1>6, <3>1, <4>1
      <4>3. QED
        BY <1>7, <4>1, <4>2 DEF ToSet
    <3>5. QED
      BY <3>3, <3>4
  <2>3. QED
    BY <2>1, <2>2
<1>11. QED
  BY <1>1, <1>6, <1>9, <1>10

(* Appending a new member.                                                   *)
LEMMA AppendedSet ==
    ASSUME NEW T, NEW s \in Seq(T), NEW x \in T
    PROVE  ToSet(Append(s, x)) = ToSet(s) \cup {x}
<1> DEFINE r == Append(s, x)
<1>1. Len(s) \in Nat /\ DOMAIN s = 1..Len(s)
  BY LenProperties
<1>2. /\ r \in Seq(T) /\ Len(r) = Len(s) + 1
      /\ r[Len(s) + 1] = x /\ \A i \in 1..Len(s) : r[i] = s[i]
  BY AppendProperties
<1> HIDE DEF r
<1>3. DOMAIN r = 1..(Len(s) + 1) /\ 1..(Len(s) + 1) = (1..Len(s)) \cup {Len(s) + 1}
  BY <1>1, <1>2, LenProperties
<1>4. ToSet(r) = ToSet(s) \cup {x}
  BY <1>1, <1>2, <1>3 DEF ToSet
<1>5. QED
  BY <1>4 DEF r

(* The list stays without repetition.                                       *)
LEMMA AppendedOnce ==
    ASSUME NEW T, NEW s \in Seq(T), NEW x \in T, x \notin ToSet(s), IsInjective(s)
    PROVE  IsInjective(Append(s, x))
<1> DEFINE r == Append(s, x)
<1>1. Len(s) \in Nat /\ DOMAIN s = 1..Len(s)
  BY LenProperties
<1>2. /\ r \in Seq(T) /\ Len(r) = Len(s) + 1
      /\ r[Len(s) + 1] = x /\ \A i \in 1..Len(s) : r[i] = s[i]
  BY AppendProperties
<1> HIDE DEF r
<1>3. DOMAIN r = 1..(Len(s) + 1) /\ 1..(Len(s) + 1) = (1..Len(s)) \cup {Len(s) + 1}
  BY <1>1, <1>2, LenProperties
<1>4. \A i \in 1..Len(s) : s[i] # x
  BY <1>1 DEF ToSet
<1>5. \A i, j \in 1..Len(s) : s[i] = s[j] => i = j
  BY <1>1 DEF IsInjective
<1>6. \A i, j \in DOMAIN r : r[i] = r[j] => i = j
  BY <1>2, <1>3, <1>4, <1>5
<1>7. IsInjective(r)
  BY <1>6 DEF IsInjective
<1>8. QED
  BY <1>7 DEF r

(* The index of round_robin, kept within the list by the modulus.            *)
LEMMA Modulus ==
    ASSUME NEW i \in Nat, NEW n \in Nat \ {0}
    PROVE  /\ i % n \in 0..(n - 1)
           /\ i < n => i % n = i
           /\ (i + 1) % n = IF (i % n) + 1 = n THEN 0 ELSE (i % n) + 1
<1>1. \A j \in Nat : /\ j % n \in Int /\ j \div n \in Int
                     /\ 0 <= j % n /\ j % n < n /\ j = n * (j \div n) + (j % n)
  OBVIOUS
<1>2. /\ i % n \in Int /\ i \div n \in Int
      /\ 0 <= i % n /\ i % n < n /\ i = n * (i \div n) + (i % n)
  BY <1>1
<1>3. i + 1 \in Nat
  OBVIOUS
<1>4. /\ (i + 1) % n \in Int /\ (i + 1) \div n \in Int
      /\ 0 <= (i + 1) % n /\ (i + 1) % n < n
      /\ i + 1 = n * ((i + 1) \div n) + ((i + 1) % n)
  BY <1>1, <1>3
<1>5. \A p, q, r, s \in Int :
        r \in 0..(n - 1) /\ s \in 0..(n - 1) /\ n * p + r = n * q + s => r = s
  <2> TAKE p, q, r, s \in Int
  <2> HAVE r \in 0..(n - 1) /\ s \in 0..(n - 1) /\ n * p + r = n * q + s
  <2> QED
    OBVIOUS
<1>6. i < n => i % n = i
  OBVIOUS
<1>7. (i + 1) % n = IF (i % n) + 1 = n THEN 0 ELSE (i % n) + 1
  <2> DEFINE p == i \div n
             r == i % n
             q == (i + 1) \div n
             s == (i + 1) % n
  <2>1. p \in Int /\ r \in 0..(n - 1) /\ i = n * p + r
    BY <1>2
  <2>2. q \in Int /\ s \in 0..(n - 1) /\ i + 1 = n * q + s
    BY <1>4
  <2> HIDE DEF p, q, r, s
  <2>3. CASE r + 1 = n
    <3>1. n * (p + 1) + 0 = n * q + s
      BY <2>1, <2>2, <2>3
    <3>2. p + 1 \in Int /\ 0 \in Int /\ 0 \in 0..(n - 1) /\ s \in Int
      BY <2>1, <2>2
    <3>3. s = 0
      BY <1>5, <2>2, <3>1, <3>2
    <3>4. QED
      BY <2>3, <3>3 DEF r, s
  <2>4. CASE r + 1 # n
    <3>1. n * p + (r + 1) = n * q + s
      BY <2>1, <2>2
    <3>2. r + 1 \in Int /\ r + 1 \in 0..(n - 1) /\ s \in Int
      BY <2>1, <2>2, <2>4
    <3>3. s = r + 1
      BY <1>5, <2>1, <2>2, <3>1, <3>2
    <3>4. QED
      BY <2>4, <3>3 DEF r, s
  <2>5. QED
    BY <2>3, <2>4
<1>8. QED
  BY <1>2, <1>6, <1>7

-----------------------------------------------------------------------------
(* A set of numbers with a bound has a greatest member.                      *)
LEMMA Greatest ==
    ASSUME NEW n \in Nat, NEW T, T \subseteq 0..n, T # {}
    PROVE  \E x \in T : \A y \in T : y <= x
<1> DEFINE D == {d \in 0..n : n - d \in T}
<1>1. D \subseteq Nat
  OBVIOUS
<1>2. D # {}
  <2>1. PICK x : x \in T
    OBVIOUS
  <2>2. x \in 0..n /\ n - x \in 0..n /\ n - (n - x) = x
    BY <2>1
  <2>3. QED
    BY <2>1, <2>2
<1>3. PICK d \in D : \A e \in D : d <= e
  <2> HIDE DEF D
  <2> QED
    BY <1>1, <1>2, Least
<1>4. n - d \in T /\ d \in 0..n
  BY <1>3
<1>5. ASSUME NEW y \in T PROVE y <= n - d
  <2>1. y \in 0..n /\ n - y \in 0..n /\ n - (n - y) = y
    OBVIOUS
  <2>2. n - y \in D
    BY <1>5, <2>1
  <2>3. d <= n - y
    BY <1>3, <2>2
  <2>4. QED
    BY <1>4, <2>1, <2>3
<1>6. QED
  BY <1>4, <1>5

(* What the invariant says of the uuids and of the list.                     *)
LEMMA Registered ==
    ASSUME RegistryInv
    PROVE  /\ Len(instances) \in Nat /\ DOMAIN instances = 1..Len(instances)
           /\ DOMAIN instances \subseteq Uuids /\ MaxIssued \in Nat
           /\ Uuids = 1..MaxIssued
           /\ \A u \in DOMAIN instances : HostOf(u) \in Hosts
           /\ Len(taskinstances) \in Nat /\ DOMAIN taskinstances = 1..Len(taskinstances)
           /\ \A k \in DOMAIN taskinstances :
                taskinstances[k] \in Listed /\ taskinstances[k] \in DOMAIN instances
<1>1. MaxIssued \in Nat
  BY RoutingAssumption
<1>2. Len(instances) \in Nat /\ DOMAIN instances = 1..Len(instances)
  BY LenProperties DEF RegistryInv
<1>3. Len(taskinstances) \in Nat /\ DOMAIN taskinstances = 1..Len(taskinstances)
  BY LenProperties DEF RegistryInv
<1>4. DOMAIN instances \subseteq Uuids
  BY <1>1, <1>2 DEF RegistryInv, Uuids
<1>5. \A u \in DOMAIN instances : HostOf(u) \in Hosts
  <2> TAKE u \in DOMAIN instances
  <2>1. instances[u] \in [host : Hosts, id : Ids \cup {NoId}]
    BY <1>2, ElementOfSeq DEF RegistryInv
  <2>2. QED
    BY <2>1 DEF HostOf
<1>6. \A k \in DOMAIN taskinstances :
        taskinstances[k] \in Listed /\ taskinstances[k] \in DOMAIN instances
  BY DEF RegistryInv, Listed, ToSet
<1>7. QED
  BY <1>1, <1>2, <1>3, <1>4, <1>5, <1>6 DEF Uuids

(* The search by id finds a listed instance that answers and has the id.     *)
LEMMA Lookup ==
    ASSUME RegistryInv, NEW id, NEW k, k = SlowLookup(id), k # 0
    PROVE  /\ k \in DOMAIN taskinstances
           /\ HostOf(taskinstances[k]) \in answering
           /\ IdOf[HostOf(taskinstances[k])] = id
<1> DEFINE I == {i \in 1..Len(taskinstances) :
                    HostOf(taskinstances[i]) \in answering
                      /\ IdOf[HostOf(taskinstances[i])] = id}
<1>1. k = IF I # {} THEN Min(I) ELSE 0
  BY DEF SlowLookup, SelectInSeq
<1>2. I \subseteq Nat /\ I \subseteq DOMAIN taskinstances
  BY Registered
<1>3. \A i \in I : /\ HostOf(taskinstances[i]) \in answering
                   /\ IdOf[HostOf(taskinstances[i])] = id
  OBVIOUS
<1> HIDE DEF I
<1>4. \E n \in I : \A m \in I : n <= m
  BY <1>1, <1>2, Least
<1>5. Min(I) \in I
  BY <1>4 DEF Min
<1>6. QED
  BY <1>1, <1>2, <1>3, <1>5

(* RemoveTaskInstanceByAddress removes at a place in the list.               *)
LEMMA ByAddress ==
    ASSUME RegistryInv, NEW h, RemoveTaskInstanceByAddress(h)
    PROVE  \E k \in DOMAIN taskinstances : RemoveIndex(k)
<1> DEFINE I == {i \in 1..Len(taskinstances) : HostOf(taskinstances[i]) = h}
           k == IF I # {} THEN Min(I) ELSE 0
<1>1. k # 0 /\ RemoveIndex(k)
  BY DEF RemoveTaskInstanceByAddress, SelectInSeq
<1>2. I \subseteq Nat /\ I \subseteq DOMAIN taskinstances
  BY Registered
<1> HIDE DEF I
<1>3. \E n \in I : \A m \in I : n <= m
  BY <1>1, <1>2, Least
<1>4. Min(I) \in I
  BY <1>3 DEF Min
<1>5. QED
  BY <1>1, <1>2, <1>4

(* Who changes the registry.                                                 *)
LEMMA RegistryMoves ==
    ASSUME RegistryInv, [Next]_vars
    PROVE  \/ \E h \in Hosts : AddTaskInstance(h)
           \/ \E k \in DOMAIN taskinstances : RemoveIndex(k)
           \/ \E h \in Hosts : ToggleAnswering(h)
           \/ \E t \in Tasks : SubmitResult(t)
           \/ UNCHANGED <<registryVars, answering>>
<1>1. CASE UNCHANGED vars
  BY <1>1 DEF vars
<1>2. CASE \E h \in Hosts : RemoveTaskInstanceByAddress(h)
  BY <1>2, ByAddress
<1>3. CASE \E u \in Uuids : RemoveTaskInstance(u)
  BY <1>3 DEF RemoveTaskInstance
<1>4. CASE \E t \in Tasks, m \in Models : Schedule(t, m)
  BY <1>4 DEF Schedule
<1>5. CASE \E t \in Tasks : NotifyTaskCompletion(t)
  BY <1>5 DEF NotifyTaskCompletion, Complete, registryVars
<1>6. CASE \E name \in Strategies : SetStrategy(name)
  BY <1>6 DEF SetStrategy
<1>7. CASE ClearPendingTasks
  BY <1>7 DEF ClearPendingTasks
<1>8. CASE \/ TakeUpdate \/ Discard \/ CachePrediction
           \/ AddPrediction \/ PopPrediction \/ SubPrediction
  BY <1>8 DEF TakeUpdate, Discard, CachePrediction, AddPrediction, PopPrediction,
              SubPrediction, WorkerOnly
<1>9. QED
  BY <1>1, <1>2, <1>3, <1>4, <1>5, <1>6, <1>7, <1>8 DEF Next

(* A result is charged to an instance with the id of the one that ran it.    *)
LEMMA Charged ==
    ASSUME RegistryInv, CacheInv, NEW t \in Tasks,
           SubmitResult(t) \/ NotifyTaskCompletion(t)
    PROVE  \E v \in DOMAIN instances :
             /\ status[t] = "running" /\ Complete(t, v)
             /\ IdOf[HostOf(v)] = IdOf[HostOf(route[t])]
             /\ \/ UNCHANGED idToUuid
                \/ /\ idToUuid' = Cached(idToUuid, IdOf[HostOf(v)], v)
                   /\ v \in Listed
<1> DEFINE id == IdOf[HostOf(route[t])]
           k == SlowLookup(id)
<1>1. CASE SubmitResult(t) /\ id \in DOMAIN idToUuid
  <2>1. Complete(t, idToUuid[id]) /\ UNCHANGED idToUuid /\ status[t] = "running"
    BY <1>1 DEF SubmitResult
  <2>2. idToUuid[id] \in DOMAIN instances /\ IdOf[HostOf(idToUuid[id])] = id
    BY <1>1 DEF CacheInv
  <2>3. QED
    BY <2>1, <2>2
<1>2. CASE SubmitResult(t) /\ id \notin DOMAIN idToUuid
  <2>1. /\ k # 0 /\ Complete(t, taskinstances[k]) /\ status[t] = "running"
        /\ idToUuid' = Cached(idToUuid, id, taskinstances[k])
    BY <1>2 DEF SubmitResult
  <2> HIDE DEF k
  <2>2. k \in DOMAIN taskinstances /\ IdOf[HostOf(taskinstances[k])] = id
    BY <2>1, Lookup DEF k
  <2>3. taskinstances[k] \in Listed /\ taskinstances[k] \in DOMAIN instances
    BY <2>2, Registered
  <2>4. QED
    BY <2>1, <2>2, <2>3
<1>3. CASE NotifyTaskCompletion(t)
  <2>1. /\ k # 0 /\ Complete(t, taskinstances[k]) /\ status[t] = "running"
        /\ UNCHANGED idToUuid
    BY <1>3 DEF NotifyTaskCompletion
  <2> HIDE DEF k
  <2>2. k \in DOMAIN taskinstances /\ IdOf[HostOf(taskinstances[k])] = id
    BY <2>1, Lookup DEF k
  <2>3. taskinstances[k] \in DOMAIN instances
    BY <2>2, Registered
  <2>4. QED
    BY <2>1, <2>2, <2>3
<1>4. QED
  BY <1>1, <1>2, <1>3

(* A cached entry that is added points to where it should.                   *)
LEMMA CacheGrows ==
    ASSUME CacheInv, NEW id \in Ids \cup {NoId}, NEW u,
           id # NoId => IdOf[HostOf(u)] = id,
           NEW c, c = Cached(idToUuid, id, u)
    PROVE  /\ DOMAIN c \subseteq Ids
           /\ \A i \in DOMAIN c : \/ i \in DOMAIN idToUuid /\ c[i] = idToUuid[i]
                                  \/ i # NoId /\ i = id /\ c[i] = u
<1>1. DOMAIN c = (DOMAIN idToUuid \cup {id}) \ {NoId}
  BY DEF Cached
<1>2. \A i \in DOMAIN c : c[i] = IF i = id THEN u ELSE idToUuid[i]
  BY <1>1 DEF Cached
<1>3. QED
  BY <1>1, <1>2 DEF CacheInv

(* A registration keeps the list and the cache in order, whatever the host.  *)
LEMMA AddKeeps ==
    ASSUME RegistryInv, CacheInv, NEW h \in Hosts, AddTaskInstance(h)
    PROVE  RegistryInv' /\ CacheInv'
<1> DEFINE u == Len(instances) + 1
           new == [host |-> h, id |-> CachedId(h)]
<1>0. IdOf[h] \in Ids
  BY RoutingAssumption
<1>1. CachedId(h) \in Ids \cup {NoId} /\ (CachedId(h) # NoId => CachedId(h) = IdOf[h])
  BY <1>0 DEF CachedId
<1>2. new \in [host : Hosts, id : Ids \cup {NoId}] /\ new.host = h
  BY <1>1
<1>3. /\ u \in Uuids /\ instances' = Append(instances, new)
      /\ taskinstances' = Append(taskinstances, u)
      /\ idToUuid' = Cached(idToUuid, CachedId(h), u)
      /\ UNCHANGED <<answering, unforgotten>>
  BY DEF AddTaskInstance
<1> HIDE DEF new
<1>4. instances \in Seq([host : Hosts, id : Ids \cup {NoId}])
  BY DEF RegistryInv
<1>5. /\ instances' \in Seq([host : Hosts, id : Ids \cup {NoId}])
      /\ Len(instances') = Len(instances) + 1
      /\ instances'[Len(instances) + 1] = new
      /\ \A v \in 1..Len(instances) : instances'[v] = instances[v]
  BY <1>2, <1>3, <1>4, AppendProperties
<1>6. DOMAIN instances' = DOMAIN instances \cup {u} /\ u \notin DOMAIN instances
  <2>1. DOMAIN instances' = 1..(Len(instances) + 1)
    BY <1>5, LenProperties
  <2>2. QED
    BY <2>1, Registered
<1>7. /\ \A v \in DOMAIN instances : HostOf(v)' = HostOf(v)
      /\ instances'[u].host = h
  BY <1>2, <1>5, Registered DEF HostOf
<1>8. u \notin Listed /\ Listed \subseteq DOMAIN instances
  BY <1>6 DEF RegistryInv
<1>9. taskinstances \in Seq(Uuids) /\ IsInjective(taskinstances)
  BY DEF RegistryInv
<1> HIDE DEF u
<1>10. /\ taskinstances' \in Seq(Uuids) /\ IsInjective(taskinstances')
       /\ Len(taskinstances') = Len(taskinstances) + 1
       /\ Listed' = Listed \cup {u}
  <2>1. u \notin ToSet(taskinstances)
    BY <1>8 DEF Listed
  <2>2. u \in Uuids /\ taskinstances' = Append(taskinstances, u)
    BY <1>3 DEF u
  <2>3. /\ taskinstances' \in Seq(Uuids) /\ IsInjective(taskinstances')
        /\ Len(taskinstances') = Len(taskinstances) + 1
        /\ ToSet(taskinstances') = ToSet(taskinstances) \cup {u}
    BY <1>9, <2>1, <2>2, AppendProperties, AppendedSet, AppendedOnce
  <2>4. QED
    BY <2>3 DEF Listed
<1>11. RegistryInv'
  <2>1. Len(instances') <= MaxIssued
    BY <1>3, <1>5, Registered DEF u
  <2>2. Len(taskinstances') <= Len(instances')
    BY <1>5, <1>10, Registered DEF RegistryInv
  <2>3. Listed' \subseteq DOMAIN instances'
    BY <1>6, <1>8, <1>10
  <2>4. answering' \subseteq Hosts
    BY <1>3 DEF RegistryInv
  <2>5. QED
    BY <1>5, <1>10, <2>1, <2>2, <2>3, <2>4 DEF RegistryInv
<1>12. CacheInv'
  <2> DEFINE c == idToUuid'
  <2>1. /\ DOMAIN c \subseteq Ids
        /\ \A i \in DOMAIN c : \/ i \in DOMAIN idToUuid /\ c[i] = idToUuid[i]
                               \/ i # NoId /\ i = CachedId(h) /\ c[i] = u
    <3>1. c = [i \in (DOMAIN idToUuid \cup {CachedId(h)}) \ {NoId} |->
                 IF i = CachedId(h) THEN u ELSE idToUuid[i]]
      BY <1>3 DEF Cached
    <3>2. QED
      BY <1>1, <3>1 DEF CacheInv
  <2>2. ASSUME NEW i \in DOMAIN c
        PROVE  /\ c[i] \in DOMAIN instances' /\ IdOf[instances'[c[i]].host] = i
               /\ c[i] \in Listed' \cup unforgotten'
    <3>1. CASE i \in DOMAIN idToUuid /\ c[i] = idToUuid[i]
      <4>1. /\ idToUuid[i] \in DOMAIN instances /\ IdOf[HostOf(idToUuid[i])] = i
            /\ idToUuid[i] \in Listed \cup unforgotten
        BY <3>1 DEF CacheInv
      <4>2. QED
        BY <1>3, <1>6, <1>7, <1>10, <3>1, <4>1 DEF HostOf
    <3>2. CASE i # NoId /\ i = CachedId(h) /\ c[i] = u
      BY <1>1, <1>6, <1>7, <1>10, <3>2
    <3>3. QED
      BY <2>1, <2>2, <3>1, <3>2
  <2>3. QED
    BY <2>1, <2>2 DEF CacheInv, HostOf
<1>13. QED
  BY <1>11, <1>12

(* So does a removal: it deletes the entry of the id, or remembers that it   *)
(* could not.                                                                *)
LEMMA RemoveKeeps ==
    ASSUME RegistryInv, CacheInv, NEW k \in DOMAIN taskinstances, RemoveIndex(k)
    PROVE  RegistryInv' /\ CacheInv'
<1> DEFINE u == taskinstances[k]
<1>1. /\ taskinstances' = RemoveAt(taskinstances, k)
      /\ UNCHANGED <<instances, answering>>
      /\ IF HostOf(u) \in answering
         THEN idToUuid' = Forgotten(HostOf(u)) /\ UNCHANGED unforgotten
         ELSE unforgotten' = unforgotten \cup {u} /\ UNCHANGED idToUuid
  BY DEF RemoveIndex
<1>2. taskinstances \in Seq(Uuids) /\ IsInjective(taskinstances)
  BY DEF RegistryInv
<1>3. /\ taskinstances' \in Seq(Uuids) /\ IsInjective(taskinstances')
      /\ Listed' = Listed \ {u} /\ Len(taskinstances') <= Len(taskinstances)
  <2>1. /\ taskinstances' \in Seq(Uuids) /\ IsInjective(taskinstances')
        /\ ToSet(taskinstances') = ToSet(taskinstances) \ {taskinstances[k]}
        /\ Len(taskinstances') <= Len(taskinstances)
    BY <1>1, <1>2, Removed
  <2>2. QED
    BY <2>1 DEF Listed
<1> HIDE DEF u
<1>4. RegistryInv'
  <2>1. Len(taskinstances') \in Nat
    BY <1>3, LenProperties
  <2>2. Len(taskinstances') <= Len(instances')
    BY <1>1, <1>3, <2>1, Registered DEF RegistryInv
  <2>3. QED
    BY <1>1, <1>3, <2>2 DEF RegistryInv
<1>5. CASE HostOf(u) \in answering
  <2>1. /\ DOMAIN idToUuid' = DOMAIN idToUuid \ {IdOf[HostOf(u)]}
        /\ \A i \in DOMAIN idToUuid' : idToUuid'[i] = idToUuid[i]
        /\ UNCHANGED unforgotten
    BY <1>1, <1>5 DEF Forgotten
  <2>2. ASSUME NEW i \in DOMAIN idToUuid' PROVE idToUuid[i] # u
    BY <2>1 DEF CacheInv
  <2>3. QED
    BY <1>1, <1>3, <1>4, <2>1, <2>2 DEF CacheInv, HostOf
<1>6. CASE HostOf(u) \notin answering
  BY <1>1, <1>3, <1>4, <1>6 DEF CacheInv, HostOf
<1>7. QED
  BY <1>5, <1>6

(* No step spoils the registry or the cache.                                 *)
LEMMA RegistryStep ==
    RegistryInv /\ CacheInv /\ [Next]_vars => RegistryInv' /\ CacheInv'
<1> SUFFICES ASSUME RegistryInv, CacheInv, [Next]_vars
             PROVE  RegistryInv' /\ CacheInv'
  OBVIOUS
<1>1. CASE \E h \in Hosts : AddTaskInstance(h)
  BY <1>1, AddKeeps
<1>2. CASE \E k \in DOMAIN taskinstances : RemoveIndex(k)
  BY <1>2, RemoveKeeps
<1>3. CASE \E h \in Hosts : ToggleAnswering(h)
  <2>1. PICK h \in Hosts : ToggleAnswering(h)
    BY <1>3
  <2>2. answering' \subseteq Hosts /\ UNCHANGED registryVars
    BY <2>1 DEF ToggleAnswering, RegistryInv
  <2>3. QED
    BY <2>2 DEF RegistryInv, CacheInv, registryVars, Listed, HostOf
<1>4. CASE \E t \in Tasks : SubmitResult(t)
  <2>1. PICK t \in Tasks : SubmitResult(t)
    BY <1>4
  <2>2. PICK v \in DOMAIN instances :
             /\ status[t] = "running" /\ Complete(t, v)
             /\ IdOf[HostOf(v)] = IdOf[HostOf(route[t])]
             /\ \/ UNCHANGED idToUuid
                \/ /\ idToUuid' = Cached(idToUuid, IdOf[HostOf(v)], v)
                   /\ v \in Listed
    BY <2>1, Charged
  <2>3. UNCHANGED <<instances, taskinstances, unforgotten, answering>>
    BY <2>2 DEF Complete
  <2>4. RegistryInv'
    BY <2>3 DEF RegistryInv, Listed
  <2>5. CASE UNCHANGED idToUuid
    BY <2>3, <2>4, <2>5 DEF CacheInv, Listed, HostOf
  <2>6. CASE idToUuid' = Cached(idToUuid, IdOf[HostOf(v)], v) /\ v \in Listed
    <3>1. IdOf[HostOf(v)] \in Ids /\ IdOf[HostOf(v)] # NoId
      BY Registered, RoutingAssumption
    <3> DEFINE c == Cached(idToUuid, IdOf[HostOf(v)], v)
    <3>2. /\ DOMAIN c \subseteq Ids
          /\ \A i \in DOMAIN c : \/ i \in DOMAIN idToUuid /\ c[i] = idToUuid[i]
                                 \/ i # NoId /\ i = IdOf[HostOf(v)] /\ c[i] = v
      BY <3>1, CacheGrows
    <3>3. idToUuid' = c
      BY <2>6
    <3> HIDE DEF c
    <3>4. ASSUME NEW i \in DOMAIN c
          PROVE  /\ c[i] \in DOMAIN instances /\ IdOf[HostOf(c[i])] = i
                 /\ c[i] \in Listed \cup unforgotten
      BY <2>6, <3>2 DEF CacheInv
    <3>5. QED
      BY <2>3, <2>4, <3>2, <3>3, <3>4 DEF CacheInv, Listed, HostOf
  <2>7. QED
    BY <2>2, <2>4, <2>5, <2>6
<1>5. CASE UNCHANGED <<registryVars, answering>>
  BY <1>5 DEF RegistryInv, CacheInv, registryVars, Listed, HostOf
<1>6. QED
  BY <1>1, <1>2, <1>3, <1>4, <1>5, RegistryMoves

-----------------------------------------------------------------------------
(* A function on the first n numbers is a sequence of length n.              *)
LEMMA Sequence ==
    ASSUME NEW T, NEW n \in Nat, NEW s \in [1..n -> T]
    PROVE  s \in Seq(T) /\ Len(s) = n
<1>1. s \in Seq(T)
  BY SeqDef
<1>2. Len(s) \in Nat /\ DOMAIN s = 1..Len(s) /\ DOMAIN s = 1..n
  BY <1>1, LenProperties
<1>3. QED
  BY <1>1, <1>2

(* The registry after the configuration was loaded; the later of two         *)
(* entries with one id is cached.                                            *)
LEMMA RegistryInit == Init => RegistryInv /\ CacheInv
<1> SUFFICES ASSUME Init PROVE RegistryInv /\ CacheInv
  OBVIOUS
<1> DEFINE n == Len(Configured)
<1>1. /\ n \in Nat /\ n <= MaxIssued /\ DOMAIN Configured = 1..n
      /\ \A k \in 1..n : Configured[k] \in Hosts
      /\ Started \subseteq Hosts /\ MaxIssued \in Nat
      /\ \A h \in Hosts : IdOf[h] \in Ids /\ IdOf[h] # NoId
  <2>1. Configured \in Seq(Hosts)
    BY RoutingAssumption
  <2>2. \A h \in Hosts : IdOf[h] \in Ids /\ IdOf[h] # NoId
    BY RoutingAssumption
  <2>3. QED
    BY <2>1, <2>2, LenProperties, ElementOfSeq, RoutingAssumption
<1>2. /\ answering = Started
      /\ instances = [k \in DOMAIN Configured |->
                      [host |-> Configured[k], id |-> CachedId(Configured[k])]]
      /\ taskinstances = [k \in DOMAIN Configured |-> k]
      /\ idToUuid = [i \in {IdOf[h] : h \in ToSet(Configured) \cap answering} |->
                     CHOOSE u \in DOMAIN Configured :
                         /\ instances[u].id = i
                         /\ \A v \in DOMAIN Configured :
                                instances[v].id = i => v <= u]
  BY DEF Init
<1> HIDE DEF n
<1>3. \A k \in 1..n : /\ instances[k] \in [host : Hosts, id : Ids \cup {NoId}]
                      /\ HostOf(k) = Configured[k]
                      /\ instances[k].id = CachedId(Configured[k])
  BY <1>1, <1>2 DEF CachedId, HostOf
<1>4. /\ instances \in [1..n -> [host : Hosts, id : Ids \cup {NoId}]]
      /\ taskinstances \in [1..n -> Uuids]
  <2>1. \A k \in 1..n : k \in Uuids
    BY <1>1 DEF Uuids
  <2>2. taskinstances \in [1..n -> Uuids]
    BY <1>1, <1>2, <2>1
  <2>3. instances = [k \in 1..n |-> instances[k]]
    BY <1>1, <1>2
  <2>4. QED
    BY <1>3, <2>2, <2>3
<1>5. /\ instances \in Seq([host : Hosts, id : Ids \cup {NoId}])
      /\ taskinstances \in Seq(Uuids)
  BY <1>1, <1>4, Sequence
<1>6. Len(instances) = n /\ Len(taskinstances) = n
  BY <1>1, <1>4, Sequence
<1>7. /\ DOMAIN instances = 1..n /\ Listed = 1..n /\ IsInjective(taskinstances)
  <2>1. DOMAIN taskinstances = 1..n /\ \A k \in 1..n : taskinstances[k] = k
    BY <1>1, <1>2
  <2>2. Listed = 1..n
    BY <2>1 DEF Listed, ToSet
  <2>3. IsInjective(taskinstances)
    BY <2>1 DEF IsInjective
  <2>4. QED
    BY <1>4, <2>2, <2>3
<1>8. RegistryInv
  BY <1>1, <1>2, <1>5, <1>6, <1>7 DEF RegistryInv
<1>9. CacheInv
  <2>1. DOMAIN idToUuid = {IdOf[h] : h \in ToSet(Configured) \cap answering}
    BY <1>2
  <2>2. ToSet(Configured) \subseteq Hosts
    BY <1>1 DEF ToSet
  <2>3. DOMAIN idToUuid \subseteq Ids
    BY <1>1, <2>1, <2>2
  <2>4. ASSUME NEW i \in DOMAIN idToUuid
        PROVE idToUuid[i] \in 1..n /\ IdOf[HostOf(idToUuid[i])] = i
    <3>1. PICK h \in ToSet(Configured) \cap answering : i = IdOf[h]
      BY <2>1
    <3>2. PICK k \in 1..n : h = Configured[k]
      BY <1>1, <3>1 DEF ToSet
    <3> DEFINE T == {u \in 1..n : instances[u].id = i}
    <3>3. k \in T
      BY <1>3, <3>1, <3>2 DEF CachedId
    <3>4. T \subseteq 0..n
      BY <1>1
    <3>5. PICK x \in T : \A y \in T : y <= x
      <4> HIDE DEF T
      <4> QED
        BY <1>1, <3>3, <3>4, Greatest
    <3> DEFINE Latest(u) == /\ instances[u].id = i
                            /\ \A v \in 1..n : instances[v].id = i => v <= u
    <3>6. x \in 1..n /\ Latest(x)
      BY <3>5
    <3>7. idToUuid[i] = CHOOSE u \in 1..n : Latest(u)
      BY <1>1, <1>2, <2>4
    <3>8. idToUuid[i] \in 1..n /\ instances[idToUuid[i]].id = i
      <4> DEFINE c == CHOOSE u \in 1..n : Latest(u)
      <4>1. c \in 1..n /\ Latest(c)
        <5> HIDE DEF Latest
        <5> QED
          BY <3>6
      <4>2. idToUuid[i] = c
        BY <3>7
      <4> HIDE DEF c
      <4>3. QED
        BY <4>1, <4>2
    <3>9. i # NoId
      BY <2>3, RoutingAssumption
    <3>10. QED
      BY <1>3, <3>8, <3>9 DEF CachedId
  <2>5. QED
    BY <1>7, <2>3, <2>4 DEF CacheInv
<1>10. QED
  BY <1>8, <1>9

-----------------------------------------------------------------------------
(* The candidates are listed, once each.                                     *)
LEMMA CandidateList ==
    ASSUME RegistryInv, NEW m, NEW cs, cs = Candidates(m)
    PROVE  /\ cs \in Seq(Uuids) /\ IsInjective(cs)
           /\ Len(cs) \in Nat /\ DOMAIN cs = 1..Len(cs) /\ Len(cs) <= MaxIssued
           /\ ToSet(cs) \subseteq Listed
<1> DEFINE S == {u \in Listed : Serves[HostOf(u)] = m /\ instances[u].id # NoId}
<1>1. cs = Filtered(taskinstances, S)
  BY DEF Candidates
<1> HIDE DEF S
<1>2. taskinstances \in Seq(Uuids) /\ IsInjective(taskinstances)
  BY DEF RegistryInv
<1>3. /\ cs \in Seq(Uuids) /\ ToSet(cs) = ToSet(taskinstances) \cap S
      /\ IsInjective(cs) /\ Len(cs) <= Len(taskinstances)
  BY <1>1, <1>2, Filters
<1>4. Len(cs) \in Nat /\ DOMAIN cs = 1..Len(cs)
  BY <1>3, LenProperties
<1>5. Len(cs) <= MaxIssued
  BY <1>3, <1>4, Registered DEF RegistryInv
<1>6. QED
  BY <1>3, <1>4, <1>5 DEF Listed

(* Who routes a task, or ends it.                                            *)
LEMMA TaskMoves ==
    ASSUME RegistryInv, [Next]_vars
    PROVE  \/ \E t \in Tasks, m \in Models : Schedule(t, m)
           \/ \E t \in Tasks : SubmitResult(t) \/ NotifyTaskCompletion(t)
           \/ \E name \in Strategies : SetStrategy(name)
           \/ ClearPendingTasks
           \/ \/ TakeUpdate \/ Discard \/ CachePrediction
              \/ AddPrediction \/ PopPrediction \/ SubPrediction
           \/ UNCHANGED <<strategyVars, taskVars, updates, worker, streak>>
<1>1. CASE UNCHANGED vars
  BY <1>1 DEF vars
<1>2. CASE \E h \in Hosts : AddTaskInstance(h) \/ ToggleAnswering(h)
  BY <1>2 DEF AddTaskInstance, ToggleAnswering
<1>3. CASE \E h \in Hosts : RemoveTaskInstanceByAddress(h)
  BY <1>3, ByAddress DEF RemoveIndex
<1>4. CASE \E u \in Uuids : RemoveTaskInstance(u)
  BY <1>4 DEF RemoveTaskInstance, RemoveIndex
<1>5. QED
  BY <1>1, <1>2, <1>3, <1>4 DEF Next

(* The registration numbers stay, with their hosts.                          *)
LEMMA Keeps ==
    ASSUME RegistryInv, [Next]_vars
    PROVE  /\ DOMAIN instances \subseteq DOMAIN instances'
           /\ \A u \in DOMAIN instances : instances'[u] = instances[u]
<1>1. CASE \E h \in Hosts : AddTaskInstance(h)
  <2>1. PICK h \in Hosts :
          instances' = Append(instances, [host |-> h, id |-> CachedId(h)])
    BY <1>1 DEF AddTaskInstance
  <2>2. CachedId(h) \in Ids \cup {NoId}
    BY RoutingAssumption DEF CachedId
  <2> DEFINE new == [host |-> h, id |-> CachedId(h)]
             R == [host : Hosts, id : Ids \cup {NoId}]
  <2>3. new \in R
    BY <2>2
  <2>4. instances \in Seq(R) /\ instances' = Append(instances, new)
    BY <2>1 DEF RegistryInv
  <2> HIDE DEF new, R
  <2>5. /\ instances' \in Seq(R) /\ Len(instances') = Len(instances) + 1
        /\ \A v \in 1..Len(instances) : instances'[v] = instances[v]
    BY <2>3, <2>4, AppendProperties
  <2>6. DOMAIN instances' = 1..(Len(instances) + 1)
    BY <2>5, LenProperties
  <2>7. QED
    BY <2>5, <2>6, Registered
<1>2. CASE UNCHANGED instances
  BY <1>2
<1>3. QED
  BY <1>1, <1>2, RegistryMoves, Charged DEF RemoveIndex, ToggleAnswering, SubmitResult,
     Complete, registryVars

(* Tasks are routed to registered uuids, which stay registered numbers.      *)
LEMMA RouteStep ==
    RegistryInv /\ RouteInv /\ [Next]_vars => RouteInv'
<1> SUFFICES ASSUME RegistryInv, RouteInv, [Next]_vars PROVE RouteInv'
  OBVIOUS
<1>1. DOMAIN instances \subseteq DOMAIN instances'
  BY Keeps
<1>2. CASE \E t \in Tasks, m \in Models : Schedule(t, m)
  <2>1. PICK t \in Tasks, m \in Models : Schedule(t, m)
    BY <1>2
  <2> DEFINE cs == Candidates(m)
  <2>2. PICK u \in ToSet(cs) :
          /\ route' = [route EXCEPT ![t] = u]
          /\ \/ status' = [status EXCEPT ![t] = "running"]
             \/ status' = [status EXCEPT ![t] = "failed"]
    BY <2>1 DEF Schedule
  <2> HIDE DEF cs
  <2>3. u \in DOMAIN instances /\ u \in Uuids
    BY CandidateList, Registered DEF RegistryInv, cs
  <2>4. QED
    BY <1>1, <2>2, <2>3 DEF RouteInv
<1>3. CASE \E t \in Tasks : SubmitResult(t) \/ NotifyTaskCompletion(t)
  <2>1. PICK t \in Tasks : /\ status[t] = "running" /\ UNCHANGED route
                           /\ status' = [status EXCEPT ![t] = "done"]
    BY <1>3 DEF SubmitResult, NotifyTaskCompletion, Complete
  <2>2. QED
    BY <1>1, <2>1 DEF RouteInv
<1>4. CASE UNCHANGED taskVars
  BY <1>1, <1>4 DEF RouteInv, taskVars
<1>5. QED
  BY <1>2, <1>3, <1>4, TaskMoves DEF SetStrategy, ClearPendingTasks, TakeUpdate, Discard,
     CachePrediction, AddPrediction, PopPrediction, SubPrediction, WorkerOnly

-----------------------------------------------------------------------------
(* One more selection keeps the picks even: the places that are ahead are    *)
(* those from the first selection to the index.                              *)
LEMMA Turn ==
    ASSUME NEW cs, NEW picks, NEW i, StreakOf(cs, picks, i),
           NEW q, q = [picks EXCEPT ![cs[i + 1]] = @ + 1],
           NEW k, k = IF i + 1 = Len(cs) THEN 0 ELSE i + 1
    PROVE  StreakOf(cs, q, k)
<1> DEFINE n == Len(cs)
<1>1. /\ cs \in Seq(Uuids) /\ cs # <<>> /\ IsInjective(cs)
      /\ picks \in [ToSet(cs) -> Nat] /\ i \in 0..(n - 1)
  BY DEF StreakOf
<1>2. n \in Nat /\ n > 0 /\ DOMAIN cs = 1..n
  BY <1>1, LenProperties, EmptySeq
<1>3. PICK first \in 0..(n - 1), rounds \in Nat :
         \A j \in 0..(n - 1) :
            picks[cs[j + 1]] = IF Between(first, i, j) THEN rounds + 1 ELSE rounds
  BY DEF StreakOf
<1> HIDE DEF n
<1>4. \A a, b \in 1..n : cs[a] = cs[b] => a = b
  BY <1>1, <1>2 DEF IsInjective
<1>5. \A j \in 0..(n - 1) : j + 1 \in 1..n /\ cs[j + 1] \in ToSet(cs)
  BY <1>2, SMTT(30) DEF ToSet
<1>6. q \in [ToSet(cs) -> Nat]
  BY <1>1, <1>5
<1>7. \A j \in 0..(n - 1) :
        q[cs[j + 1]] = IF j = i THEN picks[cs[j + 1]] + 1 ELSE picks[cs[j + 1]]
  <2> TAKE j \in 0..(n - 1)
  <2>1. j # i => cs[j + 1] # cs[i + 1]
    <3>1. j + 1 \in 1..n /\ i + 1 \in 1..n
      BY <1>1, <1>5
    <3>2. j \in Int /\ i \in Int
      BY <1>1, <1>2
    <3>3. QED
      BY <1>4, <3>1, <3>2
  <2>2. cs[j + 1] \in ToSet(cs) /\ cs[i + 1] \in ToSet(cs)
    BY <1>1, <1>5
  <2>3. QED
    BY <1>1, <2>1, <2>2
<1>8. k = IF i + 1 = n THEN 0 ELSE i + 1
  BY DEF n
<1>9. k \in 0..(n - 1)
  BY <1>1, <1>2, <1>8
<1>10. ~Between(first, i, i)
  BY <1>1, <1>2 DEF Between
<1>11. CASE k # first
  <2>1. \A j \in 0..(n - 1) : Between(first, k, j) <=> Between(first, i, j) \/ j = i
    <3> TAKE j \in 0..(n - 1)
    <3> QED
      BY <1>1, <1>2, <1>8, <1>11 DEF Between
  <2>2. ASSUME NEW j \in 0..(n - 1)
        PROVE  q[cs[j + 1]] = IF Between(first, k, j) THEN rounds + 1 ELSE rounds
    <3>1. CASE j = i
      <4>1. q[cs[j + 1]] = picks[cs[j + 1]] + 1 /\ picks[cs[j + 1]] = rounds
        BY <1>3, <1>7, <1>10, <3>1
      <4>2. Between(first, k, j)
        BY <2>1, <3>1
      <4>3. QED
        BY <4>1, <4>2
    <3>2. CASE j # i
      <4>1. q[cs[j + 1]] = picks[cs[j + 1]]
        BY <1>7, <3>2
      <4>2. Between(first, k, j) <=> Between(first, i, j)
        BY <2>1, <3>2
      <4>3. QED
        BY <1>3, <4>1, <4>2
    <3>3. QED
      BY <3>1, <3>2
  <2>3. QED
    BY <1>1, <1>6, <1>9, <2>2 DEF StreakOf, n
<1>12. CASE k = first
  <2>1. \A j \in 0..(n - 1) : /\ Between(first, i, j) \/ j = i
                              /\ ~Between(first, k, j)
    <3> TAKE j \in 0..(n - 1)
    <3> QED
      BY <1>1, <1>2, <1>8, <1>12 DEF Between
  <2>2. ASSUME NEW j \in 0..(n - 1)
        PROVE  q[cs[j + 1]] = IF Between(first, k, j) THEN (rounds + 1) + 1
                                                      ELSE rounds + 1
    <3>1. CASE j = i
      <4>1. q[cs[j + 1]] = picks[cs[j + 1]] + 1 /\ picks[cs[j + 1]] = rounds
        BY <1>3, <1>7, <1>10, <3>1
      <4>2. QED
        BY <2>1, <4>1
    <3>2. CASE j # i
      <4>1. q[cs[j + 1]] = picks[cs[j + 1]]
        BY <1>7, <3>2
      <4>2. picks[cs[j + 1]] = rounds + 1
        BY <1>3, <2>1, <3>2
      <4>3. QED
        BY <2>1, <4>1, <4>2
    <3>3. QED
      BY <3>1, <3>2
  <2>3. rounds + 1 \in Nat
    OBVIOUS
  <2>4. QED
    BY <1>1, <1>6, <1>9, <2>2, <2>3 DEF StreakOf, n
<1>13. QED
  BY <1>11, <1>12

(* A streak may start at any place.                                          *)
LEMMA FreshStreak ==
    ASSUME NEW cs \in Seq(Uuids), cs # <<>>, IsInjective(cs), NEW i \in 0..(Len(cs) - 1)
    PROVE  StreakOf(cs, [v \in ToSet(cs) |-> 0], i)
<1> DEFINE p == [v \in ToSet(cs) |-> 0]
<1>1. Len(cs) \in Nat /\ DOMAIN cs = 1..Len(cs)
  BY LenProperties
<1>2. p \in [ToSet(cs) -> Nat]
  OBVIOUS
<1>3. \A j \in 0..(Len(cs) - 1) : p[cs[j + 1]] = 0 /\ ~Between(i, i, j)
  <2> TAKE j \in 0..(Len(cs) - 1)
  <2>1. cs[j + 1] \in ToSet(cs)
    BY <1>1 DEF ToSet
  <2>2. ~Between(i, i, j)
    BY <1>1 DEF Between
  <2>3. QED
    BY <2>1, <2>2
<1> HIDE DEF p
<1>4. \A j \in 0..(Len(cs) - 1) : p[cs[j + 1]] = IF Between(i, i, j) THEN 0 + 1 ELSE 0
  BY <1>3
<1>5. 0 \in Nat
  OBVIOUS
<1>6. StreakOf(cs, p, i)
  BY <1>2, <1>4, <1>5 DEF StreakOf
<1>7. QED
  BY <1>6 DEF p

(* A selection goes on with the streak of its candidates or starts one.      *)
LEMMA ScheduleStreak ==
    ASSUME RegistryInv, StrategyInv, NEW t \in Tasks, NEW m \in Models, Schedule(t, m)
    PROVE  StrategyInv'
<1> DEFINE cs == Candidates(m)
<1>1. PICK u \in ToSet(cs) :
        /\ cs # <<>> /\ Selects(cs, u)
        /\ streak' = IF strategy.name = "round_robin" THEN Picked(cs, u) ELSE NoStreak
        /\ strategy' = IF strategy.name = "round_robin"
                       THEN [strategy EXCEPT !.index = Advanced(cs)] ELSE strategy
  BY DEF Schedule
<1>2. /\ cs \in Seq(Uuids) /\ IsInjective(cs)
      /\ Len(cs) \in Nat /\ DOMAIN cs = 1..Len(cs) /\ Len(cs) <= MaxIssued
  BY CandidateList
<1>3. cs # <<>> /\ Len(cs) # 0
  BY <1>1, <1>2, EmptySeq
<1> HIDE DEF cs
<1>4. strategy \in [name : Strategies, index : 0..MaxIssued] /\ MaxIssued \in Nat
  BY RoutingAssumption DEF StrategyInv
<1>5. CASE strategy.name # "round_robin"
  BY <1>1, <1>4, <1>5 DEF StrategyInv
<1>6. CASE strategy.name = "round_robin"
  <2> DEFINE i == strategy.index
             n == Len(cs)
             at == i % n
             old == IF streak.of = cs THEN streak.picks ELSE [v \in ToSet(cs) |-> 0]
  <2>1. i \in Nat /\ n \in Nat \ {0}
    BY <1>2, <1>3, <1>4
  <2>2. /\ at \in 0..(n - 1) /\ (i < n => at = i)
        /\ (i + 1) % n = IF at + 1 = n THEN 0 ELSE at + 1
    <3> HIDE DEF i, n
    <3> QED
      BY <2>1, Modulus
  <2>3. u = cs[at + 1]
    BY <1>1, <1>6 DEF Selects
  <2>4. /\ strategy' = [strategy EXCEPT !.index = (i + 1) % n]
        /\ streak' = [of |-> cs, picks |-> [old EXCEPT ![u] = @ + 1]]
    BY <1>1, <1>6 DEF Advanced, Picked
  <2> HIDE DEF n, at, old
  <2>5. StreakOf(cs, old, at)
    <3>1. CASE streak.of = cs
      <4>1. streak # NoStreak
        BY <1>3, <3>1 DEF NoStreak
      <4>2. StreakOf(cs, streak.picks, i)
        BY <3>1, <4>1 DEF StrategyInv
      <4>3. i \in 0..(n - 1)
        BY <4>2 DEF StreakOf, n
      <4>4. at = i
        BY <2>1, <2>2, <4>3
      <4>5. QED
        BY <3>1, <4>2, <4>4 DEF old
    <3>2. CASE streak.of # cs
      BY <1>2, <1>3, <2>2, <3>2, FreshStreak DEF old, n
    <3>3. QED
      BY <3>1, <3>2
  <2> DEFINE k == (i + 1) % n
             q == [old EXCEPT ![u] = @ + 1]
  <2>6. StreakOf(cs, q, k)
    <3>1. q = [old EXCEPT ![cs[at + 1]] = @ + 1]
      BY <2>3
    <3>2. k = IF at + 1 = Len(cs) THEN 0 ELSE at + 1
      BY <2>2 DEF n
    <3> HIDE DEF q, k
    <3>3. QED
      BY <2>5, <3>1, <3>2, Turn
  <2>7. k \in 0..MaxIssued
    <3>1. k \in 0..(n - 1)
      BY <2>6 DEF StreakOf, n
    <3> HIDE DEF k
    <3>2. QED
      BY <1>2, <1>4, <2>1, <3>1 DEF n
  <2>8. strategy' = [strategy EXCEPT !.index = k] /\ streak' = [of |-> cs, picks |-> q]
    BY <2>4
  <2> HIDE DEF k, q
  <2>9. /\ strategy' \in [name : Strategies, index : 0..MaxIssued]
        /\ strategy'.name = "round_robin" /\ strategy'.index = k
    BY <1>4, <1>6, <2>7, <2>8
  <2>10. streak'.of = cs /\ streak'.picks = q
    BY <2>8
  <2>11. QED
    BY <2>6, <2>8, <2>9, <2>10 DEF StrategyInv
<1>7. QED
  BY <1>5, <1>6

(* No other step touches the index without ending the streak.                *)
LEMMA StrategyStep == RegistryInv /\ StrategyInv /\ [Next]_vars => StrategyInv'
<1> SUFFICES ASSUME RegistryInv, StrategyInv, [Next]_vars PROVE StrategyInv'
  OBVIOUS
<1>1. CASE \E t \in Tasks, m \in Models : Schedule(t, m)
  BY <1>1, ScheduleStreak
<1>2. CASE \E name \in Strategies : SetStrategy(name)
  <2>1. PICK name \in Strategies : /\ strategy' = [name |-> name, index |-> 0]
                                   /\ streak' = NoStreak
    BY <1>2 DEF SetStrategy
  <2>2. 0 \in 0..MaxIssued
    BY RoutingAssumption
  <2>3. QED
    BY <2>1, <2>2 DEF StrategyInv
<1>3. CASE UNCHANGED <<strategy, streak>>
  BY <1>3 DEF StrategyInv, StreakOf, NoStreak
<1>4. QED
  BY <1>1, <1>2, <1>3, TaskMoves DEF SubmitResult, NotifyTaskCompletion, Complete,
     ClearPendingTasks, TakeUpdate, Discard, CachePrediction, AddPrediction, PopPrediction,
     SubPrediction, WorkerOnly, strategyVars

(* Members differ by one selection at most.                                  *)
LEMMA StreakEven == StrategyInv => RotationEven
<1> SUFFICES ASSUME StrategyInv, strategy.name = "round_robin",
                    NEW u \in ToSet(streak.of), NEW v \in ToSet(streak.of)
             PROVE  streak.picks[u] <= streak.picks[v] + 1
  BY DEF RotationEven
<1> DEFINE cs == streak.of
           n == Len(cs)
<1>1. streak # NoStreak
  <2>1. ToSet(<<>>) = {}
    BY DEF ToSet
  <2>2. QED
    BY <2>1 DEF NoStreak
<1>2. /\ cs \in Seq(Uuids)
      /\ \E first \in 0..(n - 1), rounds \in Nat :
         \A j \in 0..(n - 1) :
            streak.picks[cs[j + 1]] =
                IF Between(first, strategy.index, j) THEN rounds + 1 ELSE rounds
  BY <1>1 DEF StrategyInv, StreakOf
<1>3. PICK rounds \in Nat : \A j \in 0..(n - 1) :
        streak.picks[cs[j + 1]] = rounds + 1 \/ streak.picks[cs[j + 1]] = rounds
  BY <1>2
<1>4. n \in Nat /\ DOMAIN cs = 1..n
  BY <1>2, LenProperties
<1>5. \A w \in ToSet(cs) : streak.picks[w] = rounds + 1 \/ streak.picks[w] = rounds
  <2> TAKE w \in ToSet(cs)
  <2>1. PICK k \in 1..n : w = cs[k]
    BY <1>4 DEF ToSet
  <2>2. k - 1 \in 0..(n - 1) /\ (k - 1) + 1 = k
    BY <1>4
  <2>3. QED
    BY <1>3, <2>1, <2>2
<1>6. QED
  BY <1>5

-----------------------------------------------------------------------------
(* What happens to one queue.                                                *)
LEMMA QueueFields ==
    ASSUME NEW q, QueueOK(q)
    PROVE  /\ q = [pending |-> q.pending, dist |-> q.dist, taskCount |-> q.taskCount]
           /\ q.pending \subseteq Tasks /\ q.dist \subseteq Tasks /\ q.taskCount \in Nat
           /\ IsFiniteSet(q.dist) /\ q.taskCount <= Cardinality(q.dist)
           /\ Cardinality(q.dist) \in Nat /\ q.dist \cap Misfits = {}
<1>1. /\ q \in Queue /\ IsFiniteSet(q.dist)
      /\ q.taskCount <= Cardinality(q.dist) /\ q.dist \cap Misfits = {}
  BY DEF QueueOK
<1>2. /\ q = [pending |-> q.pending, dist |-> q.dist, taskCount |-> q.taskCount]
      /\ q.pending \subseteq Tasks /\ q.dist \subseteq Tasks /\ q.taskCount \in Nat
  BY <1>1 DEF Queue
<1>3. Cardinality(q.dist) \in Nat
  BY <1>1, FS_CardinalityType
<1>4. QED
  BY <1>1, <1>2, <1>3

(* The prediction enters the cache.                                          *)
LEMMA CachedIn ==
    ASSUME NEW q, QueueOK(q), NEW t \in Tasks,
           NEW r, r = [q EXCEPT !.pending = @ \cup {t}]
    PROVE  /\ QueueOK(r) /\ r.dist = q.dist /\ r.pending = q.pending \cup {t}
<1>1. r = [pending |-> q.pending \cup {t}, dist |-> q.dist, taskCount |-> q.taskCount]
  BY QueueFields
<1>2. QED
  BY <1>1, QueueFields DEF QueueOK, Queue

(* The prediction leaves it.                                                 *)
LEMMA PoppedFrom ==
    ASSUME NEW q, QueueOK(q), NEW t \in Tasks,
           NEW r, r = [q EXCEPT !.pending = @ \ {t}]
    PROVE  /\ QueueOK(r) /\ r.dist = q.dist /\ r.pending = q.pending \ {t}
<1>1. r = [pending |-> q.pending \ {t}, dist |-> q.dist, taskCount |-> q.taskCount]
  BY QueueFields
<1>2. QED
  BY <1>1, QueueFields DEF QueueOK, Queue

(* A clear empties it.                                                       *)
LEMMA ClearedOf ==
    ASSUME NEW q, QueueOK(q),
           NEW r, r = [q EXCEPT !.pending = {}, !.taskCount = 0]
    PROVE  /\ QueueOK(r) /\ r.dist = q.dist /\ r.pending = {}
<1> DEFINE e == [q EXCEPT !.pending = {}]
<1>0. e = [pending |-> {}, dist |-> q.dist, taskCount |-> q.taskCount]
  BY QueueFields
<1>00. r = [e EXCEPT !.taskCount = 0]
  BY Zenon DEF e
<1> HIDE DEF e
<1>1. r = [pending |-> {}, dist |-> q.dist, taskCount |-> 0]
  BY <1>0, <1>00
<1>2. QED
  BY <1>1, QueueFields DEF QueueOK, Queue

(* The prediction enters the distribution and is counted, if it fits.        *)
LEMMA AddedTo ==
    ASSUME NEW q, QueueOK(q), NEW t \in Tasks, t \notin q.dist,
           NEW r, r = Added(q, t)
    PROVE  /\ QueueOK(r) /\ r.pending = q.pending
           /\ r.dist \subseteq q.dist \cup {t}
<1>1. CASE t \in Misfits
  BY <1>1 DEF Added
<1>2. CASE t \notin Misfits
  <2>1. r = [pending |-> q.pending, dist |-> q.dist \cup {t},
             taskCount |-> q.taskCount + 1]
    <3> DEFINE e == [q EXCEPT !.dist = @ \cup {t}]
    <3>1. e = [pending |-> q.pending, dist |-> q.dist \cup {t},
               taskCount |-> q.taskCount]
      BY QueueFields
    <3>2. r = [e EXCEPT !.taskCount = @ + 1]
      BY <1>2, Zenon DEF e, Added
    <3> HIDE DEF e
    <3>3. QED
      BY <3>1, <3>2
  <2>2. /\ IsFiniteSet(q.dist \cup {t})
        /\ Cardinality(q.dist \cup {t}) = Cardinality(q.dist) + 1
    BY QueueFields, FS_AddElement
  <2>3. q.taskCount + 1 <= Cardinality(q.dist) + 1
    BY QueueFields
  <2>4. QED
    BY <1>2, <2>1, <2>2, <2>3, QueueFields DEF QueueOK, Queue
<1>3. QED
  BY <1>1, <1>2

(* It leaves the distribution; the count does not become negative.           *)
LEMMA SubtractedFrom ==
    ASSUME NEW q, QueueOK(q), NEW t \in Tasks, NEW r, r = Subtracted(q, t)
    PROVE  /\ QueueOK(r) /\ r.pending = q.pending /\ r.dist = q.dist \ {t}
<1>1. CASE t \in Misfits
  <2>1. q.dist = q.dist \ {t}
    BY <1>1, QueueFields
  <2>2. QED
    BY <1>1, <2>1 DEF Subtracted
<1>2. CASE t \notin Misfits
  <2> DEFINE c == IF q.taskCount > 0 THEN q.taskCount - 1 ELSE 0
  <2>1. r = [pending |-> q.pending, dist |-> q.dist \ {t}, taskCount |-> c]
    <3> DEFINE e == [q EXCEPT !.dist = @ \ {t}]
    <3>1. e = [pending |-> q.pending, dist |-> q.dist \ {t},
               taskCount |-> q.taskCount]
      BY QueueFields
    <3>2. r = [e EXCEPT !.taskCount = IF @ > 0 THEN @ - 1 ELSE 0]
      BY <1>2, Zenon DEF e, Subtracted
    <3> HIDE DEF e
    <3>3. QED
      BY <3>1, <3>2
  <2>2. /\ IsFiniteSet(q.dist \ {t})
        /\ Cardinality(q.dist \ {t}) =
             IF t \in q.dist THEN Cardinality(q.dist) - 1 ELSE Cardinality(q.dist)
    BY QueueFields, FS_RemoveElement
  <2>3. c \in Nat /\ (t \in q.dist => c <= Cardinality(q.dist) - 1)
        /\ c <= Cardinality(q.dist)
    <3>1. t \in q.dist => Cardinality(q.dist) > 0
      BY <2>2, QueueFields, FS_EmptySet, FS_CardinalityType
    <3>2. QED
      BY <3>1, QueueFields
  <2> HIDE DEF c
  <2>4. c <= Cardinality(q.dist \ {t})
    BY <2>2, <2>3
  <2>5. QED
    BY <2>1, <2>2, <2>3, <2>4, QueueFields DEF QueueOK, Queue
<1>3. QED
  BY <1>1, <1>2

-----------------------------------------------------------------------------
(* What the steps do to the queues and the updates.                          *)
(* What the steps on the queues leave alone.                                 *)
others == <<status, route, cleared, instances>>

(* A worker that is not idle has a task and a uuid.                          *)
LEMMA Busy ==
    ASSUME UpdateInv, worker.pc # "idle"
    PROVE  /\ worker \in [pc : {"schedule", "completion", "add", "sub"},
                          task : Tasks, uuid : Uuids]
           /\ worker.task \in Tasks /\ worker.uuid \in Uuids
           /\ worker = [pc |-> worker.pc, task |-> worker.task, uuid |-> worker.uuid]
<1>1. worker \in [pc : {"schedule", "completion", "add", "sub"},
                  task : Tasks, uuid : Uuids]
  BY DEF UpdateInv
<1>2. QED
  BY <1>1

(* The worker caches the prediction of the task it has.                      *)
LEMMA Caches ==
    ASSUME QueueInv, UpdateInv, CachePrediction
    PROVE  /\ worker.pc = "schedule" /\ worker.uuid \in DOMAIN queues
           /\ worker' = [pc |-> "add", task |-> worker.task, uuid |-> worker.uuid]
           /\ UNCHANGED <<updates, others>>
           /\ DOMAIN queues' = DOMAIN queues
           /\ \A v \in DOMAIN queues :
                /\ QueueOK(queues'[v]) /\ queues'[v].dist = queues[v].dist
                /\ queues'[v].pending = IF v = worker.uuid
                      THEN queues[v].pending \cup {worker.task} ELSE queues[v].pending
<1>1. /\ worker.pc = "schedule" /\ worker.uuid \in DOMAIN queues
      /\ queues' = [queues EXCEPT ![worker.uuid].pending = @ \cup {worker.task}]
      /\ worker' = [worker EXCEPT !.pc = "add"]
      /\ UNCHANGED <<updates, others>>
  BY DEF CachePrediction, Tracked, WorkerOnly, others, registryVars, taskVars
<1>2. worker' = [pc |-> "add", task |-> worker.task, uuid |-> worker.uuid]
  BY <1>1, Busy
<1> DEFINE q == queues[worker.uuid]
           r == [q EXCEPT !.pending = @ \cup {worker.task}]
<1>3. /\ DOMAIN queues' = DOMAIN queues /\ queues'[worker.uuid] = r
      /\ \A v \in DOMAIN queues : v # worker.uuid => queues'[v] = queues[v]
  BY <1>1
<1>4. QueueOK(q) /\ worker.task \in Tasks
  BY <1>1, Busy DEF QueueInv
<1> HIDE DEF q
<1>5. QueueOK(r) /\ r.dist = q.dist /\ r.pending = q.pending \cup {worker.task}
  BY <1>4, CachedIn
<1> HIDE DEF r
<1>6. QED
  BY <1>1, <1>2, <1>3, <1>5 DEF QueueInv, q

(* It takes a pending prediction of a completed task out of the cache.       *)
LEMMA Pops ==
    ASSUME QueueInv, UpdateInv, PopPrediction
    PROVE  /\ worker.pc = "completion" /\ worker.uuid \in DOMAIN queues
           /\ worker.task \in queues[worker.uuid].pending
           /\ worker' = [pc |-> "sub", task |-> worker.task, uuid |-> worker.uuid]
           /\ UNCHANGED <<updates, others>>
           /\ DOMAIN queues' = DOMAIN queues
           /\ \A v \in DOMAIN queues :
                /\ QueueOK(queues'[v]) /\ queues'[v].dist = queues[v].dist
                /\ queues'[v].pending = IF v = worker.uuid
                      THEN queues[v].pending \ {worker.task} ELSE queues[v].pending
<1>1. /\ worker.pc = "completion" /\ worker.uuid \in DOMAIN queues
      /\ worker.task \in queues[worker.uuid].pending
      /\ queues' = [queues EXCEPT ![worker.uuid].pending = @ \ {worker.task}]
      /\ worker' = [worker EXCEPT !.pc = "sub"]
      /\ UNCHANGED <<updates, others>>
  BY DEF PopPrediction, Tracked, Pending, WorkerOnly, others, registryVars, taskVars
<1>2. worker' = [pc |-> "sub", task |-> worker.task, uuid |-> worker.uuid]
  BY <1>1, Busy
<1> DEFINE q == queues[worker.uuid]
           r == [q EXCEPT !.pending = @ \ {worker.task}]
<1>3. /\ DOMAIN queues' = DOMAIN queues /\ queues'[worker.uuid] = r
      /\ \A v \in DOMAIN queues : v # worker.uuid => queues'[v] = queues[v]
  BY <1>1
<1>4. QueueOK(q) /\ worker.task \in Tasks
  BY <1>1, Busy DEF QueueInv
<1> HIDE DEF q
<1>5. QueueOK(r) /\ r.dist = q.dist /\ r.pending = q.pending \ {worker.task}
  BY <1>4, PoppedFrom
<1> HIDE DEF r
<1>6. QED
  BY <1>1, <1>2, <1>3, <1>5 DEF QueueInv, q

(* It adds a prediction that is in no distribution yet.                      *)
LEMMA Adds ==
    ASSUME QueueInv, UpdateInv, OnceInv, AddPrediction
    PROVE  /\ worker.pc = "add" /\ worker.uuid \in DOMAIN queues
           /\ worker' = [pc |-> "idle"] /\ UNCHANGED <<updates, others>>
           /\ DOMAIN queues' = DOMAIN queues
           /\ \A v \in DOMAIN queues :
                /\ QueueOK(queues'[v]) /\ queues'[v].pending = queues[v].pending
                /\ queues'[v].dist \subseteq IF v = worker.uuid
                      THEN queues[v].dist \cup {worker.task} ELSE queues[v].dist
<1>1. /\ worker.pc = "add"
      /\ queues' = [queues EXCEPT ![worker.uuid] = Added(@, worker.task)]
      /\ worker' = [pc |-> "idle"] /\ UNCHANGED <<updates, others>>
  BY DEF AddPrediction, WorkerOnly, others, registryVars, taskVars
<1>2. worker.uuid \in DOMAIN queues /\ worker.task \in Tasks
  BY <1>1, Busy DEF UpdateInv
<1> DEFINE q == queues[worker.uuid]
           r == Added(q, worker.task)
<1>3. /\ DOMAIN queues' = DOMAIN queues /\ queues'[worker.uuid] = r
      /\ \A v \in DOMAIN queues : v # worker.uuid => queues'[v] = queues[v]
  BY <1>1, <1>2
<1>4. QueueOK(q) /\ worker.task \notin q.dist
  BY <1>1, <1>2 DEF QueueInv, OnceInv, Arriving, InDist
<1> HIDE DEF q
<1>5. QueueOK(r) /\ r.pending = q.pending /\ r.dist \subseteq q.dist \cup {worker.task}
  BY <1>2, <1>4, AddedTo
<1> HIDE DEF r
<1>6. QED
  BY <1>1, <1>2, <1>3, <1>5 DEF QueueInv, q

(* It subtracts a prediction.                                                *)
LEMMA Subtracts ==
    ASSUME QueueInv, UpdateInv, SubPrediction
    PROVE  /\ worker.pc = "sub" /\ worker.uuid \in DOMAIN queues
           /\ worker' = [pc |-> "idle"] /\ UNCHANGED <<updates, others>>
           /\ DOMAIN queues' = DOMAIN queues
           /\ \A v \in DOMAIN queues :
                /\ QueueOK(queues'[v]) /\ queues'[v].pending = queues[v].pending
                /\ queues'[v].dist = IF v = worker.uuid
                      THEN queues[v].dist \ {worker.task} ELSE queues[v].dist
<1>1. /\ worker.pc = "sub"
      /\ queues' = [queues EXCEPT ![worker.uuid] = Subtracted(@, worker.task)]
      /\ worker' = [pc |-> "idle"] /\ UNCHANGED <<updates, others>>
  BY DEF SubPrediction, WorkerOnly, others, registryVars, taskVars
<1>2. worker.uuid \in DOMAIN queues /\ worker.task \in Tasks
  BY <1>1, Busy DEF UpdateInv
<1> DEFINE q == queues[worker.uuid]
           r == Subtracted(q, worker.task)
<1>3. /\ DOMAIN queues' = DOMAIN queues /\ queues'[worker.uuid] = r
      /\ \A v \in DOMAIN queues : v # worker.uuid => queues'[v] = queues[v]
  BY <1>1, <1>2
<1>4. QueueOK(q)
  BY <1>1, <1>2 DEF QueueInv
<1> HIDE DEF q
<1>5. QueueOK(r) /\ r.pending = q.pending /\ r.dist = q.dist \ {worker.task}
  BY <1>2, <1>4, SubtractedFrom
<1> HIDE DEF r
<1>6. QED
  BY <1>1, <1>2, <1>3, <1>5 DEF QueueInv, q

(* A clear changes no distribution, and remembers what it took.              *)
LEMMA Clears ==
    ASSUME QueueInv, ClearPendingTasks
    PROVE  /\ UNCHANGED <<updates, worker, status, route, instances>>
           /\ DOMAIN queues' = DOMAIN queues
           /\ \A v \in DOMAIN queues :
                /\ QueueOK(queues'[v]) /\ queues'[v].dist = queues[v].dist
                /\ queues'[v].pending = {} /\ queues[v].pending \subseteq cleared'
           /\ cleared \cup Held \subseteq cleared'
<1>1. /\ queues' = [u \in DOMAIN queues |->
                    [queues[u] EXCEPT !.pending = {}, !.taskCount = 0]]
      /\ cleared' = cleared \cup Held
                      \cup UNION {queues[u].pending : u \in DOMAIN queues}
      /\ UNCHANGED <<updates, worker, status, route, instances>>
  BY DEF ClearPendingTasks, registryVars, taskVars
<1>2. DOMAIN queues' = DOMAIN queues
  BY <1>1
<1>3. ASSUME NEW v \in DOMAIN queues
      PROVE  /\ QueueOK(queues'[v]) /\ queues'[v].dist = queues[v].dist
             /\ queues'[v].pending = {}
  <2> DEFINE q == queues[v]
             r == [q EXCEPT !.pending = {}, !.taskCount = 0]
  <2>1. queues'[v] = r /\ QueueOK(q)
    BY <1>1 DEF QueueInv
  <2> HIDE DEF q
  <2>2. QueueOK(r) /\ r.dist = q.dist /\ r.pending = {}
    BY <2>1, ClearedOf
  <2> HIDE DEF r
  <2>3. QED
    BY <2>1, <2>2 DEF q
<1>4. \A v \in DOMAIN queues : queues[v].pending \subseteq cleared'
  BY <1>1
<1>5. QED
  BY <1>1, <1>2, <1>3, <1>4

(* A new strategy has empty queues and an idle worker.                       *)
LEMMA Resets ==
    ASSUME RegistryInv, NEW name, SetStrategy(name)
    PROVE  /\ worker' = [pc |-> "idle"] /\ UNCHANGED <<updates, others>>
           /\ DOMAIN queues' \subseteq Uuids
           /\ \A v \in DOMAIN queues' : /\ QueueOK(queues'[v])
                                        /\ queues'[v].dist = {} /\ queues'[v].pending = {}
<1>1. /\ worker' = [pc |-> "idle"] /\ UNCHANGED <<updates, others>>
      /\ queues' = FreshQueues(name)
  BY DEF SetStrategy, others, registryVars, taskVars
<1>2. QueueOK(EmptyQueue) /\ EmptyQueue.dist = {} /\ EmptyQueue.pending = {}
  <2>1. IsFiniteSet({}) /\ Cardinality({}) = 0
    BY FS_EmptySet
  <2>2. QED
    BY <2>1 DEF QueueOK, EmptyQueue, Queue
<1>3. Listed \subseteq Uuids
  BY Registered DEF RegistryInv
<1> HIDE DEF EmptyQueue
<1>4. CASE name = "probabilistic"
  <2>1. queues' = [u \in Listed |-> EmptyQueue]
    BY <1>1, <1>4 DEF FreshQueues
  <2>2. QED
    BY <1>1, <1>2, <1>3, <2>1
<1>5. CASE name # "probabilistic"
  <2>1. queues' = <<>>
    BY <1>1, <1>5 DEF FreshQueues
  <2>2. DOMAIN queues' = {}
    BY <2>1
  <2>3. QED
    BY <1>1, <2>2
<1>6. QED
  BY <1>4, <1>5

(* The worker takes the first update.                                        *)
LEMMA Takes ==
    ASSUME UpdateInv, TakeUpdate
    PROVE  /\ worker = [pc |-> "idle"] /\ Len(updates) \in Nat \ {0}
           /\ updates[1] \in Update
           /\ worker' = [pc |-> updates[1].type, task |-> updates[1].task,
                         uuid |-> updates[1].uuid]
           /\ updates' \in Seq(Update) /\ Len(updates') = Len(updates) - 1
           /\ \A k \in 1..Len(updates') : updates'[k] = updates[k + 1]
           /\ UNCHANGED <<queues, others>>
<1>1. /\ worker.pc = "idle" /\ updates # <<>> /\ updates' = Tail(updates)
      /\ worker' = [pc |-> Head(updates).type, task |-> Head(updates).task,
                    uuid |-> Head(updates).uuid]
      /\ UNCHANGED <<queues, others>>
  BY DEF TakeUpdate, WorkerOnly, others, registryVars, taskVars
<1>2. worker = [pc |-> "idle"]
  <2>1. worker \in [pc : {"schedule", "completion", "add", "sub"},
                    task : Tasks, uuid : Uuids] => worker.pc # "idle"
    OBVIOUS
  <2>2. QED
    BY <1>1, <2>1 DEF UpdateInv
<1>3. updates \in Seq(Update)
  BY DEF UpdateInv
<1>4. Len(updates) \in Nat \ {0}
  BY <1>1, <1>3, EmptySeq
<1>5. Head(updates) = updates[1] /\ updates[1] \in Update
  BY <1>3, <1>4
<1>6. /\ Tail(updates) \in Seq(Update) /\ Len(Tail(updates)) = Len(updates) - 1
      /\ \A k \in 1..Len(Tail(updates)) : Tail(updates)[k] = updates[k + 1]
  BY <1>1, <1>3, HeadTailProperties
<1>7. QED
  BY <1>1, <1>2, <1>4, <1>5, <1>6

(* An update is put after the others.                                        *)
LEMMA Submits ==
    ASSUME UpdateInv, NEW r \in Update, SubmitUpdate(r)
    PROVE  /\ updates' \in Seq(Update) /\ Len(updates) \in Nat
           /\ Len(updates') = Len(updates) + 1 /\ updates'[Len(updates) + 1] = r
           /\ \A k \in 1..Len(updates) : updates'[k] = updates[k]
<1>1. updates \in Seq(Update) /\ updates' = Append(updates, r)
  BY DEF UpdateInv, SubmitUpdate
<1>2. Len(updates) \in Nat
  BY <1>1, LenProperties
<1>3. QED
  BY <1>1, <1>2, AppendProperties

(* The worker drops a scheduling, or a completion with nothing pending.      *)
LEMMA Discards ==
    ASSUME UpdateInv, Discard
    PROVE  /\ worker' = [pc |-> "idle"] /\ UNCHANGED <<queues, updates, others>>
           /\ worker.pc \in {"schedule", "completion"}
           /\ worker.pc = "completion" =>
                ~(worker.uuid \in DOMAIN queues
                    /\ worker.task \in queues[worker.uuid].pending)
BY DEF Discard, WorkerOnly, others, registryVars, taskVars, Tracked, Pending

(* A new task is routed, and its update submitted unless the instance        *)
(* fails.                                                                    *)
LEMMA Routes ==
    ASSUME RegistryInv, NEW t \in Tasks, NEW m, Schedule(t, m)
    PROVE  \E u \in DOMAIN instances :
             /\ u \in Uuids /\ status[t] = "new"
             /\ route' = [route EXCEPT ![t] = u]
             /\ \/ /\ status' = [status EXCEPT ![t] = "running"]
                   /\ SubmitUpdate([type |-> "schedule", task |-> t, uuid |-> u])
                \/ status' = [status EXCEPT ![t] = "failed"] /\ UNCHANGED updates
             /\ UNCHANGED <<queues, cleared, worker, instances>>
<1> DEFINE cs == Candidates(m)
<1>1. PICK u \in ToSet(cs) :
             /\ status[t] = "new"
             /\ route' = [route EXCEPT ![t] = u]
             /\ \/ /\ status' = [status EXCEPT ![t] = "running"]
                   /\ SubmitUpdate([type |-> "schedule", task |-> t, uuid |-> u])
                \/ status' = [status EXCEPT ![t] = "failed"] /\ UNCHANGED updates
             /\ UNCHANGED <<queues, cleared, worker, instances>>
  BY DEF Schedule, registryVars
<1> HIDE DEF cs
<1>2. u \in DOMAIN instances
  BY CandidateList DEF cs, RegistryInv
<1>3. QED
  BY <1>1, <1>2, Registered

(* A result ends a running task and submits a completion, for an instance    *)
(* with the id of the one that ran it.                                       *)
LEMMA Ends ==
    ASSUME RegistryInv, CacheInv, NEW t \in Tasks, SubmitResult(t) \/ NotifyTaskCompletion(t)
    PROVE  \E v \in DOMAIN instances :
             /\ v \in Uuids /\ status[t] = "running"
             /\ IdOf[HostOf(v)] = IdOf[HostOf(route[t])]
             /\ status' = [status EXCEPT ![t] = "done"]
             /\ SubmitUpdate([type |-> "completion", task |-> t, uuid |-> v])
             /\ UNCHANGED <<route, queues, cleared, worker, instances>>
<1>1. PICK v \in DOMAIN instances :
             /\ status[t] = "running" /\ Complete(t, v)
             /\ IdOf[HostOf(v)] = IdOf[HostOf(route[t])]
  BY Charged
<1>2. QED
  BY <1>1, Registered DEF Complete, strategyVars

-----------------------------------------------------------------------------
(* What the queues rest on.                                                  *)
Base == RegistryInv /\ CacheInv /\ RouteInv

(* The queues and the updates keep their types.                              *)
LEMMA QueueStep ==
    Base /\ QueueInv /\ UpdateInv /\ OnceInv /\ [Next]_vars => QueueInv' /\ UpdateInv'
<1> SUFFICES ASSUME RegistryInv, CacheInv, QueueInv, UpdateInv, OnceInv, [Next]_vars
             PROVE  QueueInv' /\ UpdateInv'
  BY DEF Base
<1>1. ASSUME NEW t \in Tasks, NEW m \in Models, Schedule(t, m)
      PROVE QueueInv' /\ UpdateInv'
  <2>1. PICK u \in DOMAIN instances :
             /\ u \in Uuids
             /\ \/ SubmitUpdate([type |-> "schedule", task |-> t, uuid |-> u])
                \/ UNCHANGED updates
             /\ UNCHANGED <<queues, worker>>
    BY <1>1, Routes
  <2>2. [type |-> "schedule", task |-> t, uuid |-> u] \in Update
    BY <2>1 DEF Update
  <2>3. updates' \in Seq(Update)
    BY <2>1, <2>2, Submits DEF UpdateInv
  <2>4. QED
    BY <2>1, <2>3 DEF QueueInv, UpdateInv
<1>2. ASSUME NEW t \in Tasks, SubmitResult(t) \/ NotifyTaskCompletion(t)
      PROVE QueueInv' /\ UpdateInv'
  <2>1. PICK v \in DOMAIN instances :
             /\ v \in Uuids
             /\ SubmitUpdate([type |-> "completion", task |-> t, uuid |-> v])
             /\ UNCHANGED <<queues, worker>>
    BY <1>2, Ends
  <2>2. [type |-> "completion", task |-> t, uuid |-> v] \in Update
    BY <2>1 DEF Update
  <2>3. updates' \in Seq(Update)
    BY <2>1, <2>2, Submits
  <2>4. QED
    BY <2>1, <2>3 DEF QueueInv, UpdateInv
<1>3. ASSUME NEW name \in Strategies, SetStrategy(name) PROVE QueueInv' /\ UpdateInv'
  BY <1>3, Resets DEF QueueInv, UpdateInv
<1>4. ASSUME ClearPendingTasks PROVE QueueInv' /\ UpdateInv'
  BY <1>4, Clears DEF QueueInv, UpdateInv
<1>5. ASSUME TakeUpdate PROVE QueueInv' /\ UpdateInv'
  <2>1. /\ updates[1] \in Update /\ updates' \in Seq(Update) /\ UNCHANGED queues
        /\ worker' = [pc |-> updates[1].type, task |-> updates[1].task,
                      uuid |-> updates[1].uuid]
    BY <1>5, Takes
  <2>2. /\ worker' \in [pc : {"schedule", "completion", "add", "sub"},
                        task : Tasks, uuid : Uuids]
        /\ worker'.pc \notin {"add", "sub"}
    BY <2>1 DEF Update
  <2>3. QED
    BY <2>1, <2>2 DEF QueueInv, UpdateInv
<1>6. ASSUME Discard PROVE QueueInv' /\ UpdateInv'
  BY <1>6, Discards DEF QueueInv, UpdateInv
<1>7. ASSUME CachePrediction PROVE QueueInv' /\ UpdateInv'
  <2>1. worker.task \in Tasks /\ worker.uuid \in Uuids
    BY <1>7, Caches, Busy
  <2>2. /\ worker' = [pc |-> "add", task |-> worker.task, uuid |-> worker.uuid]
        /\ worker.uuid \in DOMAIN queues /\ UNCHANGED updates
        /\ DOMAIN queues' = DOMAIN queues
        /\ \A v \in DOMAIN queues : QueueOK(queues'[v])
    BY <1>7, Caches
  <2>3. /\ worker' \in [pc : {"schedule", "completion", "add", "sub"},
                        task : Tasks, uuid : Uuids]
        /\ worker'.uuid \in DOMAIN queues'
    BY <2>1, <2>2
  <2>4. QED
    BY <2>2, <2>3 DEF QueueInv, UpdateInv
<1>8. ASSUME AddPrediction PROVE QueueInv' /\ UpdateInv'
  BY <1>8, Adds DEF QueueInv, UpdateInv
<1>9. ASSUME PopPrediction PROVE QueueInv' /\ UpdateInv'
  <2>1. worker.task \in Tasks /\ worker.uuid \in Uuids
    BY <1>9, Pops, Busy
  <2>2. /\ worker' = [pc |-> "sub", task |-> worker.task, uuid |-> worker.uuid]
        /\ worker.uuid \in DOMAIN queues /\ UNCHANGED updates
        /\ DOMAIN queues' = DOMAIN queues
        /\ \A v \in DOMAIN queues : QueueOK(queues'[v])
    BY <1>9, Pops
  <2>3. /\ worker' \in [pc : {"schedule", "completion", "add", "sub"},
                        task : Tasks, uuid : Uuids]
        /\ worker'.uuid \in DOMAIN queues'
    BY <2>1, <2>2
  <2>4. QED
    BY <2>2, <2>3 DEF QueueInv, UpdateInv
<1>10. ASSUME SubPrediction PROVE QueueInv' /\ UpdateInv'
  <2>1. /\ worker' = [pc |-> "idle"] /\ UNCHANGED updates
        /\ DOMAIN queues' = DOMAIN queues
        /\ \A v \in DOMAIN queues : QueueOK(queues'[v])
    BY <1>10, Subtracts
  <2>2. QED
    BY <2>1 DEF QueueInv, UpdateInv
<1>11. ASSUME UNCHANGED <<strategyVars, taskVars, updates, worker, streak>>
       PROVE  QueueInv' /\ UpdateInv'
  BY <1>11 DEF QueueInv, UpdateInv, strategyVars
<1>12. QED
  BY <1>1, <1>2, <1>3, <1>4, <1>5, <1>6, <1>7, <1>8, <1>9, <1>10, <1>11, TaskMoves

(* A record is scheduled after the others, or taken from before them.        *)
LEMMA OnceStep ==
    Base /\ QueueInv /\ UpdateInv /\ OnceInv /\ [Next]_vars => OnceInv'
<1> SUFFICES ASSUME RegistryInv, CacheInv, RouteInv, QueueInv, UpdateInv, OnceInv,
                    [Next]_vars
             PROVE  OnceInv'
  BY DEF Base
<1> DEFINE n == Len(updates)
           Of(t) == route[t]
<1>a. /\ \A t \in Tasks, j \in 1..n : Scheduled(j, t) =>
            /\ updates[j].uuid = Of(t) /\ status[t] # "new" /\ ~InDist(t)
            /\ \A k \in 1..n : Scheduled(k, t) => k = j
      /\ \A t \in Tasks : Arriving(t) =>
            /\ worker.uuid = Of(t) /\ status[t] # "new" /\ ~InDist(t)
            /\ \A k \in 1..n : ~Scheduled(k, t)
      /\ \A u \in DOMAIN queues : \A t \in queues[u].pending \cup queues[u].dist :
            Of(t) = u /\ status[t] # "new"
      /\ worker.pc = "sub" => worker.uuid = Of(worker.task) /\ status[worker.task] # "new"
  BY DEF OnceInv
<1>b. \A u \in DOMAIN queues : queues[u].pending \subseteq Tasks /\ queues[u].dist \subseteq Tasks
  BY QueueFields DEF QueueInv
<1>1. ASSUME NEW s \in Tasks, NEW m \in Models, Schedule(s, m) PROVE OnceInv'
  <2>1. PICK u \in DOMAIN instances :
             /\ u \in Uuids /\ status[s] = "new"
             /\ route' = [route EXCEPT ![s] = u]
             /\ \/ /\ status' = [status EXCEPT ![s] = "running"]
                   /\ SubmitUpdate([type |-> "schedule", task |-> s, uuid |-> u])
                \/ status' = [status EXCEPT ![s] = "failed"] /\ UNCHANGED updates
             /\ UNCHANGED <<queues, cleared, worker, instances>>
    BY <1>1, Routes
  <2>2. /\ status'[s] # "new" /\ route'[s] = u
        /\ \A t \in Tasks : t # s => status'[t] = status[t] /\ route'[t] = route[t]
    BY <2>1 DEF RouteInv
  <2>3. /\ n \in Nat
        /\ \/ /\ Len(updates') = n + 1
              /\ updates'[n + 1] = [type |-> "schedule", task |-> s, uuid |-> u]
              /\ \A k \in 1..n : updates'[k] = updates[k]
           \/ updates' = updates
    <3>1. [type |-> "schedule", task |-> s, uuid |-> u] \in Update
      BY <2>1 DEF Update
    <3>2. n \in Nat
      BY LenProperties DEF UpdateInv
    <3>3. QED
      BY <2>1, <3>1, <3>2, Submits
  <2> HIDE DEF n
  <2>4. \A t \in Tasks, j \in 1..Len(updates') : Scheduled(j, t)' =>
            \/ t = s /\ j = n + 1 /\ j \notin 1..n /\ updates'[j].uuid = u
            \/ t # s /\ j \in 1..n /\ Scheduled(j, t) /\ updates'[j] = updates[j]
    <3> TAKE t \in Tasks, j \in 1..Len(updates')
    <3> HAVE Scheduled(j, t)'
    <3>1. CASE j \in 1..n
      <4>1. updates'[j] = updates[j]
        BY <2>3, <3>1
      <4>2. Scheduled(j, t)
        BY <4>1 DEF Scheduled
      <4>3. t # s
        BY <1>a, <2>1, <3>1, <4>2 DEF n
      <4>4. QED
        BY <3>1, <4>1, <4>2, <4>3
    <3>2. CASE j \notin 1..n
      <4>1. j = n + 1 /\ updates'[j] = [type |-> "schedule", task |-> s, uuid |-> u]
        BY <2>3, <3>2 DEF n
      <4>2. t = s
        BY <4>1 DEF Scheduled
      <4>3. QED
        BY <3>2, <4>1, <4>2
    <3>3. QED
      BY <3>1, <3>2
  <2>5. ~InDist(s) /\ \A t \in Tasks : InDist(t)' <=> InDist(t)
    <3>1. ~InDist(s)
      BY <1>a, <2>1 DEF InDist
    <3>2. \A t \in Tasks : InDist(t)' <=> InDist(t)
      BY <2>1 DEF InDist
    <3>3. QED
      BY <3>1, <3>2
  <2>6. \A t \in Tasks, j \in 1..Len(updates') : Scheduled(j, t)' =>
            /\ updates'[j].uuid = route'[t] /\ status'[t] # "new" /\ ~InDist(t)'
            /\ \A k \in 1..Len(updates') : Scheduled(k, t)' => k = j
    <3> TAKE t \in Tasks, j \in 1..Len(updates')
    <3> HAVE Scheduled(j, t)'
    <3>1. CASE t = s
      BY <2>2, <2>4, <2>5, <3>1
    <3>2. CASE t # s
      <4>1. j \in 1..n /\ Scheduled(j, t) /\ updates'[j] = updates[j]
        BY <2>4, <3>2
      <4>2. /\ updates[j].uuid = route[t] /\ status[t] # "new" /\ ~InDist(t)
            /\ \A k \in 1..n : Scheduled(k, t) => k = j
        BY <1>a, <4>1 DEF n
      <4>3. QED
        BY <2>2, <2>4, <2>5, <3>2, <4>1, <4>2
    <3>3. QED
      BY <3>1, <3>2
  <2>7. \A t \in Tasks : Arriving(t)' =>
            /\ worker'.uuid = route'[t] /\ status'[t] # "new" /\ ~InDist(t)'
            /\ \A k \in 1..Len(updates') : ~Scheduled(k, t)'
    <3> TAKE t \in Tasks
    <3> HAVE Arriving(t)'
    <3>1. Arriving(t)
      BY <2>1 DEF Arriving
    <3>2. /\ worker.uuid = route[t] /\ status[t] # "new" /\ ~InDist(t)
          /\ \A k \in 1..n : ~Scheduled(k, t)
      BY <1>a, <3>1 DEF n
    <3>3. QED
      BY <2>1, <2>2, <2>4, <2>5, <3>2
  <2>8. \A v \in DOMAIN queues' : \A t \in queues'[v].pending \cup queues'[v].dist :
            route'[t] = v /\ status'[t] # "new"
    <3> TAKE v \in DOMAIN queues'
    <3> TAKE t \in queues'[v].pending \cup queues'[v].dist
    <3>1. v \in DOMAIN queues /\ t \in queues[v].pending \cup queues[v].dist /\ t \in Tasks
      BY <1>b, <2>1
    <3>2. route[t] = v /\ status[t] # "new"
      BY <1>a, <3>1
    <3>3. QED
      BY <2>1, <2>2, <3>1, <3>2
  <2>9. worker'.pc = "sub" =>
          worker'.uuid = route'[worker'.task] /\ status'[worker'.task] # "new"
    <3> HAVE worker'.pc = "sub"
    <3>1. worker.pc = "sub" /\ worker.task \in Tasks
      BY <2>1, Busy
    <3>2. QED
      BY <1>a, <2>1, <2>2, <3>1
  <2>10. QED
    BY <2>6, <2>7, <2>8, <2>9 DEF OnceInv
<1>2. ASSUME NEW s \in Tasks, SubmitResult(s) \/ NotifyTaskCompletion(s) PROVE OnceInv'
  <2>1. PICK v \in DOMAIN instances :
             /\ v \in Uuids /\ status' = [status EXCEPT ![s] = "done"]
             /\ SubmitUpdate([type |-> "completion", task |-> s, uuid |-> v])
             /\ UNCHANGED <<route, queues, cleared, worker, instances>>
    BY <1>2, Ends
  <2>2. \A t \in Tasks : status[t] # "new" => status'[t] # "new"
    BY <2>1 DEF RouteInv
  <2>3. /\ n \in Nat /\ Len(updates') = n + 1
        /\ updates'[n + 1] = [type |-> "completion", task |-> s, uuid |-> v]
        /\ \A k \in 1..n : updates'[k] = updates[k]
    <3>1. [type |-> "completion", task |-> s, uuid |-> v] \in Update
      BY <2>1 DEF Update
    <3>2. QED
      BY <2>1, <3>1, Submits
  <2> HIDE DEF n
  <2>4. \A t, j : j \in 1..Len(updates') /\ Scheduled(j, t)' =>
            j \in 1..n /\ Scheduled(j, t) /\ updates'[j] = updates[j]
    <3> TAKE t, j
    <3> HAVE j \in 1..Len(updates') /\ Scheduled(j, t)'
    <3>1. CASE j \in 1..n
      BY <2>3, <3>1 DEF Scheduled
    <3>2. CASE j \notin 1..n
      <4>1. j = n + 1
        BY <2>3, <3>2
      <4>2. updates'[j].type = "completion"
        BY <2>3, <4>1
      <4>3. QED
        BY <4>2 DEF Scheduled
    <3>3. QED
      BY <3>1, <3>2
  <2>5. \A t : (InDist(t)' <=> InDist(t)) /\ (Arriving(t)' <=> Arriving(t))
    BY <2>1 DEF InDist, Arriving
  <2>6. \A t \in Tasks, j \in 1..Len(updates') : Scheduled(j, t)' =>
            /\ updates'[j].uuid = route'[t] /\ status'[t] # "new" /\ ~InDist(t)'
            /\ \A k \in 1..Len(updates') : Scheduled(k, t)' => k = j
    BY <1>a, <2>1, <2>2, <2>4, <2>5 DEF n
  <2>7. \A t \in Tasks : Arriving(t)' =>
            /\ worker'.uuid = route'[t] /\ status'[t] # "new" /\ ~InDist(t)'
            /\ \A k \in 1..Len(updates') : ~Scheduled(k, t)'
    BY <1>a, <2>1, <2>2, <2>4, <2>5 DEF n
  <2>8. \A u \in DOMAIN queues' : \A t \in queues'[u].pending \cup queues'[u].dist :
            route'[t] = u /\ status'[t] # "new"
    BY <1>a, <1>b, <2>1, <2>2
  <2>9. worker'.pc = "sub" =>
          worker'.uuid = route'[worker'.task] /\ status'[worker'.task] # "new"
    BY <1>a, <2>1, <2>2, Busy
  <2>10. QED
    BY <2>6, <2>7, <2>8, <2>9 DEF OnceInv
<1>3. ASSUME NEW name \in Strategies, SetStrategy(name) PROVE OnceInv'
  <2>1. /\ worker' = [pc |-> "idle"] /\ UNCHANGED <<updates, status, route>>
        /\ \A v \in DOMAIN queues' : queues'[v].dist = {} /\ queues'[v].pending = {}
    BY <1>3, Resets DEF others
  <2>2. \A t : ~InDist(t)' /\ ~Arriving(t)'
    BY <2>1 DEF InDist, Arriving
  <2>3. \A t, j : Scheduled(j, t)' <=> Scheduled(j, t)
    BY <2>1 DEF Scheduled
  <2>4. QED
    BY <1>a, <2>1, <2>2, <2>3 DEF OnceInv
(* The steps that leave the updates alone.                                   *)
<1>4. ASSUME UNCHANGED <<updates, status, route>>, DOMAIN queues' = DOMAIN queues,
             \A v \in DOMAIN queues : \A t \in queues'[v].pending \cup queues'[v].dist :
                \/ t \in queues[v].pending \cup queues[v].dist
                \/ Arriving(t) /\ v = worker.uuid /\ t \in Tasks,
             \A v \in DOMAIN queues : \A t \in queues'[v].dist :
                t \in queues[v].dist \/ (Arriving(t) /\ worker'.pc = "idle"),
             \A t : Arriving(t)' => Arriving(t) /\ worker'.uuid = worker.uuid,
             worker'.pc = "sub" =>
                worker'.uuid = route[worker'.task] /\ status[worker'.task] # "new"
      PROVE  OnceInv'
  <2>1. \A t, j : Scheduled(j, t)' <=> Scheduled(j, t)
    BY <1>4 DEF Scheduled
  <2>2. \A t : InDist(t)' => InDist(t) \/ (Arriving(t) /\ worker'.pc = "idle")
    BY <1>4 DEF InDist
  <2>3. \A t : Arriving(t)' => worker'.pc # "idle"
    BY DEF Arriving
  <2>4. \A t \in Tasks, j \in 1..Len(updates') : Scheduled(j, t)' =>
            /\ updates'[j].uuid = route'[t] /\ status'[t] # "new" /\ ~InDist(t)'
            /\ \A k \in 1..Len(updates') : Scheduled(k, t)' => k = j
    BY <1>a, <1>4, <2>1, <2>2
  <2>5. \A t \in Tasks : Arriving(t)' =>
            /\ worker'.uuid = route'[t] /\ status'[t] # "new" /\ ~InDist(t)'
            /\ \A k \in 1..Len(updates') : ~Scheduled(k, t)'
    BY <1>a, <1>4, <2>1, <2>2, <2>3
  <2>6. \A v \in DOMAIN queues' : \A t \in queues'[v].pending \cup queues'[v].dist :
            route'[t] = v /\ status'[t] # "new"
    <3> TAKE v \in DOMAIN queues'
    <3> TAKE t \in queues'[v].pending \cup queues'[v].dist
    <3>1. v \in DOMAIN queues
      BY <1>4
    <3>2. CASE t \in queues[v].pending \cup queues[v].dist
      BY <1>a, <1>4, <3>1, <3>2
    <3>3. CASE Arriving(t) /\ v = worker.uuid /\ t \in Tasks
      BY <1>a, <1>4, <3>3
    <3>4. QED
      BY <1>4, <3>1, <3>2, <3>3
  <2>7. worker'.pc = "sub" =>
          worker'.uuid = route'[worker'.task] /\ status'[worker'.task] # "new"
    BY <1>4
  <2>8. QED
    BY <2>4, <2>5, <2>6, <2>7 DEF OnceInv
<1>5. ASSUME ClearPendingTasks PROVE OnceInv'
  <2>1. /\ UNCHANGED <<updates, status, route, worker>> /\ DOMAIN queues' = DOMAIN queues
        /\ \A v \in DOMAIN queues : queues'[v].dist = queues[v].dist
                                    /\ queues'[v].pending = {}
    BY <1>5, Clears
  <2>2. \A t : Arriving(t)' => Arriving(t) /\ worker'.uuid = worker.uuid
    BY <2>1 DEF Arriving
  <2>3. QED
    BY <1>a, <1>4, <2>1, <2>2
<1>6. ASSUME Discard PROVE OnceInv'
  <2>1. worker'.pc = "idle" /\ UNCHANGED <<queues, updates, status, route>>
    BY <1>6, Discards DEF others
  <2>2. \A t : ~Arriving(t)'
    BY <2>1 DEF Arriving
  <2>3. QED
    BY <1>4, <2>1, <2>2
<1>7. ASSUME CachePrediction PROVE OnceInv'
  <2>1. /\ worker.pc = "schedule" /\ worker.task \in Tasks
        /\ worker' = [pc |-> "add", task |-> worker.task, uuid |-> worker.uuid]
        /\ UNCHANGED <<updates, status, route>> /\ DOMAIN queues' = DOMAIN queues
        /\ \A v \in DOMAIN queues :
             /\ queues'[v].dist = queues[v].dist
             /\ queues'[v].pending = IF v = worker.uuid
                   THEN queues[v].pending \cup {worker.task} ELSE queues[v].pending
    BY <1>7, Caches, Busy DEF others
  <2>2. Arriving(worker.task)
    BY <2>1 DEF Arriving
  <2>3. \A t : Arriving(t)' => Arriving(t) /\ worker'.uuid = worker.uuid
    BY <2>1 DEF Arriving
  <2>4. worker'.pc # "sub"
    BY <2>1
  <2>5. QED
    BY <1>4, <2>1, <2>2, <2>3, <2>4, ZenonT(30)
<1>8. ASSUME AddPrediction PROVE OnceInv'
  <2>1. /\ worker.pc = "add" /\ worker.task \in Tasks /\ worker' = [pc |-> "idle"]
        /\ UNCHANGED <<updates, status, route>> /\ DOMAIN queues' = DOMAIN queues
        /\ \A v \in DOMAIN queues :
             /\ queues'[v].pending = queues[v].pending
             /\ queues'[v].dist \subseteq IF v = worker.uuid
                   THEN queues[v].dist \cup {worker.task} ELSE queues[v].dist
    BY <1>8, Adds, Busy DEF others
  <2>2. Arriving(worker.task)
    BY <2>1 DEF Arriving
  <2>3. worker'.pc = "idle"
    BY <2>1
  <2>4. \A t : ~Arriving(t)'
    BY <2>3 DEF Arriving
  <2>5. QED
    BY <1>4, <2>1, <2>2, <2>3, <2>4
<1>9. ASSUME PopPrediction PROVE OnceInv'
  <2>1. /\ worker.uuid \in DOMAIN queues /\ worker.task \in queues[worker.uuid].pending
        /\ worker' = [pc |-> "sub", task |-> worker.task, uuid |-> worker.uuid]
        /\ UNCHANGED <<updates, status, route>> /\ DOMAIN queues' = DOMAIN queues
        /\ \A v \in DOMAIN queues :
             /\ queues'[v].dist = queues[v].dist
             /\ queues'[v].pending \subseteq queues[v].pending
    BY <1>9, Pops DEF others
  <2>2. worker.uuid = route[worker.task] /\ status[worker.task] # "new"
    BY <1>a, <2>1
  <2>3. worker'.task = worker.task /\ worker'.uuid = worker.uuid /\ worker'.pc = "sub"
    BY <2>1
  <2>4. \A t : ~Arriving(t)'
    BY <2>3 DEF Arriving
  <2>5. QED
    BY <1>4, <2>1, <2>2, <2>3, <2>4
<1>10. ASSUME SubPrediction PROVE OnceInv'
  <2>1. /\ worker' = [pc |-> "idle"]
        /\ UNCHANGED <<updates, status, route>> /\ DOMAIN queues' = DOMAIN queues
        /\ \A v \in DOMAIN queues :
             /\ queues'[v].pending = queues[v].pending
             /\ queues'[v].dist \subseteq queues[v].dist
    BY <1>10, Subtracts DEF others
  <2>2. worker'.pc = "idle"
    BY <2>1
  <2>3. \A t : ~Arriving(t)'
    BY <2>2 DEF Arriving
  <2>4. QED
    BY <1>4, <2>1, <2>2, <2>3
<1>11. ASSUME TakeUpdate PROVE OnceInv'
  <2>1. /\ worker = [pc |-> "idle"] /\ n \in Nat \ {0}
        /\ updates[1] \in Update
        /\ worker' = [pc |-> updates[1].type, task |-> updates[1].task,
                      uuid |-> updates[1].uuid]
        /\ Len(updates') = n - 1
        /\ \A k \in 1..Len(updates') : updates'[k] = updates[k + 1]
        /\ UNCHANGED <<queues, status, route>>
    BY <1>11, Takes DEF others
  <2> HIDE DEF n
  <2>2. \A t, j : j \in 1..Len(updates') =>
            j + 1 \in 1..n /\ j + 1 # 1 /\ (Scheduled(j, t)' <=> Scheduled(j + 1, t))
    <3> TAKE t, j
    <3> HAVE j \in 1..Len(updates')
    <3>1. j + 1 \in 1..n /\ j + 1 # 1
      BY <2>1
    <3>2. updates'[j] = updates[j + 1]
      BY <2>1
    <3>3. QED
      BY <3>1, <3>2 DEF Scheduled
  <2>3. \A t : InDist(t)' <=> InDist(t)
    BY <2>1 DEF InDist
  <2>4. \A t : Arriving(t)' => Scheduled(1, t)
    BY <2>1 DEF Arriving, Scheduled, Update
  <2>5. worker'.uuid = updates[1].uuid /\ worker'.pc # "sub" /\ 1 \in 1..n
    BY <2>1 DEF Update
  <2>6. \A t \in Tasks, j \in 1..Len(updates') : Scheduled(j, t)' =>
            /\ updates'[j].uuid = route'[t] /\ status'[t] # "new" /\ ~InDist(t)'
            /\ \A k \in 1..Len(updates') : Scheduled(k, t)' => k = j
    <3> TAKE t \in Tasks, j \in 1..Len(updates')
    <3> HAVE Scheduled(j, t)'
    <3>1. j + 1 \in 1..n /\ Scheduled(j + 1, t)
      BY <2>2
    <3>2. /\ updates[j + 1].uuid = route[t] /\ status[t] # "new" /\ ~InDist(t)
          /\ \A k \in 1..n : Scheduled(k, t) => k = j + 1
      BY <1>a, <3>1 DEF n
    <3>3. ASSUME NEW k \in 1..Len(updates'), Scheduled(k, t)' PROVE k = j
      <4>1. k + 1 = j + 1
        BY <2>2, <3>2, <3>3
      <4>2. QED
        BY <4>1
    <3>4. QED
      BY <2>1, <2>3, <3>2, <3>3
  <2>7. \A t \in Tasks : Arriving(t)' =>
            /\ worker'.uuid = route'[t] /\ status'[t] # "new" /\ ~InDist(t)'
            /\ \A k \in 1..Len(updates') : ~Scheduled(k, t)'
    <3> TAKE t \in Tasks
    <3> HAVE Arriving(t)'
    <3>1. Scheduled(1, t)
      BY <2>4
    <3>2. /\ updates[1].uuid = route[t] /\ status[t] # "new" /\ ~InDist(t)
          /\ \A k \in 1..n : Scheduled(k, t) => k = 1
      BY <1>a, <2>5, <3>1 DEF n
    <3>3. QED
      BY <2>1, <2>2, <2>3, <2>5, <3>2
  <2>8. QED
    BY <1>a, <2>1, <2>5, <2>6, <2>7 DEF OnceInv
<1>12. ASSUME UNCHANGED <<strategyVars, taskVars, updates, worker, streak>> PROVE OnceInv'
  <2>1. UNCHANGED <<queues, status, route, updates, worker>>
    BY <1>12 DEF strategyVars, taskVars
  <2>2. \A t : Arriving(t)' => Arriving(t) /\ worker'.uuid = worker.uuid
    BY <2>1 DEF Arriving
  <2>3. QED
    BY <1>a, <1>4, <2>1, <2>2
<1>13. QED
  BY <1>1, <1>2, <1>3, <1>5, <1>6, <1>7, <1>8, <1>9, <1>10, <1>11, <1>12, TaskMoves

-----------------------------------------------------------------------------
(* A step of the worker adds to a distribution only what it was about to     *)
(* add.                                                                      *)
LEMMA DistStep ==
    Base /\ QueueInv /\ UpdateInv /\ OnceInv /\ DistInv /\ [Next]_vars => DistInv'
<1> SUFFICES ASSUME RegistryInv, CacheInv, QueueInv, UpdateInv, OnceInv, DistInv,
                    [Next]_vars
             PROVE  DistInv'
  BY DEF Base
<1>a. /\ \A u \in DOMAIN queues : \A t \in queues[u].dist :
           \/ t \in queues[u].pending \cup cleared
           \/ worker = [pc |-> "sub", task |-> t, uuid |-> u]
      /\ worker.pc = "add" => worker.task \in queues[worker.uuid].pending \cup cleared
  BY DEF DistInv
<1>1. ASSUME UNCHANGED <<queues, worker, cleared>> PROVE DistInv'
  BY <1>1, <1>a DEF DistInv
<1>2. ASSUME NEW t \in Tasks, NEW m \in Models, Schedule(t, m) PROVE DistInv'
  BY <1>1, <1>2, Routes
<1>3. ASSUME NEW t \in Tasks, SubmitResult(t) \/ NotifyTaskCompletion(t) PROVE DistInv'
  BY <1>1, <1>3, Ends
<1>4. ASSUME NEW name \in Strategies, SetStrategy(name) PROVE DistInv'
  BY <1>4, Resets DEF DistInv
<1>5. ASSUME ClearPendingTasks PROVE DistInv'
  <2>1. /\ UNCHANGED worker /\ DOMAIN queues' = DOMAIN queues
        /\ \A v \in DOMAIN queues :
             queues'[v].dist = queues[v].dist /\ queues[v].pending \subseteq cleared'
        /\ cleared \cup Held \subseteq cleared'
    BY <1>5, Clears
  <2>2. worker.pc = "add" => worker.task \in cleared'
    BY <2>1 DEF Held
  <2>3. QED
    BY <1>a, <2>1, <2>2 DEF DistInv
<1>6. ASSUME TakeUpdate PROVE DistInv'
  <2>1. /\ worker = [pc |-> "idle"] /\ UNCHANGED <<queues, cleared>>
        /\ worker' = [pc |-> updates[1].type, task |-> updates[1].task,
                      uuid |-> updates[1].uuid]
        /\ updates[1].type \in {"schedule", "completion"}
    BY <1>6, Takes DEF others, Update
  <2>2. worker.pc = "idle" /\ worker'.pc # "add"
    BY <2>1
  <2>3. ASSUME NEW u \in DOMAIN queues, NEW t \in queues[u].dist
        PROVE  t \in queues[u].pending \cup cleared
    <3>1. worker # [pc |-> "sub", task |-> t, uuid |-> u]
      BY <2>2
    <3>2. QED
      BY <1>a, <2>3, <3>1
  <2>4. QED
    BY <2>1, <2>2, <2>3 DEF DistInv
(* A step of the worker, but the last of a subtraction, moves no other task. *)
<1>7. ASSUME Discard PROVE DistInv'
  <2>1. /\ worker' = [pc |-> "idle"] /\ UNCHANGED <<queues, cleared>>
        /\ worker.pc \in {"schedule", "completion"}
    BY <1>7, Discards DEF others
  <2>2. \A u, t : worker # [pc |-> "sub", task |-> t, uuid |-> u]
    BY <2>1
  <2>3. worker'.pc # "add"
    BY <2>1
  <2>4. QED
    BY <1>a, <2>1, <2>2, <2>3 DEF DistInv
<1>8. ASSUME CachePrediction PROVE DistInv'
  <2>1. /\ worker.pc = "schedule" /\ worker.uuid \in DOMAIN queues
        /\ worker' = [pc |-> "add", task |-> worker.task, uuid |-> worker.uuid]
        /\ UNCHANGED cleared /\ DOMAIN queues' = DOMAIN queues
        /\ \A v \in DOMAIN queues :
             /\ queues'[v].dist = queues[v].dist
             /\ queues'[v].pending = IF v = worker.uuid
                   THEN queues[v].pending \cup {worker.task} ELSE queues[v].pending
    BY <1>8, Caches DEF others
  <2>2. \A u, t : worker # [pc |-> "sub", task |-> t, uuid |-> u]
    BY <2>1
  <2>3. \A v \in DOMAIN queues : queues[v].pending \subseteq queues'[v].pending
    BY <2>1
  <2>4. worker'.task \in queues'[worker'.uuid].pending
    BY <2>1
  <2>5. \A u \in DOMAIN queues : \A t \in queues'[u].dist :
          t \in queues'[u].pending \cup cleared'
    <3> TAKE u \in DOMAIN queues
    <3> TAKE t \in queues'[u].dist
    <3>1. t \in queues[u].dist
      BY <2>1
    <3>2. t \in queues[u].pending \cup cleared
      BY <1>a, <2>2, <3>1
    <3>3. QED
      BY <2>1, <2>3, <3>2
  <2>6. QED
    BY <2>1, <2>4, <2>5 DEF DistInv
<1>9. ASSUME AddPrediction PROVE DistInv'
  <2>1. /\ worker.pc = "add" /\ worker.uuid \in DOMAIN queues
        /\ worker' = [pc |-> "idle"]
        /\ UNCHANGED cleared /\ DOMAIN queues' = DOMAIN queues
        /\ \A v \in DOMAIN queues :
             /\ queues'[v].pending = queues[v].pending
             /\ queues'[v].dist \subseteq IF v = worker.uuid
                   THEN queues[v].dist \cup {worker.task} ELSE queues[v].dist
    BY <1>9, Adds DEF others
  <2>2. \A u, t : worker # [pc |-> "sub", task |-> t, uuid |-> u]
    BY <2>1
  <2>3. worker'.pc # "add"
    BY <2>1
  <2>4. \A u \in DOMAIN queues : \A t \in queues'[u].dist :
          t \in queues'[u].pending \cup cleared'
    <3> TAKE u \in DOMAIN queues
    <3> TAKE t \in queues'[u].dist
    <3>1. CASE t \in queues[u].dist
      BY <1>a, <2>1, <2>2, <3>1
    <3>2. CASE u = worker.uuid /\ t = worker.task
      BY <1>a, <2>1, <3>2
    <3>3. QED
      BY <2>1, <3>1, <3>2
  <2>5. QED
    BY <2>1, <2>3, <2>4 DEF DistInv
<1>10. ASSUME PopPrediction PROVE DistInv'
  <2>1. /\ worker.pc = "completion" /\ worker.uuid \in DOMAIN queues
        /\ worker' = [pc |-> "sub", task |-> worker.task, uuid |-> worker.uuid]
        /\ UNCHANGED cleared /\ DOMAIN queues' = DOMAIN queues
        /\ \A v \in DOMAIN queues :
             /\ queues'[v].dist = queues[v].dist
             /\ queues'[v].pending = IF v = worker.uuid
                   THEN queues[v].pending \ {worker.task} ELSE queues[v].pending
    BY <1>10, Pops DEF others
  <2>2. \A u, t : worker # [pc |-> "sub", task |-> t, uuid |-> u]
    BY <2>1
  <2>3. worker'.pc # "add"
    BY <2>1
  <2>4. \A u \in DOMAIN queues : \A t \in queues'[u].dist :
          \/ t \in queues'[u].pending \cup cleared'
          \/ worker' = [pc |-> "sub", task |-> t, uuid |-> u]
    <3> TAKE u \in DOMAIN queues
    <3> TAKE t \in queues'[u].dist
    <3>1. t \in queues[u].pending \cup cleared
      BY <1>a, <2>1, <2>2, ZenonT(30)
    <3>2. CASE u = worker.uuid /\ t = worker.task
      BY <2>1, <3>2
    <3>3. CASE ~(u = worker.uuid /\ t = worker.task)
      BY <2>1, <3>1, <3>3
    <3>4. QED
      BY <3>2, <3>3
  <2>5. QED
    BY <2>1, <2>3, <2>4 DEF DistInv
<1>11. ASSUME SubPrediction PROVE DistInv'
  <2>1. /\ worker.pc = "sub" /\ worker' = [pc |-> "idle"]
        /\ UNCHANGED cleared /\ DOMAIN queues' = DOMAIN queues
        /\ \A v \in DOMAIN queues :
             /\ queues'[v].pending = queues[v].pending
             /\ queues'[v].dist = IF v = worker.uuid
                   THEN queues[v].dist \ {worker.task} ELSE queues[v].dist
    BY <1>11, Subtracts DEF others
  <2>2. worker'.pc # "add"
    BY <2>1
  <2>3. \A u \in DOMAIN queues : \A t \in queues'[u].dist :
          t \in queues'[u].pending \cup cleared'
    <3> TAKE u \in DOMAIN queues
    <3> TAKE t \in queues'[u].dist
    <3>1. t \in queues[u].dist /\ ~(u = worker.uuid /\ t = worker.task)
      BY <2>1
    <3>2. worker # [pc |-> "sub", task |-> t, uuid |-> u]
      BY <3>1
    <3>3. QED
      BY <1>a, <2>1, <3>1, <3>2
  <2>4. QED
    BY <2>1, <2>2, <2>3 DEF DistInv
<1>12. QED
  BY <1>1, <1>2, <1>3, <1>4, <1>5, <1>6, <1>7, <1>8, <1>9, <1>10, <1>11, TaskMoves
     DEF strategyVars

-----------------------------------------------------------------------------
(* A task that is finished after a step that leaves it alone was so before.  *)
LEMMA FinishedBefore ==
    ASSUME RegistryInv, RouteInv, [Next]_vars, NEW t \in Tasks,
           status'[t] = status[t], route'[t] = route[t], Finished(t)'
    PROVE  Finished(t)
<1>1. route[t] \in DOMAIN instances /\ status[t] = "done"
  BY DEF Finished, RouteInv
<1>2. /\ DOMAIN instances \subseteq DOMAIN instances'
      /\ \A u \in DOMAIN instances : instances'[u] = instances[u]
  BY Keeps
<1>3. ~Ambiguous(route[t])'
  BY DEF Finished
<1>4. ASSUME Ambiguous(route[t]) PROVE FALSE
  <2>1. PICK v \in DOMAIN instances \ {route[t]} : IdOf[HostOf(v)] = IdOf[HostOf(route[t])]
    BY <1>4 DEF Ambiguous
  <2>2. v \in DOMAIN instances' \ {route'[t]}
    BY <1>2
  <2>3. IdOf[instances'[v].host] = IdOf[instances'[route'[t]].host]
    BY <1>1, <1>2, <2>1 DEF HostOf
  <2>4. Ambiguous(route[t])'
    BY <2>2, <2>3 DEF Ambiguous, HostOf
  <2>5. QED
    BY <1>3, <2>4
<1>5. QED
  BY <1>1, <1>4 DEF Finished

(* The steps that leave the updates and the tasks alone.                     *)
LEMMA DueKept ==
    ASSUME RegistryInv, RouteInv, UpdateInv, [Next]_vars, DueInv,
           UNCHANGED <<updates, status, route>>,
           \A t : Arriving(t)' => Arriving(t),
           \A u \in DOMAIN queues' : \A t \in queues'[u].pending :
              \/ /\ u \in DOMAIN queues /\ t \in queues[u].pending
                 /\ worker # [pc |-> "completion", task |-> t, uuid |-> u] \/ UNCHANGED worker
              \/ Arriving(t) /\ u = route[t]
    PROVE  DueInv'
<1>1. SUFFICES ASSUME NEW t \in Tasks, Finished(t)'
               PROVE  /\ \A j \in 1..Len(updates) : Scheduled(j, t)' => Returning(t, j + 1)'
                      /\ Arriving(t)' => Returning(t, 1)'
                      /\ \A u \in DOMAIN queues' :
                            t \in queues'[u].pending => CompletionDue(t, u)'
  BY DEF DueInv
<1>0. DOMAIN updates = 1..Len(updates)
  BY LenProperties DEF UpdateInv
<1>2. Finished(t)
  BY <1>1, FinishedBefore
<1>3. /\ \A j \in 1..Len(updates) : Scheduled(j, t) => Returning(t, j + 1)
      /\ Arriving(t) => Returning(t, 1)
      /\ \A u \in DOMAIN queues : t \in queues[u].pending => CompletionDue(t, u)
  BY <1>2 DEF DueInv
<1>4. \A j : (Scheduled(j, t)' <=> Scheduled(j, t)) /\ (Returning(t, j)' <=> Returning(t, j))
  BY DEF Scheduled, Returning
<1>5. ASSUME NEW u \in DOMAIN queues', t \in queues'[u].pending PROVE CompletionDue(t, u)'
  <2>1. CASE Arriving(t) /\ u = route[t]
    <3>1. Returning(t, 1)
      BY <1>3, <2>1
    <3>2. QED
      BY <1>0, <2>1, <3>1 DEF Returning, CompletionDue
  <2>2. CASE /\ u \in DOMAIN queues /\ t \in queues[u].pending
             /\ worker # [pc |-> "completion", task |-> t, uuid |-> u] \/ UNCHANGED worker
    <3>1. CompletionDue(t, u)
      BY <1>3, <2>2
    <3>2. QED
      BY <2>2, <3>1 DEF CompletionDue
  <2>3. QED
    BY <1>5, <2>1, <2>2
<1>6. QED
  BY <1>3, <1>4, <1>5

-----------------------------------------------------------------------------
(* The completion of a finished task stays behind its scheduling.            *)
LEMMA DueStep ==
    Base /\ QueueInv /\ UpdateInv /\ OnceInv /\ DueInv /\ [Next]_vars => DueInv'
<1> SUFFICES ASSUME RegistryInv, CacheInv, RouteInv, QueueInv, UpdateInv, OnceInv, DueInv,
                    [Next]_vars
             PROVE  DueInv'
  BY DEF Base
<1> DEFINE n == Len(updates)
<1>a. n \in Nat /\ DOMAIN updates = 1..n
  BY LenProperties DEF UpdateInv
<1>b. UpdateInv'
  BY QueueStep DEF Base
<1>c. DOMAIN updates' = 1..Len(updates')
  BY <1>b, LenProperties DEF UpdateInv
<1>d. \A t \in Tasks : Finished(t) =>
        /\ \A j \in 1..n : Scheduled(j, t) => Returning(t, j + 1)
        /\ Arriving(t) => Returning(t, 1)
        /\ \A u \in DOMAIN queues : t \in queues[u].pending => CompletionDue(t, u)
  BY DEF DueInv
(* The steps that append an update.                                          *)
<1>e. ASSUME NEW r, Len(updates') = n + 1, updates'[n + 1] = r,
             \A k \in 1..n : updates'[k] = updates[k], UNCHANGED <<worker, queues>>,
             NEW t \in Tasks, r.type = "schedule" => r.task # t,
             status'[t] = status[t], route'[t] = route[t], Finished(t)'
      PROVE  /\ \A j \in 1..Len(updates') : Scheduled(j, t)' => Returning(t, j + 1)'
             /\ Arriving(t)' => Returning(t, 1)'
             /\ \A u \in DOMAIN queues' : t \in queues'[u].pending => CompletionDue(t, u)'
  <2> HIDE DEF n
  <2>1. Finished(t)
    BY <1>e, FinishedBefore
  <2>2. \A j \in 1..(n + 1) : Returning(t, j) => Returning(t, j)'
    <3> TAKE j \in 1..(n + 1)
    <3> HAVE Returning(t, j)
    <3>1. PICK k \in j..n :
            updates[k] = [type |-> "completion", task |-> t, uuid |-> route[t]]
      BY DEF Returning, n
    <3>2. k \in 1..n /\ k \in j..(n + 1)
      BY <1>a
    <3>3. updates'[k] = [type |-> "completion", task |-> t, uuid |-> route'[t]]
      BY <1>e, <3>1, <3>2
    <3>4. QED
      BY <1>e, <3>2, <3>3 DEF Returning
  <2>3. ASSUME NEW j \in 1..Len(updates'), Scheduled(j, t)' PROVE Returning(t, j + 1)'
    <3>1. j \in 1..n
      <4>1. j # n + 1
        BY <1>e, <2>3 DEF Scheduled
      <4>2. QED
        BY <1>a, <1>e, <4>1
    <3>2. Scheduled(j, t)
      BY <1>e, <2>3, <3>1 DEF Scheduled
    <3>3. Returning(t, j + 1) /\ j + 1 \in 1..(n + 1)
      BY <1>a, <1>d, <2>1, <3>1, <3>2
    <3>4. QED
      BY <2>2, <3>3
  <2>4. ASSUME Arriving(t)' PROVE Returning(t, 1)'
    <3>1. Arriving(t)
      BY <1>e, <2>4 DEF Arriving
    <3>2. Returning(t, 1) /\ 1 \in 1..(n + 1)
      BY <1>a, <1>d, <2>1, <3>1
    <3>3. QED
      BY <2>2, <3>2
  <2>5. ASSUME NEW u \in DOMAIN queues', t \in queues'[u].pending PROVE CompletionDue(t, u)'
    <3>1. CompletionDue(t, u)
      BY <1>d, <1>e, <2>1, <2>5
    <3>2. CASE worker = [pc |-> "completion", task |-> t, uuid |-> u]
      BY <1>e, <3>2 DEF CompletionDue
    <3>3. CASE \E k \in 1..n : updates[k] = [type |-> "completion", task |-> t, uuid |-> u]
      <4>1. PICK k \in 1..n : updates[k] = [type |-> "completion", task |-> t, uuid |-> u]
        BY <3>3
      <4>2. k \in DOMAIN updates'
        BY <1>a, <1>c, <1>e
      <4>3. QED
        BY <1>e, <4>1, <4>2 DEF CompletionDue
    <3>4. QED
      BY <1>a, <3>1, <3>2, <3>3 DEF CompletionDue
  <2>6. QED
    BY <2>3, <2>4, <2>5
<1>1. ASSUME NEW s \in Tasks, NEW m \in Models, Schedule(s, m) PROVE DueInv'
  <2>1. PICK u \in DOMAIN instances :
             /\ u \in Uuids /\ status[s] = "new"
             /\ route' = [route EXCEPT ![s] = u]
             /\ \/ /\ status' = [status EXCEPT ![s] = "running"]
                   /\ SubmitUpdate([type |-> "schedule", task |-> s, uuid |-> u])
                \/ status' = [status EXCEPT ![s] = "failed"] /\ UNCHANGED updates
             /\ UNCHANGED <<queues, cleared, worker, instances>>
    BY <1>1, Routes
  <2>2. /\ status'[s] # "done"
        /\ \A t \in Tasks : t # s => status'[t] = status[t] /\ route'[t] = route[t]
    BY <2>1 DEF RouteInv
  <2>3. ~Finished(s)'
    BY <2>2 DEF Finished
  <2> DEFINE r == [type |-> "schedule", task |-> s, uuid |-> u]
  <2>4. CASE SubmitUpdate(r)
    <3>1. r \in Update /\ r.task = s
      BY <2>1 DEF Update
    <3>2. /\ Len(updates') = n + 1 /\ updates'[n + 1] = r
          /\ \A k \in 1..n : updates'[k] = updates[k]
      BY <2>4, <3>1, Submits
    <3> HIDE DEF r, n
    <3>3. ASSUME NEW t \in Tasks, Finished(t)'
          PROVE  /\ \A j \in 1..Len(updates') : Scheduled(j, t)' => Returning(t, j + 1)'
                 /\ Arriving(t)' => Returning(t, 1)'
                 /\ \A v \in DOMAIN queues' :
                      t \in queues'[v].pending => CompletionDue(t, v)'
      <4>1. t # s
        BY <2>3, <3>3
      <4>2. status'[t] = status[t] /\ route'[t] = route[t] /\ r.task # t
        BY <2>2, <3>1, <4>1
      <4>3. QED
        BY <1>e, <2>1, <3>2, <3>3, <4>2
    <3>4. QED
      BY <3>3 DEF DueInv
  <2>5. CASE UNCHANGED updates
    <3>1. ASSUME NEW t \in Tasks, Finished(t)'
          PROVE  /\ \A j \in 1..Len(updates') : Scheduled(j, t)' => Returning(t, j + 1)'
                 /\ Arriving(t)' => Returning(t, 1)'
                 /\ \A v \in DOMAIN queues' :
                      t \in queues'[v].pending => CompletionDue(t, v)'
      <4>1. t # s
        BY <2>3, <3>1
      <4>2. status'[t] = status[t] /\ route'[t] = route[t]
        BY <2>2, <4>1
      <4>3. Finished(t)
        BY <3>1, <4>2, FinishedBefore
      <4>4. /\ \A j : Scheduled(j, t)' <=> Scheduled(j, t)
            /\ \A j : Returning(t, j)' <=> Returning(t, j)
            /\ Arriving(t)' <=> Arriving(t)
            /\ \A v : CompletionDue(t, v)' <=> CompletionDue(t, v)
        BY <2>1, <2>5, <4>2 DEF Scheduled, Returning, Arriving, CompletionDue
      <4>5. QED
        BY <1>d, <2>1, <2>5, <4>3, <4>4
    <3>2. QED
      BY <3>1 DEF DueInv
  <2>6. QED
    BY <2>1, <2>4, <2>5
<1>2. ASSUME NEW s \in Tasks, SubmitResult(s) \/ NotifyTaskCompletion(s) PROVE DueInv'
  <2>1. PICK v \in DOMAIN instances :
             /\ v \in Uuids /\ status[s] = "running"
             /\ IdOf[HostOf(v)] = IdOf[HostOf(route[s])]
             /\ status' = [status EXCEPT ![s] = "done"]
             /\ SubmitUpdate([type |-> "completion", task |-> s, uuid |-> v])
             /\ UNCHANGED <<route, queues, cleared, worker, instances>>
    BY <1>2, Ends
  <2> DEFINE r == [type |-> "completion", task |-> s, uuid |-> v]
  <2>2. r \in Update /\ r.type # "schedule"
    BY <2>1 DEF Update
  <2>3. /\ Len(updates') = n + 1 /\ updates'[n + 1] = r
        /\ \A k \in 1..n : updates'[k] = updates[k]
    BY <2>1, <2>2, Submits
  <2> HIDE DEF n
  <2>4. ASSUME NEW t \in Tasks, Finished(t)'
        PROVE  /\ \A j \in 1..Len(updates') : Scheduled(j, t)' => Returning(t, j + 1)'
               /\ Arriving(t)' => Returning(t, 1)'
               /\ \A u \in DOMAIN queues' : t \in queues'[u].pending => CompletionDue(t, u)'
    <3>1. CASE t # s
      <4>1. status'[t] = status[t] /\ route'[t] = route[t]
        BY <2>1, <3>1 DEF RouteInv
      <4> HIDE DEF r
      <4>2. QED
        BY <1>e, <2>1, <2>2, <2>3, <2>4, <4>1
    <3>2. CASE t = s
      <4>1. v = route[s]
        <5>1. ~Ambiguous(route[s])'
          BY <2>1, <2>4, <3>2 DEF Finished
        <5>2. ASSUME v # route[s] PROVE Ambiguous(route[s])'
          <6>1. v \in DOMAIN instances' \ {route'[s]}
            BY <2>1, <5>2
          <6>2. IdOf[instances'[v].host] = IdOf[instances'[route'[s]].host]
            BY <2>1 DEF HostOf
          <6>3. QED
            BY <6>1, <6>2 DEF Ambiguous, HostOf
        <5>3. QED
          BY <5>1, <5>2
      <4>2. updates'[n + 1] = [type |-> "completion", task |-> t, uuid |-> route'[t]]
        BY <2>1, <2>3, <3>2, <4>1
      <4>3. \A j \in 1..(n + 1) : Returning(t, j)'
        <5> TAKE j \in 1..(n + 1)
        <5>1. n + 1 \in j..Len(updates')
          BY <1>a, <2>3
        <5>2. QED
          BY <4>2, <5>1 DEF Returning
      <4>4. \A j \in 1..Len(updates') : Scheduled(j, t)' => Returning(t, j + 1)'
        <5> TAKE j \in 1..Len(updates')
        <5> HAVE Scheduled(j, t)'
        <5>1. j # n + 1
          BY <2>2, <2>3 DEF Scheduled
        <5>2. j + 1 \in 1..(n + 1)
          BY <1>a, <2>3, <5>1
        <5>3. QED
          BY <4>3, <5>2
      <4>5. Returning(t, 1)'
        BY <1>a, <4>3
      <4>6. \A u \in DOMAIN queues' : t \in queues'[u].pending => CompletionDue(t, u)'
        <5> TAKE u \in DOMAIN queues'
        <5> HAVE t \in queues'[u].pending
        <5>1. u = route[t]
          BY <2>1 DEF OnceInv
        <5>2. n + 1 \in DOMAIN updates'
          BY <1>a, <1>c, <2>3
        <5>3. updates'[n + 1] = [type |-> "completion", task |-> t, uuid |-> u]
          BY <2>1, <4>2, <5>1
        <5>4. QED
          BY <5>2, <5>3 DEF CompletionDue
      <4>7. QED
        BY <4>4, <4>5, <4>6
    <3>3. QED
      BY <3>1, <3>2
  <2>5. QED
    BY <2>4 DEF DueInv
<1>3. ASSUME NEW name \in Strategies, SetStrategy(name) PROVE DueInv'
  <2>1. /\ worker' = [pc |-> "idle"] /\ UNCHANGED <<updates, status, route>>
        /\ \A v \in DOMAIN queues' : queues'[v].pending = {}
    BY <1>3, Resets DEF others
  <2>2. \A t : ~Arriving(t)'
    BY <2>1 DEF Arriving
  <2>3. QED
    BY <2>1, <2>2, DueKept
<1>4. ASSUME ClearPendingTasks PROVE DueInv'
  <2>1. /\ UNCHANGED <<updates, worker, status, route>> /\ DOMAIN queues' = DOMAIN queues
        /\ \A v \in DOMAIN queues : queues'[v].pending = {}
    BY <1>4, Clears
  <2>2. \A t : Arriving(t)' => Arriving(t)
    BY <2>1 DEF Arriving
  <2>3. QED
    BY <2>1, <2>2, DueKept
<1>5. ASSUME Discard PROVE DueInv'
  <2>1. /\ worker' = [pc |-> "idle"] /\ UNCHANGED <<queues, updates, status, route>>
        /\ worker.pc = "completion" =>
             ~(worker.uuid \in DOMAIN queues
                 /\ worker.task \in queues[worker.uuid].pending)
    BY <1>5, Discards DEF others
  <2>2. \A t : ~Arriving(t)'
    BY <2>1 DEF Arriving
  <2>3. \A u \in DOMAIN queues : \A t \in queues[u].pending :
          worker # [pc |-> "completion", task |-> t, uuid |-> u]
    BY <2>1
  <2>4. QED
    BY <2>1, <2>2, <2>3, DueKept
<1>6. ASSUME CachePrediction PROVE DueInv'
  <2>1. /\ worker.pc = "schedule"
        /\ worker' = [pc |-> "add", task |-> worker.task, uuid |-> worker.uuid]
        /\ UNCHANGED <<updates, status, route>> /\ DOMAIN queues' = DOMAIN queues
        /\ \A v \in DOMAIN queues :
             queues'[v].pending = IF v = worker.uuid
                   THEN queues[v].pending \cup {worker.task} ELSE queues[v].pending
    BY <1>6, Caches DEF others
  <2>2. Arriving(worker.task) /\ worker.uuid = route[worker.task]
    BY <1>6, <2>1, Busy DEF Arriving, OnceInv
  <2>3. \A t : Arriving(t)' => Arriving(t)
    BY <2>1 DEF Arriving
  <2>4. \A u, t : worker # [pc |-> "completion", task |-> t, uuid |-> u]
    BY <2>1
  <2>5. ASSUME NEW u \in DOMAIN queues', NEW t \in queues'[u].pending
        PROVE  \/ u \in DOMAIN queues /\ t \in queues[u].pending
               \/ Arriving(t) /\ u = route[t]
    BY <2>1, <2>2
  <2>6. QED
    BY <2>1, <2>3, <2>4, <2>5, DueKept
<1>7. ASSUME AddPrediction PROVE DueInv'
  <2>1. /\ worker.pc = "add" /\ worker' = [pc |-> "idle"]
        /\ UNCHANGED <<updates, status, route>> /\ DOMAIN queues' = DOMAIN queues
        /\ \A v \in DOMAIN queues : queues'[v].pending = queues[v].pending
    BY <1>7, Adds DEF others
  <2>2. \A t : ~Arriving(t)'
    BY <2>1 DEF Arriving
  <2>3. \A u, t : worker # [pc |-> "completion", task |-> t, uuid |-> u]
    BY <2>1
  <2>4. QED
    BY <2>1, <2>2, <2>3, DueKept
<1>8. ASSUME PopPrediction PROVE DueInv'
  <2>1. /\ worker' = [pc |-> "sub", task |-> worker.task, uuid |-> worker.uuid]
        /\ UNCHANGED <<updates, status, route>> /\ DOMAIN queues' = DOMAIN queues
        /\ \A v \in DOMAIN queues :
             queues'[v].pending = IF v = worker.uuid
                   THEN queues[v].pending \ {worker.task} ELSE queues[v].pending
    BY <1>8, Pops DEF others
  <2>2. \A t : ~Arriving(t)'
    BY <2>1 DEF Arriving
  <2>3. ASSUME NEW u \in DOMAIN queues', NEW t \in queues'[u].pending
        PROVE  /\ u \in DOMAIN queues /\ t \in queues[u].pending
               /\ worker # [pc |-> "completion", task |-> t, uuid |-> u]
    <3>1. ~(u = worker.uuid /\ t = worker.task)
      BY <2>1
    <3>2. u \in DOMAIN queues /\ t \in queues[u].pending
      BY <2>1
    <3>3. QED
      BY <3>1, <3>2
  <2>4. QED
    BY <2>1, <2>2, <2>3, DueKept
<1>9. ASSUME SubPrediction PROVE DueInv'
  <2>1. /\ worker.pc = "sub" /\ worker' = [pc |-> "idle"]
        /\ UNCHANGED <<updates, status, route>> /\ DOMAIN queues' = DOMAIN queues
        /\ \A v \in DOMAIN queues : queues'[v].pending = queues[v].pending
    BY <1>9, Subtracts DEF others
  <2>2. \A t : ~Arriving(t)'
    BY <2>1 DEF Arriving
  <2>3. \A u, t : worker # [pc |-> "completion", task |-> t, uuid |-> u]
    BY <2>1
  <2>4. QED
    BY <2>1, <2>2, <2>3, DueKept
<1>10. ASSUME TakeUpdate PROVE DueInv'
  <2>1. /\ worker = [pc |-> "idle"] /\ n \in Nat \ {0}
        /\ updates[1] \in Update
        /\ worker' = [pc |-> updates[1].type, task |-> updates[1].task,
                      uuid |-> updates[1].uuid]
        /\ Len(updates') = n - 1
        /\ \A k \in 1..Len(updates') : updates'[k] = updates[k + 1]
        /\ UNCHANGED <<queues, status, route>>
    BY <1>10, Takes DEF others
  <2> HIDE DEF n
  <2>2. SUFFICES ASSUME NEW t \in Tasks, Finished(t)'
                 PROVE  /\ \A j \in 1..Len(updates') :
                             Scheduled(j, t)' => Returning(t, j + 1)'
                        /\ Arriving(t)' => Returning(t, 1)'
                        /\ \A u \in DOMAIN queues' :
                             t \in queues'[u].pending => CompletionDue(t, u)'
    BY DEF DueInv
  <2>3. Finished(t)
    BY <2>1, <2>2, FinishedBefore
  <2>4. \A j \in 1..n : Returning(t, j + 1) => Returning(t, j)'
    <3> TAKE j \in 1..n
    <3> HAVE Returning(t, j + 1)
    <3>1. PICK k \in (j + 1)..n :
            updates[k] = [type |-> "completion", task |-> t, uuid |-> route[t]]
      BY DEF Returning, n
    <3>2. k - 1 \in j..Len(updates') /\ k - 1 \in 1..Len(updates') /\ (k - 1) + 1 = k
      BY <1>a, <2>1
    <3>3. updates'[k - 1] = [type |-> "completion", task |-> t, uuid |-> route'[t]]
      BY <2>1, <3>1, <3>2
    <3>4. QED
      BY <3>2, <3>3 DEF Returning
  <2>5. ASSUME NEW j \in 1..Len(updates'), Scheduled(j, t)' PROVE Returning(t, j + 1)'
    <3>1. j + 1 \in 1..n /\ updates'[j] = updates[j + 1]
      BY <2>1
    <3>2. Scheduled(j + 1, t)
      BY <2>5, <3>1 DEF Scheduled
    <3>3. Returning(t, (j + 1) + 1)
      BY <1>d, <2>3, <3>1, <3>2
    <3>4. QED
      BY <2>4, <3>1, <3>3
  <2>6. ASSUME Arriving(t)' PROVE Returning(t, 1)'
    <3>1. Scheduled(1, t) /\ 1 \in 1..n
      BY <2>1, <2>6 DEF Arriving, Scheduled, Update
    <3>2. Returning(t, 1 + 1)
      BY <1>d, <2>3, <3>1
    <3>3. QED
      BY <2>4, <3>1, <3>2
  <2>7. ASSUME NEW u \in DOMAIN queues', t \in queues'[u].pending PROVE CompletionDue(t, u)'
    <3>1. CompletionDue(t, u)
      BY <1>d, <2>1, <2>3, <2>7
    <3>2. worker # [pc |-> "completion", task |-> t, uuid |-> u]
      BY <2>1
    <3>3. PICK k \in 1..n : updates[k] = [type |-> "completion", task |-> t, uuid |-> u]
      BY <1>a, <3>1, <3>2 DEF CompletionDue
    <3>4. CASE k = 1
      <4>1. worker' = [pc |-> "completion", task |-> t, uuid |-> u]
        BY <2>1, <3>3, <3>4
      <4>2. QED
        BY <4>1 DEF CompletionDue
    <3>5. CASE k # 1
      <4>1. k - 1 \in 1..Len(updates') /\ (k - 1) + 1 = k
        BY <2>1, <3>5
      <4>2. updates'[k - 1] = [type |-> "completion", task |-> t, uuid |-> u]
        BY <2>1, <3>3, <4>1
      <4>3. QED
        BY <1>c, <4>1, <4>2 DEF CompletionDue
    <3>6. QED
      BY <3>4, <3>5
  <2>8. QED
    BY <2>5, <2>6, <2>7
<1>11. ASSUME UNCHANGED <<strategyVars, taskVars, updates, worker, streak>> PROVE DueInv'
  <2>1. UNCHANGED <<queues, status, route, updates, worker>>
    BY <1>11 DEF strategyVars, taskVars
  <2>2. \A t : Arriving(t)' => Arriving(t)
    BY <2>1 DEF Arriving
  <2>3. QED
    BY <2>1, <2>2, DueKept
<1>12. QED
  BY <1>1, <1>2, <1>3, <1>4, <1>5, <1>6, <1>7, <1>8, <1>9, <1>10, <1>11, TaskMoves

-----------------------------------------------------------------------------
(* The invariant of the four theorems.                                       *)
RoutingInv ==
    /\ RegistryInv /\ CacheInv /\ RouteInv /\ StrategyInv
    /\ QueueInv /\ UpdateInv /\ OnceInv /\ DistInv /\ DueInv

(* All queues are empty at the start, and nothing is on its way.             *)
LEMMA RestInit ==
    Init => /\ RouteInv /\ StrategyInv
            /\ QueueInv /\ UpdateInv /\ OnceInv /\ DistInv /\ DueInv
<1> SUFFICES ASSUME Init
             PROVE  /\ RouteInv /\ StrategyInv
                    /\ QueueInv /\ UpdateInv /\ OnceInv /\ DistInv /\ DueInv
  OBVIOUS
<1>1. /\ status = [t \in Tasks |-> "new"] /\ route = [t \in Tasks |-> 0]
      /\ updates = <<>> /\ worker = [pc |-> "idle"] /\ streak = NoStreak
  BY DEF Init
<1>2. PICK name \in Strategies :
        strategy = [name |-> name, index |-> 0] /\ queues = FreshQueues(name)
  BY DEF Init
<1>3. RouteInv
  BY <1>1 DEF RouteInv
<1>4. StrategyInv
  <2>1. 0 \in 0..MaxIssued
    BY RoutingAssumption
  <2>2. QED
    BY <1>1, <1>2, <2>1 DEF StrategyInv
<1>5. /\ DOMAIN queues \subseteq Uuids
      /\ \A u \in DOMAIN queues :
            QueueOK(queues[u]) /\ queues[u].dist = {} /\ queues[u].pending = {}
  <2>1. QueueOK(EmptyQueue) /\ EmptyQueue.dist = {} /\ EmptyQueue.pending = {}
    <3>1. IsFiniteSet({}) /\ Cardinality({}) = 0
      BY FS_EmptySet
    <3>2. QED
      BY <3>1 DEF QueueOK, EmptyQueue, Queue
  <2>2. Listed \subseteq Uuids
    BY RegistryInit, Registered DEF RegistryInv
  <2> HIDE DEF EmptyQueue
  <2>3. CASE name = "probabilistic"
    <3>1. queues = [u \in Listed |-> EmptyQueue]
      BY <1>2, <2>3 DEF FreshQueues
    <3>2. QED
      BY <2>1, <2>2, <3>1
  <2>4. CASE name # "probabilistic"
    <3>1. DOMAIN queues = {}
      BY <1>2, <2>4 DEF FreshQueues
    <3>2. QED
      BY <3>1
  <2>5. QED
    BY <2>3, <2>4
<1>6. QueueInv
  BY <1>5 DEF QueueInv
<1>7. UpdateInv
  <2>1. updates \in Seq(Update)
    BY <1>1
  <2>2. QED
    BY <1>1, <2>1 DEF UpdateInv
<1>8. Len(updates) = 0 /\ worker.pc = "idle"
  BY <1>1
<1>9. 1..0 = {}
  OBVIOUS
<1>10. OnceInv
  BY <1>5, <1>8, <1>9 DEF OnceInv, Arriving
<1>11. DistInv
  BY <1>5, <1>8 DEF DistInv
<1>12. DueInv
  BY <1>5, <1>8, <1>9 DEF DueInv, Arriving
<1>13. QED
  BY <1>3, <1>4, <1>6, <1>7, <1>10, <1>11, <1>12

(* The invariant holds at the start ...                                      *)
LEMMA RoutingInit == Init => RoutingInv
BY RegistryInit, RestInit DEF RoutingInv

(* ... and every step keeps it.                                              *)
LEMMA RoutingStep == RoutingInv /\ [Next]_vars => RoutingInv'
<1> SUFFICES ASSUME RoutingInv, [Next]_vars PROVE RoutingInv'
  OBVIOUS
<1>1. Base /\ StrategyInv /\ QueueInv /\ UpdateInv /\ OnceInv /\ DistInv /\ DueInv
  BY DEF RoutingInv, Base
<1>2. RegistryInv' /\ CacheInv'
  BY <1>1, RegistryStep DEF Base
<1>3. RouteInv'
  BY <1>1, RouteStep DEF Base
<1>4. StrategyInv'
  BY <1>1, StrategyStep DEF Base
<1>5. QueueInv' /\ UpdateInv'
  BY <1>1, QueueStep
<1>6. OnceInv'
  BY <1>1, OnceStep
<1>7. DistInv'
  BY <1>1, DistStep
<1>8. DueInv'
  BY <1>1, DueStep
<1>9. QED
  BY <1>2, <1>3, <1>4, <1>5, <1>6, <1>7, <1>8 DEF RoutingInv

(* So it always holds.                                                       *)
LEMMA Inductive == Spec => []RoutingInv
BY RoutingInit, RoutingStep, PTL DEF Spec

(* The invariant implies the types ...                                       *)
LEMMA Typed == RoutingInv => TypeOK
<1> SUFFICES ASSUME RoutingInv PROVE TypeOK
  OBVIOUS
<1>1. RegistryInv /\ CacheInv /\ RouteInv /\ StrategyInv /\ QueueInv
  BY DEF RoutingInv
<1>2. strategy.name \in Strategies /\ strategy.index \in 0..MaxIssued
  BY <1>1 DEF StrategyInv
<1>3. \A u \in DOMAIN queues :
         /\ queues[u].pending \subseteq Tasks /\ queues[u].dist \subseteq Tasks
         /\ queues[u].taskCount \in 0..Cardinality(queues[u].dist)
  <2> TAKE u \in DOMAIN queues
  <2>1. QueueOK(queues[u])
    BY <1>1 DEF QueueInv
  <2>2. QED
    BY <2>1, QueueFields
<1>4. QED
  BY <1>1, <1>2, <1>3 DEF TypeOK, RegistryInv, CacheInv, RouteInv, QueueInv

(* ... and that charges are returned.                                        *)
LEMMA Returned == RoutingInv => ChargesReturned
<1> SUFFICES ASSUME RoutingInv, NEW u \in DOMAIN queues
             PROVE  /\ \A t \in queues[u].pending :
                         status[t] = "done" => CompletionDue(t, u) \/ Ambiguous(u)
                    /\ queues[u].dist \subseteq queues[u].pending \cup Held \cup cleared
  BY DEF ChargesReturned
<1>1. QueueInv /\ OnceInv /\ DistInv /\ DueInv
  BY DEF RoutingInv
<1>2. ASSUME NEW t \in queues[u].pending, status[t] = "done", ~Ambiguous(u)
      PROVE  CompletionDue(t, u)
  <2>1. t \in Tasks
    BY <1>1, QueueFields DEF QueueInv
  <2>2. route[t] = u
    BY <1>1 DEF OnceInv
  <2>3. Finished(t)
    BY <1>2, <2>2 DEF Finished
  <2>4. QED
    BY <1>1, <2>1, <2>3 DEF DueInv
<1>3. ASSUME NEW t \in queues[u].dist PROVE t \in queues[u].pending \cup Held \cup cleared
  <2>1. CASE t \in queues[u].pending \cup cleared
    BY <2>1
  <2>2. CASE worker = [pc |-> "sub", task |-> t, uuid |-> u]
    BY <2>2 DEF Held
  <2>3. QED
    BY <1>1, <2>1, <2>2 DEF DistInv
<1>4. QED
  BY <1>2, <1>3

-----------------------------------------------------------------------------
(* Every state is of its type: in particular a queue never counts more       *)
(* tasks than its distribution has, and the index of round_robin stays       *)
(* within the bound, although its list shrinks and grows.                    *)
THEOREM RoutingTyped == Spec => []TypeOK
BY Inductive, Typed, PTL

(* The id cache of get_uuid_by_instance_id never points to a removed         *)
(* instance, unless the instance did not answer when it was removed:         *)
(* whatever is registered, removed, looked up and registered again.          *)
THEOREM CacheStaysCurrent == Spec => []CacheCurrent
<1>1. RoutingInv => CacheCurrent
  BY DEF RoutingInv, CacheInv, CacheCurrent
<1>2. QED
  BY <1>1, Inductive, PTL

(* As long as round_robin selects from the same candidates, no one of them   *)
(* is selected two times more often than another, wherever the shared index  *)
(* stood.                                                                    *)
THEOREM RotationIsEven == Spec => []RotationEven
<1>1. RoutingInv => RotationEven
  BY StreakEven DEF RoutingInv
<1>2. QED
  BY <1>1, Inductive, PTL

(* What a finished task added to a queue of the probabilistic strategy is    *)
(* taken off again, or its completion update is on its way, for any          *)
(* interleaving of results, clears and changes of strategy with the worker;  *)
(* unless two registrations share the id.                                    *)
THEOREM ChargesComeBack == Spec => []ChargesReturned
BY Inductive, Returned, PTL
=============================================================================
