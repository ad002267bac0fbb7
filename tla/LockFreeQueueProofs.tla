------------------------ MODULE LockFreeQueueProofs ------------------------
(* Theorems about the lock-free queue under its scheduler, for any number of *)
(* threads, items and places.                                                *)
EXTENDS LockFreeScheduler, FiniteSetTheorems, SequenceTheorems, TLAPS

(* Each item is put once: it is in a producer's hand, in the deque at one    *)
(* place, or taken.                                                          *)
Appending(p) == at[p] = "append"

ItemsOnce ==
    /\ \A i, j \in DOMAIN deque : deque[i] = deque[j] => i = j
    /\ \A i \in DOMAIN deque : deque[i] \notin taken
    /\ \A p \in Producers : Appending(p) =>
           /\ item[p] \in Items /\ item[p] \notin taken
           /\ \A i \in DOMAIN deque : deque[i] # item[p]
    /\ \A p, q \in Producers : Appending(p) /\ Appending(q) /\ item[p] = item[q] => p = q

QueueInv == QueueTypeOK /\ TokensAccounted /\ ItemsOnce

-----------------------------------------------------------------------------
(* Counting the threads in a step.                                           *)
LEMMA GroupsFinite ==
    ASSUME NEW group \in {Producers, Consumers}, NEW step
    PROVE  /\ IsFiniteSet(InStep(group, step)) /\ Cardinality(InStep(group, step)) \in Nat
           /\ IsFiniteSet(InStep(group, step)')
           /\ Cardinality(InStep(group, step)') \in Nat
  <1>1. IsFiniteSet(group)
    BY QueueAssumption
  <1>2. InStep(group, step) \in SUBSET group /\ InStep(group, step)' \in SUBSET group
    BY DEF InStep
  <1> QED
    BY <1>1, <1>2, FS_Subset, FS_CardinalityType

(* A thread that goes from one step to another is counted in the new one and *)
(* no longer in the old one.                                                 *)
LEMMA ThreadMoves ==
    ASSUME QueueTypeOK, NEW group \in {Producers, Consumers}, NEW t \in group,
           NEW from, NEW next, at[t] = from, from # next, To(t, next)
    PROVE  /\ Cardinality(InStep(group, next)') = Cardinality(InStep(group, next)) + 1
           /\ Cardinality(InStep(group, from)') = Cardinality(InStep(group, from)) - 1
  <1>1. t \in Threads /\ group \subseteq Threads
    BY DEF Threads
  <1>2. \A u \in group : at'[u] = IF u = t THEN next ELSE at[u]
    BY <1>1 DEF To, QueueTypeOK
  <1>3. InStep(group, next)' = InStep(group, next) \cup {t} /\ t \notin InStep(group, next)
    BY <1>2 DEF InStep
  <1>4. InStep(group, from)' = InStep(group, from) \ {t} /\ t \in InStep(group, from)
    BY <1>2 DEF InStep
  <1>5. IsFiniteSet(InStep(group, next)) /\ IsFiniteSet(InStep(group, from))
    BY GroupsFinite
  <1>6. Cardinality(InStep(group, next)') = Cardinality(InStep(group, next)) + 1
    BY <1>3, <1>5, FS_AddElement
  <1>7. Cardinality(InStep(group, from)') = Cardinality(InStep(group, from)) - 1
    BY <1>4, <1>5, FS_RemoveElement
  <1> QED
    BY <1>6, <1>7

LEMMA StepKept ==
    ASSUME QueueTypeOK, NEW group \in {Producers, Consumers}, NEW t \in Threads,
           NEW next, To(t, next), NEW step, t \notin group \/ (at[t] # step /\ next # step)
    PROVE  InStep(group, step)' = InStep(group, step)
  <1>1. \A u \in group : at'[u] = IF u = t THEN next ELSE at[u]
    BY DEF To, QueueTypeOK, Threads
  <1> QED
    BY <1>1 DEF InStep

(* A thread that has a token for the deque finds an item in it.              *)
LEMMA PopFinds == TokensAccounted /\ QueueTypeOK => NeverPopsEmpty
  <1> SUFFICES ASSUME TokensAccounted, QueueTypeOK, NEW c \in Consumers, at[c] = "pop"
               PROVE  deque # <<>>
    BY DEF NeverPopsEmpty
  <1>1. InStep(Consumers, "pop") # {} /\ IsFiniteSet(InStep(Consumers, "pop"))
    BY GroupsFinite DEF InStep
  <1>2. Cardinality(InStep(Consumers, "pop")) \in Nat \ {0}
    BY <1>1, FS_EmptySet, FS_CardinalityType
  <1>3. /\ Cardinality(InStep(Producers, "count")) \in Nat
        /\ Cardinality(InStep(Producers, "offer")) \in Nat
    BY GroupsFinite
  <1>4. Len(deque) > 0
    BY <1>2, <1>3 DEF TokensAccounted, ItemTokens, PlaceTokens, QueueTypeOK
  <1> QED
    BY <1>4

-----------------------------------------------------------------------------
(* The steps of a put and of a get, one lemma for each conjunct.             *)
LEMMA QueueTyped == QueueInv /\ [QueueNext]_queueVars => QueueTypeOK'
  <1> SUFFICES ASSUME QueueInv, [QueueNext]_queueVars PROVE QueueTypeOK'
    OBVIOUS
  <1> USE QueueAssumption DEF Threads, Outside, To, NoItem
  <1>0. QueueTypeOK /\ Producers \cap Consumers = {}
    BY DEF QueueInv
  <1>1. ASSUME NEW p \in Producers, NEW x \in Items, BeginPut(p, x) PROVE QueueTypeOK'
    BY <1>0, <1>1 DEF BeginPut, TakePlace, QueueTypeOK
  <1>2. ASSUME NEW p \in Producers, AppendItem(p) PROVE QueueTypeOK'
    <2>1. item[p] \in Items
      BY <1>2 DEF QueueInv, ItemsOnce, Appending, AppendItem
    <2>2. deque' \in Seq(Items)
      BY <1>0, <1>2, <2>1 DEF AppendItem, QueueTypeOK
    <2> QED
      BY <1>0, <1>2, <2>2 DEF AppendItem, QueueTypeOK
  <1>3. ASSUME NEW p \in Producers, CountItem(p) PROVE QueueTypeOK'
    BY <1>0, <1>3 DEF CountItem, QueueTypeOK
  <1>4. ASSUME NEW p \in Producers, OfferItem(p) PROVE QueueTypeOK'
    BY <1>0, <1>4 DEF OfferItem, QueueTypeOK
  <1>5. ASSUME NEW c \in Consumers, BeginGet(c) PROVE QueueTypeOK'
    BY <1>0, <1>5 DEF BeginGet, QueueTypeOK
  <1>6. ASSUME NEW c \in Consumers, PopItem(c) PROVE QueueTypeOK'
    <2>1. CASE deque = <<>>
      BY <1>0, <1>6, <2>1 DEF PopItem, QueueTypeOK
    <2>2. CASE deque # <<>>
      <3>1. Head(deque) \in Items /\ Tail(deque) \in Seq(Items)
        BY <1>0, <2>2 DEF QueueTypeOK
      <3> QED
        BY <1>0, <1>6, <2>2, <3>1 DEF PopItem, QueueTypeOK
    <2> QED
      BY <2>1, <2>2
  <1>7. ASSUME NEW c \in Consumers, UncountItem(c) PROVE QueueTypeOK'
    BY <1>0, <1>7 DEF UncountItem, QueueTypeOK
  <1>8. ASSUME NEW c \in Consumers, FreePlace(c) PROVE QueueTypeOK'
    BY <1>0, <1>8 DEF FreePlace, QueueTypeOK
  <1>9. ASSUME UNCHANGED queueVars PROVE QueueTypeOK'
    BY <1>0, <1>9 DEF queueVars, QueueTypeOK
  <1> QED
    BY <1>1, <1>2, <1>3, <1>4, <1>5, <1>6, <1>7, <1>8, <1>9
    DEF QueueNext, PutStep, GetStep

(* Whatever a thread does, the counts of the steps it neither leaves nor     *)
(* enters are the same.                                                      *)
LEMMA TokensStep == QueueInv /\ [QueueNext]_queueVars => TokensAccounted'
  <1> SUFFICES ASSUME QueueInv, [QueueNext]_queueVars PROVE TokensAccounted'
    OBVIOUS
  <1>0. /\ QueueTypeOK /\ TokensAccounted
        /\ ItemTokens /\ PlaceTokens /\ SizeLags
    BY DEF QueueInv, TokensAccounted
  <1>a. /\ Cardinality(InStep(Producers, "append")) \in Nat
        /\ Cardinality(InStep(Producers, "count")) \in Nat
        /\ Cardinality(InStep(Producers, "offer")) \in Nat
        /\ Cardinality(InStep(Consumers, "pop")) \in Nat
        /\ Cardinality(InStep(Consumers, "uncount")) \in Nat
        /\ Cardinality(InStep(Consumers, "free")) \in Nat
    BY GroupsFinite
  <1>b. /\ semPut \in Int /\ semGet \in Int /\ size \in Int /\ deque \in Seq(Items)
        /\ Len(deque) \in Nat /\ Capacity \in Int
    BY <1>0, QueueAssumption DEF QueueTypeOK
  <1>1. ASSUME NEW p \in Producers, NEW x \in Items, BeginPut(p, x) PROVE TokensAccounted'
    <2>1. p \in Threads /\ at[p] = "out" /\ To(p, "append")
      BY <1>1 DEF BeginPut, Outside, Threads
    <2>2. semPut' = semPut - 1 /\ semPut > 0 /\ UNCHANGED <<semGet, size, deque>>
      BY <1>b, <1>1 DEF BeginPut, TakePlace
    <2>3. Cardinality(InStep(Producers, "append")')
                = Cardinality(InStep(Producers, "append")) + 1
      BY <1>0, <2>1, ThreadMoves
    <2>4. /\ InStep(Producers, "count")' = InStep(Producers, "count")
          /\ InStep(Producers, "offer")' = InStep(Producers, "offer")
      BY <1>0, <2>1, StepKept
    <2>5. /\ InStep(Consumers, "pop")' = InStep(Consumers, "pop")
          /\ InStep(Consumers, "uncount")' = InStep(Consumers, "uncount")
          /\ InStep(Consumers, "free")' = InStep(Consumers, "free")
      BY <1>0, <2>1, StepKept, QueueAssumption
    <2>6. ItemTokens'
      BY <1>0, <1>a, <1>b, <2>2, <2>3, <2>4, <2>5, SMTT(60) DEF ItemTokens
    <2>7. PlaceTokens'
      BY <1>0, <1>a, <1>b, <2>2, <2>3, <2>4, <2>5, SMTT(60) DEF PlaceTokens
    <2>8. SizeLags'
      BY <1>0, <1>a, <1>b, <2>2, <2>3, <2>4, <2>5, SMTT(60) DEF SizeLags
    <2> QED
      BY <1>0, <1>b, <2>2, <2>6, <2>7, <2>8 DEF TokensAccounted
  <1>2. ASSUME NEW p \in Producers, AppendItem(p) PROVE TokensAccounted'
    <2>1. p \in Threads /\ at[p] = "append" /\ To(p, "count")
      BY <1>2 DEF AppendItem, Threads
    <2>2. Len(deque') = Len(deque) + 1 /\ UNCHANGED <<semPut, semGet, size>>
      BY <1>b, <1>2 DEF AppendItem
    <2>3. /\ Cardinality(InStep(Producers, "append")')
                = Cardinality(InStep(Producers, "append")) - 1
          /\ Cardinality(InStep(Producers, "count")')
                = Cardinality(InStep(Producers, "count")) + 1
      BY <1>0, <2>1, ThreadMoves
    <2>4. InStep(Producers, "offer")' = InStep(Producers, "offer")
      BY <1>0, <2>1, StepKept
    <2>5. /\ InStep(Consumers, "pop")' = InStep(Consumers, "pop")
          /\ InStep(Consumers, "uncount")' = InStep(Consumers, "uncount")
          /\ InStep(Consumers, "free")' = InStep(Consumers, "free")
      BY <1>0, <2>1, StepKept, QueueAssumption
    <2>6. ItemTokens'
      BY <1>0, <1>a, <1>b, <2>2, <2>3, <2>4, <2>5, SMTT(60) DEF ItemTokens
    <2>7. PlaceTokens'
      BY <1>0, <1>a, <1>b, <2>2, <2>3, <2>4, <2>5, SMTT(60) DEF PlaceTokens
    <2>8. SizeLags'
      BY <1>0, <1>a, <1>b, <2>2, <2>3, <2>4, <2>5, SMTT(60) DEF SizeLags
    <2> QED
      BY <1>0, <1>b, <2>2, <2>6, <2>7, <2>8 DEF TokensAccounted
  <1>3. ASSUME NEW p \in Producers, CountItem(p) PROVE TokensAccounted'
    <2>1. p \in Threads /\ at[p] = "count" /\ To(p, "offer")
      BY <1>3 DEF CountItem, Threads
    <2>2. size' = size + 1 /\ UNCHANGED <<semPut, semGet, deque>>
      BY <1>b, <1>3 DEF CountItem
    <2>3. /\ Cardinality(InStep(Producers, "count")')
                = Cardinality(InStep(Producers, "count")) - 1
          /\ Cardinality(InStep(Producers, "offer")')
                = Cardinality(InStep(Producers, "offer")) + 1
      BY <1>0, <2>1, ThreadMoves
    <2>4. InStep(Producers, "append")' = InStep(Producers, "append")
      BY <1>0, <2>1, StepKept
    <2>5. /\ InStep(Consumers, "pop")' = InStep(Consumers, "pop")
          /\ InStep(Consumers, "uncount")' = InStep(Consumers, "uncount")
          /\ InStep(Consumers, "free")' = InStep(Consumers, "free")
      BY <1>0, <2>1, StepKept, QueueAssumption
    <2>6. ItemTokens'
      BY <1>0, <1>a, <1>b, <2>2, <2>3, <2>4, <2>5, SMTT(60) DEF ItemTokens
    <2>7. PlaceTokens'
      BY <1>0, <1>a, <1>b, <2>2, <2>3, <2>4, <2>5, SMTT(60) DEF PlaceTokens
    <2>8. SizeLags'
      BY <1>0, <1>a, <1>b, <2>2, <2>3, <2>4, <2>5, SMTT(60) DEF SizeLags
    <2> QED
      BY <1>0, <1>b, <2>2, <2>6, <2>7, <2>8 DEF TokensAccounted
  <1>4. ASSUME NEW p \in Producers, OfferItem(p) PROVE TokensAccounted'
    <2>1. p \in Threads /\ at[p] = "offer" /\ To(p, "out")
      BY <1>4 DEF OfferItem, Threads
    <2>2. semGet' = semGet + 1 /\ UNCHANGED <<semPut, size, deque>>
      BY <1>b, <1>4 DEF OfferItem
    <2>3. Cardinality(InStep(Producers, "offer")')
                = Cardinality(InStep(Producers, "offer")) - 1
      BY <1>0, <2>1, ThreadMoves
    <2>4. /\ InStep(Producers, "append")' = InStep(Producers, "append")
          /\ InStep(Producers, "count")' = InStep(Producers, "count")
      BY <1>0, <2>1, StepKept
    <2>5. /\ InStep(Consumers, "pop")' = InStep(Consumers, "pop")
          /\ InStep(Consumers, "uncount")' = InStep(Consumers, "uncount")
          /\ InStep(Consumers, "free")' = InStep(Consumers, "free")
      BY <1>0, <2>1, StepKept, QueueAssumption
    <2>6. ItemTokens'
      BY <1>0, <1>a, <1>b, <2>2, <2>3, <2>4, <2>5, SMTT(60) DEF ItemTokens
    <2>7. PlaceTokens'
      BY <1>0, <1>a, <1>b, <2>2, <2>3, <2>4, <2>5, SMTT(60) DEF PlaceTokens
    <2>8. SizeLags'
      BY <1>0, <1>a, <1>b, <2>2, <2>3, <2>4, <2>5, SMTT(60) DEF SizeLags
    <2> QED
      BY <1>0, <1>b, <2>2, <2>6, <2>7, <2>8 DEF TokensAccounted
  <1>5. ASSUME NEW c \in Consumers, BeginGet(c) PROVE TokensAccounted'
    <2>1. c \in Threads /\ at[c] = "out" /\ To(c, "pop")
      BY <1>5 DEF BeginGet, Outside, Threads
    <2>2. semGet' = semGet - 1 /\ semGet > 0 /\ UNCHANGED <<semPut, size, deque>>
      BY <1>b, <1>5 DEF BeginGet
    <2>3. Cardinality(InStep(Consumers, "pop")')
                = Cardinality(InStep(Consumers, "pop")) + 1
      BY <1>0, <2>1, ThreadMoves
    <2>4. /\ InStep(Consumers, "uncount")' = InStep(Consumers, "uncount")
          /\ InStep(Consumers, "free")' = InStep(Consumers, "free")
      BY <1>0, <2>1, StepKept
    <2>5. /\ InStep(Producers, "append")' = InStep(Producers, "append")
          /\ InStep(Producers, "count")' = InStep(Producers, "count")
          /\ InStep(Producers, "offer")' = InStep(Producers, "offer")
      BY <1>0, <2>1, StepKept, QueueAssumption
    <2>6. ItemTokens'
      BY <1>0, <1>a, <1>b, <2>2, <2>3, <2>4, <2>5, SMTT(60) DEF ItemTokens
    <2>7. PlaceTokens'
      BY <1>0, <1>a, <1>b, <2>2, <2>3, <2>4, <2>5, SMTT(60) DEF PlaceTokens
    <2>8. SizeLags'
      BY <1>0, <1>a, <1>b, <2>2, <2>3, <2>4, <2>5, SMTT(60) DEF SizeLags
    <2> QED
      BY <1>0, <1>b, <2>2, <2>6, <2>7, <2>8 DEF TokensAccounted
  <1>6. ASSUME NEW c \in Consumers, PopItem(c) PROVE TokensAccounted'
    <2>0. deque # <<>>
      BY <1>0, <1>6, PopFinds DEF NeverPopsEmpty, PopItem
    <2>1. c \in Threads /\ at[c] = "pop" /\ To(c, "uncount")
      BY <1>6, <2>0 DEF PopItem, Threads
    <2>2. Len(deque') = Len(deque) - 1 /\ UNCHANGED <<semPut, semGet, size>>
      BY <1>b, <1>6, <2>0 DEF PopItem
    <2>3. /\ Cardinality(InStep(Consumers, "pop")')
                = Cardinality(InStep(Consumers, "pop")) - 1
          /\ Cardinality(InStep(Consumers, "uncount")')
                = Cardinality(InStep(Consumers, "uncount")) + 1
      BY <1>0, <2>1, ThreadMoves
    <2>4. InStep(Consumers, "free")' = InStep(Consumers, "free")
      BY <1>0, <2>1, StepKept
    <2>5. /\ InStep(Producers, "append")' = InStep(Producers, "append")
          /\ InStep(Producers, "count")' = InStep(Producers, "count")
          /\ InStep(Producers, "offer")' = InStep(Producers, "offer")
      BY <1>0, <2>1, StepKept, QueueAssumption
    <2>6. ItemTokens'
      BY <1>0, <1>a, <1>b, <2>2, <2>3, <2>4, <2>5, SMTT(60) DEF ItemTokens
    <2>7. PlaceTokens'
      BY <1>0, <1>a, <1>b, <2>2, <2>3, <2>4, <2>5, SMTT(60) DEF PlaceTokens
    <2>8. SizeLags'
      BY <1>0, <1>a, <1>b, <2>2, <2>3, <2>4, <2>5, SMTT(60) DEF SizeLags
    <2> QED
      BY <1>0, <1>b, <2>2, <2>6, <2>7, <2>8 DEF TokensAccounted
  <1>7. ASSUME NEW c \in Consumers, UncountItem(c) PROVE TokensAccounted'
    <2>1. c \in Threads /\ at[c] = "uncount" /\ To(c, "free")
      BY <1>7 DEF UncountItem, Threads
    <2>2. size' = size - 1 /\ UNCHANGED <<semPut, semGet, deque>>
      BY <1>b, <1>7 DEF UncountItem
    <2>3. /\ Cardinality(InStep(Consumers, "uncount")')
                = Cardinality(InStep(Consumers, "uncount")) - 1
          /\ Cardinality(InStep(Consumers, "free")')
                = Cardinality(InStep(Consumers, "free")) + 1
      BY <1>0, <2>1, ThreadMoves
    <2>4. InStep(Consumers, "pop")' = InStep(Consumers, "pop")
      BY <1>0, <2>1, StepKept
    <2>5. /\ InStep(Producers, "append")' = InStep(Producers, "append")
          /\ InStep(Producers, "count")' = InStep(Producers, "count")
          /\ InStep(Producers, "offer")' = InStep(Producers, "offer")
      BY <1>0, <2>1, StepKept, QueueAssumption
    <2>6. ItemTokens'
      BY <1>0, <1>a, <1>b, <2>2, <2>3, <2>4, <2>5, SMTT(60) DEF ItemTokens
    <2>7. PlaceTokens'
      BY <1>0, <1>a, <1>b, <2>2, <2>3, <2>4, <2>5, SMTT(60) DEF PlaceTokens
    <2>8. SizeLags'
      BY <1>0, <1>a, <1>b, <2>2, <2>3, <2>4, <2>5, SMTT(60) DEF SizeLags
    <2> QED
      BY <1>0, <1>b, <2>2, <2>6, <2>7, <2>8 DEF TokensAccounted
  <1>8. ASSUME NEW c \in Consumers, FreePlace(c) PROVE TokensAccounted'
    <2>1. c \in Threads /\ at[c] = "free" /\ To(c, "out")
      BY <1>8 DEF FreePlace, Threads
    <2>2. semPut' = semPut + 1 /\ UNCHANGED <<semGet, size, deque>>
      BY <1>b, <1>8 DEF FreePlace
    <2>3. Cardinality(InStep(Consumers, "free")')
                = Cardinality(InStep(Consumers, "free")) - 1
      BY <1>0, <2>1, ThreadMoves
    <2>4. /\ InStep(Consumers, "pop")' = InStep(Consumers, "pop")
          /\ InStep(Consumers, "uncount")' = InStep(Consumers, "uncount")
      BY <1>0, <2>1, StepKept
    <2>5. /\ InStep(Producers, "append")' = InStep(Producers, "append")
          /\ InStep(Producers, "count")' = InStep(Producers, "count")
          /\ InStep(Producers, "offer")' = InStep(Producers, "offer")
      BY <1>0, <2>1, StepKept, QueueAssumption
    <2>6. ItemTokens'
      BY <1>0, <1>a, <1>b, <2>2, <2>3, <2>4, <2>5, SMTT(60) DEF ItemTokens
    <2>7. PlaceTokens'
      BY <1>0, <1>a, <1>b, <2>2, <2>3, <2>4, <2>5, SMTT(60) DEF PlaceTokens
    <2>8. SizeLags'
      BY <1>0, <1>a, <1>b, <2>2, <2>3, <2>4, <2>5, SMTT(60) DEF SizeLags
    <2> QED
      BY <1>0, <1>b, <2>2, <2>6, <2>7, <2>8 DEF TokensAccounted
  <1>9. ASSUME UNCHANGED queueVars PROVE TokensAccounted'
    BY <1>0, <1>9 DEF queueVars, TokensAccounted, ItemTokens, PlaceTokens, SizeLags, InStep
  <1> QED
    BY <1>1, <1>2, <1>3, <1>4, <1>5, <1>6, <1>7, <1>8, <1>9
    DEF QueueNext, PutStep, GetStep

LEMMA ItemsStep == QueueInv /\ [QueueNext]_queueVars => ItemsOnce'
  <1> SUFFICES ASSUME QueueInv, [QueueNext]_queueVars PROVE ItemsOnce'
    OBVIOUS
  <1>0. QueueTypeOK /\ ItemsOnce /\ Producers \cap Consumers = {}
    BY QueueAssumption DEF QueueInv
  <1> USE DEF Threads, Outside, To, Appending
  <1>1. ASSUME NEW p \in Producers, NEW x \in Items, Fresh(x), BeginPut(p, x)
        PROVE  ItemsOnce'
    BY <1>0, <1>1 DEF Fresh, BeginPut, QueueTypeOK, ItemsOnce
  <1>2. ASSUME NEW p \in Producers, AppendItem(p) PROVE ItemsOnce'
    <2>1. /\ DOMAIN deque = 1..Len(deque) /\ Len(deque) \in Nat
          /\ DOMAIN deque' = 1..(Len(deque) + 1)
          /\ \A i \in DOMAIN deque : deque'[i] = deque[i]
          /\ deque'[Len(deque) + 1] = item[p]
      BY <1>0, <1>2 DEF AppendItem, QueueTypeOK
    <2> QED
      BY <1>0, <1>2, <2>1 DEF AppendItem, QueueTypeOK, ItemsOnce
  <1>3. ASSUME NEW p \in Producers, CountItem(p) \/ OfferItem(p) PROVE ItemsOnce'
    BY <1>0, <1>3 DEF CountItem, OfferItem, QueueTypeOK, ItemsOnce
  <1>4. ASSUME NEW c \in Consumers, BeginGet(c) \/ UncountItem(c) \/ FreePlace(c)
        PROVE  ItemsOnce'
    BY <1>0, <1>4 DEF BeginGet, UncountItem, FreePlace, QueueTypeOK, ItemsOnce
  <1>5. ASSUME NEW c \in Consumers, PopItem(c) PROVE ItemsOnce'
    <2>1. deque # <<>>
      BY <1>0, <1>5, PopFinds DEF NeverPopsEmpty, PopItem, QueueInv
    <2>2. /\ DOMAIN deque = 1..Len(deque) /\ Len(deque) \in Nat
          /\ DOMAIN deque' = 1..(Len(deque) - 1)
          /\ \A i \in DOMAIN deque' : deque'[i] = deque[i + 1]
          /\ taken' = taken \cup {deque[1]}
      BY <1>0, <1>5, <2>1 DEF PopItem, QueueTypeOK
    <2>3. \A p \in Producers : at'[p] = at[p] /\ item'[p] = item[p]
      BY <1>0, <1>5, <2>1 DEF PopItem, QueueTypeOK
    <2> QED
      BY <1>0, <2>1, <2>2, <2>3 DEF ItemsOnce
  <1>6. ASSUME UNCHANGED queueVars PROVE ItemsOnce'
    BY <1>0, <1>6 DEF queueVars, ItemsOnce
  <1> QED
    BY <1>1, <1>2, <1>3, <1>4, <1>5, <1>6 DEF QueueNext, PutStep, GetStep

LEMMA QueueStarts == QueueInit => QueueInv
  <1> SUFFICES ASSUME QueueInit PROVE QueueInv
    OBVIOUS
  <1>1. \A step \in {"append", "count", "offer"} : Cardinality(InStep(Producers, step)) = 0
    <2>1. \A step \in {"append", "count", "offer"} : InStep(Producers, step) = {}
      BY DEF QueueInit, InStep, Threads
    <2> QED
      BY <2>1, FS_EmptySet
  <1>2. \A step \in {"pop", "uncount", "free"} : Cardinality(InStep(Consumers, step)) = 0
    <2>1. \A step \in {"pop", "uncount", "free"} : InStep(Consumers, step) = {}
      BY DEF QueueInit, InStep, Threads
    <2> QED
      BY <2>1, FS_EmptySet
  <1>3. ItemTokens
    BY <1>1, <1>2 DEF QueueInit, ItemTokens
  <1>4. PlaceTokens
    BY <1>1, <1>2, QueueAssumption DEF QueueInit, PlaceTokens
  <1>5. SizeLags
    BY <1>1, <1>2 DEF QueueInit, SizeLags
  <1>6. TokensAccounted
    BY <1>3, <1>4, <1>5, QueueAssumption DEF QueueInit, TokensAccounted
  <1>7. QueueTypeOK
    BY QueueAssumption DEF QueueInit, QueueTypeOK, Threads, NoItem
  <1>8. ItemsOnce
    BY DEF QueueInit, ItemsOnce, Appending, Threads
  <1> QED
    BY <1>6, <1>7, <1>8 DEF QueueInv

-----------------------------------------------------------------------------
(* The scheduler's actions use the queue through its puts and gets only.     *)
LEMMA SchedulerUsesQueue == [Next]_vars => [QueueNext]_queueVars
  <1> SUFFICES ASSUME [Next]_vars PROVE [QueueNext]_queueVars
    OBVIOUS
  <1>1. CASE CreateScheduler \/ StartManager \/ StopManager
    BY <1>1 DEF CreateScheduler, StartManager, StopManager
  <1>2. ASSUME NEW p \in Producers, Submitting(p) PROVE QueueNext
    BY <1>2 DEF Submitting, QueueNext
  <1>3. ASSUME NEW p \in Producers, NEW x \in Items, SubmitTask(p, x) PROVE QueueNext
    BY <1>3 DEF SubmitTask, QueueNext
  <1>4. ASSUME NEW w \in Workers, WorkerLoop(w) PROVE [QueueNext]_queueVars
    BY <1>4
    DEF WorkerLoop, LoopTop, CollectNext, Collecting, Collected, EndBatch, ProcessBatch,
        QueueNext, GetStep, Workers
  <1>5. CASE UNCHANGED vars
    BY <1>5 DEF vars
  <1> QED
    BY <1>1, <1>2, <1>3, <1>4, <1>5 DEF Next

(* The semaphores and the size agree with the deque at every step of every   *)
(* thread (LockFreeQueue of lockfree_model_scheduler.py).                    *)
THEOREM QueueAccounted == Spec => []TokensAccounted
  <1>1. Init => QueueInv
    BY QueueStarts DEF Init
  <1>2. QueueInv /\ [Next]_vars => QueueInv'
    BY SchedulerUsesQueue, QueueTyped, TokensStep, ItemsStep DEF QueueInv
  <1>3. QueueInv => TokensAccounted
    BY DEF QueueInv
  <1> QED
    BY <1>1, <1>2, <1>3, PTL DEF Spec

(* An append is a put of the bounded queue, a popleft a take; the other      *)
(* steps stutter.                                                            *)
LEMMA QueueStepRefines ==
    QueueInv /\ [QueueNext]_queueVars => [Abstract!Next]_<<deque, taken>>
  <1> SUFFICES ASSUME QueueInv, [QueueNext]_queueVars
               PROVE  [Abstract!Next]_<<deque, taken>>
    OBVIOUS
  <1>0. QueueTypeOK /\ TokensAccounted /\ ItemsOnce
    BY DEF QueueInv
  <1>1. ASSUME NEW p \in Producers, AppendItem(p) PROVE Abstract!Next
    <2>1. InStep(Producers, "append") # {} /\ IsFiniteSet(InStep(Producers, "append"))
      BY <1>1, GroupsFinite DEF AppendItem, InStep
    <2>2. Cardinality(InStep(Producers, "append")) \in Nat \ {0}
      BY <2>1, FS_EmptySet, FS_CardinalityType
    <2>3. /\ Cardinality(InStep(Consumers, "uncount")) \in Nat
          /\ Cardinality(InStep(Consumers, "free")) \in Nat
      BY GroupsFinite
    <2>4. Len(deque) < Capacity
      BY <1>0, <2>2, <2>3, QueueAssumption DEF TokensAccounted, ItemTokens, PlaceTokens, QueueTypeOK
    <2>5. item[p] \in Items
      BY <1>0, <1>1 DEF ItemsOnce, Appending, AppendItem
    <2> QED
      BY <1>1, <2>4, <2>5 DEF AppendItem, Abstract!Next, Abstract!Put
  <1>2. ASSUME NEW c \in Consumers, PopItem(c) PROVE Abstract!Next
    <2>1. deque # <<>>
      BY <1>0, <1>2, PopFinds DEF NeverPopsEmpty, PopItem
    <2>2. Head(deque) \notin taken
      BY <1>0, <2>1 DEF ItemsOnce, QueueTypeOK
    <2> QED
      BY <1>2, <2>1, <2>2 DEF PopItem, Abstract!Next, Abstract!Take
  <1>3. ASSUME NEW p \in Producers, NEW x \in Items, BeginPut(p, x) PROVE UNCHANGED <<deque, taken>>
    BY <1>3 DEF BeginPut
  <1>4. ASSUME NEW p \in Producers, CountItem(p) \/ OfferItem(p) PROVE UNCHANGED <<deque, taken>>
    BY <1>4 DEF CountItem, OfferItem
  <1>5. ASSUME NEW c \in Consumers, BeginGet(c) \/ UncountItem(c) \/ FreePlace(c)
        PROVE  UNCHANGED <<deque, taken>>
    BY <1>5 DEF BeginGet, UncountItem, FreePlace
  <1> QED
    BY <1>1, <1>2, <1>3, <1>4, <1>5 DEF QueueNext, PutStep, GetStep, queueVars

(* The lock-free queue implements the bounded queue: it is never over its    *)
(* capacity, and gives out each item once and in the order of the appends.   *)
THEOREM QueueImplemented == Spec => ImplementsQueue
  <1>1. Init => QueueInv /\ Abstract!Init
    BY QueueStarts DEF Init, QueueInit, Abstract!Init
  <1>2. QueueInv /\ [Next]_vars => QueueInv'
    BY SchedulerUsesQueue, QueueTyped, TokensStep, ItemsStep DEF QueueInv
  <1>3. QueueInv /\ [Next]_vars => [Abstract!Next]_<<deque, taken>>
    BY SchedulerUsesQueue, QueueStepRefines
  <1> QED
    BY <1>1, <1>2, <1>3, PTL DEF Spec, ImplementsQueue, Abstract!Spec
-----------------------------------------------------------------------------
(* The workers.  Before the scheduler runs none is in its loop, and only one *)
(* that collects is in a get; it has an item from the pop until the item is  *)
(* in its batch, which has room for it.                                      *)
WorkersInv ==
    /\ worker \in [Workers -> {"unstarted", "top", "collect", "process", "exited"}]
    /\ ~exists \/ manager = "new" => \A w \in Workers : worker[w] = "unstarted"
    /\ \A w \in Workers : worker[w] # "collect" => at[w] = "out"
    /\ batch \in [Workers -> SUBSET Items]
    /\ \A w \in Workers :
           /\ IsFiniteSet(batch[w]) /\ Cardinality(batch[w]) <= BatchSize
           /\ at[w] # "out" => Cardinality(batch[w]) < BatchSize
           /\ at[w] \in {"out", "pop"} => item[w] = NoItem
           /\ at[w] \in {"uncount", "free"} => item[w] \in Items /\ item[w] \notin batch[w]

(* What is in the workers' hands was taken, by one of them, and what was     *)
(* taken and is in no hand was counted.                                      *)
Hands == UNION {InHand(w) : w \in Workers}

HandsInv ==
    /\ totals \in [scheduled : Nat, failed : Nat]
    /\ IsFiniteSet(taken)
    /\ \A w \in Workers : InHand(w) \subseteq taken
    /\ \A v, w \in Workers : v # w => InHand(v) \cap InHand(w) = {}
    /\ Cardinality(taken) = totals.scheduled + totals.failed + Cardinality(Hands)

SchedulerInv == QueueInv /\ WorkersInv /\ HandsInv

(* A worker's hands hold its batch and at most one item more.                *)
LEMMA HandsOfWorker ==
    ASSUME QueueTypeOK, WorkersInv, NEW w \in Workers
    PROVE  /\ at[w] \in {"out", "pop"} => InHand(w) = batch[w]
           /\ at[w] \in {"uncount", "free"} => InHand(w) = batch[w] \cup {item[w]}
           /\ Cardinality(InHand(w)) <= BatchSize
  <1>0. /\ QueueAssumption /\ BatchSize \in Nat /\ NoItem \notin Items
        /\ batch[w] \subseteq Items /\ at[w] \in {"out", "pop", "uncount", "free"}
    BY QueueAssumption, BatchAssumption DEF WorkersInv, NoItem, QueueTypeOK, Workers
  <1>1. ASSUME at[w] \in {"out", "pop"} PROVE InHand(w) = batch[w]
    BY <1>0, <1>1 DEF InHand, WorkersInv
  <1>2. ASSUME at[w] \in {"uncount", "free"} PROVE InHand(w) = batch[w] \cup {item[w]}
    BY <1>0, <1>2 DEF InHand, WorkersInv
  <1>3. IsFiniteSet(batch[w]) /\ Cardinality(batch[w]) \in Nat
    BY FS_CardinalityType DEF WorkersInv
  <1>4. CASE at[w] \in {"out", "pop"}
    BY <1>1, <1>4 DEF WorkersInv
  <1>5. ASSUME at[w] \in {"uncount", "free"} PROVE Cardinality(InHand(w)) <= BatchSize
    <2>1. Cardinality(InHand(w)) = Cardinality(batch[w]) + 1
      <3>1. item[w] \notin batch[w]
        BY <1>5 DEF WorkersInv
      <3> QED
        BY <1>2, <1>3, <1>5, <3>1, FS_AddElement
    <2>2. Cardinality(batch[w]) < BatchSize
      BY <1>5 DEF WorkersInv
    <2> QED
      BY <1>0, <1>3, <2>1, <2>2
  <1> QED
    BY <1>0, <1>1, <1>2, <1>4, <1>5

(* Where nothing changes hands, nothing changes.                             *)
LEMMA SameHands ==
    ASSUME HandsInv, UNCHANGED <<taken, totals>>, \A w \in Workers : InHand(w)' = InHand(w)
    PROVE  HandsInv'
  <1>1. Hands' = Hands
    BY DEF Hands
  <1> QED
    BY <1>1 DEF HandsInv

-----------------------------------------------------------------------------
LEMMA WorkersStep == QueueInv /\ WorkersInv /\ HandsInv /\ [Next]_vars => WorkersInv'
  <1> SUFFICES ASSUME QueueInv, WorkersInv, HandsInv, [Next]_vars PROVE WorkersInv'
    OBVIOUS
  <1> USE QueueAssumption, BatchAssumption DEF Workers, Threads, NoItem, Outside, To
  <1>0. QueueTypeOK /\ TokensAccounted /\ ItemsOnce
    BY DEF QueueInv
  <1>1. CASE CreateScheduler \/ StartManager \/ StopManager
    BY <1>1 DEF CreateScheduler, StartManager, StopManager, StartWorkers, queueVars, WorkersInv
  <1>2. ASSUME NEW p \in Producers, Submitting(p) \/ \E x \in Items : SubmitTask(p, x) PROVE WorkersInv'
    <2>1. /\ UNCHANGED <<controlVars, worker, batch, totals>>
          /\ \A w \in Workers : at'[w] = at[w] /\ item'[w] = item[w]
      BY <1>0, <1>2 DEF Submitting, PutStep, SubmitTask, BeginPut, AppendItem, CountItem, OfferItem, QueueTypeOK
    <2> QED
      BY <2>1 DEF WorkersInv, controlVars
  <1>3. ASSUME NEW w \in Workers, LoopTop(w) PROVE WorkersInv'
    BY <1>3 DEF LoopTop, WorkersInv, queueVars, controlVars
  <1>4. ASSUME NEW w \in Workers, CollectNext(w) PROVE WorkersInv'
    BY <1>0, <1>4 DEF CollectNext, BeginGet, WorkersInv, controlVars, QueueTypeOK
  <1>5. ASSUME NEW w \in Workers, Collecting(w) PROVE WorkersInv'
    <2>1. CASE PopItem(w)
      <3>1. deque # <<>>
        BY <1>0, <2>1, PopFinds DEF NeverPopsEmpty, PopItem
      <3>2. Head(deque) \in Items /\ Head(deque) \notin taken
        BY <1>0, <3>1 DEF QueueTypeOK, ItemsOnce
      <3>3. batch[w] \subseteq taken
        BY DEF HandsInv, InHand, WorkersInv
      <3> QED
        BY <1>0, <1>5, <2>1, <3>1, <3>2, <3>3 DEF Collecting, PopItem, WorkersInv, controlVars, QueueTypeOK
    <2>2. CASE UncountItem(w)
      BY <1>0, <1>5, <2>2 DEF Collecting, UncountItem, WorkersInv, controlVars, QueueTypeOK
    <2> QED
      BY <1>5, <2>1, <2>2 DEF Collecting
  <1>6. ASSUME NEW w \in Workers, Collected(w) PROVE WorkersInv'
    <2>1. /\ at[w] = "free" /\ at' = [at EXCEPT ![w] = "out"] /\ item' = [item EXCEPT ![w] = NoItem]
          /\ batch' = [batch EXCEPT ![w] = batch[w] \cup {item[w]}]
          /\ UNCHANGED <<controlVars, worker>>
      BY <1>6 DEF Collected, FreePlace, WorkersInv
    <2>2. item[w] \in Items /\ item[w] \notin batch[w] /\ IsFiniteSet(batch[w])
      BY <2>1 DEF WorkersInv
    <2>3. /\ IsFiniteSet(batch[w] \cup {item[w]})
          /\ Cardinality(batch[w] \cup {item[w]}) = Cardinality(batch[w]) + 1
      BY <2>2, FS_AddElement
    <2>4. Cardinality(batch[w] \cup {item[w]}) <= BatchSize
      <3>1. Cardinality(batch[w]) \in Nat /\ Cardinality(batch[w]) < BatchSize
        BY <2>1, <2>2, FS_CardinalityType DEF WorkersInv
      <3> QED
        BY <2>3, <3>1
    <2> QED
      <3>1. \A v \in Workers : v # w => at'[v] = at[v] /\ item'[v] = item[v] /\ batch'[v] = batch[v]
        BY <1>0, <2>1 DEF WorkersInv, QueueTypeOK
      <3>2. at'[w] = "out" /\ item'[w] = NoItem /\ batch'[w] = batch[w] \cup {item[w]}
        BY <1>0, <2>1 DEF WorkersInv, QueueTypeOK
      <3>3. batch' \in [Workers -> SUBSET Items]
        BY <2>1, <2>2 DEF WorkersInv
      <3>4. \A v \in Workers :
               /\ IsFiniteSet(batch'[v]) /\ Cardinality(batch'[v]) <= BatchSize
               /\ at'[v] # "out" => Cardinality(batch'[v]) < BatchSize
               /\ at'[v] \in {"out", "pop"} => item'[v] = NoItem
               /\ at'[v] \in {"uncount", "free"} => item'[v] \in Items /\ item'[v] \notin batch'[v]
        BY <2>3, <2>4, <3>1, <3>2, ZenonT(30) DEF WorkersInv
      <3>5. \A v \in Workers : worker'[v] # "collect" => at'[v] = "out"
        BY <2>1, <3>1, <3>2 DEF WorkersInv
      <3> QED
        BY <2>1, <3>3, <3>4, <3>5 DEF WorkersInv, controlVars
  <1>7. ASSUME NEW w \in Workers, EndBatch(w) PROVE WorkersInv'
    BY <1>7 DEF EndBatch, WorkersInv, queueVars, controlVars
  <1>8. ASSUME NEW w \in Workers, ProcessBatch(w) PROVE WorkersInv'
    <2>1. IsFiniteSet({}) /\ Cardinality({}) = 0
      BY FS_EmptySet
    <2> QED
      BY <1>8, <2>1 DEF ProcessBatch, WorkersInv, queueVars, controlVars
  <1>9. CASE UNCHANGED vars
    BY <1>9 DEF vars, WorkersInv, queueVars, controlVars
  <1> QED
    BY <1>1, <1>2, <1>3, <1>4, <1>5, <1>6, <1>7, <1>8, <1>9 DEF Next, WorkerLoop
LEMMA HandsStep == QueueInv /\ WorkersInv /\ HandsInv /\ [Next]_vars => HandsInv'
  <1> SUFFICES ASSUME QueueInv, WorkersInv, HandsInv, [Next]_vars PROVE HandsInv'
    OBVIOUS
  <1> USE QueueAssumption, BatchAssumption DEF Workers, Threads, Outside, To
  <1>0. QueueTypeOK /\ TokensAccounted /\ ItemsOnce /\ NoItem \notin Items
    BY DEF QueueInv, NoItem
  <1>t. totals \in [scheduled : Nat, failed : Nat] /\ IsFiniteSet(taken)
    BY DEF HandsInv
  <1>1. CASE CreateScheduler \/ StartManager \/ StopManager \/ UNCHANGED vars
    <2>1. UNCHANGED <<taken, item, batch, totals>>
      BY <1>1 DEF CreateScheduler, StartManager, StopManager, vars, queueVars
    <2> QED
      BY <2>1, SameHands DEF InHand
  <1>2. ASSUME NEW p \in Producers, Submitting(p) \/ \E x \in Items : SubmitTask(p, x) PROVE HandsInv'
    <2>1. UNCHANGED <<taken, batch, totals>> /\ \A w \in Workers : item'[w] = item[w]
      BY <1>0, <1>2 DEF Submitting, PutStep, SubmitTask, BeginPut, AppendItem, CountItem, OfferItem, QueueTypeOK
    <2> QED
      BY <2>1, SameHands DEF InHand
  <1>3. ASSUME NEW w \in Workers, LoopTop(w) \/ EndBatch(w) \/ CollectNext(w) PROVE HandsInv'
    <2>1. UNCHANGED <<taken, item, batch, totals>>
      BY <1>3 DEF LoopTop, EndBatch, CollectNext, BeginGet, queueVars
    <2> QED
      BY <2>1, SameHands DEF InHand
  <1>4. ASSUME NEW w \in Workers, Collecting(w), UncountItem(w) PROVE HandsInv'
    <2>1. UNCHANGED <<taken, item, batch, totals>>
      BY <1>4 DEF Collecting, UncountItem
    <2> QED
      BY <2>1, SameHands DEF InHand
  <1>5. ASSUME NEW w \in Workers, Collecting(w), PopItem(w) PROVE HandsInv'
    <2> DEFINE x == Head(deque)
    <2>1. deque # <<>>
      BY <1>0, <1>5, PopFinds DEF NeverPopsEmpty, PopItem
    <2>2. x \in Items /\ x \notin taken
      BY <1>0, <2>1 DEF QueueTypeOK, ItemsOnce
    <2>3. /\ at[w] = "pop" /\ item' = [item EXCEPT ![w] = x] /\ taken' = taken \cup {x}
          /\ UNCHANGED <<batch, totals>>
      BY <1>5, <2>1 DEF Collecting, PopItem
    <2>4. item[w] = NoItem
      BY <2>3 DEF WorkersInv
    <2>5. InHand(w)' = InHand(w) \cup {x}
      BY <1>0, <2>2, <2>3, <2>4 DEF InHand, QueueTypeOK
    <2>6. \A v \in Workers : v # w => InHand(v)' = InHand(v)
      BY <1>0, <2>3 DEF InHand, QueueTypeOK
    <2>7. Hands' = Hands \cup {x} /\ Hands \subseteq taken
      BY <2>5, <2>6 DEF Hands, HandsInv
    <2>8. IsFiniteSet(Hands) /\ x \notin Hands
      BY <1>t, <2>2, <2>7, FS_Subset
    <2>9. Cardinality(Hands') = Cardinality(Hands) + 1
      BY <2>7, <2>8, FS_AddElement
    <2>10. Cardinality(taken') = Cardinality(taken) + 1 /\ IsFiniteSet(taken')
      BY <1>t, <2>2, <2>3, FS_AddElement
    <2>11. Cardinality(Hands) \in Nat
      BY <2>8, FS_CardinalityType
    <2>12. Cardinality(taken') = totals'.scheduled + totals'.failed + Cardinality(Hands')
      <3>1. totals.scheduled \in Nat /\ totals.failed \in Nat
        BY <1>t
      <3>2. Cardinality(taken) = totals.scheduled + totals.failed + Cardinality(Hands)
        BY DEF HandsInv
      <3> QED
        BY <2>3, <2>9, <2>10, <2>11, <3>1, <3>2
    <2>13. \A v \in Workers : InHand(v)' \subseteq taken'
      BY <2>3, <2>5, <2>6 DEF HandsInv
    <2>14. ASSUME NEW u \in Workers, NEW v \in Workers, u # v PROVE InHand(u)' \cap InHand(v)' = {}
      <3>1. InHand(u) \cap InHand(v) = {} /\ x \notin InHand(u) /\ x \notin InHand(v)
        BY <2>2, <2>14 DEF HandsInv
      <3> QED
        BY <2>5, <2>6, <2>14, <3>1
    <2> QED
      BY <1>t, <2>3, <2>10, <2>12, <2>13, <2>14 DEF HandsInv
  <1>6. ASSUME NEW w \in Workers, Collected(w) PROVE HandsInv'
    <2>1. /\ at[w] = "free" /\ item' = [item EXCEPT ![w] = NoItem]
          /\ batch' = [batch EXCEPT ![w] = batch[w] \cup {item[w]}]
          /\ UNCHANGED <<taken, totals>>
      BY <1>6 DEF Collected, FreePlace, WorkersInv
    <2>2. item[w] \in Items
      BY <2>1 DEF WorkersInv
    <2>3. InHand(w)' = InHand(w)
      BY <1>0, <2>1, <2>2 DEF InHand, WorkersInv, QueueTypeOK
    <2>4. \A v \in Workers : v # w => InHand(v)' = InHand(v)
      BY <1>0, <2>1 DEF InHand, WorkersInv, QueueTypeOK
    <2> QED
      BY <2>1, <2>3, <2>4, SameHands
  <1>7. ASSUME NEW w \in Workers, ProcessBatch(w) PROVE HandsInv'
    <2>1. /\ worker[w] = "process" /\ batch' = [batch EXCEPT ![w] = {}]
          /\ UNCHANGED <<taken, item>>
          /\ totals' = [scheduled |-> totals.scheduled + Cardinality({}),
                        failed |-> totals.failed + Cardinality(batch[w])]
      <3>1. batch[w] \ {} = batch[w]
        OBVIOUS
      <3> QED
        BY <1>7, <3>1 DEF ProcessBatch, Successes, queueVars
    <2>2. at[w] = "out" /\ item[w] = NoItem
      BY <2>1 DEF WorkersInv
    <2>3. InHand(w)' = {} /\ InHand(w) = batch[w]
      BY <1>0, <2>1, <2>2 DEF InHand, WorkersInv
    <2>4. \A v \in Workers : v # w => InHand(v)' = InHand(v)
      BY <2>1 DEF InHand, WorkersInv
    <2>5. Hands' = Hands \ batch[w] /\ batch[w] \subseteq Hands
      <3>1. \A v \in Workers : v # w => InHand(v) \cap batch[w] = {}
        BY <2>3 DEF HandsInv
      <3> QED
        BY <2>3, <2>4, <3>1 DEF Hands
    <2>6. Hands \subseteq taken
      BY DEF Hands, HandsInv
    <2>7. IsFiniteSet(Hands) /\ IsFiniteSet(batch[w])
      BY <1>t, <2>5, <2>6, FS_Subset
    <2>8. Cardinality(Hands') = Cardinality(Hands) - Cardinality(batch[w])
      <3>1. Hands \cap batch[w] = batch[w]
        BY <2>5
      <3>2. Cardinality(Hands \ batch[w]) = Cardinality(Hands) - Cardinality(Hands \cap batch[w])
        BY <2>7, FS_Difference
      <3> QED
        BY <2>5, <3>1, <3>2
    <2>9. /\ Cardinality(Hands) \in Nat /\ Cardinality(batch[w]) \in Nat /\ Cardinality({}) = 0
      BY <2>7, FS_CardinalityType, FS_EmptySet
    <2>10. totals.scheduled \in Nat /\ totals.failed \in Nat
      BY <1>t
    <2>11. Cardinality(taken) = totals.scheduled + totals.failed + Cardinality(Hands)
      BY DEF HandsInv
    <2>12. Cardinality(taken') = totals'.scheduled + totals'.failed + Cardinality(Hands')
      BY <2>1, <2>8, <2>9, <2>10, <2>11
    <2>13. totals' \in [scheduled : Nat, failed : Nat]
      BY <2>1, <2>9, <2>10
    <2>14. \A v \in Workers : InHand(v)' \subseteq taken'
      BY <2>1, <2>3, <2>4 DEF HandsInv
    <2>15. \A u, v \in Workers : u # v => InHand(u)' \cap InHand(v)' = {}
      BY <2>3, <2>4 DEF HandsInv
    <2> QED
      BY <1>t, <2>1, <2>12, <2>13, <2>14, <2>15 DEF HandsInv
  <1> QED
    BY <1>1, <1>2, <1>3, <1>4, <1>5, <1>6, <1>7 DEF Next, WorkerLoop, Collecting

LEMMA SchedulerStarts == Init => SchedulerInv
  <1> SUFFICES ASSUME Init PROVE SchedulerInv
    OBVIOUS
  <1>1. QueueInv
    BY QueueStarts DEF Init
  <1>2. IsFiniteSet({}) /\ Cardinality({}) = 0
    BY FS_EmptySet
  <1>3. WorkersInv
    BY <1>2, BatchAssumption DEF Init, QueueInit, WorkersInv, Workers, Threads
  <1>4. \A w \in Workers : InHand(w) = {}
    BY QueueAssumption DEF Init, QueueInit, InHand, Workers, Threads, NoItem
  <1>5. Hands = {}
    BY <1>4 DEF Hands
  <1>6. HandsInv
    BY <1>2, <1>4, <1>5 DEF HandsInv, Init, QueueInit
  <1> QED
    BY <1>1, <1>3, <1>6 DEF SchedulerInv

(* No task is lost or processed twice between the queue, the batches of the  *)
(* workers and the statistics.                                               *)
THEOREM TasksAreCounted == Spec => []TasksCounted
  <1>1. SchedulerInv /\ [Next]_vars => SchedulerInv'
    BY SchedulerUsesQueue, QueueTyped, TokensStep, ItemsStep, WorkersStep, HandsStep
    DEF SchedulerInv, QueueInv
  <1>2. SchedulerInv => TasksCounted
    BY HandsOfWorker DEF SchedulerInv, QueueInv, HandsInv, TasksCounted, Hands
  <1> QED
    BY <1>1, <1>2, SchedulerStarts, PTL DEF Spec
=============================================================================
