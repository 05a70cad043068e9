------------------------- MODULE PocketCache_proofs -------------------------
(***************************************************************************)
(* pocketfft's plan cache, for any number of threads, lengths and slots    *)
(* and any width of the access counter.                                    *)
(*                                                                         *)
(* What holds for ever rests on IInv: a call knows its length, a published *)
(* transform has the length it was built for, and no two slots hold the    *)
(* same length.  What holds until the counter overflows rests on two more  *)
(* invariants, each relative to IInv: the stamps stay behind the counter   *)
(* and apart from one another; and, when there are no more lengths than    *)
(* slots, what was committed is never evicted.                             *)
(***************************************************************************)
EXTENDS PocketCache, Integers, WellFoundedInduction, FiniteSetTheorems, TLAPS

\* What a call knows at each point.
CallsFit ==
    \A t \in Thread :
        /\ pc[t] # "idle" =>
              /\ length[t] \in Length
              /\ purpose[t] \in {"create", "execute"}
        /\ pc[t] \in {"publish", "run"} =>
              plan[t] \in Transform /\ plan[t].length = length[t]

\* A length is in one slot at most.
OneEach ==
    \A i, j \in Occupied : cache[i].length = cache[j].length => i = j

IInv == TypeOK /\ CallsFit /\ OneEach

\* No stamp is ahead of the counter, the occupied slots have stamps of their
\* own and an empty slot has none.
StampsDiffer ==
    /\ \A i \in Slot : last_access[i] <= access_counter
    /\ \A i \in Slot \ Occupied : last_access[i] = 0
    /\ \A i \in Occupied : last_access[i] # 0
    /\ \A i, j \in Occupied : last_access[i] = last_access[j] => i = j

StampsInv == ~wrapped => StampsDiffer /\ StampsFollowUse

\* What was committed, and what a call has found, stays in the cache.
CommittedStay ==
    \A t \in Thread :
        /\ \A l \in committed[t] : Cached(l)
        /\ pc[t] # "idle" /\ purpose[t] = "execute" =>
              pc[t] \in {"search", "run"} /\ Cached(length[t])
        /\ pc[t] = "run" => Cached(length[t])

CommittedInv == ~wrapped => CommittedStay

\* The program uses no more lengths than the cache has slots.
LengthsFit == IsFiniteSet(Length) /\ Cardinality(Length) <= Slots

-----------------------------------------------------------------------------
(* The cache's operators.                                                  *)

\* The empty pointer is no transform.
LEMMA NothingIsNone == Nothing \notin Transform
<1> SUFFICES ASSUME NEW x \in Transform PROVE x # Nothing  OBVIOUS
<1>1. DOMAIN x = {"address", "length"}  BY DEF Transform
<1>2. DOMAIN Nothing = {"address"}  BY DEF Nothing
<1> QED BY <1>1, <1>2

\* What an occupied slot holds.
LEMMA OccupiedHolds ==
    ASSUME TypeOK, NEW i \in Occupied
    PROVE  i \in Slot /\ cache[i] \in Transform /\ cache[i].length \in Length
BY DEF TypeOK, Occupied, Transform

\* The counter's next value, which is smaller exactly when it overflows.
LEMMA LaterFacts ==
    ASSUME NEW n \in 0 .. CounterSize - 1
    PROVE  /\ Later(n) \in 0 .. CounterSize - 1
           /\ Later(n) = 0 <=> Later(n) < n
           /\ ~(Later(n) < n) => Later(n) = n + 1
<1>1. CounterSize \in Nat /\ CounterSize >= 2  BY CounterSizeAssumption
<1>2. Later(n) = IF n + 1 = CounterSize THEN 0 ELSE n + 1
  BY <1>1 DEF Later
<1> QED BY <1>1, <1>2

\* The usual order of the natural numbers, as a relation.
Less == {p \in Nat \X Nat : p[1] < p[2]}

LEMMA LessIsWellFounded == IsWellFoundedOn(Less, Nat)
<1>1. OpToRel(<, Nat) = Less  BY DEF OpToRel, Less
<1> QED BY <1>1, NatLessThanWellFounded

\* A set of natural numbers has a least element.
LEMMA HasLeast ==
    ASSUME NEW S \in SUBSET Nat, S # {}
    PROVE  \E m \in S : \A n \in S : m <= n
<1>1. PICK m \in S : \A n \in S : <<n, m>> \notin Less
  BY LessIsWellFounded, WFMin
<1>2. \A n \in S : ~(n < m)  BY <1>1 DEF Less
<1>3. \A n \in S : m <= n
  <2> TAKE n \in S
  <2>1. n \in Nat /\ m \in Nat  OBVIOUS
  <2> QED BY <1>2, <2>1
<1> QED BY <1>3

\* The search stops at a slot that holds the length.
LEMMA FoundHolds ==
    ASSUME NEW l, Cached(l)
    PROVE  FoundAt(l) \in Holding(l)
<1>1. Holding(l) \in SUBSET Nat /\ Holding(l) # {}
  BY SlotsAssumption DEF Cached, Holding, Occupied, Slot
<1>2. \E i \in Holding(l) : \A j \in Holding(l) : i <= j
  BY <1>1, HasLeast
<1> QED BY <1>2 DEF FoundAt

\* The victim is a slot, and no slot has a smaller stamp.
LEMMA LruIsLeast ==
    ASSUME TypeOK
    PROVE  Lru \in Slot /\ \A j \in Slot : last_access[Lru] <= last_access[j]
<1> DEFINE Stamps == {last_access[i] : i \in Slot}
<1>1. \A i \in Slot : i \in Nat /\ last_access[i] \in Nat
  BY SlotsAssumption, CounterSizeAssumption DEF TypeOK, Slot
<1>2. Stamps \in SUBSET Nat /\ Stamps # {}
  BY <1>1, SlotsAssumption DEF Slot
<1>3. PICK m \in Stamps : \A n \in Stamps : m <= n
  <2> HIDE DEF Stamps
  <2> QED BY <1>2, HasLeast
<1> DEFINE Oldest == {i \in Slot : last_access[i] = m}
<1>4. Oldest \in SUBSET Nat /\ Oldest # {}  BY <1>1, <1>3
<1>5. PICK i \in Oldest : \A j \in Oldest : i <= j
  <2> HIDE DEF Oldest
  <2> QED BY <1>4, HasLeast
<1>6. \A j \in Slot : \/ last_access[i] < last_access[j]
                      \/ last_access[i] = last_access[j] /\ i <= j
  BY <1>1, <1>3, <1>5
<1>7. /\ Lru \in Slot
      /\ \A j \in Slot : \/ last_access[Lru] < last_access[j]
                         \/ last_access[Lru] = last_access[j] /\ Lru <= j
  BY <1>5, <1>6 DEF Lru
<1> QED BY <1>1, <1>7

-----------------------------------------------------------------------------
(* The two ways of using the cache.                                        *)

\* A hit gives the caller the transform the cache holds for its length.
LEMMA HitFacts ==
    ASSUME IInv, NEW t \in Thread, Hit(t)
    PROVE  /\ FoundAt(length[t]) \in Occupied
           /\ cache[FoundAt(length[t])] \in Transform
           /\ cache[FoundAt(length[t])].length = length[t]
           /\ plan' = [plan EXCEPT ![t] = cache[FoundAt(length[t])]]
           /\ cache' = cache
<1>1. FoundAt(length[t]) \in Holding(length[t])  BY FoundHolds DEF Hit
<1> QED BY <1>1, OccupiedHolds DEF Hit, Holding, IInv

\* Either way the cache keeps its shape.
LEMMA HitType ==
    ASSUME IInv, NEW t \in Thread, Hit(t)
    PROVE  /\ cache' \in [Slot -> Transform \cup {Nothing}]
           /\ last_access' \in [Slot -> 0 .. CounterSize - 1]
           /\ access_counter' \in 0 .. CounterSize - 1
           /\ recency' \subseteq Slot \X Slot
           /\ wrapped' \in BOOLEAN
           /\ plan' \in [Thread -> Transform \cup {Nothing}]
<1>1. TypeOK  BY DEF IInv
<1>2. FoundAt(length[t]) \in Slot  BY HitFacts DEF Occupied
<1>3. Later(access_counter) \in 0 .. CounterSize - 1
  BY <1>1, LaterFacts DEF TypeOK
<1>4. 0 \in 0 .. CounterSize - 1  BY CounterSizeAssumption
<1>5. /\ last_access' \in [Slot -> 0 .. CounterSize - 1]
      /\ access_counter' \in 0 .. CounterSize - 1
  BY <1>1, <1>2, <1>3, <1>4 DEF Hit, Touch, TypeOK
<1>6. recency' \subseteq Slot \X Slot
  BY <1>1, <1>2 DEF Hit, UsedLast, TypeOK, Occupied
<1>7. wrapped' \in BOOLEAN  BY <1>1 DEF Hit, TypeOK
<1>8. plan' \in [Thread -> Transform \cup {Nothing}]
  BY <1>1, HitFacts DEF TypeOK
<1> QED BY <1>1, <1>5, <1>6, <1>7, <1>8, HitFacts DEF TypeOK

LEMMA InsertType ==
    ASSUME IInv, NEW t \in Thread, Insert(t), plan[t] \in Transform
    PROVE  /\ cache' \in [Slot -> Transform \cup {Nothing}]
           /\ last_access' \in [Slot -> 0 .. CounterSize - 1]
           /\ access_counter' \in 0 .. CounterSize - 1
           /\ recency' \subseteq Slot \X Slot
           /\ wrapped' \in BOOLEAN
<1>1. TypeOK  BY DEF IInv
<1>2. Lru \in Slot  BY <1>1, LruIsLeast
<1>3. Later(access_counter) \in 0 .. CounterSize - 1
  BY <1>1, LaterFacts DEF TypeOK
<1>4. cache' \in [Slot -> Transform \cup {Nothing}]
  BY <1>1, <1>2 DEF Insert, TypeOK
<1>5. /\ last_access' \in [Slot -> 0 .. CounterSize - 1]
      /\ access_counter' \in 0 .. CounterSize - 1
  BY <1>1, <1>2, <1>3 DEF Insert, TypeOK
<1>6. recency' \subseteq Slot \X Slot
  BY <1>1, <1>2 DEF Insert, UsedLast, TypeOK, Occupied
<1>7. wrapped' \in BOOLEAN  BY <1>1 DEF Insert, TypeOK
<1> QED BY <1>4, <1>5, <1>6, <1>7

\* Inserting a length the cache lacks makes no duplicate.
LEMMA InsertOneEach ==
    ASSUME IInv, NEW t \in Thread, Insert(t), plan[t] \in Transform,
           ~Cached(plan[t].length)
    PROVE  OneEach'
<1>1. Lru \in Slot  BY LruIsLeast DEF IInv
<1>2. \A i \in Slot : cache'[i] = IF i = Lru THEN plan[t] ELSE cache[i]
  BY <1>1 DEF Insert, IInv, TypeOK
<1>3. \A i \in Occupied : cache[i].length # plan[t].length
  BY DEF Cached, Holding
<1> SUFFICES ASSUME NEW i \in Occupied', NEW j \in Occupied',
                    cache'[i].length = cache'[j].length
             PROVE  i = j
  BY DEF OneEach
<1>4. i \in Slot /\ j \in Slot /\ cache'[i] # Nothing /\ cache'[j] # Nothing
  BY DEF Occupied, Slot
<1>5. i # Lru => i \in Occupied  BY <1>2, <1>4 DEF Occupied
<1>6. j # Lru => j \in Occupied  BY <1>2, <1>4 DEF Occupied
<1> QED BY <1>2, <1>3, <1>4, <1>5, <1>6 DEF IInv, OneEach

-----------------------------------------------------------------------------
(* IInv is inductive.                                                      *)

LEMMA InitInv == Init => IInv
<1> SUFFICES ASSUME Init PROVE IInv  OBVIOUS
<1>1. 0 \in 0 .. CounterSize - 1  BY CounterSizeAssumption
<1>2. TypeOK  BY <1>1 DEF Init, TypeOK
<1>3. CallsFit  BY DEF Init, CallsFit
<1>4. OneEach  BY DEF Init, OneEach, Occupied
<1> QED BY <1>2, <1>3, <1>4 DEF IInv

\* A call begins, with its length and its purpose.
LEMMA BeginStep ==
    ASSUME IInv, NEW t \in Thread, NEW l \in Length,
           NEW why \in {"create", "execute"}, Begin(t, l, why)
    PROVE  IInv'
<1> USE DEF Begin, Goto, cacheVars
<1>1. TypeOK'  BY DEF IInv, TypeOK
<1>2. CallsFit'  BY DEF IInv, TypeOK, CallsFit
<1>3. OneEach'  BY DEF IInv, OneEach, Occupied
<1> QED BY <1>1, <1>2, <1>3 DEF IInv

\* The first search hits, and the call has its transform, or misses.
LEMMA SearchStep ==
    ASSUME IInv, NEW t \in Thread, Search(t)
    PROVE  IInv'
<1> USE DEF Search, Goto
<1>1. CASE Hit(t) /\ Goto(t, "run")
  <2>1. TypeOK'  BY <1>1, HitType DEF IInv, TypeOK
  <2>2. CallsFit'  BY <1>1, HitFacts DEF IInv, TypeOK, CallsFit
  <2>3. OneEach'  BY <1>1 DEF Hit, IInv, OneEach, Occupied
  <2> QED BY <2>1, <2>2, <2>3 DEF IInv
<1>2. CASE Goto(t, "build") /\ UNCHANGED <<cacheVars, plan>>
  <2>1. TypeOK'  BY <1>2 DEF IInv, TypeOK, cacheVars
  <2>2. CallsFit'  BY <1>2 DEF IInv, TypeOK, CallsFit
  <2>3. OneEach'  BY <1>2 DEF IInv, OneEach, Occupied, cacheVars
  <2> QED BY <2>1, <2>2, <2>3 DEF IInv
<1> QED BY <1>1, <1>2

\* The transform is built for the length of the call.
LEMMA BuildStep ==
    ASSUME IInv, NEW t \in Thread, Build(t)
    PROVE  IInv'
<1> USE DEF Build, Goto, cacheVars
<1>1. PICK a \in Address :
         plan' = [plan EXCEPT ![t] = [address |-> a, length |-> length[t]]]
  BY DEF Live
<1>2. [address |-> a, length |-> length[t]] \in Transform
  BY DEF IInv, CallsFit, Transform
<1>3. TypeOK'  BY <1>1, <1>2 DEF IInv, TypeOK
<1>4. CallsFit'  BY <1>1, <1>2 DEF IInv, TypeOK, CallsFit
<1>5. OneEach'  BY DEF IInv, OneEach, Occupied
<1> QED BY <1>3, <1>4, <1>5 DEF IInv

\* The second search adopts what the cache has, or inserts what it lacks.
LEMMA PublishStep ==
    ASSUME IInv, NEW t \in Thread, Publish(t)
    PROVE  IInv'
<1> USE DEF Publish, Goto
<1>1. CASE Hit(t)
  <2>1. TypeOK'  BY <1>1, HitType DEF IInv, TypeOK
  <2>2. CallsFit'  BY <1>1, HitFacts DEF IInv, TypeOK, CallsFit
  <2>3. OneEach'  BY <1>1 DEF Hit, IInv, OneEach, Occupied
  <2> QED BY <2>1, <2>2, <2>3 DEF IInv
<1>2. CASE ~Cached(length[t]) /\ Insert(t) /\ UNCHANGED plan
  <2>1. plan[t] \in Transform /\ plan[t].length = length[t]
    BY DEF IInv, CallsFit
  <2>2. TypeOK'  BY <1>2, <2>1, InsertType DEF IInv, TypeOK
  <2>3. CallsFit'  BY <1>2 DEF IInv, TypeOK, CallsFit
  <2>4. OneEach'  BY <1>2, <2>1, InsertOneEach
  <2> QED BY <2>2, <2>3, <2>4 DEF IInv
<1> QED BY <1>1, <1>2

\* A call returns: its own state goes, the cache stays.
LEMMA LeaveStep ==
    ASSUME IInv, NEW t \in Thread, NEW ok \in BOOLEAN, pc[t] # "idle",
           Leave(t, ok)
    PROVE  IInv'
<1> USE DEF Leave, Goto, cacheVars
<1>1. length[t] \in Length  BY DEF IInv, CallsFit
<1>2. TypeOK'  BY <1>1 DEF IInv, TypeOK
<1>3. CallsFit'  BY DEF IInv, TypeOK, CallsFit
<1>4. OneEach'  BY DEF IInv, OneEach, Occupied
<1> QED BY <1>2, <1>3, <1>4 DEF IInv

LEMMA DestroyStep ==
    ASSUME IInv, NEW t \in Thread, Destroy(t)
    PROVE  IInv'
<1> USE DEF Destroy, cacheVars
<1>1. TypeOK'  BY DEF IInv, TypeOK
<1>2. CallsFit'  BY DEF IInv, CallsFit
<1>3. OneEach'  BY DEF IInv, OneEach, Occupied
<1> QED BY <1>1, <1>2, <1>3 DEF IInv

LEMMA StutterStep == IInv /\ UNCHANGED vars => IInv'
BY DEF IInv, TypeOK, CallsFit, OneEach, Occupied, vars, cacheVars, threadVars

LEMMA NextInv == IInv /\ [Next]_vars => IInv'
<1> SUFFICES ASSUME IInv, Next PROVE IInv'  BY StutterStep
<1>1. PICK t \in Thread : Create(t) \/ Execute(t) \/ Work(t) \/ Destroy(t)
  BY DEF Next
<1>2. CASE Create(t)
  <2>1. PICK l \in Length \ committed[t] : Begin(t, l, "create")
    BY <1>2 DEF Create
  <2> QED BY <2>1, BeginStep
<1>3. CASE Execute(t)
  <2>1. PICK l \in committed[t] : Begin(t, l, "execute")
    BY <1>3 DEF Execute
  <2>2. l \in Length  BY DEF IInv, TypeOK
  <2> QED BY <2>1, <2>2, BeginStep
<1>4. CASE Run(t)  BY <1>4, LeaveStep DEF Run
<1>5. CASE Throw(t)  BY <1>5, LeaveStep DEF Throw
<1> QED BY <1>1, <1>2, <1>3, <1>4, <1>5, SearchStep, BuildStep, PublishStep,
           DestroyStep DEF Work

\* In every reachable state the inductive invariant holds.
LEMMA Invariance == Spec => []IInv
BY InitInv, NextInv, PTL DEF Spec

-----------------------------------------------------------------------------
(* What holds whatever the counter does.                                   *)

\* Type correctness: a call never leaves get_plan() with an empty pointer and
\* the statics keep their shape, through every eviction and overflow.
THEOREM TypeCorrect == Spec => []TypeOK
<1>1. IInv => TypeOK  BY DEF IInv
<1> QED BY Invariance, <1>1, PTL

\* However many threads build the same length at the same time, get_plan()
\* keeps one transform of it.
THEOREM NoDuplicates == Spec => []OneSlotPerLength
<1>1. IInv => OneSlotPerLength
  <2> SUFFICES ASSUME IInv, NEW l \in Length
               PROVE  Cardinality(Holding(l)) <= 1
    BY DEF OneSlotPerLength
  <2>1. CASE Holding(l) = {}
    BY <2>1, FS_EmptySet
  <2>2. CASE Holding(l) # {}
    <3>1. PICK i \in Holding(l) : TRUE  BY <2>2
    <3>2. Holding(l) = {i}  BY <3>1 DEF Holding, IInv, OneEach
    <3> QED BY <3>2, FS_Singleton
  <2> QED BY <2>1, <2>2
<1> QED BY Invariance, <1>1, PTL

\* The transform a call runs has its length and is, when get_plan() returns
\* it, in the cache: the loser of a race adopts the winner's.
THEOREM RunsWhatIsCached == Spec => RunsCachedTransform
<1> DEFINE A == \A t \in Thread : pc[t] # "run" /\ pc'[t] = "run" =>
                   /\ plan'[t].length = length[t]
                   /\ \E i \in Slot : cache'[i] = plan'[t]
<1>1. IInv /\ [Next]_vars => [A]_vars
  <2> SUFFICES ASSUME IInv, Next, NEW t \in Thread, pc[t] # "run", pc'[t] = "run"
               PROVE  /\ plan'[t].length = length[t]
                      /\ \E i \in Slot : cache'[i] = plan'[t]
    OBVIOUS
  <2>1. PICK u \in Thread : Create(u) \/ Execute(u) \/ Work(u) \/ Destroy(u)
    BY DEF Next
  <2>2. u = t /\ (Search(t) \/ Publish(t))
    BY <2>1 DEF Create, Execute, Begin, Work, Search, Build, Publish, Run, Throw,
                Leave, Destroy, Goto, IInv, TypeOK
  <2>3. CASE Hit(t)
    <3>1. /\ plan'[t] = cache[FoundAt(length[t])] /\ cache' = cache
          /\ FoundAt(length[t]) \in Slot
          /\ cache[FoundAt(length[t])].length = length[t]
      BY <2>3, HitFacts DEF IInv, TypeOK, Occupied
    <3> QED BY <3>1
  <2>4. CASE Publish(t) /\ Insert(t) /\ UNCHANGED plan
    <3>1. Lru \in Slot  BY LruIsLeast DEF IInv
    <3>2. cache'[Lru] = plan[t]  BY <2>4, <3>1 DEF Insert, IInv, TypeOK
    <3>3. plan[t].length = length[t]
      BY <2>4 DEF Publish, IInv, CallsFit
    <3> QED BY <2>4, <3>1, <3>2, <3>3
  <2>5. Hit(t) \/ (Publish(t) /\ Insert(t) /\ UNCHANGED plan)
    BY <2>2 DEF Search, Publish, Goto, IInv, TypeOK
  <2> QED BY <2>3, <2>4, <2>5
<1> QED BY Invariance, <1>1, PTL DEF Spec, RunsCachedTransform

-----------------------------------------------------------------------------
(* What holds until the counter overflows.                                 *)

\* The overflow is remembered, and moves the counter back.
LEMMA NotWrappedBefore ==
    ASSUME NEW t \in Thread, Hit(t) \/ Insert(t), ~wrapped'
    PROVE  ~wrapped /\ ~(access_counter' < access_counter)
BY DEF Hit, Insert

\* The numbers the stamps are compared as.
LEMMA StampsAreNumbers ==
    ASSUME TypeOK
    PROVE  /\ access_counter \in Nat
           /\ \A i \in Slot : last_access[i] \in Nat
BY CounterSizeAssumption DEF TypeOK

\* Giving a slot the latest stamp keeps the stamps in the order of use.
LEMMA UseKeepsOrder ==
    ASSUME TypeOK, ~wrapped, StampsDiffer, StampsFollowUse, NEW i \in Slot,
           Occupied' = Occupied \cup {i},
           recency' = UsedLast(i),
           access_counter' \in Nat \ {0}, access_counter <= access_counter',
           last_access'[i] = access_counter',
           \A j \in Slot \ {i} : last_access'[j] = last_access[j],
           \A j \in Occupied \ {i} : last_access[j] < access_counter'
    PROVE  StampsDiffer' /\ StampsFollowUse'
<1>1. /\ access_counter \in Nat /\ access_counter' \in Nat
      /\ \A j \in Slot : last_access[j] \in Nat
  BY StampsAreNumbers
<1>2. \A j \in Occupied' : j \in Slot /\ (j = i \/ j \in Occupied)
  BY DEF Occupied
<1>3. \A j \in Slot : last_access'[j] <= access_counter'
  BY <1>1 DEF StampsDiffer
<1>4. \A j \in Slot \ Occupied' : last_access'[j] = 0
  BY DEF StampsDiffer
<1>5. \A j \in Occupied' : last_access'[j] # 0
  BY <1>2 DEF StampsDiffer
<1>6. \A j, k \in Occupied' : last_access'[j] = last_access'[k] => j = k
  BY <1>1, <1>2 DEF StampsDiffer
<1>7. \A j \in Slot \ Occupied', k \in Occupied' : last_access'[j] < last_access'[k]
  <2> SUFFICES ASSUME NEW j \in Slot \ Occupied', NEW k \in Occupied'
               PROVE  last_access'[j] < last_access'[k]
    OBVIOUS
  <2>1. last_access'[j] = 0 /\ last_access'[k] # 0  BY <1>4, <1>5
  <2>2. last_access'[k] \in Nat  BY <1>1, <1>2
  <2> QED BY <2>1, <2>2
<1>8. \A j, k \in Occupied' :
         last_access'[j] < last_access'[k] <=> <<j, k>> \in recency'
  <2> SUFFICES ASSUME NEW j \in Occupied', NEW k \in Occupied'
               PROVE  last_access'[j] < last_access'[k] <=> <<j, k>> \in recency'
    OBVIOUS
  <2>1. j \in Slot /\ k \in Slot  BY <1>2
  <2>2. CASE j # i /\ k # i
    <3>1. <<j, k>> \in recency' <=> <<j, k>> \in recency
      BY <2>2 DEF UsedLast
    <3>2. last_access[j] < last_access[k] <=> <<j, k>> \in recency
      BY <1>2, <2>2 DEF StampsFollowUse
    <3> QED BY <2>1, <2>2, <3>1, <3>2
  <2>3. CASE j # i /\ k = i
    <3>1. <<j, k>> \in recency'  BY <1>2, <2>3 DEF UsedLast
    <3>2. last_access'[j] < last_access'[k]  BY <1>2, <2>1, <2>3
    <3> QED BY <3>1, <3>2
  <2>4. CASE j = i
    <3>1. <<j, k>> \notin recency'  BY <2>4 DEF UsedLast
    <3>2. last_access'[k] <= last_access'[j]  BY <1>1, <1>3, <2>1, <2>4
    <3>3. last_access'[j] \in Nat /\ last_access'[k] \in Nat
      BY <1>1, <2>1
    <3> QED BY <3>1, <3>2, <3>3
  <2> QED BY <2>2, <2>3, <2>4
<1> QED BY <1>3, <1>4, <1>5, <1>6, <1>7, <1>8
        DEF StampsDiffer, StampsFollowUse, Slot

\* A hit: the slot is already the latest, or is now.
LEMMA HitStamps ==
    ASSUME IInv, NEW t \in Thread, Hit(t), ~wrapped', StampsInv
    PROVE  StampsDiffer' /\ StampsFollowUse'
<1> DEFINE i == FoundAt(length[t])
<1>1. TypeOK /\ i \in Occupied /\ i \in Slot /\ Occupied' = Occupied
  BY HitFacts DEF IInv, Occupied
<1>2. ~wrapped /\ ~(access_counter' < access_counter)
  BY NotWrappedBefore
<1>3. StampsDiffer /\ StampsFollowUse  BY <1>2 DEF StampsInv
<1>4. access_counter \in Nat /\ \A j \in Slot : last_access[j] \in Nat
  BY <1>1, StampsAreNumbers
<1>5. recency' = UsedLast(i)  BY DEF Hit
<1>6. \/ /\ last_access[i] = access_counter
         /\ UNCHANGED <<last_access, access_counter>>
      \/ /\ access_counter' = access_counter + 1
         /\ last_access' = [last_access EXCEPT ![i] = access_counter + 1]
  <2>1. /\ Later(access_counter) = 0 <=> Later(access_counter) < access_counter
        /\ ~(Later(access_counter) < access_counter)
              => Later(access_counter) = access_counter + 1
    BY <1>1, LaterFacts DEF TypeOK
  <2> QED BY <1>2, <2>1 DEF Hit, Touch
<1> HIDE DEF i
<1>7. last_access[i] <= access_counter /\ last_access[i] # 0
  BY <1>1, <1>3 DEF StampsDiffer
<1>8. /\ access_counter' \in Nat \ {0} /\ access_counter <= access_counter'
      /\ last_access'[i] = access_counter'
      /\ \A j \in Slot \ {i} : last_access'[j] = last_access[j]
  BY <1>1, <1>4, <1>6, <1>7 DEF TypeOK
<1>9. \A j \in Occupied \ {i} : last_access[j] < access_counter'
  <2> SUFFICES ASSUME NEW j \in Occupied \ {i}
               PROVE  last_access[j] < access_counter'
    OBVIOUS
  <2>1. /\ last_access[j] \in Nat /\ last_access[j] <= access_counter
        /\ last_access[j] # last_access[i]
    BY <1>1, <1>3, <1>4 DEF StampsDiffer, Occupied
  <2> QED BY <1>4, <1>6, <2>1
<1> QED BY <1>1, <1>2, <1>3, <1>5, <1>8, <1>9, UseKeepsOrder

\* An insertion: the victim's stamp is the latest.
LEMMA InsertStamps ==
    ASSUME IInv, NEW t \in Thread, Insert(t), plan[t] \in Transform,
           ~wrapped', StampsInv
    PROVE  StampsDiffer' /\ StampsFollowUse'
<1>1. TypeOK /\ Lru \in Slot  BY LruIsLeast DEF IInv
<1>2. ~wrapped /\ ~(access_counter' < access_counter)
  BY NotWrappedBefore
<1>3. StampsDiffer /\ StampsFollowUse  BY <1>2 DEF StampsInv
<1>4. access_counter \in Nat /\ \A j \in Slot : last_access[j] \in Nat
  BY <1>1, StampsAreNumbers
<1>5. recency' = UsedLast(Lru)  BY DEF Insert
<1>6. access_counter' = access_counter + 1
  BY <1>1, <1>2, LaterFacts DEF Insert, TypeOK
<1>7. Occupied' = Occupied \cup {Lru}
  BY <1>1, NothingIsNone DEF Insert, Occupied, Slot, TypeOK
<1>8. /\ last_access'[Lru] = access_counter'
      /\ \A j \in Slot \ {Lru} : last_access'[j] = last_access[j]
  BY <1>1 DEF Insert, TypeOK
<1>9. \A j \in Occupied \ {Lru} : last_access[j] < access_counter'
  BY <1>3, <1>4, <1>6 DEF StampsDiffer, Occupied
<1>10. access_counter' \in Nat \ {0} /\ access_counter <= access_counter'
  BY <1>4, <1>6
<1> QED BY <1>1, <1>2, <1>3, <1>5, <1>7, <1>8, <1>9, <1>10, UseKeepsOrder

\* Every step that does not use the cache leaves the stamps alone.
LEMMA CacheOrNot ==
    ASSUME IInv, [Next]_vars
    PROVE  \/ UNCHANGED cacheVars
           \/ \E t \in Thread : Hit(t)
           \/ \E t \in Thread : /\ pc[t] = "publish" /\ Insert(t)
                                /\ plan[t] \in Transform /\ UNCHANGED plan
                                /\ plan[t].length = length[t]
                                /\ ~Cached(length[t])
<1>1. CASE UNCHANGED vars  BY <1>1 DEF vars
<1>2. CASE Next
  <2>1. PICK t \in Thread : Create(t) \/ Execute(t) \/ Work(t) \/ Destroy(t)
    BY <1>2 DEF Next
  <2>2. CASE Publish(t)
    <3>1. plan[t] \in Transform /\ plan[t].length = length[t]
      BY <2>2 DEF Publish, IInv, CallsFit
    <3> QED BY <2>2, <3>1 DEF Publish
  <2>3. CASE ~Publish(t)
    BY <2>1, <2>3 DEF Create, Execute, Begin, Work, Search, Build, Run, Throw,
                      Leave, Destroy, cacheVars
  <2> QED BY <2>2, <2>3
<1> QED BY <1>1, <1>2

LEMMA StampsInit == Init => StampsInv
BY DEF Init, StampsInv, StampsDiffer, StampsFollowUse, Occupied

LEMMA StampsNext == IInv /\ StampsInv /\ [Next]_vars => StampsInv'
<1> SUFFICES ASSUME IInv, StampsInv, [Next]_vars, ~wrapped'
             PROVE  StampsDiffer' /\ StampsFollowUse'
  BY DEF StampsInv
<1>1. CASE UNCHANGED cacheVars
  BY <1>1 DEF StampsInv, StampsDiffer, StampsFollowUse, Occupied, cacheVars
<1>2. CASE \E t \in Thread : Hit(t)
  <2>1. PICK t \in Thread : Hit(t)  BY <1>2
  <2> QED BY <2>1, HitStamps
<1>3. CASE \E t \in Thread : Insert(t) /\ plan[t] \in Transform
  <2>1. PICK t \in Thread : Insert(t) /\ plan[t] \in Transform  BY <1>3
  <2> QED BY <2>1, InsertStamps
<1> QED BY <1>1, <1>2, <1>3, CacheOrNot

LEMMA StampsInvariance == Spec => []StampsInv
BY Invariance, StampsInit, StampsNext, PTL DEF Spec

\* Until access_counter overflows, find_in_cache() and the insertion together
\* keep the true order of use: the slot with the smallest stamp is an empty one
\* if there is any, else the one unused for longest.
THEOREM EvictionFollowsUse == Spec => []StampsFollowUse
<1>1. StampsInv => StampsFollowUse  BY DEF StampsInv, StampsFollowUse
<1> QED BY StampsInvariance, <1>1, PTL

-----------------------------------------------------------------------------
(* No more lengths than slots: nothing is evicted.                         *)

\* While a length is missing there is an empty slot for it.
LEMMA RoomForMissing ==
    ASSUME LengthsFit, IInv, NEW l \in Length, ~Cached(l)
    PROVE  \E j \in Slot : j \notin Occupied
<1> SUFFICES ASSUME \A j \in Slot : j \in Occupied PROVE FALSE  OBVIOUS
<1> DEFINE f == [i \in Slot |-> cache[i].length]
           Others == Length \ {l}
<1>1. \A i \in Slot : cache[i].length \in Others
  BY OccupiedHolds DEF Cached, Holding, IInv
<1>2. IsFiniteSet(Slot) /\ Cardinality(Slot) = Slots
  <2>1. Slots \in Nat /\ Slots > 0 /\ 0 \in Int /\ Slots - 1 \in Int
    BY SlotsAssumption
  <2>2. Slots - 1 - 0 + 1 = Slots /\ ~(0 > Slots - 1)  BY <2>1
  <2> QED BY <2>1, <2>2, FS_Interval DEF Slot
<1>3. IsFiniteSet(Others) /\ Cardinality(Others) = Cardinality(Length) - 1
  BY FS_RemoveElement DEF LengthsFit
<1>4. Cardinality(Others) < Cardinality(Slot)
  <2>1. Cardinality(Length) \in Nat  BY FS_CardinalityType DEF LengthsFit
  <2> QED BY <1>2, <1>3, <2>1, SlotsAssumption DEF LengthsFit
<1>5. f \in [Slot -> Others]  BY <1>1
<1>6. PICK x \in Slot, y \in Slot : x # y /\ f[x] = f[y]
  <2> HIDE DEF f, Others
  <2> QED BY <1>2, <1>3, <1>4, <1>5, FS_PigeonHole
<1> QED BY <1>6 DEF IInv, OneEach

\* So the victim is an empty slot.
LEMMA VictimIsEmpty ==
    ASSUME LengthsFit, IInv, StampsInv, ~wrapped, NEW l \in Length, ~Cached(l)
    PROVE  Lru \in Slot \ Occupied
<1>1. PICK j \in Slot : j \notin Occupied  BY RoomForMissing
<1>2. Lru \in Slot /\ last_access[Lru] <= last_access[j]
  BY LruIsLeast DEF IInv
<1>3. last_access[Lru] \in Nat /\ last_access[j] \in Nat
  BY <1>2, StampsAreNumbers DEF IInv
<1>4. Lru \in Occupied => last_access[j] < last_access[Lru]
  BY <1>1 DEF StampsInv, StampsFollowUse
<1> QED BY <1>2, <1>3, <1>4

\* And what is cached stays cached.
LEMMA CachedStays ==
    ASSUME LengthsFit, IInv, StampsInv, [Next]_vars, ~wrapped',
           NEW l, Cached(l)
    PROVE  Cached(l)' /\ ~wrapped
<1>1. CASE UNCHANGED cacheVars
  BY <1>1 DEF Cached, Holding, Occupied, cacheVars
<1>2. CASE \E t \in Thread : Hit(t)
  BY <1>2 DEF Hit, Cached, Holding, Occupied
<1>3. CASE \E t \in Thread : /\ pc[t] = "publish" /\ Insert(t)
                             /\ plan[t] \in Transform /\ UNCHANGED plan
                             /\ plan[t].length = length[t]
                             /\ ~Cached(length[t])
  <2>1. PICK t \in Thread : /\ pc[t] = "publish" /\ Insert(t)
                            /\ ~Cached(length[t])
    BY <1>3
  <2>2. ~wrapped  BY <2>1 DEF Insert
  <2>3. Lru \in Slot \ Occupied
    BY <2>1, <2>2, VictimIsEmpty DEF IInv, CallsFit
  <2>4. PICK i \in Occupied : cache[i].length = l
    BY DEF Cached, Holding
  <2>5. cache'[i] = cache[i] /\ i \in Slot
    BY <2>1, <2>3, <2>4 DEF Insert, IInv, TypeOK, Occupied
  <2>6. i \in Occupied'  BY <2>4, <2>5 DEF Occupied, Slot
  <2> QED BY <2>2, <2>4, <2>5, <2>6 DEF Cached, Holding
<1> QED BY <1>1, <1>2, <1>3, CacheOrNot

\* A call that begins to run has its length in the cache.
LEMMA RunIsCached ==
    ASSUME IInv, NEW t \in Thread, UNCHANGED length,
           Hit(t) \/ (Insert(t) /\ pc[t] = "publish")
    PROVE  Cached(length[t])'
<1>1. CASE Hit(t)
  <2>1. Cached(length[t])  BY <1>1 DEF Hit
  <2> QED BY <1>1, <2>1 DEF Hit, Cached, Holding, Occupied
<1>2. CASE Insert(t) /\ pc[t] = "publish"
  <2>1. plan[t] \in Transform /\ plan[t].length = length[t]
    BY <1>2 DEF IInv, CallsFit
  <2>2. Lru \in Slot  BY LruIsLeast DEF IInv
  <2>3. cache'[Lru] = plan[t]  BY <1>2, <2>2 DEF Insert, IInv, TypeOK
  <2>4. Lru \in Occupied'  BY <2>1, <2>2, <2>3, NothingIsNone DEF Occupied, Slot
  <2> QED BY <2>1, <2>3, <2>4 DEF Cached, Holding
<1> QED BY <1>1, <1>2

LEMMA CommittedInit == Init => CommittedInv
BY DEF Init, CommittedInv, CommittedStay

LEMMA CommittedNext ==
    LengthsFit /\ IInv /\ StampsInv /\ CommittedInv /\ [Next]_vars => CommittedInv'
<1> SUFFICES ASSUME LengthsFit, IInv, StampsInv, CommittedInv, [Next]_vars,
                    ~wrapped'
             PROVE  CommittedStay'
  BY DEF CommittedInv
<1>1. ~wrapped
  BY CacheOrNot DEF cacheVars, Hit, Insert
<1>2. CommittedStay  BY <1>1 DEF CommittedInv
<1>3. \A l : Cached(l) => Cached(l)'  BY CachedStays
<1>4. CASE UNCHANGED vars
  BY <1>2, <1>4 DEF CommittedStay, Cached, Holding, Occupied, vars, cacheVars,
                    threadVars
<1>5. CASE Next
  <2>1. PICK u \in Thread : Create(u) \/ Execute(u) \/ Work(u) \/ Destroy(u)
    BY <1>5 DEF Next
  <2>2. CASE Create(u)
    BY <1>2, <1>3, <2>2 DEF Create, Begin, Goto, CommittedStay, IInv, TypeOK
  <2>3. CASE Execute(u)
    BY <1>2, <1>3, <2>3 DEF Execute, Begin, Goto, CommittedStay, IInv, TypeOK
  <2>4. CASE Search(u)
    <3>1. Hit(u) => Cached(length[u])'
      BY <2>4, RunIsCached DEF Search
    <3> QED BY <1>2, <1>3, <2>4, <3>1
            DEF Search, Hit, Goto, CommittedStay, IInv, TypeOK
  <2>5. CASE Build(u)
    BY <1>2, <1>3, <2>5 DEF Build, Goto, CommittedStay, IInv, TypeOK
  <2>6. CASE Publish(u)
    <3>1. Cached(length[u])'
      BY <2>6, RunIsCached DEF Publish
    <3> QED BY <1>2, <1>3, <2>6, <3>1
            DEF Publish, Goto, CommittedStay, IInv, TypeOK
  <2>7. CASE Run(u)
    BY <1>2, <1>3, <2>7 DEF Run, Leave, Goto, CommittedStay, IInv, TypeOK
  <2>8. CASE Throw(u)
    BY <1>2, <1>3, <2>8 DEF Throw, Leave, Goto, CommittedStay, IInv, TypeOK
  <2>9. CASE Destroy(u)
    BY <1>2, <1>3, <2>9 DEF Destroy, CommittedStay, IInv, TypeOK
  <2> QED BY <2>1, <2>2, <2>3, <2>4, <2>5, <2>6, <2>7, <2>8, <2>9 DEF Work
<1> QED BY <1>4, <1>5

\* If a program uses no more lengths than the cache has slots, then until the
\* access counter overflows execute() finds what create() warmed the cache for
\* and plans nothing.
THEOREM ExecuteHits ==
    ASSUME LengthsFit
    PROVE  Spec => [](~wrapped => ExecuteNeverPlans)
<1>1. IInv /\ StampsInv /\ CommittedInv /\ [Next]_vars => CommittedInv'
  BY CommittedNext
<1>2. Spec => []CommittedInv
  BY Invariance, StampsInvariance, CommittedInit, <1>1, PTL DEF Spec
<1>3. IInv /\ CommittedInv => (~wrapped => ExecuteNeverPlans)
  BY DEF IInv, CallsFit, CommittedInv, CommittedStay, ExecuteNeverPlans
<1> QED BY Invariance, <1>2, <1>3, PTL

=============================================================================
