---------------------------- MODULE PocketCache ----------------------------
(***************************************************************************)
(* The one piece of state FFT plans share: pocketfft's cache of committed  *)
(* transforms (get_plan), with the pocketfft backend's plans on several    *)
(* threads as its clients.  Every plan runs one throwaway transform when   *)
(* it is created and one transform per execute(); each of them asks the    *)
(* cache, which is guarded by a mutex while it is searched or changed but  *)
(* not while a missing transform is built.                                 *)
(*                                                                         *)
(* A step under the mutex is one action: nothing else can see its middle.  *)
(* There is one such cache for complex and one for real transforms of each *)
(* precision; they never meet, so one is modelled.                         *)
(***************************************************************************)
EXTENDS Naturals, FiniteSets

CONSTANTS
    Thread,
    Length,       \* the transform lengths the program uses
    Slots,        \* POCKETFFT_CACHE_SIZE
    CounterSize,  \* 2^w for the width w of size_t
    Address,      \* where transforms are allocated
    MaxAccess     \* bound: no call begins once access_counter is this high

ASSUME SlotsAssumption == Slots \in Nat \ {0}
ASSUME CounterSizeAssumption == CounterSize \in Nat \ {0, 1}
ASSUME MaxAccessAssumption == MaxAccess \in Nat

VARIABLES
    cache, last_access, access_counter,  \* the statics of get_plan
    pc,         \* per thread, where it stands in a call
    purpose,    \* per thread, whether the call is a create or an execute
    length,     \* per thread, the length its call asks for
    plan,       \* per thread, the shared_ptr its call holds
    committed,  \* per thread, the lengths of the FftPlans it owns
    recency,    \* history variable: the pairs of slots whose first was last
                \* used before the second
    wrapped     \* history variable: access_counter has overflowed

cacheVars  == <<cache, last_access, access_counter, recency, wrapped>>
threadVars == <<pc, purpose, length, plan, committed>>
vars       == <<cacheVars, threadVars>>

Slot      == 0 .. Slots - 1
Transform == [address : Address, length : Length]
Nothing   == [address |-> "null"]     \* the empty shared_ptr

Init ==
    /\ cache = [i \in Slot |-> Nothing]
    /\ last_access = [i \in Slot |-> 0]
    /\ access_counter = 0
    /\ recency = {}
    /\ wrapped = FALSE
    /\ pc = [t \in Thread |-> "idle"]
    /\ purpose = [t \in Thread |-> "none"]
    /\ length = [t \in Thread |-> "none"]
    /\ plan = [t \in Thread |-> Nothing]
    /\ committed = [t \in Thread |-> {}]

-----------------------------------------------------------------------------
Occupied == {i \in Slot : cache[i] # Nothing}
Holding(l) == {i \in Occupied : cache[i].length = l}
Cached(l) == Holding(l) # {}

\* The slot the search stops at: the first that matches.
FoundAt(l) == CHOOSE i \in Holding(l) : \A j \in Holding(l) : i <= j

\* Mutant: the counter is wider than size_t.
LaterUnbounded(n) == n + 1

Later(n) == (n + 1) % CounterSize

\* Mutant: the comparison turned round, the latest slot is evicted.
MostRecent == CHOOSE i \in Slot : \A j \in Slot :
                 \/ last_access[i] > last_access[j]
                 \/ last_access[i] = last_access[j] /\ i <= j

\* The first slot with the smallest stamp; an empty slot's stamp is 0.
Lru == CHOOSE i \in Slot : \A j \in Slot :
          \/ last_access[i] < last_access[j]
          \/ last_access[i] = last_access[j] /\ i <= j

\* Slot i is the last one used.
UsedLast(i) ==
    {p \in recency : i \notin {p[1], p[2]}} \cup ((Occupied \ {i}) \X {i})

\* Mutant: the hit is stamped without moving the counter on.
TouchStampsOnly(i) ==
    /\ last_access' = [last_access EXCEPT ![i] = access_counter]
    /\ UNCHANGED access_counter

\* A hit: the slot becomes the most recent one unless it is already.  When the
\* counter overflows all stamps start again.
Touch(i) ==
    IF last_access[i] = access_counter
    THEN UNCHANGED <<last_access, access_counter>>
    ELSE LET now == Later(access_counter)
         IN  /\ access_counter' = now
             /\ last_access' = IF now = 0 THEN [j \in Slot |-> 0]
                               ELSE [last_access EXCEPT ![i] = now]

\* find_in_cache() for thread t, when it finds.
Hit(t) ==
    LET i == FoundAt(length[t])
    IN  /\ Cached(length[t])
        /\ Touch(i)
        /\ recency' = UsedLast(i)
        /\ wrapped' = (wrapped \/ access_counter' < access_counter)
        /\ plan' = [plan EXCEPT ![t] = cache[i]]
        /\ UNCHANGED cache

\* A new transform takes the least recently used slot.  This path has no guard
\* against overflow.
Insert(t) ==
    LET now == Later(access_counter)
    IN  /\ cache' = [cache EXCEPT ![Lru] = plan[t]]
        /\ access_counter' = now
        /\ last_access' = [last_access EXCEPT ![Lru] = now]
        /\ recency' = UsedLast(Lru)
        /\ wrapped' = (wrapped \/ now < access_counter)

Goto(t, label) == pc' = [pc EXCEPT ![t] = label]

-----------------------------------------------------------------------------
Begin(t, l, why) ==
    /\ pc[t] = "idle" /\ Goto(t, "search")
    /\ access_counter < MaxAccess
    /\ length' = [length EXCEPT ![t] = l]
    /\ purpose' = [purpose EXCEPT ![t] = why]
    /\ UNCHANGED <<cacheVars, plan, committed>>

\* make_backend_plan() warms the cache for its own length.
Create(t) == \E l \in Length \ committed[t] : Begin(t, l, "create")

Execute(t) == \E l \in committed[t] : Begin(t, l, "execute")

\* The first search.
Search(t) ==
    /\ pc[t] = "search"
    /\ \/ Hit(t) /\ Goto(t, "run")
       \/ /\ ~Cached(length[t])
          /\ Goto(t, "build")
          /\ UNCHANGED <<cacheVars, plan>>
    /\ UNCHANGED <<purpose, length, committed>>

\* make_shared, outside the mutex.
Live == {cache[i].address : i \in Occupied}
          \cup {plan[t].address : t \in {u \in Thread : plan[u] # Nothing}}

Build(t) ==
    /\ pc[t] = "build" /\ Goto(t, "publish")
    /\ \E a \in Address \ Live :
          plan' = [plan EXCEPT ![t] = [address |-> a, length |-> length[t]]]
    /\ UNCHANGED <<cacheVars, purpose, length, committed>>

\* Mutant: the cache is not searched again before the insertion.
PublishBlindly(t) ==
    /\ pc[t] = "publish" /\ Goto(t, "run")
    /\ Insert(t)
    /\ UNCHANGED <<plan, purpose, length, committed>>

\* Mutant: the thread keeps the transform it built although the cache has one.
PublishKeepsOwn(t) ==
    /\ pc[t] = "publish" /\ Goto(t, "run")
    /\ IF Cached(length[t]) THEN UNCHANGED cacheVars ELSE Insert(t)
    /\ UNCHANGED <<plan, purpose, length, committed>>

\* Mutant: the loser of a race has no way on.
PublishUnlessCached(t) ==
    /\ pc[t] = "publish" /\ Goto(t, "run")
    /\ ~Cached(length[t]) /\ Insert(t) /\ UNCHANGED plan
    /\ UNCHANGED <<purpose, length, committed>>

\* The second search, after another thread may have inserted the same length:
\* its transform is used and this thread's own is dropped.
Publish(t) ==
    /\ pc[t] = "publish" /\ Goto(t, "run")
    /\ \/ Hit(t)
       \/ ~Cached(length[t]) /\ Insert(t) /\ UNCHANGED plan
    /\ UNCHANGED <<purpose, length, committed>>

\* Leaving the call drops its reference.  A create that succeeds commits a plan.
Leave(t, ok) ==
    /\ Goto(t, "idle")
    /\ plan' = [plan EXCEPT ![t] = Nothing]
    /\ committed' = IF ok /\ purpose[t] = "create"
                    THEN [committed EXCEPT ![t] = @ \cup {length[t]}]
                    ELSE committed
    /\ purpose' = [purpose EXCEPT ![t] = "none"]
    /\ length' = [length EXCEPT ![t] = "none"]
    /\ UNCHANGED cacheVars

Run(t) == pc[t] = "run" /\ Leave(t, TRUE)

\* An allocation throws, while the transform is built or while its scratch is
\* set up: pocket_run() catches it and reports BackendError.
Throw(t) == pc[t] \in {"build", "run"} /\ Leave(t, FALSE)

\* An FftPlan is destroyed; the cache does not notice.
Destroy(t) ==
    /\ pc[t] = "idle"
    /\ \E l \in committed[t] : committed' = [committed EXCEPT ![t] = @ \ {l}]
    /\ UNCHANGED <<cacheVars, pc, purpose, length, plan>>

Work(t) == Search(t) \/ Build(t) \/ Publish(t) \/ Run(t) \/ Throw(t)

Next == \E t \in Thread : Create(t) \/ Execute(t) \/ Work(t) \/ Destroy(t)

Spec == Init /\ [][Next]_vars

\* A thread inside a call is not descheduled for ever, and the mutex is free
\* between steps.
FairSpec == Spec /\ \A t \in Thread : WF_vars(Work(t))

-----------------------------------------------------------------------------
\* Every variable keeps its shape.
TypeOK ==
    /\ cache \in [Slot -> Transform \cup {Nothing}]
    /\ last_access \in [Slot -> 0 .. CounterSize - 1]
    /\ access_counter \in 0 .. CounterSize - 1
    /\ pc \in [Thread -> {"idle", "search", "build", "publish", "run"}]
    /\ purpose \in [Thread -> {"create", "execute", "none"}]
    /\ length \in [Thread -> Length \cup {"none"}]
    /\ plan \in [Thread -> Transform \cup {Nothing}]
    /\ committed \in [Thread -> SUBSET Length]
    /\ recency \subseteq Slot \X Slot
    /\ wrapped \in BOOLEAN

\* Two threads that build the same length at the same time end up with one
\* entry: no slot is wasted on a duplicate.
OneSlotPerLength == \A l \in Length : Cardinality(Holding(l)) <= 1

\* The transform a call runs is the one the cache holds at that moment: the
\* loser of a race adopts the winner's.
RunsCachedTransform ==
    [][\A t \in Thread : pc[t] # "run" /\ pc'[t] = "run" =>
          /\ plan'[t].length = length[t]
          /\ \E i \in Slot : cache'[i] = plan'[t]]_vars

\* Until the counter overflows the stamps order the slots as they were last
\* used, although a hit on the most recent slot is not stamped again: eviction
\* really takes the least recently used transform, and an empty slot before any.
StampsFollowUse ==
    ~wrapped =>
    /\ \A i \in Slot \ Occupied, j \in Occupied : last_access[i] < last_access[j]
    /\ \A i, j \in Occupied :
          last_access[i] < last_access[j] <=> <<i, j>> \in recency

\* execute() finds what create committed and plans nothing.
ExecuteNeverPlans ==
    \A t \in Thread : pc[t] \in {"build", "publish"} => purpose[t] = "create"

\* Every call returns: no thread waits for another that waits for it, and no
\* thread keeps losing the race for its slot.
EveryCallReturns == \A t \in Thread : pc[t] # "idle" ~> pc[t] = "idle"

=============================================================================
