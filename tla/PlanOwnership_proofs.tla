------------------------ MODULE PlanOwnership_proofs ------------------------
(***************************************************************************)
(* Who owns a backend's state, for any number of plans and creates.        *)
(*                                                                         *)
(* What the twelve scripts have in common is one lemma, ScriptFacts; from  *)
(* there on the proof speaks of no backend by name.  The inductive         *)
(* invariant adds what a running create has acquired: exactly what the     *)
(* steps behind it acquire.                                                *)
(***************************************************************************)
EXTENDS PlanOwnership, Integers, SequenceTheorems, TLAPS

\* The backends whose create lets go of nothing when it is left by an exception.
Unwinding == {"portable", "liquid", "armpl", "fftw", "kfr_fft", "kfr_fir"}

\* What the steps of a script acquire before step n.
Before(b, n) == UNION {Script(b)[m].gets : m \in 1 .. n - 1}

\* A script of this length keeps the promises a step makes: it acquires only
\* what destroy() frees; a status it fails with frees all that is held by then,
\* an exception does so in a backend that unwinds; and only the last step of
\* liquid, which asks for its filters, fails unnoticed.
SoundStep(b, n) ==
    /\ Script(b)[n].gets \subseteq DestroyFrees(b)
    /\ \A status \in Script(b)[n].fails :
          status = "bad_alloc" => b \notin Unwinding
             \/ \A m \in 1 .. n - 1 : Script(b)[m].gets \subseteq Script(b)[n].frees
    /\ \A status \in Script(b)[n].fails :
          status # "bad_alloc" =>
             \A m \in 1 .. n - 1 : Script(b)[m].gets \subseteq Script(b)[n].frees
    /\ Script(b)[n].fails = {} =>
          b = "liquid" /\ n = Len(Script(b)) /\ Script(b)[n].gets = {"filters"}

SoundScript(b, size) ==
    /\ Len(Script(b)) = size
    /\ \A n \in 1 .. size : SoundStep(b, n)

\* The twelve scripts are sound: each is looked at step by step.
LEMMA ScriptFacts ==
    ASSUME NEW b \in Backends
    PROVE  /\ \E size \in Nat \ {0} : SoundScript(b, size)
           /\ DestroyFrees(b) \subseteq Resource
<1> USE DEF SoundScript, SoundStep, Script, DestroyFrees, Unwinding,
            Check, Library, Allocate, Step, BadConfig, IppError, Resource
<1>1. CASE b = "pocketfft"
  <2>1. \A n \in 1 .. 5 : n = 1 \/ n = 2 \/ n = 3 \/ n = 4 \/ n = 5  OBVIOUS
  <2> QED BY <1>1, <2>1 DEF Pocketfft
<1>2. CASE b = "mkl"
  <2>1. \A n \in 1 .. 4 : n = 1 \/ n = 2 \/ n = 3 \/ n = 4  OBVIOUS
  <2> QED BY <1>2, <2>1 DEF Mkl
<1>3. CASE b = "aocl"
  <2>1. \A n \in 1 .. 4 : n = 1 \/ n = 2 \/ n = 3 \/ n = 4  OBVIOUS
  <2> QED BY <1>3, <2>1 DEF Aocl
<1>4. CASE b = "armpl"
  <2>1. \A n \in 1 .. 5 : n = 1 \/ n = 2 \/ n = 3 \/ n = 4 \/ n = 5  OBVIOUS
  <2> QED BY <1>4, <2>1 DEF Armpl
<1>5. CASE b = "cmsis_fft"
  <2>1. \A n \in 1 .. 4 : n = 1 \/ n = 2 \/ n = 3 \/ n = 4  OBVIOUS
  <2> QED BY <1>5, <2>1 DEF CmsisFft
<1>6. CASE b = "fftw"
  <2>1. \A n \in 1 .. 5 : n = 1 \/ n = 2 \/ n = 3 \/ n = 4 \/ n = 5  OBVIOUS
  <2> QED BY <1>6, <2>1 DEF Fftw
<1>7. CASE b = "kfr_fft"
  <2>1. \A n \in 1 .. 4 : n = 1 \/ n = 2 \/ n = 3 \/ n = 4  OBVIOUS
  <2> QED BY <1>7, <2>1 DEF KfrFft
<1>8. CASE b = "ipp"
  <2>1. \A n \in 1 .. 5 : n = 1 \/ n = 2 \/ n = 3 \/ n = 4 \/ n = 5  OBVIOUS
  <2> QED BY <1>8, <2>1 DEF Ipp
<1>9. CASE b = "cmsis_fir"
  <2>1. \A n \in 1 .. 3 : n = 1 \/ n = 2 \/ n = 3  OBVIOUS
  <2> QED BY <1>9, <2>1 DEF CmsisFir
<1>10. CASE b = "portable"
  <2>1. \A n \in 1 .. 3 : n = 1 \/ n = 2 \/ n = 3  OBVIOUS
  <2> QED BY <1>10, <2>1 DEF Portable
<1>11. CASE b = "liquid"
  <2>1. \A n \in 1 .. 4 : n = 1 \/ n = 2 \/ n = 3 \/ n = 4  OBVIOUS
  <2> QED BY <1>11, <2>1 DEF Liquid
<1>12. CASE b = "kfr_fir"
  <2>1. \A n \in 1 .. 5 : n = 1 \/ n = 2 \/ n = 3 \/ n = 4 \/ n = 5  OBVIOUS
  <2> QED BY <1>12, <2>1 DEF KfrFir
<1> QED BY <1>1, <1>2, <1>3, <1>4, <1>5, <1>6, <1>7, <1>8, <1>9, <1>10, <1>11, <1>12, BackendsAssumption

-----------------------------------------------------------------------------
\* What a running create holds, and where it will put its plan.
Progress ==
    /\ \A a \in Address : held[a] \subseteq DestroyFrees(backend)
    /\ next > 0 =>
          /\ held[making] = Before(backend, next)
          /\ plans["Result"] = NoObject

IInv ==
    /\ TypeOK
    /\ SoleOwner
    /\ OwnsAllItNeeds
    /\ NothingLost
    /\ Progress

\* The step a running create stands at.
LEMMA HereFacts ==
    ASSUME TypeOK, next > 0
    PROVE  /\ Len(Script(backend)) \in Nat
           /\ next \in 1 .. Len(Script(backend))
           /\ SoundStep(backend, next)
           /\ making \in Address
<1>1. backend \in Backends  BY DEF TypeOK
<1>2. PICK size \in Nat \ {0} : SoundScript(backend, size)
  BY <1>1, ScriptFacts
<1>3. Len(Script(backend)) = size  BY <1>2 DEF SoundScript
<1>4. next \in 1 .. size  BY <1>2, <1>3 DEF TypeOK
<1> QED BY <1>2, <1>3, <1>4 DEF SoundScript, TypeOK

\* The pointers of plans tell apart no object, an empty plan and a full one.
LEMMA Pointers ==
    ASSUME NEW a, NEW c
    PROVE  /\ Owning(a) # NoObject
           /\ Owning(a) = Owning(c) <=> a = c
           /\ Owning(a).exists /\ ~NoObject.exists
           /\ Owning(a).state = a
<1>1. Owning(a).exists /\ ~NoObject.exists /\ Owning(a).state = a
      /\ Owning(c).state = c
  BY DEF Owning, NoObject
<1> QED BY <1>1

\* What a place may hold.
Pointer == {NoObject} \cup {Owning(a) : a \in Address \cup {Null}}

LEMMA PlansPoint == TypeOK => plans \in [Places -> Pointer]
BY DEF TypeOK, Pointer

\* A plan object is empty or owns one state.
LEMMA PlanOwns ==
    ASSUME TypeOK, NEW p \in Places, plans[p].exists
    PROVE  \E a \in Address \cup {Null} :
              plans[p] = Owning(a) /\ plans[p].state = a
BY PlansPoint, Pointers DEF Pointer

LEMMA InitInv == Init => IInv
<1> SUFFICES ASSUME Init PROVE IInv  OBVIOUS
<1> USE DEF Init
<1>1. PICK size \in Nat \ {0} : SoundScript(backend, size)
  BY ScriptFacts
<1>2. \A a : Owners(a) = {}  BY Pointers DEF Owners
<1>3. TypeOK  BY <1>1 DEF TypeOK, SoundScript
<1> QED BY <1>2, <1>3 DEF IInv, SoleOwner, OwnsAllItNeeds, NothingLost, Progress

\* A create begins with nothing.
LEMMA CreateStep == IInv /\ Create => IInv'
<1> SUFFICES ASSUME IInv, Create PROVE IInv'  OBVIOUS
<1> USE DEF Create
<1>1. /\ making' \in Address /\ held[making'] = {} /\ Owners(making') = {}
      /\ next' = 1 /\ \A a : Owners(a)' = Owners(a)
  BY DEF Owners
<1>2. TypeOK'
  <2>1. PICK size \in Nat \ {0} : SoundScript(backend, size)
    BY ScriptFacts DEF IInv, TypeOK
  <2> QED BY <1>1, <2>1 DEF IInv, TypeOK, SoundScript
<1>3. SoleOwner'  BY <1>1 DEF IInv, SoleOwner
<1>4. OwnsAllItNeeds'  BY <1>1 DEF IInv, OwnsAllItNeeds
<1>5. NothingLost'  BY <1>1, NullAssumption DEF IInv, NothingLost, TypeOK
<1>6. Progress'
  <2>1. Before(backend, 1) = {}  BY DEF Before
  <2> QED BY <1>1, <2>1 DEF IInv, Progress
<1> QED BY <1>2, <1>3, <1>4, <1>5, <1>6 DEF IInv

\* A step acquires; the last one hands the state to the Result.
LEMMA AdvanceStep == IInv /\ Advance => IInv'
<1> SUFFICES ASSUME IInv, Advance PROVE IInv'  OBVIOUS
<1> USE DEF Advance
<1> DEFINE size == Len(Script(backend))
<1>1. /\ TypeOK /\ next > 0
      /\ size \in Nat /\ next \in 1 .. size
      /\ SoundStep(backend, next) /\ making \in Address
  BY HereFacts DEF IInv
<1>2. /\ held[making] = Before(backend, next)
      /\ plans["Result"] = NoObject
      /\ Owners(making) = {}
  BY <1>1 DEF IInv, Progress, SoleOwner
<1>3. /\ held' \in [Address -> SUBSET Resource]
      /\ \A a \in Address : held'[a] \subseteq DestroyFrees(backend)
      /\ \A a \in Address \ {making} : held'[a] = held[a]
      /\ Before(backend, next) \subseteq held'[making]
      /\ held'[making] \subseteq Before(backend, next + 1)
  <2>1. Here.gets \subseteq DestroyFrees(backend)
    BY <1>1 DEF SoundStep, Here
  <2>2. DestroyFrees(backend) \subseteq Resource
    BY <1>1, ScriptFacts DEF TypeOK
  <2>3. Before(backend, next + 1) = Before(backend, next) \cup Here.gets
    BY <1>1 DEF Before, Here
  <2> QED BY <1>1, <1>2, <2>1, <2>2, <2>3 DEF IInv, TypeOK, Progress
<1>4. \/ Before(backend, next + 1) = held'[making]
      \/ /\ backend = "liquid" /\ next = size
         /\ Before(backend, next + 1) \subseteq held'[making] \cup {"filters"}
  <2>1. Before(backend, next + 1) = Before(backend, next) \cup Here.gets
    BY <1>1 DEF Before, Here
  <2>2. CASE held' = [held EXCEPT ![making] = @ \cup Here.gets]
    BY <1>1, <1>2, <2>1, <2>2 DEF TypeOK
  <2>3. CASE Here.fails = {} /\ UNCHANGED held
    <3>1. /\ backend = "liquid" /\ next = size /\ Here.gets = {"filters"}
      BY <1>1, <2>3 DEF SoundStep, Here
    <3> QED BY <1>2, <2>1, <2>3, <3>1
  <2> QED BY <2>2, <2>3
<1>5. CASE next = size
  <2>1. /\ plans' = [plans EXCEPT !["Result"] = Owning(making)]
        /\ next' = 0 /\ making' = Null
        /\ UNCHANGED <<backend, threw>>
    BY <1>5 DEF IsLast
  <2>2. "Result" \in Places  BY DEF Places
  <2>3. \A a \in Address :
           Owners(a)' = IF a = making THEN {"Result"} ELSE Owners(a)
    BY <1>1, <1>2, <2>1, <2>2, Pointers DEF Owners, TypeOK
  <2>4. Before(backend, next + 1) = Needed(backend)
    BY <1>1, <1>5 DEF Before, Needed
  <2>5. TypeOK'
    <3>1. Owning(making) \in Pointer  BY <1>1 DEF Pointer
    <3>2. plans' \in [Places -> Pointer]  BY <1>1, <2>1, <3>1, PlansPoint
    <3> QED BY <1>1, <1>3, <2>1, <3>2 DEF TypeOK, Pointer
  <2>6. SoleOwner'
    BY <2>1, <2>3, NullAssumption DEF IInv, SoleOwner
  <2>7. OwnsAllItNeeds'
    <3> SUFFICES ASSUME NEW a \in Address, Owners(a)' # {}
                 PROVE  Needed(backend) \ held'[a] \subseteq
                           (IF backend = "liquid" THEN {"filters"} ELSE {})
      BY <2>1 DEF OwnsAllItNeeds
    <3>1. CASE a = making  BY <1>4, <2>4, <3>1
    <3>2. CASE a # making
      BY <1>3, <2>3, <3>2 DEF IInv, OwnsAllItNeeds
    <3> QED BY <3>1, <3>2
  <2>8. NothingLost'
    BY <1>3, <2>1, <2>3 DEF IInv, NothingLost
  <2>9. Progress'  BY <1>3, <2>1 DEF Progress
  <2> QED BY <2>5, <2>6, <2>7, <2>8, <2>9 DEF IInv
<1>6. CASE next # size
  <2>1. /\ next' = next + 1 /\ next' \in 1 .. size
        /\ UNCHANGED <<backend, threw, plans, making>>
    BY <1>1, <1>6 DEF IsLast
  <2>2. \A a : Owners(a)' = Owners(a)  BY <2>1 DEF Owners
  <2>3. TypeOK'  BY <1>1, <1>3, <2>1 DEF TypeOK
  <2>4. SoleOwner'  BY <2>1, <2>2 DEF IInv, SoleOwner
  <2>5. OwnsAllItNeeds'
    <3>1. \A a \in Address : held[a] \subseteq held'[a]
      BY <1>2, <1>3
    <3> QED BY <2>1, <2>2, <3>1 DEF IInv, OwnsAllItNeeds
  <2>6. NothingLost'  BY <1>3, <2>1, <2>2 DEF IInv, NothingLost
  <2>7. Progress'  BY <1>2, <1>3, <1>4, <1>6, <2>1 DEF Progress
  <2> QED BY <2>3, <2>4, <2>5, <2>6, <2>7 DEF IInv
<1> QED BY <1>5, <1>6

\* A create that fails gives back what it held, or is left by an exception.
LEMMA FailStep == IInv /\ Fail => IInv'
<1> SUFFICES ASSUME IInv, Fail PROVE IInv'  OBVIOUS
<1> USE DEF Fail
<1>1. /\ TypeOK /\ next \in 1 .. Len(Script(backend))
      /\ SoundStep(backend, next) /\ making \in Address
      /\ Len(Script(backend)) \in Nat
  BY HereFacts DEF IInv
<1>2. held[making] = Before(backend, next) /\ Owners(making) = {}
  BY <1>1 DEF IInv, Progress, SoleOwner
<1>3. /\ held' \in [Address -> SUBSET Resource]
      /\ held'[making] = Before(backend, next) \ Here.frees
      /\ \A a \in Address \ {making} : held'[a] = held[a]
      /\ \A a \in Address : held'[a] \subseteq held[a]
  BY <1>1, <1>2 DEF TypeOK
<1>4. \/ held'[making] = {}
      \/ making \in threw' /\ backend \notin Unwinding
  BY <1>1, <1>3 DEF SoundStep, Before, Here
<1>5. \A a : Owners(a)' = Owners(a)  BY DEF Owners
<1>6. TypeOK'  BY <1>1, <1>3 DEF TypeOK
<1>7. SoleOwner'  BY <1>5, NullAssumption DEF IInv, SoleOwner
<1>8. OwnsAllItNeeds'  BY <1>2, <1>3, <1>5 DEF IInv, OwnsAllItNeeds
<1>9. NothingLost'
  BY <1>3, <1>4, <1>5 DEF IInv, NothingLost, Unwinding
<1>10. Progress'  BY <1>3 DEF IInv, Progress
<1> QED BY <1>6, <1>7, <1>8, <1>9, <1>10 DEF IInv

\* Destroying a state gives back all of it and touches no other.
LEMMA DroppedFacts ==
    ASSUME IInv, NEW d \in Address \cup {Null}
    PROVE  /\ Dropped(d) \in [Address -> SUBSET Resource]
           /\ d \in Address => Dropped(d)[d] = {}
           /\ \A a \in Address \ {d} : Dropped(d)[a] = held[a]
BY NullAssumption DEF Dropped, IInv, TypeOK, Progress

\* Outside of create() a step may pass a state on or destroy it: each is as it
\* was, with one owner if it had one, or gone together with its owner.
LEMMA PassOn ==
    ASSUME IInv, next = 0, UNCHANGED <<backend, next, making, threw>>,
           plans' \in [Places -> Pointer],
           held' \in [Address -> SUBSET Resource],
           \A a \in Address :
              \/ held'[a] = {} /\ Owners(a)' = {}
              \/ /\ held'[a] = held[a]
                 /\ Owners(a)' = {} <=> Owners(a) = {}
                 /\ \A p, q \in Owners(a)' : p = q
    PROVE  IInv'
<1>1. TypeOK'  BY DEF IInv, TypeOK, Pointer
<1>2. SoleOwner'
  BY NullAssumption DEF IInv, SoleOwner, TypeOK
<1>3. OwnsAllItNeeds'  BY DEF IInv, OwnsAllItNeeds
<1>4. NothingLost'  BY DEF IInv, NothingLost
<1>5. Progress'  BY DEF IInv, Progress
<1> QED BY <1>1, <1>2, <1>3, <1>4, <1>5 DEF IInv

\* The move constructor passes a state to the new object.
LEMMA MoveStep ==
    ASSUME IInv, NEW src \in Places, NEW dst \in Places, Move(src, dst)
    PROVE  IInv'
<1> USE DEF Move
<1>1. TypeOK /\ plans \in [Places -> Pointer]  BY PlansPoint DEF IInv
<1>2. PICK s \in Address \cup {Null} : plans[src] = Owning(s)
  BY <1>1, PlanOwns
<1>3. src # dst  OBVIOUS
<1>4. plans' \in [Places -> Pointer]
  <2>1. Owning(Null) \in Pointer  BY DEF Pointer
  <2> QED BY <1>1, <2>1
<1>5. \A p \in Places :
         plans'[p] = IF p = src THEN Owning(Null)
                     ELSE IF p = dst THEN Owning(s) ELSE plans[p]
  BY <1>1, <1>2, <1>3
<1>6. \A a \in Address :
         /\ a = s => Owners(a)' = {dst} /\ src \in Owners(a)
         /\ a # s => Owners(a)' = Owners(a)
  <2> SUFFICES ASSUME NEW a \in Address
               PROVE  /\ a = s => Owners(a)' = {dst} /\ src \in Owners(a)
                      /\ a # s => Owners(a)' = Owners(a)
    OBVIOUS
  <2>1. Owning(a) # Owning(Null)  BY Pointers, NullAssumption
  <2>2. CASE a = s
    <3>1. src \in Owners(a)  BY <1>2, <2>2 DEF Owners
    <3>2. Owners(a) = {src}  BY <3>1 DEF IInv, SoleOwner
    <3>3. Owners(a)' = {dst}
      <4>1. \A p \in Places \ {src} : plans[p] # Owning(a)
        BY <3>2 DEF Owners
      <4>2. \A p \in Places : plans'[p] = Owning(a) <=> p = dst
        BY <1>3, <1>5, <2>1, <2>2, <4>1
      <4> QED BY <4>2 DEF Owners, Places
    <3> QED BY <2>2, <3>1, <3>3
  <2>3. CASE a # s
    <3>1. Owning(a) # Owning(s)  BY <2>3, Pointers
    <3>2. src \notin Owners(a)  BY <1>2, <3>1 DEF Owners
    <3>3. dst \notin Owners(a)  BY Pointers DEF Owners
    <3> QED BY <1>5, <2>1, <2>3, <3>1, <3>2, <3>3 DEF Owners, Places
  <2> QED BY <2>2, <2>3
<1>7. \A a \in Address : \A p, q \in Owners(a)' : p = q
  BY <1>6 DEF IInv, SoleOwner
<1>8. held' \in [Address -> SUBSET Resource]  BY <1>1 DEF TypeOK
<1> QED BY <1>4, <1>6, <1>7, <1>8, PassOn

\* The move assignment destroys what the target owned and passes on the rest.
LEMMA MoveAssignStep ==
    ASSUME IInv, NEW src \in Places, NEW dst \in Places, MoveAssign(src, dst)
    PROVE  IInv'
<1> USE DEF MoveAssign
<1>1. TypeOK /\ plans \in [Places -> Pointer]  BY PlansPoint DEF IInv
<1>2. CASE src = dst
  <2>1. \A a : Owners(a)' = Owners(a)  BY <1>2 DEF Owners
  <2>2. \A a \in Address : \A p, q \in Owners(a)' : p = q
    BY <2>1 DEF IInv, SoleOwner
  <2>3. held' = held /\ plans' = plans  BY <1>2
  <2> QED BY <1>1, <2>1, <2>2, <2>3, PassOn DEF TypeOK
<1>3. CASE src # dst
  <2>1. PICK s \in Address \cup {Null} : plans[src] = Owning(s)
    BY <1>1, PlanOwns
  <2>2. PICK d \in Address \cup {Null} :
           plans[dst] = Owning(d) /\ plans[dst].state = d
    BY <1>1, PlanOwns
  <2>3. held' = Dropped(d)  BY <1>3, <2>2
  <2>4. plans' \in [Places -> Pointer]
    <3>1. Owning(Null) \in Pointer  BY DEF Pointer
    <3> QED BY <1>1, <1>3, <3>1
  <2>5. \A p \in Places :
           plans'[p] = IF p = src THEN Owning(Null)
                       ELSE IF p = dst THEN Owning(s) ELSE plans[p]
    BY <1>1, <1>3, <2>1
  <2>6. \A a \in Address :
           \/ held'[a] = {} /\ Owners(a)' = {}
           \/ /\ held'[a] = held[a]
              /\ Owners(a)' = {} <=> Owners(a) = {}
              /\ \A p, q \in Owners(a)' : p = q
    <3> SUFFICES ASSUME NEW a \in Address
                 PROVE  \/ held'[a] = {} /\ Owners(a)' = {}
                        \/ /\ held'[a] = held[a]
                           /\ Owners(a)' = {} <=> Owners(a) = {}
                           /\ \A p, q \in Owners(a)' : p = q
      OBVIOUS
    <3>1. Owning(a) # Owning(Null)  BY Pointers, NullAssumption
    <3>2. CASE a = s
      <4>1. src \in Owners(a)  BY <2>1, <3>2 DEF Owners
      <4>2. Owners(a) = {src}  BY <4>1 DEF IInv, SoleOwner
      <4>3. a # d  BY <1>3, <2>2, <4>2 DEF Owners
      <4>4. Owners(a)' = {dst}
        <5>1. \A p \in Places \ {src, dst} : plans[p] # Owning(a)
          BY <4>2 DEF Owners
        <5>2. \A p \in Places : plans'[p] = Owning(a) <=> p = dst
          BY <1>3, <2>5, <3>1, <3>2, <5>1
        <5> QED BY <5>2 DEF Owners, Places
      <4> QED BY <2>3, <4>1, <4>3, <4>4, DroppedFacts
    <3>3. CASE a # s /\ a = d
      <4>1. dst \in Owners(a)  BY <2>2, <3>3 DEF Owners
      <4>2. Owners(a) = {dst}  BY <4>1 DEF IInv, SoleOwner
      <4>3. Owning(a) # Owning(s)  BY <3>3, Pointers
      <4>4. Owners(a)' = {}
        <5>1. \A p \in Places \ {dst} : plans[p] # Owning(a)
          BY <4>2 DEF Owners
        <5>2. \A p \in Places : plans'[p] # Owning(a)
          BY <2>5, <3>1, <4>3, <5>1
        <5> QED BY <5>2 DEF Owners, Places
      <4> QED BY <2>3, <3>3, <4>4, DroppedFacts
    <3>4. CASE a # s /\ a # d
      <4>1. Owning(a) # Owning(s) /\ Owning(a) # Owning(d)
        BY <3>4, Pointers
      <4>2. src \notin Owners(a) /\ dst \notin Owners(a)
        BY <2>1, <2>2, <4>1 DEF Owners
      <4>3. Owners(a)' = Owners(a)
        BY <2>5, <3>1, <4>1, <4>2 DEF Owners, Places
      <4>4. held'[a] = held[a]  BY <2>3, <3>4, DroppedFacts
      <4> QED BY <4>3, <4>4 DEF IInv, SoleOwner
    <3> QED BY <3>2, <3>3, <3>4
  <2>7. held' \in [Address -> SUBSET Resource]  BY <2>3, DroppedFacts
  <2> QED BY <2>4, <2>6, <2>7, PassOn
<1> QED BY <1>2, <1>3

\* The destructor destroys what the object owned.
LEMMA DestroyStep ==
    ASSUME IInv, NEW p \in Places, Destroy(p)
    PROVE  IInv'
<1> USE DEF Destroy
<1>1. TypeOK /\ plans \in [Places -> Pointer]  BY PlansPoint DEF IInv
<1>2. PICK d \in Address \cup {Null} :
         plans[p] = Owning(d) /\ plans[p].state = d
  BY <1>1, PlanOwns
<1>3. held' = Dropped(d)  BY <1>2
<1>4. plans' \in [Places -> Pointer]
  <2>1. NoObject \in Pointer  BY DEF Pointer
  <2> QED BY <1>1, <2>1
<1>5. \A q \in Places : plans'[q] = IF q = p THEN NoObject ELSE plans[q]
  BY <1>1
<1>6. \A a \in Address :
         \/ held'[a] = {} /\ Owners(a)' = {}
         \/ /\ held'[a] = held[a]
            /\ Owners(a)' = {} <=> Owners(a) = {}
            /\ \A q, r \in Owners(a)' : q = r
  <2> SUFFICES ASSUME NEW a \in Address
               PROVE  \/ held'[a] = {} /\ Owners(a)' = {}
                      \/ /\ held'[a] = held[a]
                         /\ Owners(a)' = {} <=> Owners(a) = {}
                         /\ \A q, r \in Owners(a)' : q = r
    OBVIOUS
  <2>1. Owning(a) # NoObject  BY Pointers
  <2>2. CASE a = d
    <3>1. p \in Owners(a)  BY <1>2, <2>2 DEF Owners
    <3>2. Owners(a) = {p}  BY <3>1 DEF IInv, SoleOwner
    <3>3. Owners(a)' = {}  BY <1>5, <2>1, <3>2 DEF Owners, Places
    <3> QED BY <1>3, <2>2, <3>3, DroppedFacts
  <2>3. CASE a # d
    <3>1. Owning(a) # Owning(d)  BY <2>3, Pointers
    <3>2. p \notin Owners(a)  BY <1>2, <3>1 DEF Owners
    <3>3. Owners(a)' = Owners(a)
      BY <1>5, <2>1, <3>2 DEF Owners, Places
    <3>4. held'[a] = held[a]  BY <1>3, <2>3, DroppedFacts
    <3> QED BY <3>3, <3>4 DEF IInv, SoleOwner
  <2> QED BY <2>2, <2>3
<1>7. held' \in [Address -> SUBSET Resource]  BY <1>3, DroppedFacts
<1> QED BY <1>4, <1>6, <1>7, PassOn

LEMMA StutterStep == IInv /\ UNCHANGED vars => IInv'
BY DEF IInv, TypeOK, SoleOwner, OwnsAllItNeeds, NothingLost, Progress, Owners,
       vars

LEMMA NextInv == IInv /\ [Next]_vars => IInv'
BY CreateStep, AdvanceStep, FailStep, MoveStep, MoveAssignStep, DestroyStep,
   StutterStep DEF Next

\* In every reachable state the inductive invariant holds.
LEMMA Invariance == Spec => []IInv
BY InitInv, NextInv, PTL DEF Spec

-----------------------------------------------------------------------------
(* What the run checks with two places and three creates, for any number.  *)

\* Type correctness: create() stays within the steps of its backend.
THEOREM TypeCorrect == Spec => []TypeOK
<1>1. IInv => TypeOK  BY DEF IInv
<1> QED BY Invariance, <1>1, PTL

\* However plans are moved, assigned and destroyed, no two of them own the same
\* backend state and none owns one that create() still works on.
THEOREM OwnershipCorrect == Spec => []SoleOwner
<1>1. IInv => SoleOwner  BY DEF IInv
<1> QED BY Invariance, <1>1, PTL

\* Every plan create() returns has all its backend needs to execute, and keeps
\* it: only liquid's filters may be missing.
THEOREM PlansAreWhole == Spec => []OwnsAllItNeeds
<1>1. IInv => OwnsAllItNeeds  BY DEF IInv
<1> QED BY Invariance, <1>1, PTL

\* Every way out of every make_backend_plan() gives back what was acquired, the
\* exceptions through the backends that do not unwind excepted, and so do the
\* moves and the destructor.
THEOREM NothingIsLost == Spec => []NothingLost
<1>1. IInv => NothingLost  BY DEF IInv
<1> QED BY Invariance, <1>1, PTL

=============================================================================
