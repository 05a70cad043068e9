--------------------------- MODULE PlanOwnership ---------------------------
(***************************************************************************)
(* Who owns a backend's state.  make_backend_plan() acquires it piece by   *)
(* piece, and every piece may fail; the facade wraps what it gets into a   *)
(* plan, the plan is moved out of its Result and between variables, and    *)
(* destroyed.  The state travels as a bare void* until the facade takes    *)
(* it, so each way out of a backend has to give back what is held by then. *)
(***************************************************************************)
EXTENDS Naturals, Sequences

CONSTANTS
    Backends,   \* the backends a build may select; one is compiled in
    Place,      \* where the program keeps plan objects, besides the Result
    Address,    \* what a create calls its acquisitions by; bounds the creates
    Null        \* the null pointer

ASSUME BackendsAssumption ==
    Backends \subseteq {"pocketfft", "mkl", "aocl", "armpl", "cmsis_fft", "fftw",
                        "kfr_fft", "ipp", "cmsis_fir", "portable", "liquid",
                        "kfr_fir"}
ASSUME NullAssumption == Null \notin Address

-----------------------------------------------------------------------------
(* The ways through make_backend_plan(), one entry per step that can fail: *)
(* what the step acquires, which statuses it fails with, and what the      *)
(* failure path gives back.  "bad_alloc" leaves by exception, and a step   *)
(* that fails with no status goes unnoticed.                               *)

Step(gets, fails, frees) == [gets |-> gets, fails |-> fails, frees |-> frees]

Check(statuses)      == Step({}, statuses, {})
Allocate(what)       == Step({what}, {"bad_alloc"}, {})
Library(what, frees) == Step(what, {"BackendError"}, frees)

\* invalid_common() and the switch on type and direction.
BadConfig == {"InvalidArgument", "UnsupportedConfig"}

Pocketfft ==
    <<Check(BadConfig), Allocate("state"), Allocate("members"),
      Step({}, {"bad_alloc"}, {}),              \* the warm-up buffers
      Library({}, {"state", "members"})>>       \* the warm-up transform

\* Mutant: the descriptor survives a DftiSetValue that fails.
MklKeepsDescriptor ==
    <<Check(BadConfig), Library({"descriptor"}, {}), Library({}, {}),
      Allocate("state")>>

Mkl ==
    <<Check(BadConfig), Library({"descriptor"}, {}),
      Library({}, {"descriptor"}),              \* DftiSetValue, Commit
      Allocate("state")>>

\* Mutant: the handle aoclfftz_setup() returns is not looked at.
AoclUnchecked ==
    <<Check(BadConfig), Allocate("state"), Allocate("members"),
      Step({"handle"}, {}, {})>>

Aocl ==
    <<Check(BadConfig \cup {"UnsupportedLength"}),
      Allocate("state"), Allocate("members"),
      Library({"handle"}, {"state", "members"})>>

\* Both buffers are asked for before either is looked at; the destructor gives
\* back what was got.
Armpl ==
    <<Check(BadConfig), Allocate("state"),
      Library({"in"}, {"state"}), Library({"out"}, {"state", "in"}),
      Library({"plan"}, {"state", "in", "out"})>>

\* The same with FFTW's planner; only the state can throw here too.
Fftw ==
    <<Check(BadConfig), Allocate("state"),
      Library({"in"}, {"state"}), Library({"out"}, {"state", "in"}),
      Library({"plan"}, {"state", "in", "out"})>>

\* KFR's plan and its scratch are made in a constructor.
KfrFft ==
    <<Check(BadConfig), Allocate("state"),
      Step({"plan"}, {"bad_alloc"}, {"state"}),
      Step({"members"}, {"bad_alloc"}, {"state", "plan"})>>

\* The vectors are sized before the status of the init is looked at.
CmsisFft ==
    <<Check(BadConfig \cup {"UnsupportedLength"}),
      Allocate("state"), Allocate("members"),
      Step({}, {"UnsupportedLength"}, {"state", "members"})>>

\* What map_status() makes of a library error.
IppError == {"NullPointer", "InvalidArgument", "UnsupportedConfig", "BackendError"}

Ipp ==
    <<Check(BadConfig), Check(IppError),        \* ippsFIRSRGetSize
      Allocate("state"), Allocate("members"),
      Step({}, IppError, {"state", "members"})>>

CmsisFir ==
    <<Check(BadConfig), Allocate("state"), Allocate("members")>>

\* The vectors are sized in a constructor: an exception there frees the state.
Portable ==
    <<Check(BadConfig), Allocate("state"),
      Step({"members"}, {"bad_alloc"}, {"state"})>>

\* Nobody looks at what firfilt_create() returns.
Liquid ==
    <<Check(BadConfig), Allocate("state"),
      Step({"members"}, {"bad_alloc"}, {"state"}),
      Step({"filters"}, {}, {})>>

\* One make_unique per channel in the constructor, and the vector that holds
\* them: an exception at the second channel frees the filter of the first.
KfrFir ==
    <<Check(BadConfig), Allocate("state"),
      Step({"members"}, {"bad_alloc"}, {"state"}),
      Step({"filters"}, {"bad_alloc"}, {"state", "members"}),
      Step({"filters"}, {"bad_alloc"}, {"state", "members", "filters"})>>

Script(backend) ==
    CASE backend = "pocketfft" -> Pocketfft
      [] backend = "mkl"       -> Mkl
      [] backend = "aocl"      -> Aocl
      [] backend = "armpl"     -> Armpl
      [] backend = "cmsis_fft" -> CmsisFft
      [] backend = "ipp"       -> Ipp
      [] backend = "cmsis_fir" -> CmsisFir
      [] backend = "portable"  -> Portable
      [] backend = "liquid"    -> Liquid
      [] backend = "fftw"      -> Fftw
      [] backend = "kfr_fft"   -> KfrFft
      [] backend = "kfr_fir"   -> KfrFir

\* What a backend's destroy function frees: the state, its vectors and what
\* its destructor (or the loop over the filters) gives back to the library.
DestroyFrees(backend) ==
    CASE backend = "mkl"     -> {"state", "descriptor"}
      [] backend = "aocl"    -> {"state", "members", "handle"}
      [] backend = "kfr_fft" -> {"state", "members", "plan"}
      [] backend \in {"armpl", "fftw"}     -> {"state", "in", "out", "plan"}
      [] backend \in {"liquid", "kfr_fir"} -> {"state", "members", "filters"}
      [] backend \in {"pocketfft", "cmsis_fft", "ipp", "cmsis_fir", "portable"} ->
            {"state", "members"}

\* What a plan of the backend needs to execute.
Needed(backend) ==
    UNION {Script(backend)[n].gets : n \in 1 .. Len(Script(backend))}

-----------------------------------------------------------------------------
VARIABLES
    backend,    \* the backend of this build
    next,       \* the step create() is at; 0 outside of create()
    making,     \* what the running create calls its acquisitions by
    held,       \* per create, what it has acquired and not given back
    answer,     \* what the last create answered
    threw,      \* history variable: the creates left by an exception
    plans       \* per place: no object, or the pointer the object owns

vars == <<backend, next, making, held, answer, threw, plans>>

Places   == Place \cup {"Result"}
NoObject == [exists |-> FALSE]
Owning(a) == [exists |-> TRUE, state |-> a]

Owners(a) == {p \in Places : plans[p] = Owning(a)}

Init ==
    /\ backend \in Backends
    /\ next = 0 /\ making = Null
    /\ held = [a \in Address |-> {}]
    /\ answer = "none"
    /\ threw = {}
    /\ plans = [p \in Places |-> NoObject]

\* FftPlan::create() or FirPlan::create(), with a place for its Result.
Create ==
    /\ next = 0 /\ plans["Result"] = NoObject
    /\ \E a \in Address : held[a] = {} /\ Owners(a) = {} /\ making' = a
    /\ next' = 1
    /\ threw' = threw \ {making'}
    /\ UNCHANGED <<backend, held, answer, plans>>

Here == Script(backend)[next]

\* Mutant: one step more than the script has.
IsLastUnlessOneMore(n) == n > Len(Script(backend))

IsLast(n) == n = Len(Script(backend))

\* The step went through, or failed and nobody looked.
Advance ==
    /\ next > 0
    /\ \/ held' = [held EXCEPT ![making] = @ \cup Here.gets]
       \/ Here.fails = {} /\ UNCHANGED held
    /\ IF IsLast(next)
       THEN /\ plans' = [plans EXCEPT !["Result"] = Owning(making)]
            /\ answer' = "Ok" /\ next' = 0 /\ making' = Null
       ELSE next' = next + 1 /\ UNCHANGED <<plans, answer, making>>
    /\ UNCHANGED <<backend, threw>>

\* The step fails and create() is over.
Fail ==
    /\ next > 0 /\ next' = 0 /\ making' = Null
    /\ answer' \in Here.fails
    /\ held' = [held EXCEPT ![making] = @ \ Here.frees]
    /\ threw' = IF answer' = "bad_alloc" THEN threw \cup {making} ELSE threw
    /\ UNCHANGED <<backend, plans>>

\* destroy_(state): what unique_ptr does with a pointer it drops.
Dropped(a) ==
    IF a = Null THEN held
    ELSE [held EXCEPT ![a] = @ \ DestroyFrees(backend)]

\* The move constructor, as in Result::release(): the source remains, empty.
Move(src, dst) ==
    /\ next = 0 /\ plans[src].exists /\ ~plans[dst].exists
    /\ plans' = [plans EXCEPT ![dst] = plans[src], ![src] = Owning(Null)]
    /\ UNCHANGED <<backend, next, making, held, answer, threw>>

\* Mutant: the source keeps its pointer.
MoveAssignCopies(src, dst) ==
    /\ next = 0 /\ plans[src].exists /\ plans[dst].exists
    /\ held' = IF src = dst THEN held ELSE Dropped(plans[dst].state)
    /\ plans' = [plans EXCEPT ![dst] = plans[src]]
    /\ UNCHANGED <<backend, next, making, answer, threw>>

\* The move assignment: the target's state is destroyed, unless the target is
\* the source.
MoveAssign(src, dst) ==
    /\ next = 0 /\ plans[src].exists /\ plans[dst].exists
    /\ held' = IF src = dst THEN held ELSE Dropped(plans[dst].state)
    /\ plans' = IF src = dst THEN plans
                ELSE [plans EXCEPT ![dst] = plans[src], ![src] = Owning(Null)]
    /\ UNCHANGED <<backend, next, making, answer, threw>>

\* A plan object goes out of scope.
Destroy(p) ==
    /\ next = 0 /\ plans[p].exists
    /\ held' = Dropped(plans[p].state)
    /\ plans' = [plans EXCEPT ![p] = NoObject]
    /\ UNCHANGED <<backend, next, making, answer, threw>>

Next ==
    \/ Create \/ Advance \/ Fail
    \/ \E src, dst \in Places : Move(src, dst) \/ MoveAssign(src, dst)
    \/ \E p \in Places : Destroy(p)

Spec == Init /\ [][Next]_vars

-----------------------------------------------------------------------------
Resource == {"state", "members", "descriptor", "handle", "in", "out", "plan",
             "filters"}

\* Every variable keeps its shape; create() stands at a step of its script.
TypeOK ==
    /\ backend \in Backends
    /\ next \in 0 .. Len(Script(backend))
    /\ making \in (IF next = 0 THEN {Null} ELSE Address)
    /\ held \in [Address -> SUBSET Resource]
    /\ threw \subseteq Address
    /\ plans \in [Places -> {NoObject} \cup {Owning(a) : a \in Address \cup {Null}}]

\* Whatever way plans are moved, a state has one owner at most, and none while
\* its create still runs: nothing is destroyed twice or under a plan's feet.
SoleOwner ==
    \A a \in Address : \A p, q \in Owners(a) : p = q /\ a # making

\* A plan that owns a state owns all of it: create() returns no half-made plan
\* and nothing is taken from it later.  liquid's filters are the exception:
\* firfilt_create() may have returned null.
OwnsAllItNeeds ==
    \A a \in Address : Owners(a) # {} =>
        Needed(backend) \ held[a] \subseteq
            (IF backend = "liquid" THEN {"filters"} ELSE {})

\* What is held belongs to a plan or to the create that runs.  A create that
\* fails by a status has given everything back; one that is left by an
\* exception loses what it held, except where a constructor unwinds or, in
\* ArmPL and FFTW, the state is the only thing that can throw.
NothingLost ==
    \A a \in Address : held[a] # {} =>
        \/ Owners(a) # {}
        \/ a = making
        \/ a \in threw /\ backend \notin
              {"portable", "liquid", "armpl", "fftw", "kfr_fft", "kfr_fir"}

=============================================================================
