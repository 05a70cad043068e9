------------------------------ MODULE FftPlans ------------------------------
(***************************************************************************)
(* The FFT plans of the five backends and of bench/'s FFTW and KFR, from   *)
(* make_backend_plan() to execute(): which configurations are accepted,    *)
(* the numbers handed to the library, who applies the 1/N, and what        *)
(* becomes of the caller's buffers.                                        *)
(*                                                                         *)
(* A cell of a buffer is not a number: it says of which transform of the   *)
(* batch it is which sample or bin, and how many factors of N it carries   *)
(* too many.  A library handed the wrong length, distance or alias yields  *)
(* cells that say so.                                                      *)
(***************************************************************************)
EXTENDS Integers

CONSTANTS
    Backends,  \* the backends a build may select; one is compiled in
    Lengths,   \* FftPlanConfig.length
    Batches,   \* FftPlanConfig.batch
    IntSize,   \* 2^w for the width w of the int some libraries take
    CmsisMax,  \* largest value of CMSIS's uint16_t length
    InPlace,   \* the backends the program passes one buffer for both
    Memory     \* elements of each of the program's buffers

ASSUME LengthsAssumption == Lengths \subseteq Nat /\ Batches \subseteq Nat
ASSUME IntSizeAssumption == IntSize \in Nat \ {0} /\ CmsisMax \in Nat
ASSUME InPlaceAssumption == InPlace \subseteq Backends

\* The program's buffers are large enough for its plans.
ASSUME MemoryAssumption ==
    Memory \in Nat /\ \A n \in Lengths, m \in Batches : n * m <= Memory

Type   == {"Complex", "RealToComplex", "ComplexToReal"}
Config == [type : Type, direction : {"Forward", "Inverse"},
           precision : {"F32", "F64"}, length : Lengths, batch : Batches]

VARIABLES
    backend,   \* FFT_BACKEND
    status,    \* what the last create() or execute() returned
    plans,     \* the program's plans: one forward, one inverse
    memory,    \* the program's two buffers
    holds      \* history variable: what each buffer holds by the contract

vars == <<backend, status, plans, memory, holds>>

Largest(S) == CHOOSE m \in S : \A n \in S : n <= m

Offset == 0 .. Memory - 1
Name   == {"a", "b"}
Cell(domain, of, index, gain) ==
    [domain |-> domain, of |-> of, index |-> index, gain |-> gain]
Garbage == Cell("none", 0, 0, 0)

NoPlan == [exists |-> FALSE]

real_complex_bins(length) == length \div 2 + 1

-----------------------------------------------------------------------------
(* make_backend_plan().                                                    *)

\* A direction that contradicts the type; every backend has the same test.
Contradictory(cfg) ==
    cfg.type = "RealToComplex" /\ cfg.direction = "Inverse"

Inverse(cfg) ==
    \/ cfg.type = "ComplexToReal"
    \/ cfg.type = "Complex" /\ cfg.direction = "Inverse"

\* aocl_real_length_supported(): nothing is left once the factors 2, 3, 5
\* and 7 are divided out.
Smooth(n) ==
    \A d \in 2 .. n : n % d = 0 => \E p \in {2, 3, 5, 7} : d % p = 0

\* Doubles with CMSIS; of bench/'s backends, real transforms, and doubles with
\* FFTW.
NotOffered(cfg) ==
    \/ backend = "cmsis" /\ cfg.precision = "F64"
    \/ backend \in {"fftw", "kfr"} /\ cfg.type # "Complex"
    \/ backend = "fftw" /\ cfg.precision = "F64"

\* Mutant: CMSIS's length is not checked before it is cast.
RejectsNoLimit(cfg) ==
    IF cfg.length = 0 \/ cfg.batch = 0 THEN "InvalidArgument"
    ELSE IF NotOffered(cfg) THEN "UnsupportedConfig"
    ELSE IF Contradictory(cfg) THEN "InvalidArgument"
    ELSE "Ok"

\* The checks before a library is asked, in each backend's order.
Rejects(cfg) ==
    IF cfg.length = 0 \/ cfg.batch = 0 THEN "InvalidArgument"
    ELSE IF NotOffered(cfg) THEN "UnsupportedConfig"
    ELSE IF Contradictory(cfg) THEN "InvalidArgument"
    ELSE IF \/ backend = "cmsis" /\ cfg.length > CmsisMax
            \/ backend = "aocl" /\ cfg.type # "Complex" /\ ~Smooth(cfg.length)
         THEN "UnsupportedLength"
    ELSE "Ok"

\* The libraries that take an int.
TakesInt == {"armpl", "aocl", "fftw"}

\* static_cast to a w-bit signed int, and to CMSIS's uint16_t; the other
\* libraries take size_t or a 64-bit MKL_LONG.
Cast(n) ==
    LET low == n % IntSize
    IN  IF backend \in TakesInt
        THEN IF 2 * low < IntSize THEN low ELSE low - IntSize
        ELSE IF backend = "cmsis" THEN n % (CmsisMax + 1) ELSE n

\* Elements of one transform on its input and output side.
InLength(cfg) ==
    IF cfg.type = "ComplexToReal" THEN real_complex_bins(cfg.length) ELSE cfg.length

OutLength(cfg) ==
    IF cfg.type = "RealToComplex" THEN real_complex_bins(cfg.length) ELSE cfg.length

\* What the library is told: the length, the batch, the distances.
PlanOf(cfg) ==
    [exists  |-> TRUE,
     cfg     |-> cfg,
     inverse |-> Inverse(cfg),
     n       |-> Cast(cfg.length),
     howmany |-> IF backend = "cmsis" THEN cfg.batch ELSE Cast(cfg.batch),
     idist   |-> Cast(InLength(cfg)),
     odist   |-> Cast(OutLength(cfg))]

\* The libraries refuse lengths and batches that are not positive; CMSIS
\* knows powers of two only.
LibraryCanPlan(plan) ==
    /\ plan.n > 0 /\ plan.howmany > 0
    /\ backend = "cmsis" => \E i \in 1 .. CmsisMax : plan.n = 2 ^ i

-----------------------------------------------------------------------------
(* execute().                                                              *)

\* The libraries that take in- and output of a complex transform to be two
\* buffers: DFTI_NOT_INPLACE, fft_placement, the plan's own in and out.
OutOfPlaceOnly == {"mkl", "aocl", "armpl", "fftw"}

\* The libraries that leave the factor N in an inverse transform.
Unscaled == {"armpl", "aocl", "fftw", "kfr"}

\* Transform `of` of the batch as the library finds it at src: the cells
\* 0 .. len - 1 of one transform, all carrying the same factors.
Read(src, from, len, domain) ==
    IF /\ from .. from + len - 1 \subseteq Offset
       /\ \A j \in 0 .. len - 1 :
             src[from + j] = Cell(domain, src[from].of, j, src[from].gain)
    THEN src[from] ELSE Garbage

\* The factors of N an unscaled transform leaves: none forward, one inverse.
\* DFTI_BACKWARD_SCALE, pocketfft's fct and CMSIS take it away again.
Gain(plan) == IF plan.inverse /\ backend \in Unscaled THEN 1 ELSE 0

\* Float f of interleaved bins: its bin, and 0 for the real part or 1 for the
\* imaginary part.  arm_rfft_fast_f32 has the real parts of DC and Nyquist,
\* which have no imaginary part, share the first bin of its n floats.
Part(f) == <<f \div 2, f % 2>>
PackedPart(n, f) == IF f = 1 THEN <<n \div 2, 0>> ELSE Part(f)

\* CMSIS packed -> public bins: the float copied to float f, and the floats
\* that are zeroed instead.
UnpackedFrom(n, f) == IF f = 2 * (n \div 2) THEN 1 ELSE f
Zeroed(n) == {1, 2 * (n \div 2) + 1}

\* Mutant: the floats are copied as they stand.
PackedAsTheyStand(n, f) == f

\* Public bins -> CMSIS packed: the float copied to float f.
PackedFrom(n, f) == IF f = 1 THEN 2 * (n \div 2) ELSE f

\* Bin k of CMSIS's spectrum arrives in bin k of the caller's, or the whole of
\* the caller's spectrum in CMSIS's.
Arrives(plan, k) ==
    IF plan.inverse
    THEN \A f \in 0 .. plan.n - 1 :
            Part(PackedFrom(plan.n, f)) = PackedPart(plan.n, f)
    ELSE \A f \in {2 * k, 2 * k + 1} \ Zeroed(plan.n) :
            PackedPart(plan.n, UnpackedFrom(plan.n, f)) = Part(f)

Transform(plan, src, dst) ==
    LET cfg    == plan.cfg
        packed == cfg.type # "Complex"
        bins   == IF packed THEN real_complex_bins(plan.n) ELSE plan.n
        from   == IF plan.inverse THEN "freq" ELSE "time"
        to     == IF plan.inverse THEN "time" ELSE "freq"
        inLen  == IF plan.inverse THEN bins ELSE plan.n
        outLen == IF plan.inverse THEN plan.n ELSE bins
        Owner(o)  == {t \in 0 .. plan.howmany - 1 :
                        o - t * plan.odist \in 0 .. outLen - 1}
        Result(t, k) ==
            LET read == Read(src, t * plan.idist, inLen, from)
            IN  IF \/ read = Garbage
                   \/ backend = "cmsis" /\ packed /\ ~Arrives(plan, k) THEN Garbage
                ELSE Cell(to, read.of, k, read.gain + Gain(plan))
    IN  [o \in Offset |->
            IF Owner(o) = {} THEN dst[o]
            ELSE LET t == Largest(Owner(o)) IN Result(t, o - t * plan.odist)]

\* Mutant: one transform of the batch is normalized, not all of them.
NormalizedFirst(plan) == plan.cfg.length

\* normalize_inverse(): logical elements in the output.
Normalized(plan) == plan.cfg.length * plan.cfg.batch

\* The loop that applies the 1/N to the output, where the library does not.
Normalize(plan, dst) ==
    IF plan.inverse /\ backend \in Unscaled
    THEN [o \in Offset |-> IF o < Normalized(plan) /\ dst[o] # Garbage
                           THEN [dst[o] EXCEPT !.gain = @ - 1] ELSE dst[o]]
    ELSE dst

Junk == [o \in Offset |-> Garbage]

\* The caller's buffers after execute(src, dst).  An out-of-place plan run in
\* place is undefined; an FFTW plan of a complex-to-real transform may use the
\* input as scratch unless told to preserve it.
Executed(plan, src, dst) ==
    LET out  == Normalize(plan, Transform(plan, memory[src], memory[dst]))
        done == [memory EXCEPT ![dst] = out]
    IN  IF src = dst /\ backend \in OutOfPlaceOnly
        THEN {done, [memory EXCEPT ![dst] = Junk]}
        ELSE IF backend = "armpl" /\ plan.cfg.type = "ComplexToReal"
             THEN {done, [done EXCEPT ![src] = Junk]}
             ELSE {done}

-----------------------------------------------------------------------------
(* A program with up to two matching plans and two buffers.                *)

\* By the contract: sample j of transform t stands at t * length + j, bin k
\* at t * bins + k; neither carries a factor.
Contents(cfg, what) ==
    LET len == IF what = "time" \/ cfg.type = "Complex"
               THEN cfg.length ELSE real_complex_bins(cfg.length)
    IN  [o \in 0 .. len * cfg.batch - 1 |-> Cell(what, o \div len, o % len, 0)]

Roles == {"forward", "inverse"}
Role(cfg) == IF Inverse(cfg) THEN "inverse" ELSE "forward"
From(role) == IF role = "forward" THEN "time" ELSE "freq"
To(role)   == IF role = "forward" THEN "freq" ELSE "time"

Init ==
    /\ backend \in Backends
    /\ status = "Ok"
    /\ plans = [role \in Roles |-> NoPlan]
    /\ memory = [n \in Name |-> Junk]
    /\ holds = [n \in Name |-> "nothing"]

\* The two plans transform the same data there and back.
Matches(cfg) ==
    \A role \in Roles : plans[role].exists =>
        LET other == plans[role].cfg
        IN  /\ other.length = cfg.length /\ other.batch = cfg.batch
            /\ (other.type = "Complex") = (cfg.type = "Complex")

\* FftPlan::create(): refused, failed by the library (KFR has no failure but an
\* exception), or committed.
Create(cfg) ==
    /\ ~plans[Role(cfg)].exists /\ Matches(cfg)
    /\ \/ /\ Rejects(cfg) # "Ok"
          /\ status' = Rejects(cfg)
          /\ UNCHANGED plans
       \/ /\ Rejects(cfg) = "Ok" /\ backend # "kfr"
          /\ status' = IF backend = "cmsis" THEN "UnsupportedLength" ELSE "BackendError"
          /\ UNCHANGED plans
       \/ /\ Rejects(cfg) = "Ok" /\ LibraryCanPlan(PlanOf(cfg))
          /\ status' = "Ok"
          /\ plans' = [plans EXCEPT ![Role(cfg)] = PlanOf(cfg)]
    /\ UNCHANGED <<backend, memory, holds>>

\* The program fills a buffer with the input of one of its plans.
Fill(role, name) ==
    /\ plans[role].exists /\ holds[name] # From(role)
    /\ LET contents == Contents(plans[role].cfg, From(role))
       IN  memory' = [memory EXCEPT ![name] =
                [o \in Offset |-> IF o \in DOMAIN contents THEN contents[o]
                                  ELSE Garbage]]
    /\ holds' = [holds EXCEPT ![name] = From(role)]
    /\ UNCHANGED <<backend, status, plans>>

\* Buffers the contract allows: the right contents, and one buffer for both
\* only for complex transforms.
Allowed(role, src, dst) ==
    /\ plans[role].exists /\ holds[src] = From(role)
    /\ src = dst => backend \in InPlace /\ plans[role].cfg.type = "Complex"

Execute(role, src, dst) ==
    /\ Allowed(role, src, dst)
    /\ memory' \in Executed(plans[role], src, dst)
    /\ status' = "Ok"
    /\ holds' = [n \in Name |->
                    IF n = dst THEN To(role)
                    ELSE IF memory'[n] = Junk THEN "nothing" ELSE holds[n]]
    /\ UNCHANGED <<backend, plans>>

\* The library reports a failure, or pocketfft throws: nothing is normalized
\* and the output holds nothing.
ExecuteFails(role, src, dst) ==
    /\ Allowed(role, src, dst) /\ backend \in {"mkl", "aocl", "pocketfft"}
    /\ memory' = [memory EXCEPT ![dst] = Junk]
    /\ status' = "BackendError"
    /\ holds' = [holds EXCEPT ![dst] = "nothing"]
    /\ UNCHANGED <<backend, plans>>

\* A null pointer is refused before the backend is reached.
ExecuteNull ==
    /\ \E role \in Roles : plans[role].exists
    /\ status' = "NullPointer"
    /\ UNCHANGED <<backend, plans, memory, holds>>

Next ==
    \/ \E cfg \in Config : Create(cfg)
    \/ ExecuteNull
    \/ \E role \in Roles :
          \/ \E name \in Name : Fill(role, name)
          \/ \E src, dst \in Name :
                Execute(role, src, dst) \/ ExecuteFails(role, src, dst)

Spec == Init /\ [][Next]_vars

-----------------------------------------------------------------------------
\* Every buffer holds what the contract says it holds: each transform of the
\* batch in its own place, N/2 + 1 bins for a real spectrum, and after any
\* sequence of forward and inverse calls exactly the 1/N factors that undo
\* each other, whether the library or the backend applies them.
BuffersHoldTheirContents ==
    \A role \in Roles, name \in Name :
        plans[role].exists /\ holds[name] # "nothing" =>
            LET contents == Contents(plans[role].cfg, holds[name])
            IN  \A o \in DOMAIN contents : memory[name][o] = contents[o]

\* A plan that was committed is one for the length and the batch that were
\* asked for.
PlansWhatWasAsked ==
    \A role \in Roles : plans[role].exists =>
        /\ plans[role].n = plans[role].cfg.length
        /\ plans[role].howmany = plans[role].cfg.batch

=============================================================================
