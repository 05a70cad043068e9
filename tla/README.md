# A verification project for dsp-dispatch

dsp-dispatch is a thin C++ layer over FFT and FIR libraries. A program creates
a *plan* (`fft::FftPlan`, `fir::FirPlan`) once and then calls `execute()` on
it, possibly from a real-time thread. One backend is compiled in; the facade
calls it through a function pointer and an opaque state. The promises a caller
relies on are few, and every backend has to keep them in its own way: a FIR
stream continues from block to block, an FFT batch has one layout and one
normalization, `create()` does all the expensive work, errors are reported and
leave a plan usable.

The specifications here state those promises, model how each backend keeps
them, check the models on small instances with TLC, and prove every safety
property that is checked for every value of the constants with TLAPS. The
scripts around the library - the fetchers of `cmake/` and the benchmark tools -
keep files from one run to the next, and are modelled too.

## 1. The system

### Components, their state, their operations

| Component | State it keeps | Operations | Hard behaviour |
|---|---|---|---|
| FIR facade (`include/fir/fir.h`, `src/common/fir.cpp`) | function pointers, `state_`, workspace size | `create`, `execute`, `clear`, move, destroy | null arguments, moved-from plans, who owns the backend state |
| Portable FIR (`src/backends/portable`) | `history` (all channels back to back), scratch `combined` | `portable_execute`, `portable_clear` | block shorter than the delay line, one tap, channels sharing one vector |
| IPP FIR (`src/backends/ipp`) | `delay_a`, `delay_b`, library spec | `ipp_execute`, `ipp_clear` | failure at a later channel, two delay vectors taking turns |
| CMSIS FIR (`src/backends/cmsis`) | reversed `coeffs`, `state`, an instance per channel | `cmsis_execute`, `cmsis_clear` | reversed taps, stale samples behind the delay line, `clear()` under live pointers |
| liquid FIR (`src/backends/liquid`) | one `firfilt` object per channel | execute, clear, for three sample types | which object serves which channel, null objects |
| FFT facade (`include/fft/fft.h`, `src/common/fft.cpp`) | function pointers, `state_` | `create`, `execute`, move, destroy | in-place calls, moved-from plans |
| FFT backends (`pocketfft`, `mkl`, `aocl`, `armpl`, `cmsis`) | configuration and a library plan or descriptor | `make_backend_plan`, execute, destroy | distances of real transforms in a batch, 1/N applied once, integer casts, partial failure |
| pocketfft plan cache (`third_party/pocketfft`, `get_plan`) | `cache`, `last_access`, `access_counter`, a mutex: **process-wide** | find, build, insert | the only state shared by plans and threads: races, eviction, overflow |
| FFTW and KFR (`bench/backends`) | as the FFT and FIR backends | the same interface, linked into benchmark programs | casts, 1/N, real transforms refused |
| vDSP backend | - | - | a stub that stops the compilation |
| Fetchers (`cmake/FetchMKL`, `FetchArmPL`, `FetchPocketFFT`, `FetchIPP`) | archives, unpacked trees and marker files in the build directory | look, download, unpack, mark, use | a configure killed between or within steps, failed downloads, a changed version |
| FetchContent fetchers (AOCL, CMSIS-DSP, FFTW, liquid) | CMake's own | configure | left to CMake |
| Benchmark programs (`bench/*.cpp`) | a JSON file each | run every size | a create that is refused |
| Runner (`tools/run_benchmarks.py`) | `bench_results/*.json`, the tables | discover, run, annotate, collate | a program that fails, a kill, files of earlier runs, machines and sources |
| Dashboard (`tools/build_dashboard.py`) | `bench-data.js` | collate | the same files |
| Build configuration, CI, packaging | CMake cache | configure, publish | option gates, straight-line |

### How they interact

`FirPlan::create` / `FftPlan::create` call the backend's
`make_*_backend_plan(config)`, which validates, allocates and returns a
`BackendPlan` record (state, execute, clear, destroy). `execute()` checks for
null and calls the function pointer. There are no callbacks and no threads of
the library's own. Plans share nothing - except that PocketFFT plans hold no
reference to their transform: each `execute()` looks it up by length in a
process-wide cache under a mutex, and builds it when it is missing. The library
persists nothing at run time. What outlives a process is the build directory,
in which a configure finds what earlier ones fetched (CI restores it from older
commits besides), and `bench_results`, from which tables and dashboard are made:
crash recovery concerns these.

### What makes each part correct

* **FIR, every backend.** `execute()` returning Ok means: channel by channel,
  the output is the convolution of the taps with *everything accepted since the
  plan was created or cleared*; a call that does not return Ok leaves the
  streams where they were; `clear()` forgets them. (`FirStream`)
* **FFT, every backend.** Each transform of the batch stands at its own
  distance, a real spectrum has N/2 + 1 bins, forward is unscaled and inverse
  carries exactly 1/N, in place where that is allowed; the plan is for the
  length and batch asked for.
* **Plan cache.** One slot per length, never a transform of another length,
  least recently used evicted, every call returns, and `execute()` does not plan.
* **Ownership.** A state has one owner, is complete while it is owned, and is
  given back on every path that returns. (`PlanOwnership`)
* **Fetchers.** A tree a marker vouches for is complete; a configure that
  succeeds uses a complete tree of the version asked for; after kills and failed
  downloads another configure gets there. (`FetchDeps`)
* **Benchmarks.** The tables of a run show what that run measured, all of it, on
  this machine; tables and page are made of complete files. (`BenchRunner`)

The hazards - where in the code each of these could break, at its line - are
listed under `hazards` in `PROJECT.json`, each with the property that would
catch it or the reason none does.

## 2. The modules

| Module | Models | State in the model <-> in the code |
|---|---|---|
| `FirDefs` | the data of the FIR subsystem; `ref_fir` of the tests as `Convolution` | buffers as functions of an offset, channels back to back |
| `FirStream` | **abstract**: what a FirPlan promises | a stream per channel, nothing of any backend |
| `FirPlan` | what all backends share: null check, loop over channels, status | `pc`, `b` (the loop variable), the caller's buffers, `result`; `stream` is a history variable |
| `PortableFir` | `src/backends/portable/fir_backend.cpp` | `history`, `combined` |
| `IppFir` | `src/backends/ipp/ipp_fir_backend.cpp` | `delay_a`, `delay_b` |
| `CmsisFir` | `src/backends/cmsis/cmsis_fir_backend.cpp` | `state`; the instances' pointers are the constant offsets `InstanceState` |
| `LiquidFir` | `src/backends/liquid/liquid_fir_backend.cpp` and KFR's FIR backend, which has the same shape | `filters`, the window of each object |
| `PocketCache` | `get_plan()` and the PocketFFT backend's calls to it | the three statics; per thread its place in the call and the `shared_ptr` it holds |
| `MCPocketCache` | symmetry for TLC | |
| `FftPlans` | `make_backend_plan()` and `execute()` of the five FFT backends and of FFTW and KFR, with CMSIS's packed real spectrum float by float | `backend`, the plans with the numbers handed to the library, the caller's `memory` |
| `PlanOwnership` | `make_backend_plan()` of twelve backends as a sequence of acquisitions, each of which may fail; `Result`, move, assignment and destructor of both facades | `next`: the step `create()` is at; `held`: what each create acquired and not gave back; `plans`: the `state_` pointer of each plan object, null after a move |
| `FetchDeps` | the four fetchers that download and unpack by themselves | `archive`, `tree`, `marker`: the build directory, which survives a kill; `pin`, `url`: the cache variables; `vendored`: the header in `third_party`; `pc`, `part`, `todo`: the script, lost in a kill; `found`: the targets |
| `BenchRunner` | the benchmark programs, the runner and the dashboard's collation | `program`: the build directory; `file`: `bench_results/*.json`; `tables`, `page`; `pc`, `todo`, `json_files`: the runner |
| `FirPlan_proofs` | lemmas common to the proofs of the FIR backends | |
| `LibraryFir_proofs` | the theorems about `IppFir`, `CmsisFir` and `LiquidFir` | |
| `PortableFir_proofs`, `FftPlans_proofs`, `PocketCache_proofs`, `PlanOwnership_proofs`, `FetchDeps_proofs`, `BenchRunner_proofs` | the theorems about the module each is named for | |

Each FIR backend EXTENDS `FirPlan` and conjoins to its steps what they do to
the backend's own vectors; `FirPlan` instantiates `FirStream` with `busy` as
"a call is running", so `KeepsPromise == Promise!Spec` is a refinement checked
in every backend. The names of the three backends that leave the filtering to a
library carry a prefix (`IppFilter`, `CmsisFilter`, `LiquidFilter`), so that one
module can extend all of them.

**How the data is abstracted.** No arithmetic is done. A FIR output sample is
the function from tap index to the stream sample the code multiplies it with:
two computations are equal exactly if they add the same products. A cell of an
FFT buffer says of which transform of the batch it is which sample or bin, and
how many factors of N it carries too many; a library given a wrong length,
distance or alias produces cells that say so. This keeps every index, order,
offset and scale of the code, and drops rounding.

**What is one step.** FIR: one loop iteration of the portable backend is two
steps (the output, then the carry of the history); where a library call does
both, one. Cache: a stretch under the mutex is one step, the build outside it
another. FFT: one call is one step, a plan being used by one thread by contract
(`fft.h:74-76`). Ownership: one acquisition is one step; checks that acquire
nothing and fail with the same statuses are one. Fetchers: one command of the
script, or one file of an archive; a kill falls between two steps or leaves the
file being written cut short. Runner: one program from its start to the opening
of its file, one program's end, one file annotated, one collation - both tables
at once, so that a kill between the `.md` and the `.csv` (`run_benchmarks.py:468`
and `:472-474`) is not distinguished. Another call of the runner or the dashboard
starts when no runner is under way.

**Libraries.** ippsFIRSR, arm_fir, firfilt and the FFT libraries are not in the
repository; they are modelled from how the backends use them and marked
`external`. ippsFIRSR may fail at any channel with any status, before or after
it has written. The FFT libraries may refuse any plan, and may fail in
`execute()` where the backend looks at a status. A download that fails leaves
nothing at its destination; one that is killed leaves a part. A benchmark
program opens its file before it measures and completes it at its end.

## 3. The runs

| Run | Bounds | Shows |
|---|---|---|
| `long_delay_line` | 4 taps, blocks of 2, 2 channels, 2 sample values, 3 blocks between clears | `PortableFir`: each slice of `history` is the tail of its own channel's stream (`HistoryFollows`), the output convolves the whole stream (`OutputIsConvolution`), the scratch stays within its reserve (`ScratchWithinReserve`: no allocation in `execute()`), and `KeepsPromise` |
| `ipp_fir` | 4 taps, blocks of 2, 2 channels, 2 blocks | A failure half-way moves no delay line: `DelaysMoveTogether`, `KeepsPromise` |
| `cmsis_fir` | 3 taps, blocks of 3 | Stale samples behind the delay line never count: `InstancesFollow`, `KeepsPromise` |
| `liquid_fir` | 3 taps, blocks of 2 | each object's window is the tail of its own channel's stream (`WindowsFollow`), `KeepsPromise` |
| `cache_fits` | 2 threads, 2 lengths, 2 slots; counter up to 4 | `ExecuteNeverPlans` and, under fairness, `EveryCallReturns` |
| `cache_evicts` | 2 threads, 3 lengths, 2 slots, counter modulo 6, calls unbounded | `OneSlotPerLength`, `RunsCachedTransform`, `StampsFollowUse` (until an overflow) |
| `cache_replans` | as `cache_evicts`, no overflow | finding 1 |
| `fft_plans` | 7 backends; lengths 0, 1, 2, 3, 4, 11, 12; batches 0 to 2; one or two buffers of 24 elements | `BuffersHoldTheirContents`, `PlansWhatWasAsked` (of lengths an int can hold) |
| `fft_in_place_vendor` | MKL, AOCL, ArmPL with one buffer | finding 2 |
| `plan_ownership` | 12 backends, a `Result` and two more places for plans, 3 states | `SoleOwner`, `OwnsAllItNeeds`, `NothingLost` |
| `fetch_deps` | 4 fetchers, 2 versions, 1 change of version, 2 kills, any number of failed downloads | `MarkedIsWhole`, `UsesWhatIsPinned` and, under fairness, `Recovers` |
| `bench_runner` | 2 backends, 1 size, 2 machines, 2 states of the source, 2 runs | `RunShowsItself`, `MakeMeasuresTheSource`, `ShowsOnlyMeasurements`, `NamesTheMachine` |

**Why the bounds are enough.** *FIR*: 4 taps against blocks of 2 need two
blocks before the oldest sample leaves the delay line, and 3 blocks reach the
regime where a history slice holds a full block, part of another and no
silence; a single tap, where there is no delay line, is in no run and covered by
the theorems, which hold from one tap on; 2 channels are enough for one to leak into the other; 2 sample values
tell any two positions apart over all inputs, since every assignment of values
is enumerated. The library backends need one block less because they have no
path that depends on the history's age. `MaxBlocks` bounds the stream between
two clears; calls and clears alternate without bound. *Cache*: a race needs two
threads, an eviction one length more than slots; 4 addresses are as many
transforms as can be alive at once (slots plus threads). In `cache_evicts` the
counter is narrower than the bound `MaxAccess`, so nothing bounds the calls and
the counter overflows over and over; in the other cache runs `MaxAccess` stops
new calls before the counter wraps. *FFT*: odd and even lengths distinguish
N/2 + 1 from N; 4 is the first length with a bin between DC and Nyquist, so that
packing has something to move; 12 is beyond `CmsisMax` = 7 and would be 4, a
length CMSIS has, after the cast; 11 has no AOCL real transform; 0 is rejected;
`Memory` = 24 is room for the largest batch, 2 transforms of 12.
*Ownership*: a double destruction needs two plan objects and one state; with
three places and three states one plan can be assigned over another while a
third is created. A state that was given back is used again, so creates are
bounded by what was lost only. *Fetchers*: two kills, so that the configure that
repairs what the first one left can be killed in turn; an archive has two files,
the one a script looks for and the rest, since no script looks for more; two
versions and one change make everything in a directory old. *Runner*: two
backends, so that a run may end between them and a first file differ from the
second; two runs, so that files of an earlier one stand beside those of the
last; two machines and two states of the source, to tell whose they are.

**Fairness.** `EveryCallReturns` needs `WF_vars(Work(t))` for each thread, i.e.
a thread inside a call is eventually scheduled. The mutex needs no fairness of
its own because it is never held between two steps and no step under it waits. A
thread outside a call owes nothing. `Recovers` assumes that a configure that did
not succeed is started again (`WF` of `Start` while nothing is found), that a
running script goes on (`WF` of `Step`) and that the network does not fail for
ever (`SF` of `Download`: each failure ends the script, so `Download` is enabled
again and again, not all the time). Nobody owes a kill or a change of version,
and both are bounded. Directories no configure gets out of are named in `Wedged`
and are excepted; section 5 lists them.

**Deadlock** is checked except where the system may stop: cache runs whose
bound forbids new calls, FFT runs in which the program has its plans and
has lost its data, and `plan_ownership`, once creates that threw have lost every
state. It is checked in all FIR runs, `cache_evicts`, `fetch_deps` and
`bench_runner`.

## 4. What is proved

Every theorem holds for all values of the constants that satisfy the assumptions
named in the module that declares them. No theorem assumes a bound of a run:
`MaxBlocks`, `MaxAccess`, `MaxKills`, `MaxRuns` and the like are any natural
numbers. In each module an inductive invariant `IInv` implies what the theorems
state; the proof that a step preserves it has one case per action.

### FIR: `PortableFir`, `IppFir`, `CmsisFir`, `LiquidFir`

Assumed: tap count, block size and batch are at least 1, which
`invalid_common()` enforces, and silence is a sample.

`PortableFir_proofs`, with `IInv`:

| Theorem | Statement |
|---|---|
| `TypeCorrect` | `Spec => []TypeOK` |
| `HistoryCorrect` | `Spec => []HistoryFollows` |
| `OutputCorrect` | `Spec => []OutputIsConvolution` |
| `ScratchCorrect` | `Spec => []ScratchWithinReserve` |
| `Refinement` | `Spec => KeepsPromise` |

`LibraryFir_proofs`, with `IppInv`, `CmsisInv` and `LiquidInv`:

| | IPP | CMSIS-DSP | liquid-dsp and KFR |
|---|---|---|---|
| types | `IppTypeCorrect`: `[]IppTypeOK` | `CmsisTypeCorrect`: `[]CmsisTypeOK` | `LiquidTypeCorrect`: `[]LiquidTypeOK` |
| delay lines | `DelaysCorrect`: `[]DelaysMoveTogether` | `InstancesCorrect`: `[]InstancesFollow` | `WindowsCorrect`: `[]WindowsFollow` |
| to `FirStream` | `IppRefinement`: `KeepsPromise` | `CmsisRefinement`: `KeepsPromise` | `LiquidRefinement`: `KeepsPromise` |

**The argument** is the same in all four:

    IInv == TypeOK /\ OutputFollows /\ <the delay lines follow the streams>

`OutputIsConvolution` speaks of the moment before the return only; what makes it
inductive is what the loop maintains. The delay-line invariant says which stream
each delay line stands for *during* a call. It is needed for the output of
channel `b`, and the backends keep it in different ways:

* portable: channels below `b` already count the new block, the others do not.
  The carry restores it, because the tail of `history ++ block` is the tail of
  `stream ++ block`.
* IPP: `delay_a` stands for the streams *before* the call until the last channel
  is through, and `delay_b`, up to channel `b`, for the streams with the block.
  Therefore a failure at any channel moves nothing: the exchange of the two
  vectors is the only step that counts.
* CMSIS: only the *front* of each instance's slice follows the stream; `arm_fir`
  leaves the rest stale, and the proof shows that it never reads there what it
  has not written in the same call. The reversed coefficients meet the samples in the
  same pairs.
* liquid-dsp and KFR: the window of an object is the last samples of silence
  followed by its channel's stream. After n samples of a block it is cut from
  that stream n samples further on (`PushedWindow`): for the frames in between
  this gives the output, at the end of the block the next window.

`OutputFollows` says the channels already passed have their output; at the
loop's end this is `OutputIsConvolution`. `TypeOK` bounds `b`, so that slices of
different channels are disjoint. `FirPlan_proofs` holds what is common: the
arithmetic of slices (an offset belongs to one channel), the tail of a
concatenation, and for each action of `FirPlan` what it does to the common part
of the invariant and which action of `FirStream` it is. For the refinement
`Execute` maps to `Begin`, a loop step to `Scribble` or a stutter, the return to
`Accept` (by `OutputFollows`) or, in IPP, to the failed call; a null call and
`clear()` map to themselves.

### `FftPlans`

Assumed: lengths and batches are any natural numbers, the libraries' int and
CMSIS's limit are any (`IntSize` at least 1), and the program's buffers have room
for its plans (`MemoryAssumption`).

| Theorem | Statement |
|---|---|
| `PlansAreAsAsked` | `Spec => [](NoWrap => PlansWhatWasAsked)` |
| `ContentsCorrect` | `Spec => [](NoWrap /\ InPlaceOffered => BuffersHoldTheirContents)` |

The two hypotheses are what the code does not check. `NoWrap`: with ArmPL, AOCL
and FFTW, which take an `int`, lengths and batches are below 2^w. (Not below
2^(w-1): a number between the two is negative after the cast, and refused by the
library. Beyond 2^w the cast may give another length that is accepted.) It says
nothing of the other backends; CMSIS's limit is checked by the code and
is part of the proof. `InPlaceOffered`: one buffer is passed for both only to
backends that transform in place; finding 2 is the run without it. Both hold in
every state of the run `fft_plans`.

**The argument.** `LaidOut` says what a buffer holds by transform and place
within it, where `BuffersHoldTheirContents` says it by element; that the two are
the same is division with remainder (`BlockOfElement`, `OneBlock`). One call is
then correct in three steps: the library finds transform t where it looks
(`Found`, by the input distance), writes it where no other transform of the batch
goes, whichever it writes last (`Transformed`, by the output distance), and the
1/N loop covers all of the output just where the library left a factor
(`NormalizedRight`). That CMSIS's packing is undone (`AllArrive`) needs nothing of
the length. `IInv` says besides that each plan is what `PlanOf` made of an
accepted configuration and that the two plans have the same length, batch and kind
(`PlansInv`), so that what one leaves behind is laid out as the other expects, and
that nothing is held before there is a plan (`HoldsInv`). A failed call, and a
complex-to-real transform that consumed its input, leave a buffer that holds
nothing.

### `PocketCache`

Assumed: at least one slot, a counter that counts past 1; any set of threads and
of lengths.

| Theorem | Statement |
|---|---|
| `TypeCorrect` | `Spec => []TypeOK` |
| `NoDuplicates` | `Spec => []OneSlotPerLength` |
| `RunsWhatIsCached` | `Spec => RunsCachedTransform` (an action property) |
| `EvictionFollowsUse` | `Spec => []StampsFollowUse` |
| `ExecuteHits` | with no more lengths than slots (`LengthsFit`), `Spec => [](~wrapped => ExecuteNeverPlans)` |

**The argument.** `IInv` says what a call knows where it is (`CallsFit`: what it
is about to publish has its length) and that no two slots hold the same length.
The second is kept because a call inserts only when the search *in the same
critical section* found nothing. The stamps need their own invariant,
`StampsInv`: until the counter overflows no stamp is ahead of it, occupied slots
have different stamps and empty ones none. From these the slot with the least
stamp is empty as long as one is, which is why with enough slots nothing that was
committed is ever evicted (`CommittedInv`) and `ExecuteHits` follows; the counting
step is a pigeonhole on the occupied slots.

`~wrapped` is not a convenience. An overflow gives every slot the same stamp, the
victim is then the first slot whether or not others are empty, and a committed
length can be evicted from a cache that has room. In `cache_fits` no overflow is
reached, so that the run and the theorem state the same.

### `PlanOwnership`

Assumed: the backends are among the twelve whose creation is modelled, and null
is the address of no state; any places for plans and any number of states.

| Theorem | Statement |
|---|---|
| `TypeCorrect` | `Spec => []TypeOK` |
| `OwnershipCorrect` | `Spec => []SoleOwner` |
| `PlansAreWhole` | `Spec => []OwnsAllItNeeds` |
| `NothingIsLost` | `Spec => []NothingLost` |

**The argument.** The facts about the twelve creation scripts are one lemma
(`ScriptFacts`), by inspection of each: every step's cleanup covers what the
steps before it acquired. `Progress` says that while a create is at step n it
holds what the first n steps acquire, and nobody owns its state; with it a create
that fails by a status gives all back, and one that succeeds hands over all that
is needed. Moves and assignments then only permute owners.

### `FetchDeps`

Assumed: `FetchersAssumption` and `VersionAssumption`, no more.

| Theorem | Statement |
|---|---|
| `TypeCorrect` | `Spec => []TypeOK` |
| `MarkedCorrect` | `Spec => []MarkedIsWhole` |
| `PinnedCorrect` | `Spec => []UsesWhatIsPinned` |

**The argument.** That marked trees are whole is not inductive: a step that
writes to a tree must know that the tree is not marked, and the step that marks
it must know that it is complete. `IInv` adds exactly what a script knows at each
step: which fetcher comes to which step (`KnowsItsSteps`), that what is being
fetched is unmarked (`FetchesUnmarked`, from the test in `Look`), and that every
file no longer to be unpacked is in place (`UnpacksAll`). A kill keeps it because
it only loses the script's place and may cut a file of an unmarked tree.
`UsesWhatIsPinned` needs besides where anything else can come from (`UInv`): there
is nothing of another version until the version is changed (`NothingOlder`), only
a kill leaves a file cut (`NothingCut`), PocketFFT is a single header
(`OneHeader`), and no script gets to its targets without having looked
(`LooksFirst`) - with MKL, at both wheels.

### `BenchRunner`

Assumed: at least one backend and one size, and that no machine is called
`None`.

| Theorem | Statement |
|---|---|
| `TypeCorrect` | `Spec => []TypeOK` |
| `OnlyMeasurementsShown` | `Spec => []ShowsOnlyMeasurements` |
| `MachineNamed` | `Spec => []NamesTheMachine` |
| `RunsShowThemselves` | `Spec => RunShowsItself` (an action property) |
| `MakeIsCurrent` | `Spec => MakeMeasuresTheSource` (an action property) |

**The argument.** What a collation writes is right because of what holds while
the run is under way: the files of the backends it has begun are its own
(`ThisRun`); a configured backend has a current program if make started it
(`BuiltFirst`), which nothing changes before the run ends; and a file that bears a
CPU bears that of the machine it was measured on (`FilesHonest`), because only a
run's own files are annotated. A program that fails and a kill end the run before
it writes tables, and a file they cut short claims nothing. What is shown was
true when it was written and is not touched later (`ShownHonest`), although the
files it was made of are.

### What is only model-checked

* `EveryCallReturns` and `Recovers`: liveness under fairness is out of the
  prover's reach.
* That no state is a deadlock, in the runs that check it: it is a matter of
  `ENABLED`, which is out of reach as well.

## 5. Findings

1. **A committed PocketFFT plan may plan again in `execute()`**
   (`cache_replans`). The plan holds no reference to its transform; with more
   lengths in use than the 16 slots, a live plan's length is evicted.
   `fft.h:67-68` promises no allocation, locking or planning.
2. **In-place complex transforms reach vendor plans made for two buffers**
   (`fft_in_place_vendor`), although the contract allows them; the backends'
   own comments say they do not offer them, but they do not refuse them.

What was seen while modelling and has no run of its own:

*Library.*
* The counter of the plan cache is guarded against overflow on a hit
  (`pocketfft_hdronly.h:2975`) but not on an insertion (line 3002), which moves
  it on without resetting the stamps. The order of eviction is lost until the
  counter passes the old stamps; `cache_evicts` shows that the cached transforms
  stay right.
* Lengths, batches and distances are cast to `int` unchecked by the ArmPL, AOCL
  and FFTW backends: `PlansWhatWasAsked` holds as long as none wraps around
  (`NoWrap`).
* `fft.h:35-36` says that `direction` is ignored for real types; the code rejects
  a real-to-complex inverse, as `docs/requirements.md:33-34` asks
  (`Contradictory` in `FftPlans`).
* A create left by an exception loses what it held (the state, or MKL's
  descriptor) in all backends but portable, liquid and ArmPL; `NothingLost`
  excepts exactly this. Liquid, for its part, keeps a filter its library could
  not make (`OwnsAllItNeeds` excepts exactly this).

*Fetchers.* The directories in `Wedged`, and what `Promises` leaves out:
* ArmPL takes a tarball it finds without looking at it (`FetchArmPL.cmake:65`):
  one that a kill cut short is found by every later configure, each of which
  fails. `ARMPL_TARBALL_URL` is a cache variable made from the version once, so
  that setting only `ARMPL_VERSION` in a build directory downloads the old
  tarball, with the same end.
* MKL's marker names no version although `FetchMKL.cmake:8-10` invites to
  override the URLs: what was unpacked before stays in use. CI's restore-keys
  reach the same state by restoring the directory of an older commit.
* PocketFFT's fallback header is hashed when it is downloaded, not when it is
  found (`FetchPocketFFT.cmake:53`).
* IPP's marker is `libipps.a` itself, a file of the tree it vouches for: killed
  between this file and the rest, the installation is never completed.

*Benchmarks.*
* `--no-run` "reports the machine that actually produced the numbers"
  (`run_benchmarks.py:443-444`) of the first file only, and not if the run that
  wrote it ended before it was annotated; the dashboard then takes the machine
  from the tables of some earlier run. `NamesTheMachine` says when the name is
  right.
* The outcome of the create that is timed is not looked at, so that creation
  times of plans that were refused are published (CMSIS at 8192 and 16384 in
  `docs/assets/bench-data.js`); latencies are not (`ShowsOnlyMeasurements`).
* For PocketFFT, `plan_create` times a hit of the plan cache and one transform,
  because `execute` of the same length ran before it in the same process.
* With 15 repetitions the 99th percentile is the 95th (both are the second
  largest), and the runner's `--repetitions` does not reach benchmarks that set
  their own. FIR creation times never reach the dashboard
  (`build_dashboard.py:99` drops sizes such as `64x8`).

## 6. What is not modelled

* **Numerics**: rounding, the FFT algorithms, SIMD.
* **`execute()` on a plan that was moved from**: the backend dereferences null.
* Whether ArmPL's complex-to-real transform destroys its input: the model takes
  it as lost. KFR in place: not decided by this repository; the model
  takes KFR as capable of it (it is not in `OutOfPlaceOnly`).
* **vDSP**: a stub.
* **Build configuration**: option gates, evaluated once per configure in a
  straight line, without state of their own.
* **FetchContent-based fetchers** (AOCL, CMSIS-DSP, FFTW, liquid) and AOCL's
  uninstall patch: download, hash and restart are CMake's. A system-wide IPP
  that `find_package()` meets first.
* **Google Benchmark's** timing, repetitions and statistics; `--filter`; the
  layout of tables, page and graphs; the CI job graph; packaging.

`PROJECT.json` lists every component with its status.

## 7. Plan

Done, in this order: the FIR backends and their promise; the shared cache; the
FFT plans, with CMSIS's packing and the two backends of `bench/`; ownership and
failing creation; the fetchers; the benchmark flow; the proofs of the portable
backend and of the fetchers; the proofs of the cache, of ownership, of the IPP
and CMSIS backends and of the benchmark flow; the proofs of the backends with
filter objects and of the FFT plans.

What a change of the code would call for:

1. Were `create()` to refuse what does not fit the libraries' int, `NoWrap` would
   follow from `Rejects` and leave both theorems of `FftPlans_proofs`; were it, or
   `execute()`, to refuse calls in place, so would `InPlaceOffered`.
2. Were a PocketFFT plan to hold its transform, `ExecuteNeverPlans` would hold
   without `LengthsFit`.
3. The backends left to CMake's FetchContent would become fetchers of `FetchDeps`
   if they came to download by themselves.
