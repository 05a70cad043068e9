---------------------------- MODULE BenchRunner ----------------------------
(***************************************************************************)
(* The benchmark flow: one program per backend (bench/bench_fft.cpp,       *)
(* bench_fir.cpp), tools/run_benchmarks.py, which runs the programs it     *)
(* finds and makes tables of their JSON files, and                         *)
(* tools/build_dashboard.py, which makes a page of the same files.         *)
(*                                                                         *)
(* Two directories outlive every run.  The build directory keeps the       *)
(* program of a backend that is no longer configured; bench_results keeps  *)
(* the file of a program that failed or was killed, of a backend that was  *)
(* left out, and of the machine it was copied from.  The two suites keep   *)
(* to files of their own: one is modelled.  A CI job is a flow that begins *)
(* with both directories empty and stays on its machine.                   *)
(***************************************************************************)
EXTENDS Naturals, FiniteSets, FiniteSetsExt

CONSTANTS
    Backends,      \* number of backends
    Length,        \* the sizes of the matrix
    Machine,
    MaxRevisions,  \* bound: states of the source
    MaxRuns        \* bound: runs

ASSUME CountsAssumption ==
    /\ Backends \in Nat \ {0} /\ Length # {}
    /\ MaxRevisions \in Nat \ {0} /\ MaxRuns \in Nat

None == "none"
ASSUME MachineAssumption == None \notin Machine

Backend == 1 .. Backends   \* in the order of their names

\* A backend's JSON file: when complete, the sizes it has a latency and a
\* creation time for; run, machine and revision are those of its program, cpu
\* is what annotate_cpu() wrote into it.
NoFile == [content |-> "absent", run |-> 0, revision |-> 0, machine |-> None,
           cpu |-> None, execute |-> {}, plan_create |-> {}]

Nothing == [cpu |-> None, of |-> [b \in {} |-> NoFile]]

VARIABLES
    plans,       \* the sizes each backend can plan
    revision,    \* of the source
    configured,  \* the backends CMake configures
    program,     \* the revision each program was built from; 0: there is none
    machine,     \* the one all this happens on
    file,        \* bench_results/<suite>_<backend>.json
    tables,      \* <suite>_results.md and .csv: the CPU they name, the files shown
    page,        \* the same of bench-data.js
    pc,          \* of run_benchmarks.py
    todo,        \* the programs still to run, or the files still to annotate
    json_files,  \* the files to be collated
    run,         \* number of runs so far
    made         \* this run was started by make, which builds first

build  == <<revision, configured, program>>
runner == <<pc, todo, json_files, run, made>>
vars   == <<plans, build, machine, file, tables, page, runner>>

Init ==
    /\ plans \in [Backend -> SUBSET Length]
    /\ revision = 1 /\ configured \in SUBSET Backend
    /\ program = [b \in Backend |-> 0]
    /\ machine \in Machine
    /\ file = [b \in Backend |-> NoFile]
    /\ tables = Nothing /\ page = Nothing
    /\ pc = "idle" /\ todo = {} /\ json_files = {} /\ run = 0 /\ made = FALSE

-----------------------------------------------------------------------------
(* The build directory and the rest of the world, between two runs.        *)

Edit ==
    /\ pc = "idle" /\ revision < MaxRevisions
    /\ revision' = revision + 1
    /\ configured' \in SUBSET Backend
    /\ UNCHANGED <<plans, program, machine, file, tables, page, runner>>

\* Mutant: a program that is there is up to date.
BuiltOnce ==
    [b \in Backend |-> IF b \in configured /\ program[b] = 0 THEN revision
                       ELSE program[b]]

\* Only what is configured is built; nothing is removed.
Built == [b \in Backend |-> IF b \in configured THEN revision ELSE program[b]]

Build ==
    /\ pc = "idle" /\ program' = Built
    /\ UNCHANGED <<plans, revision, configured, machine, file, tables, page, runner>>

\* bench_results is copied to another machine, where the same is built.
Move ==
    /\ pc = "idle" /\ machine' \in Machine \ {machine}
    /\ UNCHANGED <<plans, build, file, tables, page, runner>>

\* make clean.
Clean ==
    /\ pc = "idle"
    /\ program' = [b \in Backend |-> 0]
    /\ file' = [b \in Backend |-> NoFile]
    /\ tables' = Nothing
    /\ UNCHANGED <<plans, revision, configured, machine, page, runner>>

-----------------------------------------------------------------------------
(* run_benchmarks.py                                                       *)

discover_backends(programs) == {b \in Backend : programs[b] # 0}

Begin(programs, wanted, make) ==
    LET found == discover_backends(programs) \cap wanted IN
    /\ pc = "idle" /\ run < MaxRuns
    /\ found # {}
    /\ pc' = "run" /\ todo' = found /\ json_files' = found
    /\ run' = run + 1 /\ made' = make
    /\ program' = programs
    /\ UNCHANGED <<plans, revision, configured, machine, file, tables, page>>

\* The tool with --backends, or with all there are.
Start == \E wanted \in SUBSET Backend : Begin(program, wanted, FALSE)

\* make benchmarks: what is configured is built, then all that is found is run.
Make == Begin(Built, Backend, TRUE)

\* Mutant: a runner that ended is taken up where it stopped.
StopHalfway == pc' = "idle" /\ UNCHANGED <<todo, json_files, run, made>>

\* The runner ends, after the tables, with an error, or because it is killed.
Stop ==
    /\ pc' = "idle" /\ todo' = {} /\ json_files' = {}
    /\ UNCHANGED <<run, made>>

\* The file is opened, which empties it, and stays incomplete until the
\* program's end.
Open ==
    /\ pc = "run" /\ todo # {} /\ pc' = "program"
    /\ file' = [file EXCEPT ![Min(todo)] =
            [NoFile EXCEPT !.content = "cut", !.run = run, !.machine = machine,
                           !.revision = program[Min(todo)]]]
    /\ UNCHANGED <<plans, build, machine, tables, page, todo, json_files, run, made>>

\* Mutant: a plan that could not be made is timed all the same.
TimedRegardless(b) == Length

\* run_execute(): a create that fails gives an error instead of a time.
Timed(b) == plans[b]

\* run_plan_create(): the outcome of the create it times is not looked at.
Created == Length

\* Every size is run for both operations.
Reported(b) ==
    [file EXCEPT ![b].content = "whole", ![b].execute = Timed(b),
                 ![b].plan_create = Created]

\* One program ends, the next begins, and after the last all are annotated.
ProgramEnds ==
    /\ pc = "program"
    /\ file' = Reported(Min(todo))
    /\ IF todo = {Min(todo)}
       THEN pc' = "annotate" /\ todo' = json_files
       ELSE pc' = "run" /\ todo' = todo \ {Min(todo)}
    /\ UNCHANGED <<plans, build, machine, tables, page, json_files, run, made>>

\* check=True: a program that fails, before or after it wrote its file, ends
\* the runner.
ProgramFails ==
    /\ pc = "program" /\ Stop
    /\ file' \in {file, Reported(Min(todo))}
    /\ UNCHANGED <<plans, build, machine, tables, page>>

annotate_cpu ==
    /\ pc = "annotate"
    /\ file' = [file EXCEPT ![Min(todo)].cpu = machine]
    /\ todo' = todo \ {Min(todo)}
    /\ pc' = IF todo' = {} THEN "collate" ELSE "annotate"
    /\ UNCHANGED <<plans, build, machine, tables, page, json_files, run, made>>

\* The runner is killed; a file that is being annotated is written anew.
Kill ==
    /\ pc # "idle" /\ Stop
    /\ \/ UNCHANGED file
       \/ pc = "annotate" /\ file' = [file EXCEPT ![Min(todo)].content = "cut"]
    /\ UNCHANGED <<plans, build, machine, tables, page>>

Present == {b \in Backend : file[b].content # "absent"}

\* Mutant: a file that cannot be parsed is taken for an empty one.
ReadableOrNot(files) == TRUE

\* load_results() on each file: one that is incomplete is an error.
Readable(files) == \A b \in files : file[b].content = "whole"

Loaded(files) == [b \in files |-> file[b]]

Or(first, second) == IF first # None THEN first ELSE second

\* The context is that of the first file.
cpu_model(files) == file[Min(files)].cpu

\* Mutant: the tables name the machine they are made on.
WrittenHere(files) == [cpu |-> machine, of |-> Loaded(files)]

Written(files) == [cpu |-> Or(cpu_model(files), machine), of |-> Loaded(files)]

\* Mutant: all the files there are, not those of this run.
CollateAll ==
    /\ pc = "collate" /\ Stop
    /\ Readable(Present)
    /\ tables' = Written(Present)
    /\ UNCHANGED <<plans, build, machine, file, page>>

Collate ==
    /\ pc = "collate" /\ Stop
    /\ Readable(json_files)
    /\ tables' = Written(json_files)
    /\ UNCHANGED <<plans, build, machine, file, page>>

\* --no-run, with --backends or without.
Recollate ==
    /\ pc = "idle"
    /\ \E files \in (SUBSET Present) \ {{}} :
          /\ Readable(files)
          /\ tables' = Written(files)
    /\ UNCHANGED <<plans, build, machine, file, page, runner>>

\* build_dashboard.py, which scrapes the tables when the first file names no CPU.
Dashboard ==
    /\ pc = "idle" /\ Present # {} /\ Readable(Present)
    /\ page' = [cpu |-> Or(cpu_model(Present), tables.cpu),
                of |-> Loaded(Present)]
    /\ UNCHANGED <<plans, build, machine, file, tables, runner>>

Next ==
    \/ Edit \/ Build \/ Move \/ Clean
    \/ Start \/ Make \/ Open \/ ProgramEnds \/ ProgramFails \/ annotate_cpu \/ Kill
    \/ Collate \/ Recollate \/ Dashboard

Spec == Init /\ [][Next]_vars

-----------------------------------------------------------------------------
Result ==
    [content : {"absent", "cut", "whole"}, run : 0 .. MaxRuns,
     revision : 0 .. MaxRevisions, machine : Machine \cup {None},
     cpu : Machine \cup {None}, execute : SUBSET Length, plan_create : SUBSET Length]

\* Every variable keeps its shape; a runner that is busy has files to collate,
\* and programs or files left to do until it collates them.
TypeOK ==
    /\ plans \in [Backend -> SUBSET Length]
    /\ revision \in 1 .. MaxRevisions /\ configured \subseteq Backend
    /\ machine \in Machine /\ run \in 0 .. MaxRuns
    /\ program \in [Backend -> 0 .. MaxRevisions]
    /\ file \in [Backend -> Result]
    /\ \A p \in {tables, page} :
          /\ p.cpu \in Machine \cup {None} /\ DOMAIN p.of \subseteq Backend
          /\ \A b \in DOMAIN p.of : p.of[b] \in Result
    /\ pc \in {"idle", "run", "program", "annotate", "collate"}
    /\ todo \subseteq json_files /\ json_files \subseteq Backend
    /\ (json_files # {}) <=> (pc # "idle")
    /\ (todo # {}) <=> (pc \in {"run", "program", "annotate"})

TablesOfARun == pc = "collate" /\ tables' # tables

\* The tables of a run (as opposed to --no-run) show all its backends and nothing
\* else: numbers this very run measured, with the programs that are there, under
\* the name of this machine, whatever earlier runs left in bench_results.
RunShowsItself ==
    [][TablesOfARun =>
          /\ DOMAIN tables'.of = json_files
          /\ \A b \in json_files :
                /\ tables'.of[b].run = run
                /\ tables'.of[b].machine = machine
                /\ tables'.of[b].revision = program[b]
          /\ tables'.cpu = machine]_vars

\* make benchmarks measures the source as it stands, for every backend that is
\* configured: only a backend that is configured no longer may be shown as of
\* an older revision.
MakeMeasuresTheSource ==
    [][TablesOfARun /\ made =>
          \A b \in configured :
             b \in DOMAIN tables'.of /\ tables'.of[b].revision = revision]_vars

\* Tables and page are made of complete files only, and every latency in them is
\* that of a plan that could be made.  (Of the creation times this is not so.)
ShowsOnlyMeasurements ==
    \A p \in {tables, page} : \A b \in DOMAIN p.of :
        p.of[b].content = "whole" /\ p.of[b].execute \subseteq plans[b]

\* What is made of old files names the machine that produced them, unless they
\* come from several, or the first was never annotated because its run ended
\* early: then it may be any machine these files, or the tables, have been on.
NamesTheMachine ==
    \A p \in {tables, page} :
        LET of == p.of IN
        /\ DOMAIN of # {}
        /\ \A a, b \in DOMAIN of : of[a].machine = of[b].machine
        /\ of[Min(DOMAIN of)].cpu # None
        => \A b \in DOMAIN of : p.cpu = of[b].machine

=============================================================================
