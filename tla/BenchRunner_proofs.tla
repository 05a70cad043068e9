------------------------- MODULE BenchRunner_proofs -------------------------
(***************************************************************************)
(* The benchmark flow, for any number of backends, sizes, machines, runs   *)
(* and states of the source.                                               *)
(*                                                                         *)
(* The tables show what a run has measured because of what holds while it  *)
(* is under way: every file it has begun is its own (ThisRun), whatever    *)
(* file bears a CPU bears that of its machine (FilesHonest), and a run     *)
(* that make started has a current program for every configured backend    *)
(* (BuiltFirst).  Tables and page keep what the files said when they were  *)
(* made (ShownHonest), though the files change after that.                 *)
(***************************************************************************)
EXTENDS BenchRunner, Integers, WellFoundedInduction, TLAPS

\* The CPU of a file is its machine's, or still missing; the latencies of a
\* complete one are those of plans that could be made.
Honest(b, f) ==
    /\ f.cpu \in {None, f.machine}
    /\ f.content = "whole" => f.execute \subseteq plans[b]

FilesHonest == \A b \in Backend : Honest(b, file[b])

\* What is shown was complete, and bears the name of its first file's machine.
Faithful(p) ==
    /\ \A b \in DOMAIN p.of : p.of[b].content = "whole" /\ Honest(b, p.of[b])
    /\ DOMAIN p.of # {} /\ p.of[Min(DOMAIN p.of)].cpu # None
           => p.cpu = p.of[Min(DOMAIN p.of)].cpu

ShownHonest == Faithful(tables) /\ Faithful(page)

\* The backends whose program this run has not begun.
Ahead ==
    {b \in todo : pc = "run" \/ (pc = "program" /\ b # Min(todo))}

OfThisRun(f, b) ==
    f.run = run /\ f.machine = machine /\ f.revision = program[b]

ThisRun == \A b \in json_files \ Ahead : OfThisRun(file[b], b)

BuiltFirst ==
    made /\ pc # "idle" =>
        \A b \in configured : b \in json_files /\ program[b] = revision

IInv == TypeOK /\ FilesHonest /\ ShownHonest /\ ThisRun /\ BuiltFirst

-----------------------------------------------------------------------------
\* The usual order of the natural numbers, as a relation.
Less == {p \in Nat \X Nat : p[1] < p[2]}

LEMMA LessIsWellFounded == IsWellFoundedOn(Less, Nat)
<1>1. OpToRel(<, Nat) = Less  BY DEF OpToRel, Less
<1> QED BY <1>1, NatLessThanWellFounded

\* The first of a set of backends is one of them.
LEMMA FirstIsOne ==
    ASSUME NEW S \in SUBSET Backend, S # {}
    PROVE  Min(S) \in S
<1>1. S \subseteq Nat  BY CountsAssumption DEF Backend
<1>2. PICK m \in S : \A n \in S : <<n, m>> \notin Less
  BY <1>1, LessIsWellFounded, WFMin
<1>3. \A n \in S : m =< n
  <2> TAKE n \in S
  <2>1. n \in Nat /\ m \in Nat  BY <1>1
  <2>2. ~(n < m)  BY <1>2, <2>1 DEF Less
  <2> QED BY <2>1, <2>2
<1> QED BY <1>3 DEF Min

\* A runner that has something to do takes up one of its files.
LEMMA NextOne ==
    ASSUME TypeOK, todo # {}
    PROVE  Min(todo) \in todo /\ Min(todo) \in json_files /\ Min(todo) \in Backend
<1>1. todo \in SUBSET Backend  BY DEF TypeOK
<1>2. Min(todo) \in todo  BY <1>1, FirstIsOne
<1> QED BY <1>2 DEF TypeOK

\* So it does while it runs programs and while it annotates.
LEMMA BusyWithOne ==
    ASSUME TypeOK, pc \in {"run", "program", "annotate"}
    PROVE  Min(todo) \in todo /\ Min(todo) \in json_files /\ Min(todo) \in Backend
<1>1. todo # {}  BY DEF TypeOK
<1> QED BY <1>1, NextOne

-----------------------------------------------------------------------------
(* Type correctness.                                                       *)

LEMMA NoFileIsResult == NoFile \in Result
BY CountsAssumption DEF NoFile, Result

\* What a program opens, what it reports and what the annotation writes.
LEMMA FilesStayResults ==
    ASSUME TypeOK, NEW b \in Backend, NEW t \in {"cut", "whole"}
    PROVE  /\ [NoFile EXCEPT !.content = "cut", !.run = run, !.machine = machine,
                             !.revision = program[b]] \in Result
           /\ [file EXCEPT ![b].content = t] \in [Backend -> Result]
           /\ [file EXCEPT ![b].cpu = machine] \in [Backend -> Result]
           /\ Reported(b) \in [Backend -> Result]
<1>1. file[b] \in Result /\ plans[b] \in SUBSET Length  BY DEF TypeOK
<1>2. run \in 0 .. MaxRuns /\ machine \in Machine /\ program[b] \in 0 .. MaxRevisions
  BY DEF TypeOK
<1>3. [NoFile EXCEPT !.content = "cut", !.run = run, !.machine = machine,
                     !.revision = program[b]] \in Result
  BY <1>2 DEF NoFile, Result
<1>4. [file[b] EXCEPT !.content = t] \in Result  BY <1>1 DEF Result
<1>5. [file[b] EXCEPT !.cpu = machine] \in Result  BY <1>1, <1>2 DEF Result
<1>6. [file[b] EXCEPT !.content = "whole", !.execute = Timed(b),
                      !.plan_create = Created] \in Result
  BY <1>1 DEF Result, Timed, Created
<1>7. file \in [Backend -> Result]  BY DEF TypeOK
<1> QED BY <1>3, <1>4, <1>5, <1>6, <1>7 DEF Reported

\* What is made of files has the shape of tables and of a page.
Presentable(p) ==
    /\ p.cpu \in Machine \cup {None} /\ DOMAIN p.of \subseteq Backend
    /\ \A b \in DOMAIN p.of : p.of[b] \in Result

LEMMA LoadedIsPresentable ==
    ASSUME TypeOK, NEW files \in SUBSET Backend, files # {},
           NEW m \in Machine \cup {None}
    PROVE  Presentable([cpu |-> Or(cpu_model(files), m), of |-> Loaded(files)])
<1>1. Min(files) \in files  BY FirstIsOne
<1>2. \A b \in files : file[b] \in Result  BY DEF TypeOK
<1>3. cpu_model(files) \in Machine \cup {None}
  BY <1>1, <1>2 DEF cpu_model, Result
<1> QED BY <1>2, <1>3 DEF Presentable, Or, Loaded

LEMMA NothingIsPresentable == Presentable(Nothing)
BY DEF Presentable, Nothing

\* The types, but for the files and what is made of them.
LEMMA TypeInit == Init => TypeOK
<1> SUFFICES ASSUME Init PROVE TypeOK  OBVIOUS
<1>1. file \in [Backend -> Result]  BY NoFileIsResult DEF Init
<1>2. \A p \in {tables, page} : Presentable(p)
  BY NothingIsPresentable DEF Init
<1>3. /\ revision \in 1 .. MaxRevisions /\ run \in 0 .. MaxRuns
      /\ program \in [Backend -> 0 .. MaxRevisions]
  BY CountsAssumption DEF Init
<1> QED BY <1>1, <1>2, <1>3 DEF Init, TypeOK, Presentable

LEMMA BuiltPrograms ==
    ASSUME TypeOK PROVE Built \in [Backend -> 0 .. MaxRevisions]
BY CountsAssumption DEF TypeOK, Built

\* A runner that begins, by either way.
BeginAny ==
    \E programs \in [Backend -> 0 .. MaxRevisions], wanted \in SUBSET Backend,
       make \in BOOLEAN : Begin(programs, wanted, make)

LEMMA StartsBegin ==
    ASSUME TypeOK, Start \/ Make
    PROVE  BeginAny
<1>1. CASE Start  BY <1>1 DEF Start, BeginAny, TypeOK
<1>2. CASE Make  BY <1>2, BuiltPrograms DEF Make, BeginAny
<1> QED BY <1>1, <1>2

\* The control of the runner keeps its types, whatever it does.
RunnerTypeOK ==
    /\ pc \in {"idle", "run", "program", "annotate", "collate"}
    /\ todo \subseteq json_files /\ json_files \subseteq Backend
    /\ (json_files # {}) <=> (pc # "idle")
    /\ (todo # {}) <=> (pc \in {"run", "program", "annotate"})

LEMMA RunnerType == ASSUME TypeOK, [Next]_vars PROVE RunnerTypeOK'
<1> USE DEF RunnerTypeOK
<1>0. RunnerTypeOK  BY DEF TypeOK
<1>1. CASE UNCHANGED runner  BY <1>0, <1>1 DEF runner
<1>2. CASE Stop  BY <1>2 DEF Stop
<1>3. CASE BeginAny
  BY <1>3 DEF BeginAny, Begin, discover_backends
<1>4. CASE Open  BY <1>0, <1>4 DEF Open
<1>5. CASE ProgramEnds
  <2>1. Min(todo) \in todo  BY <1>5, BusyWithOne DEF ProgramEnds
  <2> QED BY <1>0, <1>5, <2>1 DEF ProgramEnds
<1>6. CASE annotate_cpu  BY <1>0, <1>6 DEF annotate_cpu
<1>7. CASE Collate \/ Kill \/ ProgramFails
  BY <1>2, <1>7 DEF Collate, Kill, ProgramFails
<1>8. CASE Edit \/ Build \/ Move \/ Clean \/ Recollate \/ Dashboard
  BY <1>1, <1>8 DEF Edit, Build, Move, Clean, Recollate, Dashboard
<1>9. CASE UNCHANGED vars  BY <1>1, <1>9 DEF vars
<1> QED BY <1>3, <1>4, <1>5, <1>6, <1>7, <1>8, <1>9, StartsBegin DEF Next

\* So do the source, the build directory and the rest of the world.
WorldTypeOK ==
    /\ plans \in [Backend -> SUBSET Length]
    /\ revision \in 1 .. MaxRevisions /\ configured \subseteq Backend
    /\ machine \in Machine /\ run \in 0 .. MaxRuns
    /\ program \in [Backend -> 0 .. MaxRevisions]

LEMMA WorldType == ASSUME TypeOK, [Next]_vars PROVE WorldTypeOK'
<1> USE DEF WorldTypeOK
<1>0. WorldTypeOK  BY DEF TypeOK
<1>1. CASE UNCHANGED <<plans, build, machine, run>>  BY <1>0, <1>1 DEF build
<1>2. CASE Edit
  BY <1>0, <1>2, CountsAssumption DEF Edit, runner
<1>3. CASE Build  BY <1>0, <1>3, BuiltPrograms DEF Build, runner
<1>4. CASE Move  BY <1>0, <1>4 DEF Move, build, runner
<1>5. CASE Clean  BY <1>0, <1>5, CountsAssumption DEF Clean, runner
<1>6. CASE BeginAny
  BY <1>0, <1>6, CountsAssumption DEF BeginAny, Begin
<1>7. CASE Open \/ ProgramEnds \/ ProgramFails \/ annotate_cpu \/ Kill \/ Collate
  BY <1>1, <1>7 DEF Open, ProgramEnds, ProgramFails, annotate_cpu, Kill, Collate, Stop
<1>8. CASE Recollate \/ Dashboard \/ UNCHANGED vars
  BY <1>1, <1>8 DEF Recollate, Dashboard, vars, runner
<1> QED BY <1>2, <1>3, <1>4, <1>5, <1>6, <1>7, <1>8, StartsBegin DEF Next

LEMMA FileType == ASSUME TypeOK, [Next]_vars PROVE file' \in [Backend -> Result]
<1>0. file \in [Backend -> Result]  BY DEF TypeOK
<1>1. CASE UNCHANGED file  BY <1>0, <1>1
<1>2. CASE Clean  BY <1>2, NoFileIsResult DEF Clean
<1>3. CASE Open
  <2>1. Min(todo) \in Backend  BY <1>3, BusyWithOne DEF Open
  <2> QED BY <1>0, <1>3, <2>1, FilesStayResults DEF Open
<1>4. CASE ProgramEnds \/ ProgramFails
  <2>1. Min(todo) \in Backend
    BY <1>4, BusyWithOne DEF ProgramEnds, ProgramFails
  <2> QED BY <1>0, <1>4, <2>1, FilesStayResults DEF ProgramEnds, ProgramFails
<1>5. CASE annotate_cpu
  <2>1. Min(todo) \in Backend  BY <1>5, BusyWithOne DEF annotate_cpu
  <2> QED BY <1>5, <2>1, FilesStayResults DEF annotate_cpu
<1>6. CASE Kill
  <2>1. CASE pc = "annotate" /\ file' = [file EXCEPT ![Min(todo)].content = "cut"]
    <3>1. Min(todo) \in Backend  BY <2>1, BusyWithOne
    <3> QED BY <2>1, <3>1, FilesStayResults
  <2> QED BY <1>1, <1>6, <2>1 DEF Kill
<1>7. CASE Edit \/ Build \/ Move \/ BeginAny \/ Collate \/ Recollate \/ Dashboard
  BY <1>1, <1>7 DEF Edit, Build, Move, BeginAny, Begin, Collate, Recollate, Dashboard
<1>8. CASE UNCHANGED vars  BY <1>1, <1>8 DEF vars
<1> QED BY <1>2, <1>3, <1>4, <1>5, <1>6, <1>7, <1>8, StartsBegin DEF Next

\* The steps that make tables or a page of files, and the others.
Remade(q, m) ==
    \E files \in SUBSET Backend :
        /\ files # {} /\ Readable(files)
        /\ q = [cpu |-> Or(cpu_model(files), m), of |-> Loaded(files)]

LEMMA HowTablesChange ==
    ASSUME TypeOK, [Next]_vars
    PROVE  \/ tables' = tables \/ tables' = Nothing
           \/ Remade(tables', machine)
<1>1. CASE Collate
  <2>1. json_files \in SUBSET Backend /\ json_files # {}
    BY <1>1 DEF Collate, TypeOK
  <2> QED BY <1>1, <2>1 DEF Collate, Written, Remade
<1>2. CASE Recollate
  <2>1. Present \in SUBSET Backend  BY DEF Present
  <2> QED BY <1>2, <2>1 DEF Recollate, Written, Remade
<1>3. CASE Clean  BY <1>3 DEF Clean
<1>4. CASE Edit \/ Build \/ Move \/ BeginAny \/ Dashboard \/ UNCHANGED vars
  BY <1>4 DEF Edit, Build, Move, BeginAny, Begin, Dashboard, vars
<1>5. CASE Open \/ ProgramEnds \/ ProgramFails \/ annotate_cpu \/ Kill
  BY <1>5 DEF Open, ProgramEnds, ProgramFails, annotate_cpu, Kill
<1> QED BY <1>1, <1>2, <1>3, <1>4, <1>5, StartsBegin DEF Next

LEMMA HowThePageChanges ==
    ASSUME TypeOK, [Next]_vars
    PROVE  page' = page \/ Remade(page', tables.cpu)
<1>1. CASE Dashboard
  <2>1. Present \in SUBSET Backend  BY DEF Present
  <2> QED BY <1>1, <2>1 DEF Dashboard, Remade
<1>2. CASE Edit \/ Build \/ Move \/ Clean \/ BeginAny \/ UNCHANGED vars
  BY <1>2 DEF Edit, Build, Move, Clean, BeginAny, Begin, vars
<1>3. CASE Open \/ ProgramEnds \/ ProgramFails \/ annotate_cpu \/ Kill
  BY <1>3 DEF Open, ProgramEnds, ProgramFails, annotate_cpu, Kill
<1>4. CASE Collate \/ Recollate  BY <1>4 DEF Collate, Recollate
<1> QED BY <1>1, <1>2, <1>3, <1>4, StartsBegin DEF Next

LEMMA TypeStep == ASSUME TypeOK, [Next]_vars PROVE TypeOK'
<1>1. machine \in Machine \cup {None} /\ tables.cpu \in Machine \cup {None}
  BY DEF TypeOK
<1>2. Presentable(tables) /\ Presentable(page)  BY DEF TypeOK, Presentable
<1>3. Presentable(tables')
  BY <1>1, <1>2, HowTablesChange, NothingIsPresentable, LoadedIsPresentable DEF Remade
<1>4. Presentable(page')
  BY <1>1, <1>2, HowThePageChanges, LoadedIsPresentable DEF Remade
<1>5. RunnerTypeOK' /\ WorldTypeOK' /\ file' \in [Backend -> Result]
  BY RunnerType, WorldType, FileType
<1> QED BY <1>3, <1>4, <1>5 DEF TypeOK, RunnerTypeOK, WorldTypeOK, Presentable

-----------------------------------------------------------------------------
(* The files: whose they are, and what they say.                           *)

\* While the runner is idle it has no files.
LEMMA IdleHasNoFiles == ASSUME TypeOK, pc = "idle" PROVE json_files = {}
BY DEF TypeOK

\* A program's report and an annotation leave a file with its run; only they,
\* and a runner killed while it annotates, change the file of a busy runner.
LEMMA RewritingKeepsTheRun ==
    ASSUME TypeOK, NEW a \in Backend, NEW b \in Backend, OfThisRun(file[b], b)
    PROVE  /\ OfThisRun(Reported(a)[b], b)
           /\ OfThisRun([file EXCEPT ![a].cpu = machine][b], b)
<1>1. file \in [Backend -> Result]  BY DEF TypeOK
<1>2. file[b].run = run /\ file[b].machine = machine /\ file[b].revision = program[b]
  BY DEF OfThisRun
<1>3. CASE a # b  BY <1>1, <1>2, <1>3 DEF OfThisRun, Reported
<1>4. CASE a = b  BY <1>1, <1>2, <1>4 DEF OfThisRun, Reported, Result
<1> QED BY <1>3, <1>4

LEMMA ThisRunStep == ASSUME TypeOK, ThisRun, [Next]_vars PROVE ThisRun'
<1> SUFFICES ASSUME NEW b \in json_files', b \notin Ahead'
             PROVE  OfThisRun(file[b], b)'
  BY DEF ThisRun
<1>1. CASE pc = "idle" /\ UNCHANGED runner
  BY <1>1, IdleHasNoFiles DEF runner
<1>2. CASE Stop  BY <1>2 DEF Stop
<1>3. CASE BeginAny  BY <1>3 DEF BeginAny, Begin, Ahead
<1>4. CASE Open
  <2>1. UNCHANGED <<json_files, todo, run, machine, program>> /\ pc' = "program"
    BY <1>4 DEF Open, build
  <2>2. file \in [Backend -> Result] /\ b \in Backend  BY <2>1 DEF TypeOK
  <2>3. CASE b = Min(todo)
    <3>1. file'[b] = [NoFile EXCEPT !.content = "cut", !.run = run,
                                    !.machine = machine, !.revision = program[b]]
      BY <1>4, <2>2, <2>3 DEF Open
    <3> QED BY <2>1, <3>1 DEF OfThisRun, NoFile
  <2>4. CASE b # Min(todo)
    <3>1. b \notin todo  BY <2>1, <2>4 DEF Ahead
    <3>2. OfThisRun(file[b], b)  BY <2>1, <3>1 DEF ThisRun, Ahead
    <3>3. file'[b] = file[b]  BY <1>4, <2>2, <2>4 DEF Open
    <3> QED BY <2>1, <3>2, <3>3 DEF OfThisRun
  <2> QED BY <2>3, <2>4
<1>5. CASE ProgramEnds
  <2>1. UNCHANGED <<json_files, run, machine, program>>  BY <1>5 DEF ProgramEnds, build
  <2>2. Min(todo) \in Backend /\ b \in Backend
    BY <1>5, <2>1, BusyWithOne DEF ProgramEnds, TypeOK
  <2>3. b \notin Ahead  BY <1>5 DEF ProgramEnds, Ahead
  <2>4. OfThisRun(file[b], b)  BY <2>1, <2>3 DEF ThisRun
  <2>5. file' = Reported(Min(todo))  BY <1>5 DEF ProgramEnds
  <2> QED BY <2>1, <2>2, <2>4, <2>5, RewritingKeepsTheRun DEF OfThisRun
<1>6. CASE annotate_cpu
  <2>1. UNCHANGED <<json_files, run, machine, program>>  BY <1>6 DEF annotate_cpu, build
  <2>2. Min(todo) \in Backend /\ b \in Backend
    BY <1>6, <2>1, BusyWithOne DEF annotate_cpu, TypeOK
  <2>3. b \notin Ahead  BY <1>6 DEF annotate_cpu, Ahead
  <2>4. OfThisRun(file[b], b)  BY <2>1, <2>3 DEF ThisRun
  <2>5. file' = [file EXCEPT ![Min(todo)].cpu = machine]  BY <1>6 DEF annotate_cpu
  <2> QED BY <2>1, <2>2, <2>4, <2>5, RewritingKeepsTheRun DEF OfThisRun
<1>7. CASE Collate \/ Kill \/ ProgramFails
  BY <1>2, <1>7 DEF Collate, Kill, ProgramFails
<1>8. CASE Edit \/ Build \/ Move \/ Clean \/ Recollate \/ Dashboard
  BY <1>1, <1>8 DEF Edit, Build, Move, Clean, Recollate, Dashboard
<1>9. CASE UNCHANGED vars
  BY <1>9 DEF vars, runner, build, ThisRun, Ahead, OfThisRun
<1> QED BY <1>3, <1>4, <1>5, <1>6, <1>7, <1>8, <1>9, StartsBegin DEF Next

LEMMA PlansStay == ASSUME [Next]_vars PROVE plans' = plans
BY DEF Next, vars, Edit, Build, Move, Clean, Start, Make, Begin, Open, ProgramEnds,
       ProgramFails, annotate_cpu, Kill, Collate, Recollate, Dashboard

\* A file that is emptied claims nothing.
LEMMA CutIsHonest ==
    ASSUME NEW b, NEW f, f.content # "whole", f.cpu \in {None, f.machine}
    PROVE  Honest(b, f)
BY DEF Honest

LEMMA ReportIsHonest ==
    ASSUME TypeOK, FilesHonest, NEW a \in Backend, NEW b \in Backend
    PROVE  Honest(b, Reported(a)[b])
<1>1. file \in [Backend -> Result] /\ Honest(b, file[b])  BY DEF TypeOK, FilesHonest
<1>2. CASE a # b  BY <1>1, <1>2 DEF Reported
<1>3. CASE a = b
  <2>1. Reported(a)[b] = [file[b] EXCEPT !.content = "whole", !.execute = plans[b],
                                         !.plan_create = Length]
    BY <1>1, <1>3 DEF Reported, Timed, Created
  <2> QED BY <1>1, <2>1 DEF Honest, Result
<1> QED BY <1>2, <1>3

LEMMA FilesHonestStep ==
    ASSUME TypeOK, FilesHonest, ThisRun, [Next]_vars
    PROVE  FilesHonest'
<1>0. plans' = plans  BY PlansStay
<1> SUFFICES ASSUME NEW b \in Backend PROVE Honest(b, file'[b])
  BY <1>0 DEF FilesHonest, Honest
<1>1. file \in [Backend -> Result] /\ Honest(b, file[b])  BY DEF TypeOK, FilesHonest
<1>2. CASE file'[b] = file[b]  BY <1>1, <1>2
<1>3. CASE Clean  BY <1>3 DEF Clean, NoFile, Honest
<1>4. CASE Open
  <2>1. CASE b = Min(todo)
    <3>1. file'[b].content = "cut" /\ file'[b].cpu = None
      BY <1>1, <1>4, <2>1 DEF Open, NoFile
    <3> QED BY <3>1, CutIsHonest
  <2> QED BY <1>1, <1>2, <1>4, <2>1 DEF Open
<1>5. CASE ProgramEnds \/ ProgramFails
  <2>1. Min(todo) \in Backend
    BY <1>5, BusyWithOne DEF ProgramEnds, ProgramFails
  <2> QED BY <1>2, <1>5, <2>1, ReportIsHonest DEF ProgramEnds, ProgramFails
<1>6. CASE annotate_cpu
  <2>1. CASE b = Min(todo)
    <3>1. b \in json_files /\ b \notin Ahead
      BY <1>6, <2>1, BusyWithOne DEF annotate_cpu, Ahead
    <3>2. file[b].machine = machine  BY <3>1 DEF ThisRun, OfThisRun
    <3>3. file'[b] = [file[b] EXCEPT !.cpu = machine]
      BY <1>1, <1>6, <2>1 DEF annotate_cpu
    <3> QED BY <1>1, <3>2, <3>3 DEF Honest, Result
  <2> QED BY <1>1, <1>2, <1>6, <2>1 DEF annotate_cpu
<1>7. CASE Kill
  <2>1. CASE b = Min(todo) /\ file' = [file EXCEPT ![Min(todo)].content = "cut"]
    <3>1. file'[b] = [file[b] EXCEPT !.content = "cut"]  BY <1>1, <2>1
    <3> QED BY <1>1, <3>1 DEF Honest, Result
  <2> QED BY <1>1, <1>2, <1>7, <2>1 DEF Kill
<1>8. CASE Edit \/ Build \/ Move \/ BeginAny \/ Collate \/ Recollate \/ Dashboard
  BY <1>2, <1>8 DEF Edit, Build, Move, BeginAny, Begin, Collate, Recollate, Dashboard
<1>9. CASE UNCHANGED vars  BY <1>2, <1>9 DEF vars
<1> QED BY <1>3, <1>4, <1>5, <1>6, <1>7, <1>8, <1>9, StartsBegin DEF Next

-----------------------------------------------------------------------------
(* What is shown, and what make builds.                                    *)

LEMMA RemadeIsFaithful ==
    ASSUME TypeOK, FilesHonest, NEW q, NEW m, Remade(q, m)
    PROVE  Faithful(q)
<1>1. PICK files \in SUBSET Backend :
        /\ files # {} /\ Readable(files)
        /\ q = [cpu |-> Or(cpu_model(files), m), of |-> Loaded(files)]
  BY DEF Remade
<1>2. DOMAIN q.of = files /\ \A b \in files : q.of[b] = file[b]
  BY <1>1 DEF Loaded
<1>3. \A b \in files : q.of[b].content = "whole" /\ Honest(b, q.of[b])
  BY <1>1, <1>2 DEF Readable, FilesHonest
<1>4. Min(files) \in files  BY <1>1, FirstIsOne
<1>5. q.of[Min(files)] = file[Min(files)]  BY <1>2, <1>4
<1>6. q.cpu = Or(file[Min(files)].cpu, m)  BY <1>1 DEF cpu_model
<1> QED BY <1>2, <1>3, <1>5, <1>6 DEF Faithful, Or

LEMMA NothingIsFaithful == Faithful(Nothing)
BY DEF Faithful, Nothing

LEMMA ShownHonestStep ==
    ASSUME TypeOK, FilesHonest, ShownHonest, [Next]_vars
    PROVE  ShownHonest'
<1>1. Faithful(tables) /\ Faithful(page)  BY DEF ShownHonest
<1>2. Faithful(tables')
  BY <1>1, HowTablesChange, NothingIsFaithful, RemadeIsFaithful
<1>3. Faithful(page')  BY <1>1, HowThePageChanges, RemadeIsFaithful
<1> QED BY <1>2, <1>3, PlansStay DEF ShownHonest, Faithful, Honest

LEMMA BuiltFirstStep == ASSUME TypeOK, BuiltFirst, [Next]_vars PROVE BuiltFirst'
<1>1. CASE pc' = "idle"  BY <1>1 DEF BuiltFirst
<1>2. CASE Start  BY <1>2 DEF Start, Begin, BuiltFirst
<1>3. CASE Make
  <2>1. revision # 0 /\ configured \subseteq Backend
    BY CountsAssumption DEF TypeOK
  <2>2. UNCHANGED <<configured, revision>> /\ program' = Built
        /\ json_files' = discover_backends(Built) \cap Backend
    BY <1>3 DEF Make, Begin
  <2>3. \A b \in configured : Built[b] = revision /\ b \in json_files'
    BY <2>1, <2>2 DEF Built, discover_backends
  <2> QED BY <2>2, <2>3 DEF BuiltFirst
<1>4. CASE Open \/ ProgramEnds \/ annotate_cpu
  BY <1>4 DEF Open, ProgramEnds, annotate_cpu, build, BuiltFirst
<1>5. CASE Stop  BY <1>1, <1>5 DEF Stop
<1>6. CASE pc = "idle" /\ UNCHANGED runner  BY <1>1, <1>6 DEF runner
<1>7. CASE UNCHANGED vars  BY <1>7 DEF vars, runner, build, BuiltFirst
<1> QED BY <1>2, <1>3, <1>4, <1>5, <1>6, <1>7 DEF Next, Edit, Build, Move, Clean,
          ProgramFails, Kill, Collate, Recollate, Dashboard

-----------------------------------------------------------------------------
(* The inductive invariant.                                                *)

LEMMA InitInv == Init => IInv
<1> SUFFICES ASSUME Init PROVE IInv  OBVIOUS
<1>1. FilesHonest  BY DEF Init, FilesHonest, Honest, NoFile
<1>2. ShownHonest  BY NothingIsFaithful DEF Init, ShownHonest
<1>3. ThisRun /\ BuiltFirst  BY DEF Init, ThisRun, BuiltFirst
<1> QED BY <1>1, <1>2, <1>3, TypeInit DEF IInv

LEMMA NextInv == IInv /\ [Next]_vars => IInv'
BY TypeStep, FilesHonestStep, ShownHonestStep, ThisRunStep, BuiltFirstStep DEF IInv

LEMMA Invariance == Spec => []IInv
BY InitInv, NextInv, PTL DEF Spec

\* Every variable keeps its shape, and a busy runner has files to collate.
THEOREM TypeCorrect == Spec => []TypeOK
<1>1. IInv => TypeOK  BY DEF IInv
<1> QED BY <1>1, Invariance, PTL

\* run_execute() and load_results(): tables and page show complete files only,
\* and no latency of a plan that could not be made.
THEOREM OnlyMeasurementsShown == Spec => []ShowsOnlyMeasurements
<1>1. IInv => ShowsOnlyMeasurements
  BY DEF IInv, ShownHonest, Faithful, Honest, ShowsOnlyMeasurements
<1> QED BY <1>1, Invariance, PTL

\* annotate_cpu() and cpu_model(): what is made of files that one machine wrote
\* bears its name, if the first of them was annotated.
THEOREM MachineNamed == Spec => []NamesTheMachine
<1>1. IInv => NamesTheMachine
  <2> SUFFICES ASSUME IInv, NEW p \in {tables, page},
                      DOMAIN p.of # {},
                      \A a, b \in DOMAIN p.of : p.of[a].machine = p.of[b].machine,
                      p.of[Min(DOMAIN p.of)].cpu # None,
                      NEW b \in DOMAIN p.of
               PROVE  p.cpu = p.of[b].machine
    BY DEF NamesTheMachine
  <2>1. Faithful(p) /\ DOMAIN p.of \in SUBSET Backend
    BY DEF IInv, ShownHonest, TypeOK
  <2>2. Min(DOMAIN p.of) \in DOMAIN p.of  BY <2>1, FirstIsOne
  <2>3. p.cpu = p.of[Min(DOMAIN p.of)].cpu  BY <2>1 DEF Faithful
  <2>4. p.of[Min(DOMAIN p.of)].cpu = p.of[Min(DOMAIN p.of)].machine
    BY <2>1, <2>2 DEF Faithful, Honest
  <2> QED BY <2>2, <2>3, <2>4
<1> QED BY <1>1, Invariance, PTL

\* Only the end of a run makes tables at that point.
LEMMA TablesAreCollated ==
    ASSUME TypeOK, [Next]_vars, TablesOfARun
    PROVE  Collate
<1>1. pc = "collate" /\ tables' # tables  BY DEF TablesOfARun
<1> QED BY <1>1 DEF Next, vars, Edit, Build, Move, Clean, Start, Make, Begin, Open,
          ProgramEnds, ProgramFails, annotate_cpu, Kill, Recollate, Dashboard

\* What Collate writes: this run's file for each of its backends.
LEMMA CollatedFiles ==
    ASSUME IInv, Collate
    PROVE  /\ tables'.cpu = Or(cpu_model(json_files), machine)
           /\ DOMAIN tables'.of = json_files
           /\ \A b \in json_files :
                 tables'.of[b] = file[b] /\ OfThisRun(tables'.of[b], b)
<1>1. tables' = [cpu |-> Or(cpu_model(json_files), machine), of |-> Loaded(json_files)]
  BY DEF Collate, Written
<1>2. Ahead = {}  BY DEF Collate, Ahead
<1> QED BY <1>1, <1>2 DEF Loaded, IInv, ThisRun

\* collate_*(): the tables of a run show what this run measured, all of it and
\* nothing else, and the machine it ran on.
THEOREM RunsShowThemselves == Spec => RunShowsItself
<1>1. IInv /\ [Next]_vars =>
        (TablesOfARun =>
            /\ DOMAIN tables'.of = json_files
            /\ \A b \in json_files :
                  /\ tables'.of[b].run = run
                  /\ tables'.of[b].machine = machine
                  /\ tables'.of[b].revision = program[b]
            /\ tables'.cpu = machine)
  <2> SUFFICES ASSUME IInv, [Next]_vars, TablesOfARun
               PROVE  /\ DOMAIN tables'.of = json_files
                      /\ \A b \in json_files : OfThisRun(tables'.of[b], b)
                      /\ tables'.cpu = machine
    BY DEF OfThisRun
  <2>1. Collate  BY TablesAreCollated DEF IInv
  <2>2. json_files \in SUBSET Backend /\ json_files # {}
    BY <2>1 DEF Collate, IInv, TypeOK
  <2>3. Min(json_files) \in json_files  BY <2>2, FirstIsOne
  <2>4. file[Min(json_files)].machine = machine
    BY <2>1, <2>3, CollatedFiles DEF OfThisRun
  <2>5. cpu_model(json_files) \in {None, machine}
    BY <2>2, <2>3, <2>4 DEF IInv, FilesHonest, Honest, cpu_model
  <2>6. Or(cpu_model(json_files), machine) = machine  BY <2>5 DEF Or
  <2> QED BY <2>1, <2>6, CollatedFiles
<1> QED BY <1>1, Invariance, PTL DEF Spec, RunShowsItself

\* The benchmarks target builds before it runs: no configured backend is shown
\* as of an older state of the source, or left out.
THEOREM MakeIsCurrent == Spec => MakeMeasuresTheSource
<1>1. IInv /\ [Next]_vars =>
        (TablesOfARun /\ made =>
            \A b \in configured :
               b \in DOMAIN tables'.of /\ tables'.of[b].revision = revision)
  <2> SUFFICES ASSUME IInv, [Next]_vars, TablesOfARun, made, NEW b \in configured
               PROVE  b \in DOMAIN tables'.of /\ tables'.of[b].revision = revision
    OBVIOUS
  <2>1. Collate  BY TablesAreCollated DEF IInv
  <2>2. b \in json_files /\ program[b] = revision
    BY <2>1 DEF Collate, IInv, BuiltFirst
  <2> QED BY <2>1, <2>2, CollatedFiles DEF OfThisRun
<1> QED BY <1>1, Invariance, PTL DEF Spec, MakeMeasuresTheSource

=============================================================================
