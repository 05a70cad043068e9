\* Two backends, so that a run may end between them; two revisions, so that a
\* program may be out of date; two machines and two runs, so that the files may
\* be of several.
CONSTANTS
    Backends = 2
    Length = {n1}
    Machine = {m1, m2}
    MaxRevisions = 2
    MaxRuns = 2
SPECIFICATION Spec
INVARIANTS TypeOK ShowsOnlyMeasurements NamesTheMachine
PROPERTIES RunShowsItself MakeMeasuresTheSource
