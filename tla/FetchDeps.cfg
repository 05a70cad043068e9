\* Two versions, one change of the version, and two configures killed: one
\* leaves a part of a tree or a tarball, another interrupts the repair.
CONSTANTS
    Fetchers = {"mkl", "armpl", "pocketfft", "ipp"}
    Version = {v1, v2}
    MaxKills = 2
    MaxBumps = 1
SPECIFICATION FairSpec
INVARIANTS TypeOK MarkedIsWhole UsesWhatIsPinned
PROPERTY Recovers
