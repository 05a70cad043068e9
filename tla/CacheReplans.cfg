\* Three lengths, two slots: the smallest program that evicts the transform of a
\* plan it still owns.  The counter stays below the bound and never overflows.
CONSTANTS
    Thread = {t1, t2}
    Length = {n1, n2, n3}
    Slots = 2
    CounterSize = 9
    Address = {a1, a2, a3, a4}
    MaxAccess = 6
SPECIFICATION Spec
SYMMETRY Symmetry
INVARIANT ExecuteNeverPlans
\* At the bound no call begins: the threads may stop.
CHECK_DEADLOCK FALSE
