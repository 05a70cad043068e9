\* As many lengths as slots.
CONSTANTS
    Thread = {t1, t2}
    Length = {n1, n2}
    Slots = 2
    CounterSize = 9
    Address = {a1, a2, a3, a4}
    MaxAccess = 4
SPECIFICATION FairSpec
INVARIANT ExecuteNeverPlans
PROPERTY EveryCallReturns
\* At the bound no call begins: the threads may stop.
CHECK_DEADLOCK FALSE
