\* One length more than slots: transforms are evicted while others use them,
\* and the counter overflows, again and again: nothing bounds the calls.
CONSTANTS
    Thread = {t1, t2}
    Length = {n1, n2, n3}
    Slots = 2
    CounterSize = 6
    Address = {a1, a2, a3, a4}
    MaxAccess = 6
SPECIFICATION Spec
SYMMETRY Symmetry
INVARIANTS TypeOK OneSlotPerLength StampsFollowUse
PROPERTY RunsCachedTransform
