\* A delay line shorter than the block: stale samples stay in the state vector.
CONSTANTS
    TapCount = 3
    BlockSize = 3
    Batch = 2
    Sample = {z, s}
    Zero = z
    MaxBlocks = 2
SPECIFICATION CmsisSpec
INVARIANTS CmsisTypeOK InstancesFollow
PROPERTY KeepsPromise
