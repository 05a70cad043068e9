\* Delay lines longer than a block; the library may fail at either channel.
CONSTANTS
    TapCount = 4
    BlockSize = 2
    Batch = 2
    Sample = {z, s}
    Zero = z
    MaxBlocks = 2
SPECIFICATION IppSpec
INVARIANTS IppTypeOK DelaysMoveTogether
PROPERTY KeepsPromise
