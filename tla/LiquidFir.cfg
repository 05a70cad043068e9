\* A delay line as long as a block, two firfilt objects.
CONSTANTS
    TapCount = 3
    BlockSize = 2
    Batch = 2
    Sample = {z, s}
    Zero = z
    MaxBlocks = 2
SPECIFICATION LiquidSpec
INVARIANTS LiquidTypeOK WindowsFollow
PROPERTY KeepsPromise
