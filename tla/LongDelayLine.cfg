\* The block is shorter than the delay line: after a call the history mixes
\* samples of this block with older ones.
CONSTANTS
    TapCount = 4
    BlockSize = 2
    Batch = 2
    Sample = {z, s}
    Zero = z
    MaxBlocks = 3
SPECIFICATION Spec
INVARIANTS
    TypeOK
    HistoryFollows
    OutputIsConvolution
    ScratchWithinReserve
PROPERTY KeepsPromise
