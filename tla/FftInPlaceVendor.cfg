\* The backends whose library plans are out-of-place, given one buffer.
CONSTANTS
    Backends = {"mkl", "aocl", "armpl"}
    Lengths = {1, 2}
    Batches = {0, 1, 2}
    IntSize = 64
    CmsisMax = 15
    InPlace = {"mkl", "aocl", "armpl"}
    Memory = 4
SPECIFICATION Spec
INVARIANT BuffersHoldTheirContents
\* A program whose plans are made and whose buffers are lost may stop.
CHECK_DEADLOCK FALSE
