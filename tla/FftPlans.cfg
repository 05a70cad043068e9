\* Every backend with two buffers, and with one those that transform in place.
\* 12 is beyond CMSIS's limit and a power of two (4) after the cast, 11 is a
\* length AOCL has no real transform for, 4 the first with a bin between DC and
\* Nyquist.
CONSTANTS
    Backends = {"pocketfft", "cmsis", "mkl", "aocl", "armpl",
                "fftw", "kfr"}
    Lengths = {0, 1, 2, 3, 4, 11, 12}
    Batches = {0, 1, 2}
    IntSize = 64
    CmsisMax = 7
    InPlace = {"pocketfft", "cmsis"}
    Memory = 24
SPECIFICATION Spec
INVARIANTS BuffersHoldTheirContents PlansWhatWasAsked
\* A program whose plans are all made and whose buffers are lost may stop.
CHECK_DEADLOCK FALSE
