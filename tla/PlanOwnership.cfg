\* Two places for plans besides the Result, and three states: one in each, or
\* two alive and one lost by a create that threw.
CONSTANTS
    Backends = {"pocketfft", "mkl", "aocl", "armpl", "cmsis_fft",
                "ipp", "cmsis_fir", "portable", "liquid",
                "fftw", "kfr_fft", "kfr_fir"}
    Place = {p, q}
    Address = {a1, a2, a3}
    Null = Null
SPECIFICATION Spec
INVARIANTS TypeOK SoleOwner OwnsAllItNeeds NothingLost
\* Once creates that threw have lost every state, no create begins any more.
CHECK_DEADLOCK FALSE
