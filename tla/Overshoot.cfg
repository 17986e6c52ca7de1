CONSTANTS
    Sources = {"t0", "ext"}
    CpuModulus = 8
    Offsets = {1, 3}
    MaxChain = 2
    MaxDepth = 1
    ExcmLevel = 3
    Fns = {"a", "b"}
    Slots = 2
    Delays = {0, 2}
    EventModulus = 8
    Starts = {0, 5, 6, 7}
    MaxCycles = 2
SPECIFICATION CpuSpec
INVARIANT OvershootKeepsTick
