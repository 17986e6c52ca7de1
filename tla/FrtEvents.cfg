CONSTANTS
    MaxTasks = 4
    Prios = {1}
    MaxDelay = 1
    Bits = {b1, b2}
SYMMETRY BitSymmetry
SPECIFICATION Spec
INVARIANT NoEventMissed
PROPERTY ResultTellsOutcome
