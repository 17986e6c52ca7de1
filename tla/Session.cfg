CONSTANTS
    Mhz = 2
    SliceUs = 2
    BatchCycles = {3}
    Runs = {2}
    Waits = {1}
    Alarms = {2}
    MaxClock = 2
    MaxResets = 2
SPECIFICATION FairSpec
INVARIANTS InStep WakesRight
PROPERTIES AcrossResets SleepEnds
