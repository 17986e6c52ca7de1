CONSTANTS
    MaxTasks = 4
    Prios = {1}
    MaxDelay = 1
    Bits = {1, 2}
SPECIFICATION BarrierSpec
INVARIANT BarrierOpens
