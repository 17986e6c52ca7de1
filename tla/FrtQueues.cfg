CONSTANTS
    MaxTasks = 4
    Prios = {1}
    MaxDelay = 1
    Cap = 2
    MaxItems = 3
    Guest = {"delete_blocked"}
SPECIFICATION Spec
INVARIANTS ExactlyOnce CallsTellTruth NoLostWakeup
PROPERTIES IsFifo
