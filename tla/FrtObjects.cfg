CONSTANTS
    MaxTasks = 4
    Prios = {1}
    MaxDelay = 1
    MaxCount = 2
    Initial = 0
    MaxGives = 3
    MaxDepth = 2
    Guest = {"counting", "mutex", "recursive", "delete_blocked"}
    Takers = {1}
    Slots = {0, 1}
    MaxNotify = 2
    NotifyGives = 3
    RingCapacity = 3
    MaxRingItems = 2
    Sizes = {1, 2}
    ItemBytes = 5
    StreamBytes = 6
    RingReceivers = {1}
    MailItems = 2
    PeekedItems = 1
SPECIFICATION ObjectsSpec
INVARIANTS Accounted WakeupsArrive MutualExclusion StreamPreserved
PROPERTY AnswerTellsOutcome
