CONSTANTS
    MaxTasks = 4
    Prios = {1, 2}
    Affinities <- AnyOrCore1
    MaxApp = 2
    MaxDelay = 1
    Guest = {}
SPECIFICATION Spec
INVARIANTS TypeOK RunningIsCurrent ContextIsOwn AffinityKept
PROPERTY DispatchIsUrgent
