CONSTANTS
    MaxTasks = 4
    Prios = {1}
    Affinities <- Core0
    MaxApp = 2
    MaxDelay = 1
    Guest = {}
SPECIFICATION FairSpec
PROPERTY NoStarvation
