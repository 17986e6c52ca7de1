CONSTANTS
    MaxSwTimers = 2
    SwPeriods = {0, 2}
    SwTime = 4
    SwCmds = 2
    MaxEspTimers = 2
    EspPeriods = {1, 2}
    EspTime = 3
    EspSkew = 2
    EspCmds = 1
    HalfRange = 8
    Increments = {1, 2, 5}
    SleepCap = 6
    DelayHorizon = 40
    TimerCores = {0}
    WdtCores = {0, 1}
    GroupTimers = {"t0"}
    GroupRadix = 3
    GroupPeriod = 3
    GroupCpuHz = 3
    GroupApbHz = 2
    GroupConfigs <- TimerConfigs
    GroupLoads = {1}
    WdtConfigs <- WatchdogConfigs
    Holds = {0, 2}
    Prescalers = {1, 2}
    HoldStages = {1}
    GroupRun = 1
    GroupSkew = 1
    SysUnits = {0}
    SysAlarms = {0}
    SysRadix = 2
    SysModulus = 4
    SysCpuHz = 3
    SysTimerHz = 2
    SysPeriods = {1}
    SysLoads = {0}
    SysRun = 1
SPECIFICATION ServicesSpec
INVARIANTS OnTime SyncIsAdditive AlarmsExact
PROPERTIES CommandsHonoured OverdueServed
