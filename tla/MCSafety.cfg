CONSTANTS
    r1 = r1
    r2 = r2
    c1 = c1
    c2 = c2
    c3 = c3
    v1 = v1
    v2 = v2
    Runners = {r1, r2}
    NoRunner = NoRunner
    Children = {c1, c2, c3}
    NoChild = NoChild
    Envs <- MCEnvs
    NoEnv = NoEnv
    Codes <- MCCodes
    NoCode = NoCode
    success = success
    failure = failure
    ExitCodeOK = success
    Deps = {d1}
    Vals = {v1, v2}
    NoData = NoData
    MaxChanges = 1
    MaxErrs = 1
    Renders <- OneRender
    Configs <- MCConfigs
    OnceModes = {FALSE, TRUE}
    NoPath = NoPath
    PidFile = PidFile
    HUP = HUP
    INT = INT
    USR = USR
    CHLD = CHLD
    URG = URG
    Signals <- MCSignals
    NoSignal = NoSignal
    ReloadSignal = HUP
    KillSignal = INT
    SIGCHLD = CHLD
    RuntimeSig = URG
    MaxSent <- MCSent
SPECIFICATION MCSpec
INVARIANTS
    TypeOK
    SettledChildRunsCurrentEnv
    StopKillsWhatItSees
    OnceLaunchesOnce
    OneChildPerRunner
    StopsEachRunnerOnce
    PidFileWhileRunning
    ExitCodeGenuine
PROPERTY RefinesManagedChild
