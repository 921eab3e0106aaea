CONSTANTS
    Runners = {r1}
    NoRunner = NoRunner
    Children = {c1, c2}
    NoChild = NoChild
    Envs <- MCEnvs
    NoEnv = NoEnv
    Codes <- MCCodes
    NoCode = NoCode
    success = success
    failure = failure
    ExitCodeOK = success
    Deps = {d1}
    Vals = {v1, v2}
    NoData = NoData
    MaxChanges = 1
    MaxErrs = 0
    Renders <- OneRender
    Configs <- NoWaitPid
    OnceModes = {FALSE}
    NoPath = NoPath
    PidFile = PidFile
    HUP = HUP
    INT = INT
    USR = USR
    CHLD = CHLD
    URG = URG
    Signals <- MCSignals
    NoSignal = NoSignal
    ReloadSignal = HUP
    KillSignal = INT
    SIGCHLD = CHLD
    RuntimeSig = URG
    MaxSent <- JustKill
SPECIFICATION Spec
INVARIANT PidRemovedOnExit
