CONSTANTS
    Unparsable = "bad"
    Arguments <- NamedPrefixes
    Words <- MCWords
    Files = {"f1", "f2"}
    Statements <- MCStatements
    Tree <- MCTree
    Environs <- MCEnvirons
    Levels <- MCLevels
    Cost <- MCCost
    Budget <- MCBudget
    ExitCodeOK = ExitCodeOK
    ExitCodeParseFlagsError = ExitCodeParseFlagsError
    ExitCodeConfigError = ExitCodeConfigError
    ExitCodeRunnerError = ExitCodeRunnerError
    NoCode = NoCode
SPECIFICATION Spec
INVARIANT
    PathlessIgnored
CHECK_DEADLOCK FALSE
