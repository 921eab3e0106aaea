CONSTANTS
    Unparsable = "bad"
    Arguments <- MCArguments
    Words <- MCWords
    Files = {"f1", "f2"}
    Statements <- MCStatements
    Tree <- MCTree
    Environs <- MCEnvirons
    Levels <- MCLevels
    Cost <- MCCost
    Budget <- MCBudget
    ExitCodeOK = ExitCodeOK
    ExitCodeParseFlagsError = ExitCodeParseFlagsError
    ExitCodeConfigError = ExitCodeConfigError
    ExitCodeRunnerError = ExitCodeRunnerError
    NoCode = NoCode
SPECIFICATION Spec
INVARIANTS
    TypeOK
    AsFreshStart
    Precedence
    BlocksInOrder
    FormatReachesItsService
    NoPrefixReachesFlagBlocks
    DeprecatedChangesOnlyItsOwn
    RunsOnlyValid
CHECK_DEADLOCK FALSE
