CONSTANTS
    v1 = v1
    v2 = v2
    v3 = v3
    Names <- MCNames
    Blank = Blank
    Values <- MCValues
    Unset = Unset
    NoFormat = NoFormat
    Error = Error
    Prefixed <- MCPrefixed
    Formatted <- MCFormatted
    ServiceName <- MCServiceName
    PathValue <- MCPathValue
    Sanitized <- MCSanitized
    Upcased <- MCUpcased
    Nil = Nil
    NotString = NotString
    Configs <- MCConfigs
    Payloads <- MCPayloads
    OsEnv <- MCOsEnv
    Runs = 2
SPECIFICATION Spec
INVARIANTS
    TypeOK
    VaultPrecedence
    BottomMostWins
    SanitizedNames
    ListsDecide
