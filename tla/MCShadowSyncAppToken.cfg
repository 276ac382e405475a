CONSTANTS
    NoValueMV = NoValueMV
    NoTokenMV = NoTokenMV
    NoValue <- NoValueMV
    NoToken <- NoTokenMV
    Values <- MCValues
    Tokens <- MCTokens
    AppTokens <- MCAppTokensClash
    InitShadowReported <- MCInitShadowReported
    MaxVersion = 2
    MaxInFlight = 1
    MaxNotify = 2

SPECIFICATION Spec
INVARIANT SyncUnlessStale
