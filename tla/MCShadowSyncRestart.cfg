CONSTANTS
    NoValueMV = NoValueMV
    NoTokenMV = NoTokenMV
    NoValue <- NoValueMV
    NoToken <- NoTokenMV
    Values <- MCValues
    Tokens <- MCTokens
    AppTokens <- MCAppTokens
    InitShadowReported <- MCStaleShadowReported
    MaxVersion = 2
    MaxInFlight = 1
    MaxNotify = 2

SPECIFICATION Spec
INVARIANT SyncWhenQuiescent
