CONSTANTS
    NoValueMV = NoValueMV
    NoTokenMV = NoTokenMV
    NoValue <- NoValueMV
    NoToken <- NoTokenMV
    Values <- MCValuesTwoDigits
    Tokens <- MCTokens
    AppTokens <- MCAppTokens
    InitShadowReported <- MCInitShadowReported
    MaxVersion = 1
    MaxInFlight = 1
    MaxNotify = 2

SPECIFICATION FairSpec
PROPERTY EventuallySynced
