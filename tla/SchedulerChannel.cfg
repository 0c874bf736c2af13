SPECIFICATION FairSpec
CONSTANTS
    c1 = c1  c2 = c2  s1 = s1  s2 = s2
    NoAddr = NoAddr
    Calls <- MCCalls
    Resolvers <- MCResolvers
    Urls <- MCUrls
    MaxAttempts = 2
    MaxIdle = 1
    MaxMoves = 1
    MaxCalls = 3
INVARIANTS
    CTypeOK
    OneResolver
    FailureIsTrue
    NoConnectionLeaks
PROPERTIES
    RecorderSealed
    ChannelEnds
CHECK_DEADLOCK FALSE
