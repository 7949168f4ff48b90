\* Two browsers, tokens of one second, two logins in a window of one second, one fault.
SPECIFICATION FairGateSpec
CONSTANTS
    Pages = {c1, c2}
    NoToken = NoToken
    TTL = 1
    Limit = 1
    Window = 2
    MaxFaults = 1
INVARIANT GateTypeOK
INVARIANT RevokedIsRefused
INVARIANT AtMostTwiceTheLimit
PROPERTY SessionsEndForACause
PROPERTY DeadSessionEnds
CHECK_DEADLOCK FALSE
