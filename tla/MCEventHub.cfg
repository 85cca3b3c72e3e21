SPECIFICATION FairSpec
CONSTANTS
    Stream = {s1}
    User = {u1}
    UserOf <- MCUserOf
    MaxLogs = 1
    MaxReplay = 1
    MaxTraffic = 2
    Spare = 1
    MaxEvents = 4
INVARIANTS ReplayFits StreamIsExact ChannelsSound
PROPERTIES RevokedStreamEnds
CHECK_DEADLOCK FALSE
