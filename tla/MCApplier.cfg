SPECIFICATION FairSpec
CONSTANTS
    Path <- MCPath
    Passwd = "passwd"
    Body = {v1}
    NoFile = NoFile
    Blank = Blank
    Requests <- MCRequestsWF
    Rank <- MCRank
    CanSignal = TRUE
    AckLost = TRUE
CHECK_DEADLOCK FALSE
INVARIANTS AllOrNothing
PROPERTIES ImplementsPromise BrokerCatchesUp
