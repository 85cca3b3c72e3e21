SPECIFICATION Spec
CONSTANTS
    Path <- MCPath
    ACL = "acl"
    Passwd = "passwd"
    Body <- MCBody
    NoFile = NoFile
    Blank = Blank
    Version = {v1, v2}
    Foreign = Foreign
    MaxSalt = 1
    Rev = {r1, r2}
    Dep = {d1, d2}
    VerifyAttempts = 2
    MaxEdits = 1
    MaxAdopts = 1
    MaxTampers = 0
    MaxFaults = 1
    MayCancel = TRUE
    MayCrash = TRUE
CHECK_DEADLOCK FALSE
CONSTRAINT OneChange
SYMMETRY Symmetry
INVARIANTS RevisionReachesApplierOnce EveryApplyTracked BrokerSignalled
PROPERTIES StatusIsTrue
