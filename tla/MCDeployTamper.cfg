SPECIFICATION FairSpec
CONSTANTS
    Path <- MCPath
    ACL = "acl"
    Passwd = "passwd"
    Body <- MCBody
    NoFile = NoFile
    Blank = Blank
    Version = {v1, v2}
    Foreign = Foreign
    MaxSalt = 1
    Rev = {r1}
    Dep = {d1}
    VerifyAttempts = 2
    MaxEdits = 1
    MaxAdopts = 1
    MaxTampers = 1
    MaxFaults = 1
    MayCancel = FALSE
    MayCrash = FALSE
CHECK_DEADLOCK FALSE
INVARIANTS OwnedFilesRegistered
PROPERTIES ApplyEnds VerifiedIsServed
