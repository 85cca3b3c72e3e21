SPECIFICATION Spec
CONSTANTS
    Soft <- MCSoft
    Hard <- MCHard
    Names <- MCNames
    Bad <- MCBad
    Invalid <- MCInvalid
    Installed <- MCInstalled
    Texts <- MCTexts
    Include = {i1, i2}
    Down = Down
    Rev = {r1, r2}
    MaxDep = 2
    Adapters <- MCAdapters
    MaxEdits = 1
    MaxFaults = 1
CHECK_DEADLOCK FALSE
SYMMETRY Symmetry
INVARIANTS WrittenOnce BrokerLeftUp
PROPERTIES HandEditKept StatusIsTrue
