SPECIFICATION Spec
CHECK_DEADLOCK FALSE
CONSTANTS
    Parts = {"touching"}
    Edits = 1
    MaxVertices = 6
    MaxHoles = 2
    MaxRegions = 3
    Records = {r1, r2}
    MaxLog = 5
    MaxRoots = 1
    MaxSaved = 2
    Elements = {1, 2, 3, 4, 5}
    MaxUnions = 4
    Devices = {1, 2}
    MaxMade = 2
    MaxSent = 2
    MaxRestarts = 1
    Tourists = {1}
    Zones = {"zone"}
    Severities = {2, 4}
    WarningSeverity = 4
    BreachSeverity = 3
    Ttl = 1
    Timeout = 1
    Period = 1
    MaxOnBoard = 2
    MaxQueued = 2
    MaxTrips = 1
    MaxTime = 2
SYMMETRY MCSymmetry
INVARIANTS
    NestsOnlyWhatItHolds
