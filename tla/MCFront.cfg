SPECIFICATION FrontSpec
VIEW MCView
CHECK_DEADLOCK FALSE
CONSTANTS
    Pairs <- MCPairs
    Actors <- MCActors
    Preloaded = {TRUE, FALSE}
    NewAccounts <- MCNewAccounts
    NewRoles = {"tourist", "admin"}
    Switched <- MCSwitched
    AuditEvery = 0
    Repeat = 0
    MaxNow = 1
    MaxCalls = 3
    Parts = {"console", "clock", "locks", "rates"}
    Told = {"walkthrough", "normal", "entry", "separation", "offline"}
    Speeds = {0, 1, 300}
    Elapsed = {1, 5}
    Steps = {60}
    Overtime = 2
    Users = {"u1"}
    Addresses = {"a1", "a2"}
    Limit <- MCLimit
    LockFor <- MCLockFor
    Forgive = 3
    Forget = 4
    TableSize = 4
    Requests <- MCRequests
    Proxies = {"proxy"}
    Plausible = {"x", "y"}
    Tokens = {"tok"}
    Rate <- MCRate
    Burst <- MCBurst
    LabCost = 2
    Idle = 2
    MaxRequests = 5
    MaxElapsed = 3
INVARIANTS
    IdentityKept
    RunKeepsTime
    RateIsHeld
PROPERTIES
    ServedByRight
    GuessesAreBounded
