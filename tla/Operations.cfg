\* Two requests on one row of each service; one of them may fail.
CONSTANTS
    Requests = {r1, r2}
    NoValue = none
    MaxFaults = 1
    MaxMisses = 4
    Threshold = 2
    MaxMirrored = 1
    Docs = 2
    MaxPushed = 3
    MaxVaults = 2
    MaxLaunches = 2
    MaxTimers = 2
    Accounts = {a, b}
    HashTtl = 1
    MaxTicks = 2
    Places = {0, 16}
    Devices = {24}
    Radius = 10
    CacheTtl = 1
    MaxHours = 2
SPECIFICATION OSpec
INVARIANTS OTypeOK CountsHonest AlertsRaised StatusJustified
PROPERTIES OperationsSettle
CHECK_DEADLOCK FALSE
