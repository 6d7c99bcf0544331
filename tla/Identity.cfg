\* Two requests on one session of each service; one of them may fail.
CONSTANTS
    Requests = {r1, r2}
    NoValue = none
    MaxFaults = 1
    People = {p1, p2}
    NoOne = nobody
    Tasks = {t1, t2}
    MaxDone = 2
SPECIFICATION ISpec
INVARIANTS ITypeOK OncePerSession EvidenceShown StatusHonest CustomerTold
PROPERTIES ProvisioningEnds
CHECK_DEADLOCK FALSE
