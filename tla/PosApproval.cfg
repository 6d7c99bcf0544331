\* Two requests overlap, one may die, one statement may throw.
CONSTANTS
    Requests = {r1, r2}
    Flows = {"unwp", "lbas"}
    MaxAborts = 1
    MaxThrows = 1
SPECIFICATION PSpec
INVARIANTS PTypeOK EvidenceBehind QueuedUnsent
PROPERTIES FinalRespected SubmittedSettles
CHECK_DEADLOCK FALSE
