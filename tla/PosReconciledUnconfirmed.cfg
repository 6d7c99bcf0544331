\* One request at a time, none dies, nothing throws.
CONSTANTS
    Requests = {r1}
    Flows = {"unwp"}
    MaxAborts = 0
    MaxThrows = 0
SPECIFICATION PSpec
INVARIANT ReconciledConfirmed
