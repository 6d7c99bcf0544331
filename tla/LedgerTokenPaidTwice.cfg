CONSTANTS
    Requests = {r1, r2}
    Accounts = {a, b}
    Outside = outside
    Keys = {k}
    NoKey = nokey
    NoOp = noop
    Funds = 1
    Amounts = {1}
    Batch = 1
    MaxRecords = 2
    MaxAborts = 1
SPECIFICATION LSpec
INVARIANT TokenPaidOnce
CHECK_DEADLOCK FALSE
