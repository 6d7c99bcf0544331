\* One request at a time, none dies: a break, then a biometric withdrawal.
CONSTANTS
    Requests = {r1}
    Agents = {a1, a2}
    OpeningAgent = a1
    FullCycleDays = 3
    Day1Fee = 3
    Daily = 2
    Amounts = {2}
    BankOutcomes = {"carried"}
    MaxPushes = 2
    MaxAborts = 0
SPECIFICATION BSpec
PROPERTY BreakLocksPenalty
