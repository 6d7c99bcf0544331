\* One request at a time, two may die; the bank may lose a payout.
CONSTANTS
    Requests = {r1}
    Agents = {a1}
    OpeningAgent = a1
    FullCycleDays = 31
    Day1Fee = 5
    Daily = 2
    Amounts = {1, 2}
    BankOutcomes = {"carried", "lost"}
    MaxPushes = 3
    MaxAborts = 2
SPECIFICATION Spec
PROPERTY VaultKept
CHECK_DEADLOCK TRUE
