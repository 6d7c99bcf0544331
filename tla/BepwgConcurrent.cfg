\* Two requests overlap, one may die; one payout, one agent.
CONSTANTS
    Requests = {r1, r2}
    Agents = {a1}
    OpeningAgent = a1
    FullCycleDays = 3
    Day1Fee = 3
    Daily = 2
    Amounts = {2}
    BankOutcomes = {"carried"}
    MaxPushes = 1
    MaxAborts = 1
SPECIFICATION BSpec
INVARIANTS
    BTypeOK
    LedgerAgrees BreakAgrees MaturityHonest CommissionCounted PushesBacked
    QuietMeansComplete AuditBalances PushesAudited
PROPERTIES
    DaysGoUpByOne DepositHonoured
