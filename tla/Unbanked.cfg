\* A submission with its dispatch, and callbacks; one of them may die.
CONSTANTS
    Requests = {r1, r2}
    Submissions = {e1, e2}
    NoSubmission = none
    MaxAccounts = 2
    MaxAborts = 1
SPECIFICATION USpec
INVARIANTS UTypeOK AnswersHonest UpgradedOnce
PROPERTIES BankableKept SubmissionEnds
CHECK_DEADLOCK FALSE
