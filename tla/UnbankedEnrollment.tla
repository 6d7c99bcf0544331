------------------------- MODULE UnbankedEnrollment -------------------------
(***************************************************************************)
(* The way of one unbanked customer to a BVN and an account,               *)
(* apps/api/src/unbanked.  A submission is sent to NIBSS in the background *)
(* and its answer comes back twice over, as the response of that call and  *)
(* as a callback NIBSS posts; either may be late, lost or repeated, and    *)
(* both act on the profile the same way.                                   *)
(*                                                                         *)
(* A request slot that submits goes on as the background dispatch.  The    *)
(* upgrade reads the profile, then in a transaction looks for the mirror   *)
(* of the BVN and writes mirror, account and profile together.             *)
(***************************************************************************)
EXTENDS Naturals

CONSTANTS
    Requests,      \* request slots: submissions with their dispatch, callbacks
    Submissions,   \* enrollment ids: how often the profile can be submitted
    NoSubmission,  \* no enrollment id
    MaxAccounts,   \* bound: once so many are open, NIBSS posts no more
    MaxAborts      \* bound: requests and dispatches that die

ASSUME EnrollmentAssumption ==
    /\ NoSubmission \notin Submissions
    /\ MaxAccounts \in Nat /\ MaxAborts \in Nat

VARIABLES
    status,     \* status of the profile
    bvnLinked,  \* the profile has a bvnHash
    mirrors,    \* TFAN records of the customer's BVN
    accounts,   \* ledger accounts opened for the BVN
    recorded,   \* nibssStatus of each submission
    verdict,    \* NIBSS: what it was asked, and decided
    known,      \* NIBSS: the customer has a BVN
    pc, mine, via, found,   \* each request: step, submission, role, mirror seen
    failed,     \* history: a dispatch got no answer or a statement of it threw
    overlapped, \* history: an upgrade began while another was under way
    undone,     \* history: a bankable profile was taken back
    aborts

profile == <<status, bvnLinked>>
books == <<mirrors, accounts>>
nibss == <<verdict, known>>
history == <<failed, overlapped, undone>>
locals == <<pc, mine, via, found>>
uvars == <<profile, books, recorded, nibss, locals, history, aborts>>

Statuses == {"NONE", "UNBANKED", "NIBSS_SUBMITTED", "BANKABLE", "DUPLICATE_LINKED"}
Answers == {"SUCCESS", "DUPLICATE", "ERROR"}
Labels == {"idle", "create", "mark", "send", "callback", "up_read", "up_find",
           "up_commit", "link", "reset", "fail_record", "fail_reset"}

UTypeOK ==
    /\ status \in Statuses /\ bvnLinked \in BOOLEAN
    /\ mirrors \in Nat /\ accounts \in Nat
    /\ recorded \in [Submissions -> Answers \cup {"NONE", "PENDING"}]
    /\ verdict \in [Submissions -> Answers \cup {"NONE", "ASKED"}]
    /\ known \in BOOLEAN
    /\ pc \in [Requests -> Labels]
    /\ mine \in [Requests -> Submissions \cup {NoSubmission}]
    /\ via \in [Requests -> {"dispatch", "callback"}]
    /\ found \in [Requests -> BOOLEAN]
    /\ failed \in BOOLEAN /\ overlapped \in BOOLEAN /\ undone \in BOOLEAN
    /\ aborts \in Nat

UInit ==
    /\ status = "NONE" /\ bvnLinked = FALSE
    /\ mirrors = 0 /\ accounts = 0
    /\ recorded = [e \in Submissions |-> "NONE"]
    /\ verdict = [e \in Submissions |-> "NONE"]
    /\ known \in BOOLEAN
    /\ pc = [r \in Requests |-> "idle"]
    /\ mine = [r \in Requests |-> NoSubmission]
    /\ via = [r \in Requests |-> "callback"]
    /\ found = [r \in Requests |-> FALSE]
    /\ failed = FALSE /\ overlapped = FALSE /\ undone = FALSE
    /\ aborts = 0

-----------------------------------------------------------------------------
(* Steps.                                                                  *)

Goto(r, label) == pc' = [pc EXCEPT ![r] = label]

Return(r) ==
    /\ Goto(r, "idle")
    /\ mine' = [mine EXCEPT ![r] = NoSubmission]
    /\ via' = [via EXCEPT ![r] = "callback"]
    /\ found' = [found EXCEPT ![r] = FALSE]

\* The profile's status is overwritten, whatever it is now.
SetStatus(s) ==
    /\ status' = s
    /\ undone' = (undone \/ (status = "BANKABLE" /\ s # "BANKABLE"))

\* enrollUnbanked: subject and profile in one transaction.
EnrollUnbanked ==
    /\ status = "NONE" /\ status' = "UNBANKED"
    /\ UNCHANGED <<bvnLinked, books, recorded, nibss, locals, history, aborts>>

\* submitForBvn, and the retry.  A profile linked to a BVN may be submitted.
SubmitRead(r) ==
    /\ pc[r] = "idle" /\ status \in {"UNBANKED", "DUPLICATE_LINKED"}
    /\ Goto(r, "create")
    /\ UNCHANGED <<profile, books, recorded, nibss, mine, via, found, history, aborts>>

SubmitCreate(r, e) ==
    /\ pc[r] = "create" /\ recorded[e] = "NONE"
    /\ recorded' = [recorded EXCEPT ![e] = "PENDING"]
    /\ mine' = [mine EXCEPT ![r] = e]
    /\ Goto(r, "mark")
    /\ UNCHANGED <<profile, books, nibss, via, found, history, aborts>>

\* The profile is marked, and the dispatch makes its call at once.
SubmitMark(r) ==
    /\ pc[r] = "mark"
    /\ SetStatus("NIBSS_SUBMITTED")
    /\ verdict' = [verdict EXCEPT ![mine[r]] = "ASKED"]
    /\ via' = [via EXCEPT ![r] = "dispatch"]
    /\ Goto(r, "send")
    /\ UNCHANGED <<bvnLinked, books, recorded, known, mine, found, failed,
                   overlapped, aborts>>

\* External.  NIBSS gives a person one BVN, and decides on what reaches it
\* while the caller waits or after the caller has given up.  An answer without
\* the BVN it should carry is taken for an error by the code, and is one here.
NibssDecides(e) ==
    /\ verdict[e] = "ASKED"
    /\ \/ /\ ~ known /\ known' = TRUE
          /\ verdict' = [verdict EXCEPT ![e] = "SUCCESS"]
       \/ /\ known /\ UNCHANGED known
          /\ verdict' = [verdict EXCEPT ![e] = "DUPLICATE"]
       \/ /\ UNCHANGED known
          /\ verdict' = [verdict EXCEPT ![e] = "ERROR"]
    /\ UNCHANGED <<profile, books, recorded, locals, history, aborts>>

\* handleCallback: NIBSS posts its verdict, once, again, or never.
Callback(r, e) ==
    /\ pc[r] = "idle" /\ verdict[e] \in Answers /\ accounts < MaxAccounts
    /\ mine' = [mine EXCEPT ![r] = e]
    /\ Goto(r, "callback")
    /\ UNCHANGED <<profile, books, recorded, nibss, via, found, history, aborts>>

AlreadyBankable == status = "BANKABLE" /\ bvnLinked

\* Variation: a repeated success falls through to the reset.
MutRecordAnswer(r) ==
    LET e == mine[r] IN
    /\ pc[r] \in {"send", "callback"} /\ verdict[e] \in Answers
    /\ recorded' = [recorded EXCEPT ![e] = verdict[e]]
    /\ Goto(r, IF verdict[e] = "SUCCESS" /\ ~ AlreadyBankable THEN "up_read"
               ELSE IF verdict[e] = "DUPLICATE" THEN "link" ELSE "reset")
    /\ UNCHANGED <<profile, books, nibss, mine, via, found, history, aborts>>

\* The answer is recorded, and decides what is done to the profile.
RecordAnswer(r) ==
    LET e == mine[r] IN
    /\ pc[r] \in {"send", "callback"} /\ verdict[e] \in Answers
    /\ recorded' = [recorded EXCEPT ![e] = verdict[e]]
    /\ Goto(r, IF verdict[e] = "SUCCESS" THEN "up_read"
               ELSE IF verdict[e] = "DUPLICATE" THEN "link" ELSE "reset")
    /\ UNCHANGED <<profile, books, nibss, mine, via, found, history, aborts>>

-----------------------------------------------------------------------------
(* upgradeToGlobal and linkDuplicateBvn.                                   *)

UpgradeRead(r) ==
    /\ pc[r] = "up_read"
    /\ IF AlreadyBankable
       THEN Return(r) /\ UNCHANGED overlapped
       ELSE /\ Goto(r, "up_find")
            /\ overlapped' = (overlapped \/ \E q \in Requests \ {r} :
                                                pc[q] \in {"up_find", "up_commit"})
            /\ UNCHANGED <<mine, via, found>>
    /\ UNCHANGED <<profile, books, recorded, nibss, failed, undone, aborts>>

\* Variation: the mirror is not looked for.
MutUpgradeFind(r) ==
    /\ pc[r] = "up_find"
    /\ Goto(r, "up_commit")
    /\ UNCHANGED <<profile, books, recorded, nibss, mine, via, found, history, aborts>>

UpgradeFind(r) ==
    /\ pc[r] = "up_find"
    /\ found' = [found EXCEPT ![r] = mirrors > 0]
    /\ Goto(r, "up_commit")
    /\ UNCHANGED <<profile, books, recorded, nibss, mine, via, history, aborts>>

\* Variation: the profile evolves before its account is there.
MutUpgradeCommit(r) ==
    /\ pc[r] = "up_commit"
    /\ mirrors' = mirrors + (IF found[r] THEN 0 ELSE 1)
    /\ SetStatus("BANKABLE") /\ bvnLinked' = TRUE
    /\ Return(r)
    /\ UNCHANGED <<accounts, recorded, nibss, failed, overlapped, aborts>>

UpgradeCommit(r) ==
    /\ pc[r] = "up_commit"
    /\ mirrors' = mirrors + (IF found[r] THEN 0 ELSE 1)
    /\ accounts' = accounts + 1
    /\ SetStatus("BANKABLE") /\ bvnLinked' = TRUE
    /\ Return(r)
    /\ UNCHANGED <<recorded, nibss, failed, overlapped, aborts>>

\* Variation: the profile takes the word NIBSS uses.
MutLinkDuplicate(r) ==
    /\ pc[r] = "link"
    /\ SetStatus("DUPLICATE") /\ bvnLinked' = TRUE
    /\ Return(r)
    /\ UNCHANGED <<books, recorded, nibss, failed, overlapped, aborts>>

LinkDuplicate(r) ==
    /\ pc[r] = "link"
    /\ SetStatus("DUPLICATE_LINKED") /\ bvnLinked' = TRUE
    /\ Return(r)
    /\ UNCHANGED <<books, recorded, nibss, failed, overlapped, aborts>>

-----------------------------------------------------------------------------
(* Errors.                                                                 *)

\* NIBSS said so, or the dispatch failed.  The BVN stays.
ResetProfile(r) ==
    /\ pc[r] \in {"reset", "fail_reset"}
    /\ SetStatus("UNBANKED")
    /\ Return(r)
    /\ UNCHANGED <<bvnLinked, books, recorded, nibss, failed, overlapped, aborts>>

\* The dispatch waits thirty seconds at most, and the network may fail; so may
\* any statement of its try block.
DispatchFails(r) ==
    /\ via[r] = "dispatch"
    /\ pc[r] \in {"send", "up_read", "up_find", "up_commit", "link", "reset"}
    /\ failed' = TRUE
    /\ Goto(r, "fail_record")
    /\ UNCHANGED <<profile, books, recorded, nibss, mine, via, found, overlapped,
                   undone, aborts>>

\* Variation: a failed dispatch leaves the profile to the callback.
MutFailRecord(r) ==
    /\ pc[r] = "fail_record"
    /\ recorded' = [recorded EXCEPT ![mine[r]] = "ERROR"]
    /\ Return(r)
    /\ UNCHANGED <<profile, books, nibss, history, aborts>>

FailRecord(r) ==
    /\ pc[r] = "fail_record"
    /\ recorded' = [recorded EXCEPT ![mine[r]] = "ERROR"]
    /\ Goto(r, "fail_reset")
    /\ UNCHANGED <<profile, books, nibss, mine, via, found, history, aborts>>

\* The server stops, or a statement outside the dispatch's try block throws.
Abort(r) ==
    /\ pc[r] # "idle" /\ aborts < MaxAborts
    /\ aborts' = aborts + 1
    /\ Return(r)
    /\ UNCHANGED <<profile, books, recorded, nibss, history>>

Continue(r) ==
    \/ \E e \in Submissions : SubmitCreate(r, e)
    \/ SubmitMark(r) \/ RecordAnswer(r)
    \/ UpgradeRead(r) \/ UpgradeFind(r) \/ UpgradeCommit(r) \/ LinkDuplicate(r)
    \/ ResetProfile(r) \/ DispatchFails(r) \/ FailRecord(r)

UNext ==
    \/ EnrollUnbanked
    \/ \E e \in Submissions : NibssDecides(e)
    \/ \E r \in Requests :
         \/ SubmitRead(r) \/ Continue(r) \/ Abort(r)
         \/ \E e \in Submissions : Callback(r, e)

\* What is under way goes on, the dispatch's timer included; NIBSS need not
\* decide, nor post anything.
USpec == UInit /\ [][UNext]_uvars /\ \A r \in Requests : WF_uvars(Continue(r))

-----------------------------------------------------------------------------
(* Properties.                                                             *)

\* What the profile says of the customer is what NIBSS said of a submission,
\* and a bankable one has its account and its mirror; a submission is recorded
\* as NIBSS decided it, or as failed.
AnswersHonest ==
    /\ status = "BANKABLE" => bvnLinked /\ accounts > 0
    /\ accounts > 0 => mirrors > 0 /\ \E e \in Submissions : verdict[e] = "SUCCESS"
    /\ status = "DUPLICATE_LINKED" =>
           bvnLinked /\ \E e \in Submissions : verdict[e] = "DUPLICATE"
    /\ \A e \in Submissions :
           recorded[e] \in {"SUCCESS", "DUPLICATE"} => recorded[e] = verdict[e]

\* However often the answer comes, the upgrade opens a second account only when
\* two of them overlap or a bankable profile was taken back in between, and it
\* mirrors the customer a second time only when two overlap.
UpgradedOnce ==
    /\ accounts > 1 => overlapped \/ undone
    /\ mirrors > 1 => overlapped

\* Of a profile submitted once, whose dispatch did not fail, no delay and no
\* repetition of the answer takes bankability back.
BankableKept ==
    [][status = "BANKABLE" /\ status' # "BANKABLE" =>
           \/ failed
           \/ \E e, f \in Submissions :
                e # f /\ recorded[e] # "NONE" /\ recorded[f] # "NONE"]_uvars

\* A submission in flight ends unless a request or dispatch dies, whether or
\* not NIBSS ever answers: nothing else looks for profiles left submitted.
SubmissionEnds ==
    (status = "NIBSS_SUBMITTED") ~> (status # "NIBSS_SUBMITTED" \/ aborts > 0)
=============================================================================
