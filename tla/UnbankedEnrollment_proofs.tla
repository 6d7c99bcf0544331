--------------------- MODULE UnbankedEnrollment_proofs ---------------------
(***************************************************************************)
(* The safety properties of UnbankedEnrollment for any number of requests, *)
(* submissions, callbacks and deaths.  The invariant adds what a request   *)
(* in flight may rely on, for NIBSS does not change its mind and what is   *)
(* opened stays open, and that two upgrades under way were noticed.        *)
(***************************************************************************)
EXTENDS UnbankedEnrollment, TLAPS

Upgrading == {"up_find", "up_commit"}

RequestOK(r) ==
    /\ pc[r] \notin {"idle", "create"} => mine[r] \in Submissions
    /\ pc[r] = "mark" => recorded[mine[r]] # "NONE" /\ verdict[mine[r]] = "NONE"
    /\ pc[r] = "send" => verdict[mine[r]] # "NONE"
    /\ pc[r] \in Upgrading \cup {"up_read"} => verdict[mine[r]] = "SUCCESS"
    /\ pc[r] = "link" => verdict[mine[r]] = "DUPLICATE"
    /\ pc[r] = "reset" => verdict[mine[r]] = "ERROR"
    /\ pc[r] \in {"fail_record", "fail_reset"} => failed
    /\ pc[r] \in Upgrading /\ accounts > 0 => overlapped \/ undone
    /\ found[r] => mirrors > 0
    /\ pc[r] = "up_commit" /\ ~ found[r] /\ mirrors > 0 => overlapped

PairOK(q, r) ==
    q # r => /\ pc[q] \in Upgrading /\ pc[r] \in Upgrading => overlapped
             /\ pc[q] = "mark" /\ pc[r] = "mark" => mine[q] # mine[r]

BooksOK ==
    /\ \A e \in Submissions : verdict[e] # "NONE" => recorded[e] # "NONE"
    /\ accounts > 0 => AlreadyBankable \/ undone

UInv ==
    /\ UTypeOK
    /\ AnswersHonest
    /\ UpgradedOnce
    /\ BooksOK
    /\ \A r \in Requests : RequestOK(r)
    /\ \A q, r \in Requests : PairOK(q, r)

\* Nobody is under way and nothing is open.
LEMMA UInvInit == UInit => UInv
<1> SUFFICES ASSUME UInit PROVE UInv
  OBVIOUS
<1>1. \A r \in Requests : pc[r] = "idle" /\ found[r] = FALSE
  BY DEF UInit
<1>2. \A r \in Requests : RequestOK(r)
  BY <1>1 DEF RequestOK, Upgrading
<1>3. \A q, r \in Requests : PairOK(q, r)
  BY <1>1 DEF PairOK, Upgrading
<1>4. UTypeOK
  BY DEF UInit, UTypeOK, Statuses, Answers, Labels
<1>5. AnswersHonest /\ UpgradedOnce /\ BooksOK
  BY DEF UInit, AnswersHonest, UpgradedOnce, BooksOK
<1> QED
  BY <1>2, <1>3, <1>4, <1>5 DEF UInv

-----------------------------------------------------------------------------
(* What a step does to the requests that do not take it.                   *)

\* Nothing a request relies on is taken back.
Keeps ==
    /\ \A e \in Submissions :
         /\ verdict[e] \in Answers => verdict'[e] = verdict[e]
         /\ verdict[e] # "NONE" => verdict'[e] # "NONE"
         /\ recorded[e] # "NONE" => recorded'[e] # "NONE"
    /\ failed => failed'
    /\ overlapped => overlapped'
    /\ undone => undone'
    /\ mirrors' \in Nat /\ mirrors' >= mirrors

\* Nor are accounts and mirrors opened behind its back.
BooksKept(q) ==
    pc[q] \in Upgrading => \/ overlapped'
                           \/ mirrors' = mirrors /\ accounts' = accounts

\* Two facts about another request q, whoever moves.
LEMMA OtherKeeps ==
    ASSUME UInv, Keeps, NEW q \in Requests, BooksKept(q),
           pc'[q] = pc[q], mine'[q] = mine[q], found'[q] = found[q],
           pc[q] = "mark" => verdict'[mine[q]] = "NONE"
    PROVE  RequestOK(q)'
<1> USE DEF UInv, UTypeOK, Keeps, BooksKept
<1>1. RequestOK(q)
  OBVIOUS
<1>2. /\ pc'[q] \notin {"idle", "create"} => mine'[q] \in Submissions
      /\ pc'[q] = "mark" =>
           recorded'[mine'[q]] # "NONE" /\ verdict'[mine'[q]] = "NONE"
      /\ pc'[q] = "send" => verdict'[mine'[q]] # "NONE"
  BY <1>1 DEF RequestOK
<1>3. /\ pc'[q] \in Upgrading \cup {"up_read"} => verdict'[mine'[q]] = "SUCCESS"
      /\ pc'[q] = "link" => verdict'[mine'[q]] = "DUPLICATE"
      /\ pc'[q] = "reset" => verdict'[mine'[q]] = "ERROR"
      /\ pc'[q] \in {"fail_record", "fail_reset"} => failed'
  BY <1>1 DEF RequestOK, Upgrading, Answers
<1>4. /\ pc'[q] \in Upgrading /\ accounts' > 0 => overlapped' \/ undone'
      /\ found'[q] => mirrors' > 0
      /\ pc'[q] = "up_commit" /\ ~ found'[q] /\ mirrors' > 0 => overlapped'
  BY <1>1 DEF RequestOK, Upgrading
<1> QED
  BY <1>2, <1>3, <1>4 DEF RequestOK

\* The others see nothing of the step of r to label, with submission e.
Undisturbed(r, label, e) ==
    \A q \in Requests \ {r} :
        /\ found'[q] = found[q] /\ BooksKept(q)
        /\ pc[q] = "mark" => verdict'[mine[q]] = "NONE"
        /\ pc[q] \in Upgrading /\ label \in Upgrading => overlapped'
        /\ pc[q] = "mark" /\ label = "mark" => mine[q] # e

\* A step of r: the rest follows from what it does to r, and to r's pairs.
LEMMA StepKeeps ==
    ASSUME UInv, Keeps, NEW r \in Requests, NEW label, NEW e,
           pc' = [pc EXCEPT ![r] = label], mine' = [mine EXCEPT ![r] = e],
           Undisturbed(r, label, e),
           RequestOK(r)'
    PROVE  /\ \A q \in Requests : RequestOK(q)'
           /\ \A p, q \in Requests : PairOK(p, q)'
<1>1. \A q \in Requests \ {r} : pc'[q] = pc[q] /\ mine'[q] = mine[q]
  BY DEF UInv, UTypeOK
<1>2. pc'[r] = label /\ mine'[r] = e
  BY DEF UInv, UTypeOK
<1>3. ASSUME NEW q \in Requests
      PROVE  RequestOK(q)'
  <2>1. CASE q = r
    BY <2>1
  <2>2. CASE q # r
    BY <1>1, <2>2, OtherKeeps DEF Undisturbed
  <2> QED
    BY <2>1, <2>2
<1>4. ASSUME NEW p \in Requests, NEW q \in Requests
      PROVE  PairOK(p, q)'
  <2>1. PairOK(p, q) /\ (overlapped => overlapped')
    BY DEF UInv, Keeps
  <2> QED
    BY <1>1, <1>2, <2>1 DEF PairOK, Undisturbed
<1> QED
  BY <1>3, <1>4

\* A request that returns relies on nothing.
LEMMA ReturnKeeps ==
    ASSUME UInv, Keeps, NEW r \in Requests, Return(r), UNCHANGED verdict,
           \A q \in Requests \ {r} : BooksKept(q)
    PROVE  /\ \A q \in Requests : RequestOK(q)'
           /\ \A p, q \in Requests : PairOK(p, q)'
           /\ pc' \in [Requests -> Labels]
           /\ mine' \in [Requests -> Submissions \cup {NoSubmission}]
           /\ via' \in [Requests -> {"dispatch", "callback"}]
           /\ found' \in [Requests -> BOOLEAN]
<1>1. /\ pc' = [pc EXCEPT ![r] = "idle"]
      /\ mine' = [mine EXCEPT ![r] = NoSubmission]
      /\ via' = [via EXCEPT ![r] = "callback"]
      /\ found' = [found EXCEPT ![r] = FALSE]
  BY DEF Return, Goto
<1>2. pc'[r] = "idle" /\ found'[r] = FALSE
  BY <1>1 DEF UInv, UTypeOK
<1>3. RequestOK(r)'
  BY <1>2 DEF RequestOK, Upgrading
<1>4. Undisturbed(r, "idle", NoSubmission)
  BY <1>1 DEF UInv, UTypeOK, RequestOK, Upgrading, Undisturbed
<1>5. /\ \A q \in Requests : RequestOK(q)'
      /\ \A p, q \in Requests : PairOK(p, q)'
  BY <1>1, <1>3, <1>4, StepKeeps
<1>6. /\ pc' \in [Requests -> Labels]
      /\ mine' \in [Requests -> Submissions \cup {NoSubmission}]
      /\ via' \in [Requests -> {"dispatch", "callback"}]
      /\ found' \in [Requests -> BOOLEAN]
  BY <1>1 DEF UInv, UTypeOK, Labels
<1> QED
  BY <1>5, <1>6

\* A request that goes on with the same submission, and opens nothing.
LEMMA MoveKeeps ==
    ASSUME UInv, Keeps, NEW r \in Requests, NEW label \in Labels,
           Goto(r, label), UNCHANGED <<mine, via, found, verdict, books>>,
           label # "mark", RequestOK(r)',
           label \in Upgrading =>
              \/ pc[r] \in Upgrading
              \/ \A q \in Requests \ {r} : pc[q] \in Upgrading => overlapped'
    PROVE  /\ \A q \in Requests : RequestOK(q)'
           /\ \A p, q \in Requests : PairOK(p, q)'
           /\ pc' \in [Requests -> Labels]
<1>1. /\ pc' = [pc EXCEPT ![r] = label]
      /\ mine' = [mine EXCEPT ![r] = mine[r]]
      /\ UNCHANGED <<found, verdict, mirrors, accounts>>
  BY DEF Goto, UInv, UTypeOK, books
<1>2. pc[r] \in Upgrading =>
         \A q \in Requests \ {r} : pc[q] \in Upgrading => overlapped'
  BY DEF UInv, PairOK, Keeps
<1>3. Undisturbed(r, label, mine[r])
  BY <1>1, <1>2 DEF Undisturbed, BooksKept, UInv, RequestOK
<1>4. /\ \A q \in Requests : RequestOK(q)'
      /\ \A p, q \in Requests : PairOK(p, q)'
  BY <1>1, <1>3, StepKeeps
<1>5. pc' \in [Requests -> Labels]
  BY <1>1 DEF UInv, UTypeOK
<1> QED
  BY <1>4, <1>5

-----------------------------------------------------------------------------
(* The steps.                                                              *)

\* What the steps that write no row of the profile's leave as it is.
LEMMA SameRows ==
    ASSUME UInv, UNCHANGED <<profile, books, verdict, undone>>,
           overlapped => overlapped',
           recorded' \in [Submissions -> Answers \cup {"NONE", "PENDING"}],
           \A e \in Submissions :
              /\ recorded'[e] \in {"SUCCESS", "DUPLICATE"} => recorded'[e] = verdict[e]
              /\ recorded[e] # "NONE" => recorded'[e] # "NONE"
    PROVE  AnswersHonest' /\ UpgradedOnce' /\ BooksOK'
<1>1. UNCHANGED <<status, bvnLinked, mirrors, accounts, verdict, undone>>
  BY DEF profile, books
<1>2. AnswersHonest'
  BY <1>1 DEF UInv, AnswersHonest
<1>3. UpgradedOnce' /\ BooksOK'
  BY <1>1 DEF UInv, UpgradedOnce, BooksOK, AlreadyBankable
<1> QED
  BY <1>2, <1>3

LEMMA EnrollInv == ASSUME UInv, EnrollUnbanked PROVE UInv'
<1> USE DEF UInv, UTypeOK
<1>1. /\ status = "NONE" /\ status' = "UNBANKED"
      /\ UNCHANGED <<bvnLinked, mirrors, accounts, recorded, verdict, known, pc,
                     mine, via, found, failed, overlapped, undone, aborts>>
  BY DEF EnrollUnbanked, books, nibss, locals, history
<1>2. Keeps
  BY <1>1 DEF Keeps
<1>3. \A q \in Requests : RequestOK(q)'
  BY <1>1 DEF RequestOK
<1>4. \A p, q \in Requests : PairOK(p, q)'
  BY <1>1 DEF PairOK
<1>5. AnswersHonest' /\ UpgradedOnce' /\ BooksOK'
  BY <1>1 DEF AnswersHonest, UpgradedOnce, BooksOK, AlreadyBankable
<1> QED
  BY <1>1, <1>3, <1>4, <1>5 DEF Statuses

\* NIBSS decides on what was sent, and on that only once.
LEMMA NibssInv ==
    ASSUME UInv, NEW e \in Submissions, NibssDecides(e)
    PROVE  UInv'
<1> USE DEF UInv, UTypeOK
<1>1. UNCHANGED <<status, bvnLinked, mirrors, accounts, recorded, pc,
                  mine, via, found, failed, overlapped, undone, aborts>>
  BY DEF NibssDecides, profile, books, locals, history
<1>2. PICK v \in Answers : verdict' = [verdict EXCEPT ![e] = v]
  BY DEF NibssDecides, Answers
<1>3. verdict[e] = "ASKED" /\ known' \in BOOLEAN
  BY DEF NibssDecides
<1>4. \A f \in Submissions :
         /\ verdict[f] \in Answers => verdict'[f] = verdict[f]
         /\ (verdict[f] = "NONE") = (verdict'[f] = "NONE")
  BY <1>2, <1>3 DEF Answers
<1>5. Keeps
  BY <1>1, <1>4 DEF Keeps
<1>6. ASSUME NEW q \in Requests PROVE RequestOK(q)'
  <2>1. pc[q] = "mark" => verdict'[mine[q]] = "NONE"
    BY <1>4 DEF RequestOK
  <2> QED
    BY <1>1, <1>5, <2>1, OtherKeeps DEF BooksKept
<1>7. \A p, q \in Requests : PairOK(p, q)'
  BY <1>1 DEF PairOK
<1>8. AnswersHonest'
  BY <1>1, <1>4 DEF AnswersHonest, Answers
<1>9. UpgradedOnce' /\ BooksOK'
  BY <1>1, <1>4 DEF UpgradedOnce, BooksOK, AlreadyBankable
<1>10. verdict' \in [Submissions -> Answers \cup {"NONE", "ASKED"}]
  BY <1>2
<1> QED
  BY <1>1, <1>3, <1>6, <1>7, <1>8, <1>9, <1>10

\* The submission until its call is made.
LEMMA SubmitInv ==
    ASSUME UInv, NEW r \in Requests,
           \/ SubmitRead(r) \/ SubmitMark(r)
           \/ \E e \in Submissions : SubmitCreate(r, e)
    PROVE  UInv'
<1> USE DEF UInv, UTypeOK
<1>1. CASE SubmitRead(r)
  <2>1. /\ Goto(r, "create") /\ pc'[r] = "create"
        /\ UNCHANGED <<status, bvnLinked, mirrors, accounts, recorded, verdict,
                       known, mine, via, found, failed, overlapped, undone, aborts>>
    BY <1>1 DEF SubmitRead, Goto, profile, books, nibss, history
  <2>2. Keeps
    BY <2>1 DEF Keeps
  <2>3. RequestOK(r)'
    BY <2>1 DEF RequestOK, Upgrading
  <2>4. "create" \in Labels /\ "create" # "mark" /\ "create" \notin Upgrading
    BY DEF Labels, Upgrading
  <2>5. UNCHANGED <<mine, via, found, verdict, books>>
    BY <2>1 DEF books
  <2>6. /\ \A q \in Requests : RequestOK(q)'
        /\ \A p, q \in Requests : PairOK(p, q)'
        /\ pc' \in [Requests -> Labels]
    BY <2>1, <2>2, <2>3, <2>4, <2>5, MoveKeeps
  <2>7. AnswersHonest' /\ UpgradedOnce' /\ BooksOK'
    BY <2>1, SameRows DEF profile, books, AnswersHonest
  <2> QED
    BY <2>1, <2>6, <2>7
<1>2. ASSUME NEW e \in Submissions, SubmitCreate(r, e)
      PROVE  UInv'
  <2>1. /\ pc' = [pc EXCEPT ![r] = "mark"] /\ mine' = [mine EXCEPT ![r] = e]
        /\ recorded' = [recorded EXCEPT ![e] = "PENDING"] /\ recorded[e] = "NONE"
        /\ UNCHANGED <<status, bvnLinked, mirrors, accounts, verdict, known, via,
                       found, failed, overlapped, undone, aborts>>
    BY <1>2 DEF SubmitCreate, Goto, profile, books, nibss, history
  <2>2. Keeps
    BY <2>1 DEF Keeps
  <2>3. verdict[e] = "NONE"
    BY <2>1 DEF BooksOK
  <2>4. pc'[r] = "mark" /\ mine'[r] = e /\ recorded'[e] = "PENDING"
        /\ found'[r] = found[r]
    BY <2>1
  <2>5. RequestOK(r)'
    BY <2>1, <2>3, <2>4 DEF RequestOK, Upgrading
  <2>6. Undisturbed(r, "mark", e)
    BY <2>1 DEF Undisturbed, BooksKept, RequestOK, Upgrading
  <2>7. /\ \A q \in Requests : RequestOK(q)'
        /\ \A p, q \in Requests : PairOK(p, q)'
    BY <2>1, <2>2, <2>5, <2>6, StepKeeps
  <2>8. AnswersHonest' /\ UpgradedOnce' /\ BooksOK'
    BY <2>1, SameRows DEF profile, books, AnswersHonest
  <2> QED
    BY <2>1, <2>7, <2>8 DEF Labels
<1>3. CASE SubmitMark(r)
  <2>1. /\ pc' = [pc EXCEPT ![r] = "send"] /\ pc[r] = "mark"
        /\ verdict' = [verdict EXCEPT ![mine[r]] = "ASKED"]
        /\ via' = [via EXCEPT ![r] = "dispatch"]
        /\ status' = "NIBSS_SUBMITTED"
        /\ undone' = (undone \/ status = "BANKABLE")
        /\ UNCHANGED <<bvnLinked, mirrors, accounts, recorded, known, mine, found,
                       failed, overlapped, aborts>>
    BY <1>3 DEF SubmitMark, SetStatus, Goto, books
  <2>2. /\ mine[r] \in Submissions /\ verdict[mine[r]] = "NONE"
        /\ recorded[mine[r]] # "NONE"
    BY <2>1 DEF RequestOK
  <2>3. Keeps
    BY <2>1, <2>2 DEF Keeps, Answers
  <2>4. pc'[r] = "send" /\ verdict'[mine[r]] = "ASKED"
        /\ mine' = [mine EXCEPT ![r] = mine[r]]
    BY <2>1, <2>2
  <2>5. RequestOK(r)'
    BY <2>1, <2>2, <2>4 DEF RequestOK, Upgrading
  <2>6. Undisturbed(r, "send", mine[r])
    BY <2>1, <2>2 DEF Undisturbed, BooksKept, RequestOK, PairOK, Upgrading
  <2>7. /\ \A q \in Requests : RequestOK(q)'
        /\ \A p, q \in Requests : PairOK(p, q)'
    BY <2>1, <2>3, <2>4, <2>5, <2>6, StepKeeps
  <2>8. \A e \in Submissions : verdict[e] # "NONE" => verdict'[e] = verdict[e]
    BY <2>1, <2>2
  <2>9. AnswersHonest'
    BY <2>1, <2>8 DEF AnswersHonest
  <2>10. UpgradedOnce'
    BY <2>1 DEF UpgradedOnce
  <2>11. BooksOK'
    BY <2>1, <2>2 DEF BooksOK, AlreadyBankable
  <2>12. /\ verdict' \in [Submissions -> Answers \cup {"NONE", "ASKED"}]
         /\ via' \in [Requests -> {"dispatch", "callback"}]
    BY <2>1, <2>2
  <2>13. status' \in Statuses /\ undone' \in BOOLEAN /\ pc' \in [Requests -> Labels]
    BY <2>1 DEF Statuses, Labels
  <2> QED
    BY <2>1, <2>7, <2>9, <2>10, <2>11, <2>12, <2>13
<1> QED
  BY <1>1, <1>2, <1>3

\* An answer that arrives, either way, and what becomes of a failed dispatch.
LEMMA AnswerInv ==
    ASSUME UInv, NEW r \in Requests,
           \/ RecordAnswer(r) \/ DispatchFails(r) \/ FailRecord(r)
           \/ \E e \in Submissions : Callback(r, e)
    PROVE  UInv'
<1> USE DEF UInv, UTypeOK
<1>1. ASSUME NEW label \in Labels, Goto(r, label), Keeps,
             label \notin Upgrading \cup {"mark"}, RequestOK(r)',
             UNCHANGED <<status, bvnLinked, mirrors, accounts, verdict, known,
                         mine, via, found, overlapped, undone, aborts>>,
             failed' \in BOOLEAN,
             recorded' \in [Submissions -> Answers \cup {"NONE", "PENDING"}],
             \A e \in Submissions : recorded'[e] \in {"SUCCESS", "DUPLICATE"}
                                       => recorded'[e] = verdict[e]
      PROVE  UInv'
  <2>1. UNCHANGED <<mine, via, found, verdict, books>>
    BY <1>1 DEF books
  <2>2. /\ \A q \in Requests : RequestOK(q)'
        /\ \A p, q \in Requests : PairOK(p, q)'
        /\ pc' \in [Requests -> Labels]
    BY <1>1, <2>1, MoveKeeps
  <2>3. AnswersHonest' /\ UpgradedOnce' /\ BooksOK'
    BY <1>1, SameRows DEF profile, books, Keeps
  <2> QED
    BY <1>1, <2>2, <2>3
<1>2. CASE RecordAnswer(r)
  <2> DEFINE e == mine[r]
             label == IF verdict[e] = "SUCCESS" THEN "up_read"
                      ELSE IF verdict[e] = "DUPLICATE" THEN "link" ELSE "reset"
  <2>1. /\ pc[r] \in {"send", "callback"} /\ verdict[e] \in Answers
        /\ recorded' = [recorded EXCEPT ![e] = verdict[e]] /\ Goto(r, label)
        /\ UNCHANGED <<status, bvnLinked, mirrors, accounts, verdict, known,
                       mine, via, found, failed, overlapped, undone, aborts>>
    BY <1>2 DEF RecordAnswer, profile, books, nibss, history
  <2>2. e \in Submissions
    BY <2>1 DEF RequestOK
  <2>3. pc'[r] = label
    BY <2>1 DEF Goto
  <2>4. label \in Labels /\ label \notin Upgrading \cup {"mark"}
    BY DEF Labels, Upgrading
  <2>5. \A f \in Submissions :
           recorded'[f] = IF f = e THEN verdict[e] ELSE recorded[f]
    BY <2>1, <2>2
  <2>6. Keeps
    BY <2>1, <2>5 DEF Keeps, Answers
  <2>7. RequestOK(r)'
    <3>1. RequestOK(r)
      OBVIOUS
    <3>2. verdict[e] \in {"SUCCESS", "DUPLICATE", "ERROR"}
      BY <2>1 DEF Answers
    <3> QED
      BY <2>1, <2>2, <2>3, <3>1, <3>2 DEF RequestOK, Upgrading
  <2>8. recorded' \in [Submissions -> Answers \cup {"NONE", "PENDING"}]
    BY <2>1, <2>2
  <2>9. \A f \in Submissions : recorded'[f] \in {"SUCCESS", "DUPLICATE"}
                                  => recorded'[f] = verdict[f]
    BY <2>5 DEF AnswersHonest
  <2> HIDE DEF label
  <2> QED
    BY <1>1, <2>1, <2>4, <2>6, <2>7, <2>8, <2>9
<1>3. CASE DispatchFails(r)
  <2>1. /\ Goto(r, "fail_record") /\ failed' = TRUE /\ pc'[r] = "fail_record"
        /\ pc[r] \notin {"idle", "create"}
        /\ UNCHANGED <<status, bvnLinked, mirrors, accounts, recorded, verdict,
                       known, mine, via, found, overlapped, undone, aborts>>
    BY <1>3 DEF DispatchFails, Goto, profile, books, nibss
  <2>2. Keeps
    BY <2>1 DEF Keeps
  <2>3. RequestOK(r)'
    BY <2>1 DEF RequestOK, Upgrading
  <2>4. "fail_record" \in Labels /\ "fail_record" \notin Upgrading \cup {"mark"}
    BY DEF Labels, Upgrading
  <2>5. \A e \in Submissions : recorded'[e] \in {"SUCCESS", "DUPLICATE"}
                                  => recorded'[e] = verdict[e]
    BY <2>1 DEF AnswersHonest
  <2> QED
    BY <1>1, <2>1, <2>2, <2>3, <2>4, <2>5
<1>4. CASE FailRecord(r)
  <2>1. /\ Goto(r, "fail_reset") /\ pc'[r] = "fail_reset" /\ pc[r] = "fail_record"
        /\ recorded' = [recorded EXCEPT ![mine[r]] = "ERROR"]
        /\ UNCHANGED <<status, bvnLinked, mirrors, accounts, verdict,
                       known, mine, via, found, failed, overlapped, undone, aborts>>
    BY <1>4 DEF FailRecord, Goto, profile, books, nibss, history
  <2>2. mine[r] \in Submissions /\ failed
    BY <2>1 DEF RequestOK
  <2>3. \A e \in Submissions : recorded'[e] = IF e = mine[r] THEN "ERROR" ELSE recorded[e]
    BY <2>1, <2>2
  <2>4. Keeps
    BY <2>1, <2>3 DEF Keeps
  <2>5. RequestOK(r)'
    BY <2>1, <2>2 DEF RequestOK, Upgrading
  <2>6. "fail_reset" \in Labels /\ "fail_reset" \notin Upgrading \cup {"mark"}
    BY DEF Labels, Upgrading
  <2>7. recorded' \in [Submissions -> Answers \cup {"NONE", "PENDING"}]
    BY <2>1, <2>2 DEF Answers
  <2>8. \A e \in Submissions : recorded'[e] \in {"SUCCESS", "DUPLICATE"}
                                  => recorded'[e] = verdict[e]
    BY <2>3 DEF AnswersHonest
  <2> QED
    BY <1>1, <2>1, <2>4, <2>5, <2>6, <2>7, <2>8
<1>5. ASSUME NEW e \in Submissions, Callback(r, e)
      PROVE  UInv'
  <2>1. /\ pc' = [pc EXCEPT ![r] = "callback"] /\ mine' = [mine EXCEPT ![r] = e]
        /\ UNCHANGED <<status, bvnLinked, mirrors, accounts, recorded, verdict,
                       known, via, found, failed, overlapped, undone, aborts>>
    BY <1>5 DEF Callback, Goto, profile, books, nibss, history
  <2>2. Keeps
    BY <2>1 DEF Keeps
  <2>3. pc'[r] = "callback" /\ mine'[r] = e /\ found'[r] = found[r]
    BY <2>1
  <2>4. RequestOK(r)'
    BY <2>1, <2>3 DEF RequestOK, Upgrading
  <2>5. Undisturbed(r, "callback", e)
    BY <2>1 DEF Undisturbed, BooksKept, RequestOK, Upgrading
  <2>6. /\ \A q \in Requests : RequestOK(q)'
        /\ \A p, q \in Requests : PairOK(p, q)'
    BY <2>1, <2>2, <2>4, <2>5, StepKeeps
  <2>7. AnswersHonest' /\ UpgradedOnce' /\ BooksOK'
    BY <2>1, SameRows DEF profile, books, AnswersHonest
  <2> QED
    BY <2>1, <2>6, <2>7 DEF Labels
<1> QED
  BY <1>2, <1>3, <1>4, <1>5

\* The upgrade: only its end opens anything.
LEMMA UpgradeInv ==
    ASSUME UInv, NEW r \in Requests,
           UpgradeRead(r) \/ UpgradeFind(r) \/ UpgradeCommit(r)
    PROVE  UInv'
<1> USE DEF UInv, UTypeOK
<1>1. CASE UpgradeRead(r) /\ AlreadyBankable
  <2>1. /\ Return(r)
        /\ UNCHANGED <<status, bvnLinked, mirrors, accounts, recorded, verdict,
                       known, failed, overlapped, undone, aborts>>
    BY <1>1 DEF UpgradeRead, profile, books, nibss
  <2>2. Keeps /\ \A q \in Requests \ {r} : BooksKept(q)
    BY <2>1 DEF Keeps, BooksKept
  <2>3. AnswersHonest' /\ UpgradedOnce' /\ BooksOK'
    BY <2>1, SameRows DEF profile, books, AnswersHonest
  <2> QED
    BY <2>1, <2>2, <2>3, ReturnKeeps
<1>2. CASE UpgradeRead(r) /\ ~ AlreadyBankable
  <2>1. /\ Goto(r, "up_find") /\ pc[r] = "up_read" /\ pc'[r] = "up_find"
        /\ overlapped' = (overlapped \/ \E q \in Requests \ {r} :
                                           pc[q] \in {"up_find", "up_commit"})
        /\ UNCHANGED <<status, bvnLinked, mirrors, accounts, recorded, verdict,
                       known, mine, via, found, failed, undone, aborts>>
    BY <1>2 DEF UpgradeRead, Goto, profile, books, nibss
  <2>2. Keeps
    BY <2>1 DEF Keeps
  <2>3. accounts > 0 => undone
    BY <1>2 DEF BooksOK
  <2>4. RequestOK(r)'
    BY <2>1, <2>3 DEF RequestOK, Upgrading
  <2>5. \A q \in Requests \ {r} : pc[q] \in Upgrading => overlapped'
    BY <2>1 DEF Upgrading
  <2>6. /\ "up_find" \in Labels /\ "up_find" # "mark"
        /\ UNCHANGED <<mine, via, found, verdict, books>>
    BY <2>1 DEF Labels, books
  <2>7. /\ \A q \in Requests : RequestOK(q)'
        /\ \A p, q \in Requests : PairOK(p, q)'
        /\ pc' \in [Requests -> Labels]
    BY <2>1, <2>2, <2>4, <2>5, <2>6, MoveKeeps
  <2>8. AnswersHonest' /\ UpgradedOnce' /\ BooksOK'
    BY <2>1, SameRows DEF profile, books, AnswersHonest
  <2> QED
    BY <2>1, <2>7, <2>8
<1>3. CASE UpgradeFind(r)
  <2>1. /\ pc' = [pc EXCEPT ![r] = "up_commit"] /\ pc[r] = "up_find"
        /\ mine' = [mine EXCEPT ![r] = mine[r]]
        /\ found' = [found EXCEPT ![r] = mirrors > 0]
        /\ UNCHANGED <<status, bvnLinked, mirrors, accounts, recorded, verdict,
                       known, mine, via, failed, overlapped, undone, aborts>>
    BY <1>3 DEF UpgradeFind, Goto, profile, books, nibss, history
  <2>2. Keeps
    BY <2>1 DEF Keeps
  <2>3. pc'[r] = "up_commit" /\ found'[r] = (mirrors > 0)
    BY <2>1
  <2>4. RequestOK(r)'
    BY <2>1, <2>3 DEF RequestOK, Upgrading
  <2>5. Undisturbed(r, "up_commit", mine[r])
    BY <2>1 DEF Undisturbed, BooksKept, RequestOK, PairOK, Upgrading
  <2>6. /\ \A q \in Requests : RequestOK(q)'
        /\ \A p, q \in Requests : PairOK(p, q)'
    BY <2>1, <2>2, <2>4, <2>5, StepKeeps
  <2>7. AnswersHonest' /\ UpgradedOnce' /\ BooksOK'
    BY <2>1, SameRows DEF profile, books, AnswersHonest
  <2> QED
    BY <2>1, <2>6, <2>7 DEF Labels
<1>4. CASE UpgradeCommit(r)
  <2>1. /\ pc[r] = "up_commit" /\ Return(r)
        /\ mirrors' = mirrors + (IF found[r] THEN 0 ELSE 1)
        /\ accounts' = accounts + 1
        /\ status' = "BANKABLE" /\ bvnLinked' = TRUE
        /\ undone' = (undone \/ FALSE)
        /\ UNCHANGED <<recorded, verdict, known, failed, overlapped, aborts>>
    BY <1>4 DEF UpgradeCommit, SetStatus, nibss
  <2>2. mirrors' \in Nat /\ accounts' \in Nat /\ mirrors' >= mirrors /\ mirrors' > 0
    BY <2>1 DEF RequestOK
  <2>3. Keeps
    BY <2>1, <2>2 DEF Keeps
  <2>4. \A q \in Requests \ {r} : BooksKept(q)
    BY <2>1 DEF BooksKept, PairOK, Upgrading
  <2>5. mine[r] \in Submissions /\ verdict[mine[r]] = "SUCCESS"
    BY <2>1 DEF RequestOK, Upgrading
  <2>6. AnswersHonest'
    BY <2>1, <2>2, <2>5 DEF AnswersHonest
  <2>7. accounts > 0 => overlapped \/ undone
    BY <2>1 DEF RequestOK, Upgrading
  <2>8. ~ found[r] /\ mirrors > 0 => overlapped
    BY <2>1 DEF RequestOK
  <2>9. UpgradedOnce'
    BY <2>1, <2>2, <2>7, <2>8 DEF UpgradedOnce
  <2>10. BooksOK'
    BY <2>1 DEF BooksOK, AlreadyBankable
  <2> QED
    BY <2>1, <2>2, <2>3, <2>4, <2>6, <2>9, <2>10, ReturnKeeps DEF Statuses
<1> QED
  BY <1>1, <1>2, <1>3, <1>4

\* The other ends of a request.
LEMMA EndInv ==
    ASSUME UInv, NEW r \in Requests,
           LinkDuplicate(r) \/ ResetProfile(r) \/ Abort(r)
    PROVE  UInv'
<1> USE DEF UInv, UTypeOK
<1>1. Keeps /\ \A q \in Requests \ {r} : BooksKept(q)
  BY DEF LinkDuplicate, ResetProfile, Abort, SetStatus, books, nibss, history,
         Keeps, BooksKept
<1>2. Return(r) /\ UNCHANGED verdict
  BY DEF LinkDuplicate, ResetProfile, Abort, nibss
<1>3. CASE LinkDuplicate(r) \/ ResetProfile(r)
  <2>1. PICK s \in {"DUPLICATE_LINKED", "UNBANKED"} :
            /\ status' = s
            /\ undone' = (undone \/ (status = "BANKABLE" /\ s # "BANKABLE"))
            /\ s = "DUPLICATE_LINKED" => bvnLinked' /\ pc[r] = "link"
    BY <1>3 DEF LinkDuplicate, ResetProfile, SetStatus
  <2>2. /\ UNCHANGED <<mirrors, accounts, recorded, verdict, known, failed,
                       overlapped, aborts>>
        /\ bvnLinked' \in BOOLEAN
    BY <1>3 DEF LinkDuplicate, ResetProfile, books, nibss
  <2>3. pc[r] = "link" => mine[r] \in Submissions /\ verdict[mine[r]] = "DUPLICATE"
    BY DEF RequestOK
  <2>4. AnswersHonest'
    BY <2>1, <2>2, <2>3 DEF AnswersHonest
  <2>5. UpgradedOnce'
    BY <2>1, <2>2 DEF UpgradedOnce
  <2>6. BooksOK'
    BY <2>1, <2>2 DEF BooksOK, AlreadyBankable
  <2> QED
    BY <1>1, <1>2, <2>1, <2>2, <2>4, <2>5, <2>6, ReturnKeeps DEF Statuses
<1>4. CASE Abort(r)
  <2>1. /\ UNCHANGED <<status, bvnLinked, mirrors, accounts, recorded, verdict,
                       known, failed, overlapped, undone>>
        /\ aborts' = aborts + 1
    BY <1>4 DEF Abort, profile, books, nibss, history
  <2>2. AnswersHonest' /\ UpgradedOnce' /\ BooksOK'
    BY <2>1, SameRows DEF profile, books, AnswersHonest
  <2> QED
    BY <1>1, <1>2, <2>1, <2>2, ReturnKeeps
<1> QED
  BY <1>3, <1>4

\* Every step keeps the invariant.
LEMMA UInvStep == UInv /\ [UNext]_uvars => UInv'
<1> SUFFICES ASSUME UInv, [UNext]_uvars PROVE UInv'
  OBVIOUS
<1>1. CASE EnrollUnbanked
  BY <1>1, EnrollInv
<1>2. ASSUME NEW e \in Submissions, NibssDecides(e) PROVE UInv'
  BY <1>2, NibssInv
<1>3. ASSUME NEW r \in Requests,
             \/ SubmitRead(r) \/ Continue(r) \/ Abort(r)
             \/ \E e \in Submissions : Callback(r, e)
      PROVE  UInv'
  BY <1>3, SubmitInv, AnswerInv, UpgradeInv, EndInv DEF Continue
<1>4. CASE UNCHANGED uvars
  BY <1>4 DEF uvars, profile, books, nibss, locals, history, UInv, UTypeOK,
              AnswersHonest, UpgradedOnce, BooksOK, RequestOK, PairOK,
              AlreadyBankable
<1> QED
  BY <1>1, <1>2, <1>3, <1>4 DEF UNext

-----------------------------------------------------------------------------
(* What follows for every behaviour.                                       *)

\* The invariant holds whatever NIBSS decides, loses, delays and repeats.
THEOREM EnrollmentInvariantHolds == USpec => []UInv
BY UInvInit, UInvStep, PTL DEF USpec

\* Types: the profile never takes a word of NIBSS for a status of its own.
THEOREM EnrollmentTypes == USpec => []UTypeOK
<1>1. UInv => UTypeOK
  BY DEF UInv
<1> QED
  BY <1>1, EnrollmentInvariantHolds, PTL

\* A bankable profile has its account and mirror and a success behind it, and
\* submissions are recorded as decided (handleCallback, dispatchToNibss).
THEOREM AnswersAlwaysHonest == USpec => []AnswersHonest
<1>1. UInv => AnswersHonest
  BY DEF UInv
<1> QED
  BY <1>1, EnrollmentInvariantHolds, PTL

\* The check of upgradeToGlobal is enough but for overlaps and profiles taken
\* back, however often the answer comes.
THEOREM AlwaysUpgradedOnce == USpec => []UpgradedOnce
<1>1. UInv => UpgradedOnce
  BY DEF UInv
<1> QED
  BY <1>1, EnrollmentInvariantHolds, PTL

\* Bankability is lost only to another submission or a failed dispatch.
THEOREM BankableAlwaysKept == USpec => BankableKept
<1> DEFINE Kept == status = "BANKABLE" /\ status' # "BANKABLE" =>
        \/ failed
        \/ \E e, f \in Submissions :
             e # f /\ recorded[e] # "NONE" /\ recorded[f] # "NONE"
<1>1. UInv /\ [UNext]_uvars => [Kept]_uvars
  <2> SUFFICES ASSUME UInv, UNext, status = "BANKABLE", status' # "BANKABLE", ~ failed
               PROVE  \E e, f \in Submissions :
                         e # f /\ recorded[e] # "NONE" /\ recorded[f] # "NONE"
    OBVIOUS
  <2>1. PICK e \in Submissions : verdict[e] = "SUCCESS" /\ recorded[e] # "NONE"
    BY DEF UInv, AnswersHonest, BooksOK
  <2>2. PICK r \in Requests : SubmitMark(r) \/ LinkDuplicate(r) \/ ResetProfile(r)
    BY DEF UNext, Continue, EnrollUnbanked, NibssDecides, SubmitRead, SubmitCreate,
           RecordAnswer, UpgradeRead, UpgradeFind, UpgradeCommit, SetStatus,
           DispatchFails, FailRecord, Callback, Abort, profile
  <2>3. pc[r] \in {"mark", "link", "reset"}
    BY <2>2 DEF SubmitMark, LinkDuplicate, ResetProfile, UInv, RequestOK
  <2>4. /\ mine[r] \in Submissions /\ recorded[mine[r]] # "NONE"
        /\ verdict[mine[r]] # "SUCCESS"
    BY <2>3 DEF UInv, RequestOK, BooksOK
  <2> QED
    BY <2>1, <2>4
<1> QED
  BY <1>1, EnrollmentInvariantHolds, PTL DEF USpec, BankableKept
=============================================================================
