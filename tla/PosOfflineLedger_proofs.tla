----------------------- MODULE PosOfflineLedger_proofs -----------------------
(***************************************************************************)
(* The safety properties of PosOfflineLedger, and of the ApprovalSession   *)
(* in it, for any number of requests, deaths and failing statements.  The  *)
(* invariant adds to them what a request in flight may rely on: what the   *)
(* customer showed stays shown, an entry submitted never goes back, and    *)
(* what it is about to write follows from the status it loaded.            *)
(***************************************************************************)
EXTENDS PosOfflineLedger, TLAPS

\* What must have been shown, and what was loaded, for the write to come.
WriteOK(r) ==
    /\ pc[r] = "step_a_write" => "answer" \in shown /\ seen[r] = "INITIATED"
    /\ pc[r] = "step_b_write" =>
           "code" \in shown /\ seen[r] = "APPROVED_STEP_A"
    /\ pc[r] = "reject_write" =>
           "wrong" \in shown /\ seen[r] \in {"INITIATED", "APPROVED_STEP_A"}
    /\ pc[r] = "expire_write" => late /\ (flow = "unwp" => seen[r] # "COMPLETED")
    /\ pc[r] = "escalate_write" => flow = "unwp" /\ seen[r] \notin Final
    /\ pc[r] = "nibss" => flow = "unwp" /\ seen[r] = "BIOMETRIC_ESCALATION"
    /\ pc[r] = "biometric_write" =>
           "biometric" \in shown /\ seen[r] = "BIOMETRIC_ESCALATION"

\* A reconciliation past its first write works on an entry that was taken out
\* of the queue.
EntryTaken(r) ==
    pc[r] \in {"rec_nibss", "rec_done", "rec_audit"} =>
        entry \notin {"NONE", "QUEUED"}

PInv ==
    /\ PTypeOK
    /\ EvidenceBehind
    /\ QueuedUnsent
    /\ \A r \in Requests : WriteOK(r) /\ EntryTaken(r)

\* Nothing holds of the empty session but the types.
LEMMA PInvInit == PInit => PInv
<1> SUFFICES ASSUME PInit PROVE PInv
  OBVIOUS
<1>1. \A r \in Requests : pc[r] = "idle"
  BY DEF PInit, AInit
<1>2. \A r \in Requests : WriteOK(r) /\ EntryTaken(r)
  BY <1>1 DEF WriteOK, EntryTaken
<1>3. PTypeOK
  BY DEF PInit, AInit, PTypeOK, ATypeOK, Labels, Statuses, EntryStatuses
<1>4. EvidenceBehind /\ QueuedUnsent
  BY DEF PInit, AInit, EvidenceBehind, QueuedUnsent
<1> QED
  BY <1>2, <1>3, <1>4 DEF PInv

-----------------------------------------------------------------------------
(* What a step does to the requests that do not take it.                   *)

\* A request keeps what it relies on as long as it does not move, nothing
\* shown is taken back, time does not go back and the entry stays taken.
LEMMA OthersKeep ==
    ASSUME PInv, NEW q \in Requests,
           pc'[q] = pc[q], seen'[q] = seen[q],
           shown \subseteq shown', late => late', flow' = flow,
           entry \notin {"NONE", "QUEUED"} => entry' \notin {"NONE", "QUEUED"}
    PROVE  WriteOK(q)' /\ EntryTaken(q)'
BY DEF PInv, WriteOK, EntryTaken

\* A step of request r: the rest follows from what it does to r's own locals.
LEMMA StepKeeps ==
    ASSUME PInv, NEW r \in Requests, NEW label, NEW was,
           pc' = [pc EXCEPT ![r] = label],
           seen' = [seen EXCEPT ![r] = was],
           shown \subseteq shown', late => late', flow' = flow,
           entry \notin {"NONE", "QUEUED"} => entry' \notin {"NONE", "QUEUED"},
           WriteOK(r)', EntryTaken(r)'
    PROVE  \A q \in Requests : WriteOK(q)' /\ EntryTaken(q)'
<1>1. TAKE q \in Requests
<1>2. CASE q = r
  BY <1>2
<1>3. CASE q # r
  <2>1. pc'[q] = pc[q] /\ seen'[q] = seen[q]
    BY <1>3 DEF PInv, PTypeOK, ATypeOK
  <2> QED
    BY <2>1, OthersKeep
<1> QED
  BY <1>2, <1>3

\* A request that returns relies on nothing.
LEMMA ReturnKeeps ==
    ASSUME PInv, NEW r \in Requests, Return(r),
           shown \subseteq shown', late => late', flow' = flow,
           entry \notin {"NONE", "QUEUED"} => entry' \notin {"NONE", "QUEUED"}
    PROVE  /\ pc' \in [Requests -> Labels] /\ seen' \in [Requests -> Statuses]
           /\ \A q \in Requests : WriteOK(q)' /\ EntryTaken(q)'
<1>1. pc' \in [Requests -> Labels] /\ seen' \in [Requests -> Statuses]
  BY DEF Return, PInv, PTypeOK, ATypeOK, Labels, Statuses
<1>2. pc'[r] = "idle"
  BY DEF Return, PInv, PTypeOK, ATypeOK
<1>3. WriteOK(r)' /\ EntryTaken(r)'
  BY <1>2 DEF WriteOK, EntryTaken
<1> QED
  BY <1>1, <1>3, StepKeeps DEF Return

-----------------------------------------------------------------------------
(* The session's steps.                                                    *)

\* The write of a status is justified by what its request relies on.
LEMMA WriteInv ==
    ASSUME PInv, NEW r \in Requests, AContinue(r), UNCHANGED ledger
    PROVE  PInv'
<1> USE DEF PInv, PTypeOK, ATypeOK, ledger
<1>1. ASSUME NEW label, NEW s \in Statuses, Write(r, label, s),
             EvidenceBehind'
      PROVE  PInv'
  BY <1>1, ReturnKeeps DEF Write, QueuedUnsent
<1>2. CASE ExpireWrite(r)
  <2>1. EvidenceBehind'
    BY <1>2 DEF ExpireWrite, Write, WriteOK, EvidenceBehind
  <2> QED
    BY <1>1, <1>2, <2>1 DEF ExpireWrite, Statuses
<1>3. CASE RejectWrite(r)
  <2>1. EvidenceBehind'
    BY <1>3 DEF RejectWrite, Write, WriteOK, EvidenceBehind
  <2> QED
    BY <1>1, <1>3, <2>1 DEF RejectWrite, Statuses
<1>4. CASE StepAWrite(r)
  <2>1. EvidenceBehind'
    BY <1>4 DEF StepAWrite, Write, WriteOK, EvidenceBehind
  <2> QED
    BY <1>1, <1>4, <2>1 DEF StepAWrite, Statuses
<1>5. CASE StepBWrite(r)
  <2>1. EvidenceBehind'
    BY <1>5 DEF StepBWrite, Write, WriteOK, EvidenceBehind
  <2> QED
    BY <1>1, <1>5, <2>1 DEF StepBWrite, Statuses
<1>6. CASE EscalateWrite(r)
  <2>1. EvidenceBehind'
    BY <1>6 DEF EscalateWrite, Write, WriteOK, EvidenceBehind
  <2> QED
    BY <1>1, <1>6, <2>1 DEF EscalateWrite, Statuses
<1>7. CASE BiometricWrite(r)
  <2>1. EvidenceBehind'
    BY <1>7 DEF BiometricWrite, Write, WriteOK, EvidenceBehind
  <2> QED
    BY <1>1, <1>7, <2>1 DEF BiometricWrite, Statuses
<1>8. ASSUME NEW match \in BOOLEAN, NibssAnswers(r, match)
      PROVE  PInv'
  <2>1. CASE match
    <3>1. /\ pc' = [pc EXCEPT ![r] = "biometric_write"] /\ seen' = seen
          /\ shown' = shown \cup {"biometric"}
          /\ UNCHANGED <<flow, status, late, aborts, entry, sent, answers, throws>>
      BY <1>8, <2>1 DEF NibssAnswers
    <3>2. seen' = [seen EXCEPT ![r] = seen[r]]
      BY <3>1
    <3>3. pc'[r] = "biometric_write" /\ seen[r] = "BIOMETRIC_ESCALATION"
          /\ flow = "unwp"
      BY <1>8, <3>1 DEF NibssAnswers, WriteOK
    <3>4. WriteOK(r)' /\ EntryTaken(r)'
      BY <3>1, <3>3 DEF WriteOK, EntryTaken
    <3>5. \A q \in Requests : WriteOK(q)' /\ EntryTaken(q)'
      BY <3>1, <3>2, <3>4, StepKeeps
    <3>6. EvidenceBehind' /\ QueuedUnsent'
      BY <3>1, <3>3 DEF EvidenceBehind, QueuedUnsent
    <3> QED
      BY <3>1, <3>5, <3>6 DEF Labels, Proofs
  <2>2. CASE ~ match
    <3>1. EvidenceBehind' /\ QueuedUnsent'
      BY <1>8, <2>2 DEF NibssAnswers, EvidenceBehind, QueuedUnsent
    <3> QED
      BY <1>8, <2>2, <3>1, ReturnKeeps DEF NibssAnswers
  <2> QED
    BY <2>1, <2>2
<1> QED
  BY <1>2, <1>3, <1>4, <1>5, <1>6, <1>7, <1>8 DEF AContinue

\* A request that starts relies on what it has just read.
LEMMA BeginInv ==
    ASSUME PInv, NEW r \in Requests, NEW label \in Labels, Begin(r, label),
           shown \subseteq shown', shown' \subseteq Proofs,
           label \notin {"rec_nibss", "rec_done", "rec_audit"},
           WriteOK(r)', EvidenceBehind', UNCHANGED ledger
    PROVE  PInv'
<1> USE DEF PInv, PTypeOK, ATypeOK, ledger
<1>1. /\ pc' = [pc EXCEPT ![r] = label]
      /\ seen' = [seen EXCEPT ![r] = status]
      /\ UNCHANGED <<flow, status, late, aborts>>
  BY DEF Begin
<1>2. pc' \in [Requests -> Labels] /\ seen' \in [Requests -> Statuses]
  BY <1>1
<1>3. EntryTaken(r)'
  BY <1>1 DEF EntryTaken
<1>4. \A q \in Requests : WriteOK(q)' /\ EntryTaken(q)'
  BY <1>1, <1>3, StepKeeps
<1> QED
  BY <1>1, <1>2, <1>4 DEF QueuedUnsent

\* The starts of a session's requests.
LEMMA StartInv ==
    ASSUME PInv, NEW r \in Requests, AStart(r), UNCHANGED ledger
    PROVE  PInv'
<1> USE DEF PInv, PTypeOK, ATypeOK
<1>1. CASE LoadExpired(r)
  <2>1. /\ Begin(r, "expire_write") /\ UNCHANGED shown
        /\ pc'[r] = "expire_write" /\ seen'[r] = status
        /\ UNCHANGED <<flow, status, late, shown>>
    BY <1>1 DEF LoadExpired, Begin
  <2>2. late /\ (flow = "unwp" => status # "COMPLETED")
    BY <1>1, SessionAssumption DEF LoadExpired, Expired, EvidenceBehind
  <2>3. WriteOK(r)' /\ EvidenceBehind'
    BY <2>1, <2>2 DEF WriteOK, EvidenceBehind
  <2> QED
    BY <2>1, <2>3, BeginInv DEF Labels
<1>2. ASSUME NEW right \in BOOLEAN, ApproveStepA(r, right)
      PROVE  PInv'
  <2>1. CASE right
    <3>1. /\ Begin(r, "step_a_write") /\ shown' = shown \cup {"answer"}
          /\ pc'[r] = "step_a_write" /\ seen'[r] = "INITIATED"
          /\ UNCHANGED <<flow, status, late>>
      BY <1>2, <2>1 DEF ApproveStepA, Loaded, Shows, Begin
    <3>2. WriteOK(r)' /\ EvidenceBehind'
      BY <3>1 DEF WriteOK, EvidenceBehind
    <3> QED
      BY <3>1, <3>2, BeginInv DEF Labels, Proofs
  <2>2. CASE ~ right
    <3>1. /\ Begin(r, "reject_write") /\ shown' = shown \cup {"wrong"}
          /\ pc'[r] = "reject_write" /\ seen'[r] = "INITIATED"
          /\ UNCHANGED <<flow, status, late>>
      BY <1>2, <2>2 DEF ApproveStepA, Loaded, Shows, Begin
    <3>2. WriteOK(r)' /\ EvidenceBehind'
      BY <3>1 DEF WriteOK, EvidenceBehind
    <3> QED
      BY <3>1, <3>2, BeginInv DEF Labels, Proofs
  <2> QED
    BY <2>1, <2>2
<1>3. ASSUME NEW right \in BOOLEAN, ConfirmStepB(r, right)
      PROVE  PInv'
  <2>1. CASE right
    <3>1. /\ Begin(r, "step_b_write") /\ shown' = shown \cup {"code"}
          /\ pc'[r] = "step_b_write" /\ seen'[r] = "APPROVED_STEP_A"
          /\ status = "APPROVED_STEP_A" /\ UNCHANGED <<flow, status, late>>
      BY <1>3, <2>1 DEF ConfirmStepB, Loaded, Shows, Begin
    <3>2. WriteOK(r)' /\ EvidenceBehind'
      BY <3>1 DEF WriteOK, EvidenceBehind
    <3> QED
      BY <3>1, <3>2, BeginInv DEF Labels, Proofs
  <2>2. CASE ~ right
    <3>1. /\ Begin(r, "reject_write") /\ shown' = shown \cup {"wrong"}
          /\ pc'[r] = "reject_write" /\ seen'[r] = "APPROVED_STEP_A"
          /\ UNCHANGED <<flow, status, late>>
      BY <1>3, <2>2 DEF ConfirmStepB, Loaded, Shows, Begin
    <3>2. WriteOK(r)' /\ EvidenceBehind'
      BY <3>1 DEF WriteOK, EvidenceBehind
    <3> QED
      BY <3>1, <3>2, BeginInv DEF Labels, Proofs
  <2> QED
    BY <2>1, <2>2
<1>4. CASE Escalate(r)
  <2>1. /\ Begin(r, "escalate_write") /\ flow = "unwp" /\ status \notin Final
        /\ pc'[r] = "escalate_write" /\ seen'[r] = status
        /\ UNCHANGED <<flow, status, late, shown>>
    BY <1>4 DEF Escalate, Begin
  <2>2. WriteOK(r)' /\ EvidenceBehind'
    BY <2>1 DEF WriteOK, EvidenceBehind
  <2> QED
    BY <2>1, <2>2, BeginInv DEF Labels
<1>5. CASE SubmitBiometric(r)
  <2>1. /\ Begin(r, "nibss") /\ flow = "unwp"
        /\ pc'[r] = "nibss" /\ seen'[r] = "BIOMETRIC_ESCALATION"
        /\ UNCHANGED <<flow, status, late, shown>>
    BY <1>5 DEF SubmitBiometric, Loaded, Begin
  <2>2. WriteOK(r)' /\ EvidenceBehind'
    BY <2>1 DEF WriteOK, EvidenceBehind
  <2> QED
    BY <2>1, <2>2, BeginInv DEF Labels
<1> QED
  BY <1>1, <1>2, <1>3, <1>4, <1>5 DEF AStart

\* The creation of the session, the clock, and a request that dies.
LEMMA AroundInv ==
    ASSUME PInv, UNCHANGED ledger,
           InitiateSession \/ TimePasses \/ \E r \in Requests : Abort(r)
    PROVE  PInv'
<1> USE DEF PInv, PTypeOK, ATypeOK, ledger, session
<1>1. CASE InitiateSession
  <2>1. \A q \in Requests : WriteOK(q)' /\ EntryTaken(q)'
    BY <1>1, OthersKeep DEF InitiateSession
  <2> QED
    BY <1>1, <2>1 DEF InitiateSession, EvidenceBehind, QueuedUnsent, Statuses
<1>2. CASE TimePasses
  <2>1. \A q \in Requests : WriteOK(q)' /\ EntryTaken(q)'
    BY <1>2, OthersKeep DEF TimePasses
  <2> QED
    BY <1>2, <2>1 DEF TimePasses, EvidenceBehind, QueuedUnsent
<1>3. ASSUME NEW r \in Requests, Abort(r)
      PROVE  PInv'
  <2>1. Return(r) /\ UNCHANGED <<flow, status, late, shown>> /\ aborts' = aborts + 1
    BY <1>3 DEF Abort
  <2>2. EvidenceBehind' /\ QueuedUnsent'
    BY <2>1 DEF EvidenceBehind, QueuedUnsent
  <2> QED
    BY <2>1, <2>2, ReturnKeeps
<1> QED
  BY <1>1, <1>2, <1>3

-----------------------------------------------------------------------------
(* The ledger's steps.                                                     *)

\* A request of the ledger moves on: the session is left alone.
LEMMA GotoInv ==
    ASSUME PInv, NEW r \in Requests, NEW label, NEW next \in Labels,
           Goto(r, label, next),
           next \notin {"step_a_write", "step_b_write", "reject_write",
                        "expire_write", "escalate_write", "nibss",
                        "biometric_write"},
           entry' \in EntryStatuses, sent' \in Nat, throws' \in Nat,
           answers' \subseteq {"found", "other"},
           entry \notin {"NONE", "QUEUED"} => entry' \notin {"NONE", "QUEUED"},
           EntryTaken(r)', QueuedUnsent'
    PROVE  PInv'
<1> USE DEF PInv, PTypeOK, ATypeOK, session
<1>1. /\ pc' = [pc EXCEPT ![r] = next]
      /\ seen' = [seen EXCEPT ![r] = seen[r]]
      /\ UNCHANGED <<flow, status, late, shown, seen, aborts>>
  BY DEF Goto
<1>2. pc' \in [Requests -> Labels] /\ pc'[r] = next
  BY <1>1
<1>3. WriteOK(r)'
  BY <1>2 DEF WriteOK
<1>4. \A q \in Requests : WriteOK(q)' /\ EntryTaken(q)'
  BY <1>1, <1>3, StepKeeps
<1>5. EvidenceBehind'
  BY <1>1 DEF EvidenceBehind
<1> QED
  BY <1>1, <1>2, <1>4, <1>5

\* A request of the ledger ends.
LEMMA FinishInv ==
    ASSUME PInv, NEW r \in Requests, NEW label, Finish(r, label),
           entry' \in EntryStatuses, UNCHANGED <<sent, answers, throws>>,
           entry \notin {"NONE", "QUEUED"} => entry' \notin {"NONE", "QUEUED"}
    PROVE  PInv'
<1> USE DEF PInv, PTypeOK, ATypeOK, session
<1>1. Return(r) /\ UNCHANGED <<flow, status, late, shown, aborts>>
  BY DEF Finish
<1>2. EvidenceBehind' /\ QueuedUnsent'
  BY <1>1 DEF EvidenceBehind, QueuedUnsent
<1> QED
  BY <1>1, <1>2, ReturnKeeps

LEMMA LedgerInv ==
    ASSUME PInv, NEW r \in Requests,
           \/ CommitRead(r) \/ ReconcileRead(r)
           \/ PContinue(r) \/ ReconcileThrows(r)
    PROVE  PInv'
<1> USE DEF PInv, PTypeOK, ATypeOK
<1>1. ASSUME NEW label \in {"commit_create", "rec_submit"}, Begin(r, label),
             UNCHANGED <<shown, ledger>>
      PROVE  PInv'
  <2>1. pc'[r] = label /\ UNCHANGED <<flow, status, late, shown>>
    BY <1>1 DEF Begin
  <2>2. WriteOK(r)' /\ EvidenceBehind'
    BY <2>1 DEF WriteOK, EvidenceBehind
  <2> QED
    BY <1>1, <2>1, <2>2, BeginInv DEF Labels
<1>2. CASE CommitRead(r) \/ ReconcileRead(r)
  BY <1>1, <1>2 DEF CommitRead, ReconcileRead
<1>3. CASE CommitCreate(r)
  BY <1>3, FinishInv DEF CommitCreate, EntryStatuses
<1>4. CASE ReconcileSubmit(r)
  BY <1>4, GotoInv DEF ReconcileSubmit, EntryStatuses, EntryTaken,
                       QueuedUnsent, Labels
<1>5. ASSUME NEW outcome \in {"found", "other"}, ReconcileNibss(r, outcome)
      PROVE  PInv'
  <2>1. entry \notin {"NONE", "QUEUED"}
    BY <1>5 DEF ReconcileNibss, Goto, EntryTaken
  <2>2. EntryTaken(r)' /\ QueuedUnsent'
    BY <1>5, <2>1 DEF ReconcileNibss, EntryTaken, QueuedUnsent
  <2>3. /\ Goto(r, "rec_nibss", "rec_done")
        /\ sent' \in Nat /\ answers' \subseteq {"found", "other"}
        /\ entry' = entry /\ throws' = throws
    BY <1>5 DEF ReconcileNibss
  <2>4. entry' \in EntryStatuses /\ throws' \in Nat /\ "rec_done" \in Labels
    BY <2>3 DEF Labels
  <2> QED
    BY <2>1, <2>2, <2>3, <2>4, GotoInv
<1>6. CASE ReconcileDone(r)
  BY <1>6, GotoInv DEF ReconcileDone, EntryStatuses, EntryTaken,
                       QueuedUnsent, Labels
<1>7. CASE ReconcileAudit(r)
  BY <1>7, FinishInv DEF ReconcileAudit, ledger
<1>8. CASE ReconcileReject(r)
  BY <1>8, FinishInv DEF ReconcileReject, EntryStatuses
<1>9. CASE ReconcileThrows(r)
  <2>1. PICK label \in {"rec_submit", "rec_done", "rec_audit"} :
            Goto(r, label, "rec_reject")
    BY <1>9 DEF ReconcileThrows
  <2>2. /\ UNCHANGED <<entry, sent, answers>> /\ throws' = throws + 1
        /\ pc'[r] = "rec_reject"
    BY <1>9, <2>1 DEF ReconcileThrows, Goto
  <2>3. EntryTaken(r)' /\ QueuedUnsent'
    BY <2>2 DEF EntryTaken, QueuedUnsent
  <2>4. /\ entry' \in EntryStatuses /\ sent' \in Nat /\ throws' \in Nat
        /\ answers' \subseteq {"found", "other"} /\ "rec_reject" \in Labels
    BY <2>2 DEF Labels
  <2> QED
    BY <2>1, <2>2, <2>3, <2>4, GotoInv
<1> QED
  BY <1>2, <1>3, <1>4, <1>5, <1>6, <1>7, <1>8, <1>9 DEF PContinue

\* Every step keeps the invariant.
LEMMA PInvStep == PInv /\ [PNext]_pvars => PInv'
<1> SUFFICES ASSUME PInv, [PNext]_pvars PROVE PInv'
  OBVIOUS
<1>1. CASE ANext /\ UNCHANGED ledger
  BY <1>1, WriteInv, StartInv, AroundInv DEF ANext
<1>2. ASSUME NEW r \in Requests,
             \/ CommitRead(r) \/ ReconcileRead(r)
             \/ PContinue(r) \/ ReconcileThrows(r)
      PROVE  PInv'
  BY <1>2, LedgerInv
<1>3. CASE UNCHANGED pvars
  BY <1>3 DEF pvars, avars, session, ledger, PInv, PTypeOK, ATypeOK,
              EvidenceBehind, QueuedUnsent, WriteOK, EntryTaken, Expired
<1> QED
  BY <1>1, <1>2, <1>3 DEF PNext

-----------------------------------------------------------------------------
(* What follows for every behaviour.                                       *)

\* The invariant holds for the two services and the ledger together.
THEOREM PosInvariantHolds == PSpec => []PInv
BY PInvInit, PInvStep, PTL DEF PSpec

\* Types: no status, entry or answer outside the ones the code knows.
THEOREM PosTypes == PSpec => []PTypeOK
<1>1. PInv => PTypeOK
  BY DEF PInv
<1> QED
  BY <1>1, PosInvariantHolds, PTL

\* No overlap of requests completes or rejects a session on less than the
\* customer showed (approveStepA, confirmStepB, submitEscalationBiometric).
THEOREM EvidenceAlwaysBehind == PSpec => []EvidenceBehind
<1>1. PInv => EvidenceBehind
  BY DEF PInv
<1> QED
  BY <1>1, PosInvariantHolds, PTL

\* The mark before the call is enough for entries still in the queue, however
\* many reconciliations overlap or die (reconcileTerminal).
THEOREM QueuedAlwaysUnsent == PSpec => []QueuedUnsent
<1>1. PInv => QueuedUnsent
  BY DEF PInv
<1> QED
  BY <1>1, PosInvariantHolds, PTL

\* A request that has seen the end of a session does not undo it.
THEOREM FinalAlwaysRespected == PSpec => FinalRespected
<1> DEFINE Change == status' # status =>
        \/ status = "NONE"
        \/ \E r \in Requests :
             /\ pc[r] # "idle" /\ pc'[r] = "idle"
             /\ seen[r] \in Final => status' = "EXPIRED"
             /\ flow = "unwp" => seen[r] # "COMPLETED"
<1>1. PInv /\ [PNext]_pvars => [Change]_avars
  <2> SUFFICES ASSUME PInv, PNext, status' # status, status # "NONE"
               PROVE  Change
    BY DEF pvars, avars, session
  <2>1. PICK r \in Requests :
            \/ ExpireWrite(r) \/ RejectWrite(r) \/ StepAWrite(r)
            \/ StepBWrite(r) \/ EscalateWrite(r) \/ BiometricWrite(r)
    BY DEF PNext, ANext, InitiateSession, TimePasses, Abort, AStart, AContinue,
           LoadExpired, ApproveStepA, ConfirmStepB, Shows, Escalate,
           SubmitBiometric, Begin, NibssAnswers, session, CommitRead,
           ReconcileRead, PContinue, CommitCreate, ReconcileSubmit,
           ReconcileDone, ReconcileNibss, ReconcileAudit, ReconcileReject,
           ReconcileThrows, Goto, Finish
  <2>2. pc[r] # "idle" /\ Return(r)
    BY <2>1 DEF ExpireWrite, RejectWrite, StepAWrite, StepBWrite,
                EscalateWrite, BiometricWrite, Write
  <2>3. pc'[r] = "idle"
    BY <2>2 DEF Return, PInv, PTypeOK, ATypeOK
  <2>4. /\ seen[r] \in Final => status' = "EXPIRED"
        /\ flow = "unwp" => seen[r] # "COMPLETED"
    BY <2>1 DEF ExpireWrite, RejectWrite, StepAWrite, StepBWrite,
                EscalateWrite, BiometricWrite, Write, PInv, WriteOK, Final
  <2> QED
    BY <2>2, <2>3, <2>4
<1> QED
  BY <1>1, PosInvariantHolds, PTL DEF PSpec, FinalRespected
=============================================================================
