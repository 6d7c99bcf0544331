-------------------------- MODULE ApprovalSession --------------------------
(***************************************************************************)
(* One session in which a customer approves a withdrawal at a terminal:    *)
(* answer a question on the phone (step A), then enter the code the        *)
(* terminal shows (step B).  Two services run it, apps/api/src/unwp and    *)
(* apps/api/src/lbas, alike but for what flow decides here: UNWP can turn  *)
(* to biometrics when the phone cannot be reached, and the two do not mean *)
(* the same by an expired session.                                         *)
(*                                                                         *)
(* Every operation loads the session, decides on what it read, perhaps     *)
(* waits for NIBSS, and then writes the status with no condition.  The     *)
(* load is one step, each later write or wait another.  What follows a     *)
(* write is audit and answer.  A request its load refuses writes nothing,  *)
(* unless it is to write that the session expired.                         *)
(***************************************************************************)
EXTENDS Naturals, FiniteSets

CONSTANTS
    Requests,   \* request slots: how many requests can overlap
    Flows,      \* the services to consider
    MaxAborts   \* bound: requests that die between two steps

ASSUME SessionAssumption ==
    Flows \subseteq {"unwp", "lbas"} /\ MaxAborts \in Nat

VARIABLES
    flow,     \* the service the session belongs to
    status,   \* status of the session row
    late,     \* TRUE once expiresAt has passed
    shown,    \* what the customer has shown so far, a history
    pc,       \* where each request is
    seen,     \* the status each request loaded
    aborts    \* requests that died half way

session == <<status, late, shown>>
avars == <<flow, session, pc, seen, aborts>>

Statuses == {"NONE", "INITIATED", "APPROVED_STEP_A", "COMPLETED",
             "BIOMETRIC_ESCALATION", "REJECTED", "EXPIRED"}
Final == {"COMPLETED", "REJECTED", "EXPIRED"}
Proofs == {"answer", "code", "biometric", "wrong"}
Labels ==
    {"idle", "step_a_write", "step_b_write", "reject_write", "expire_write",
     "escalate_write", "nibss", "biometric_write"}
    \cup   \* the requests of PosOfflineLedger
    {"commit_create", "rec_submit", "rec_nibss", "rec_done", "rec_audit",
     "rec_reject"}

ATypeOK ==
    /\ flow \in Flows
    /\ status \in Statuses
    /\ late \in BOOLEAN
    /\ shown \subseteq Proofs
    /\ pc \in [Requests -> Labels]
    /\ seen \in [Requests -> Statuses]
    /\ aborts \in Nat

AInit ==
    /\ flow \in Flows
    /\ status = "NONE" /\ late = FALSE /\ shown = {}
    /\ pc = [r \in Requests |-> "idle"]
    /\ seen = [r \in Requests |-> "NONE"]
    /\ aborts = 0

-----------------------------------------------------------------------------
(* Steps of a request.                                                     *)

Begin(r, label) ==
    /\ pc[r] = "idle"
    /\ pc' = [pc EXCEPT ![r] = label]
    /\ seen' = [seen EXCEPT ![r] = status]
    /\ UNCHANGED <<flow, status, late, aborts>>

Return(r) ==
    /\ pc' = [pc EXCEPT ![r] = "idle"]
    /\ seen' = [seen EXCEPT ![r] = "NONE"]

Write(r, label, newStatus) ==
    /\ pc[r] = label
    /\ status' = newStatus
    /\ Return(r)
    /\ UNCHANGED <<flow, late, shown, aborts>>

\* initiateSession: one insert; the reference is random and new.
InitiateSession ==
    /\ status = "NONE" /\ status' = "INITIATED"
    /\ UNCHANGED <<flow, late, shown, pc, seen, aborts>>

\* loadSession: UNWP spares a completed session, LBAS expires any.
Expired ==
    IF flow = "lbas" THEN late
    ELSE status = "EXPIRED" \/ (status # "COMPLETED" /\ late)

\* Any operation, the two GETs among them, that finds the session expired.
LoadExpired(r) ==
    /\ status # "NONE" /\ Expired
    /\ Begin(r, "expire_write")
    /\ UNCHANGED shown

\* Variation: what was shown is not asked for before step B.
MutLoaded(s) == status \in {s, "INITIATED"} /\ ~ Expired

Loaded(s) == status = s /\ ~ Expired

\* The answer, then the code, is compared as soon as the session is loaded.
Shows(r, right, proof, label) ==
    /\ Begin(r, IF right THEN label ELSE "reject_write")
    /\ shown' = shown \cup {IF right THEN proof ELSE "wrong"}

ApproveStepA(r, right) ==
    Loaded("INITIATED") /\ Shows(r, right, "answer", "step_a_write")

ConfirmStepB(r, right) ==
    Loaded("APPROVED_STEP_A") /\ Shows(r, right, "code", "step_b_write")

\* Variation: a rejected session can be escalated.
MutEscalate(r) ==
    /\ flow = "unwp" /\ status \notin {"NONE", "COMPLETED"} /\ ~ Expired
    /\ Begin(r, "escalate_write")
    /\ UNCHANGED shown

Escalate(r) ==
    /\ flow = "unwp" /\ status \notin Final \cup {"NONE"} /\ ~ Expired
    /\ Begin(r, "escalate_write")
    /\ UNCHANGED shown

SubmitBiometric(r) ==
    /\ flow = "unwp" /\ Loaded("BIOMETRIC_ESCALATION")
    /\ Begin(r, "nibss")
    /\ UNCHANGED shown

\* A biometric that does not match leaves the session as it is, to be tried
\* again.
NibssAnswers(r, match) ==
    /\ pc[r] = "nibss"
    /\ IF match
       THEN /\ pc' = [pc EXCEPT ![r] = "biometric_write"]
            /\ shown' = shown \cup {"biometric"}
            /\ UNCHANGED seen
       ELSE Return(r) /\ UNCHANGED shown
    /\ UNCHANGED <<flow, status, late, aborts>>

ExpireWrite(r) == Write(r, "expire_write", "EXPIRED")
RejectWrite(r) == Write(r, "reject_write", "REJECTED")
StepAWrite(r) == Write(r, "step_a_write", "APPROVED_STEP_A")
StepBWrite(r) == Write(r, "step_b_write", "COMPLETED")
EscalateWrite(r) == Write(r, "escalate_write", "BIOMETRIC_ESCALATION")
BiometricWrite(r) == Write(r, "biometric_write", "COMPLETED")

TimePasses ==
    /\ status # "NONE" /\ ~ late
    /\ late' = TRUE
    /\ UNCHANGED <<flow, status, shown, pc, seen, aborts>>

Abort(r) ==
    /\ pc[r] # "idle" /\ aborts < MaxAborts
    /\ aborts' = aborts + 1
    /\ Return(r)
    /\ UNCHANGED <<flow, session>>

AStart(r) ==
    \/ LoadExpired(r)
    \/ \E right \in BOOLEAN : ApproveStepA(r, right) \/ ConfirmStepB(r, right)
    \/ Escalate(r) \/ SubmitBiometric(r)

AContinue(r) ==
    \/ ExpireWrite(r) \/ RejectWrite(r) \/ StepAWrite(r) \/ StepBWrite(r)
    \/ EscalateWrite(r) \/ BiometricWrite(r)
    \/ \E match \in BOOLEAN : NibssAnswers(r, match)

ANext ==
    \/ InitiateSession \/ TimePasses
    \/ \E r \in Requests : AStart(r) \/ AContinue(r) \/ Abort(r)

-----------------------------------------------------------------------------
(* Properties.                                                             *)

\* A session is what the customer showed, however the requests that found it
\* so overlap: completed only after the right answer and then the right code,
\* or after a biometric NIBSS matched and only under UNWP; rejected only after
\* something wrong; expired only after its time.
EvidenceBehind ==
    /\ status = "COMPLETED" => "code" \in shown \/ "biometric" \in shown
    /\ "code" \in shown \/ status = "APPROVED_STEP_A" => "answer" \in shown
    /\ "biometric" \in shown \/ status = "BIOMETRIC_ESCALATION"
           => flow = "unwp"
    /\ status = "REJECTED" => "wrong" \in shown
    /\ status = "EXPIRED" => late

\* A request that found the session completed, rejected or expired changes it
\* to expired at most, and under UNWP a completed one not at all: only one
\* that loaded it before can take it back.
FinalRespected ==
    [][status' # status => \/ status = "NONE"
                           \/ \E r \in Requests :
                                /\ pc[r] # "idle" /\ pc'[r] = "idle"
                                /\ seen[r] \in Final => status' = "EXPIRED"
                                /\ flow = "unwp" => seen[r] # "COMPLETED"]_avars
=============================================================================
