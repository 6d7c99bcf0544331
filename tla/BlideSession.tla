---------------------------- MODULE BlideSession ----------------------------
(***************************************************************************)
(* Biometric liveness identity execution, apps/api/src/blide.  A face      *)
(* unlocks an identity, a target is selected, a liveness challenge is      *)
(* issued and answered, and the transaction is executed.                   *)
(*                                                                         *)
(* The challenges of a session are a table of their own, here the sequence *)
(* `challenges` in order of creation.                                      *)
(***************************************************************************)
EXTENDS IdentityGateways, Sequences

CONSTANTS
    Tasks   \* the pool of liveness tasks

BlideKinds == {"ACCOUNT_SETUP", "OPERATION"}

BlideStatuses == {"NONE", "INITIATED", "NO_MATCH", "IDENTITY_UNLOCKED",
                  "LIVENESS_CHALLENGED", "LIVENESS_VERIFIED", "EXECUTING",
                  "COMPLETED", "FAILED"}

BlideRows == [status : BlideStatuses, kind : BlideKinds,
              match : Anyone,      \* faceMatchId
              data : Anyone,       \* owner of shadowProfileBlob or accountMapBlob
              selected : Anyone,   \* owner of the data selected from
              challenges : Seq([task : Tasks, consumed : BOOLEAN])]

BlideEmpty == [status |-> "NONE", kind |-> "OPERATION", match |-> NoOne,
               data |-> NoOne, selected |-> NoOne, challenges |-> <<>>]

\* Of the session's row the endpoints use the match, and whose profile or
\* account the transaction is about.
BlideLoaded(target) ==
    [Checked EXCEPT !.row = [BlideEmpty EXCEPT !.match = row.match, !.selected = target]]

BlideTarget == IF row.kind = "ACCOUNT_SETUP" THEN row.data ELSE row.selected

BlideIssued ==
    [Checked EXCEPT !.row = [BlideEmpty EXCEPT !.challenges = row.challenges]]

BlideSet(status) == [row EXCEPT !.status = status]

BlideInitiate(r) ==
    /\ service = "BLIDE" /\ row.status = "NONE"
    /\ \E k \in BlideKinds :
          Once(r, [row EXCEPT !.status = "INITIATED", !.kind = k], world)

BlideSubmitFace(r) ==
    /\ service = "BLIDE" /\ row.status = "INITIATED"
    /\ Begin(r, "blide_search", Checked)

BlideSearch(r) ==
    pc[r] = "blide_search" /\ SearchByFace(r, "blide_unlock", "blide_no_match")

BlideUnlock(r) ==
    LET p == held[r].person IN
    /\ pc[r] = "blide_unlock"
    /\ Save(r, [row EXCEPT !.status = "IDENTITY_UNLOCKED", !.match = p, !.data = p],
            "idle")

BlideNoMatch(r) == pc[r] = "blide_no_match" /\ Save(r, BlideSet("NO_MATCH"), "idle")

\* selectTarget: the status is written before the challenge is issued.
BlideSelectTarget(r) ==
    /\ service = "BLIDE" /\ row.status = "IDENTITY_UNLOCKED"
    /\ row.kind = "OPERATION" => row.data # NoOne
    /\ Begin(r, "blide_select", BlideLoaded(row.data))

BlideSelected(r) ==
    /\ pc[r] = "blide_select"
    /\ Save(r, [row EXCEPT !.status = "LIVENESS_CHALLENGED",
                           !.selected = held[r].row.selected],
            "blide_issue")

\* issueLivenessChallenge reads the tasks issued so far, then creates a row.
BlideReadIssued(r) ==
    /\ pc[r] = "blide_issue"
    /\ Step(r, "blide_create", BlideIssued, row, world)

IssuedTasks(loaded) == {loaded.challenges[i].task : i \in DOMAIN loaded.challenges}

\* Tasks not yet issued, or all of them once the pool is exhausted.
EligibleTasks(loaded) ==
    IF Tasks \ IssuedTasks(loaded) = {} THEN Tasks ELSE Tasks \ IssuedTasks(loaded)

\* Variation: the status says challenged, and the task is none of the pool.
MutBlideCreateChallenge(r) ==
    /\ pc[r] = "blide_create"
    /\ Step(r, "idle", NoValue,
            [row EXCEPT !.challenges = Append(@, [task |-> "none", consumed |-> FALSE])],
            world)

\* A repetition is a task issued again while others were left.
BlideCreateChallenge(r) ==
    /\ pc[r] = "blide_create"
    /\ \E t \in EligibleTasks(held[r].row) :
          Step(r, "idle", NoValue,
               [row EXCEPT !.challenges = Append(@, [task |-> t, consumed |-> FALSE])],
               [world EXCEPT !.repeats =
                    @ + IF t \notin EligibleTasks(row) THEN 1 ELSE 0])

BlideSubmitLiveness(r) ==
    /\ service = "BLIDE" /\ row.status = "LIVENESS_CHALLENGED"
    /\ \E c \in DOMAIN row.challenges :
          Begin(r, "blide_verify", [BlideLoaded(BlideTarget) EXCEPT !.challenge = c])

\* verifyLivenessResponse: a consumed or expired challenge is refused.
BlideReadChallenge(r) ==
    /\ pc[r] = "blide_verify"
    /\ \/ /\ ~ row.challenges[held[r].challenge].consumed
          /\ Pass(r, "blide_consume")
       \/ Pass(r, "idle")

\* Consumed whether the frames pass or not; they are taken for those of the
\* person the loaded session was matched to.  The target is all that is still used.
BlideConsume(r) ==
    LET spent == [row EXCEPT !.challenges[held[r].challenge].consumed = TRUE]
        left == [held[r] EXCEPT !.challenge = 0, !.row.match = NoOne]
    IN
    /\ pc[r] = "blide_consume"
    /\ \/ Step(r, "blide_verified", left, spent, Show(held[r].row.match, "live"))
       \/ Save(r, spent, "idle")

BlideVerified(r) ==
    pc[r] = "blide_verified" /\ Save(r, BlideSet("LIVENESS_VERIFIED"), "blide_claim")

BlideExecuting(r) ==
    pc[r] = "blide_claim" /\ Save(r, BlideSet("EXECUTING"), "blide_execute")

\* What is executed is what was loaded before the challenge was verified.
BlideExecute(r) ==
    LET target == held[r].row.selected IN
    /\ pc[r] = "blide_execute"
    /\ \/ /\ row.kind = "ACCOUNT_SETUP"
          /\ PushToCbs(r, target, "blide_completed", "blide_failed")
       \/ /\ row.kind = "OPERATION"
          /\ \/ Act(r, Serve(target), "blide_completed")
             \/ Pass(r, "blide_failed")

\* The account map is wiped; a shadow profile stays.
BlideClosed(status) ==
    [row EXCEPT !.status = status,
                !.data = IF row.kind = "OPERATION" THEN NoOne ELSE @]

BlideCompleted(r) ==
    /\ pc[r] = "blide_completed"
    /\ Step(r, "idle", NoValue, BlideClosed("COMPLETED"), Tell)

BlideFailed(r) == pc[r] = "blide_failed" /\ Save(r, BlideClosed("FAILED"), "idle")

BlideLabels == {"blide_search", "blide_unlock", "blide_no_match", "blide_select",
                "blide_issue", "blide_create", "blide_verify", "blide_consume",
                "blide_verified", "blide_claim", "blide_execute",
                "blide_completed", "blide_failed"}

BlideCall(r) ==
    \/ BlideInitiate(r) \/ BlideSubmitFace(r) \/ BlideSelectTarget(r)
    \/ BlideSubmitLiveness(r)

BlideGoOn(r) ==
    \/ BlideSearch(r) \/ BlideUnlock(r) \/ BlideNoMatch(r) \/ BlideSelected(r)
    \/ BlideReadIssued(r) \/ BlideCreateChallenge(r) \/ BlideReadChallenge(r)
    \/ BlideConsume(r) \/ BlideVerified(r) \/ BlideExecuting(r)
    \/ BlideExecute(r) \/ BlideCompleted(r) \/ BlideFailed(r)
=============================================================================
