----------------------------- MODULE BlsSession -----------------------------
(***************************************************************************)
(* Biometric Linked Session, apps/api/src/bls.  A first scan discovers the *)
(* accounts of a person and anchors the session to them; the person        *)
(* selects one, and a second scan, the seal, must be theirs too.           *)
(*                                                                         *)
(* An account is told apart by its owner only.  Every endpoint begins with *)
(* assertActive, which writes EXPIRED once the idle time is over, whatever *)
(* the status.  The hard time limit refuses without a write.               *)
(***************************************************************************)
EXTENDS IdentityGateways

BlsStatuses == {"NONE", "INITIATED", "DISCOVERED", "AWAITING_SEAL", "EXECUTED",
                "FAILED", "EXPIRED"}

BlsRows == [status : BlsStatuses,
            anchor : Anyone,     \* bvnAnchorHash
            accounts : Anyone,   \* owner of the accounts in accountMapBlob
            selected : Anyone,   \* owner of the selected account
            crossValidated : BOOLEAN,
            idleOver : BOOLEAN]  \* idleExpiresAt has passed

BlsEmpty == [status |-> "NONE", anchor |-> NoOne, accounts |-> NoOne,
             selected |-> NoOne, crossValidated |-> FALSE, idleOver |-> FALSE]

BlsSet(status) == [row EXCEPT !.status = status]
BlsWiped(status) == [row EXCEPT !.status = status, !.accounts = NoOne]

BlsInitiate(r) ==
    /\ service = "BLS" /\ row.status = "NONE"
    /\ Once(r, BlsSet("INITIATED"), world)

\* assertActive lets a request through only in the status it asks for.
BlsAssertActive(status) ==
    service = "BLS" /\ row.status = status /\ ~ row.idleOver

BlsFindIdle(r) ==
    /\ service = "BLS" /\ row.status # "NONE" /\ row.idleOver
    /\ Begin(r, "bls_expire", Checked)

BlsExpire(r) == pc[r] = "bls_expire" /\ Save(r, BlsSet("EXPIRED"), "idle")

BlsTimePasses ==
    /\ service = "BLS" /\ row.status # "NONE" /\ ~ row.idleOver
    /\ Outside([row EXCEPT !.idleOver = TRUE], world)

BlsSubmitDiscoveryScan(r) ==
    BlsAssertActive("INITIATED") /\ Begin(r, "bls_search", Checked)

BlsSearch(r) ==
    /\ pc[r] = "bls_search"
    /\ SearchByFingerprint(r, "finger", "bls_discovered", "bls_fail")

BlsDiscovered(r) ==
    /\ pc[r] = "bls_discovered"
    /\ Save(r, [row EXCEPT !.status = "DISCOVERED", !.anchor = held[r].person,
                           !.accounts = held[r].person, !.idleOver = FALSE],
            "idle")

BlsFail(r) == pc[r] = "bls_fail" /\ Save(r, BlsSet("FAILED"), "idle")

BlsSelectAccount(r) ==
    /\ BlsAssertActive("DISCOVERED") /\ row.accounts # NoOne
    /\ Begin(r, "bls_select", Loaded)

BlsSelected(r) ==
    /\ pc[r] = "bls_select"
    /\ Save(r, [row EXCEPT !.status = "AWAITING_SEAL",
                           !.selected = held[r].row.accounts, !.idleOver = FALSE],
            "idle")

BlsSubmitSealScan(r) ==
    /\ BlsAssertActive("AWAITING_SEAL")
    /\ row.anchor # NoOne /\ row.selected # NoOne
    /\ Begin(r, "bls_seal", Loaded)

BlsSeal(r) ==
    /\ pc[r] = "bls_seal"
    /\ SearchByFingerprint(r, "seal", "bls_cross", "bls_fail")

\* Variation: the seal need only be somebody's.
MutBlsCrossValidate(r) ==
    /\ pc[r] = "bls_cross"
    /\ Save(r, [row EXCEPT !.crossValidated = (held[r].person # NoOne)], "bls_execute")

\* The seal is compared with the anchor that was loaded.
BlsCrossValidate(r) ==
    LET same == held[r].person = held[r].row.anchor IN
    /\ pc[r] = "bls_cross"
    /\ Save(r, [row EXCEPT !.crossValidated = same],
            IF same THEN "bls_execute" ELSE "bls_fail")

\* The selected account is looked up among the accounts that were loaded; the
\* debit itself may fail too.
BlsExecute(r) ==
    LET loaded == held[r].row IN
    /\ pc[r] = "bls_execute"
    /\ \/ /\ loaded.accounts # NoOne /\ loaded.selected = loaded.accounts
          /\ Act(r, Serve(loaded.selected), "bls_executed")
       \/ Pass(r, "bls_failed")

BlsExecuted(r) ==
    pc[r] = "bls_executed" /\ Save(r, BlsWiped("EXECUTED"), "bls_audit")

\* The compliance row is written last; when it throws the caller gets an error.
BlsAnswer(r) == pc[r] = "bls_audit" /\ Act(r, Tell, "idle")

BlsFailed(r) == pc[r] = "bls_failed" /\ Save(r, BlsWiped("FAILED"), "idle")

BlsLabels == {"bls_expire", "bls_search", "bls_discovered", "bls_fail", "bls_select",
              "bls_seal", "bls_cross", "bls_execute", "bls_executed", "bls_audit",
              "bls_failed"}

BlsCall(r) ==
    \/ BlsInitiate(r) \/ BlsFindIdle(r) \/ BlsSubmitDiscoveryScan(r)
    \/ BlsSelectAccount(r) \/ BlsSubmitSealScan(r)

BlsGoOn(r) ==
    \/ BlsExpire(r) \/ BlsSearch(r) \/ BlsDiscovered(r) \/ BlsFail(r)
    \/ BlsSelected(r) \/ BlsSeal(r) \/ BlsCrossValidate(r) \/ BlsExecute(r)
    \/ BlsExecuted(r) \/ BlsAnswer(r) \/ BlsFailed(r)
=============================================================================
