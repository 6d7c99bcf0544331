------------------------------ MODULE BihScan -------------------------------
(***************************************************************************)
(* Biometric Identity Hub, apps/api/src/bih.  A fingerprint unlocks an     *)
(* identity; the session then opens an account at a bank                   *)
(* (selectBankAndProvision) or executes one operation (authorizeOperation). *)
(* loadActive also refuses a session past its time, without a write: that  *)
(* is a call that does not happen.                                         *)
(***************************************************************************)
EXTENDS IdentityGateways

Kinds == {"ACCOUNT_SETUP", "OPERATION"}

BihStatuses == {"NONE", "SCAN_REQUESTED", "NO_MATCH", "IDENTITY_UNLOCKED",
                "BANK_SELECTED", "PROVISIONING", "COMPLETED", "FAILED"}

BihRows == [status : BihStatuses, kind : Kinds, match : Anyone,
            prov : {"NONE", "PENDING", "SUCCESS", "FAILED"}]

BihEmpty == [status |-> "NONE", kind |-> "OPERATION", match |-> NoOne, prov |-> "NONE"]

BihSet(status) == [row EXCEPT !.status = status]
BihClosed(status, prov) == [row EXCEPT !.status = status, !.prov = prov]

BihInitiate(r) ==
    /\ service = "BIH" /\ row.status = "NONE"
    /\ \E k \in Kinds :
          Once(r, [row EXCEPT !.status = "SCAN_REQUESTED", !.kind = k], world)

BihSubmitTemplate(r) ==
    /\ service = "BIH" /\ row.status = "SCAN_REQUESTED"
    /\ Begin(r, "bih_search", Checked)

BihSearch(r) ==
    /\ pc[r] = "bih_search"
    /\ SearchByFingerprint(r, "finger", "bih_unlock", "bih_no_match")

BihUnlock(r) ==
    /\ pc[r] = "bih_unlock"
    /\ Save(r, [row EXCEPT !.status = "IDENTITY_UNLOCKED", !.match = held[r].person],
            "idle")

BihNoMatch(r) == pc[r] = "bih_no_match" /\ Save(r, BihSet("NO_MATCH"), "idle")

\* selectBankAndProvision.  Two updates claim the session before the bank is
\* asked.
BihSelectBank(r) ==
    /\ service = "BIH" /\ row.status = "IDENTITY_UNLOCKED"
    /\ row.kind = "ACCOUNT_SETUP"
    /\ Begin(r, "bih_select", Loaded)

BihBankSelected(r) ==
    pc[r] = "bih_select" /\ Save(r, BihSet("BANK_SELECTED"), "bih_provision")

BihProvisioning(r) ==
    /\ pc[r] = "bih_provision"
    /\ Save(r, BihClosed("PROVISIONING", "PENDING"), "bih_push")

BihPush(r) ==
    /\ pc[r] = "bih_push"
    /\ PushToCbs(r, held[r].row.match, "bih_complete", "bih_fail")

BihComplete(r) ==
    /\ pc[r] = "bih_complete"
    /\ Save(r, BihClosed("COMPLETED", "SUCCESS"), "bih_audit")

BihAnswer(r) == pc[r] = "bih_audit" /\ Act(r, Tell, "idle")

\* The statements after the push stand in the same try as the push.
BihThrow(r) ==
    pc[r] \in {"bih_complete", "bih_audit"} /\ Fault(r, "bih_fail", world)

\* Variation: the catch reports the error and leaves the row alone.
MutBihFail(r) == pc[r] = "bih_fail" /\ Pass(r, "idle")

BihFail(r) == pc[r] = "bih_fail" /\ Save(r, BihClosed("FAILED", "FAILED"), "idle")

\* authorizeOperation executes first and writes afterwards.
BihAuthorize(r) ==
    /\ service = "BIH" /\ row.status = "IDENTITY_UNLOCKED"
    /\ row.kind = "OPERATION"
    /\ Begin(r, "bih_execute", Loaded)

BihExecute(r) ==
    /\ pc[r] = "bih_execute"
    /\ \/ Act(r, Serve(held[r].row.match), "bih_authorized")
       \/ Pass(r, "bih_fail")

BihAuthorized(r) ==
    /\ pc[r] = "bih_authorized"
    /\ Step(r, "idle", NoValue, BihClosed("COMPLETED", "SUCCESS"), Tell)

BihLabels == {"bih_search", "bih_unlock", "bih_no_match", "bih_select",
              "bih_provision", "bih_push", "bih_complete", "bih_audit",
              "bih_fail", "bih_execute", "bih_authorized"}

BihCall(r) ==
    BihInitiate(r) \/ BihSubmitTemplate(r) \/ BihSelectBank(r) \/ BihAuthorize(r)

BihGoOn(r) ==
    \/ BihSearch(r) \/ BihUnlock(r) \/ BihNoMatch(r)
    \/ BihBankSelected(r) \/ BihProvisioning(r) \/ BihPush(r)
    \/ BihComplete(r) \/ BihAnswer(r) \/ BihFail(r)
    \/ BihExecute(r) \/ BihAuthorized(r)
=============================================================================
