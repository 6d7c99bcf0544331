--------------------------- MODULE ZfoeProvision ----------------------------
(***************************************************************************)
(* Zero-Friction Onboarding, apps/api/src/zfoe.  The profile of a phone    *)
(* number's subscriber is fetched, a bank is selected, and a biometric     *)
(* matched at NIBSS authorises the opening of the account.                 *)
(*                                                                         *)
(* The row is the first session of the phone number; one created besides   *)
(* while it is active is counted in `repeats` and not followed.            *)
(***************************************************************************)
EXTENDS IdentityGateways

ZfoeStatuses == {"NONE", "IDENTITY_FETCHED", "BANK_SELECTED", "BIOMETRIC_OK",
                 "PROVISIONING", "COMPLETED", "FAILED"}

ZfoeRows == [status : ZfoeStatuses, subscriber : Anyone]

ZfoeEmpty == [status |-> "NONE", subscriber |-> NoOne]

ZfoeSet(status) == [row EXCEPT !.status = status]

\* initiateHarvest looks for an active session of the number.
ZfoeHarvest(r) ==
    /\ service = "ZFOE" /\ row.status = "NONE"
    /\ Begin(r, "zfoe_create", Checked)

\* Nothing in the schema keeps a second session from being created.
ZfoeCreate(r) ==
    /\ pc[r] = "zfoe_create"
    /\ \/ /\ row.status = "NONE"
          /\ \E p \in People :
                Save(r, [status |-> "IDENTITY_FETCHED", subscriber |-> p], "idle")
       \/ /\ row.status # "NONE"
          /\ Act(r, [world EXCEPT !.repeats = @ + 1], "idle")

ZfoeSelectBank(r) ==
    /\ service = "ZFOE" /\ row.status = "IDENTITY_FETCHED"
    /\ Begin(r, "zfoe_select", Checked)

ZfoeBankSelected(r) ==
    pc[r] = "zfoe_select" /\ Save(r, ZfoeSet("BANK_SELECTED"), "idle")

ZfoeAuthorize(r) ==
    /\ service = "ZFOE" /\ row.status = "BANK_SELECTED"
    /\ Begin(r, "zfoe_gate", Loaded)

\* NIBSS compares the template with the BVN the request names.
ZfoeGate(r) ==
    /\ pc[r] = "zfoe_gate"
    /\ \/ \E p \in People, e \in {"finger", "face"} : Act(r, Show(p, e), "zfoe_ok")
       \/ Pass(r, "zfoe_no_match")

ZfoeNoMatch(r) == pc[r] = "zfoe_no_match" /\ Save(r, ZfoeSet("FAILED"), "idle")

ZfoeBiometricOk(r) ==
    pc[r] = "zfoe_ok" /\ Save(r, ZfoeSet("BIOMETRIC_OK"), "zfoe_claim")

ZfoeProvisioning(r) ==
    pc[r] = "zfoe_claim" /\ Save(r, ZfoeSet("PROVISIONING"), "zfoe_push")

\* No handler catches what the bank call throws: the request ends here.
ZfoePush(r) ==
    /\ pc[r] = "zfoe_push"
    /\ PushToCbs(r, held[r].row.subscriber, "zfoe_complete", "idle")

ZfoeComplete(r) ==
    pc[r] = "zfoe_complete" /\ Save(r, ZfoeSet("COMPLETED"), "zfoe_audit")

\* The compliance row, then the confirmation and the answer.
ZfoeAnswer(r) == pc[r] = "zfoe_audit" /\ Act(r, Tell, "idle")

ZfoeLabels == {"zfoe_create", "zfoe_select", "zfoe_gate", "zfoe_no_match", "zfoe_ok",
               "zfoe_claim", "zfoe_push", "zfoe_complete", "zfoe_audit"}

ZfoeCall(r) == ZfoeHarvest(r) \/ ZfoeSelectBank(r) \/ ZfoeAuthorize(r)

ZfoeGoOn(r) ==
    \/ ZfoeCreate(r) \/ ZfoeBankSelected(r) \/ ZfoeGate(r) \/ ZfoeNoMatch(r)
    \/ ZfoeBiometricOk(r) \/ ZfoeProvisioning(r) \/ ZfoePush(r)
    \/ ZfoeComplete(r) \/ ZfoeAnswer(r)
=============================================================================
