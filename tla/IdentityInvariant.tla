------------------------- MODULE IdentityInvariant --------------------------
(***************************************************************************)
(* The inductive invariant of the identity services, in named parts.  For  *)
(* each service there is what its row says of the world (RowOK), what a    *)
(* request past some step relies on whatever the others do (RequestOK),    *)
(* and what one relies on as long as no two ever overlapped (SoloOK): then *)
(* the row is still as the request left it.                                *)
(***************************************************************************)
EXTENDS IdentityServices, FiniteSets

SensorLabels == {"sensor_upsert", "sensor_match", "sensor_mark"}

LabelsOf(s) ==
    CASE s = "BIH" -> BihLabels
      [] s = "BLS" -> BlsLabels
      [] s = "BLIDE" -> BlideLabels
      [] s = "ZFOE" -> ZfoeLabels
      [] s = "ZFPS" -> ZfpsLabels
      [] s = "LBAS" -> LbasLabels \ SensorLabels
      [] s = "SENSOR" -> SensorLabels

HeldOf(s) == [row : RowsOf(s) \cup {NoValue}, person : Anyone, challenge : Nat]

\* A request is at a step of its own service, and then holds what it loaded.
Typed ==
    /\ service \in Services
    /\ row \in RowsOf(service)
    /\ world \in WorldType
    /\ pc \in [Requests -> {"idle"} \cup LabelsOf(service)]
    /\ held \in [Requests -> HeldOf(service) \cup {NoValue}]
    /\ \A r \in Requests : pc[r] # "idle" => held[r] \in HeldOf(service)
    /\ overlapped \in BOOLEAN /\ faults \in Nat

Has(w, p, e) == <<p, e>> \in w.shown

-----------------------------------------------------------------------------
(* BIH.  The match in the row has shown a finger.  A session that may still *)
(* be claimed, or whose row says failed, has executed nothing.             *)

BihRowOK(rw, w) ==
    /\ rw.status = "IDENTITY_UNLOCKED" => Has(w, rw.match, "finger")
    /\ rw.status = "COMPLETED" => w.done > 0

BihRequestOK(l, h, w) ==
    /\ l = "bih_unlock" => Has(w, h.person, "finger")
    /\ l \in {"bih_select", "bih_provision", "bih_push", "bih_execute"} =>
           h.row \in BihRows /\ Has(w, h.row.match, "finger")
    /\ l \in {"bih_complete", "bih_audit", "bih_authorized"} => w.done > 0

BihSoloOK(l, rw, w, f) ==
    LET counts == rw.kind = "ACCOUNT_SETUP" \/ f = 0 IN
    /\ counts => w.done <= 1
    /\ rw.status = "NONE" => w.done = 0
    /\ ( /\ counts /\ l # "bih_authorized"
         /\ rw.status \in {"NONE", "SCAN_REQUESTED", "NO_MATCH",
                           "IDENTITY_UNLOCKED", "BANK_SELECTED"} ) => w.done = 0
    /\ f = 0 /\ (rw.status = "FAILED" \/ l = "bih_fail") => w.done = 0
    /\ l \in {"bih_search", "bih_unlock", "bih_no_match"} =>
           rw.status = "SCAN_REQUESTED"
    /\ l = "bih_select" => rw.status = "IDENTITY_UNLOCKED"
    /\ l = "bih_provision" => rw.status = "BANK_SELECTED"
    /\ l = "bih_push" => rw.status = "PROVISIONING" /\ w.done = 0
    /\ l \in {"bih_select", "bih_provision", "bih_push", "bih_complete",
              "bih_audit"} => rw.kind = "ACCOUNT_SETUP"
    /\ l \in {"bih_execute", "bih_authorized"} =>
           rw.kind = "OPERATION" /\ rw.status = "IDENTITY_UNLOCKED"

-----------------------------------------------------------------------------
(* BLS.  The accounts, while they are there, are the anchor's, who has     *)
(* shown a finger; what was loaded together stays together.                *)

BlsRowOK(rw, w) ==
    /\ rw.anchor # NoOne => Has(w, rw.anchor, "finger")
    /\ rw.accounts # NoOne => rw.accounts = rw.anchor
    /\ rw.status = "EXECUTED" => w.done > 0

BlsRequestOK(l, h, w) ==
    /\ l = "bls_discovered" => h.person # NoOne /\ Has(w, h.person, "finger")
    /\ l \in {"bls_select", "bls_seal", "bls_cross", "bls_execute"} =>
           h.row \in BlsRows /\ BlsRowOK(h.row, w)
    /\ l \in {"bls_cross", "bls_execute"} => Has(w, h.person, "seal")
    /\ l = "bls_execute" => h.person = h.row.anchor
    /\ l \in {"bls_executed", "bls_audit"} => w.done > 0

BlsSoloOK(l, rw, w, f) ==
    f = 0 =>
        /\ w.done <= 1
        /\ ( /\ l # "bls_executed"
             /\ rw.status \in {"NONE", "INITIATED", "DISCOVERED",
                               "AWAITING_SEAL"} ) => w.done = 0
        /\ rw.status = "FAILED" \/ l \in {"bls_fail", "bls_failed"} =>
               w.done = 0
        /\ l \in {"bls_search", "bls_discovered"} => rw.status = "INITIATED"
        /\ l = "bls_select" => rw.status = "DISCOVERED"
        /\ l \in {"bls_seal", "bls_cross", "bls_execute"} =>
               rw.status = "AWAITING_SEAL"

-----------------------------------------------------------------------------
(* BLIDE.  The match in the row has shown a face, and an account is set up  *)
(* for the match; a challenge under way is one of the session's.           *)

Targeted == {"blide_verify", "blide_consume", "blide_verified", "blide_claim",
             "blide_execute"}

\* The target of a transaction is the one whose face the session knows, and
\* who is found alive.
BlideTargetOK(l, h, w) ==
    /\ l \in {"blide_verify", "blide_consume"} => h.row.match = h.row.selected
    /\ l \in Targeted => Has(w, h.row.selected, "face")
    /\ l \in {"blide_verified", "blide_claim", "blide_execute"} =>
           Has(w, h.row.selected, "live")

BlideRowOK(rw, w) ==
    /\ rw.match # NoOne => Has(w, rw.match, "face")
    /\ rw.status \notin {"NONE", "INITIATED", "NO_MATCH"} => rw.match # NoOne
    /\ rw.kind = "ACCOUNT_SETUP" => rw.data = rw.match
    /\ rw.status = "NONE" => w.served = {} /\ rw.data = rw.match
    /\ rw.status = "COMPLETED" => w.done > 0

BlideRequestOK(l, h, rw, w) ==
    /\ l # "idle" => rw.status # "NONE"
    /\ l = "blide_unlock" => h.person # NoOne /\ Has(w, h.person, "face")
    /\ l \notin {"idle", "blide_search", "blide_unlock", "blide_no_match"} =>
           rw.match # NoOne
    /\ l \in {"blide_select", "blide_create"} \cup Targeted => h.row \in BlideRows
    /\ l \in {"blide_verify", "blide_consume"} =>
           h.challenge \in 1 .. Len(rw.challenges)
    /\ rw.kind = "ACCOUNT_SETUP" => BlideTargetOK(l, h, w)
    /\ l = "blide_completed" => w.done > 0

BlideSoloOK(l, h, rw, w, f) ==
    /\ w.done <= 1
    /\ rw.status \in {"NONE", "INITIATED", "NO_MATCH", "IDENTITY_UNLOCKED",
                      "LIVENESS_CHALLENGED", "LIVENESS_VERIFIED"} => w.done = 0
    /\ f = 0 /\ (rw.status = "FAILED" \/ l = "blide_failed") => w.done = 0
    /\ rw.status = "IDENTITY_UNLOCKED" => rw.data = rw.match
    /\ rw.status = "LIVENESS_CHALLENGED" => rw.selected = rw.match
    /\ l \in {"blide_search", "blide_unlock", "blide_no_match"} =>
           rw.status = "INITIATED"
    /\ l = "blide_select" =>
           rw.status = "IDENTITY_UNLOCKED" /\ h.row.selected = rw.match
    /\ l \in {"blide_issue", "blide_create", "blide_verify", "blide_consume",
              "blide_verified"} => rw.status = "LIVENESS_CHALLENGED"
    /\ l = "blide_create" => h.row.challenges = rw.challenges
    /\ l = "blide_claim" => rw.status = "LIVENESS_VERIFIED"
    /\ l = "blide_execute" => rw.status = "EXECUTING" /\ w.done = 0
    /\ BlideTargetOK(l, h, w)

-----------------------------------------------------------------------------
(* ZFOE, ZFPS, and the challenge and the sensor of LBAS.                   *)

ZfoeRowOK(rw, w) == rw.status = "COMPLETED" => w.done > 0

ZfoeRequestOK(l, h, w) ==
    /\ l \in {"zfoe_gate", "zfoe_ok", "zfoe_claim", "zfoe_push"} => h.row \in ZfoeRows
    /\ l \in {"zfoe_ok", "zfoe_claim", "zfoe_push"} => w.shown # {}
    /\ l \in {"zfoe_complete", "zfoe_audit"} => w.done > 0

ZfoeSoloOK(l, rw, w) ==
    /\ w.done <= 1
    /\ rw.status \in {"NONE", "IDENTITY_FETCHED", "BANK_SELECTED",
                      "BIOMETRIC_OK", "FAILED"} => w.done = 0
    /\ l = "zfoe_create" => rw.status = "NONE"
    /\ l = "zfoe_select" => rw.status = "IDENTITY_FETCHED"
    /\ l \in {"zfoe_gate", "zfoe_no_match", "zfoe_ok"} =>
           rw.status = "BANK_SELECTED"
    /\ l = "zfoe_claim" => rw.status = "BIOMETRIC_OK"
    /\ l = "zfoe_push" => rw.status = "PROVISIONING" /\ w.done = 0

ZfpsRowOK(rw, w, f) ==
    /\ rw.status = "COMPLETED" => w.done > 0
    /\ rw.status = "FAILED" => w.refused \/ f > 0

ZfpsRequestOK(l, w, f) ==
    /\ l \in {"zfps_monitor", "zfps_flag", "zfps_opened", "zfps_completed"} =>
           w.done > 0
    /\ l \in {"zfps_refused", "zfps_failed"} => w.refused \/ f > 0

ZfpsSoloOK(l, rw) == l = "zfps_flag" => rw.recent = 0

LbasRowOK(rw) == rw.status = "EXPIRED" => rw.late

LbasRequestOK(l, h, rw, w) ==
    /\ l = "lbas_expire" => rw.late
    /\ l \in {"lbas_tasks", "lbas_passive", "lbas_face", "lbas_matched",
              "lbas_answer"} => h.row \in LbasRows
    /\ l \in {"lbas_passive", "lbas_face", "lbas_matched", "lbas_answer"} =>
           Has(w, h.row.customer, "tasks")
    /\ l \in {"lbas_face", "lbas_matched", "lbas_answer"} =>
           Has(w, h.row.customer, "passive")
    /\ l \in {"lbas_matched", "lbas_answer"} => Has(w, h.row.customer, "face")

LbasSoloOK(l, rw, w) ==
    /\ w.done <= 1
    /\ rw.status \in {"NONE", "PENDING", "FAILED"} => w.done = 0
    /\ l \in {"lbas_tasks", "lbas_passive", "lbas_face", "lbas_matched",
              "lbas_answer", "lbas_fail"} => w.done = 0
    /\ l = "lbas_answer" => rw.status = "COMPLETED"

SensorOK ==
    service = "SENSOR" =>
        /\ world.done = 0
        /\ ~ world.revoked => ~ world.excused
        /\ world.revoked /\ ~ world.excused => ~ Busy /\ row.status = "REVOKED"

-----------------------------------------------------------------------------
(* The parts for the service followed.                                     *)

RowOK(rw, w, f) ==
    /\ service = "BIH" => BihRowOK(rw, w)
    /\ service = "BLS" => BlsRowOK(rw, w)
    /\ service = "BLIDE" => BlideRowOK(rw, w)
    /\ service = "ZFOE" => ZfoeRowOK(rw, w)
    /\ service = "ZFPS" => ZfpsRowOK(rw, w, f)
    /\ service = "LBAS" => LbasRowOK(rw)

RequestOK(l, h, rw, w, f) ==
    /\ service = "BIH" => BihRequestOK(l, h, w)
    /\ service = "BLS" => BlsRequestOK(l, h, w)
    /\ service = "BLIDE" => BlideRequestOK(l, h, rw, w)
    /\ service = "ZFOE" => ZfoeRequestOK(l, h, w)
    /\ service = "ZFPS" => ZfpsRequestOK(l, w, f)
    /\ service = "LBAS" => LbasRequestOK(l, h, rw, w)

SoloOK(l, h, rw, w, f) ==
    /\ w.repeats = 0
    /\ service = "BIH" => BihSoloOK(l, rw, w, f)
    /\ service = "BLS" => BlsSoloOK(l, rw, w, f)
    /\ service = "BLIDE" => BlideSoloOK(l, h, rw, w, f)
    /\ service = "ZFOE" => ZfoeSoloOK(l, rw, w)
    /\ service = "ZFPS" => ZfpsSoloOK(l, rw)
    /\ service = "LBAS" => LbasSoloOK(l, rw, w)

\* As long as nothing overlapped there is one request at most, and the row
\* and the world are as that request, or the last one, left them.
Solo ==
    ~ overlapped =>
        /\ \A q, r \in Requests : pc[q] # "idle" /\ pc[r] # "idle" => q = r
        /\ \A r \in Requests :
               pc[r] # "idle" => SoloOK(pc[r], held[r], row, world, faults)
        /\ ~ Busy => SoloOK("idle", NoValue, row, world, faults)

\* A session that waits for an answer has a challenge or is getting one.
Challenged ==
    /\ service = "BLIDE" /\ row.status = "LIVENESS_CHALLENGED" /\ faults = 0
       => \/ Len(row.challenges) > 0
          \/ \E r \in Requests : pc[r] \in {"blide_issue", "blide_create"}

\* Requests that have acted and not yet reported it: they make up for what
\* was done and not told.
Reporting == {"bih_complete", "bih_audit", "bih_authorized", "bls_executed",
              "bls_audit", "blide_completed", "zfoe_complete", "zfoe_audit",
              "zfps_monitor", "zfps_flag", "zfps_opened", "zfps_completed",
              "zfps_text"}

Reporters == {r \in Requests : pc[r] \in Reporting}

Reported ==
    /\ IsFiniteSet(Reporters)
    /\ faults = 0 /\ ~ world.excused =>
           world.done = world.told + Cardinality(Reporters)

\* EvidenceShown of a row, a world and whether requests overlapped.
Evidenced(rw, w, o) ==
    /\ \A p \in w.served, e \in Required :
           Has(w, p, e) \/ (service = "BLIDE" /\ rw.kind = "OPERATION" /\ o)
    /\ service = "ZFOE" /\ w.done > 0 => w.shown # {}

SessionInv ==
    /\ Typed
    /\ Evidenced(row, world, overlapped)
    /\ RowOK(row, world, faults)
    /\ \A r \in Requests : RequestOK(pc[r], held[r], row, world, faults)
    /\ Solo
    /\ Challenged
    /\ SensorOK
    /\ Reported
=============================================================================
