--------------------------- MODULE LivenessProof ----------------------------
(***************************************************************************)
(* The liveness challenge and the external sensor of                       *)
(* apps/api/src/lbas.  A challenge is issued to one customer, and a proof  *)
(* of its tasks, a passive check and a NIBSS face match answer it YES.  A  *)
(* sensor is registered, used, and may be revoked by operators: no code    *)
(* writes REVOKED.                                                         *)
(***************************************************************************)
EXTENDS IdentityGateways

LbasRows == [status : {"NONE", "PENDING", "COMPLETED", "FAILED", "EXPIRED"},
             customer : Anyone,
             late : BOOLEAN]     \* expiresAt has passed

LbasEmpty == [status |-> "NONE", customer |-> NoOne, late |-> FALSE]

LbasSet(status) == [row EXCEPT !.status = status]

LbasIssueChallenge(r) ==
    /\ service = "LBAS" /\ row.status = "NONE"
    /\ \E p \in People :
          Once(r, [row EXCEPT !.status = "PENDING", !.customer = p], world)

LbasTimePasses ==
    /\ service = "LBAS" /\ row.status # "NONE" /\ ~ row.late
    /\ Outside([row EXCEPT !.late = TRUE], world)

\* submitProof looks at the time before it looks at the status.
LbasFindLate(r) ==
    /\ service = "LBAS" /\ row.status # "NONE" /\ row.late
    /\ Begin(r, "lbas_expire", Checked)

LbasExpire(r) == pc[r] = "lbas_expire" /\ Save(r, LbasSet("EXPIRED"), "idle")

\* A proof whose tasks are not the issued ones in their order is refused.
\* Variation: the status is not looked at, only the time.
MutLbasSubmitProof(r) ==
    /\ service = "LBAS" /\ ~ row.late /\ row.status # "NONE"
    /\ Begin(r, "lbas_tasks", Loaded)

LbasSubmitProof(r) ==
    /\ service = "LBAS" /\ ~ row.late
    /\ row.status \notin {"NONE", "COMPLETED", "FAILED"}
    /\ Begin(r, "lbas_tasks", Loaded)

LbasCheck(r, label, evidence, next) ==
    /\ pc[r] = label
    /\ \/ Act(r, Show(held[r].row.customer, evidence), next)
       \/ Pass(r, "lbas_fail")

LbasTasks(r) == LbasCheck(r, "lbas_tasks", "tasks", "lbas_passive")
LbasPassive(r) == LbasCheck(r, "lbas_passive", "passive", "lbas_face")
LbasFace(r) == LbasCheck(r, "lbas_face", "face", "lbas_matched")

LbasFail(r) == pc[r] = "lbas_fail" /\ Save(r, LbasSet("FAILED"), "idle")

LbasComplete(r) ==
    pc[r] = "lbas_matched" /\ Save(r, LbasSet("COMPLETED"), "lbas_answer")

\* The answer YES is what a caller acts on.
LbasAnswer(r) ==
    /\ pc[r] = "lbas_answer"
    /\ Act(r, [Serve(held[r].row.customer) EXCEPT !.told = @ + 1], "idle")

-----------------------------------------------------------------------------
SensorRows == [status : {"NONE", "REGISTERED", "ACTIVE", "REVOKED"}]

SensorEmpty == [status |-> "NONE"]

\* registerSensor looks for a revocation, then upserts.
SensorRegister(r) ==
    /\ service = "SENSOR" /\ row.status # "REVOKED"
    /\ Begin(r, "sensor_upsert", Checked)

SensorRegistered(r) ==
    /\ pc[r] = "sensor_upsert"
    /\ Save(r, [row EXCEPT !.status = "REGISTERED"], "idle")

\* submitExternalMinutiae: the sensor is active after any use, match or not.
\* Variation: the status is not looked at.
MutSensorSubmit(r) ==
    /\ service = "SENSOR" /\ row.status # "NONE"
    /\ Begin(r, "sensor_match", Checked)

SensorSubmit(r) ==
    /\ service = "SENSOR" /\ row.status \notin {"NONE", "REVOKED"}
    /\ Begin(r, "sensor_match", Checked)

SensorMatch(r) ==
    /\ pc[r] = "sensor_match"
    /\ \/ \E p \in People : Act(r, Show(p, "finger"), "sensor_mark")
       \/ Pass(r, "sensor_mark")

SensorActive(r) ==
    pc[r] = "sensor_mark" /\ Save(r, [row EXCEPT !.status = "ACTIVE"], "idle")

\* External: an operator's statement.  What is under way then is excused.
SensorRevoke ==
    /\ service = "SENSOR" /\ row.status \in {"REGISTERED", "ACTIVE"}
    /\ ~ world.revoked
    /\ Outside([row EXCEPT !.status = "REVOKED"],
               [world EXCEPT !.revoked = TRUE, !.excused = Busy])

LbasLabels == {"lbas_expire", "lbas_tasks", "lbas_passive", "lbas_face", "lbas_fail",
               "lbas_matched", "lbas_answer", "sensor_upsert", "sensor_match",
               "sensor_mark"}

LbasCall(r) ==
    \/ LbasIssueChallenge(r) \/ LbasFindLate(r) \/ LbasSubmitProof(r)
    \/ SensorRegister(r) \/ SensorSubmit(r)

LbasGoOn(r) ==
    \/ LbasExpire(r) \/ LbasTasks(r) \/ LbasPassive(r) \/ LbasFace(r)
    \/ LbasFail(r) \/ LbasComplete(r) \/ LbasAnswer(r)
    \/ SensorRegistered(r) \/ SensorMatch(r) \/ SensorActive(r)
=============================================================================
