-------------------------- MODULE IdentityServices --------------------------
(***************************************************************************)
(* The session services that identify a customer and act in their name:    *)
(* BIH, BLS, BLIDE, ZFOE, ZFPS, and the liveness challenge and sensor of   *)
(* LBAS.  The initial state chooses the service followed.                  *)
(***************************************************************************)
EXTENDS BihScan, BlsSession, BlideSession, ZfoeProvision, ZfpsOrchestrator,
        LivenessProof

Services == {"BIH", "BLS", "BLIDE", "ZFOE", "ZFPS", "LBAS", "SENSOR"}

EmptyRow(s) ==
    CASE s = "BIH" -> BihEmpty
      [] s = "BLS" -> BlsEmpty
      [] s = "BLIDE" -> BlideEmpty
      [] s = "ZFOE" -> ZfoeEmpty
      [] s = "ZFPS" -> ZfpsEmpty
      [] s = "LBAS" -> LbasEmpty
      [] s = "SENSOR" -> SensorEmpty

RowsOf(s) ==
    CASE s = "BIH" -> BihRows
      [] s = "BLS" -> BlsRows
      [] s = "BLIDE" -> BlideRows
      [] s = "ZFOE" -> ZfoeRows
      [] s = "ZFPS" -> ZfpsRows
      [] s = "LBAS" -> LbasRows
      [] s = "SENSOR" -> SensorRows

IdentityLabels ==
    {"idle"} \cup BihLabels \cup BlsLabels \cup BlideLabels \cup ZfoeLabels
             \cup ZfpsLabels \cup LbasLabels

IInit ==
    /\ service \in Services
    /\ row = EmptyRow(service)
    /\ world = NothingDone
    /\ FrameInit

\* What a request under way does next.
IGoOn(r) ==
    \/ service = "BIH" /\ BihGoOn(r)
    \/ service = "BLS" /\ BlsGoOn(r)
    \/ service = "BLIDE" /\ BlideGoOn(r)
    \/ service = "ZFOE" /\ ZfoeGoOn(r)
    \/ service = "ZFPS" /\ ZfpsGoOn(r)
    \/ service \in {"LBAS", "SENSOR"} /\ LbasGoOn(r)

INext ==
    \/ \E r \in Requests :
          \/ BihCall(r) \/ BlsCall(r) \/ BlideCall(r) \/ ZfoeCall(r)
          \/ ZfpsProvision(r) \/ LbasCall(r)
          \/ IGoOn(r)
          \/ BihThrow(r) \/ ZfpsMonitorThrows(r) \/ Die(r)
    \/ BlsTimePasses \/ LbasTimePasses \/ SensorRevoke
    \/ ZfpsVaultExpires \/ ZfpsFlagLeavesWindow

\* A request that is not killed goes on: promises settle and the event loop
\* runs their continuations.  The vault's time to live ends.
ISpec ==
    /\ IInit /\ [][INext]_fvars
    /\ \A r \in Requests : WF_fvars(IGoOn(r))
    /\ WF_fvars(ZfpsVaultExpires)

-----------------------------------------------------------------------------
\* The row, the requests' copies of it and the world have their types.
ITypeOK ==
    /\ service \in Services
    /\ row \in RowsOf(service)
    /\ world \in WorldType
    /\ pc \in [Requests -> IdentityLabels]
    /\ \A r \in Requests :
          held[r] = NoValue \/ held[r] \in [row : RowsOf(service) \cup {NoValue},
                                            person : Anyone,
                                            challenge : Nat]
    /\ overlapped \in BOOLEAN /\ faults \in Nat

\* A session acts once.  A second account or operation, a second YES, a second
\* session, a task repeated or a latency flag raised while another of the last
\* 60 minutes is open takes two requests that overlap.
\* A request that dies costs a repetition only where the status is written
\* after the execution: BIH operations and BLS withdrawals.  ZFPS promises
\* nothing of the kind for accounts: a repeated call opens another.
ExecutesFirst ==
    service = "BLS" \/ (service = "BIH" /\ row.kind = "OPERATION")

OncePerSession ==
    /\ world.repeats > 0 => overlapped
    /\ service # "ZFPS" /\ world.done > 1 =>
          overlapped \/ (ExecutesFirst /\ faults > 0)

\* What must have been shown, and by whom, before a service acts for someone.
Required ==
    CASE service = "BIH" -> {"finger"}
      [] service = "BLS" -> {"finger", "seal"}
      [] service = "BLIDE" -> {"face", "live"}
      [] service = "LBAS" -> {"tasks", "passive", "face"}
      [] OTHER -> {}

\* Money moves from the account, and accounts open in the name, of one who has
\* shown all a service asks for, whatever other requests did meanwhile: what
\* was loaded, matched and selected hangs together.  BLIDE operations are an
\* exception: the account selected under one face is debited under another
\* when two face scans overlap.  In ZFOE some biometric has matched.
EvidenceShown ==
    /\ \A p \in world.served, e \in Required :
          \/ <<p, e>> \in world.shown
          \/ service = "BLIDE" /\ row.kind = "OPERATION" /\ overlapped
    /\ service = "ZFOE" /\ world.done > 0 => world.shown # {}

\* A row that says done was done, one that says failed was not, unless
\* requests overlapped or one failed under way; a session waiting for the
\* answer to a challenge has one to answer; a revoked sensor is in use again
\* only by a request that was under way when it was revoked.
StatusHonest ==
    /\ row.status = "EXECUTED" \/ (row.status = "COMPLETED" /\ service # "LBAS") =>
          world.done > 0
    /\ row.status = "FAILED" /\ world.done > 0 =>
          overlapped \/ faults > 0 \/ (service = "ZFPS" /\ world.refused)
    /\ service = "BLIDE" /\ row.status = "LIVENESS_CHALLENGED" =>
          row.challenges # <<>> \/ Busy \/ faults > 0
    /\ service = "SENSOR" /\ world.revoked =>
          row.status = "REVOKED" \/ world.excused

\* Once no request is under way, every account opened and operation executed
\* was reported to the customer: in the answer, or in ZFPS by text, each call
\* its own.  Only a request that failed under way, a vault held too long or a
\* text that could not be sent excuses one that was not.
CustomerTold ==
    ~ Busy /\ faults = 0 /\ ~ world.excused => world.told = world.done

\* A session does not stay in a status that says work is under way, unless a
\* request died or ZFOE's bank refused; and an identity staged in the vault is
\* forgotten, also when the request that staged it died.
UnderWay ==
    {"PROVISIONING", "BIOMETRIC_OK", "LIVENESS_VERIFIED", "EXECUTING"} \cup
    IF service = "BIH" THEN {"BANK_SELECTED"} ELSE {}

Unsettled == IF service = "ZFPS" THEN row.vault ELSE row.status \in UnderWay

Stuck == faults > 0 \/ (service = "ZFOE" /\ world.refused)

ProvisioningEnds == Unsettled ~> (~ Unsettled \/ (service # "ZFPS" /\ Stuck))
=============================================================================
