-------------------------- MODULE ZfpsOrchestrator --------------------------
(***************************************************************************)
(* Zero-Friction Provisioning, apps/api/src/zfps with apps/api/src/redis.  *)
(* One call stages the identity in a vault that forgets, asks the bank     *)
(* under a latency monitor, empties the vault, records the outcome under   *)
(* the session reference and texts the customer.                           *)
(*                                                                         *)
(* Nothing guards a session reference: the call may be repeated.  The      *)
(* staged identity and the session state are read by no code; only whether *)
(* the vault holds something is kept.  Latencies are abstracted to whether *)
(* their average is over the threshold.                                    *)
(***************************************************************************)
EXTENDS IdentityGateways

CONSTANTS
    MaxDone     \* bound: accounts after which no new call is made

ASSUME ZfpsAssumption == MaxDone \in Nat

ZfpsRows == [status : {"NONE", "COMPLETED", "FAILED", "VAULT_EXPIRED"},
             smsDelivered : BOOLEAN,
             vault : BOOLEAN,
             recent : Nat]    \* the bank's open SWITCHING_ANOMALY flags of the last
                              \* 60 minutes, the only ones the code looks for

ZfpsEmpty == [status |-> "NONE", smsDelivered |-> FALSE, vault |-> FALSE, recent |-> 0]

ZfpsProvision(r) ==
    /\ service = "ZFPS" /\ world.done < MaxDone
    /\ Begin(r, "zfps_stage", Checked)

\* setVault; the bank is looked up only then, and an unknown one throws.
ZfpsStage(r) ==
    /\ pc[r] = "zfps_stage"
    /\ \E next \in {"zfps_push", "idle"} : Save(r, [row EXCEPT !.vault = TRUE], next)

\* The entry's time to live ends: setex, or the timer of the in-memory map.
ZfpsVaultExpires ==
    /\ service = "ZFPS" /\ row.vault
    /\ Outside([row EXCEPT !.vault = FALSE], world)

ZfpsPush(r) ==
    /\ pc[r] = "zfps_push"
    /\ PushToCbs(r, NoOne, "zfps_monitor", "zfps_refused")

\* checkAndAlert, after an answer only: no flag while a recent one is open.
ZfpsMonitor(r) ==
    /\ pc[r] = "zfps_monitor"
    /\ \/ row.recent = 0 /\ Pass(r, "zfps_flag")
       \/ Pass(r, "zfps_opened")

ZfpsFlag(r) ==
    /\ pc[r] = "zfps_flag"
    /\ Step(r, "zfps_opened", held[r], [row EXCEPT !.recent = @ + 1],
            [world EXCEPT !.repeats = @ + IF row.recent > 0 THEN 1 ELSE 0])

\* A flag no longer holds back another: its 60 minutes end, or resolveRedFlag
\* resolves it.
ZfpsFlagLeavesWindow ==
    /\ service = "ZFPS" /\ row.recent > 0
    /\ Outside([row EXCEPT !.recent = @ - 1], world)

\* What the monitor throws in its finally replaces the bank's answer.
ZfpsMonitorThrows(r) ==
    pc[r] \in {"zfps_monitor", "zfps_flag"} /\ Fault(r, "zfps_refused", Excuse)

\* invalidateVault; a vault held for its time to live or longer makes the
\* outcome VAULT_EXPIRED, whatever it was.
ZfpsInvalidateVault(r) ==
    LET wiped == [row EXCEPT !.vault = FALSE] IN
    \/ pc[r] = "zfps_opened" /\ Save(r, wiped, "zfps_completed")
    \/ pc[r] = "zfps_refused" /\ Save(r, wiped, "zfps_failed")
    \/ /\ pc[r] \in {"zfps_opened", "zfps_refused"}
       /\ Step(r, "zfps_expired", held[r], wiped, Excuse)

\* The event is written over that of an earlier call.
ZfpsRecord(r) ==
    \/ /\ pc[r] = "zfps_completed"
       /\ Save(r, [row EXCEPT !.status = "COMPLETED"], "zfps_text")
    \/ /\ pc[r] = "zfps_failed"
       /\ Save(r, [row EXCEPT !.status = "FAILED"], "idle")
    \/ /\ pc[r] = "zfps_expired"
       /\ Save(r, [row EXCEPT !.status = "VAULT_EXPIRED"], "idle")

\* Variation: a text is sent only for the first account of the session.
MutZfpsSendSms(r) ==
    /\ pc[r] = "zfps_text"
    /\ IF row.smsDelivered THEN Pass(r, "idle") ELSE Act(r, Tell, "zfps_sent")

\* sendAccountCreated never throws; what fails is reported as not sent.
ZfpsSendSms(r) ==
    /\ pc[r] = "zfps_text"
    /\ Act(r, Tell, "zfps_sent") \/ Act(r, Excuse, "zfps_unsent")

ZfpsSmsRecorded(r) ==
    /\ pc[r] \in {"zfps_sent", "zfps_unsent"}
    /\ Save(r, [row EXCEPT !.smsDelivered = (pc[r] = "zfps_sent")], "idle")

ZfpsLabels == {"zfps_stage", "zfps_push", "zfps_monitor", "zfps_flag", "zfps_opened",
               "zfps_refused", "zfps_completed", "zfps_failed", "zfps_expired",
               "zfps_text", "zfps_sent", "zfps_unsent"}

ZfpsGoOn(r) ==
    \/ ZfpsStage(r) \/ ZfpsPush(r) \/ ZfpsMonitor(r) \/ ZfpsFlag(r)
    \/ ZfpsInvalidateVault(r) \/ ZfpsRecord(r) \/ ZfpsSendSms(r)
    \/ ZfpsSmsRecorded(r)
=============================================================================
