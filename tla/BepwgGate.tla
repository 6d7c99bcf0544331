----------------------------- MODULE BepwgGate -----------------------------
(***************************************************************************)
(* The Biometric Exchequer & Proximity Withdrawal Gate, apps/api/src/bepwg:*)
(* a second way to withdraw a savings cycle, run by a module that knows    *)
(* nothing of the savings services and shares their rows.  This module     *)
(* composes it with SavingsCycle: both act on cycle, breakLog, trusted and *)
(* pushes, and a request of either can run between two steps of the other. *)
(***************************************************************************)
EXTENDS SavingsCycle, FiniteSets

VARIABLES
    audit,     \* BepwgWithdrawalLog rows of the cycle, oldest first
    agentOf    \* the agent each withdrawal in flight names

bvars == <<vars, audit, agentOf>>

AuditRow == [gross : Nat, penalty : Nat, net : Nat]

STANDARD_GATE_THRESHOLD == 1
BYPASS_GATE_THRESHOLD == 2

BTypeOK ==
    /\ TypeOK
    /\ audit \in Seq(AuditRow)
    /\ agentOf \in [Requests -> Agents]

BInit ==
    /\ Init
    /\ audit = <<>>
    /\ agentOf = [r \in Requests |-> OpeningAgent]

\* isMature: the row and the date the request started from.
IsMature(row, last) ==
    row.days >= FullCycleDays \/ last \/ row.gate # "LOCKED"

\* The penalty of the row as it is by now, not as it was read.
MutPenaltyDue(r) ==
    IF IsMature(snap[r], lastDay[r]) THEN 0 ELSE Penalty(cycle.total)

PenaltyDue(r) ==
    IF IsMature(snap[r], lastDay[r]) THEN 0 ELSE Penalty(snap[r].total)

NetPayout(r) == snap[r].total - PenaltyDue(r)

\* Biometric matches the withdrawal must show: one of the three gates when
\* the cycle is mature, the customer near the anchor and the agent trusted.
RequiredGates(r, near) ==
    IF IsMature(snap[r], lastDay[r]) /\ near /\ agentOf[r] \in trusted
    THEN STANDARD_GATE_THRESHOLD ELSE BYPASS_GATE_THRESHOLD

\* fetchCycle refuses only a cycle that is WITHDRAWN by now.
BepwgRead(r, agent) ==
    /\ pc[r] = "idle" /\ RefIssued
    /\ cycle.status # "WITHDRAWN"
    /\ Enter(r, "bepwg_gates")
    /\ agentOf' = [agentOf EXCEPT ![r] = agent]
    /\ UNCHANGED <<rows, monthEnd, pushes, aborts, audit>>

\* Proximity (online or from the offline token), trust, then the YES triad:
\* near and matches are what the location, liveness and NIBSS calls answer.
BepwgGates(r, near, matches) ==
    /\ pc[r] = "bepwg_gates"
    /\ \/ matches < RequiredGates(r, near) /\ Return(r)
       \/ /\ matches >= RequiredGates(r, near)
          /\ Goto(r, IF IsMature(snap[r], lastDay[r]) THEN "bepwg_push"
                     ELSE "bepwg_break_log")
    /\ UNCHANGED <<rows, monthEnd, pushes, aborts, audit, agentOf>>

BepwgBreakLog(r) ==
    /\ pc[r] = "bepwg_break_log"
    /\ InsertBreakRow(r, "bepwg_break_write")
    /\ UNCHANGED <<audit, agentOf>>

BepwgBreakWrite(r) ==
    /\ pc[r] = "bepwg_break_write"
    /\ MarkBroken(r)
    /\ Goto(r, "bepwg_push")
    /\ UNCHANGED <<audit, agentOf>>

BepwgPush(r) ==
    /\ pc[r] = "bepwg_push"
    /\ PushFunds(r, "bepwg", NetPayout(r), "bepwg_close")
    /\ UNCHANGED <<audit, agentOf>>

BepwgClose(r) ==
    /\ pc[r] = "bepwg_close"
    /\ MarkWithdrawn
    /\ Goto(r, "bepwg_audit")
    /\ UNCHANGED <<audit, agentOf>>

\* Only withdrawals with a penalty audited.
MutBepwgAudit(r) ==
    /\ pc[r] = "bepwg_audit"
    /\ Len(audit) < MaxPushes
    /\ audit' = IF PenaltyDue(r) = 0 THEN audit
                ELSE Append(audit, [gross |-> snap[r].total,
                                    penalty |-> PenaltyDue(r),
                                    net |-> NetPayout(r)])
    /\ Goto(r, "bepwg_link")
    /\ UNCHANGED <<rows, monthEnd, pushes, aborts, agentOf>>

BepwgAudit(r) ==
    /\ pc[r] = "bepwg_audit"
    /\ Len(audit) < MaxPushes
    /\ audit' = Append(audit, [gross |-> snap[r].total,
                               penalty |-> PenaltyDue(r),
                               net |-> NetPayout(r)])
    /\ Goto(r, "bepwg_link")
    /\ UNCHANGED <<rows, monthEnd, pushes, aborts, agentOf>>

\* upsertLink, which withdrawals and the trust-link endpoint end with.
UpsertLink(agent) ==
    /\ trusted' = trusted \cup {agent}
    /\ UNCHANGED <<cycle, dayLog, breakLog, incentive, monthEnd, pushes,
                   aborts, audit, agentOf>>

BepwgLink(r) ==
    /\ pc[r] = "bepwg_link"
    /\ UpsertLink(agentOf[r])
    /\ Return(r)

\* linkFromBvns; a link made before the cycle opens is made after it here.
TrustLink(agent) ==
    /\ RefIssued
    /\ UpsertLink(agent)
    /\ UNCHANGED <<pc, snap, lastDay>>

BContinue(r) ==
    \/ \E near \in BOOLEAN, matches \in 0 .. 3 : BepwgGates(r, near, matches)
    \/ BepwgBreakLog(r) \/ BepwgBreakWrite(r)
    \/ BepwgPush(r) \/ BepwgClose(r) \/ BepwgAudit(r) \/ BepwgLink(r)

BNext ==
    \/ Next /\ UNCHANGED <<audit, agentOf>>
    \/ \E r \in Requests :
           BContinue(r) \/ \E agent \in Agents : BepwgRead(r, agent)
    \/ \E agent \in Agents : TrustLink(agent)

BSpec ==
    /\ BInit /\ [][BNext]_bvars
    /\ \A r \in Requests :
           WF_bvars(\/ Continue(r) /\ UNCHANGED <<audit, agentOf>>
                    \/ BContinue(r))

-----------------------------------------------------------------------------
(* Properties of the two ways out of a cycle taken together.               *)

BepwgPushes == {i \in 1 .. Len(pushes) : pushes[i].by = "bepwg"}

\* The audit log tells the truth about penalties: each row balances, and a
\* penalty in it is the one the cycle's only break row recorded, not that of
\* another break (early withdrawals and break-safe race for that row).
AuditBalances ==
    \A i \in 1 .. Len(audit) :
        /\ audit[i].gross = audit[i].penalty + audit[i].net
        /\ audit[i].penalty # 0 =>
               \E b \in breakLog : /\ b.penalty = audit[i].penalty
                                   /\ b.total = audit[i].gross

\* With no request in flight and none lost, each payout of this service has
\* its audit row (the row is written after the payout and the close).
PushesAudited ==
    Quiet /\ aborts = 0 => Len(audit) >= Cardinality(BepwgPushes)

\* "Cycle already withdrawn": a cycle is paid out once.
PaidAtMostOnce == Len(pushes) <= 1

\* "50% penalty locked": once a break is recorded, no payout exceeds the net
\* amount it left.
BreakLocksPenalty ==
    [][BreakLogged /\ pushes' # pushes =>
           \A b \in breakLog : pushes'[Len(pushes')].amount <= b.net]_bvars
=============================================================================
