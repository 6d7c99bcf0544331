-------------------------- MODULE BepwgGate_proofs --------------------------
(***************************************************************************)
(* Proofs about BepwgGate: the invariant of the savings services survives  *)
(* the second way to withdraw, and the audit log of that second way agrees *)
(* with the break log, for any number of requests, agents, days and        *)
(* amounts.                                                                *)
(***************************************************************************)
EXTENDS BepwgGate, SavingsCycle_proofs, FiniteSetTheorems

\* Where an early withdrawal, one that owes a penalty, is past its break row.
AfterBreakRow == {"bepwg_break_write", "bepwg_push", "bepwg_close",
                  "bepwg_audit"}

\* A withdrawal that owes a penalty pays only after its own break row: the
\* penalty it reports is the recorded one.
EarlyLocked(r) ==
    pc[r] \in AfterBreakRow /\ ~ IsMature(snap[r], lastDay[r]) =>
        BreakRowOf(snap[r]) \in breakLog

\* Withdrawals that may have paid and have not written their audit row yet:
\* until some request dies, they make up for the rows that are missing.
Unaudited == {r \in Requests : pc[r] \in {"bepwg_close", "bepwg_audit"}}

AuditComing ==
    /\ IsFiniteSet(Unaudited)
    /\ aborts = 0 =>
           Cardinality(BepwgPushes) <= Len(audit) + Cardinality(Unaudited)

BInv ==
    /\ IInv
    /\ BTypeOK
    /\ \A r \in Requests : EarlyLocked(r)
    /\ AuditBalances
    /\ Finishing
    /\ AuditComing

-----------------------------------------------------------------------------
(* IInv under the steps of the gate.                                       *)

\* What the gate pays is the total, or the total less the penalty, of the
\* days its copy of the row counts.
LEMMA NetPayoutBacked ==
    ASSUME IInv, NEW r \in Requests, snap[r].status # "NONE"
    PROVE  /\ snap[r].total \in Nat
           /\ PenaltyDue(r) \in Nat /\ NetPayout(r) \in Nat
           /\ PenaltyDue(r) # 0 => ~ IsMature(snap[r], lastDay[r])
           /\ PenaltyDue(r) # 0 => PenaltyDue(r) = Penalty(snap[r].total)
           /\ snap[r].total = PenaltyDue(r) + NetPayout(r)
           /\ Backed(NetPayout(r), cycle.days)
<1>1. snap[r] \in CycleRow /\ RowIn(snap[r], cycle.days, breakLog)
  BY DEF IInv, TypeOK, RequestOK, RowOK
<1>2. /\ snap[r].total \in Nat /\ snap[r].days \in 1 .. cycle.days
      /\ snap[r].total = TotalAfter(snap[r].days)
  BY <1>1, ConstantsAssumption, SMT DEF RowIn, CycleRow
<1>3. /\ Penalty(snap[r].total) \in Nat
      /\ snap[r].total - Penalty(snap[r].total) \in Nat
  BY <1>2, PenaltyHalves
<1>4. CASE IsMature(snap[r], lastDay[r])
  <2>1. PenaltyDue(r) = 0 /\ NetPayout(r) = snap[r].total
    BY <1>2, <1>4, SMT DEF PenaltyDue, NetPayout
  <2> QED
    BY <1>2, <2>1, SMT DEF Backed
<1>5. CASE ~ IsMature(snap[r], lastDay[r])
  <2>1. /\ PenaltyDue(r) = Penalty(snap[r].total)
        /\ NetPayout(r) = snap[r].total - Penalty(snap[r].total)
    BY <1>5 DEF PenaltyDue, NetPayout
  <2>2. Backed(NetPayout(r), cycle.days)
    BY <1>2, <2>1 DEF Backed
  <2> HIDE DEF Penalty
  <2> QED
    BY <1>2, <1>3, <1>5, <2>1, <2>2, SMT
<1> QED
  BY <1>4, <1>5

\* A request past its first read that only moves on.
LEMMA GotoInv ==
    ASSUME IInv, NEW r \in Requests,
           NEW label \in {"bepwg_break_log", "bepwg_push", "bepwg_link"},
           pc[r] \notin {"idle", "open_log", "open_link"},
           Goto(r, label), UNCHANGED <<rows, monthEnd, pushes, aborts>>
    PROVE  IInv'
<1>1. label \in Labels /\ label \notin DepositLabels
  BY DEF Labels, DepositLabels
<1>2. /\ pc' \in [Requests -> Labels] /\ snap' \in [Requests -> CycleRow]
      /\ lastDay' \in [Requests -> BOOLEAN]
      /\ pc'[r] = label /\ snap'[r] = snap[r]
      /\ \A q \in Requests \ {r} : pc'[q] = pc[q] /\ snap'[q] = snap[q]
  BY <1>1 DEF Goto, IInv, TypeOK
<1>3. TypeOK'
  BY <1>2 DEF rows, IInv, TypeOK
<1>4. RequestOK(r)' /\ pc'[r] # "deposit_write"
  BY <1>1, <1>2, <1>3, MoveOK DEF rows
<1> QED
  BY <1>2, <1>3, <1>4, LocalInv DEF rows

\* The steps of a biometric withdrawal.
LEMMA BContinueInv ==
    ASSUME IInv, BTypeOK, NEW r \in Requests, BContinue(r)
    PROVE  IInv'
<1>1. ASSUME NEW near \in BOOLEAN, NEW matches \in 0 .. 3,
             BepwgGates(r, near, matches)
      PROVE  IInv'
  <2>1. CASE Return(r)
    BY <1>1, <2>1, ReturnInv DEF BepwgGates, rows, IInv, TypeOK
  <2>2. CASE Goto(r, "bepwg_push") \/ Goto(r, "bepwg_break_log")
    BY <1>1, <2>2, GotoInv DEF BepwgGates
  <2> QED
    BY <1>1, <2>1, <2>2 DEF BepwgGates
<1>2. CASE BepwgBreakLog(r)
  BY <1>2, InsertBreakRowInv DEF BepwgBreakLog
<1>3. CASE BepwgBreakWrite(r)
  BY <1>3, MarkBrokenInv DEF BepwgBreakWrite
<1>4. CASE BepwgPush(r)
  <2>1. pc[r] = "bepwg_push" /\ snap[r].status # "NONE"
    BY <1>4 DEF BepwgPush, IInv, RequestOK
  <2>2. NetPayout(r) \in Nat /\ Backed(NetPayout(r), cycle.days)
    BY <2>1, NetPayoutBacked
  <2> QED
    BY <1>4, <2>1, <2>2, PushFundsInv DEF BepwgPush
<1>5. CASE BepwgClose(r)
  BY <1>5, MarkWithdrawnInv DEF BepwgClose
<1>6. CASE BepwgAudit(r)
  BY <1>6, GotoInv DEF BepwgAudit
<1>7. CASE BepwgLink(r)
  <2>1. /\ UNCHANGED <<cycle, dayLog, breakLog, incentive, monthEnd, pushes>>
        /\ Return(r) /\ trusted' \subseteq Agents /\ aborts' \in Nat
    BY <1>7 DEF BepwgLink, UpsertLink, BTypeOK, IInv, TypeOK
  <2> QED
    BY <2>1, ReturnInv
<1> QED
  BY <1>1, <1>2, <1>3, <1>4, <1>5, <1>6, <1>7 DEF BContinue

LEMMA BepwgReadInv ==
    ASSUME IInv, NEW r \in Requests, NEW agent \in Agents, BepwgRead(r, agent)
    PROVE  IInv'
<1>1. "bepwg_gates" \in Labels /\ "bepwg_gates" \notin DepositLabels
  BY DEF Labels, DepositLabels
<1> QED
  BY <1>1, EnterInv DEF BepwgRead, RefIssued

LEMMA BNextIInv == IInv /\ BTypeOK /\ [BNext]_bvars => IInv'
<1> SUFFICES ASSUME IInv, BTypeOK, [BNext]_bvars PROVE IInv'
  OBVIOUS
<1>1. CASE [Next]_vars
  BY <1>1, NextInv
<1>2. ASSUME NEW r \in Requests, BContinue(r) PROVE IInv'
  BY <1>2, BContinueInv
<1>3. ASSUME NEW r \in Requests, NEW agent \in Agents, BepwgRead(r, agent)
      PROVE  IInv'
  BY <1>3, BepwgReadInv
<1>4. ASSUME NEW agent \in Agents, TrustLink(agent) PROVE IInv'
  <2>1. /\ UNCHANGED <<cycle, dayLog, breakLog, incentive, pushes, pc, snap,
                       lastDay, aborts, monthEnd>>
        /\ trusted' \subseteq Agents
    BY <1>4 DEF TrustLink, UpsertLink, IInv, TypeOK
  <2>2. monthEnd' \in BOOLEAN
    BY <2>1 DEF IInv, TypeOK
  <2> QED
    BY <2>1, <2>2, IdleInv
<1> QED
  BY <1>1, <1>2, <1>3, <1>4 DEF BNext, bvars

-----------------------------------------------------------------------------
(* The audit log.                                                          *)

\* A step of the savings services only adds break rows, and leads no request
\* into the part of a withdrawal that follows the break row.
LEMMA SavingsFrame ==
    ASSUME TypeOK, [Next]_vars
    PROVE  /\ breakLog \subseteq breakLog'
           /\ \A q \in Requests :
                  \/ /\ pc'[q] = pc[q] /\ snap'[q] = snap[q]
                     /\ lastDay'[q] = lastDay[q]
                  \/ pc'[q] \notin AfterBreakRow
<1> USE DEF TypeOK, AfterBreakRow
<1>1. ASSUME NEW r \in Requests, Start(r) \/ Abort(r)
      PROVE  /\ breakLog' = breakLog /\ pc'[r] \notin AfterBreakRow
             /\ \A q \in Requests \ {r} : /\ pc'[q] = pc[q] /\ snap'[q] = snap[q]
                                         /\ lastDay'[q] = lastDay[q]
  BY <1>1, SMT DEF Start, OpenCycle, StatusRead, BreakRead, WithdrawRead,
     DepositRead, Abort, Enter, Goto, Return, rows
<1>2. ASSUME NEW r \in Requests, Continue(r)
      PROVE  /\ breakLog \subseteq breakLog' /\ pc'[r] \notin AfterBreakRow
             /\ \A q \in Requests \ {r} : /\ pc'[q] = pc[q] /\ snap'[q] = snap[q]
                                         /\ lastDay'[q] = lastDay[q]
  <2>1. CASE OpenDayLog(r) \/ OpenLink(r)
    BY <2>1, SMT DEF OpenDayLog, OpenLink, Goto, Return
  <2>2. CASE DepositLog(r)
    BY <2>2, SMT DEF DepositLog, Return
  <2>3. CASE DepositWrite(r)
    BY <2>3, SMT DEF DepositWrite, Goto
  <2>4. CASE IncentiveCreate(r) \/ IncentiveSettle(r)
    BY <2>4, SMT DEF IncentiveCreate, IncentiveSettle, Goto, Return
  <2>5. CASE StatusWrite(r)
    BY <2>5, SMT DEF StatusWrite, Return
  <2>6. CASE BreakLog(r)
    BY <2>6, SMT DEF BreakLog, InsertBreakRow, Goto, Return
  <2>7. CASE BreakWrite(r)
    BY <2>7, SMT DEF BreakWrite, MarkBroken, Return
  <2>8. CASE WithdrawPush(r)
    BY <2>8, SMT DEF WithdrawPush, PushFunds, Goto, rows
  <2>9. CASE WithdrawClose(r)
    BY <2>9, SMT DEF WithdrawClose, MarkWithdrawn, Return
  <2> QED
    BY <1>2, <2>1, <2>2, <2>3, <2>4, <2>5, <2>6, <2>7, <2>8, <2>9 DEF Continue
<1>3. CASE DayTurns \/ UNCHANGED vars
  BY <1>3 DEF DayTurns, vars, rows
<1> QED
  BY <1>1, <1>2, <1>3 DEF Next

\* So does a step of the gate, except that it leads there a request that is
\* there already, is mature, or has just inserted its break row.
LEMMA GateFrame ==
    ASSUME IInv, NEW r \in Requests, NEW agent \in Agents,
           BContinue(r) \/ BepwgRead(r, agent)
    PROVE  /\ breakLog \subseteq breakLog'
           /\ \A q \in Requests \ {r} : /\ pc'[q] = pc[q] /\ snap'[q] = snap[q]
                                       /\ lastDay'[q] = lastDay[q]
           /\ \/ pc'[r] \notin AfterBreakRow
              \/ /\ snap'[r] = snap[r] /\ lastDay'[r] = lastDay[r]
                 /\ \/ pc[r] \in AfterBreakRow
                    \/ IsMature(snap[r], lastDay[r])
                    \/ BreakRowOf(snap[r]) \in breakLog'
<1> USE DEF IInv, TypeOK, AfterBreakRow
<1>1. ASSUME NEW near \in BOOLEAN, NEW matches \in 0 .. 3,
             BepwgGates(r, near, matches)
      PROVE  /\ breakLog' = breakLog
             /\ \A q \in Requests \ {r} : /\ pc'[q] = pc[q] /\ snap'[q] = snap[q]
                                         /\ lastDay'[q] = lastDay[q]
             /\ \/ pc'[r] \notin AfterBreakRow
                \/ /\ snap'[r] = snap[r] /\ lastDay'[r] = lastDay[r]
                   /\ IsMature(snap[r], lastDay[r])
  BY <1>1, SMT DEF BepwgGates, Goto, Return, rows
<1>2. CASE BepwgBreakLog(r)
  BY <1>2, SMT DEF BepwgBreakLog, InsertBreakRow, Goto, Return
<1>3. CASE BepwgBreakWrite(r)
  BY <1>3, SMT DEF BepwgBreakWrite, MarkBroken, Goto
<1>4. CASE BepwgPush(r) \/ BepwgAudit(r)
  BY <1>4, SMT DEF BepwgPush, BepwgAudit, PushFunds, Goto, rows
<1>5. CASE BepwgClose(r)
  BY <1>5, SMT DEF BepwgClose, MarkWithdrawn, Goto
<1>6. CASE BepwgLink(r)
  BY <1>6, SMT DEF BepwgLink, UpsertLink, Return
<1>7. CASE BepwgRead(r, agent)
  BY <1>7, SMT DEF BepwgRead, Enter, rows
<1> QED
  BY <1>1, <1>2, <1>3, <1>4, <1>5, <1>6, <1>7 DEF BContinue

\* An early withdrawal keeps its break row.
LEMMA EarlyLockedStep ==
    ASSUME IInv, [BNext]_bvars, NEW q \in Requests, EarlyLocked(q)
    PROVE  EarlyLocked(q)'
<1> USE DEF EarlyLocked
<1>1. CASE [Next]_vars
  BY <1>1, SavingsFrame DEF IInv, IsMature, BreakRowOf
<1>2. ASSUME NEW r \in Requests, NEW agent \in Agents,
             BContinue(r) \/ BepwgRead(r, agent)
      PROVE  EarlyLocked(q)'
  BY <1>2, GateFrame DEF IsMature, BreakRowOf
<1>3. ASSUME NEW agent \in Agents, TrustLink(agent) PROVE EarlyLocked(q)'
  BY <1>3 DEF TrustLink, UpsertLink, IsMature, BreakRowOf
<1>4. OpeningAgent \in Agents
  BY ConstantsAssumption
<1> QED
  BY <1>1, <1>2, <1>3, <1>4 DEF BNext, bvars

\* Break rows are never removed.
LEMMA BreakLogGrows ==
    ASSUME IInv, [BNext]_bvars
    PROVE  breakLog \subseteq breakLog'
<1>1. CASE [Next]_vars
  BY <1>1, SavingsFrame DEF IInv
<1>2. ASSUME NEW r \in Requests, NEW agent \in Agents,
             BContinue(r) \/ BepwgRead(r, agent)
      PROVE  breakLog \subseteq breakLog'
  BY <1>2, GateFrame
<1>3. ASSUME NEW agent \in Agents, TrustLink(agent)
      PROVE  breakLog \subseteq breakLog'
  BY <1>3 DEF TrustLink, UpsertLink
<1>4. OpeningAgent \in Agents
  BY ConstantsAssumption
<1> QED
  BY <1>1, <1>2, <1>3, <1>4 DEF BNext, bvars

\* The audit row of a withdrawal balances, and its penalty is recorded.
LEMMA AuditRowOK ==
    ASSUME BInv, NEW r \in Requests, pc[r] = "bepwg_audit"
    PROVE  LET row == [gross |-> snap[r].total, penalty |-> PenaltyDue(r),
                       net |-> NetPayout(r)]
           IN  /\ row \in AuditRow
               /\ row.gross = row.penalty + row.net
               /\ row.penalty # 0 =>
                      \E b \in breakLog : /\ b.penalty = row.penalty
                                          /\ b.total = row.gross
<1>1. snap[r].status # "NONE"
  BY DEF BInv, IInv, RequestOK
<1>2. /\ snap[r].total \in Nat
      /\ PenaltyDue(r) \in Nat /\ NetPayout(r) \in Nat
      /\ PenaltyDue(r) # 0 => ~ IsMature(snap[r], lastDay[r])
      /\ PenaltyDue(r) # 0 => PenaltyDue(r) = Penalty(snap[r].total)
      /\ snap[r].total = PenaltyDue(r) + NetPayout(r)
  BY <1>1, NetPayoutBacked DEF BInv
<1>3. PenaltyDue(r) # 0 =>
          /\ BreakRowOf(snap[r]) \in breakLog
          /\ BreakRowOf(snap[r]).penalty = PenaltyDue(r)
          /\ BreakRowOf(snap[r]).total = snap[r].total
  BY <1>2 DEF BInv, EarlyLocked, AfterBreakRow, BreakRowOf
<1> QED
  BY <1>2, <1>3 DEF AuditRow

LEMMA AuditStep ==
    ASSUME BInv, [BNext]_bvars
    PROVE  BTypeOK' /\ AuditBalances'
<1>1. breakLog \subseteq breakLog'
  BY BreakLogGrows DEF BInv
<1>5. TypeOK'
  BY BNextIInv DEF BInv, IInv
<1>2. CASE audit' = audit
  <2>1. agentOf' \in [Requests -> Agents]
    <3>1. ASSUME NEW r \in Requests, NEW agent \in Agents, BepwgRead(r, agent)
          PROVE  agentOf' \in [Requests -> Agents]
      BY <3>1 DEF BepwgRead, BInv, BTypeOK
    <3>2. ASSUME NEW r \in Requests, BContinue(r) PROVE agentOf' = agentOf
      BY <3>2 DEF BContinue, BepwgGates, BepwgBreakLog, BepwgBreakWrite,
         BepwgPush, BepwgClose, BepwgAudit, BepwgLink, UpsertLink
    <3>3. ASSUME NEW agent \in Agents, TrustLink(agent) PROVE agentOf' = agentOf
      BY <3>3 DEF TrustLink, UpsertLink
    <3> QED
      BY <3>1, <3>2, <3>3 DEF BNext, bvars, BInv, BTypeOK
  <2> QED
    BY <1>1, <1>5, <1>2, <2>1 DEF BInv, BTypeOK, AuditBalances
<1>3. ASSUME NEW r \in Requests, BepwgAudit(r)
      PROVE  BTypeOK' /\ AuditBalances'
  <2> DEFINE row == [gross |-> snap[r].total, penalty |-> PenaltyDue(r),
                     net |-> NetPayout(r)]
  <2>1. /\ row \in AuditRow
        /\ row.gross = row.penalty + row.net
        /\ row.penalty # 0 =>
               \E b \in breakLog : b.penalty = row.penalty /\ b.total = row.gross
    BY <1>3, AuditRowOK DEF BepwgAudit
  <2>2. audit' = Append(audit, row) /\ agentOf' = agentOf
    BY <1>3 DEF BepwgAudit
  <2>3. audit \in Seq(AuditRow) /\ agentOf \in [Requests -> Agents]
    BY DEF BInv, BTypeOK
  <2> HIDE DEF row
  <2>4. BTypeOK'
    BY <1>5, <2>1, <2>2, <2>3 DEF BTypeOK
  <2>5. ASSUME NEW i \in 1 .. Len(audit')
        PROVE  /\ audit'[i].gross = audit'[i].penalty + audit'[i].net
               /\ audit'[i].penalty # 0 =>
                      \E b \in breakLog' : /\ b.penalty = audit'[i].penalty
                                           /\ b.total = audit'[i].gross
    <3>1. /\ Len(audit) \in Nat /\ Len(audit') = Len(audit) + 1
          /\ audit'[Len(audit) + 1] = row
          /\ i \in 1 .. Len(audit) => audit'[i] = audit[i]
      BY <2>1, <2>2, <2>3, SMT
    <3>2. CASE i \in 1 .. Len(audit)
      <4>1. /\ audit[i].gross = audit[i].penalty + audit[i].net
            /\ audit[i].penalty # 0 =>
                   \E b \in breakLog : /\ b.penalty = audit[i].penalty
                                       /\ b.total = audit[i].gross
        BY <3>2 DEF BInv, AuditBalances
      <4> QED
        BY <1>1, <3>1, <3>2, <4>1, Zenon
    <3>3. CASE i = Len(audit) + 1
      BY <1>1, <2>1, <3>1, <3>3, Zenon
    <3> QED
      BY <3>1, <3>2, <3>3, SMT
  <2> QED
    BY <2>4, <2>5 DEF AuditBalances
<1>4. CASE \A r \in Requests : ~ BepwgAudit(r)
  <2>1. ASSUME NEW r \in Requests, BContinue(r), ~ BepwgAudit(r)
        PROVE  audit' = audit
    BY <2>1 DEF BContinue, BepwgGates, BepwgBreakLog, BepwgBreakWrite,
       BepwgPush, BepwgClose, BepwgLink, UpsertLink
  <2>2. audit' = audit
    BY <1>4, <2>1 DEF BNext, BepwgRead, TrustLink, UpsertLink, bvars
  <2> QED
    BY <1>2, <2>2
<1> QED
  BY <1>3, <1>4

-----------------------------------------------------------------------------
(* Nothing half done, and no payout without its audit row.                 *)

LEMMA GateFinishing ==
    ASSUME IInv, Finishing, NEW r \in Requests, NEW agent \in Agents,
           BContinue(r) \/ BepwgRead(r, agent)
    PROVE  Finishing'
<1>1. OthersStay(r)
  BY GateFrame DEF OthersStay
<1>2. ASSUME NEW near \in BOOLEAN, NEW matches \in 0 .. 3,
             BepwgGates(r, near, matches)
      PROVE  Finishing'
  BY <1>1, <1>2, FinishingKept DEF BepwgGates, rows, BetweenWrites
<1>3. CASE BepwgBreakLog(r)
  BY <1>3, InsertBreakFinishing DEF BepwgBreakLog
<1>4. CASE BepwgBreakWrite(r)
  BY <1>1, <1>4, MarkBrokenFinishing DEF BepwgBreakWrite
<1>5. CASE BepwgPush(r)
  BY <1>1, <1>5, FinishingKept DEF BepwgPush, PushFunds, rows, BetweenWrites
<1>6. CASE BepwgClose(r)
  BY <1>1, <1>6, StatusFinishing DEF BepwgClose, BetweenWrites
<1>7. CASE BepwgAudit(r)
  BY <1>1, <1>7, FinishingKept DEF BepwgAudit, rows, BetweenWrites
<1>8. CASE BepwgLink(r)
  BY <1>1, <1>8, FinishingKept DEF BepwgLink, UpsertLink, BetweenWrites
<1>9. CASE BepwgRead(r, agent)
  BY <1>1, <1>9, FinishingKept DEF BepwgRead, rows, BetweenWrites
<1> QED
  BY <1>2, <1>3, <1>4, <1>5, <1>6, <1>7, <1>8, <1>9 DEF BContinue

LEMMA BNextFinishing ==
    ASSUME IInv, Finishing, [BNext]_bvars
    PROVE  Finishing'
<1>1. CASE [Next]_vars
  BY <1>1, NextFinishing
<1>2. ASSUME NEW r \in Requests, NEW agent \in Agents,
             BContinue(r) \/ BepwgRead(r, agent)
      PROVE  Finishing'
  BY <1>2, GateFinishing
<1>3. ASSUME NEW agent \in Agents, TrustLink(agent) PROVE Finishing'
  BY <1>3 DEF TrustLink, UpsertLink, Finishing, DaysFinishing,
     IncentivesFinishing, PaysIncentive, BreakFinishing, BreakLogged
<1>4. OpeningAgent \in Agents
  BY ConstantsAssumption
<1> QED
  BY <1>1, <1>2, <1>3, <1>4 DEF BNext, bvars

\* A payout adds one to those of this service, or nothing.
LEMMA PushesCounted ==
    ASSUME TypeOK, NEW p \in Push, pushes' = Append(pushes, p)
    PROVE  /\ IsFiniteSet(BepwgPushes)
           /\ Cardinality(BepwgPushes') <= Cardinality(BepwgPushes) + 1
           /\ p.by # "bepwg" => BepwgPushes' = BepwgPushes
<1>1. pushes \in Seq(Push) /\ Len(pushes) \in Nat
  BY DEF TypeOK
<1>2. /\ Len(pushes') = Len(pushes) + 1 /\ pushes'[Len(pushes) + 1] = p
      /\ \A i \in 1 .. Len(pushes) : pushes'[i] = pushes[i]
  BY <1>1, SMT
<1>3. IsFiniteSet(BepwgPushes)
  <2>1. IsFiniteSet(1 .. Len(pushes))
    BY <1>1, FS_Interval, SMT
  <2> QED
    BY <2>1, FS_Subset DEF BepwgPushes
<1>4. CASE p.by # "bepwg"
  <2>1. BepwgPushes' = BepwgPushes
    BY <1>1, <1>2, <1>4, SMT DEF BepwgPushes
  <2>2. Cardinality(BepwgPushes) \in Nat
    BY <1>3, FS_CardinalityType
  <2> QED
    BY <1>3, <2>1, <2>2, SMT
<1>5. CASE p.by = "bepwg"
  <2>1. BepwgPushes' = BepwgPushes \cup {Len(pushes) + 1}
    BY <1>1, <1>2, <1>5, SMT DEF BepwgPushes
  <2>2. Len(pushes) + 1 \notin BepwgPushes
    BY <1>1, SMT DEF BepwgPushes
  <2>3. Cardinality(BepwgPushes') = Cardinality(BepwgPushes) + 1
    BY <1>3, <2>1, <2>2, FS_AddElement
  <2>4. Cardinality(BepwgPushes) \in Nat
    BY <1>3, FS_CardinalityType
  <2> QED
    BY <1>3, <1>5, <2>3, <2>4, SMT
<1> QED
  BY <1>4, <1>5

\* A step that pays nothing for this service and moves nobody into or out of
\* the part of a withdrawal between payout and audit row.
LEMMA AuditComingKept ==
    ASSUME AuditComing, BepwgPushes' = BepwgPushes, audit' = audit,
           Unaudited' = Unaudited, aborts' = aborts
    PROVE  AuditComing'
  BY DEF AuditComing

\* The last is the case of the steps of the savings services.
LEMMA SavingsAuditComing ==
    ASSUME IInv, AuditComing, [Next]_vars, audit' = audit
    PROVE  AuditComing'
<1> DEFINE Waits == {"bepwg_close", "bepwg_audit"}
<1>1. ASSUME NEW r \in Requests, Abort(r) PROVE AuditComing'
  <2>1. aborts' # 0
    BY <1>1, SMT DEF Abort, IInv, TypeOK
  <2>2. Unaudited' \subseteq Unaudited
    BY <1>1 DEF Abort, Return, Unaudited, IInv, TypeOK
  <2>3. IsFiniteSet(Unaudited')
    BY <2>2, FS_Subset DEF AuditComing
  <2> QED
    BY <2>1, <2>3 DEF AuditComing
<1>2. ASSUME NEW r \in Requests, OthersStay(r), pc[r] \notin Waits,
             pc'[r] \notin Waits
      PROVE  Unaudited' = Unaudited
  BY <1>2 DEF Unaudited, OthersStay
<1>3. ASSUME NEW r \in Requests, WithdrawPush(r) PROVE AuditComing'
  <2>1. OthersStay(r) /\ pc[r] = "withdraw_push" /\ pc'[r] = "withdraw_close"
    BY <1>3 DEF WithdrawPush, PushFunds, Goto, OthersStay, IInv, TypeOK
  <2>2. Unaudited' = Unaudited /\ aborts' = aborts
    BY <1>2, <1>3, <2>1 DEF WithdrawPush, PushFunds
  <2>3. BepwgPushes' = BepwgPushes
    <3>1. CASE pushes' = pushes
      BY <3>1 DEF BepwgPushes
    <3>2. CASE pushes' = Append(pushes, [by |-> "savings",
                                         amount |-> Payout(snap[r])])
      <4> DEFINE p == [by |-> "savings", amount |-> Payout(snap[r])]
      <4>1. Payout(snap[r]) \in Nat
        BY <2>1, PayoutBacked DEF IInv, RequestOK
      <4>2. p \in Push /\ p.by # "bepwg"
        BY <4>1 DEF Push
      <4>3. TypeOK
        BY DEF IInv
      <4> HIDE DEF p
      <4>4. pushes' = Append(pushes, p)
        BY <3>2 DEF p
      <4> QED
        BY <4>2, <4>3, <4>4, PushesCounted
    <3> QED
      BY <1>3, <3>1, <3>2 DEF WithdrawPush, PushFunds
  <2> QED
    BY <2>2, <2>3, AuditComingKept
<1>4. ASSUME NEW r \in Requests, Start(r) PROVE AuditComing'
  <2>1. /\ OthersStay(r) /\ pc[r] = "idle" /\ pc'[r] \notin Waits
        /\ pushes' = pushes /\ aborts' = aborts
    BY <1>4, SMT DEF Start, OpenCycle, StatusRead, BreakRead, WithdrawRead,
       DepositRead, Enter, Goto, OthersStay, IInv, TypeOK
  <2>2. Unaudited' = Unaudited
    BY <1>2, <2>1
  <2> QED
    BY <2>1, <2>2, AuditComingKept DEF BepwgPushes
<1>5. ASSUME NEW r \in Requests, Continue(r), ~ WithdrawPush(r)
      PROVE  AuditComing'
  <2>1. pc[r] \notin Waits /\ pushes' = pushes /\ aborts' = aborts
    BY <1>5 DEF Continue, OpenDayLog, OpenLink, DepositLog, DepositWrite,
       IncentiveCreate, IncentiveSettle, StatusWrite, BreakLog, InsertBreakRow,
       BreakWrite, MarkBroken, WithdrawClose, MarkWithdrawn
  <2>2. OthersStay(r) /\ pc'[r] \notin Waits
    <3>1. CASE DepositLog(r)
      BY <3>1 DEF DepositLog, Return, OthersStay, IInv, TypeOK
    <3>2. CASE ~ DepositLog(r)
      BY <1>5, <3>2, SMT DEF Continue, OpenDayLog, OpenLink, DepositWrite,
         IncentiveCreate, IncentiveSettle, StatusWrite, BreakLog,
         InsertBreakRow, BreakWrite, WithdrawClose, Goto, Return, OthersStay,
         IInv, TypeOK
    <3> QED
      BY <3>1, <3>2
  <2>3. Unaudited' = Unaudited
    BY <1>2, <2>1, <2>2
  <2> QED
    BY <2>1, <2>3, AuditComingKept DEF BepwgPushes
<1>6. CASE DayTurns \/ UNCHANGED vars
  BY <1>6, AuditComingKept DEF DayTurns, vars, rows, BepwgPushes, Unaudited
<1> QED
  BY <1>1, <1>3, <1>4, <1>5, <1>6 DEF Next

\* The steps of the gate: the payout makes the withdrawal wait for its row,
\* and only the row ends the wait.
LEMMA GateAuditComing ==
    ASSUME BInv, NEW r \in Requests, NEW agent \in Agents,
           BContinue(r) \/ BepwgRead(r, agent)
    PROVE  AuditComing'
<1> DEFINE Waits == {"bepwg_close", "bepwg_audit"}
<1>1. /\ OthersStay(r) /\ TypeOK /\ IInv /\ AuditComing
      /\ pc \in [Requests -> Labels] /\ Len(audit) \in Nat
  BY GateFrame DEF OthersStay, BInv, IInv, TypeOK, BTypeOK
<1>2. /\ IsFiniteSet(Unaudited) /\ Cardinality(Unaudited) \in Nat
  BY <1>1, FS_CardinalityType DEF AuditComing
<1>3. ASSUME pc[r] \notin Waits, pc'[r] \notin Waits, pushes' = pushes,
             audit' = audit, aborts' = aborts
      PROVE  AuditComing'
  <2>1. Unaudited' = Unaudited
    BY <1>1, <1>3 DEF Unaudited, OthersStay
  <2> QED
    BY <1>1, <1>3, <2>1, AuditComingKept DEF BepwgPushes
<1>4. ASSUME NEW near \in BOOLEAN, NEW matches \in 0 .. 3,
             BepwgGates(r, near, matches)
      PROVE  AuditComing'
  <2>1. /\ pc[r] \notin Waits /\ pushes' = pushes /\ audit' = audit
        /\ aborts' = aborts
    BY <1>4 DEF BepwgGates
  <2>2. pc'[r] \notin Waits
    BY <1>1, <1>4, SMT DEF BepwgGates, Goto, Return
  <2> QED
    BY <1>3, <2>1, <2>2
<1>5. CASE BepwgBreakLog(r) \/ BepwgBreakWrite(r) \/ BepwgLink(r)
  BY <1>1, <1>3, <1>5, SMT DEF BepwgBreakLog, InsertBreakRow, BepwgBreakWrite,
     MarkBroken, BepwgLink, UpsertLink, Goto, Return
<1>6. CASE BepwgRead(r, agent)
  BY <1>1, <1>3, <1>6 DEF BepwgRead, Enter
<1>7. CASE BepwgClose(r)
  <2>1. /\ pc[r] = "bepwg_close" /\ pc'[r] = "bepwg_audit"
        /\ pushes' = pushes /\ audit' = audit /\ aborts' = aborts
    BY <1>1, <1>7 DEF BepwgClose, MarkWithdrawn, Goto
  <2>2. Unaudited' = Unaudited
    BY <1>1, <2>1 DEF Unaudited, OthersStay
  <2> QED
    BY <1>1, <2>1, <2>2, AuditComingKept DEF BepwgPushes
<1>8. CASE BepwgPush(r)
  <2>1. /\ pc[r] = "bepwg_push" /\ pc'[r] = "bepwg_close"
        /\ audit' = audit /\ aborts' = aborts
    BY <1>1, <1>8 DEF BepwgPush, PushFunds, Goto
  <2>2. Unaudited' = Unaudited \cup {r} /\ r \notin Unaudited
    BY <1>1, <2>1 DEF Unaudited, OthersStay
  <2>3. /\ IsFiniteSet(Unaudited')
        /\ Cardinality(Unaudited') = Cardinality(Unaudited) + 1
    BY <1>2, <2>2, FS_AddElement
  <2>4. /\ Cardinality(BepwgPushes') <= Cardinality(BepwgPushes) + 1
        /\ Cardinality(BepwgPushes) \in Nat /\ Cardinality(BepwgPushes') \in Nat
    <3> DEFINE p == [by |-> "bepwg", amount |-> NetPayout(r)]
    <3>1. NetPayout(r) \in Nat
      BY <1>1, <2>1, NetPayoutBacked DEF IInv, RequestOK
    <3>2. p \in Push
      BY <3>1 DEF Push
    <3>3. pushes' = pushes \/ pushes' = Append(pushes, p)
      BY <1>8 DEF BepwgPush, PushFunds
    <3>4. pushes \in Seq(Push)
      BY <1>1 DEF TypeOK
    <3> HIDE DEF p
    <3>5. pushes' \in Seq(Push)
      BY <3>2, <3>3, <3>4
    <3>6. IsFiniteSet(BepwgPushes) /\ IsFiniteSet(BepwgPushes')
      <4>1. IsFiniteSet(1 .. Len(pushes)) /\ IsFiniteSet(1 .. Len(pushes'))
        BY <3>4, <3>5, FS_Interval, SMT
      <4> QED
        BY <4>1, FS_Subset DEF BepwgPushes
    <3>7. Cardinality(BepwgPushes) \in Nat /\ Cardinality(BepwgPushes') \in Nat
      BY <3>6, FS_CardinalityType
    <3>8. CASE pushes' = pushes
      <4>1. BepwgPushes' = BepwgPushes
        BY <3>8 DEF BepwgPushes
      <4> QED
        BY <3>7, <4>1, SMT
    <3>9. CASE pushes' = Append(pushes, p)
      BY <1>1, <3>2, <3>7, <3>9, PushesCounted
    <3> QED
      BY <3>3, <3>8, <3>9
  <2>5. aborts = 0 => Cardinality(BepwgPushes) <= Len(audit) + Cardinality(Unaudited)
    BY <1>1 DEF AuditComing
  <2>6. aborts' = 0 =>
            Cardinality(BepwgPushes') <= Len(audit') + Cardinality(Unaudited')
    BY <1>1, <1>2, <2>1, <2>3, <2>4, <2>5, SMT
  <2> QED
    BY <2>3, <2>6 DEF AuditComing
<1>9. CASE BepwgAudit(r)
  <2> DEFINE row == [gross |-> snap[r].total, penalty |-> PenaltyDue(r),
                     net |-> NetPayout(r)]
  <2>1. /\ pc[r] = "bepwg_audit" /\ pc'[r] = "bepwg_link"
        /\ pushes' = pushes /\ aborts' = aborts
    BY <1>1, <1>9 DEF BepwgAudit, Goto
  <2>2. Len(audit') = Len(audit) + 1
    <3>1. row \in AuditRow
      BY <2>1, AuditRowOK
    <3>2. audit' = Append(audit, row) /\ audit \in Seq(AuditRow)
      BY <1>9 DEF BepwgAudit, BInv, BTypeOK
    <3> HIDE DEF row
    <3> QED
      BY <3>1, <3>2
  <2>3. Unaudited' = Unaudited \ {r} /\ r \in Unaudited
    BY <1>1, <2>1 DEF Unaudited, OthersStay
  <2>4. /\ IsFiniteSet(Unaudited')
        /\ Cardinality(Unaudited') = Cardinality(Unaudited) - 1
    BY <1>2, <2>3, FS_RemoveElement
  <2>5. BepwgPushes' = BepwgPushes
    BY <2>1 DEF BepwgPushes
  <2>6. aborts = 0 => Cardinality(BepwgPushes) <= Len(audit) + Cardinality(Unaudited)
    BY <1>1 DEF AuditComing
  <2>7. Len(audit') + Cardinality(Unaudited') = Len(audit) + Cardinality(Unaudited)
    BY <1>1, <1>2, <2>2, <2>4, SMT
  <2> QED
    BY <2>1, <2>4, <2>5, <2>6, <2>7 DEF AuditComing
<1> QED
  BY <1>4, <1>5, <1>6, <1>7, <1>8, <1>9 DEF BContinue

LEMMA AuditComingStep ==
    ASSUME BInv, [BNext]_bvars
    PROVE  AuditComing'
<1>1. CASE [Next]_vars /\ UNCHANGED <<audit, agentOf>>
  BY <1>1, SavingsAuditComing DEF BInv
<1>2. ASSUME NEW r \in Requests, NEW agent \in Agents,
             BContinue(r) \/ BepwgRead(r, agent)
      PROVE  AuditComing'
  BY <1>2, GateAuditComing
<1>3. ASSUME NEW agent \in Agents, TrustLink(agent) PROVE AuditComing'
  BY <1>3, AuditComingKept DEF TrustLink, UpsertLink, BepwgPushes, Unaudited,
     BInv
<1>4. OpeningAgent \in Agents
  BY ConstantsAssumption
<1> QED
  BY <1>1, <1>2, <1>3, <1>4 DEF BNext, bvars

\* With no request left, no payout waits for its row.
LEMMA AuditComingImplies ==
    ASSUME BInv, Quiet, aborts = 0
    PROVE  Len(audit) >= Cardinality(BepwgPushes)
<1>1. Unaudited = {}
  BY DEF Quiet, Unaudited
<1>2. Cardinality(Unaudited) = 0
  BY <1>1, FS_EmptySet
<1>3. IsFiniteSet(BepwgPushes)
  <2>1. pushes \in Seq(Push)
    BY DEF BInv, IInv, TypeOK
  <2>2. IsFiniteSet(1 .. Len(pushes))
    BY <2>1, FS_Interval, SMT
  <2> QED
    BY <2>2, FS_Subset DEF BepwgPushes
<1>4. /\ Cardinality(BepwgPushes) \in Nat /\ Len(audit) \in Nat
      /\ Cardinality(BepwgPushes) <= Len(audit) + Cardinality(Unaudited)
  BY <1>3, FS_CardinalityType DEF BInv, BTypeOK, AuditComing
<1> QED
  BY <1>2, <1>4, SMT

LEMMA InitAuditComing == BInit => AuditComing
<1> SUFFICES ASSUME BInit PROVE AuditComing
  OBVIOUS
<1>1. Unaudited = {} /\ BepwgPushes = {} /\ Len(audit) = 0
  BY SMT DEF BInit, Init, Unaudited, BepwgPushes
<1>2. IsFiniteSet({}) /\ Cardinality({}) = 0
  BY FS_EmptySet
<1> QED
  BY <1>1, <1>2, SMT DEF AuditComing

-----------------------------------------------------------------------------
(* The theorems.                                                           *)

\* The invariant holds in every state of the two services together.
THEOREM GateInvariantHolds == BSpec => []BInv
<1>1. BInit => BInv
  <2> SUFFICES ASSUME BInit PROVE BInv
    OBVIOUS
  <2>1. IInv
    BY InitInv DEF BInit
  <2>2. BTypeOK /\ AuditBalances
    BY <2>1, ConstantsAssumption, SMT DEF BInit, BTypeOK, AuditBalances, IInv
  <2>3. \A r \in Requests : EarlyLocked(r)
    BY DEF BInit, Init, EarlyLocked, AfterBreakRow
  <2>4. Finishing /\ AuditComing
    BY InitFinishing, InitAuditComing DEF BInit
  <2> QED
    BY <2>1, <2>2, <2>3, <2>4 DEF BInv
<1>2. BInv /\ [BNext]_bvars => BInv'
  BY BNextIInv, EarlyLockedStep, AuditStep, BNextFinishing, AuditComingStep
     DEF BInv
<1> QED
  BY <1>1, <1>2, PTL DEF BSpec

\* Types, with both services writing: no payout, penalty or audit amount is
\* negative and no day passes the full cycle.
THEOREM GateTypes == BSpec => []BTypeOK
<1>1. BInv => BTypeOK
  BY DEF BInv
<1> QED
  BY <1>1, GateInvariantHolds, PTL

\* The deposit log and the cycle row agree, whichever service withdraws
\* while deposits are on their way (recordDeposit).
THEOREM LedgerAgreesBothWays == BSpec => []LedgerAgrees
<1>1. BInv => LedgerAgrees
  BY DEF BInv, IInv
<1> QED
  BY <1>1, GateInvariantHolds, PTL

\* One break at most is recorded, and an emergency gate pays what it left,
\* however break-safe and early biometric withdrawals interleave.
THEOREM BreakAgreesBothWays == BSpec => []BreakAgrees
<1>1. BInv => BreakAgrees
  BY InvImplies DEF BInv
<1> QED
  BY <1>1, GateInvariantHolds, PTL

\* No stale write makes a cycle claim it is full before it is.
THEOREM MaturityHonestBothWays == BSpec => []MaturityHonest
<1>1. BInv => MaturityHonest
  BY InvImplies DEF BInv
<1> QED
  BY <1>1, GateInvariantHolds, PTL

\* Agents are paid only for deposits that count (disburseIncentive).
THEOREM CommissionCountedBothWays == BSpec => []CommissionCounted
<1>1. BInv => CommissionCounted
  BY DEF BInv, IInv
<1> QED
  BY <1>1, GateInvariantHolds, PTL

\* No payout of either service exceeds or invents savings: each is the total
\* of days the cycle has reached, or that less the penalty.
THEOREM PushesBackedBothWays == BSpec => []PushesBacked
<1>1. BInv => PushesBacked
  BY DEF BInv, IInv
<1> QED
  BY <1>1, GateInvariantHolds, PTL

\* The audit log of biometric withdrawals balances, and each penalty in it
\* is the one the break log holds.
THEOREM AuditAlwaysBalances == BSpec => []AuditBalances
<1>1. BInv => AuditBalances
  BY DEF BInv
<1> QED
  BY <1>1, GateInvariantHolds, PTL

\* Days are never lost or skipped, with both services writing the row.
THEOREM DaysOnlyGoUpBothWays == BSpec => DaysGoUpByOne
<1>1. BInv /\ [BNext]_bvars =>
          [cycle.status # "NONE" => cycle'.days \in {cycle.days, cycle.days + 1}]_vars
  <2> SUFFICES ASSUME BInv, [BNext]_bvars, cycle.status # "NONE"
               PROVE  cycle'.days \in {cycle.days, cycle.days + 1}
    OBVIOUS
  <2>1. cycle \in CycleRow
    BY DEF BInv, IInv, TypeOK
  <2>2. CASE [Next]_vars
    BY <2>2, DaysStep DEF BInv
  <2>3. ASSUME NEW r \in Requests, BContinue(r) PROVE cycle'.days = cycle.days
    <3>1. CASE BepwgBreakWrite(r)
      BY <2>1, <3>1, Zenon DEF BepwgBreakWrite, MarkBroken, CycleRow
    <3>2. CASE BepwgClose(r)
      BY <2>1, <3>2, Zenon DEF BepwgClose, MarkWithdrawn, CycleRow
    <3>3. ASSUME ~ BepwgBreakWrite(r), ~ BepwgClose(r) PROVE cycle' = cycle
      BY <2>3, <3>3 DEF BContinue, BepwgGates, BepwgBreakLog, InsertBreakRow,
         BepwgPush, PushFunds, BepwgAudit, BepwgLink, UpsertLink, rows
    <3> QED
      BY <3>1, <3>2, <3>3
  <2>4. ASSUME NEW agent \in Agents,
               TrustLink(agent) \/ \E r \in Requests : BepwgRead(r, agent)
        PROVE  cycle' = cycle
    BY <2>4 DEF TrustLink, UpsertLink, BepwgRead, rows
  <2> QED
    BY <2>2, <2>3, <2>4 DEF BNext, bvars
<1> QED
  BY <1>1, GateInvariantHolds, PTL DEF BSpec, DaysGoUpByOne

\* With both services running: once every request has returned and none has
\* died, no deposit, incentive or break is half done.
THEOREM QuietIsCompleteBothWays == BSpec => []QuietMeansComplete
<1>1. BInv => QuietMeansComplete
  BY FinishingImplies DEF BInv
<1> QED
  BY <1>1, GateInvariantHolds, PTL

\* Each payout of a biometric withdrawal has its audit row once the requests
\* have returned and none has died (the row is written two statements later).
THEOREM PushesAlwaysAudited == BSpec => []PushesAudited
<1>1. BInv => PushesAudited
  BY AuditComingImplies DEF PushesAudited
<1> QED
  BY <1>1, GateInvariantHolds, PTL
=============================================================================
