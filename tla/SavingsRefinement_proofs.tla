---------------------- MODULE SavingsRefinement_proofs ----------------------
(***************************************************************************)
(* Proof that requests which take turns implement SavingsVault, for any    *)
(* number of them, of days and of amounts, whatever dies half way.         *)
(***************************************************************************)
EXTENDS SavingsRefinement, SavingsCycle_proofs, SequenceTheorems

\* What each step shows: the vault takes a step or stands still.
Implements == SerialInv' /\ [Vault!VNext]_(Vault!vvars)

LEMMA OthersIdle ==
    ASSUME TypeOK, OneAtATime, OneAtATime', NEW r \in Requests, NEW l,
           pc[r] # "idle" \/ l # "idle", pc' = [pc EXCEPT ![r] = l]
    PROVE  /\ pc'[r] = l
           /\ \A q \in Requests \ {r} : pc[q] = "idle" /\ pc'[q] = "idle"
           /\ (\E q \in Requests : pc[q] = "withdraw_close")
                  <=> pc[r] = "withdraw_close"
           /\ (\E q \in Requests : pc'[q] = "withdraw_close")
                  <=> l = "withdraw_close"
<1>1. pc'[r] = l /\ \A q \in Requests \ {r} : pc'[q] = pc[q]
  BY DEF TypeOK
<1>2. \A q \in Requests \ {r} : pc[q] = "idle"
  <2>1. CASE pc[r] # "idle"
    BY <2>1 DEF OneAtATime
  <2>2. CASE l # "idle"
    <3>1. \A q \in Requests \ {r} : pc'[q] = "idle"
      BY <1>1, <2>2 DEF OneAtATime
    <3> QED
      BY <1>1, <3>1
  <2> QED
    BY <2>1, <2>2
<1> QED
  BY <1>1, <1>2

\* Only the request that moves has something left to show.
LEMMA TurnTaken ==
    ASSUME TypeOK, OneAtATime, OneAtATime', NEW r \in Requests, NEW l,
           pc[r] # "idle" \/ l # "idle", pc' = [pc EXCEPT ![r] = l],
           GateAgrees', TurnOK(r)'
    PROVE  SerialInv'
<1>1. \A q \in Requests \ {r} : pc'[q] = "idle"
  BY OthersIdle
<1>2. \A q \in Requests \ {r} : TurnOK(q)'
  BY <1>1 DEF TurnOK, BeforeWrite
<1> QED
  BY <1>2 DEF SerialInv

\* A step that leaves the row and the bank alone is none of the vault's, but
\* for the one that pays.
LEMMA QuietTurn ==
    ASSUME IInv, SerialInv, OneAtATime, OneAtATime', NEW r \in Requests, NEW l,
           pc[r] # "idle" \/ l # "idle", pc' = [pc EXCEPT ![r] = l],
           cycle' = cycle, pushes' = pushes, aborts' = aborts,
           pc[r] # "withdraw_close", l # "withdraw_close", TurnOK(r)'
    PROVE  Implements
<1>1. GateAgrees'
  BY DEF SerialInv, GateAgrees
<1>2. SerialInv'
  BY <1>1, TurnTaken DEF IInv
<1>3. /\ ~ \E q \in Requests : pc[q] = "withdraw_close"
      /\ ~ \E q \in Requests : pc'[q] = "withdraw_close"
  BY OthersIdle DEF IInv
<1>4. PhaseOf(cycle.status)' = PhaseOf(cycle.status)
  BY <1>3 DEF PhaseOf
<1>5. LockOf(cycle.gate)' = LockOf(cycle.gate)
  BY DEF LockOf
<1>6. UNCHANGED Vault!vvars
  BY <1>4, <1>5 DEF Vault!vvars
<1> QED
  BY <1>2, <1>6 DEF Implements

\* A first read.
LEMMA ReadTurn ==
    ASSUME IInv, SerialInv, OneAtATime, OneAtATime', NEW r \in Requests,
           NEW l \in {"deposit_log", "status_write", "break_log", "withdraw_push"},
           pc[r] = "idle", Enter(r, l), UNCHANGED <<rows, pushes, aborts>>,
           l \in {"deposit_log", "break_log"} => cycle.status = "ACTIVE",
           l = "status_write" => EvaluateGate(cycle.days, monthEnd, cycle.gate) # cycle.gate,
           l = "withdraw_push" => cycle.gate # "LOCKED" /\ cycle.status # "WITHDRAWN"
    PROVE  Implements
<1>1. /\ pc' = [pc EXCEPT ![r] = l] /\ cycle' = cycle
      /\ pc'[r] = l /\ snap'[r] = cycle /\ lastDay'[r] = monthEnd
  BY DEF Enter, rows, IInv, TypeOK
<1>2. TurnOK(r)'
  BY <1>1 DEF TurnOK, EvaluateGate
<1> QED
  BY <1>1, <1>2, QuietTurn

LEMMA OpenCycleTurn ==
    ASSUME IInv, SerialInv, OneAtATime, OneAtATime', NEW r \in Requests, OpenCycle(r)
    PROVE  Implements
<1>1. /\ pc[r] = "idle" /\ cycle = NoCycle
      /\ cycle' = [status |-> "ACTIVE", gate |-> "LOCKED", days |-> 1,
                   total |-> Day1Fee, net |-> NoAmount]
      /\ pc' = [pc EXCEPT ![r] = "open_log"] /\ pushes' = pushes /\ aborts' = aborts
  BY DEF OpenCycle, Goto, SerialInv, GateAgrees
<1>2. FullCycleDays # 1
  BY ConstantsAssumption
<1>3. GateAgrees'
  BY <1>1, <1>2 DEF GateAgrees, NoCycle
<1>4. pc'[r] = "open_log" /\ ~ \E q \in Requests : pc'[q] = "withdraw_close"
  BY <1>1, OthersIdle DEF IInv
<1>5. TurnOK(r)'
  BY <1>4 DEF TurnOK, BeforeWrite
<1>6. SerialInv'
  BY <1>1, <1>3, <1>5, TurnTaken DEF IInv
<1>7. PhaseOf(cycle.status) = "none" /\ PhaseOf(cycle.status)' = "live"
  BY <1>1, <1>4 DEF PhaseOf, NoCycle
<1>8. LockOf(cycle.gate)' = LockOf(cycle.gate)
  BY <1>1 DEF LockOf, NoCycle
<1>9. Vault!Open
  BY <1>1, <1>7, <1>8 DEF Vault!Open
<1> QED
  BY <1>6, <1>9 DEF Implements, Vault!VNext

LEMMA DepositLogTurn ==
    ASSUME IInv, SerialInv, OneAtATime, OneAtATime', NEW r \in Requests, DepositLog(r)
    PROVE  Implements
<1>1. /\ pc[r] = "deposit_log" /\ cycle' = cycle /\ pushes' = pushes
      /\ aborts' = aborts /\ snap[r] = cycle /\ cycle.status = "ACTIVE"
  BY DEF DepositLog, SerialInv, TurnOK, BeforeWrite
<1>2. CASE Return(r)
  <2>1. pc' = [pc EXCEPT ![r] = "idle"] /\ pc'[r] = "idle"
    BY <1>2 DEF Return, IInv, TypeOK
  <2>2. TurnOK(r)'
    BY <2>1 DEF TurnOK, BeforeWrite
  <2> QED
    BY <1>1, <2>1, <2>2, QuietTurn
<1>3. CASE pc' = [pc EXCEPT ![r] = "deposit_write"] /\ snap' = snap
  <2>1. pc'[r] = "deposit_write"
    BY <1>3 DEF IInv, TypeOK
  <2>2. TurnOK(r)'
    BY <1>1, <1>3, <2>1 DEF TurnOK
  <2> QED
    BY <1>1, <1>3, <2>2, QuietTurn
<1> QED
  BY <1>2, <1>3 DEF DepositLog

\* The rest of a request that goes on without the row.
LEMMA AsideTurn ==
    ASSUME IInv, SerialInv, OneAtATime, OneAtATime', NEW r \in Requests,
           OpenDayLog(r) \/ OpenLink(r) \/ IncentiveCreate(r) \/ IncentiveSettle(r)
    PROVE  Implements
<1>1. /\ pc[r] \notin {"idle", "withdraw_close"}
      /\ cycle' = cycle /\ pushes' = pushes /\ aborts' = aborts
      /\ \E l \in {"open_link", "incentive_settle", "idle"} : pc' = [pc EXCEPT ![r] = l]
  BY DEF OpenDayLog, OpenLink, IncentiveCreate, IncentiveSettle, Goto, Return
<1>2. PICK l \in {"open_link", "incentive_settle", "idle"} : pc' = [pc EXCEPT ![r] = l]
  BY <1>1
<1>3. TurnOK(r)'
  BY <1>2 DEF TurnOK, BeforeWrite, IInv, TypeOK
<1> QED
  BY <1>1, <1>2, <1>3, QuietTurn

LEMMA BreakLogTurn ==
    ASSUME IInv, SerialInv, OneAtATime, OneAtATime', NEW r \in Requests, BreakLog(r)
    PROVE  Implements
<1>1. /\ pc[r] = "break_log" /\ cycle' = cycle /\ pushes' = pushes
      /\ aborts' = aborts /\ snap[r] = cycle /\ cycle.status = "ACTIVE"
  BY DEF BreakLog, InsertBreakRow, SerialInv, TurnOK, BeforeWrite
<1>2. CASE Return(r)
  <2>1. pc' = [pc EXCEPT ![r] = "idle"] /\ pc'[r] = "idle"
    BY <1>2 DEF Return, IInv, TypeOK
  <2>2. TurnOK(r)'
    BY <2>1 DEF TurnOK, BeforeWrite
  <2> QED
    BY <1>1, <2>1, <2>2, QuietTurn
<1>3. CASE Goto(r, "break_write")
  <2>1. pc' = [pc EXCEPT ![r] = "break_write"] /\ pc'[r] = "break_write" /\ snap' = snap
    BY <1>3 DEF Goto, IInv, TypeOK
  <2>2. TurnOK(r)'
    BY <1>1, <2>1 DEF TurnOK
  <2> QED
    BY <1>1, <2>1, <2>2, QuietTurn
<1> QED
  BY <1>2, <1>3 DEF BreakLog, InsertBreakRow

\* A deposit that is counted is one the vault takes.
LEMMA DepositWriteTurn ==
    ASSUME IInv, SerialInv, OneAtATime, OneAtATime', NEW r \in Requests, DepositWrite(r)
    PROVE  Implements
<1> DEFINE days == cycle.days + 1
           gate == EvaluateGate(days, lastDay[r], cycle.gate)
<1>1. /\ pc[r] = "deposit_write" /\ snap[r] = cycle /\ cycle.status = "ACTIVE"
      /\ pc' = [pc EXCEPT ![r] = "incentive_create"]
      /\ pushes' = pushes /\ aborts' = aborts
  BY DEF DepositWrite, Goto, SerialInv, TurnOK, BeforeWrite
<1>2. /\ cycle.gate = "LOCKED" /\ cycle.net = NoAmount /\ cycle.days < FullCycleDays
      /\ cycle \in CycleRow /\ cycle.days \in Nat /\ FullCycleDays \in Nat
  BY <1>1, ConstantsAssumption
     DEF SerialInv, GateAgrees, IInv, TypeOK, RequestOK, DepositLabels, CycleRow
<1>3. cycle' = [cycle EXCEPT !.total = cycle.total + Daily, !.days = days,
                             !.status = StatusAfterDeposit(days, gate), !.gate = gate]
  BY <1>1 DEF DepositWrite
<1>4. /\ cycle'.days = days /\ cycle'.gate = gate /\ cycle'.net = NoAmount
      /\ cycle'.status = StatusAfterDeposit(days, gate)
  BY <1>2, <1>3 DEF CycleRow
<1>5. /\ gate \in {"LOCKED", "OPEN_FULL_CYCLE", "OPEN_MONTH_END"}
      /\ gate = "OPEN_FULL_CYCLE" <=> days = FullCycleDays
  BY <1>2 DEF EvaluateGate
<1>6. /\ gate = "LOCKED" => cycle'.status = "ACTIVE"
      /\ gate # "LOCKED" => cycle'.status \in {"MATURED_FULL_CYCLE", "MATURED_MONTH_END"}
  BY <1>2, <1>4, <1>5 DEF StatusAfterDeposit
<1>7. days \in Nat
  BY <1>2
<1> HIDE DEF gate, days
<1>8. GateAgrees'
  BY <1>4, <1>5, <1>6 DEF GateAgrees
<1>9. pc'[r] = "incentive_create"
  BY <1>1 DEF IInv, TypeOK
<1>10. TurnOK(r)'
  BY <1>9 DEF TurnOK, BeforeWrite
<1>11. SerialInv'
  BY <1>1, <1>8, <1>10, TurnTaken DEF IInv
<1>12. /\ ~ \E q \in Requests : pc[q] = "withdraw_close"
       /\ ~ \E q \in Requests : pc'[q] = "withdraw_close"
  BY <1>1, OthersIdle DEF IInv
<1>13. PhaseOf(cycle.status) = "live"
  BY <1>1, <1>12 DEF PhaseOf
<1>14. PhaseOf(cycle.status)' = "live"
  BY <1>5, <1>6, <1>12 DEF PhaseOf
<1>15. LockOf(cycle.gate) = "locked"
  BY <1>2 DEF LockOf
<1>16. /\ LockOf(cycle.gate)' \in {"locked", "open"}
       /\ days = FullCycleDays => LockOf(cycle.gate)' = "open"
  BY <1>4, <1>5 DEF LockOf
<1>17. Vault!Save
  BY <1>1, <1>2, <1>4, <1>13, <1>14, <1>15, <1>16 DEF Vault!Save, days
<1> QED
  BY <1>11, <1>17 DEF Implements, Vault!VNext

\* A step that opens or breaks the vault.
LEMMA UnlockTurn ==
    ASSUME IInv, SerialInv, OneAtATime, OneAtATime', NEW r \in Requests,
           pc[r] \notin {"idle", "withdraw_close"}, pc' = [pc EXCEPT ![r] = "idle"],
           pushes' = pushes, aborts' = aborts,
           cycle.status = "ACTIVE", cycle'.status \in {"MATURED_MONTH_END", "BROKEN"},
           cycle'.gate \in {"OPEN_MONTH_END", "OPEN_EMERGENCY"},
           cycle'.days = cycle.days, GateAgrees'
    PROVE  Implements
<1>1. pc'[r] = "idle"
  BY DEF IInv, TypeOK
<1>2. TurnOK(r)'
  BY <1>1 DEF TurnOK, BeforeWrite
<1>3. SerialInv'
  BY <1>2, TurnTaken DEF IInv
<1>4. /\ ~ \E q \in Requests : pc[q] = "withdraw_close"
      /\ ~ \E q \in Requests : pc'[q] = "withdraw_close"
  BY OthersIdle DEF IInv
<1>5. PhaseOf(cycle.status) = "live" /\ PhaseOf(cycle.status)' = "live"
  BY <1>4 DEF PhaseOf
<1>6. LockOf(cycle.gate) = "locked" /\ LockOf(cycle.gate)' \in {"open", "broken"}
  BY DEF LockOf, SerialInv, GateAgrees
<1>7. Vault!UnlockOrBreak
  BY <1>5, <1>6 DEF Vault!UnlockOrBreak
<1> QED
  BY <1>3, <1>7 DEF Implements, Vault!VNext

LEMMA StatusWriteTurn ==
    ASSUME IInv, SerialInv, OneAtATime, OneAtATime', NEW r \in Requests, StatusWrite(r)
    PROVE  Implements
<1>1. /\ pc[r] = "status_write" /\ snap[r] = cycle /\ pushes' = pushes
      /\ aborts' = aborts /\ pc' = [pc EXCEPT ![r] = "idle"]
      /\ EvaluateGate(cycle.days, lastDay[r], cycle.gate) # cycle.gate
  BY DEF StatusWrite, Return, SerialInv, TurnOK, BeforeWrite
<1>2. /\ cycle.status # "NONE" /\ cycle \in CycleRow /\ cycle.days \in 0 .. FullCycleDays
      /\ FullCycleDays \in Nat
  BY <1>1, ConstantsAssumption DEF IInv, TypeOK, RequestOK, CycleRow
<1>3. EvaluateGate(cycle.days, lastDay[r], cycle.gate) = "OPEN_MONTH_END"
  BY <1>1, <1>2 DEF EvaluateGate, SerialInv, GateAgrees
<1>4. cycle.gate = "LOCKED"
  <2>1. cycle.gate # "OPEN_MONTH_END" /\ cycle.gate # "OPEN_EMERGENCY"
    BY <1>1, <1>3 DEF EvaluateGate
  <2>2. cycle.days # FullCycleDays
    BY <1>2, <1>3 DEF EvaluateGate
  <2> QED
    BY <1>2, <2>1, <2>2 DEF SerialInv, GateAgrees, CycleRow, Gates
<1>5. cycle' = [cycle EXCEPT !.gate = "OPEN_MONTH_END", !.status = "MATURED_MONTH_END"]
  BY <1>1, <1>3 DEF StatusWrite
<1>6. /\ cycle'.gate = "OPEN_MONTH_END" /\ cycle'.status = "MATURED_MONTH_END"
      /\ cycle'.days = cycle.days /\ cycle'.net = cycle.net
  BY <1>2, <1>5 DEF CycleRow
<1>7. cycle.status = "ACTIVE"
  BY <1>2, <1>4 DEF SerialInv, GateAgrees
<1>8. GateAgrees'
  BY <1>4, <1>6 DEF SerialInv, GateAgrees
<1> QED
  BY <1>1, <1>6, <1>7, <1>8, UnlockTurn

LEMMA BreakWriteTurn ==
    ASSUME IInv, SerialInv, OneAtATime, OneAtATime', NEW r \in Requests, BreakWrite(r)
    PROVE  Implements
<1>1. /\ pc[r] = "break_write" /\ snap[r] = cycle /\ cycle.status = "ACTIVE"
      /\ pushes' = pushes /\ aborts' = aborts /\ pc' = [pc EXCEPT ![r] = "idle"]
      /\ cycle' = [cycle EXCEPT !.status = "BROKEN", !.gate = "OPEN_EMERGENCY",
                                !.net = cycle.total - Penalty(cycle.total)]
  BY DEF BreakWrite, MarkBroken, BreakRowOf, Return, SerialInv, TurnOK, BeforeWrite
<1>2. /\ cycle'.gate = "OPEN_EMERGENCY" /\ cycle'.status = "BROKEN"
      /\ cycle'.days = cycle.days /\ cycle'.total = cycle.total
      /\ cycle'.net = cycle.total - Penalty(cycle.total)
  BY <1>1 DEF IInv, TypeOK, CycleRow
<1>3. cycle.gate = "LOCKED"
  BY <1>1 DEF SerialInv, GateAgrees
<1>4. GateAgrees'
  BY <1>2, <1>3 DEF SerialInv, GateAgrees
<1> QED
  BY <1>1, <1>2, <1>4, UnlockTurn

\* What the bank paid out, with one payout more.
LEMMA PaidOneMore ==
    ASSUME NEW s \in Seq(Push), NEW p \in Push
    PROVE  [i \in 1 .. Len(Append(s, p)) |-> Append(s, p)[i].amount]
               = Append([i \in 1 .. Len(s) |-> s[i].amount], p.amount)
<1> DEFINE n == Len(s)
           t == Append(s, p)
           a == [i \in 1 .. n |-> s[i].amount]
           b == [i \in 1 .. n + 1 |-> t[i].amount]
<1>1. /\ n \in Nat /\ Len(t) = n + 1 /\ t[n + 1] = p
      /\ \A i \in 1 .. n : t[i] = s[i] /\ s[i] \in Push
  OBVIOUS
<1>2. \A x \in Push : x.amount \in Nat
  BY DEF Push
<1> HIDE DEF n, t
<1>3. a \in [1 .. n -> Nat]
  BY <1>1, <1>2
<1>4. \A i \in 1 .. n + 1 : t[i].amount \in Nat
  <2> SUFFICES ASSUME NEW i \in 1 .. n + 1 PROVE t[i].amount \in Nat
    OBVIOUS
  <2>1. CASE i = n + 1
    BY <1>1, <1>2, <2>1
  <2>2. CASE i \in 1 .. n
    BY <1>1, <1>2, <2>2
  <2> QED
    BY <1>1, <2>1, <2>2
<1>5. b \in [1 .. n + 1 -> Nat]
  BY <1>4
<1>6. \A i \in 1 .. n : a[i] = s[i].amount
  OBVIOUS
<1>7. \A i \in 1 .. n + 1 : b[i] = t[i].amount
  OBVIOUS
<1> HIDE DEF a, b
<1>8. a \in Seq(Nat) /\ b \in Seq(Nat) /\ Len(a) = n /\ Len(b) = n + 1
  BY <1>1, <1>3, <1>5, SeqDef, LenProperties
<1>9. Append(a, p.amount) \in Seq(Nat) /\ Len(Append(a, p.amount)) = n + 1
  BY <1>2, <1>8
<1>10. ASSUME NEW i \in 1 .. n + 1 PROVE b[i] = Append(a, p.amount)[i]
  <2>1. n \in Nat /\ (i = n + 1 \/ i \in 1 .. n)
    BY <1>1
  <2>2. b[i] = t[i].amount
    BY <1>7
  <2>3. CASE i = n + 1
    <3>1. Append(a, p.amount)[n + 1] = p.amount
      BY <1>2, <1>8
    <3> QED
      BY <1>1, <2>2, <2>3, <3>1
  <2>4. CASE i \in 1 .. n
    <3>1. Append(a, p.amount)[i] = a[i]
      BY <1>2, <1>8, <2>4
    <3>2. t[i] = s[i] /\ a[i] = s[i].amount
      BY <1>1, <1>6, <2>4
    <3> QED
      BY <2>2, <3>1, <3>2
  <2> QED
    BY <2>1, <2>3, <2>4
<1>11. b = Append(a, p.amount)
  BY <1>8, <1>9, <1>10, SeqEqual
<1> QED
  BY <1>1, <1>11 DEF n, t, a, b

\* The money that leaves is what the vault is worth, or nothing.
LEMMA WithdrawPushTurn ==
    ASSUME IInv, SerialInv, OneAtATime, OneAtATime', NEW r \in Requests, WithdrawPush(r)
    PROVE  Implements
<1> DEFINE amount == Payout(cycle)
           p == [by |-> "savings", amount |-> amount]
<1>1. /\ pc[r] = "withdraw_push" /\ snap[r] = cycle /\ cycle.gate # "LOCKED"
      /\ cycle.status \notin {"WITHDRAWN", "NONE"}
      /\ pc' = [pc EXCEPT ![r] = "withdraw_close"] /\ snap' = snap
      /\ cycle' = cycle /\ aborts' = aborts
  BY DEF WithdrawPush, PushFunds, Goto, rows, SerialInv, GateAgrees, TurnOK, BeforeWrite
<1>2. pushes' = pushes \/ pushes' = Append(pushes, p)
  BY <1>1 DEF WithdrawPush, PushFunds
<1>3. pc'[r] = "withdraw_close"
  BY <1>1 DEF IInv, TypeOK
<1>4. GateAgrees' /\ TurnOK(r)'
  BY <1>1, <1>3 DEF SerialInv, GateAgrees, TurnOK
<1>5. SerialInv'
  BY <1>1, <1>4, TurnTaken DEF IInv
<1>6. /\ ~ \E q \in Requests : pc[q] = "withdraw_close"
      /\ \E q \in Requests : pc'[q] = "withdraw_close"
  BY <1>1, OthersIdle DEF IInv
<1>7. PhaseOf(cycle.status) = "live" /\ PhaseOf(cycle.status)' = "paying"
  BY <1>1, <1>6 DEF PhaseOf
<1>8. /\ LockOf(cycle.gate) # "locked" /\ LockOf(cycle.gate)' = LockOf(cycle.gate)
      /\ LockOf(cycle.gate) = "open" <=> cycle.gate # "OPEN_EMERGENCY"
  BY <1>1 DEF LockOf
<1>9. amount = Vault!Worth
  <2>1. cycle.total = TotalAfter(cycle.days)
    BY <1>1 DEF IInv, RowOK, RowIn
  <2>2. cycle.total = Vault!Saved
    BY <2>1 DEF TotalAfter, Vault!Saved
  <2>3. cycle.net = IF cycle.gate = "OPEN_EMERGENCY"
                    THEN cycle.total - Penalty(cycle.total) ELSE NoAmount
    BY DEF SerialInv, GateAgrees
  <2>4. cycle.total - Penalty(cycle.total) # NoAmount
    <3>1. cycle.total \in Nat
      BY DEF IInv, TypeOK, CycleRow
    <3>2. cycle.total - Penalty(cycle.total) \in Nat
      BY <3>1, PenaltyHalves
    <3> QED
      BY <3>2 DEF NoAmount
  <2>5. amount = IF cycle.gate = "OPEN_EMERGENCY"
                 THEN cycle.total - Penalty(cycle.total) ELSE cycle.total
    BY <2>3, <2>4 DEF Payout
  <2> QED
    BY <1>8, <2>2, <2>5 DEF Vault!Worth, Penalty
<1>10. pushes \in Seq(Push) /\ pushes' \in Seq(Push)
  BY NextInv DEF IInv, TypeOK, Next, Continue
<1>11. p \in Push
  <2>1. snap[r].status # "NONE" /\ Payout(snap[r]) \in Nat
    BY <1>1, PayoutBacked
  <2> QED
    BY <1>1, <2>1 DEF Push
<1> HIDE DEF amount
<1>12. ASSUME pushes' = Append(pushes, p)
       PROVE  Vault!Pay(TRUE)
  <2>1. [i \in 1 .. Len(pushes) |-> pushes[i].amount]'
            = Append([i \in 1 .. Len(pushes) |-> pushes[i].amount], amount)
    BY <1>10, <1>11, <1>12, PaidOneMore
  <2> QED
    BY <1>1, <1>7, <1>8, <1>9, <2>1 DEF Vault!Pay
<1>13. ASSUME pushes' = pushes
       PROVE  Vault!Pay(FALSE)
  BY <1>1, <1>7, <1>8, <1>13 DEF Vault!Pay
<1>14. Vault!VNext
  BY <1>2, <1>12, <1>13 DEF Vault!VNext
<1> QED
  BY <1>5, <1>14 DEF Implements

LEMMA WithdrawCloseTurn ==
    ASSUME IInv, SerialInv, OneAtATime, OneAtATime', NEW r \in Requests, WithdrawClose(r)
    PROVE  Implements
<1>1. /\ pc[r] = "withdraw_close" /\ cycle.gate # "LOCKED"
      /\ cycle.status \notin {"WITHDRAWN", "NONE"}
      /\ pc' = [pc EXCEPT ![r] = "idle"] /\ pushes' = pushes /\ aborts' = aborts
      /\ cycle' = [cycle EXCEPT !.status = "WITHDRAWN"]
  BY DEF WithdrawClose, MarkWithdrawn, Return, SerialInv, GateAgrees, TurnOK
<1>2. /\ cycle'.status = "WITHDRAWN" /\ cycle'.gate = cycle.gate
      /\ cycle'.days = cycle.days /\ cycle'.net = cycle.net
      /\ cycle'.total = cycle.total
  BY <1>1 DEF IInv, TypeOK, CycleRow
<1>3. GateAgrees'
  BY <1>1, <1>2 DEF SerialInv, GateAgrees
<1>4. pc'[r] = "idle"
  BY <1>1 DEF IInv, TypeOK
<1>5. TurnOK(r)'
  BY <1>4 DEF TurnOK, BeforeWrite
<1>6. SerialInv'
  BY <1>1, <1>3, <1>5, TurnTaken DEF IInv
<1>7. PhaseOf(cycle.status) = "paying" /\ PhaseOf(cycle.status)' = "closed"
  BY <1>1, <1>2 DEF PhaseOf
<1>8. LockOf(cycle.gate)' = LockOf(cycle.gate)
  BY <1>2 DEF LockOf
<1>9. Vault!Close
  BY <1>1, <1>2, <1>7, <1>8 DEF Vault!Close
<1> QED
  BY <1>6, <1>9 DEF Implements, Vault!VNext

\* A request that dies leaves the vault as it was, or live again when it died
\* between the payout and the close.
LEMMA AbortTurn ==
    ASSUME IInv, SerialInv, OneAtATime, OneAtATime', NEW r \in Requests, Abort(r)
    PROVE  Implements
<1>1. /\ pc[r] # "idle" /\ pc' = [pc EXCEPT ![r] = "idle"] /\ cycle' = cycle
      /\ pushes' = pushes /\ aborts' = aborts + 1
  BY DEF Abort, Return, rows
<1>2. pc'[r] = "idle"
  BY <1>1 DEF IInv, TypeOK
<1>3. GateAgrees' /\ TurnOK(r)'
  BY <1>1, <1>2 DEF SerialInv, GateAgrees, TurnOK, BeforeWrite
<1>4. SerialInv'
  BY <1>1, <1>3, TurnTaken DEF IInv
<1>5. /\ ~ \E q \in Requests : pc'[q] = "withdraw_close"
      /\ (\E q \in Requests : pc[q] = "withdraw_close") <=> pc[r] = "withdraw_close"
  BY <1>1, OthersIdle DEF IInv
<1>6. PhaseOf(cycle.status)' = IF PhaseOf(cycle.status) = "paying" THEN "live"
                               ELSE PhaseOf(cycle.status)
  BY <1>1, <1>5 DEF PhaseOf
<1>7. LockOf(cycle.gate)' = LockOf(cycle.gate)
  BY <1>1 DEF LockOf
<1>8. Vault!Die
  BY <1>1, <1>6, <1>7 DEF Vault!Die
<1> QED
  BY <1>4, <1>8 DEF Implements, Vault!VNext

LEMMA ClockTurn ==
    ASSUME SerialInv, DayTurns \/ UNCHANGED vars
    PROVE  Implements
<1>1. /\ cycle' = cycle /\ pushes' = pushes /\ aborts' = aborts
      /\ pc' = pc /\ snap' = snap /\ lastDay' = lastDay
  BY DEF DayTurns, vars, rows
<1>2. SerialInv'
  BY <1>1 DEF SerialInv, GateAgrees, TurnOK
<1>3. UNCHANGED Vault!vvars
  BY <1>1 DEF Vault!vvars, PhaseOf, LockOf
<1> QED
  BY <1>2, <1>3 DEF Implements

LEMMA NextTurn ==
    ASSUME IInv, SerialInv, OneAtATime, OneAtATime', [Next]_vars
    PROVE  Implements
<1>1. ASSUME NEW r \in Requests, Start(r) PROVE Implements
  <2>1. CASE StatusRead(r)
    BY <2>1, ReadTurn DEF StatusRead
  <2>2. CASE BreakRead(r)
    BY <2>2, ReadTurn DEF BreakRead
  <2>3. CASE WithdrawRead(r)
    BY <2>3, ReadTurn DEF WithdrawRead
  <2>4. ASSUME NEW amount \in Amounts, DepositRead(r, amount) PROVE Implements
    BY <2>4, ReadTurn DEF DepositRead
  <2> QED
    BY <1>1, <2>1, <2>2, <2>3, <2>4, OpenCycleTurn DEF Start
<1>2. ASSUME NEW r \in Requests, Continue(r) PROVE Implements
  BY <1>2, AsideTurn, DepositLogTurn, DepositWriteTurn, StatusWriteTurn, BreakLogTurn,
     BreakWriteTurn, WithdrawPushTurn, WithdrawCloseTurn DEF Continue
<1> QED
  BY <1>1, <1>2, AbortTurn, ClockTurn DEF Next

LEMMA InitTurn ==
    ASSUME Init
    PROVE  SerialInv /\ Vault!VInit
<1>1. /\ cycle = NoCycle /\ pushes = <<>> /\ aborts = 0
      /\ \A r \in Requests : pc[r] = "idle"
  BY DEF Init
<1>2. SerialInv
  <2>1. GateAgrees
    BY <1>1, ConstantsAssumption DEF GateAgrees, NoCycle
  <2> QED
    BY <1>1, <2>1 DEF SerialInv, TurnOK, BeforeWrite
<1>3. PhaseOf(cycle.status) = "none" /\ LockOf(cycle.gate) = "locked"
  BY <1>1 DEF PhaseOf, LockOf, NoCycle
<1>4. [i \in 1 .. Len(pushes) |-> pushes[i].amount] = <<>>
  BY <1>1
<1> QED
  BY <1>1, <1>2, <1>3, <1>4 DEF Vault!VInit, NoCycle

\* Whatever the number of requests, of days and of deaths: requests that take
\* turns give the customer the vault he was promised, which pays once what it
\* is worth, and again only where a request died between a payout and its end.
THEOREM TurnsKeepTheVault == Spec /\ []OneAtATime => VaultKept
<1>1. Init => SerialInv /\ Vault!VInit
  BY InitTurn
<1>2. IInv /\ SerialInv /\ OneAtATime /\ OneAtATime' /\ [Next]_vars
          => SerialInv' /\ [Vault!VNext]_(Vault!vvars)
  BY NextTurn DEF Implements
<1> QED
  BY <1>1, <1>2, SavingsInvariantHolds, PTL DEF Spec, VaultKept, Vault!VSpec

\* With one request there is no overlap: what the serial run checks, for every
\* length of the cycle and every amount.
THEOREM OneRequestKeepsTheVault ==
    ASSUME \A q, r \in Requests : q = r
    PROVE  Spec => VaultKept
<1>1. OneAtATime
  BY DEF OneAtATime
<1> QED
  BY <1>1, TurnsKeepTheVault, PTL
=============================================================================
