------------------------ MODULE SavingsCycle_proofs ------------------------
(***************************************************************************)
(* Proofs about SavingsCycle, for any number of requests, days and amounts.*)
(***************************************************************************)
EXTENDS SavingsInvariant, TLAPS

-----------------------------------------------------------------------------
(* Arithmetic of totals and penalties.                                     *)

\* The total of a cycle that has a day is a natural number, and a further
\* deposit makes it the total of the next day (openCycle, recordDeposit).
LEMMA TotalStep ==
    ASSUME NEW n \in Nat, n >= 1
    PROVE  /\ TotalAfter(n) \in Nat
           /\ TotalAfter(n) + Daily = TotalAfter(n + 1)
<1>1. Daily \in Nat /\ Day1Fee \in Nat
  BY ConstantsAssumption
<1>2. PICK k \in Nat : n = k + 1
  BY SMT
<1>3. Daily * k \in Nat
  BY <1>1, SMT
<1>4. TotalAfter(n) = Day1Fee + Daily * k
  BY <1>2 DEF TotalAfter
<1>5. TotalAfter(n + 1) = Day1Fee + (Daily * k + Daily)
  BY <1>1, <1>2, SMT DEF TotalAfter
<1> QED
  BY <1>1, <1>3, <1>4, <1>5, SMT

LEMMA FirstTotal == TotalAfter(1) = Day1Fee
  BY ConstantsAssumption, SMT DEF TotalAfter

\* Half in whole units: the penalty and what is left add up to the total,
\* and what is left is the larger by at most one (initiateBreakSafe).
LEMMA PenaltyHalves ==
    ASSUME NEW t \in Nat
    PROVE  /\ Penalty(t) \in Nat
           /\ t - Penalty(t) \in Nat
           /\ Penalty(t) + (t - Penalty(t)) = t
           /\ (t - Penalty(t)) - Penalty(t) \in {0, 1}
  BY SMT DEF Penalty

-----------------------------------------------------------------------------
(* What a copy of the row and a payout keep when the cycle moves on.       *)

LEMMA RowStable ==
    ASSUME NEW row \in CycleRow, NEW m \in Nat, NEW n \in Nat, m <= n,
           NEW log, NEW log2, log \subseteq log2, RowIn(row, m, log)
    PROVE  RowIn(row, n, log2)
  BY ConstantsAssumption, SMT DEF RowIn, CycleRow

LEMMA BackedStable ==
    ASSUME NEW amount, NEW m \in Nat, NEW n \in Nat, m <= n, Backed(amount, m)
    PROVE  Backed(amount, n)
  BY SMT DEF Backed

\* Payouts stay backed as days are only added.
LEMMA PushesStable ==
    ASSUME TypeOK, TypeOK', PushesBacked, pushes' = pushes,
           cycle.days <= cycle'.days
    PROVE  PushesBacked'
<1> SUFFICES ASSUME NEW i \in 1 .. Len(pushes)
             PROVE  Backed(pushes[i].amount, cycle'.days)
  BY DEF PushesBacked
<1>1. /\ cycle.days \in Nat /\ cycle'.days \in Nat
      /\ Backed(pushes[i].amount, cycle.days)
  BY ConstantsAssumption, SMT DEF TypeOK, CycleRow, PushesBacked
<1> QED
  BY <1>1, BackedStable

\* What a request relies on survives a step of another one: rows are only
\* added to the logs, and only the one deposit writer adds a day.
LEMMA OthersKeep ==
    ASSUME TypeOK, TypeOK', NEW q \in Requests, RequestOK(q),
           pc'[q] = pc[q], snap'[q] = snap[q],
           \/ cycle'.days = cycle.days
           \/ cycle'.days >= cycle.days /\ pc[q] # "deposit_write",
           cycle.status # "NONE" => cycle'.status # "NONE",
           dayLog \subseteq dayLog', breakLog \subseteq breakLog'
    PROVE  RequestOK(q)'
<1>1. /\ snap[q] \in CycleRow /\ cycle.days \in Nat /\ cycle'.days \in Nat
      /\ snap[q].days \in Nat /\ cycle.days <= cycle'.days
  BY ConstantsAssumption, SMT DEF TypeOK, CycleRow
<1>2. RowIn(snap[q], cycle'.days, breakLog')
  BY <1>1, RowStable DEF RequestOK, RowOK
<1>3. /\ pc'[q] \in {"open_log", "open_link"} => cycle'.status # "NONE"
      /\ pc'[q] \notin {"idle", "open_log", "open_link"} =>
             snap'[q].status # "NONE"
      /\ pc'[q] \in DepositLabels =>
             snap'[q].status = "ACTIVE" /\ snap'[q].days < FullCycleDays
      /\ pc'[q] = "status_write" => snap'[q].gate # "OPEN_EMERGENCY"
  BY DEF RequestOK
<1>4. pc'[q] = "deposit_write" =>
          snap'[q].days = cycle'.days /\ DayLogged(cycle.days + 1)'
  BY SMT DEF RequestOK, DayLogged
<1>5. pc'[q] \in {"incentive_create", "incentive_settle"} =>
          snap'[q].days < cycle'.days
  BY <1>1, SMT DEF RequestOK
<1>6. pc'[q] \in {"break_write", "bepwg_break_write"} =>
          BreakRowOf(snap'[q]) \in breakLog'
  BY DEF RequestOK
<1> QED
  BY <1>2, <1>3, <1>4, <1>5, <1>6 DEF RequestOK, RowOK, BreakRowOf

-----------------------------------------------------------------------------
(* The inductive invariant.                                                *)

LEMMA InitInv == Init => IInv
<1> SUFFICES ASSUME Init PROVE IInv
  OBVIOUS
<1> USE ConstantsAssumption
<1>1. TypeOK
  BY SMT DEF Init, TypeOK, NoCycle, CycleRow, Statuses, Gates, NoAmount, Days,
        IncentiveStatuses, Labels
<1>2. RowOK(cycle) /\ \A r \in Requests : RequestOK(r)
  BY SMT DEF Init, RowOK, RowIn, RequestOK, NoCycle, NoAmount, DepositLabels
<1>3. LedgerAgrees /\ OneDepositWriter /\ BreakLogOK
  BY SMT DEF Init, LedgerAgrees, OneDepositWriter, BreakLogOK, NoCycle
<1>4. CommissionCounted /\ PushesBacked
  BY SMT DEF Init, CommissionCounted, PushesBacked, NoCycle
<1> QED
  BY <1>1, <1>2, <1>3, <1>4 DEF IInv

-----------------------------------------------------------------------------
(* One step of one request.                                                *)

\* A step of request r that leaves the locals of the others alone preserves
\* the invariant if it does what is asked of its own part of it.
LEMMA StepInv ==
    ASSUME IInv, TypeOK', NEW r \in Requests,
           \A q \in Requests \ {r} : pc'[q] = pc[q] /\ snap'[q] = snap[q],
           RowOK(cycle)', RequestOK(r)', LedgerAgrees', BreakLogOK',
           CommissionCounted', PushesBacked',
           cycle.status # "NONE" => cycle'.status # "NONE",
           dayLog \subseteq dayLog', breakLog \subseteq breakLog',
           \/ cycle'.days = cycle.days
           \/ cycle'.days = cycle.days + 1 /\ pc[r] = "deposit_write",
           pc'[r] = "deposit_write" => ~ DayLogged(cycle.days + 1)
    PROVE  IInv'
<1>1. ASSUME NEW q \in Requests, q # r PROVE RequestOK(q)'
  <2>1. cycle'.days = cycle.days \/ pc[q] # "deposit_write"
    BY <1>1 DEF IInv, OneDepositWriter
  <2>2. cycle.days \in Nat /\ cycle'.days >= cycle.days
    BY ConstantsAssumption, SMT DEF IInv, TypeOK, CycleRow
  <2> QED
    BY <1>1, <2>1, <2>2, OthersKeep DEF IInv
<1>2. OneDepositWriter'
  <2> SUFFICES ASSUME NEW q \in Requests, NEW p \in Requests, q # p,
                      pc'[q] = "deposit_write", pc'[p] = "deposit_write"
               PROVE  FALSE
    BY DEF OneDepositWriter
  <2>1. q = r \/ p = r
    BY DEF IInv, OneDepositWriter
  <2>2. ~ DayLogged(cycle.days + 1)
    BY <2>1
  <2>3. pc[q] = "deposit_write" \/ pc[p] = "deposit_write"
    BY <2>1
  <2> QED
    BY <2>2, <2>3 DEF IInv, RequestOK
<1> QED
  BY <1>1, <1>2 DEF IInv

\* A step that writes no row and pays nothing.
LEMMA LocalInv ==
    ASSUME IInv, TypeOK', NEW r \in Requests,
           UNCHANGED <<cycle, dayLog, breakLog, incentive, pushes>>,
           \A q \in Requests \ {r} : pc'[q] = pc[q] /\ snap'[q] = snap[q],
           RequestOK(r)', pc'[r] # "deposit_write"
    PROVE  IInv'
<1>1. RowOK(cycle)' /\ LedgerAgrees' /\ BreakLogOK'
  BY DEF IInv, RowOK, RowIn, LedgerAgrees, DayLogged, BreakLogOK
<1>2. CommissionCounted' /\ PushesBacked'
  BY DEF IInv, CommissionCounted, PushesBacked
<1> QED
  BY <1>1, <1>2, StepInv

\* A first read: the request's copy is the row itself.
LEMMA EnterInv ==
    ASSUME IInv, NEW r \in Requests, NEW label \in Labels, Enter(r, label),
           UNCHANGED <<rows, monthEnd, pushes, aborts>>,
           cycle.status # "NONE",
           label \in DepositLabels =>
               label = "deposit_log" /\ cycle.days < FullCycleDays,
           label \in DepositLabels => cycle.status = "ACTIVE",
           label = "status_write" => cycle.gate # "OPEN_EMERGENCY",
           label \notin {"break_write", "bepwg_break_write"}
    PROVE  IInv'
<1> USE DEF IInv, Enter, rows
<1>1. TypeOK'
  BY SMT DEF TypeOK
<1>2. pc'[r] = label /\ snap'[r] = cycle
  BY DEF TypeOK
<1>3. RequestOK(r)'
  BY <1>2, SMT DEF RequestOK, RowOK, RowIn, DepositLabels
<1>4. \A q \in Requests \ {r} : pc'[q] = pc[q] /\ snap'[q] = snap[q]
  BY DEF TypeOK
<1>5. label # "deposit_write"
  BY DEF DepositLabels
<1> QED
  BY <1>1, <1>2, <1>3, <1>4, <1>5, LocalInv

\* A request that has returned asks nothing.
LEMMA IdleOK ==
    ASSUME TypeOK', NEW r \in Requests, pc'[r] = "idle", snap'[r] = NoCycle
    PROVE  RequestOK(r)'
<1>1. RowOK(NoCycle)'
  BY ConstantsAssumption, SMT DEF TypeOK, CycleRow, RowOK, RowIn, NoCycle, NoAmount
<1> QED
  BY <1>1, SMT DEF RequestOK, DepositLabels

\* A request that returns, refused, finished or dead, writing nothing.
LEMMA ReturnInv ==
    ASSUME IInv, NEW r \in Requests, Return(r),
           UNCHANGED <<cycle, dayLog, breakLog, incentive, monthEnd, pushes>>,
           trusted' \subseteq Agents, aborts' \in Nat
    PROVE  IInv'
<1> USE ConstantsAssumption DEF IInv, Return
<1>0. NoCycle \in CycleRow
  BY SMT DEF NoCycle, CycleRow, Statuses, Gates, NoAmount
<1>1. TypeOK'
  BY <1>0, SMT DEF TypeOK, Labels
<1>2. pc'[r] = "idle" /\ snap'[r] = NoCycle
  BY DEF TypeOK
<1>3. RequestOK(r)'
  BY <1>1, <1>2, IdleOK
<1>4. \A q \in Requests \ {r} : pc'[q] = pc[q] /\ snap'[q] = snap[q]
  BY DEF TypeOK
<1> QED
  BY <1>1, <1>2, <1>3, <1>4, LocalInv

\* openCycle's first write.
LEMMA OpenCycleInv ==
    ASSUME IInv, NEW r \in Requests, OpenCycle(r)
    PROVE  IInv'
<1> USE ConstantsAssumption DEF IInv, OpenCycle, Goto
<1>0. cycle.days = 0
  BY SMT DEF RowOK, RowIn
<1>1. TypeOK'
  BY SMT DEF TypeOK, CycleRow, Statuses, Gates, NoAmount, Labels
<1>2. RowOK(cycle)'
  BY FirstTotal, SMT DEF RowOK, RowIn, NoAmount
<1>3. ASSUME NEW q \in Requests PROVE RequestOK(q)'
  <2>1. snap[q].status = "NONE" /\ pc[q] \in {"idle", "open_log", "open_link"}
    BY <1>0, SMT DEF TypeOK, CycleRow, RequestOK, RowOK, RowIn
  <2>2. /\ snap[q] \in CycleRow /\ cycle.days \in Nat /\ cycle'.days = 1
        /\ RowIn(snap[q], cycle.days, breakLog)
    BY <1>0 DEF TypeOK, RequestOK, RowOK
  <2>3. RowIn(snap[q], cycle'.days, breakLog')
    BY <1>0, <2>2, RowStable
  <2> QED
    BY <2>1, <2>3, SMT DEF TypeOK, RequestOK, RowOK, DepositLabels
<1>4. LedgerAgrees'
  BY <1>0, FirstTotal, SMT DEF TypeOK, DayRow, Days, LedgerAgrees, DayLogged
<1>5. OneDepositWriter'
  BY SMT DEF TypeOK, OneDepositWriter
<1>6. BreakLogOK'
  BY <1>0, SMT DEF TypeOK, CycleRow, BreakLogOK
<1>7. CommissionCounted'
  BY <1>0, SMT DEF TypeOK, CommissionCounted, Days
<1>8. PushesBacked'
  BY <1>0, <1>1, PushesStable
<1> QED
  BY <1>1, <1>2, <1>3, <1>4, <1>5, <1>6, <1>7, <1>8

LEMMA OpenDayLogInv ==
    ASSUME IInv, NEW r \in Requests, OpenDayLog(r)
    PROVE  IInv'
<1> USE ConstantsAssumption DEF IInv, OpenDayLog, Goto
<1>1. TypeOK'
  BY SMT DEF TypeOK, DayRow, Days, Labels
<1>2. cycle.days >= 1 /\ cycle.days \in Nat
  BY SMT DEF TypeOK, CycleRow, RequestOK, RowOK, RowIn
<1>3. LedgerAgrees'
  BY <1>2, SMT DEF LedgerAgrees, DayLogged
<1>4. pc'[r] = "open_link" /\ snap'[r] = snap[r]
  BY DEF TypeOK
<1>5. RequestOK(r)'
  BY <1>4, SMT DEF RequestOK, RowOK, RowIn, DepositLabels
<1>6. RowOK(cycle)' /\ BreakLogOK' /\ CommissionCounted' /\ PushesBacked'
  BY DEF RowOK, RowIn, BreakLogOK, CommissionCounted, PushesBacked
<1>7. \A q \in Requests \ {r} : pc'[q] = pc[q] /\ snap'[q] = snap[q]
  BY DEF TypeOK
<1> QED
  BY <1>1, <1>3, <1>4, <1>5, <1>6, <1>7, StepInv

LEMMA OpenLinkInv ==
    ASSUME IInv, NEW r \in Requests, OpenLink(r)
    PROVE  IInv'
<1>1. trusted' \subseteq Agents /\ aborts' \in Nat
  BY ConstantsAssumption DEF OpenLink, IInv, TypeOK
<1> QED
  BY <1>1, ReturnInv DEF OpenLink

\* The insert takes the lock: the day was free, so the copy is up to date.
LEMMA DepositLogInv ==
    ASSUME IInv, NEW r \in Requests, DepositLog(r)
    PROVE  IInv'
<1> USE ConstantsAssumption
<1>1. CASE DayLogged(snap[r].days + 1)
  BY <1>1, ReturnInv DEF DepositLog, IInv, TypeOK
<1>2. CASE ~ DayLogged(snap[r].days + 1)
  <2> USE DEF IInv
  <2>0. /\ dayLog' = dayLog \cup {[day |-> snap[r].days + 1, amount |-> Daily]}
        /\ pc' = [pc EXCEPT ![r] = "deposit_write"]
        /\ lastDay' = [lastDay EXCEPT ![r] = monthEnd]
        /\ UNCHANGED <<snap, cycle, breakLog, incentive, trusted, monthEnd,
                       pushes, aborts>>
        /\ pc[r] = "deposit_log"
    BY <1>2 DEF DepositLog
  <2>1. /\ snap[r].days \in Nat /\ cycle.days \in Nat
        /\ snap[r].days < FullCycleDays
        /\ snap[r].days >= 1 /\ snap[r].days <= cycle.days
    BY <2>0, SMT DEF TypeOK, CycleRow, RequestOK, RowOK, RowIn, DepositLabels
  <2>2. snap[r].days = cycle.days
    BY <1>2, <2>1, SMT DEF LedgerAgrees
  <2>3. TypeOK'
    BY <2>0, <2>1, SMT DEF TypeOK, DayRow, Days, Labels
  <2>4. LedgerAgrees'
    BY <2>0, <2>1, <2>2, SMT DEF LedgerAgrees, DayLogged
  <2>5. pc'[r] = "deposit_write" /\ snap'[r] = snap[r]
    BY <2>0 DEF TypeOK
  <2>6. DayLogged(cycle.days + 1)'
    <3> DEFINE e == [day |-> snap[r].days + 1, amount |-> Daily]
    <3>1. e \in dayLog' /\ e.day = snap[r].days + 1
      BY <2>0
    <3>2. snap[r].days + 1 = cycle'.days + 1
      BY <2>0, <2>2
    <3> QED
      BY <3>1, <3>2 DEF DayLogged
  <2>7. RequestOK(r)'
    BY <2>0, <2>1, <2>2, <2>5, <2>6, SMT
       DEF RequestOK, RowOK, RowIn, DepositLabels
  <2>8. RowOK(cycle)' /\ BreakLogOK' /\ CommissionCounted' /\ PushesBacked'
    BY <2>0 DEF RowOK, RowIn, BreakLogOK, CommissionCounted, PushesBacked
  <2>9. \A q \in Requests \ {r} : pc'[q] = pc[q] /\ snap'[q] = snap[q]
    BY <2>0 DEF TypeOK
  <2>10. ~ DayLogged(cycle.days + 1)
    BY <1>2, <2>2
  <2> QED
    BY <2>0, <2>3, <2>4, <2>5, <2>7, <2>8, <2>9, <2>10, StepInv
<1> QED
  BY <1>1, <1>2

\* The update releases it: the day is counted, with the total it makes.
LEMMA DepositWriteInv ==
    ASSUME IInv, NEW r \in Requests, DepositWrite(r)
    PROVE  IInv'
<1> DEFINE gate == EvaluateGate(snap[r].days + 1, lastDay[r], snap[r].gate)
<1> USE ConstantsAssumption DEF IInv
<1>1. /\ snap[r] \in CycleRow /\ cycle \in CycleRow
      /\ snap[r].days = cycle.days /\ cycle.days \in Nat
      /\ cycle.days >= 1 /\ cycle.days < FullCycleDays
      /\ DayLogged(cycle.days + 1)
      /\ RowIn(snap[r], cycle.days, breakLog)
  BY SMT DEF DepositWrite, TypeOK, CycleRow, RequestOK, RowOK, RowIn,
     DepositLabels
<1>2. /\ snap[r].total = TotalAfter(cycle.days)
      /\ cycle.total = TotalAfter(cycle.days)
      /\ TotalAfter(cycle.days) + Daily = TotalAfter(cycle.days + 1)
      /\ TotalAfter(cycle.days + 1) \in Nat
  BY <1>1, TotalStep, SMT DEF RowIn, RowOK, LedgerAgrees
<1>3. /\ cycle' \in CycleRow
      /\ cycle'.days = cycle.days + 1
      /\ cycle'.total = TotalAfter(cycle.days + 1)
      /\ cycle'.status = StatusAfterDeposit(cycle.days + 1, gate)
      /\ cycle'.gate = gate
      /\ cycle'.net = cycle.net
  <2> DEFINE status == StatusAfterDeposit(snap[r].days + 1, gate)
             total == snap[r].total + Daily
  <2>1. gate \in Gates /\ status \in Statuses
    BY <1>1, SMT DEF CycleRow, EvaluateGate, StatusAfterDeposit, Gates, Statuses
  <2>2. cycle' = [cycle EXCEPT !.total = total, !.days = snap[r].days + 1,
                               !.status = status, !.gate = gate]
    BY DEF DepositWrite
  <2>3. total = TotalAfter(cycle.days + 1) /\ total \in Nat
    BY <1>2
  <2>4. status = StatusAfterDeposit(cycle.days + 1, gate)
    BY <1>1
  <2>5. snap[r].days + 1 = cycle.days + 1 /\ cycle.days + 1 \in 0 .. FullCycleDays
    BY <1>1, SMT
  <2> HIDE DEF gate, status, total
  <2>6. cycle' \in CycleRow
    <3> SUFFICES ASSUME NEW d \in 0 .. FullCycleDays, NEW t \in Nat,
                        NEW s \in Statuses, NEW g \in Gates, NEW c \in CycleRow
                 PROVE  [c EXCEPT !.total = t, !.days = d, !.status = s,
                                  !.gate = g] \in CycleRow
      BY <1>1, <2>1, <2>2, <2>3, <2>5
    <3> QED
      BY Zenon DEF CycleRow
  <2>7. /\ cycle'.days = cycle.days + 1 /\ cycle'.total = total
        /\ cycle'.status = status /\ cycle'.gate = gate
        /\ cycle'.net = cycle.net
    BY <1>1, <2>2, <2>5, SMT DEF CycleRow
  <2> QED
    BY <2>3, <2>4, <2>6, <2>7
<1>4. TypeOK'
  BY <1>3, SMT DEF DepositWrite, Goto, TypeOK, Labels
<1>5. /\ gate = "OPEN_FULL_CYCLE" => cycle'.days = FullCycleDays
      /\ gate = "OPEN_EMERGENCY" => snap[r].gate = "OPEN_EMERGENCY"
      /\ cycle'.status = "MATURED_FULL_CYCLE" => cycle'.days = FullCycleDays
      /\ cycle'.status # "NONE"
  BY <1>1, <1>3, SMT DEF EvaluateGate, StatusAfterDeposit, RowIn
<1>6. cycle'.net # NoAmount => \E b \in breakLog' : cycle'.net = b.net
  BY <1>3 DEF DepositWrite, RowOK, RowIn
<1>7. gate # "OPEN_EMERGENCY"
  BY SMT DEF DepositWrite, RequestOK, RowOK, RowIn, DepositLabels, EvaluateGate
<1>8. RowOK(cycle)'
  BY <1>1, <1>3, <1>5, <1>6, <1>7, SMT DEF RowOK, RowIn
<1>9. pc'[r] = "incentive_create" /\ snap'[r] = snap[r]
  BY DEF DepositWrite, Goto, TypeOK
<1>10. RequestOK(r)'
  <2>1. RowIn(snap[r], cycle'.days, breakLog')
    BY <1>1, <1>3, RowStable DEF DepositWrite
  <2> QED
    BY <1>1, <1>3, <1>9, <2>1, SMT
       DEF DepositWrite, RequestOK, RowOK, DepositLabels
<1>11. LedgerAgrees'
  <2>1. dayLog' = dayLog
    BY DEF DepositWrite
  <2>2. \A d \in 2 .. cycle'.days : DayLogged(d)'
    BY <1>1, <1>3, <2>1, SMT DEF LedgerAgrees, DayLogged
  <2>3. \A e \in dayLog : e.day \in Nat
    BY SMT DEF TypeOK, DayRow, Days
  <2>4. \A e \in dayLog' : e.day <= cycle'.days + 1
    BY <1>1, <1>3, <2>1, <2>3, SMT DEF LedgerAgrees
  <2> QED
    BY <1>2, <1>3, <2>1, <2>2, <2>4 DEF LedgerAgrees
<1>12. BreakLogOK'
  BY <1>1, <1>3, SMT DEF DepositWrite, BreakLogOK, TypeOK, BreakRow
<1>13. CommissionCounted'
  BY <1>1, <1>3, SMT DEF DepositWrite, CommissionCounted, Days
<1>14. PushesBacked'
  BY <1>1, <1>3, <1>4, PushesStable DEF DepositWrite
<1>15. \A q \in Requests \ {r} : pc'[q] = pc[q] /\ snap'[q] = snap[q]
  BY DEF DepositWrite, Goto, TypeOK
<1> QED
  BY <1>3, <1>4, <1>5, <1>8, <1>9, <1>10, <1>11, <1>12, <1>13, <1>14, <1>15,
     StepInv DEF DepositWrite

\* The incentive rows are those of the day this request counted.
LEMMA IncentiveInv ==
    ASSUME IInv, NEW r \in Requests, IncentiveCreate(r) \/ IncentiveSettle(r)
    PROVE  IInv'
<1> USE ConstantsAssumption DEF IInv
<1>1. /\ snap[r].days \in Nat /\ cycle.days \in 0 .. FullCycleDays
      /\ snap[r].days >= 1 /\ snap[r].days < cycle.days
  BY SMT DEF IncentiveCreate, IncentiveSettle, TypeOK, CycleRow, RequestOK,
     RowOK, RowIn
<1>2. /\ UNCHANGED <<cycle, dayLog, breakLog, trusted, monthEnd, pushes, aborts>>
      /\ \E s \in IncentiveStatuses :
             incentive' = [incentive EXCEPT ![snap[r].days + 1] = s]
  BY DEF IncentiveCreate, IncentiveSettle, IncentiveStatuses
<1>3. CommissionCounted'
  BY <1>1, <1>2, SMT DEF CommissionCounted, TypeOK, Days
<1>4. RowOK(cycle)' /\ LedgerAgrees' /\ BreakLogOK' /\ PushesBacked'
  BY <1>2 DEF RowOK, RowIn, LedgerAgrees, DayLogged, BreakLogOK, PushesBacked
<1>5. incentive' \in [Days -> IncentiveStatuses]
  BY <1>2 DEF TypeOK
<1>6. CASE IncentiveCreate(r)
  <2>1. pc' = [pc EXCEPT ![r] = "incentive_settle"] /\ UNCHANGED <<snap, lastDay>>
    BY <1>6 DEF IncentiveCreate, Goto
  <2>2. TypeOK'
    BY <1>2, <1>5, <2>1, SMT DEF TypeOK, Labels
  <2>3. pc'[r] = "incentive_settle" /\ pc[r] = "incentive_create" /\ snap'[r] = snap[r]
    BY <1>6, <2>1 DEF TypeOK, IncentiveCreate
  <2>4. RequestOK(r)'
    BY <1>1, <1>2, <2>3, SMT DEF RequestOK, RowOK, RowIn, DepositLabels
  <2>5. \A q \in Requests \ {r} : pc'[q] = pc[q] /\ snap'[q] = snap[q]
    BY <2>1 DEF TypeOK
  <2> QED
    BY <1>2, <1>3, <1>4, <2>2, <2>3, <2>4, <2>5, StepInv
<1>7. CASE IncentiveSettle(r)
  <2>0. NoCycle \in CycleRow
    BY SMT DEF NoCycle, CycleRow, Statuses, Gates, NoAmount
  <2>1. /\ pc' = [pc EXCEPT ![r] = "idle"] /\ snap' = [snap EXCEPT ![r] = NoCycle]
        /\ lastDay' = [lastDay EXCEPT ![r] = FALSE]
    BY <1>7 DEF IncentiveSettle, Return
  <2>2. TypeOK'
    BY <1>2, <1>5, <2>0, <2>1, SMT DEF TypeOK, Labels
  <2>3. pc'[r] = "idle" /\ snap'[r] = NoCycle
    BY <2>1 DEF TypeOK
  <2>4. RequestOK(r)'
    BY <2>2, <2>3, IdleOK
  <2>5. \A q \in Requests \ {r} : pc'[q] = pc[q] /\ snap'[q] = snap[q]
    BY <2>1 DEF TypeOK
  <2> QED
    BY <1>2, <1>3, <1>4, <2>2, <2>3, <2>4, <2>5, StepInv
<1> QED
  BY <1>6, <1>7 DEF IncentiveCreate, IncentiveSettle

-----------------------------------------------------------------------------
(* Steps both services make.                                               *)

\* An update of the row that keeps its days and its total.
LEMMA UpdateInv ==
    ASSUME IInv, TypeOK', NEW r \in Requests,
           UNCHANGED <<dayLog, breakLog, incentive, pushes>>,
           cycle.status # "NONE", cycle'.status # "NONE",
           cycle'.days = cycle.days, cycle'.total = cycle.total,
           RowOK(cycle)', RequestOK(r)', pc'[r] # "deposit_write",
           \A q \in Requests \ {r} : pc'[q] = pc[q] /\ snap'[q] = snap[q]
    PROVE  IInv'
<1>1. LedgerAgrees'
  BY DEF IInv, LedgerAgrees, DayLogged
<1>2. BreakLogOK' /\ CommissionCounted' /\ PushesBacked'
  BY DEF IInv, BreakLogOK, CommissionCounted, PushesBacked
<1> QED
  BY <1>1, <1>2, StepInv

\* Where a request goes when it does not start a deposit or a break write.
LEMMA MoveOK ==
    ASSUME IInv, TypeOK', NEW r \in Requests, NEW label \in Labels,
           pc[r] \notin {"idle", "open_log", "open_link"},
           label \notin {"open_log", "open_link", "status_write", "break_write",
                         "bepwg_break_write"},
           label \notin DepositLabels,
           \/ pc'[r] = label /\ snap'[r] = snap[r]
           \/ pc'[r] = "idle" /\ snap'[r] = NoCycle,
           cycle'.days = cycle.days, breakLog \subseteq breakLog'
    PROVE  RequestOK(r)' /\ pc'[r] # "deposit_write"
<1>1. CASE pc'[r] = "idle" /\ snap'[r] = NoCycle
  BY <1>1, IdleOK
<1>2. CASE pc'[r] = label /\ snap'[r] = snap[r]
  <2>1. /\ snap[r] \in CycleRow /\ cycle.days \in Nat
        /\ RowIn(snap[r], cycle.days, breakLog) /\ snap[r].status # "NONE"
    BY ConstantsAssumption, SMT DEF IInv, TypeOK, CycleRow, RequestOK, RowOK
  <2>2. RowIn(snap[r], cycle'.days, breakLog')
    BY <2>1, RowStable
  <2> QED
    BY <1>2, <2>1, <2>2, SMT DEF RequestOK, RowOK, DepositLabels
<1> QED
  BY <1>1, <1>2

\* The locals after a Goto or a Return of request r.
LEMMA LocalsMove ==
    ASSUME TypeOK, NEW r \in Requests, NEW label \in Labels,
           Goto(r, label) \/ Return(r)
    PROVE  /\ pc' \in [Requests -> Labels]
           /\ snap' \in [Requests -> CycleRow]
           /\ lastDay' \in [Requests -> BOOLEAN]
           /\ \/ pc'[r] = label /\ snap'[r] = snap[r]
              \/ pc'[r] = "idle" /\ snap'[r] = NoCycle
           /\ \A q \in Requests \ {r} : pc'[q] = pc[q] /\ snap'[q] = snap[q]
<1>1. NoCycle \in CycleRow /\ "idle" \in Labels
  BY ConstantsAssumption, SMT
     DEF NoCycle, CycleRow, Statuses, Gates, NoAmount, Labels
<1>2. CASE Goto(r, label)
  BY <1>2 DEF TypeOK, Goto
<1>3. CASE Return(r)
  BY <1>1, <1>3, SMT DEF TypeOK, Return
<1> QED
  BY <1>2, <1>3

LEMMA StatusWriteInv ==
    ASSUME IInv, NEW r \in Requests, StatusWrite(r)
    PROVE  IInv'
<1> DEFINE gate == EvaluateGate(snap[r].days, lastDay[r], snap[r].gate)
           status == IF gate = "OPEN_MONTH_END"
                     THEN "MATURED_MONTH_END" ELSE snap[r].status
<1> USE ConstantsAssumption DEF IInv
<1>1. /\ snap[r] \in CycleRow /\ cycle \in CycleRow
      /\ RowIn(snap[r], cycle.days, breakLog)
      /\ RowIn(cycle, cycle.days, breakLog)
      /\ snap[r].status # "NONE" /\ snap[r].gate # "OPEN_EMERGENCY"
  BY SMT DEF StatusWrite, TypeOK, RequestOK, RowOK
<1>2. /\ gate \in Gates /\ gate # "OPEN_EMERGENCY"
      /\ status \in Statuses /\ status # "NONE"
      /\ gate = "OPEN_FULL_CYCLE" => snap[r].days = FullCycleDays
      /\ status = "MATURED_FULL_CYCLE" => snap[r].days = FullCycleDays
  BY <1>1, SMT DEF CycleRow, EvaluateGate, Gates, Statuses, RowIn
<1>3. cycle' = [cycle EXCEPT !.gate = gate, !.status = status]
  BY DEF StatusWrite
<1> HIDE DEF gate, status
<1>4. /\ cycle' \in CycleRow
      /\ cycle'.gate = gate /\ cycle'.status = status
      /\ cycle'.days = cycle.days /\ cycle'.total = cycle.total
      /\ cycle'.net = cycle.net
  BY <1>1, <1>2, <1>3, Zenon DEF CycleRow
<1>5. /\ "idle" \in Labels
      /\ UNCHANGED <<dayLog, breakLog, incentive, trusted, monthEnd, pushes, aborts>>
      /\ pc[r] = "status_write"
  BY DEF StatusWrite, Labels
<1>6. /\ pc' \in [Requests -> Labels] /\ snap' \in [Requests -> CycleRow]
      /\ lastDay' \in [Requests -> BOOLEAN]
      /\ pc'[r] = "idle" /\ snap'[r] = NoCycle
      /\ \A q \in Requests \ {r} : pc'[q] = pc[q] /\ snap'[q] = snap[q]
  <2>1. Return(r)
    BY DEF StatusWrite
  <2>2. pc'[r] = "idle" /\ snap'[r] = NoCycle
    BY <2>1 DEF Return, TypeOK
  <2> QED
    BY <1>5, <2>1, <2>2, LocalsMove
<1>7. TypeOK'
  BY <1>4, <1>5, <1>6 DEF TypeOK
<1>8. RowOK(cycle)'
  <2>1. snap[r].days = FullCycleDays => cycle.days = FullCycleDays
    BY <1>1, SMT DEF RowIn, CycleRow
  <2>2. cycle.status # "NONE" /\ cycle.days # 0
    BY <1>1, SMT DEF RowIn, CycleRow
  <2> QED
    BY <1>1, <1>2, <1>4, <1>5, <2>1, <2>2, SMT DEF RowOK, RowIn
<1>9. cycle.status # "NONE"
  BY <1>1, SMT DEF RowIn, CycleRow
<1> QED
  BY <1>2, <1>4, <1>5, <1>6, <1>7, <1>8, <1>9, IdleOK, UpdateInv

\* The break row of a request's copy: the day it saw, its total, split.
LEMMA BreakRowSplit ==
    ASSUME NEW row \in CycleRow, row.status # "NONE",
           NEW days \in 0 .. FullCycleDays, NEW log, RowIn(row, days, log)
    PROVE  /\ BreakRowOf(row) \in BreakRow
           /\ BreakRowOf(row).days \in 1 .. days
           /\ BreakRowOf(row).total = TotalAfter(BreakRowOf(row).days)
           /\ BreakRowOf(row).penalty = Penalty(BreakRowOf(row).total)
           /\ BreakRowOf(row).net =
                  BreakRowOf(row).total - Penalty(BreakRowOf(row).total)
<1>1. /\ row.total \in Nat /\ row.days \in 1 .. days
      /\ row.days \in 0 .. FullCycleDays
      /\ row.total = TotalAfter(row.days)
  BY ConstantsAssumption, SMT DEF CycleRow, RowIn
<1>2. Penalty(row.total) \in Nat /\ row.total - Penalty(row.total) \in Nat
  BY <1>1, PenaltyHalves
<1> HIDE DEF Penalty
<1> QED
  BY <1>1, <1>2 DEF BreakRowOf, BreakRow

\* The insert of the break row, by a break-safe or an early withdrawal.
LEMMA InsertBreakRowInv ==
    ASSUME IInv, NEW r \in Requests, NEW next \in {"break_write", "bepwg_break_write"},
           pc[r] \in {"break_log", "bepwg_break_log"},
           InsertBreakRow(r, next)
    PROVE  IInv'
<1> USE ConstantsAssumption
<1>1. CASE BreakLogged /\ Return(r)
  BY <1>1, ReturnInv DEF InsertBreakRow, IInv, TypeOK, BreakLogged
<1>2. CASE ~ BreakLogged /\ Goto(r, next)
  <2> USE DEF IInv
  <2>0. /\ breakLog = {} /\ breakLog' = {BreakRowOf(snap[r])}
        /\ next \in Labels
        /\ UNCHANGED <<cycle, dayLog, incentive, trusted, monthEnd, pushes,
                       aborts>>
    BY <1>2 DEF InsertBreakRow, BreakLogged, Labels
  <2>1. /\ snap[r] \in CycleRow /\ snap[r].status # "NONE"
        /\ cycle.days \in 0 .. FullCycleDays /\ RowIn(snap[r], cycle.days, breakLog)
    <3>1. snap[r] \in CycleRow /\ cycle.days \in 0 .. FullCycleDays
      BY DEF TypeOK, CycleRow
    <3> QED
      BY <3>1 DEF RequestOK, RowOK
  <2>2. /\ pc' \in [Requests -> Labels] /\ snap' \in [Requests -> CycleRow]
        /\ lastDay' \in [Requests -> BOOLEAN]
        /\ pc'[r] = next /\ snap'[r] = snap[r]
        /\ \A q \in Requests \ {r} : pc'[q] = pc[q] /\ snap'[q] = snap[q]
    BY <1>2, <2>0 DEF Goto, TypeOK
  <2>3. /\ BreakRowOf(snap[r]) \in BreakRow
        /\ BreakRowOf(snap[r]).days \in 1 .. cycle.days
        /\ BreakRowOf(snap[r]).total = TotalAfter(BreakRowOf(snap[r]).days)
        /\ BreakRowOf(snap[r]).penalty = Penalty(BreakRowOf(snap[r]).total)
        /\ BreakRowOf(snap[r]).net =
               BreakRowOf(snap[r]).total - Penalty(BreakRowOf(snap[r]).total)
    BY <2>1, BreakRowSplit
  <2>4. TypeOK'
    BY <2>0, <2>2, <2>3 DEF TypeOK
  <2>5. RowOK(cycle)'
    BY <2>0 DEF RowOK, RowIn
  <2>6. RequestOK(r)'
    <3>1. RowIn(snap[r], cycle.days, breakLog')
      BY <2>0, <2>1 DEF RowIn
    <3> QED
      BY <2>0, <2>1, <2>2, <3>1, SMT DEF RequestOK, RowOK, DepositLabels
  <2>7. BreakLogOK'
    BY <2>0, <2>3 DEF BreakLogOK
  <2>8. LedgerAgrees' /\ CommissionCounted' /\ PushesBacked'
    BY <2>0 DEF LedgerAgrees, DayLogged, CommissionCounted, PushesBacked
  <2>9. next # "deposit_write"
    OBVIOUS
  <2> QED
    BY <2>0, <2>2, <2>4, <2>5, <2>6, <2>7, <2>8, <2>9, StepInv
<1> QED
  BY <1>1, <1>2 DEF InsertBreakRow

\* The update that follows it.
LEMMA MarkBrokenInv ==
    ASSUME IInv, NEW r \in Requests,
           pc[r] \in {"break_write", "bepwg_break_write"},
           MarkBroken(r), Goto(r, "bepwg_push") \/ Return(r)
    PROVE  IInv'
<1> USE ConstantsAssumption DEF IInv
<1>1. /\ snap[r] \in CycleRow /\ cycle \in CycleRow
      /\ RowIn(cycle, cycle.days, breakLog)
      /\ BreakRowOf(snap[r]) \in breakLog
      /\ BreakRowOf(snap[r]).net \in Nat
      /\ cycle.status # "NONE"
  <2>1. snap[r] \in CycleRow /\ cycle \in CycleRow /\ BreakRowOf(snap[r]) \in BreakRow
    BY DEF TypeOK, RequestOK
  <2>2. snap[r].days # 0 /\ snap[r].days <= cycle.days
    BY SMT DEF RequestOK, RowOK, RowIn
  <2>3. cycle.days # 0
    BY <2>1, <2>2, SMT DEF CycleRow
  <2> QED
    BY <2>1, <2>3 DEF RequestOK, RowOK, RowIn, BreakRow
<1>2. cycle' = [cycle EXCEPT !.status = "BROKEN", !.gate = "OPEN_EMERGENCY",
                             !.net = BreakRowOf(snap[r]).net]
  BY DEF MarkBroken
<1>3. /\ cycle' \in CycleRow
      /\ cycle'.gate = "OPEN_EMERGENCY" /\ cycle'.status = "BROKEN"
      /\ cycle'.days = cycle.days /\ cycle'.total = cycle.total
      /\ cycle'.net = BreakRowOf(snap[r]).net
  <2>1. /\ "BROKEN" \in Statuses /\ "OPEN_EMERGENCY" \in Gates
        /\ BreakRowOf(snap[r]).net \in Nat \cup {NoAmount}
    BY <1>1 DEF Statuses, Gates
  <2> QED
    BY <1>1, <1>2, <2>1, Zenon DEF CycleRow
<1>4. /\ "bepwg_push" \in Labels
      /\ UNCHANGED <<dayLog, breakLog, incentive, trusted, monthEnd, pushes, aborts>>
  BY DEF MarkBroken, Labels
<1>5. /\ pc' \in [Requests -> Labels] /\ snap' \in [Requests -> CycleRow]
      /\ lastDay' \in [Requests -> BOOLEAN]
      /\ \/ pc'[r] = "bepwg_push" /\ snap'[r] = snap[r]
         \/ pc'[r] = "idle" /\ snap'[r] = NoCycle
      /\ \A q \in Requests \ {r} : pc'[q] = pc[q] /\ snap'[q] = snap[q]
  BY <1>4, LocalsMove
<1>6. TypeOK'
  BY <1>3, <1>4, <1>5 DEF TypeOK
<1>7. RowOK(cycle)'
  <2>1. cycle'.net # NoAmount
    BY <1>1, <1>3, SMT DEF NoAmount
  <2>2. cycle.days # 0 /\ cycle.days <= cycle.days
    BY <1>1 DEF RowIn
  <2> QED
    BY <1>1, <1>3, <1>4, <2>1, <2>2 DEF RowOK, RowIn
<1>8. RequestOK(r)' /\ pc'[r] # "deposit_write"
  <2>1. "bepwg_push" \notin DepositLabels
    BY DEF DepositLabels
  <2> QED
    BY <1>3, <1>4, <1>5, <1>6, <2>1, MoveOK
<1>9. cycle'.status # "NONE"
  BY <1>3
<1> QED
  BY <1>1, <1>3, <1>4, <1>5, <1>6, <1>7, <1>8, <1>9, UpdateInv

\* The bank call: a payout backed by a day the cycle reached.
LEMMA PushFundsInv ==
    ASSUME IInv, NEW r \in Requests, NEW by \in {"savings", "bepwg"},
           NEW amount \in Nat, Backed(amount, cycle.days),
           pc[r] \notin {"idle", "open_log", "open_link"},
           NEW next \in {"withdraw_close", "bepwg_close"},
           PushFunds(r, by, amount, next)
    PROVE  IInv'
<1> USE ConstantsAssumption DEF IInv
<1>1. /\ next \in Labels /\ next \notin DepositLabels
      /\ UNCHANGED <<cycle, dayLog, breakLog, incentive, trusted, monthEnd, aborts>>
      /\ Goto(r, next)
  BY DEF PushFunds, rows, Labels, DepositLabels
<1>2. /\ pc' \in [Requests -> Labels] /\ snap' \in [Requests -> CycleRow]
      /\ lastDay' \in [Requests -> BOOLEAN]
      /\ pc'[r] = next /\ snap'[r] = snap[r]
      /\ \A q \in Requests \ {r} : pc'[q] = pc[q] /\ snap'[q] = snap[q]
  BY <1>1 DEF Goto, TypeOK
<1>3. pushes' \in Seq(Push) /\ PushesBacked'
  <2>1. CASE pushes' = pushes
    BY <1>1, <2>1 DEF TypeOK, PushesBacked
  <2>2. CASE pushes' = Append(pushes, [by |-> by, amount |-> amount])
    <3> DEFINE p == [by |-> by, amount |-> amount]
    <3>1. p \in Push /\ p.amount = amount /\ pushes \in Seq(Push)
      BY DEF Push, TypeOK
    <3> HIDE DEF p
    <3>2. pushes' \in Seq(Push)
      BY <2>2, <3>1 DEF p
    <3>3. ASSUME NEW i \in 1 .. Len(pushes')
          PROVE  Backed(pushes'[i].amount, cycle.days)
      <4>1. /\ Len(pushes') = Len(pushes) + 1
            /\ Len(pushes) \in Nat
            /\ i <= Len(pushes) => pushes'[i] = pushes[i]
            /\ pushes'[Len(pushes) + 1] = p
        BY <2>2, <3>1, SMT DEF p
      <4>2. CASE i = Len(pushes) + 1
        BY <3>1, <4>1, <4>2
      <4>3. CASE i \in 1 .. Len(pushes)
        BY <4>1, <4>3, SMT DEF PushesBacked
      <4> QED
        BY <4>1, <4>2, <4>3, SMT
    <3> QED
      BY <1>1, <3>2, <3>3 DEF PushesBacked
  <2> QED
    BY <2>1, <2>2 DEF PushFunds
<1>4. TypeOK'
  BY <1>1, <1>2, <1>3 DEF TypeOK
<1>5. RequestOK(r)' /\ pc'[r] # "deposit_write"
  BY <1>1, <1>2, <1>4, MoveOK
<1>6. RowOK(cycle)' /\ LedgerAgrees' /\ BreakLogOK' /\ CommissionCounted'
  BY <1>1 DEF RowOK, RowIn, LedgerAgrees, DayLogged, BreakLogOK, CommissionCounted
<1> QED
  BY <1>1, <1>2, <1>3, <1>4, <1>5, <1>6, StepInv

\* The update that closes the cycle.
LEMMA MarkWithdrawnInv ==
    ASSUME IInv, NEW r \in Requests, pc[r] \in {"withdraw_close", "bepwg_close"},
           MarkWithdrawn, Goto(r, "bepwg_audit") \/ Return(r)
    PROVE  IInv'
<1> USE ConstantsAssumption DEF IInv
<1>1. /\ cycle \in CycleRow /\ RowIn(cycle, cycle.days, breakLog)
      /\ cycle.status # "NONE" /\ cycle.days # 0
  <2>1. snap[r] \in CycleRow /\ cycle \in CycleRow
    BY DEF TypeOK
  <2>2. snap[r].days # 0 /\ snap[r].days <= cycle.days
    BY SMT DEF RequestOK, RowOK, RowIn
  <2>3. cycle.days # 0
    BY <2>1, <2>2, SMT DEF CycleRow
  <2> QED
    BY <2>1, <2>3 DEF RowOK, RowIn
<1>2. cycle' = [cycle EXCEPT !.status = "WITHDRAWN"]
  BY DEF MarkWithdrawn
<1>3. /\ cycle' \in CycleRow
      /\ cycle'.gate = cycle.gate /\ cycle'.status = "WITHDRAWN"
      /\ cycle'.days = cycle.days /\ cycle'.total = cycle.total
      /\ cycle'.net = cycle.net
  <2>1. "WITHDRAWN" \in Statuses
    BY DEF Statuses
  <2> QED
    BY <1>1, <1>2, <2>1, Zenon DEF CycleRow
<1>4. /\ "bepwg_audit" \in Labels /\ "bepwg_audit" \notin DepositLabels
      /\ UNCHANGED <<dayLog, breakLog, incentive, trusted, monthEnd, pushes, aborts>>
  BY DEF MarkWithdrawn, Labels, DepositLabels
<1>5. /\ pc' \in [Requests -> Labels] /\ snap' \in [Requests -> CycleRow]
      /\ lastDay' \in [Requests -> BOOLEAN]
      /\ \/ pc'[r] = "bepwg_audit" /\ snap'[r] = snap[r]
         \/ pc'[r] = "idle" /\ snap'[r] = NoCycle
      /\ \A q \in Requests \ {r} : pc'[q] = pc[q] /\ snap'[q] = snap[q]
  BY <1>4, LocalsMove
<1>6. TypeOK'
  BY <1>3, <1>4, <1>5 DEF TypeOK
<1>7. RowOK(cycle)'
  BY <1>1, <1>3, <1>4 DEF RowOK, RowIn
<1>8. RequestOK(r)' /\ pc'[r] # "deposit_write"
  BY <1>3, <1>4, <1>5, <1>6, MoveOK
<1>9. cycle'.status # "NONE"
  BY <1>3
<1> QED
  BY <1>1, <1>3, <1>4, <1>5, <1>6, <1>7, <1>8, <1>9, UpdateInv

-----------------------------------------------------------------------------
(* Every step of the savings services.                                     *)

\* What executeWithdrawal pays for its copy of the row is backed.
LEMMA PayoutBacked ==
    ASSUME IInv, NEW r \in Requests, snap[r].status # "NONE"
    PROVE  Payout(snap[r]) \in Nat /\ Backed(Payout(snap[r]), cycle.days)
<1> USE ConstantsAssumption
<1>1. /\ snap[r] \in CycleRow /\ RowIn(snap[r], cycle.days, breakLog)
      /\ breakLog \subseteq BreakRow
  BY DEF IInv, TypeOK, RequestOK, RowOK
<1>2. /\ snap[r].total \in Nat /\ snap[r].days \in 1 .. cycle.days
      /\ snap[r].total = TotalAfter(snap[r].days)
  BY <1>1, SMT DEF RowIn, CycleRow
<1>3. CASE snap[r].gate = "OPEN_EMERGENCY" /\ snap[r].net # NoAmount
  <2>1. PICK b \in breakLog : snap[r].net = b.net
    BY <1>1, <1>3 DEF RowIn
  <2>2. /\ b.net \in Nat /\ b.days \in 1 .. cycle.days
        /\ b.net = TotalAfter(b.days) - Penalty(TotalAfter(b.days))
    BY <1>1 DEF BreakRow, IInv, BreakLogOK
  <2> QED
    BY <1>3, <2>1, <2>2 DEF Payout, Backed
<1>4. CASE ~ (snap[r].gate = "OPEN_EMERGENCY" /\ snap[r].net # NoAmount)
  BY <1>2, <1>4 DEF Payout, Backed
<1> QED
  BY <1>3, <1>4

\* The first reads.
LEMMA StartInv ==
    ASSUME IInv, NEW r \in Requests, Start(r)
    PROVE  IInv'
<1> USE ConstantsAssumption
<1>1. CASE OpenCycle(r)
  BY <1>1, OpenCycleInv
<1>2. CASE StatusRead(r)
  <2>1. cycle.gate # "OPEN_EMERGENCY"
    BY <1>2 DEF StatusRead, EvaluateGate
  <2>2. "status_write" \in Labels /\ "status_write" \notin DepositLabels
    BY DEF Labels, DepositLabels
  <2> QED
    BY <1>2, <2>1, <2>2, EnterInv DEF StatusRead, RefIssued
<1>3. CASE BreakRead(r)
  <2>1. "break_log" \in Labels /\ "break_log" \notin DepositLabels
    BY DEF Labels, DepositLabels
  <2> QED
    BY <1>3, <2>1, EnterInv DEF BreakRead, RefIssued
<1>4. CASE WithdrawRead(r)
  <2>1. "withdraw_push" \in Labels /\ "withdraw_push" \notin DepositLabels
    BY DEF Labels, DepositLabels
  <2> QED
    BY <1>4, <2>1, EnterInv DEF WithdrawRead, RefIssued
<1>5. ASSUME NEW amount \in Amounts, DepositRead(r, amount) PROVE IInv'
  <2>1. "deposit_log" \in Labels
    BY DEF Labels
  <2> QED
    BY <1>5, <2>1, EnterInv DEF DepositRead, RefIssued
<1> QED
  BY <1>1, <1>2, <1>3, <1>4, <1>5 DEF Start

\* The steps of the requests in flight.
LEMMA ContinueInv ==
    ASSUME IInv, NEW r \in Requests, Continue(r)
    PROVE  IInv'
<1>1. CASE OpenDayLog(r)
  BY <1>1, OpenDayLogInv
<1>2. CASE OpenLink(r)
  BY <1>2, OpenLinkInv
<1>3. CASE DepositLog(r)
  BY <1>3, DepositLogInv
<1>4. CASE DepositWrite(r)
  BY <1>4, DepositWriteInv
<1>5. CASE IncentiveCreate(r) \/ IncentiveSettle(r)
  BY <1>5, IncentiveInv
<1>6. CASE StatusWrite(r)
  BY <1>6, StatusWriteInv
<1>7. CASE BreakLog(r)
  BY <1>7, InsertBreakRowInv DEF BreakLog
<1>8. CASE BreakWrite(r)
  BY <1>8, MarkBrokenInv DEF BreakWrite
<1>9. CASE WithdrawPush(r)
  <2>1. snap[r].status # "NONE" /\ pc[r] = "withdraw_push"
    BY <1>9 DEF WithdrawPush, IInv, RequestOK
  <2>2. Payout(snap[r]) \in Nat /\ Backed(Payout(snap[r]), cycle.days)
    BY <2>1, PayoutBacked
  <2> QED
    BY <1>9, <2>1, <2>2, PushFundsInv DEF WithdrawPush
<1>10. CASE WithdrawClose(r)
  BY <1>10, MarkWithdrawnInv DEF WithdrawClose
<1> QED
  BY <1>1, <1>2, <1>3, <1>4, <1>5, <1>6, <1>7, <1>8, <1>9, <1>10 DEF Continue

LEMMA AbortInv ==
    ASSUME IInv, NEW r \in Requests, Abort(r)
    PROVE  IInv'
<1>1. /\ UNCHANGED <<cycle, dayLog, breakLog, incentive, monthEnd, pushes>>
      /\ Return(r) /\ trusted' = trusted /\ aborts' = aborts + 1
  BY DEF Abort, rows
<1>2. trusted' \subseteq Agents /\ aborts' \in Nat
  BY <1>1, SMT DEF IInv, TypeOK
<1> QED
  BY <1>1, <1>2, ReturnInv

\* A step that changes neither rows nor requests.
LEMMA IdleInv ==
    ASSUME IInv, UNCHANGED <<cycle, dayLog, breakLog, incentive, pushes, pc, snap,
                             lastDay, aborts>>,
           monthEnd' \in BOOLEAN, trusted' \subseteq Agents
    PROVE  IInv'
<1> USE DEF IInv
<1>1. TypeOK'
  BY DEF TypeOK
<1>2. RowOK(cycle)' /\ \A r \in Requests : RequestOK(r)'
  BY DEF RowOK, RowIn, RequestOK, DayLogged
<1>3. OneDepositWriter' /\ LedgerAgrees' /\ BreakLogOK'
  BY DEF OneDepositWriter, LedgerAgrees, DayLogged, BreakLogOK
<1>4. CommissionCounted' /\ PushesBacked'
  BY DEF CommissionCounted, PushesBacked
<1> QED
  BY <1>1, <1>2, <1>3, <1>4

LEMMA NextInv == IInv /\ [Next]_vars => IInv'
<1> SUFFICES ASSUME IInv, [Next]_vars PROVE IInv'
  OBVIOUS
<1>1. ASSUME NEW r \in Requests, Start(r) PROVE IInv'
  BY <1>1, StartInv
<1>2. ASSUME NEW r \in Requests, Continue(r) PROVE IInv'
  BY <1>2, ContinueInv
<1>3. ASSUME NEW r \in Requests, Abort(r) PROVE IInv'
  BY <1>3, AbortInv
<1>4. CASE DayTurns
  <2>1. /\ UNCHANGED <<cycle, dayLog, breakLog, incentive, trusted, pushes, pc,
                       snap, lastDay, aborts>>
        /\ monthEnd' \in BOOLEAN /\ trusted' \subseteq Agents
    BY <1>4 DEF DayTurns, rows, IInv, TypeOK
  <2> QED
    BY <2>1, IdleInv
<1>5. CASE UNCHANGED vars
  <2>1. /\ UNCHANGED <<cycle, dayLog, breakLog, incentive, pushes, pc, snap,
                       lastDay, aborts>>
        /\ monthEnd' \in BOOLEAN /\ trusted' \subseteq Agents
    BY <1>5 DEF vars, rows, IInv, TypeOK
  <2> QED
    BY <2>1, IdleInv
<1> QED
  BY <1>1, <1>2, <1>3, <1>4, <1>5 DEF Next

-----------------------------------------------------------------------------
(* What is half done has a request that goes on with it.                   *)

\* The locals a step of one request leaves alone, and what it may not be.
OthersStay(r) ==
    \A q \in Requests \ {r} : pc'[q] = pc[q] /\ snap'[q] = snap[q]

\* A request that is between two writes that belong together.
BetweenWrites == {"deposit_write", "incentive_create", "incentive_settle",
                  "break_write", "bepwg_break_write"}

LEMMA OthersStayGoto ==
    ASSUME TypeOK, NEW r \in Requests, NEW label,
           Goto(r, label) \/ Enter(r, label) \/ Return(r)
    PROVE  OthersStay(r)
  BY DEF TypeOK, Goto, Enter, Return, OthersStay

LEMMA DaysFinishingKept ==
    ASSUME DaysFinishing, NEW r \in Requests, OthersStay(r),
           dayLog' = dayLog, cycle'.days = cycle.days,
           pc[r] # "deposit_write"
    PROVE  DaysFinishing'
<1> SUFFICES ASSUME NEW e \in dayLog, ~ (e.day <= cycle.days)
             PROVE  \E q \in Requests : pc'[q] = "deposit_write"
  BY DEF DaysFinishing
<1>1. PICK q \in Requests : pc[q] = "deposit_write"
  BY DEF DaysFinishing
<1> QED
  BY <1>1 DEF OthersStay

LEMMA IncentivesFinishingKept ==
    ASSUME IncentivesFinishing, NEW r \in Requests, OthersStay(r),
           incentive' = incentive, cycle'.days = cycle.days,
           pc[r] \notin {"incentive_create", "incentive_settle"}
    PROVE  IncentivesFinishing'
<1> SUFFICES ASSUME NEW d \in 2 .. cycle.days, incentive[d] # "SETTLED"
             PROVE  \E q \in Requests : PaysIncentive(q, d)'
  BY DEF IncentivesFinishing
<1>1. PICK q \in Requests : PaysIncentive(q, d)
  BY DEF IncentivesFinishing
<1> QED
  BY <1>1 DEF OthersStay, PaysIncentive

LEMMA BreakFinishingKept ==
    ASSUME BreakFinishing, NEW r \in Requests, OthersStay(r),
           breakLog' = breakLog, cycle'.net = cycle.net,
           pc[r] \notin {"break_write", "bepwg_break_write"}
    PROVE  BreakFinishing'
<1> SUFFICES ASSUME BreakLogged, cycle.net = NoAmount
             PROVE  \E q \in Requests : pc'[q] \in {"break_write", "bepwg_break_write"}
  BY DEF BreakFinishing, BreakLogged
<1>1. PICK q \in Requests : pc[q] \in {"break_write", "bepwg_break_write"}
  BY DEF BreakFinishing
<1> QED
  BY <1>1 DEF OthersStay

\* A step of a request that is not between two such writes, and writes no
\* row but the status and the gate of the cycle.
LEMMA FinishingKept ==
    ASSUME Finishing, NEW r \in Requests, OthersStay(r),
           UNCHANGED <<dayLog, breakLog, incentive>>,
           cycle'.days = cycle.days, cycle'.net = cycle.net,
           aborts' = 0 => aborts = 0, pc[r] \notin BetweenWrites
    PROVE  Finishing'
<1>1. pc[r] \notin {"deposit_write", "incentive_create", "incentive_settle",
                    "break_write", "bepwg_break_write"}
  BY DEF BetweenWrites
<1> QED
  BY <1>1, DaysFinishingKept, IncentivesFinishingKept, BreakFinishingKept
     DEF Finishing

LEMMA OpenCycleFinishing ==
    ASSUME IInv, Finishing, NEW r \in Requests, OpenCycle(r)
    PROVE  Finishing'
<1> USE ConstantsAssumption DEF OpenCycle
<1>1. cycle.days = 0 /\ cycle'.days = 1
  BY DEF IInv, RowOK, RowIn
<1>2. ~ BreakLogged'
  <2>1. breakLog = {}
    BY <1>1, SMT DEF IInv, BreakLogOK
  <2> QED
    BY <2>1 DEF BreakLogged
<1>3. DaysFinishing'
  <2>1. ASSUME NEW e \in dayLog PROVE e.day <= 1
    BY <1>1, SMT DEF IInv, LedgerAgrees
  <2> QED
    BY <1>1, <2>1 DEF DaysFinishing
<1>4. IncentivesFinishing'
  BY <1>1, SMT DEF IncentivesFinishing
<1> QED
  BY <1>2, <1>3, <1>4 DEF Finishing, BreakFinishing

\* The first day's row is counted before it is written.
LEMMA OpenDayLogFinishing ==
    ASSUME IInv, Finishing, NEW r \in Requests, OpenDayLog(r)
    PROVE  Finishing'
<1> USE DEF OpenDayLog
<1>1. OthersStay(r)
  BY OthersStayGoto DEF IInv
<1>2. cycle.days >= 1 /\ cycle' = cycle /\ aborts' = aborts
  BY ConstantsAssumption, SMT DEF IInv, TypeOK, CycleRow, RequestOK, RowOK, RowIn
<1>3. ASSUME DaysFinishing PROVE DaysFinishing'
  <2> SUFFICES ASSUME NEW e \in dayLog', ~ (e.day <= cycle.days)
               PROVE  \E q \in Requests : pc'[q] = "deposit_write"
    BY <1>2 DEF DaysFinishing
  <2>1. e \in dayLog
    BY <1>2
  <2>2. PICK q \in Requests : pc[q] = "deposit_write"
    BY <1>3, <2>1 DEF DaysFinishing
  <2> QED
    BY <1>1, <2>2 DEF OthersStay
<1> QED
  BY <1>1, <1>2, <1>3, IncentivesFinishingKept, BreakFinishingKept DEF Finishing

\* The insert of a day's row leads to the update that counts it.
LEMMA DepositLogFinishing ==
    ASSUME IInv, Finishing, NEW r \in Requests, DepositLog(r)
    PROVE  Finishing'
<1> USE DEF DepositLog
<1>1. CASE Return(r) /\ dayLog' = dayLog
  <2>1. OthersStay(r)
    BY <1>1, OthersStayGoto DEF IInv
  <2> QED
    BY <1>1, <2>1, FinishingKept DEF BetweenWrites
<1>2. CASE pc' = [pc EXCEPT ![r] = "deposit_write"] /\ UNCHANGED snap
  <2>1. OthersStay(r) /\ pc'[r] = "deposit_write" /\ aborts' = aborts
    BY <1>2 DEF IInv, TypeOK, OthersStay
  <2>2. DaysFinishing'
    BY <2>1 DEF DaysFinishing
  <2> QED
    BY <2>1, <2>2, IncentivesFinishingKept, BreakFinishingKept DEF Finishing
<1> QED
  BY <1>1, <1>2

\* The update counts the only row that waits, and leads to its incentive.
LEMMA DepositWriteFinishing ==
    ASSUME IInv, Finishing, NEW r \in Requests, DepositWrite(r)
    PROVE  Finishing'
<1> USE DEF IInv
<1>1. /\ cycle \in CycleRow /\ cycle.days \in Nat
      /\ snap[r].days = cycle.days
  BY DEF DepositWrite, TypeOK, CycleRow, RequestOK
<1>2. cycle'.days = cycle.days + 1 /\ cycle'.net = cycle.net
  BY <1>1, Zenon DEF DepositWrite, CycleRow
<1>3. /\ OthersStay(r) /\ pc[r] = "deposit_write"
      /\ pc'[r] = "incentive_create" /\ snap'[r] = snap[r]
      /\ UNCHANGED <<dayLog, breakLog, incentive, aborts>>
  BY DEF DepositWrite, Goto, TypeOK, OthersStay
<1>4. DaysFinishing'
  BY <1>2, <1>3 DEF DaysFinishing, LedgerAgrees
<1>5. ASSUME IncentivesFinishing PROVE IncentivesFinishing'
  <2> SUFFICES ASSUME NEW d \in 2 .. cycle.days + 1, incentive[d] # "SETTLED"
               PROVE  \E q \in Requests : PaysIncentive(q, d)'
    BY <1>2, <1>3 DEF IncentivesFinishing
  <2>1. CASE d = cycle.days + 1
    BY <1>1, <1>3, <2>1 DEF PaysIncentive
  <2>2. CASE d \in 2 .. cycle.days
    <3>1. PICK q \in Requests : PaysIncentive(q, d)
      BY <1>5, <2>2 DEF IncentivesFinishing
    <3> QED
      BY <1>3, <3>1 DEF OthersStay, PaysIncentive
  <2> QED
    BY <1>1, <2>1, <2>2, SMT
<1> QED
  BY <1>2, <1>3, <1>4, <1>5, BreakFinishingKept DEF Finishing

\* An incentive is created by the request that settles it.
LEMMA IncentiveFinishing ==
    ASSUME IInv, Finishing, NEW r \in Requests,
           IncentiveCreate(r) \/ IncentiveSettle(r)
    PROVE  Finishing'
<1> USE DEF IncentiveCreate, IncentiveSettle
<1>1. OthersStay(r)
  BY OthersStayGoto DEF IInv
<1>2. ASSUME IncentivesFinishing PROVE IncentivesFinishing'
  <2> SUFFICES ASSUME NEW d \in 2 .. cycle.days, incentive'[d] # "SETTLED"
               PROVE  \E q \in Requests : PaysIncentive(q, d)'
    BY DEF IncentivesFinishing
  <2>0. d \in Days
    BY ConstantsAssumption, SMT DEF IInv, TypeOK, CycleRow, Days
  <2>1. CASE d = snap[r].days + 1 /\ IncentiveCreate(r)
    BY <2>1 DEF PaysIncentive, Goto, IInv, TypeOK
  <2>2. CASE d = snap[r].days + 1 /\ IncentiveSettle(r)
    BY <2>0, <2>2 DEF IInv, TypeOK
  <2>3. CASE d # snap[r].days + 1
    <3>1. incentive[d] # "SETTLED"
      BY <2>0, <2>3 DEF IInv, TypeOK
    <3>2. PICK q \in Requests : PaysIncentive(q, d)
      BY <1>2, <3>1 DEF IncentivesFinishing
    <3> QED
      BY <1>1, <2>3, <3>2 DEF OthersStay, PaysIncentive
  <2> QED
    BY <2>1, <2>2, <2>3
<1> QED
  BY <1>1, <1>2, DaysFinishingKept, BreakFinishingKept DEF Finishing

\* The insert of a break row leads to the update that follows it.
LEMMA InsertBreakFinishing ==
    ASSUME IInv, Finishing, NEW r \in Requests,
           NEW next \in {"break_write", "bepwg_break_write"},
           pc[r] \in {"break_log", "bepwg_break_log"},
           InsertBreakRow(r, next)
    PROVE  Finishing'
<1> USE DEF InsertBreakRow
<1>1. OthersStay(r) /\ aborts' = aborts
  BY OthersStayGoto DEF IInv
<1>2. CASE Return(r) /\ breakLog' = breakLog
  BY <1>1, <1>2, FinishingKept DEF BetweenWrites
<1>3. CASE Goto(r, next)
  <2>1. pc'[r] = next
    BY <1>3 DEF Goto, IInv, TypeOK
  <2>2. BreakFinishing'
    BY <2>1 DEF BreakFinishing
  <2> QED
    BY <1>1, <2>2, DaysFinishingKept, IncentivesFinishingKept DEF Finishing
<1> QED
  BY <1>2, <1>3

\* That update gives the cycle its net payout.
LEMMA MarkBrokenFinishing ==
    ASSUME IInv, Finishing, NEW r \in Requests,
           pc[r] \in {"break_write", "bepwg_break_write"},
           MarkBroken(r), OthersStay(r)
    PROVE  Finishing'
<1>1. cycle \in CycleRow /\ BreakRowOf(snap[r]) \in BreakRow
  BY DEF IInv, TypeOK, RequestOK
<1>2. /\ cycle'.days = cycle.days /\ cycle'.net = BreakRowOf(snap[r]).net
      /\ UNCHANGED <<dayLog, breakLog, incentive, aborts>>
  BY <1>1, Zenon DEF MarkBroken, CycleRow
<1>3. BreakRowOf(snap[r]).net \in Nat
  BY <1>1 DEF BreakRow
<1>4. cycle'.net # NoAmount
  BY <1>2, <1>3, SMT DEF NoAmount
<1> QED
  BY <1>2, <1>4, DaysFinishingKept, IncentivesFinishingKept
     DEF Finishing, BreakFinishing

\* The updates of the status and the gate.
LEMMA StatusFinishing ==
    ASSUME IInv, Finishing, NEW r \in Requests, OthersStay(r),
           StatusWrite(r) \/ MarkWithdrawn, pc[r] \notin BetweenWrites
    PROVE  Finishing'
<1>1. cycle \in CycleRow
  BY DEF IInv, TypeOK
<1>2. cycle'.days = cycle.days /\ cycle'.net = cycle.net
  <2>1. CASE StatusWrite(r)
    BY <1>1, <2>1, Zenon DEF StatusWrite, CycleRow
  <2>2. CASE MarkWithdrawn
    BY <1>1, <2>2, Zenon DEF MarkWithdrawn, CycleRow
  <2> QED
    BY <2>1, <2>2
<1>3. UNCHANGED <<dayLog, breakLog, incentive, aborts>>
  BY DEF StatusWrite, MarkWithdrawn
<1> QED
  BY <1>2, <1>3, FinishingKept

LEMMA ContinueFinishing ==
    ASSUME IInv, Finishing, NEW r \in Requests, Continue(r)
    PROVE  Finishing'
<1>1. CASE OpenLink(r)
  <2>1. OthersStay(r)
    BY <1>1, OthersStayGoto DEF OpenLink, IInv
  <2> QED
    BY <1>1, <2>1, FinishingKept DEF OpenLink, BetweenWrites
<1>2. CASE StatusWrite(r)
  <2>1. OthersStay(r)
    BY <1>2, OthersStayGoto DEF StatusWrite, IInv
  <2> QED
    BY <1>2, <2>1, StatusFinishing DEF StatusWrite, BetweenWrites
<1>3. CASE BreakLog(r)
  BY <1>3, InsertBreakFinishing DEF BreakLog
<1>4. CASE BreakWrite(r)
  <2>1. OthersStay(r)
    BY <1>4, OthersStayGoto DEF BreakWrite, IInv
  <2> QED
    BY <1>4, <2>1, MarkBrokenFinishing DEF BreakWrite
<1>5. CASE WithdrawPush(r)
  <2>1. OthersStay(r)
    BY <1>5, OthersStayGoto DEF WithdrawPush, PushFunds, IInv
  <2> QED
    BY <1>5, <2>1, FinishingKept DEF WithdrawPush, PushFunds, BetweenWrites, rows
<1>6. CASE WithdrawClose(r)
  <2>1. OthersStay(r)
    BY <1>6, OthersStayGoto DEF WithdrawClose, IInv
  <2> QED
    BY <1>6, <2>1, StatusFinishing DEF WithdrawClose, BetweenWrites
<1> QED
  BY <1>1, <1>2, <1>3, <1>4, <1>5, <1>6, OpenDayLogFinishing, DepositLogFinishing,
     DepositWriteFinishing, IncentiveFinishing DEF Continue

\* First reads write nothing, and a request that dies ends the promise.
LEMMA NextFinishing == IInv /\ Finishing /\ [Next]_vars => Finishing'
<1> SUFFICES ASSUME IInv, Finishing, [Next]_vars PROVE Finishing'
  OBVIOUS
<1>1. ASSUME NEW r \in Requests, Start(r) PROVE Finishing'
  <2>1. CASE OpenCycle(r)
    BY <2>1, OpenCycleFinishing
  <2>2. CASE ~ OpenCycle(r)
    <3>1. /\ pc[r] = "idle" /\ UNCHANGED <<rows, aborts>>
          /\ \E label \in Labels : Enter(r, label)
      BY <1>1, <2>2 DEF Start, StatusRead, BreakRead, WithdrawRead, DepositRead,
         Labels
    <3>2. OthersStay(r)
      BY <3>1, OthersStayGoto DEF IInv
    <3> QED
      BY <3>1, <3>2, FinishingKept DEF rows, BetweenWrites
  <2> QED
    BY <2>1, <2>2
<1>2. ASSUME NEW r \in Requests, Continue(r) PROVE Finishing'
  BY <1>2, ContinueFinishing
<1>3. ASSUME NEW r \in Requests, Abort(r) PROVE Finishing'
  BY <1>3, SMT DEF Abort, Finishing, IInv, TypeOK
<1>4. CASE DayTurns \/ UNCHANGED vars
  BY <1>4 DEF DayTurns, vars, rows, Finishing, DaysFinishing,
     IncentivesFinishing, PaysIncentive, BreakFinishing, BreakLogged
<1> QED
  BY <1>1, <1>2, <1>3, <1>4 DEF Next

LEMMA InitFinishing == Init => Finishing
  BY SMT DEF Init, Finishing, DaysFinishing, IncentivesFinishing, BreakFinishing,
     BreakLogged, NoCycle

\* With no request left, nothing is half done.
LEMMA FinishingImplies == Finishing => QuietMeansComplete
  BY DEF Finishing, DaysFinishing, IncentivesFinishing, PaysIncentive,
     BreakFinishing, QuietMeansComplete, Quiet

-----------------------------------------------------------------------------
(* The theorems.                                                           *)

\* The invariant holds in every state of the savings services, whatever the
\* number of requests that overlap or die.
THEOREM SavingsInvariantHolds == Spec => []IInv
<1>1. Init => IInv
  BY InitInv
<1>2. IInv /\ [Next]_vars => IInv'
  BY NextInv
<1> QED
  BY <1>1, <1>2, PTL DEF Spec

\* What the invariant says of a recorded break and of a full cycle.
LEMMA InvImplies == IInv => BreakAgrees /\ MaturityHonest
<1> SUFFICES ASSUME IInv PROVE BreakAgrees /\ MaturityHonest
  OBVIOUS
<1>1. ASSUME NEW b \in breakLog
      PROVE  /\ b.penalty + b.net = b.total
             /\ b.net - b.penalty \in {0, 1}
             /\ b.total = TotalAfter(b.days)
  <2>1. /\ b.total \in Nat /\ b.total = TotalAfter(b.days)
        /\ b.penalty = Penalty(b.total) /\ b.net = b.total - Penalty(b.total)
    BY DEF IInv, TypeOK, BreakRow, BreakLogOK
  <2> QED
    BY <2>1, PenaltyHalves
<1>2. /\ cycle.gate = "OPEN_EMERGENCY" => cycle.net # NoAmount
      /\ cycle.net # NoAmount => \E b \in breakLog : cycle.net = b.net
      /\ \A b, c \in breakLog : b = c
      /\ MaturityHonest
  BY DEF IInv, RowOK, RowIn, BreakLogOK, MaturityHonest
<1> QED
  BY <1>1, <1>2 DEF BreakAgrees

\* A step that changes the days counted is the update of a deposit, which
\* holds the lock: it adds the day the lock is for.
LEMMA DaysStep ==
    ASSUME IInv, [Next]_vars, cycle.status # "NONE"
    PROVE  cycle'.days \in {cycle.days, cycle.days + 1}
<1>1. cycle \in CycleRow
  BY DEF IInv, TypeOK
<1>2. ASSUME NEW r \in Requests, DepositWrite(r)
      PROVE  cycle'.days = cycle.days + 1
  <2>1. snap[r].days = cycle.days
    BY <1>2 DEF DepositWrite, IInv, RequestOK
  <2> QED
    BY <1>1, <1>2, <2>1, Zenon DEF DepositWrite, CycleRow
<1>3. ASSUME NEW r \in Requests, StatusWrite(r) PROVE cycle'.days = cycle.days
  BY <1>1, <1>3, Zenon DEF StatusWrite, CycleRow
<1>4. ASSUME NEW r \in Requests, BreakWrite(r) PROVE cycle'.days = cycle.days
  BY <1>1, <1>4, Zenon DEF BreakWrite, MarkBroken, CycleRow
<1>5. ASSUME NEW r \in Requests, WithdrawClose(r) PROVE cycle'.days = cycle.days
  BY <1>1, <1>5, Zenon DEF WithdrawClose, MarkWithdrawn, CycleRow
<1>6. ASSUME NEW r \in Requests, Start(r) PROVE cycle' = cycle
  BY <1>6 DEF Start, OpenCycle, StatusRead, BreakRead, WithdrawRead,
     DepositRead, rows
<1>7. ASSUME NEW r \in Requests,
             \/ OpenDayLog(r) \/ OpenLink(r) \/ DepositLog(r)
             \/ IncentiveCreate(r) \/ IncentiveSettle(r)
             \/ BreakLog(r) \/ WithdrawPush(r) \/ Abort(r)
      PROVE  cycle' = cycle
  BY <1>7 DEF OpenDayLog, OpenLink, DepositLog, IncentiveCreate,
     IncentiveSettle, BreakLog, InsertBreakRow, WithdrawPush, PushFunds,
     Abort, rows
<1>8. CASE DayTurns \/ UNCHANGED vars
  BY <1>8 DEF DayTurns, vars, rows
<1> QED
  BY <1>2, <1>3, <1>4, <1>5, <1>6, <1>7, <1>8 DEF Next, Continue

\* The row and the deposit log agree, through every interleaving of the
\* handlers of the savings controller.
THEOREM LedgerAlwaysAgrees == Spec => []LedgerAgrees
<1>1. IInv => LedgerAgrees
  BY DEF IInv
<1> QED
  BY <1>1, SavingsInvariantHolds, PTL

\* No handler undoes a deposit another one counted, however old the row it
\* decided on.
THEOREM DaysOnlyGoUp == Spec => DaysGoUpByOne
<1>1. IInv /\ [Next]_vars =>
          [cycle.status # "NONE" => cycle'.days \in {cycle.days, cycle.days + 1}]_vars
  BY DaysStep
<1> QED
  BY <1>1, SavingsInvariantHolds, PTL DEF Spec, DaysGoUpByOne

\* When every request has returned and none has died, no deposit, incentive
\* or break is half done, whatever overlapped before (recordDeposit,
\* disburseIncentive, initiateBreakSafe).
THEOREM QuietIsComplete == Spec => []QuietMeansComplete
<1>1. Init => IInv /\ Finishing
  BY InitInv, InitFinishing
<1>2. (IInv /\ Finishing) /\ [Next]_vars => (IInv /\ Finishing)'
  BY NextInv, NextFinishing
<1>3. IInv /\ Finishing => QuietMeansComplete
  BY FinishingImplies
<1> QED
  BY <1>1, <1>2, <1>3, PTL DEF Spec
=============================================================================
