---------------------------- MODULE SavingsCycle ----------------------------
(***************************************************************************)
(* One savings cycle of the LLIW product, as the services of               *)
(* apps/api/src/savings run it: openCycle, recordDeposit (with the agent   *)
(* incentive it disburses), getCycleStatus, initiateBreakSafe and          *)
(* executeWithdrawal.                                                      *)
(*                                                                         *)
(* No handler opens a database transaction: each awaits one statement at a *)
(* time, decides on the row it read first, and writes absolute values.  A  *)
(* handler is therefore a sequence of atomic steps, one for each awaited   *)
(* statement or bank call, and the synchronous code that follows an await  *)
(* belongs to the step of that await.  Requests is the set of requests the *)
(* server can have in flight; pc, snap and lastDay are their locals.  A    *)
(* request whose guards refuse it throws before it writes anything: it     *)
(* changes no state, so a refusal on the first read is not an action.      *)
(***************************************************************************)
EXTENDS Integers, Sequences

CONSTANTS
    Requests,       \* request slots: how many requests can overlap
    Agents,         \* agents that may serve the customer
    OpeningAgent,   \* the agent that opens the cycle
    FullCycleDays,  \* FULL_CYCLE_DAYS, 31 in the code
    Day1Fee,        \* day1TotalFeeMinor of the cycle
    Daily,          \* dailyDepositMinor of the cycle
    Amounts,        \* the amounts deposit requests carry
    BankOutcomes,   \* what the bank may do with a payout: "carried", "lost"
    MaxPushes,      \* bound: payouts to the customer's bank
    MaxAborts       \* bound: requests that die between two steps

ASSUME ConstantsAssumption ==
    /\ OpeningAgent \in Agents
    /\ FullCycleDays \in Nat \ {0, 1}
    /\ Day1Fee \in Nat \ {0}
    /\ Daily \in Nat \ {0}
    /\ Amounts \subseteq Nat
    /\ BankOutcomes \subseteq {"carried", "lost"}
    /\ MaxPushes \in Nat
    /\ MaxAborts \in Nat

VARIABLES
    cycle,      \* the SavingsCycle row
    dayLog,     \* DailyDepositLog rows, unique by day
    breakLog,   \* EmergencyBreakLog rows of the cycle, unique by cycle
    incentive,  \* status of the AgentIncentiveLog row of each day
    trusted,    \* agents with a TrustedAgentLink to the customer
    monthEnd,   \* isLastDayOfMonth of the server's clock
    pushes,     \* vault payouts the bank carried out, oldest first
    pc,         \* where each request is
    snap,       \* the row each request read
    lastDay,    \* what isLastDayOfMonth last told each request
    aborts      \* requests that died half way

rows == <<cycle, dayLog, breakLog, incentive, trusted>>
vars == <<rows, monthEnd, pushes, pc, snap, lastDay, aborts>>

Statuses == {"NONE", "ACTIVE", "MATURED_FULL_CYCLE", "MATURED_MONTH_END",
             "BROKEN", "WITHDRAWN"}
Gates == {"LOCKED", "OPEN_FULL_CYCLE", "OPEN_MONTH_END", "OPEN_EMERGENCY"}
NoAmount == -1   \* netPayoutMinor is null
Days == 1 .. FullCycleDays

CycleRow == [status : Statuses, gate : Gates, days : 0 .. FullCycleDays,
             total : Nat, net : Nat \cup {NoAmount}]
DayRow == [day : Days, amount : Nat]
BreakRow == [total : Nat, penalty : Nat, net : Nat, days : 0 .. FullCycleDays]
IncentiveStatuses == {"NONE", "PENDING", "SETTLED"}
Labels ==
    {"idle", "open_log", "open_link", "deposit_log", "deposit_write",
     "incentive_create", "incentive_settle", "status_write", "break_log",
     "break_write", "withdraw_push", "withdraw_close"}
    \cup   \* the requests of BepwgGate
    {"bepwg_gates", "bepwg_break_log", "bepwg_break_write", "bepwg_push",
     "bepwg_close", "bepwg_audit", "bepwg_link"}
Push == [by : {"savings", "bepwg"}, amount : Nat]

NoCycle == [status |-> "NONE", gate |-> "LOCKED", days |-> 0, total |-> 0,
            net |-> NoAmount]

TypeOK ==
    /\ cycle \in CycleRow
    /\ dayLog \subseteq DayRow
    /\ breakLog \subseteq BreakRow
    /\ incentive \in [Days -> IncentiveStatuses]
    /\ trusted \subseteq Agents
    /\ monthEnd \in BOOLEAN
    /\ pushes \in Seq(Push)
    /\ pc \in [Requests -> Labels]
    /\ snap \in [Requests -> CycleRow]
    /\ lastDay \in [Requests -> BOOLEAN]
    /\ aborts \in Nat

Init ==
    /\ cycle = NoCycle
    /\ dayLog = {}
    /\ breakLog = {}
    /\ incentive = [d \in Days |-> "NONE"]
    /\ trusted = {}
    /\ monthEnd \in BOOLEAN
    /\ pushes = <<>>
    /\ pc = [r \in Requests |-> "idle"]
    /\ snap = [r \in Requests |-> NoCycle]
    /\ lastDay = [r \in Requests |-> FALSE]
    /\ aborts = 0

-----------------------------------------------------------------------------
(* The decisions the handlers share.                                       *)

\* A request starts from the row it reads and today's date, goes on with
\* them, and drops them when it returns.
Enter(r, label) ==
    /\ pc' = [pc EXCEPT ![r] = label]
    /\ snap' = [snap EXCEPT ![r] = cycle]
    /\ lastDay' = [lastDay EXCEPT ![r] = monthEnd]

Goto(r, label) ==
    /\ pc' = [pc EXCEPT ![r] = label]
    /\ UNCHANGED <<snap, lastDay>>

Return(r) ==
    /\ pc' = [pc EXCEPT ![r] = "idle"]
    /\ snap' = [snap EXCEPT ![r] = NoCycle]
    /\ lastDay' = [lastDay EXCEPT ![r] = FALSE]

\* A cycleRef is random and reaches the client in openCycle's answer, after
\* the trusted link is written: no request names the cycle before that.
RefIssued == cycle.status # "NONE" /\ trusted # {}

\* Definitions named Mut... are wrong on purpose: each is a slip this code
\* could have, put in the place of the definition that follows it to see
\* which property notices.

\* The last day counted one too early.
MutEvaluateGate(days, last, gate) ==
    IF gate = "OPEN_EMERGENCY" THEN "OPEN_EMERGENCY"
    ELSE IF days + 1 >= FullCycleDays THEN "OPEN_FULL_CYCLE"
    ELSE IF last THEN "OPEN_MONTH_END"
    ELSE gate

\* evaluateGate, most binding condition first.
EvaluateGate(days, last, gate) ==
    IF gate = "OPEN_EMERGENCY" THEN "OPEN_EMERGENCY"
    ELSE IF days >= FullCycleDays THEN "OPEN_FULL_CYCLE"
    ELSE IF last THEN "OPEN_MONTH_END"
    ELSE gate

StatusAfterDeposit(days, gate) ==
    IF days >= FullCycleDays THEN "MATURED_FULL_CYCLE"
    ELSE IF gate = "OPEN_MONTH_END" THEN "MATURED_MONTH_END"
    ELSE "ACTIVE"

\* A percentage taken for a rate.
MutPenalty(total) == total * 50

\* EMERGENCY_PENALTY_RATE: half of the total, in whole minor units.
Penalty(total) == (total * 50) \div 100

\* The net payout of a broken cycle forgotten.
MutPayout(row) == row.total

\* The amount executeWithdrawal pays for the row it read.
Payout(row) ==
    IF row.gate = "OPEN_EMERGENCY" /\ row.net # NoAmount
    THEN row.net ELSE row.total

\* No unique constraint on the cycle of a break row.
MutBreakLogged == FALSE

\* The unique constraints (cycleId, dayNumber) and (cycleId).
DayLogged(d) == \E e \in dayLog : e.day = d
BreakLogged == breakLog # {}

-----------------------------------------------------------------------------
(* openCycle: the row, the day-1 log, the trusted link.                    *)

OpenCycle(r) ==
    /\ pc[r] = "idle" /\ cycle.status = "NONE"
    /\ cycle' = [status |-> "ACTIVE", gate |-> "LOCKED", days |-> 1,
                 total |-> Day1Fee, net |-> NoAmount]
    /\ Goto(r, "open_log")
    /\ UNCHANGED <<dayLog, breakLog, incentive, trusted, monthEnd, pushes,
                   aborts>>

OpenDayLog(r) ==
    /\ pc[r] = "open_log"
    /\ dayLog' = dayLog \cup {[day |-> 1, amount |-> Day1Fee]}
    /\ Goto(r, "open_link")
    /\ UNCHANGED <<cycle, breakLog, incentive, trusted, monthEnd, pushes,
                   aborts>>

OpenLink(r) ==
    /\ pc[r] = "open_link"
    /\ trusted' = trusted \cup {OpeningAgent}
    /\ Return(r)
    /\ UNCHANGED <<cycle, dayLog, breakLog, incentive, monthEnd, pushes,
                   aborts>>

-----------------------------------------------------------------------------
(* recordDeposit, and the agent incentive at its end.                      *)

DepositRead(r, amount) ==
    /\ pc[r] = "idle" /\ RefIssued
    /\ cycle.status = "ACTIVE"
    /\ cycle.days < FullCycleDays
    /\ amount = Daily
    /\ Enter(r, "deposit_log")
    /\ UNCHANGED <<rows, monthEnd, pushes, aborts>>

\* No unique constraint on the day, and no look-up.
MutDepositLog(r) ==
    /\ pc[r] = "deposit_log"
    /\ dayLog' = dayLog \cup {[day |-> snap[r].days + 1, amount |-> Daily]}
    /\ pc' = [pc EXCEPT ![r] = "deposit_write"]
    /\ lastDay' = [lastDay EXCEPT ![r] = monthEnd]
    /\ UNCHANGED <<snap, cycle, breakLog, incentive, trusted, monthEnd,
                   pushes, aborts>>

\* The insert of the day's row; a row that is there already, seen by the
\* look-up or by the unique constraint, refuses the request.
DepositLog(r) ==
    LET day == snap[r].days + 1 IN
    /\ pc[r] = "deposit_log"
    /\ \/ /\ DayLogged(day)
          /\ Return(r)
          /\ UNCHANGED dayLog
       \/ /\ ~ DayLogged(day)
          /\ dayLog' = dayLog \cup {[day |-> day, amount |-> Daily]}
          /\ pc' = [pc EXCEPT ![r] = "deposit_write"]
          /\ lastDay' = [lastDay EXCEPT ![r] = monthEnd]
          /\ UNCHANGED snap
    /\ UNCHANGED <<cycle, breakLog, incentive, trusted, monthEnd, pushes,
                   aborts>>

\* The update made conditional on an active cycle, without undoing the rest.
MutDepositWrite(r) ==
    LET days == snap[r].days + 1
        gate == EvaluateGate(days, lastDay[r], snap[r].gate)
    IN
    /\ pc[r] = "deposit_write"
    /\ cycle' = IF cycle.status # "ACTIVE" THEN cycle
                ELSE [cycle EXCEPT !.total = snap[r].total + Daily,
                                   !.days = days,
                                   !.status = StatusAfterDeposit(days, gate),
                                   !.gate = gate]
    /\ Goto(r, "incentive_create")
    /\ UNCHANGED <<dayLog, breakLog, incentive, trusted, monthEnd, pushes,
                   aborts>>

\* Absolute values, computed from the row read before the insert; the
\* update has no condition on the row as it is by now.
DepositWrite(r) ==
    LET days == snap[r].days + 1
        gate == EvaluateGate(days, lastDay[r], snap[r].gate)
    IN
    /\ pc[r] = "deposit_write"
    /\ cycle' = [cycle EXCEPT !.total = snap[r].total + Daily,
                              !.days = days,
                              !.status = StatusAfterDeposit(days, gate),
                              !.gate = gate]
    /\ Goto(r, "incentive_create")
    /\ UNCHANGED <<dayLog, breakLog, incentive, trusted, monthEnd, pushes,
                   aborts>>

\* No incentive for the deposit that opens the gate.
MutIncentiveCreate(r) ==
    /\ pc[r] = "incentive_create"
    /\ IF cycle.status # "ACTIVE"
       THEN Return(r) /\ UNCHANGED incentive
       ELSE /\ incentive' = [incentive EXCEPT ![snap[r].days + 1] = "PENDING"]
            /\ Goto(r, "incentive_settle")
    /\ UNCHANGED <<cycle, dayLog, breakLog, trusted, monthEnd, pushes,
                   aborts>>

IncentiveCreate(r) ==
    /\ pc[r] = "incentive_create"
    /\ incentive' = [incentive EXCEPT ![snap[r].days + 1] = "PENDING"]
    /\ Goto(r, "incentive_settle")
    /\ UNCHANGED <<cycle, dayLog, breakLog, trusted, monthEnd, pushes,
                   aborts>>

\* callCbsTransfer answers success whatever the bank does.
IncentiveSettle(r) ==
    /\ pc[r] = "incentive_settle"
    /\ incentive' = [incentive EXCEPT ![snap[r].days + 1] = "SETTLED"]
    /\ Return(r)
    /\ UNCHANGED <<cycle, dayLog, breakLog, trusted, monthEnd, pushes,
                   aborts>>

-----------------------------------------------------------------------------
(* getCycleStatus: a GET that re-evaluates the gate of any cycle, whatever *)
(* its status, and writes back what changed.                               *)

StatusRead(r) ==
    /\ pc[r] = "idle" /\ RefIssued
    /\ EvaluateGate(cycle.days, monthEnd, cycle.gate) # cycle.gate
    /\ Enter(r, "status_write")
    /\ UNCHANGED <<rows, monthEnd, pushes, aborts>>

\* The whole row written back, not the two fields that changed.
MutStatusWrite(r) ==
    LET gate == EvaluateGate(snap[r].days, lastDay[r], snap[r].gate) IN
    /\ pc[r] = "status_write"
    /\ cycle' = [snap[r] EXCEPT !.gate = gate]
    /\ Return(r)
    /\ UNCHANGED <<dayLog, breakLog, incentive, trusted, monthEnd, pushes,
                   aborts>>

StatusWrite(r) ==
    LET gate == EvaluateGate(snap[r].days, lastDay[r], snap[r].gate) IN
    /\ pc[r] = "status_write"
    /\ cycle' = [cycle EXCEPT
                    !.gate = gate,
                    !.status = IF gate = "OPEN_MONTH_END"
                               THEN "MATURED_MONTH_END" ELSE snap[r].status]
    /\ Return(r)
    /\ UNCHANGED <<dayLog, breakLog, incentive, trusted, monthEnd, pushes,
                   aborts>>

-----------------------------------------------------------------------------
(* initiateBreakSafe: the log row, then the transition of the cycle.       *)

BreakRead(r) ==
    /\ pc[r] = "idle" /\ RefIssued
    /\ cycle.status = "ACTIVE"
    /\ cycle.gate = "LOCKED"
    /\ Enter(r, "break_log")
    /\ UNCHANGED <<rows, monthEnd, pushes, aborts>>

BreakRowOf(row) ==
    [total |-> row.total, penalty |-> Penalty(row.total),
     net |-> row.total - Penalty(row.total), days |-> row.days]

\* A break row that is there already taken for one's own.
MutInsertBreakRow(r, next) ==
    /\ breakLog' = IF BreakLogged THEN breakLog ELSE {BreakRowOf(snap[r])}
    /\ Goto(r, next)
    /\ UNCHANGED <<cycle, dayLog, incentive, trusted, monthEnd, pushes,
                   aborts>>

\* The insert both break-safe and an early biometric withdrawal make.
InsertBreakRow(r, next) ==
    /\ \/ /\ BreakLogged
          /\ Return(r)
          /\ UNCHANGED breakLog
       \/ /\ ~ BreakLogged
          /\ breakLog' = breakLog \cup {BreakRowOf(snap[r])}
          /\ Goto(r, next)
    /\ UNCHANGED <<cycle, dayLog, incentive, trusted, monthEnd, pushes,
                   aborts>>

BreakLog(r) ==
    /\ pc[r] = "break_log"
    /\ InsertBreakRow(r, "break_write")

\* The update both make after it.
MarkBroken(r) ==
    /\ cycle' = [cycle EXCEPT !.status = "BROKEN",
                              !.gate = "OPEN_EMERGENCY",
                              !.net = BreakRowOf(snap[r]).net]
    /\ UNCHANGED <<dayLog, breakLog, incentive, trusted, monthEnd, pushes,
                   aborts>>

\* The update made conditional on an active cycle, the log row left behind.
MutBreakWrite(r) ==
    /\ pc[r] = "break_write"
    /\ IF cycle.status = "ACTIVE" THEN MarkBroken(r)
       ELSE UNCHANGED <<rows, monthEnd, pushes, aborts>>
    /\ Return(r)

BreakWrite(r) ==
    /\ pc[r] = "break_write"
    /\ MarkBroken(r)
    /\ Return(r)

-----------------------------------------------------------------------------
(* executeWithdrawal: pay first, close the cycle after.                    *)

WithdrawRead(r) ==
    /\ pc[r] = "idle" /\ RefIssued
    /\ cycle.status # "WITHDRAWN"
    /\ cycle.gate # "LOCKED"
    /\ Enter(r, "withdraw_push")
    /\ UNCHANGED <<rows, monthEnd, pushes, aborts>>

\* A call that fails, times out or is refused falls through to a stub
\* reference: the request goes on as if the bank had paid.
PushFunds(r, by, amount, next) ==
    /\ \/ /\ "carried" \in BankOutcomes /\ Len(pushes) < MaxPushes
          /\ pushes' = Append(pushes, [by |-> by, amount |-> amount])
       \/ /\ "lost" \in BankOutcomes
          /\ UNCHANGED pushes
    /\ Goto(r, next)
    /\ UNCHANGED <<rows, monthEnd, aborts>>

WithdrawPush(r) ==
    /\ pc[r] = "withdraw_push"
    /\ PushFunds(r, "savings", Payout(snap[r]), "withdraw_close")

MarkWithdrawn ==
    /\ cycle' = [cycle EXCEPT !.status = "WITHDRAWN"]
    /\ UNCHANGED <<dayLog, breakLog, incentive, trusted, monthEnd, pushes,
                   aborts>>

WithdrawClose(r) ==
    /\ pc[r] = "withdraw_close"
    /\ MarkWithdrawn
    /\ Return(r)

-----------------------------------------------------------------------------
(* The clock, and requests that die: a statement that throws, or a server  *)
(* that stops, leaves the steps already made.                              *)

DayTurns ==
    /\ monthEnd' = ~ monthEnd
    /\ UNCHANGED <<rows, pushes, pc, snap, lastDay, aborts>>

Abort(r) ==
    /\ pc[r] # "idle" /\ aborts < MaxAborts
    /\ aborts' = aborts + 1
    /\ Return(r)
    /\ UNCHANGED <<rows, monthEnd, pushes>>

Start(r) ==
    \/ OpenCycle(r) \/ StatusRead(r) \/ BreakRead(r) \/ WithdrawRead(r)
    \/ \E amount \in Amounts : DepositRead(r, amount)

Continue(r) ==
    \/ OpenDayLog(r) \/ OpenLink(r)
    \/ DepositLog(r) \/ DepositWrite(r)
    \/ IncentiveCreate(r) \/ IncentiveSettle(r)
    \/ StatusWrite(r)
    \/ BreakLog(r) \/ BreakWrite(r)
    \/ WithdrawPush(r) \/ WithdrawClose(r)

Next ==
    \/ \E r \in Requests : Start(r) \/ Continue(r) \/ Abort(r)
    \/ DayTurns

\* A request that is not aborted goes on: its promises settle and the event
\* loop runs their continuations.  Nothing makes a client call, or the day
\* turn.
Spec == Init /\ [][Next]_vars /\ \A r \in Requests : WF_vars(Continue(r))

-----------------------------------------------------------------------------
(* Properties.                                                             *)

Quiet == \A r \in Requests : pc[r] = "idle"

\* The total after n days: day 1 is the fee, the others the daily amount.
TotalAfter(n) == Day1Fee + Daily * (n - 1)

\* What the cycle row counts and what the deposit log holds never part by
\* more than the one deposit that is between its two writes: the total is
\* the fee and the daily amount of the days counted, each counted day from
\* the second on has its row, no row is more than a day ahead, and a row
\* has its amount.  The row of a day is the only lock between deposits that
\* read the same cycle (recordDeposit inserts it before its blind update).
LedgerAgrees ==
    /\ cycle.status # "NONE" => cycle.total = TotalAfter(cycle.days)
    /\ \A d \in 2 .. cycle.days : DayLogged(d)
    /\ \A e \in dayLog :
           /\ e.day <= cycle.days + 1
           /\ e.amount = IF e.day = 1 THEN Day1Fee ELSE Daily

\* One break at most is ever recorded, by whichever service broke the cycle;
\* an emergency gate has a net payout, and that payout is the one the log
\* recorded: the total it saw less half, the odd unit staying with the
\* customer (initiateBreakSafe and the early withdrawal share one log).
BreakAgrees ==
    /\ \A b, c \in breakLog : b = c
    /\ cycle.gate = "OPEN_EMERGENCY" => cycle.net # NoAmount
    /\ cycle.net # NoAmount => \E b \in breakLog : cycle.net = b.net
    /\ \A b \in breakLog :
           /\ b.penalty + b.net = b.total
           /\ b.net - b.penalty \in {0, 1}
           /\ b.total = TotalAfter(b.days)

\* Nothing says full cycle before the last day is counted, though deposits
\* and status reads write gates and statuses they worked out on old rows.
MaturityHonest ==
    cycle.gate = "OPEN_FULL_CYCLE" \/ cycle.status = "MATURED_FULL_CYCLE"
        => cycle.days = FullCycleDays

\* An agent is paid an incentive only for a deposit the cycle counts, and
\* never for the first day (disburseIncentive runs after the cycle update).
CommissionCounted ==
    \A d \in Days : incentive[d] # "NONE" => d >= 2 /\ d <= cycle.days

\* Every payout is the total, or the total less the penalty, of a number of
\* days the cycle has reached, however old the row it was computed from.
Backed(amount, days) ==
    \E n \in 1 .. days :
        amount \in {TotalAfter(n), TotalAfter(n) - Penalty(TotalAfter(n))}

PushesBacked ==
    \A i \in 1 .. Len(pushes) : Backed(pushes[i].amount, cycle.days)

\* With no request in flight and none lost, nothing is half done: no row of
\* the deposit log waits to be counted, each counted day has paid its
\* incentive, and a recorded break has reached the cycle.
QuietMeansComplete ==
    Quiet /\ aborts = 0 =>
        /\ \A e \in dayLog : e.day <= cycle.days
        /\ \A d \in 2 .. cycle.days : incentive[d] = "SETTLED"
        /\ BreakLogged => cycle.net # NoAmount

\* The days saved never go back and never skip: of the handlers that write
\* from an old row, none undoes a deposit another one counted.
DaysGoUpByOne ==
    [][cycle.status # "NONE" => cycle'.days \in {cycle.days, cycle.days + 1}]_vars

\* A deposit whose row is written is counted and pays its incentive, unless
\* some request dies (nothing resumes a deposit that stopped half way).
DepositHonoured ==
    \A d \in Days \ {1} :
        DayLogged(d) /\ aborts = 0
            ~> \/ cycle.days >= d /\ incentive[d] = "SETTLED"
               \/ aborts > 0

\* evaluateGate: "irreversible" of the emergency gate.
EmergencyIrreversible ==
    [][cycle.gate = "OPEN_EMERGENCY" => cycle'.gate = "OPEN_EMERGENCY"]_vars
=============================================================================
