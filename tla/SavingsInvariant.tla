-------------------------- MODULE SavingsInvariant --------------------------
(***************************************************************************)
(* The inductive invariant of a savings cycle, in named parts.  It speaks  *)
(* of every request whatever service it belongs to, so that the same       *)
(* invariant serves SavingsCycle and its composition with BepwgGate.       *)
(***************************************************************************)
EXTENDS SavingsCycle

\* A row, current or read some time ago, is one the cycle has been, when the
\* cycle counts the given days and log is its break log: the row's days are
\* not ahead, its total is that of its days, it claims a full cycle only when
\* it is one, it is not active behind an emergency gate, and its net payout
\* is the recorded one.
RowIn(row, days, log) ==
    /\ row.days <= days
    /\ row.status = "NONE" <=> row.days = 0
    /\ row.status # "NONE" => row.total = TotalAfter(row.days)
    /\ row.gate = "OPEN_FULL_CYCLE" \/ row.status = "MATURED_FULL_CYCLE"
           => row.days = FullCycleDays
    /\ row.gate = "OPEN_EMERGENCY" =>
           row.net # NoAmount /\ row.status # "ACTIVE"
    /\ row.net # NoAmount => \E b \in log : row.net = b.net

RowOK(row) == RowIn(row, cycle.days, breakLog)

DepositLabels == {"deposit_log", "deposit_write", "incentive_create",
                  "incentive_settle"}

\* What a request in flight relies on.  Its copy of the row is sound; past
\* its first read, the cycle it read exists; a deposit read an active cycle
\* short of its last day, a status write a gate that can still change.  The
\* row of the next day is a lock: the deposit that inserted it read the cycle
\* as it still is.  The break row is a lock too: who inserted it marks the
\* cycle broken with the amounts it recorded.
RequestOK(r) ==
    /\ RowOK(snap[r])
    /\ pc[r] \in {"open_log", "open_link"} => cycle.status # "NONE"
    /\ pc[r] \notin {"idle", "open_log", "open_link"} =>
           snap[r].status # "NONE"
    /\ pc[r] \in DepositLabels =>
           snap[r].status = "ACTIVE" /\ snap[r].days < FullCycleDays
    /\ pc[r] = "status_write" => snap[r].gate # "OPEN_EMERGENCY"
    /\ pc[r] = "deposit_write" =>
           snap[r].days = cycle.days /\ DayLogged(cycle.days + 1)
    /\ pc[r] \in {"incentive_create", "incentive_settle"} =>
           snap[r].days < cycle.days
    /\ pc[r] \in {"break_write", "bepwg_break_write"} =>
           BreakRowOf(snap[r]) \in breakLog

OneDepositWriter ==
    \A q, r \in Requests :
        pc[q] = "deposit_write" /\ pc[r] = "deposit_write" => q = r

\* A break row holds what the cycle was worth at some day, split in two.
BreakLogOK ==
    /\ \A b \in breakLog :
           /\ b.days \in 1 .. cycle.days
           /\ b.total = TotalAfter(b.days)
           /\ b.penalty = Penalty(b.total)
           /\ b.net = b.total - Penalty(b.total)
    /\ \A b, c \in breakLog : b = c

IInv ==
    /\ TypeOK
    /\ RowOK(cycle)
    /\ \A r \in Requests : RequestOK(r)
    /\ OneDepositWriter
    /\ LedgerAgrees
    /\ BreakLogOK
    /\ CommissionCounted
    /\ PushesBacked

\* What is half done has a request that goes on with it: the row of a day not
\* yet counted, the incentive of a counted day, the break that has not reached
\* the cycle.  A request that dies ends this for good: nothing resumes it.
DaysFinishing ==
    \A e \in dayLog :
        e.day <= cycle.days \/ \E r \in Requests : pc[r] = "deposit_write"

PaysIncentive(r, d) ==
    /\ pc[r] \in {"incentive_create", "incentive_settle"}
    /\ snap[r].days + 1 = d

IncentivesFinishing ==
    \A d \in 2 .. cycle.days :
        incentive[d] = "SETTLED" \/ \E r \in Requests : PaysIncentive(r, d)

BreakFinishing ==
    \/ ~ BreakLogged
    \/ cycle.net # NoAmount
    \/ \E r \in Requests : pc[r] \in {"break_write", "bepwg_break_write"}

Finishing ==
    aborts = 0 => DaysFinishing /\ IncentivesFinishing /\ BreakFinishing
=============================================================================
