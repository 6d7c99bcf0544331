------------------------- MODULE SavingsRefinement -------------------------
(***************************************************************************)
(* The savings services implement SavingsVault as long as their requests   *)
(* do not overlap, also when they die half way.                            *)
(***************************************************************************)
EXTENDS SavingsCycle

PhaseOf(status) ==
    CASE status = "NONE" -> "none"
      [] status = "WITHDRAWN" -> "closed"
      [] OTHER -> IF \E r \in Requests : pc[r] = "withdraw_close" THEN "paying"
                  ELSE "live"

LockOf(gate) ==
    CASE gate = "LOCKED" -> "locked"
      [] gate = "OPEN_EMERGENCY" -> "broken"
      [] OTHER -> "open"

Vault == INSTANCE SavingsVault WITH
    Fee <- Day1Fee, Full <- FullCycleDays,
    phase <- PhaseOf(cycle.status), lock <- LockOf(cycle.gate),
    days <- cycle.days,
    paid <- [i \in 1 .. Len(pushes) |-> pushes[i].amount],
    deaths <- aborts

\* A cycle served one request at a time pays its customer once, everything
\* after the full cycle or a month end and half of it after a break, and no
\* deposit, status read or break touches it after that (the handlers of the
\* savings controller, in any order).  A request that dies leaves nothing
\* that changes this, but one that dies between the payout and the close:
\* then, and only then, the cycle is paid once more.
VaultKept == Vault!VSpec

-----------------------------------------------------------------------------
(* Why: as long as requests take turns, a row and what a request read of   *)
(* it agree.                                                               *)

OneAtATime == \A q, r \in Requests : pc[q] # "idle" /\ pc[r] # "idle" => q = r

\* The gate and the status move together, the last day opens the gate, and
\* only an emergency gate has a net payout, half of the total.
GateAgrees ==
    /\ cycle.status = "NONE" => cycle = NoCycle
    /\ cycle.gate = "LOCKED" <=> cycle.status \in {"NONE", "ACTIVE"}
    /\ cycle.days = FullCycleDays <=> cycle.gate = "OPEN_FULL_CYCLE"
    /\ cycle.net = IF cycle.gate = "OPEN_EMERGENCY"
                   THEN cycle.total - Penalty(cycle.total) ELSE NoAmount

BeforeWrite ==
    {"deposit_log", "deposit_write", "status_write", "break_log", "break_write",
     "withdraw_push", "withdraw_close"}

\* A request that has not written the row yet, alone, holds it as it is; what
\* it checked still stands.
TurnOK(r) ==
    /\ pc[r] \in BeforeWrite => snap[r] = cycle
    /\ pc[r] \in {"deposit_log", "deposit_write", "break_log", "break_write"} =>
           cycle.status = "ACTIVE"
    /\ pc[r] = "status_write" =>
           EvaluateGate(cycle.days, lastDay[r], cycle.gate) # cycle.gate
    /\ pc[r] \in {"withdraw_push", "withdraw_close"} =>
           cycle.gate # "LOCKED" /\ cycle.status # "WITHDRAWN"

SerialInv == GateAgrees /\ \A r \in Requests : TurnOK(r)
=============================================================================
