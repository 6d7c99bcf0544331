---------------------------- MODULE TerminalLock ----------------------------
(***************************************************************************)
(* The lock of a POS terminal, apps/api/src/terminal, with the stealth     *)
(* report of apps/api/src/sentinel.  An agent unlocks a terminal by one    *)
(* NIBSS gate; crons lock it at 06:00 and when it is inactive.             *)
(*                                                                         *)
(* The settlement a heartbeat starts is modelled in ExecutionLedger.       *)
(***************************************************************************)
EXTENDS ServiceFrame

CONSTANTS
    MaxMisses   \* bound: misses, and counts of them, after which no attempt begins

ASSUME TerminalAssumption == MaxMisses \in Nat

TerminalRows ==
    [lockState : {"NONE", "HARD_LOCK", "UNLOCKED"},
     consecutiveFailedUnlocks : Nat,
     idle : BOOLEAN]     \* lastActivityAt is before the cutoff

TerminalEmpty ==
    [lockState |-> "NONE", consecutiveFailedUnlocks |-> 0, idle |-> FALSE]

\* misses: since the last match or report; matched: since the last lock;
\* excused: an attempt was under way when the terminal was locked;
\* harsh: locked for inactivity while active.
TerminalWorlds ==
    [misses : Nat, matched : BOOLEAN, excused : BOOLEAN, harsh : BOOLEAN]

TerminalNothing ==
    [misses |-> 0, matched |-> FALSE, excused |-> FALSE, harsh |-> FALSE]

TerminalHeld == Nat      \* consecutiveFailedUnlocks, as loaded

Attempting == \E q \in Requests : pc[q] \in {"term_gates", "term_unlock"}

Locked(newWorld) == [newWorld EXCEPT !.matched = FALSE, !.excused = Attempting]

TerminalBind(r) ==
    /\ service = "TERMINAL" /\ row.lockState = "NONE"
    /\ Once(r, [row EXCEPT !.lockState = "HARD_LOCK"], world)

TerminalTimePasses ==
    /\ service = "TERMINAL" /\ row.lockState # "NONE"
    /\ Outside([row EXCEPT !.idle = TRUE], world)

TerminalHeartbeat(r) ==
    /\ service = "TERMINAL" /\ row.lockState # "NONE"
    /\ Once(r, [row EXCEPT !.idle = FALSE], world)

\* attemptUnlock on a terminal that is operational is a heartbeat.
TerminalAlreadyOperational(r) ==
    service = "TERMINAL" /\ row.lockState = "UNLOCKED" /\ TerminalHeartbeat(r)

TerminalAttemptUnlock(r) ==
    /\ service = "TERMINAL" /\ row.lockState = "HARD_LOCK"
    /\ world.misses < MaxMisses /\ row.consecutiveFailedUnlocks < MaxMisses
    /\ Begin(r, "term_gates", row.consecutiveFailedUnlocks)

\* One Yes is enough; a gate whose call throws ends the attempt (Die).
TerminalRunGates(r) ==
    /\ pc[r] = "term_gates"
    /\ \/ Act(r, [world EXCEPT !.misses = 0, !.matched = TRUE], "term_unlock")
       \/ Act(r, [world EXCEPT !.misses = @ + 1], "term_fail")

TerminalUnlock(r) ==
    /\ pc[r] = "term_unlock"
    /\ Save(r, [lockState |-> "UNLOCKED", consecutiveFailedUnlocks |-> 0,
                idle |-> FALSE], "idle")

\* Variation: the count is kept one behind.
MutTerminalCountFailure(r) ==
    /\ pc[r] = "term_fail"
    /\ Save(r, [row EXCEPT !.consecutiveFailedUnlocks = held[r] + 1],
            IF held[r] >= 3 THEN "term_report" ELSE "idle")

TerminalCountFailure(r) ==
    /\ pc[r] = "term_fail"
    /\ Save(r, [row EXCEPT !.consecutiveFailedUnlocks = held[r] + 1],
            IF held[r] + 1 >= 3 THEN "term_report" ELSE "idle")

\* reportStealthCaptureAndGpsAlert throws nothing: a call that fails is a log
\* line, and no code asks whether the report arrived.
ReportStealthCapture(r) ==
    pc[r] = "term_report" /\ Act(r, [world EXCEPT !.misses = 0], "term_reset")

TerminalResetCount(r) ==
    /\ pc[r] = "term_reset"
    /\ Step(r, "idle", held[r],
            [row EXCEPT !.consecutiveFailedUnlocks = 0, !.lockState = "HARD_LOCK"],
            Locked(world))

\* The cron of 06:00 WAT.
TerminalDailyLock ==
    /\ service = "TERMINAL" /\ row.lockState # "NONE"
    /\ Outside([row EXCEPT !.lockState = "HARD_LOCK"], Locked(world))

\* The cron of every minute finds the inactive terminals, then locks each.
TerminalFindInactive(r) ==
    /\ service = "TERMINAL" /\ row.lockState = "UNLOCKED" /\ row.idle
    /\ Begin(r, "term_inactive", 0)

TerminalInactivityLock(r) ==
    /\ pc[r] = "term_inactive"
    /\ Step(r, "idle", held[r], [row EXCEPT !.lockState = "HARD_LOCK"],
            [Locked(world) EXCEPT !.harsh = @ \/ (row.lockState = "UNLOCKED" /\ ~ row.idle)])

TerminalLabels ==
    {"term_gates", "term_unlock", "term_fail", "term_report", "term_reset",
     "term_inactive"}

TerminalCall(r) ==
    \/ TerminalBind(r) \/ TerminalHeartbeat(r) \/ TerminalAlreadyOperational(r)
    \/ TerminalAttemptUnlock(r) \/ TerminalFindInactive(r)

TerminalGoOn(r) ==
    \/ TerminalRunGates(r) \/ TerminalUnlock(r) \/ TerminalCountFailure(r)
    \/ ReportStealthCapture(r) \/ TerminalResetCount(r) \/ TerminalInactivityLock(r)
=============================================================================
