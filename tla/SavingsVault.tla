---------------------------- MODULE SavingsVault ----------------------------
(***************************************************************************)
(* What a savings cycle promises its customer: money goes in while the     *)
(* vault is locked, the vault unlocks or is broken, and it pays once: all  *)
(* of what was saved when it unlocked, that less half when it was broken.  *)
(* It pays again only if the server died between a payout and the end of   *)
(* it.                                                                     *)
(***************************************************************************)
EXTENDS Integers, Sequences

CONSTANTS Fee, Daily, Full

VARIABLES
    phase,   \* "none" before it opens, "live", "paying", "closed"
    lock,    \* "locked", "open" or "broken"
    days,    \* days saved
    paid,    \* what the bank paid out, oldest first
    deaths   \* how often the server died

vvars == <<phase, lock, days, paid, deaths>>

Saved == Fee + Daily * (days - 1)

Worth == IF lock = "open" THEN Saved ELSE Saved - (Saved * 50) \div 100

VInit ==
    /\ phase = "none" /\ lock = "locked"
    /\ days = 0 /\ paid = <<>> /\ deaths = 0

Open ==
    /\ phase = "none" /\ phase' = "live"
    /\ days' = 1
    /\ UNCHANGED <<lock, paid, deaths>>

\* A deposit; it may be the one that unlocks the vault, and the last does.
Save ==
    /\ phase = "live" /\ lock = "locked" /\ days < Full
    /\ days' = days + 1
    /\ lock' \in {"locked", "open"} /\ (days' = Full => lock' = "open")
    /\ UNCHANGED <<phase, paid, deaths>>

UnlockOrBreak ==
    /\ phase = "live" /\ lock = "locked"
    /\ lock' \in {"open", "broken"}
    /\ UNCHANGED <<phase, days, paid, deaths>>

\* Nothing is paid when the bank loses a payout: the code takes the failure
\* for a success, and the vault is closed all the same.
Pay(bankPays) ==
    /\ phase = "live" /\ lock # "locked"
    /\ phase' = "paying"
    /\ paid' = IF bankPays THEN Append(paid, Worth) ELSE paid
    /\ UNCHANGED <<lock, days, deaths>>

Close ==
    /\ phase = "paying" /\ phase' = "closed"
    /\ UNCHANGED <<lock, days, paid, deaths>>

\* A payout in progress is forgotten; anything else is as it was.
Die ==
    /\ deaths' = deaths + 1
    /\ phase' = IF phase = "paying" THEN "live" ELSE phase
    /\ UNCHANGED <<lock, days, paid>>

VNext ==
    \/ Open \/ Save \/ UnlockOrBreak
    \/ \E bankPays \in BOOLEAN : Pay(bankPays)
    \/ Close \/ Die

VSpec == VInit /\ [][VNext]_vvars
=============================================================================
