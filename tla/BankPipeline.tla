---------------------------- MODULE BankPipeline ----------------------------
(***************************************************************************)
(* A bank's application and the sovereign documents pushed to it,          *)
(* apps/api/src/casd.  Any status may be set from any status.  Documents   *)
(* are pushed one row at a time, and the application's counter follows.    *)
(*                                                                         *)
(* Dates are abstracted to whether they are set; notes are left out.       *)
(***************************************************************************)
EXTENDS ServiceFrame

CONSTANTS
    Docs,       \* how many sovereign documents are active (6 seeded)
    MaxPushed   \* bound: rows after which nothing more is pushed

ASSUME BankAssumption == Docs \in Nat \ {0} /\ MaxPushed \in Nat

BankStatuses ==
    {"PENDING_REVIEW", "VERIFICATION_IN_PROGRESS", "APPROVED", "REJECTED"}

BankRows ==
    [status : BankStatuses, approvedAt : BOOLEAN, rejectedAt : BOOLEAN,
     pushCount : Nat,
     pushes : Nat]     \* rows of BankDocPush

BankEmpty ==
    [status |-> "PENDING_REVIEW", approvedAt |-> FALSE, rejectedAt |-> FALSE,
     pushCount |-> 0, pushes |-> 0]

\* Whether the application was ever approved, and ever rejected.
BankWorlds == [approved : BOOLEAN, rejected : BOOLEAN]
BankNothing == [approved |-> FALSE, rejected |-> FALSE]

\* The dates loaded, the documents found, and how many are still to push.
BankHeld == [approvedAt : BOOLEAN, rejectedAt : BOOLEAN, found : Nat, left : Nat]

BankLoad(found) ==
    [approvedAt |-> row.approvedAt, rejectedAt |-> row.rejectedAt,
     found |-> found, left |-> found]

BankAdvance(r) ==
    service = "BANK" /\ row.pushes < MaxPushed /\ Begin(r, "bank_update", BankLoad(Docs))

\* The status is the request's; a date it does not set is written as loaded.
BankSetStatus(r) ==
    /\ pc[r] = "bank_update"
    /\ \E s \in BankStatuses :
          Step(r, IF s = "APPROVED" THEN "bank_push" ELSE "idle", held[r],
               [row EXCEPT !.status = s,
                           !.approvedAt = s = "APPROVED" \/ held[r].approvedAt,
                           !.rejectedAt = s = "REJECTED" \/ held[r].rejectedAt],
               [approved |-> world.approved \/ s = "APPROVED",
                rejected |-> world.rejected \/ s = "REJECTED"])

\* pushToBank: by hand, any of the documents, in any status.
BankPushManually(r) ==
    /\ service = "BANK" /\ row.pushes < MaxPushed
    /\ \E n \in 0..Docs : Begin(r, "bank_push", BankLoad(n))

BankPushNext(r) ==
    /\ pc[r] = "bank_push" /\ held[r].left > 0
    /\ Step(r, "bank_push", [held[r] EXCEPT !.left = @ - 1],
            [row EXCEPT !.pushes = @ + 1], world)

\* One increment, in the database, after the last row.
BankCountPushes(r) ==
    /\ pc[r] = "bank_push" /\ held[r].left = 0
    /\ Save(r, [row EXCEPT !.pushCount = @ + held[r].found], "idle")

BankLabels == {"bank_update", "bank_push"}

BankCall(r) == BankAdvance(r) \/ BankPushManually(r)

BankGoOn(r) == BankSetStatus(r) \/ BankPushNext(r) \/ BankCountPushes(r)
=============================================================================
