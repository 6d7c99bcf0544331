-------------------------- MODULE KingmakerVaults ---------------------------
(***************************************************************************)
(* Sovereign vaults at a partner bank, apps/api/src/kingmaker.  The bank   *)
(* applies, is approved or suspended; vaults are opened there and, on day  *)
(* 31, flipped from restricted to active by a scheduler that holds the     *)
(* list of due vaults while it calls the bank for each.                    *)
(*                                                                         *)
(* One partner is followed.  Failure counts, amounts, latencies and the    *)
(* audit log, whose errors are swallowed, are left out.                    *)
(***************************************************************************)
EXTENDS ServiceFrame, Sequences, FiniteSets

CONSTANTS
    MaxVaults   \* bound: accounts after which no vault is created

ASSUME VaultAssumption == MaxVaults \in Nat

PartnerStatuses == {"NONE", "PENDING", "APPROVED", "SUSPENDED"}
VaultRecords == [status : {"RESTRICTED", "ACTIVE"}, due : BOOLEAN]

VaultRows ==
    [partner : PartnerStatuses,
     vaults : Seq(VaultRecords),
     totalVaultsCreated : Nat, totalVaultsFlipped : Nat]

VaultEmpty ==
    [partner |-> "NONE", vaults |-> <<>>, totalVaultsCreated |-> 0,
     totalVaultsFlipped |-> 0]

\* Restricted accounts opened at the bank, and which vaults it has flipped.
VaultWorlds == [nubans : Nat, flipped : SUBSET Nat]
VaultNothing == [nubans |-> 0, flipped |-> {}]

VaultHeld == SUBSET Nat      \* the vaults still to flip

PartnerSet(status) == [row EXCEPT !.partner = status]

ApplyAsPartner(r) ==
    service = "VAULT" /\ row.partner = "NONE" /\ Once(r, PartnerSet("PENDING"), world)

\* approvePartner and suspendPartner take a partner in any status.
ApprovePartner(r) ==
    service = "VAULT" /\ row.partner # "NONE" /\ Once(r, PartnerSet("APPROVED"), world)

SuspendPartner(r) ==
    service = "VAULT" /\ row.partner # "NONE" /\ Once(r, PartnerSet("SUSPENDED"), world)

CreateVault(r) ==
    /\ service = "VAULT" /\ row.partner = "APPROVED" /\ world.nubans < MaxVaults
    /\ Begin(r, "vault_open", {})

\* The bank opens an account, or the call throws with or without one.
BankCreateVault(r) ==
    /\ pc[r] = "vault_open"
    /\ LET opened == [world EXCEPT !.nubans = @ + 1]
       IN  Act(r, opened, "vault_row") \/ Pass(r, "idle") \/ Fault(r, "idle", opened)

VaultCreated(r) ==
    /\ pc[r] = "vault_row"
    /\ Save(r, [row EXCEPT !.vaults = Append(@, [status |-> "RESTRICTED", due |-> FALSE])],
            "vault_count")

VaultCountCreated(r) ==
    pc[r] = "vault_count" /\ Save(r, [row EXCEPT !.totalVaultsCreated = @ + 1], "idle")

\* flipScheduledFor is reached.
VaultTimePasses ==
    /\ service = "VAULT"
    /\ \E v \in DOMAIN row.vaults :
          /\ ~ row.vaults[v].due
          /\ Outside([row EXCEPT !.vaults[v].due = TRUE], world)

DueVaults ==
    {v \in DOMAIN row.vaults : row.vaults[v].due /\ row.vaults[v].status = "RESTRICTED"}

\* runDayThirtyOneFlip: by the cron of FLIP_CRON, or by hand.
RunFlip(r) ==
    service = "VAULT" /\ DueVaults # {} /\ Begin(r, "flip_partner", DueVaults)

\* The next vault; the run ends with the last.
Flipping(r) == CHOOSE v \in held[r] : \A w \in held[r] : v <= w

FlipNext(r) ==
    LET left == held[r] \ {Flipping(r)}
    IN  [label |-> IF left = {} THEN "idle" ELSE "flip_partner", left |-> left]

\* The partner is looked up again for each vault, and skipped if not approved.
FlipFindPartner(r) ==
    /\ pc[r] = "flip_partner"
    /\ IF row.partner = "APPROVED" THEN Pass(r, "flip_call")
       ELSE Step(r, FlipNext(r).label, FlipNext(r).left, row, world)

\* flipActive answers; one that fails, or whose answer is lost, leaves the vault
\* to the next run.
BankFlips(r) ==
    /\ pc[r] = "flip_call"
    /\ Act(r, [world EXCEPT !.flipped = @ \cup {Flipping(r)}], "flip_row")

BankFlipFails(r) ==
    /\ pc[r] = "flip_call"
    /\ \/ Pass(r, "flip_failed")
       \/ Fault(r, "flip_failed", [world EXCEPT !.flipped = @ \cup {Flipping(r)}])

FlipCountFailure(r) ==
    /\ pc[r] = "flip_failed"
    /\ Step(r, FlipNext(r).label, FlipNext(r).left, row, world)

VaultFlipped(r) ==
    /\ pc[r] = "flip_row"
    /\ Save(r, [row EXCEPT !.vaults[Flipping(r)].status = "ACTIVE"], "flip_count")

VaultCountFlipped(r) ==
    /\ pc[r] = "flip_count"
    /\ Step(r, FlipNext(r).label, FlipNext(r).left,
            [row EXCEPT !.totalVaultsFlipped = @ + 1], world)

VaultLabels ==
    {"vault_open", "vault_row", "vault_count", "flip_partner", "flip_call", "flip_row",
     "flip_count", "flip_failed"}

VaultCall(r) ==
    \/ ApplyAsPartner(r) \/ ApprovePartner(r) \/ SuspendPartner(r) \/ CreateVault(r)
    \/ RunFlip(r)

VaultGoOn(r) ==
    \/ BankCreateVault(r) \/ VaultCreated(r) \/ VaultCountCreated(r)
    \/ FlipFindPartner(r) \/ BankFlips(r) \/ BankFlipFails(r)
    \/ FlipCountFailure(r) \/ VaultFlipped(r) \/ VaultCountFlipped(r)
=============================================================================
