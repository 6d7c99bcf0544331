------------------------ MODULE OperationsServices -------------------------
(***************************************************************************)
(* The services that watch and administer: the lock of a terminal,         *)
(* confirmations and their second watch, a bank's application, licences    *)
(* and dedicated accounts, sovereign vaults, the SDK with its profile, the *)
(* gate and the proofs of executions, and location anchors.                *)
(* The initial state chooses the service followed.                         *)
(***************************************************************************)
EXTENDS TerminalLock, VerificationWatch, BankPipeline, RegulatoryWatch,
        KingmakerVaults, SdkHost, ExecutionProofs, LocationAnchors

OServices == {"TERMINAL", "VERIFY", "BANK", "LICENCE", "FLAGS", "VAULT", "SDK",
              "PROOF", "ANCHOR"}

FirstRows(s) ==
    CASE s = "TERMINAL" -> {TerminalEmpty}
      [] s = "VERIFY" -> {VerifyEmpty}
      [] s = "BANK" -> {BankEmpty}
      [] s = "LICENCE" -> LicenceSeeds
      [] s = "FLAGS" -> {FlagEmpty}
      [] s = "VAULT" -> {VaultEmpty}
      [] s = "SDK" -> {SdkEmpty}
      [] s = "PROOF" -> ProofRows
      [] s = "ANCHOR" -> {AnchorEmpty}

Nothing(s) ==
    CASE s = "TERMINAL" -> TerminalNothing
      [] s = "VERIFY" -> VerifyNothing
      [] s = "BANK" -> BankNothing
      [] s = "VAULT" -> VaultNothing
      [] s = "SDK" -> SdkNothing
      [] s = "PROOF" -> ProofNothing
      [] s = "ANCHOR" -> AnchorNothing
      [] OTHER -> NoValue

OInit ==
    /\ service \in OServices
    /\ row \in FirstRows(service)
    /\ world = Nothing(service)
    /\ FrameInit

\* What a request under way does next.
OGoOn(r) ==
    \/ service = "TERMINAL" /\ TerminalGoOn(r)
    \/ service = "VERIFY" /\ VerifyGoOn(r)
    \/ service = "BANK" /\ BankGoOn(r)
    \/ service \in {"LICENCE", "FLAGS"} /\ RegulatoryGoOn(r)
    \/ service = "VAULT" /\ VaultGoOn(r)
    \/ service = "SDK" /\ SdkGoOn(r)
    \/ service = "PROOF" /\ ProofGoOn(r)
    \/ service = "ANCHOR" /\ AnchorGoOn(r)

ONext ==
    \/ \E r \in Requests :
          \/ TerminalCall(r) \/ VerifyCall(r) \/ BankCall(r) \/ RegulatoryCall(r)
          \/ VaultCall(r) \/ SdkCall(r) \/ ProofCall(r) \/ AnchorCall(r)
          \/ OGoOn(r)
          \/ service = "SDK" /\ SdkFails(r)
          \/ Die(r)
    \/ TerminalTimePasses \/ TerminalDailyLock \/ VerifyTimePasses
    \/ LicenceTimePasses \/ BalanceChanges \/ VaultTimePasses
    \/ SdkPage \/ ProofTimePasses \/ AnchorTimePasses

\* A request that is not killed goes on and a timer that was set fires.  The
\* crons come again and again; a partner bank that is asked again and again
\* agrees in the end: a call succeeds with a chance of 98 in 100.
OSpec ==
    /\ OInit /\ [][ONext]_fvars
    /\ \A r \in Requests : WF_fvars(OGoOn(r))
    /\ SF_fvars(\E r \in Requests : TerminalFindInactive(r) \/ RunFlip(r))
    /\ SF_fvars(\E r \in Requests : BankFlips(r))
    /\ WF_fvars(GateOpens)

-----------------------------------------------------------------------------
\* The row, the requests' copies and the world have the service's types.
OLabels ==
    {"idle"} \cup TerminalLabels \cup VerifyLabels \cup BankLabels
             \cup RegulatoryLabels \cup VaultLabels \cup SdkLabels
             \cup ProofLabels \cup AnchorLabels

ORows(s) ==
    CASE s = "TERMINAL" -> TerminalRows [] s = "VERIFY" -> VerifyRows
      [] s = "BANK" -> BankRows [] s = "LICENCE" -> LicenceRows
      [] s = "FLAGS" -> FlagRows [] s = "VAULT" -> VaultRows [] s = "SDK" -> SdkRows
      [] s = "PROOF" -> ProofRows [] s = "ANCHOR" -> AnchorRows

OHeld(s) ==
    CASE s = "TERMINAL" -> TerminalHeld [] s = "VERIFY" -> VerifyHeld
      [] s = "BANK" -> BankHeld [] s = "LICENCE" -> LicenceStatuses
      [] s = "FLAGS" -> {} [] s = "VAULT" -> VaultHeld [] s = "SDK" -> SdkHeld
      [] s = "PROOF" -> ProofHeld [] s = "ANCHOR" -> Tokens

OWorld(s, w) ==
    CASE s = "TERMINAL" -> w \in TerminalWorlds [] s = "VERIFY" -> w \in VerifyWorlds
      [] s = "BANK" -> w \in BankWorlds [] s = "VAULT" -> w \in VaultWorlds
      [] s = "SDK" -> SdkWorld(w) [] s = "PROOF" -> w \in ProofWorlds
      [] s = "ANCHOR" -> w \in AnchorWorlds [] OTHER -> w = NoValue

OTypeOK ==
    /\ service \in OServices
    /\ row \in ORows(service)
    /\ OWorld(service, world)
    /\ pc \in [Requests -> OLabels]
    /\ \A r \in Requests : held[r] = NoValue \/ held[r] \in OHeld(service)
    /\ overlapped \in BOOLEAN /\ faults \in Nat

Settled == ~ Busy /\ faults = 0

ActiveVaults == {v \in DOMAIN row.vaults : row.vaults[v].status = "ACTIVE"}

\* A host is told of a launch by a timer that is still running.
Pending(p) ==
    \E t \in BagToSet(world.timers) : t.for = p /\ t.do \in {"tell", "nested", "orphan"}

\* Counters and notices agree with what happened.  CASD's count of pushes is
\* never ahead of the push rows, and equal once all is quiet; Kingmaker's
\* counts equal the vaults at the bank and in the table, except that runs which
\* overlap count a flip twice; each Yes of NIBSS mirrored is answered; and the
\* host is told once of a launch that ends, by most functions: a launch that
\* stands on its last screen is told, or will be, if its modal was opened for
\* it and not for an earlier one.
CountsHonest ==
    /\ service = "BANK" =>
          /\ row.pushCount <= row.pushes
          /\ Settled => row.pushCount = row.pushes
    /\ service = "VAULT" /\ Settled =>
          /\ row.totalVaultsCreated = Len(row.vaults) /\ world.nubans = Len(row.vaults)
          /\ row.totalVaultsFlipped >= Cardinality(ActiveVaults)
          /\ row.totalVaultsFlipped > Cardinality(ActiveVaults) => overlapped
    /\ service = "VERIFY" /\ Settled => row.mirrored = world.answered
    /\ service = "SDK" =>
          \A p \in Payloads :
             /\ world.told[p] <= 1 \/ world.fn \in {"BLIDE", "SSA", "KINGMAKER"}
             /\ /\ world.active = p /\ world.screen \in ModalOf(world.fn).ends
                /\ p \in world.shown
                => world.told[p] > 0 \/ Pending(p)

\* An alarm is raised when its condition is reached and nothing failed: a
\* third miss in a row at a terminal, unless attempts overlapped; as many
\* failed confirmations as the threshold, also when they overlapped; and a
\* dedicated account marked as low has its flag, one unless scans overlapped.
AlertsRaised ==
    /\ service = "TERMINAL" /\ Settled /\ ~ overlapped =>
          row.consecutiveFailedUnlocks = world.misses /\ world.misses < 3
    /\ service = "VERIFY" /\ Settled /\ Len(row.ledger) = Threshold
          /\ (\A i \in DOMAIN row.ledger : ~ row.ledger[i]) => world.reported
    /\ service = "FLAGS" =>
          /\ row.redFlagTriggered => row.open + row.resolved > 0 \/ Busy \/ faults > 0
          /\ row.open + row.resolved > 1 => overlapped

\* A status rests on what happened.  A terminal is operational because a gate
\* matched since it was locked, or an attempt was under way then; it is locked
\* for inactivity while in use only when requests overlap.  A bank's dates say
\* whether it was ever approved or rejected, a licence is suspended because it
\* ended, and a quiet renewal leaves no flag; overlaps excuse these.  A vault
\* is active because the bank made it so.  A Yes against the mirror is recorded
\* with its alert unless an enrolment overlapped.  The SDK believes the
\* business verified only because it is, or an administrator suspended it.
\* What an execution was let through on, and what a withdrawal was near, is
\* AcceptedOnEvidence and PassedNearAnchor.
StatusJustified ==
    /\ service = "TERMINAL" =>
          /\ row.lockState = "UNLOCKED" => world.matched \/ world.excused
          /\ world.harsh => overlapped
    /\ service = "BANK" =>
          \/ row.approvedAt = world.approved /\ row.rejectedAt = world.rejected
          \/ overlapped
    /\ service = "LICENCE" =>
          /\ row.status = "SUSPENDED" => row.licenseEndDate = "past" \/ overlapped
          /\ row.apiAccessRestricted <=> row.status = "SUSPENDED"
          /\ Settled /\ row.licenseEndDate = "far" => ~ row.expiring
    /\ service = "VAULT" => ActiveVaults \subseteq world.flipped
    /\ service = "VERIFY" => (world.unmarked => overlapped)
    /\ service = "SDK"
          /\ \/ world.copy = "verified" \/ world.gate = "verified"
             \/ world.active # NoPayload \/ Of(world, {"verified"}) # {}
          => row.status \in {"VERIFIED", "SUSPENDED"}
    /\ AcceptedOnEvidence
    /\ PassedNearAnchor

\* What is due is done: an inactive terminal is locked or used again, the last
\* vault that is due becomes active while its partner stays approved, and the
\* last step of the gate opens the function or the gate is closed.
WorkDue ==
    CASE service = "TERMINAL" -> row.lockState = "UNLOCKED" /\ row.idle
      [] service = "VAULT" ->
            row.partner = "APPROVED" /\ MaxVaults \in DOMAIN row.vaults
               /\ row.vaults[MaxVaults] = [status |-> "RESTRICTED", due |-> TRUE]
      [] service = "SDK" -> world.gate = "verified"
      [] OTHER -> FALSE

OperationsSettle == WorkDue ~> ~ WorkDue
=============================================================================
