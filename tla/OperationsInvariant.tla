------------------------ MODULE OperationsInvariant -------------------------
(***************************************************************************)
(* The inductive invariant of the operational services, in named parts:    *)
(* what the row says of the world (RowOK), what a request at some step     *)
(* relies on whatever the others do (RequestOK) and as long as no two      *)
(* overlapped (SoloOK), what is owed by a request under way when the row   *)
(* shows half of it (Owing), and what requests have in hand that no        *)
(* counter has yet (Counted).                                              *)
(***************************************************************************)
EXTENDS OperationsServices

FlipLabels == {"flip_partner", "flip_call", "flip_row", "flip_count", "flip_failed"}

LabelsOf(s) ==
    CASE s = "TERMINAL" -> TerminalLabels
      [] s = "VERIFY" -> VerifyLabels
      [] s = "BANK" -> BankLabels
      [] s = "LICENCE" -> {"lic_update", "lic_renew", "lic_resolve"}
      [] s = "FLAGS" -> {"flag_trigger", "flag_raise"}
      [] s = "VAULT" -> VaultLabels
      [] s = "SDK" -> SdkLabels
      [] s = "PROOF" -> ProofLabels
      [] s = "ANCHOR" -> AnchorLabels

Typed ==
    /\ service \in OServices
    /\ row \in ORows(service)
    /\ OWorld(service, world)
    /\ pc \in [Requests -> {"idle"} \cup LabelsOf(service)]
    /\ held \in [Requests -> OHeld(service) \cup {NoValue}]
    /\ overlapped \in BOOLEAN /\ faults \in Nat

-----------------------------------------------------------------------------
(* The terminal.  An attempt past its gates has a match behind it, or was  *)
(* under way at the last lock.  Alone, its copy of the count is the row's, *)
(* and the misses are the count and the one it is about to write.          *)

TerminalRowOK(rw, w, o) ==
    /\ rw.lockState = "UNLOCKED" => w.matched \/ w.excused
    /\ w.harsh => o

TerminalRequestOK(l, h, w) ==
    /\ l \in TerminalLabels => h \in TerminalHeld
    /\ l = "term_unlock" => w.matched \/ w.excused

TerminalSoloOK(l, h, rw, w, f) ==
    LET count == rw.consecutiveFailedUnlocks IN
    /\ l = "term_inactive" => rw.lockState # "UNLOCKED" \/ rw.idle
    /\ f = 0 =>
          /\ l \in {"idle", "term_inactive", "term_gates"} =>
                 count = w.misses /\ count < 3
          /\ l \in {"term_gates", "term_fail"} => h = count
          /\ l = "term_fail" => w.misses = count + 1 /\ count < 3
          /\ l \in {"term_unlock", "term_reset"} => w.misses = 0

-----------------------------------------------------------------------------
(* Confirmations and their mirror.                                         *)

Outcomes == [confirmed : BOOLEAN, contrary : BOOLEAN, alert : BOOLEAN]

VerifyRequestOK(l, h) ==
    /\ l \in {"ver_tfan", "ver_append"} => h \in Outcomes
    /\ l = "ver_mirror" =>
           h \in [found : 0..Gates, left : 0..Gates] /\ h.left <= h.found

VerifySoloOK(l, h, rw) ==
    /\ l = "ver_tfan" => ~ h.contrary
    /\ l = "ver_append" /\ rw.enrolled /\ h.contrary => h.alert

AllFailed(rw) ==
    Len(rw.ledger) = Threshold /\ \A i \in DOMAIN rw.ledger : ~ rw.ledger[i]

-----------------------------------------------------------------------------
(* The bank's application, the licence, the flags of an account.           *)

BankRequestOK(l, h) ==
    /\ l \in BankLabels => h \in BankHeld /\ h.left <= h.found
    /\ l = "bank_update" => h.left = h.found

BankSoloOK(l, h, rw, w) ==
    /\ rw.approvedAt = w.approved /\ rw.rejectedAt = w.rejected
    /\ l = "bank_update" =>
           h.approvedAt = rw.approvedAt /\ h.rejectedAt = rw.rejectedAt

LicenceRowOK(rw, o) ==
    /\ rw.status = "SUSPENDED" => rw.licenseEndDate = "past" \/ o
    /\ rw.apiAccessRestricted <=> rw.status = "SUSPENDED"

LicenceRequestOK(l, h) == l = "lic_update" => h \in LicenceStatuses

LicenceSoloOK(l, h, rw) ==
    l = "lic_update" /\ h = "SUSPENDED" => rw.licenseEndDate = "past"

FlagSoloOK(l, rw) ==
    /\ rw.open + rw.resolved <= 1
    /\ ~ rw.redFlagTriggered => rw.open + rw.resolved = 0
    /\ l = "flag_trigger" => ~ rw.redFlagTriggered
    /\ l = "flag_raise" => rw.redFlagTriggered /\ rw.open + rw.resolved = 0

-----------------------------------------------------------------------------
(* The vaults.  Alone, a run has only vaults in hand that are restricted,  *)
(* but for the one it has flipped and not counted.                         *)

ActiveOf(rw) == {v \in DOMAIN rw.vaults : rw.vaults[v].status = "ACTIVE"}

FirstOf(vaults) == CHOOSE v \in vaults : \A w \in vaults : v <= w

VaultRowOK(rw, w) == ActiveOf(rw) \subseteq w.flipped

VaultRequestOK(l, h, rw, w) ==
    /\ l \in FlipLabels => h # {} /\ h \subseteq DOMAIN rw.vaults
    /\ l = "flip_row" => FirstOf(h) \in w.flipped

VaultSoloOK(l, h, rw, f) ==
    f = 0 =>
        /\ rw.totalVaultsFlipped + (IF l = "flip_count" THEN 1 ELSE 0)
               = Cardinality(ActiveOf(rw))
        /\ l \in FlipLabels =>
               \A v \in h : \/ rw.vaults[v].status = "RESTRICTED"
                            \/ l = "flip_count" /\ v = FirstOf(h)

-----------------------------------------------------------------------------
(* Proofs and anchors.                                                     *)

ProofRowOK(rw, w) ==
    /\ \A s \in w.shown : s[2] <= w.now
    /\ \A p \in w.proofs :
          \E s \in w.shown : s[1] = p.ap /\ s[2] + HashTtl >= p.exp
    /\ w.accepted # NoValue =>
          /\ \E s \in w.shown :
                /\ s[1] = w.accepted.account
                /\ s[2] + (IF w.accepted.way = "proof" THEN HashTtl ELSE 0) >= w.now
          /\ rw.hashOnly => w.accepted.way = "proof"

ProofRequestOK(l, h, rw) ==
    l \in ProofLabels => h \in ProofHeld /\ (h.purpose = "operate" => ~ rw.hashOnly)

\* A place was the anchor when it was read: now, or the clock ticked since.
WasRead(place, w) == w.was[place] >= 0 /\ (w.was[place] = w.now \/ w.slow)

AnchorRowOK(rw, w) ==
    /\ rw.place # NoPlace => w.was[rw.place] = w.now
    /\ \A p \in Places : w.was[p] <= w.now
    /\ \A t \in w.tokens :
          /\ w.was[t.place] >= 0
          /\ w.was[t.place] + CacheTtl >= t.until \/ w.slow
    /\ w.passed # NoValue =>
          \E p \in Places :
             /\ CheckProximity(w.passed.device, p)
             /\ w.was[p] >= 0
             /\ \/ w.was[p] + (IF w.passed.way = "online" THEN 0 ELSE CacheTtl) >= w.now
                \/ w.passed.way = "offline" /\ w.slow

AnchorRequestOK(l, h, w) ==
    /\ l \in AnchorLabels => h \in Tokens
    /\ l = "anchor_upsert" => h.until <= w.now + CacheTtl
    /\ l = "anchor_mint" => WasRead(h.place, w)

-----------------------------------------------------------------------------
(* The page and its profile.  A profile once verified is verified or       *)
(* suspended from then on; an open gate has a launch waiting; the timers   *)
(* that move a modal are gone with it.                                     *)

ModalTimers == {"wait", "scan", "face", "nested"}

GateLabels == SdkLabels \ {"sdk_check", "sdk_checked"}

Believed(rw) == rw.status \in {"VERIFIED", "SUSPENDED"}

SdkShape(w) ==
    /\ w \in [copy : {"none", "loading", "verified", "other"}, gate : GateSteps,
              gateNo : Nat, submitting : BOOLEAN,
              pending : Payloads \cup {NoPayload}, active : Payloads \cup {NoPayload},
              launches : 0..MaxLaunches, fn : Functions \cup {"none"},
              screen : {w.screen}, scanning : BOOLEAN, timers : {w.timers},
              told : [Payloads -> Nat], shown : SUBSET Payloads]
    /\ IsABag(w.timers)
    /\ \A t \in BagToSet(w.timers) : t.for \in Payloads
    /\ w.active # NoPayload => w.fn \in Functions /\ w.screen \in Screens(w.fn)
    /\ Of(w, ModalTimers) # {} => w.active # NoPayload

SdkRowOK(rw, w) ==
    /\ SdkShape(w)
    /\ w.gate # "closed" => w.pending # NoPayload
    /\ \/ w.copy = "verified" \/ w.gate = "verified"
       \/ w.active # NoPayload \/ Of(w, {"verified"}) # {}
       => Believed(rw)

\* An answer that the gate will take finds it open.
SdkRequestOK(l, h, rw, w) ==
    /\ l \in SdkLabels => h \in SdkHeld /\ h.gate <= w.gateNo
    /\ l \in GateLabels /\ h.gate = w.gateNo => w.gate # "closed"
    /\ l \in {"sdk_verify", "sdk_verified"} => h.pending # NoPayload
    /\ l = "sdk_verified" \/ (l = "sdk_checked" /\ h.verified) => Believed(rw)

-----------------------------------------------------------------------------
(* The parts for the service followed.                                     *)

RowOK(rw, w, o) ==
    /\ service = "TERMINAL" => TerminalRowOK(rw, w, o)
    /\ service = "VERIFY" => (w.unmarked => o)
    /\ service = "LICENCE" => LicenceRowOK(rw, o)
    /\ service = "VAULT" => VaultRowOK(rw, w)
    /\ service = "SDK" => SdkRowOK(rw, w)
    /\ service = "PROOF" => ProofRowOK(rw, w)
    /\ service = "ANCHOR" => AnchorRowOK(rw, w)

RequestOK(l, h, rw, w) ==
    /\ service = "TERMINAL" => TerminalRequestOK(l, h, w)
    /\ service = "VERIFY" => VerifyRequestOK(l, h)
    /\ service = "BANK" => BankRequestOK(l, h)
    /\ service = "LICENCE" => LicenceRequestOK(l, h)
    /\ service = "VAULT" => VaultRequestOK(l, h, rw, w)
    /\ service = "SDK" => SdkRequestOK(l, h, rw, w)
    /\ service = "PROOF" => ProofRequestOK(l, h, rw)
    /\ service = "ANCHOR" => AnchorRequestOK(l, h, w)

SoloOK(l, h, rw, w, f) ==
    /\ service = "TERMINAL" => TerminalSoloOK(l, h, rw, w, f)
    /\ service = "VERIFY" => VerifySoloOK(l, h, rw)
    /\ service = "BANK" => BankSoloOK(l, h, rw, w)
    /\ service = "LICENCE" => LicenceSoloOK(l, h, rw)
    /\ service = "FLAGS" => FlagSoloOK(l, rw)
    /\ service = "VAULT" => VaultSoloOK(l, h, rw, f)

\* As long as nothing overlapped there is one request at most, and the row
\* and the world are as that request, or the last one, left them.
Solo ==
    service # "SDK" /\ ~ overlapped =>
        /\ \A q, r \in Requests : pc[q] # "idle" /\ pc[r] # "idle" => q = r
        /\ \A r \in Requests :
               pc[r] # "idle" => SoloOK(pc[r], held[r], row, world, faults)
        /\ ~ Busy => SoloOK("idle", NoValue, row, world, faults)

\* What somebody under way has still to do, unless something failed: a run of
\* failures to report, a renewed licence's flags to resolve, a flag to raise.
Owed(rw, w, f) ==
    /\ f = 0
    /\ \/ service = "VERIFY" /\ AllFailed(rw) /\ ~ w.reported
       \/ service = "LICENCE" /\ rw.licenseEndDate = "far" /\ rw.expiring
       \/ service = "FLAGS" /\ rw.redFlagTriggered /\ rw.open + rw.resolved = 0

Debtors == {"ver_rate", "lic_resolve", "flag_raise"}

Owing == Owed(row, world, faults) => \E r \in Requests : pc[r] \in Debtors

\* What a request has in hand: accounts opened that have no row yet, rows that
\* no counter or answer counts yet, flips not counted.
Kinds == {"unrecorded", "uncounted", "flips"}

Units(k, l, h) ==
    CASE k = "uncounted" /\ l \in {"bank_push", "ver_mirror"} -> h.found - h.left
      [] k = "uncounted" /\ l = "vault_count" -> 1
      [] k = "unrecorded" /\ l = "vault_row" -> 1
      [] k = "flips" /\ l = "flip_count" -> 1
      [] OTHER -> 0

InHand(k) ==
    UNION {{r} \X (1 .. Units(k, pc[r], held[r])) : r \in {q \in Requests : pc[q] # "idle"}}

Balanced(rw, w, f, n) ==
    /\ service = "BANK" =>
          /\ rw.pushCount + n["uncounted"] <= rw.pushes
          /\ f = 0 => rw.pushCount + n["uncounted"] = rw.pushes
    /\ service = "VERIFY" /\ f = 0 => rw.mirrored = w.answered + n["uncounted"]
    /\ service = "VAULT" /\ f = 0 =>
          /\ w.nubans = Len(rw.vaults) + n["unrecorded"]
          /\ Len(rw.vaults) = rw.totalVaultsCreated + n["uncounted"]
          /\ rw.totalVaultsFlipped + n["flips"] >= Cardinality(ActiveOf(rw))

Counted ==
    /\ \A k \in Kinds : IsFiniteSet(InHand(k))
    /\ Balanced(row, world, faults, [k \in Kinds |-> Cardinality(InHand(k))])

OperationsInv ==
    /\ Typed
    /\ RowOK(row, world, overlapped)
    /\ \A r \in Requests : RequestOK(pc[r], held[r], row, world)
    /\ Solo
    /\ Owing
    /\ Counted
-----------------------------------------------------------------------------
(* What the host is told, an invariant of its own that rests on the one    *)
(* above.  A payload waits for its turn (Fresh) as the number of a later   *)
(* launch, pending behind the gate, in a fetch of its last step or in the  *)
(* timer after it, in one of these at a time but for the first two steps   *)
(* of one gate.  A modal moves by one timer at a time, that of the screen  *)
(* it shows; so it reaches its last screen once, and tells once.           *)

Copies(b, t) == IF t \in DOMAIN b THEN b[t] ELSE 0

\* Functions that can tell twice of one launch.
Twice == {"BLIDE", "SSA", "KINGMAKER"}

Telling(w, p) == {t \in Of(w, {"tell", "nested", "orphan"}) : t.for = p}

Silent(w, p) == w.told[p] = 0 /\ Telling(w, p) = {}

Fresh(w, p) ==
    p \notin w.shown /\ p # w.active /\ (w.fn \notin Twice => Silent(w, p))

ToldOnce(w, p) ==
    /\ w.told[p] <= 1 /\ (Telling(w, p) # {} => w.told[p] = 0)
    /\ \A t, u \in Telling(w, p) : t = u
    /\ \A t \in Telling(w, p) : Copies(w.timers, t) = 1

OneTimer(w) ==
    LET modal == Of(w, ModalTimers)
    IN  /\ \A t, u \in modal : t = u
        /\ \A t \in modal :
              /\ Copies(w.timers, t) = 1 /\ t.at = w.screen
              /\ \/ t.do = "wait" /\ From(w.fn, w.screen, "wait") # {}
                 \/ /\ t.do = IF ModalOf(w.fn).nested THEN "nested" ELSE "scan"
                    /\ From(w.fn, w.screen, "scan") # {} /\ w.scanning

TellsOnce(w) ==
    w.fn \notin Twice =>
        /\ OneTimer(w)
        /\ \A p \in Payloads : ToldOnce(w, p)
        /\ /\ w.active # NoPayload /\ Of(w, {"nested"}) = {}
           /\ w.screen \notin LastScreens(w.fn)
           => Silent(w, w.active)

TellsAtLast(w) ==
    /\ w.active # NoPayload /\ w.active \in w.shown
    /\ w.screen \in ModalOf(w.fn).ends
    => w.told[w.active] > 0 \/ Telling(w, w.active) # {}

Waiting(w) ==
    /\ w.active <= w.launches /\ w.pending <= w.launches
    /\ \A p \in Payloads : p > w.launches \/ p = w.pending => Fresh(w, p)
    /\ \A t, u \in Of(w, {"verified"}) : t.for = u.for => t = u
    /\ \A t \in Of(w, {"verified"}) :
          /\ Copies(w.timers, t) = 1 /\ t.for <= w.launches /\ Fresh(w, t.for)
          /\ t.for = w.pending => w.gate = "verified"

PageOK(w) == TellsOnce(w) /\ TellsAtLast(w) /\ Waiting(w)

Verifying == {"sdk_verify", "sdk_verified"}

\* The step of the gate that sends a fetch.
StepOf(l) ==
    CASE l \in {"sdk_register", "sdk_registered"} -> "identity"
      [] l \in {"sdk_biometric", "sdk_captured"} -> "biometric"
      [] l \in Verifying -> "cbn"

FetchOK(l, h, w) ==
    /\ l \in GateLabels /\ h.gate = w.gateNo => w.submitting /\ w.gate = StepOf(l)
    /\ l \in Verifying =>
          /\ h.pending <= w.launches /\ Fresh(w, h.pending)
          /\ \A t \in Of(w, {"verified"}) : t.for # h.pending
          /\ h.pending = w.pending => h.gate = w.gateNo

\* Two fetches are of different gates, and open different payloads.
Apart(k, g, l, h) ==
    /\ k \in GateLabels /\ l \in GateLabels => g.gate # h.gate
    /\ k \in Verifying /\ l \in Verifying => g.pending # h.pending

HostToldInv ==
    service = "SDK" =>
        /\ PageOK(world)
        /\ \A r \in Requests : FetchOK(pc[r], held[r], world)
        /\ \A q, r \in Requests : q # r => Apart(pc[q], held[q], pc[r], held[r])

=============================================================================
