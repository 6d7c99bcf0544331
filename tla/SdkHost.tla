------------------------------ MODULE SdkHost -------------------------------
(***************************************************************************)
(* A host page with the SDK of packages/fman-sdk, and its profile in       *)
(* apps/api/src/sdk-profile.  The page asks once whether the profile is    *)
(* verified; a launch opens a function's modal, or first the four-step     *)
(* gate, whose fetches are the requests here.  Timers that a modal set go  *)
(* on when it is gone; only what they do outside it still counts.          *)
(*                                                                         *)
(* One function is followed, chosen when it first opens.  A payload is the *)
(* number of its launch.  Timers fire in any order.                        *)
(***************************************************************************)
EXTENDS ServiceFrame, SdkModals, Bags

CONSTANTS
    MaxLaunches,  \* bound: launches
    MaxTimers     \* bound: timers under way beyond which nothing is scanned

ASSUME SdkAssumption == MaxLaunches \in Nat /\ MaxTimers \in Nat

\* Bound: calls by a button for one launch.
MaxTold == 2

Payloads == 1..MaxLaunches
NoPayload == 0
GateSteps == {"closed", "identity", "biometric", "cbn", "verified", "pending"}

SdkRows ==
    [status : {"NONE", "PENDING", "VERIFIED", "SUSPENDED"}, biometricCaptured : BOOLEAN]

SdkEmpty == [status |-> "NONE", biometricCaptured |-> FALSE]

\* A timer's callback: what it does, from which screen, for which payload.
Callback(do, at, for) == [do |-> do, at |-> at, for |-> for]
Timer(do, at, for) == SetToBag({Callback(do, at, for)})

\* The page; told and shown are histories: how often each payload's onSuccess
\* was called, and whose first screen was shown.
SdkNothing ==
    [copy |-> "none", gate |-> "closed", gateNo |-> 0, submitting |-> FALSE,
     pending |-> NoPayload, active |-> NoPayload, launches |-> 0, fn |-> "none",
     screen |-> "none", scanning |-> FALSE, timers |-> EmptyBag,
     told |-> [p \in Payloads |-> 0], shown |-> {}]

\* What a fetch holds: the gate that sent it, what is to open, and the answer.
SdkHeld == [gate : Nat, pending : Payloads \cup {NoPayload}, verified : BOOLEAN]

Sent == [gate |-> world.gateNo, pending |-> world.pending, verified |-> FALSE]

-----------------------------------------------------------------------------
\* The modal.
Of(w, dos) == {t \in BagToSet(w.timers) : t.do \in dos}
Drop(w, ts) == [w EXCEPT !.timers = [t \in DOMAIN @ \ ts |-> @[t]]]
Ended(w, t) == [w EXCEPT !.timers = @ (-) SetToBag({t})]
Start(w, do) == [w EXCEPT !.timers = @ (+) Timer(do, w.screen, w.active)]

\* A screen is entered.  What it tells, it tells with the configuration that
\* the modal has at that moment.
Enter(w, screen) ==
    LET moved == [w EXCEPT !.screen = screen, !.scanning = FALSE]
        waits == IF From(w.fn, screen, "wait") # {} THEN Start(moved, "wait") ELSE moved
        faces == IF w.fn = "BLIDE" /\ screen = "face" THEN Start(waits, "face") ELSE waits
    IN  IF screen \in ModalOf(w.fn).ends THEN Start(faces, "tell") ELSE faces

\* setActive, of which there is one outcome for each function that may open: a
\* modal that is there stays, with its screen, and takes the new payload.
\* Variation: the modal begins again, and its timers go on.
MutActivate(w, p) ==
    UNION {{Enter([w EXCEPT !.active = p, !.fn = f, !.shown = @ \cup {p}], s) :
                s \in ModalOf(f).first} :
             f \in IF w.fn = "none" THEN Functions ELSE {w.fn}}

Activate(w, p) ==
    IF w.active # NoPayload THEN {[w EXCEPT !.active = p]}
    ELSE UNION {{Enter([w EXCEPT !.active = p, !.fn = f, !.shown = @ \cup {p}], s) :
                   s \in ModalOf(f).first} :
                f \in IF w.fn = "none" THEN Functions ELSE {w.fn}}

\* The timers of a modal that is gone change nothing, but the scan of a nested
\* one will still start the timer that tells.
Unmount(w) ==
    LET nested == {Callback("orphan", t.at, t.for) : t \in Of(w, {"nested"})}
        dropped == Drop(w, Of(w, {"wait", "scan", "face", "nested"}))
    IN  [dropped EXCEPT !.timers = @ (+) SetToBag(nested), !.active = NoPayload,
                        !.screen = "none", !.scanning = FALSE]

CloseGate(w) ==
    IF w.gate = "closed" THEN w
    ELSE [w EXCEPT !.gate = "closed", !.gateNo = @ + 1, !.pending = NoPayload,
                   !.submitting = FALSE]

InPage(newWorld) == service = "SDK" /\ Outside(row, newWorld)

SdkLaunch ==
    /\ service = "SDK" /\ world.copy # "none" /\ world.launches < MaxLaunches
    /\ LET w == [world EXCEPT !.launches = @ + 1]
       IN  IF world.copy = "verified" THEN \E v \in Activate(w, w.launches) : InPage(v)
           ELSE InPage([w EXCEPT !.pending = w.launches,
                                 !.gate = IF @ = "closed" THEN "identity" ELSE @])

\* The host calls close, of its own or from a modal's onAbort.
SdkClose ==
    /\ service = "SDK" /\ (world.active # NoPayload \/ world.gate # "closed")
    /\ InPage(CloseGate(Unmount(world)))

GateAbort ==
    service = "SDK" /\ world.gate \in {"identity", "pending"} /\ InPage(CloseGate(world))

ModalClick ==
    /\ service = "SDK" /\ world.active # NoPayload
    /\ \E e \in From(world.fn, world.screen, "click") : InPage(Enter(world, e.to))

\* The button of a scan stops the screen's own timer, where it has one.
ModalScan ==
    /\ service = "SDK" /\ world.active # NoPayload /\ ~ world.scanning
    /\ From(world.fn, world.screen, "scan") # {}
    /\ BagCardinality(world.timers) < MaxTimers
    /\ InPage([Start(Drop(world, Of(world, {"wait"})),
                     IF ModalOf(world.fn).nested THEN "nested" ELSE "scan")
               EXCEPT !.scanning = TRUE])

ModalTell ==
    /\ service = "SDK" /\ world.active # NoPayload
    /\ From(world.fn, world.screen, "tell") # {} /\ world.told[world.active] < MaxTold
    /\ InPage([world EXCEPT !.told[world.active] = @ + 1])

\* A timer of the modal fires.  An edge back to the screen it began on only
\* ends the scan.
ModalTimerFires ==
    service = "SDK" /\ \E t \in Of(world, {"wait", "scan", "face", "nested"}) :
       LET w == Ended(world, t)
       IN  \/ /\ t.do = "face"
              /\ InPage([Start(w, "scan") EXCEPT !.scanning = TRUE])
           \/ /\ t.do = "wait"
              /\ \E e \in From(w.fn, t.at, "wait") : InPage(Enter(w, e.to))
           \/ /\ t.do = "scan"
              /\ \E e \in From(w.fn, t.at, "scan") :
                    InPage(IF e.to = t.at THEN [w EXCEPT !.scanning = FALSE]
                           ELSE Enter(w, e.to))
           \/ /\ t.do = "nested"
              /\ \E e \in From(w.fn, t.at, "scan") :
                    InPage([Enter(w, e.to) EXCEPT !.timers =
                              @ (+) Timer("tell", e.to, t.for)])

\* What outlives the modal.
HostTimerFires ==
    service = "SDK" /\ \E t \in Of(world, {"tell", "orphan"}) :
       IF t.do = "tell" THEN InPage([Ended(world, t) EXCEPT !.told[t.for] = @ + 1])
       ELSE InPage([Ended(world, t) EXCEPT !.timers = @ (+) Timer("tell", "done", t.for)])

-----------------------------------------------------------------------------
\* The page's check, once, on mount; the answer may be late.
SdkCheck(r) ==
    /\ service = "SDK" /\ world.copy = "none" /\ pc[r] = "idle"
    /\ Step(r, "sdk_check", Sent, row, [world EXCEPT !.copy = "loading"])

SdkCheckStatus(r) ==
    /\ pc[r] = "sdk_check"
    /\ Step(r, "sdk_checked", [held[r] EXCEPT !.verified = row.status = "VERIFIED"],
            row, world)

SdkChecked(r) ==
    /\ pc[r] = "sdk_checked"
    /\ Act(r, [world EXCEPT !.copy = IF held[r].verified THEN "verified" ELSE "other"],
           "idle")

SdkCheckFails(r) ==
    /\ pc[r] \in {"sdk_check", "sdk_checked"}
    /\ Fault(r, "idle", [world EXCEPT !.copy = "other"])

\* The gate's fetches.  The answer is for the gate that sent it.
GateSends(r, step, label) ==
    /\ service = "SDK" /\ world.gate = step /\ ~ world.submitting /\ pc[r] = "idle"
    /\ Step(r, label, Sent, row, [world EXCEPT !.submitting = TRUE])

GateMoves(r, step) ==
    IF held[r].gate # world.gateNo THEN world
    ELSE [world EXCEPT !.gate = step, !.submitting = FALSE]

\* register: a profile that is there is no obstacle to the gate.
GateSubmitIdentity(r) == GateSends(r, "identity", "sdk_register")

SdkRegister(r) ==
    /\ pc[r] = "sdk_register"
    /\ Save(r, [row EXCEPT !.status = IF @ = "NONE" THEN "PENDING" ELSE @],
            "sdk_registered")

GateRegistered(r) == pc[r] = "sdk_registered" /\ Act(r, GateMoves(r, "biometric"), "idle")

GateNotRegistered(r) ==
    /\ pc[r] \in {"sdk_register", "sdk_registered"}
    /\ Fault(r, "idle", GateMoves(r, "identity"))

\* captureBiometric, after the scan's timer; whatever goes wrong is swallowed.
GateScanBiometric(r) == GateSends(r, "biometric", "sdk_biometric")

SdkCaptureBiometric(r) ==
    /\ pc[r] = "sdk_biometric"
    /\ Save(r, [row EXCEPT !.biometricCaptured = TRUE], "sdk_captured")

SdkNotCaptured(r) == pc[r] = "sdk_biometric" /\ Fault(r, "sdk_captured", world)

GateCaptured(r) == pc[r] = "sdk_captured" /\ Act(r, GateMoves(r, "cbn"), "idle")

\* verify asks neither what was captured nor whether the profile is suspended.
GateSubmitCbn(r) == GateSends(r, "cbn", "sdk_verify")

SdkVerify(r) ==
    pc[r] = "sdk_verify" /\ Save(r, [row EXCEPT !.status = "VERIFIED"], "sdk_verified")

\* Variation: the step is shown, and its timer is gone with the render.
MutGateVerified(r) == pc[r] = "sdk_verified" /\ Act(r, GateMoves(r, "verified"), "idle")

\* The timer of the last step keeps what was pending when the step was sent.
GateVerified(r) ==
    /\ pc[r] = "sdk_verified"
    /\ Act(r, [GateMoves(r, "verified") EXCEPT
                  !.timers = @ (+) Timer("verified", "gate", held[r].pending)], "idle")

\* Variation: the step goes on also when the call failed.
MutGateNotVerified(r) ==
    /\ pc[r] \in {"sdk_verify", "sdk_verified"}
    /\ Fault(r, "idle", [GateMoves(r, "verified") EXCEPT
                  !.timers = @ (+) Timer("verified", "gate", held[r].pending)])

GateNotVerified(r) ==
    /\ pc[r] \in {"sdk_verify", "sdk_verified"}
    /\ Fault(r, "idle", GateMoves(r, "pending"))

\* onGateVerified: also when the gate was closed or the host launched again.
GateOpens ==
    service = "SDK" /\ \E t \in Of(world, {"verified"}) :
       LET w == [CloseGate(Ended(world, t)) EXCEPT !.copy = "verified"]
       IN  \E v \in Activate(w, t.for) : InPage([v EXCEPT !.pending = NoPayload])

AdminVerify(r) ==
    /\ service = "SDK" /\ row.status # "NONE"
    /\ Once(r, [row EXCEPT !.status = "VERIFIED"], world)

AdminSuspend(r) ==
    /\ service = "SDK" /\ row.status # "NONE"
    /\ Once(r, [row EXCEPT !.status = "SUSPENDED"], world)

SdkLabels ==
    {"sdk_check", "sdk_checked", "sdk_register", "sdk_registered", "sdk_biometric",
     "sdk_captured", "sdk_verify", "sdk_verified"}

SdkCall(r) ==
    \/ SdkCheck(r) \/ GateSubmitIdentity(r) \/ GateScanBiometric(r) \/ GateSubmitCbn(r)
    \/ AdminVerify(r) \/ AdminSuspend(r)

SdkGoOn(r) ==
    \/ SdkCheckStatus(r) \/ SdkChecked(r) \/ SdkRegister(r) \/ GateRegistered(r)
    \/ SdkCaptureBiometric(r) \/ GateCaptured(r) \/ SdkVerify(r) \/ GateVerified(r)

SdkFails(r) ==
    \/ SdkCheckFails(r) \/ GateNotRegistered(r) \/ SdkNotCaptured(r) \/ GateNotVerified(r)

\* In the page: the user, the host, and timers.
SdkPage ==
    \/ SdkLaunch \/ SdkClose \/ GateAbort \/ ModalClick \/ ModalScan \/ ModalTell
    \/ ModalTimerFires \/ HostTimerFires \/ GateOpens

SdkWorld(w) ==
    /\ w.copy \in {"none", "loading", "verified", "other"} /\ w.gate \in GateSteps
    /\ {w.pending, w.active} \subseteq Payloads \cup {NoPayload}
    /\ w.fn \in Functions \cup {"none"}
    /\ w.active # NoPayload => w.screen \in Screens(w.fn)
    /\ IsABag(w.timers)
    /\ w.told \in [Payloads -> Nat] /\ w.shown \subseteq Payloads
=============================================================================
