----------------------------- MODULE SdkModals ------------------------------
(***************************************************************************)
(* The thirteen functions of packages/fman-sdk, as the screens of their    *)
(* modals.  What a screen shows and the data typed into it are left out;   *)
(* where the code draws a random outcome, each outcome has its edge.       *)
(*                                                                         *)
(*   Click   a button moves on at once                                     *)
(*   Scan    a button starts a timer and is disabled until it ends         *)
(*   Wait    a timer started when the screen is entered moves on           *)
(*   Tell    a button calls onSuccess                                      *)
(*                                                                         *)
(* ends are the screens whose effect calls onSuccess after a while; nested *)
(* says that the callback of the last scan starts that timer instead.      *)
(***************************************************************************)

LOCAL Edge(from, how, to) == [from |-> from, how |-> how, to |-> to]
LOCAL Click(from, to) == Edge(from, "click", to)
LOCAL Scan(from, to) == Edge(from, "scan", to)
LOCAL Wait(from, to) == Edge(from, "wait", to)
LOCAL Tell(from) == Edge(from, "tell", from)

LOCAL Modal(first, edges, ends) ==
    [first |-> {first}, edges |-> edges, ends |-> ends, nested |-> FALSE]

\* Ten fingers: a scan leaves some to do, or the last is followed by a wait.
F01_BAS == Modal("identity",
    {Click("identity", "lookup"), Wait("lookup", "capture"), Scan("capture", "capture"),
     Scan("capture", "captured"), Wait("captured", "success")}, {"success"})

F02_ZFOE == Modal("form",
    {Click("form", "nibss"), Wait("nibss", "biometric"), Scan("biometric", "success")},
    {"success"})

F03_BIH == Modal("intro",
    {Click("intro", "scanning"), Wait("scanning", "liveness"), Scan("liveness", "done")},
    {"done"})

F04_BLS == Modal("review",
    {Click("review", "auth"), Scan("auth", "sweeping"), Wait("sweeping", "done")}, {"done"})

\* The face is scanned on entering the screen and by a button; a scan that
\* fails leaves the screen as it is.
F05_BLIDE == Modal("review",
    {Click("review", "face"), Scan("face", "face"), Scan("face", "confirming"),
     Wait("confirming", "done")}, {"done"})

F06_ZFPS == Modal("ready",
    {Click("ready", "running"), Wait("running", "done")}, {"done"})

\* MAX is two attempts.
F07_YES == Modal("review",
    {Click("review", "scanning"), Wait("scanning", "success"), Wait("scanning", "retry"),
     Click("retry", "rescanning"), Wait("rescanning", "success"),
     Wait("rescanning", "blocked")}, {"success"})

\* With an ajoId the savings are under way; matured savings are withdrawn by
\* a button, others broken behind a warning that can be left.
F08_SSA == [Modal("disclose",
    {Click("disclose", "setup"), Scan("setup", "active"), Tell("active"),
     Click("active", "break-warn"), Click("break-warn", "active"),
     Click("break-warn", "break-confirm"), Scan("break-confirm", "break-done"),
     Tell("break-done")}, {}) EXCEPT !.first = {"disclose", "active"}]

F09_BEPWG == Modal("gps",
    {Wait("gps", "proximity"), Wait("gps", "blocked"), Click("proximity", "auth"),
     Scan("auth", "done")}, {"done"})

\* The challenge has thirty seconds, until the button is pressed.
F10_LBAS == Modal("intro",
    {Click("intro", "challenge"), Wait("challenge", "failed"), Scan("challenge", "totp"),
     Click("failed", "challenge"), Click("totp", "done")}, {"done"})

F11_UNWP == [Modal("intro",
    {Click("intro", "challenge"), Click("challenge", "ledger"), Click("ledger", "auth"),
     Scan("auth", "done")}, {}) EXCEPT !.nested = TRUE]

F12_KYA == [Modal("roster",
    {Click("roster", "enroll"), Click("enroll", "roster"), Click("enroll", "bio"),
     Scan("bio", "done")}, {}) EXCEPT !.nested = TRUE]

\* The wait is a fetch.
F13_KINGMAKER == Modal("form",
    {Click("form", "submitting"), Wait("submitting", "success"), Wait("submitting", "error"),
     Click("error", "submitting"), Tell("success")}, {})

\* ActiveModal.
Functions ==
    {"BAS", "ZFOE", "BIH", "BLS", "BLIDE", "ZFPS", "YES_CALL", "SSA", "BEPWG", "LBAS",
     "UNWP", "KYA", "KINGMAKER"}

ModalOf(fn) ==
    CASE fn = "BAS" -> F01_BAS [] fn = "ZFOE" -> F02_ZFOE [] fn = "BIH" -> F03_BIH
      [] fn = "BLS" -> F04_BLS [] fn = "BLIDE" -> F05_BLIDE [] fn = "ZFPS" -> F06_ZFPS
      [] fn = "YES_CALL" -> F07_YES [] fn = "SSA" -> F08_SSA [] fn = "BEPWG" -> F09_BEPWG
      [] fn = "LBAS" -> F10_LBAS [] fn = "UNWP" -> F11_UNWP [] fn = "KYA" -> F12_KYA
      [] fn = "KINGMAKER" -> F13_KINGMAKER

Screens(fn) ==
    ModalOf(fn).first \cup {e.to : e \in ModalOf(fn).edges}

From(fn, screen, how) ==
    {e \in ModalOf(fn).edges : e.from = screen /\ e.how = how}

\* The screens on which onSuccess was called or is about to be.
LastScreens(fn) ==
    IF ModalOf(fn).nested THEN {"done"} ELSE ModalOf(fn).ends
=============================================================================
