-------------------------- MODULE IdentityGateways --------------------------
(***************************************************************************)
(* What the identity services call outside: the NIBSS registry, which      *)
(* tells whose finger or face is shown, and a bank's core banking system,  *)
(* which opens accounts.  In the sources both are stubs; here they answer  *)
(* as the callers expect of the real ones.                                 *)
(***************************************************************************)
EXTENDS ServiceFrame

CONSTANTS
    People,     \* those NIBSS can recognise
    NoOne

ASSUME GatewayAssumption == NoOne \notin People

Anyone == People \cup {NoOne}

Evidence == {"finger", "seal", "face", "live", "tasks", "passive"}

WorldType ==
    [done : Nat,        \* accounts opened and operations executed
     told : Nat,        \* answers or texts that report one
     served : SUBSET Anyone,               \* on whose account, or in whose name
     shown : SUBSET (Anyone \X Evidence),  \* who has shown what
     refused : BOOLEAN, \* history: a bank refused
     revoked : BOOLEAN, \* history: operators revoked the sensor
     excused : BOOLEAN, \* history: an outcome the service reports otherwise
     repeats : Nat]     \* history: duplicates of what should exist once

NothingDone ==
    [done |-> 0, told |-> 0, served |-> {}, shown |-> {}, refused |-> FALSE,
     revoked |-> FALSE, excused |-> FALSE, repeats |-> 0]

\* What a request holds: the row it loaded, when it uses more of it than the
\* check of its status, whom NIBSS named, and the challenge it answers.
Loaded == [row |-> row, person |-> NoOne, challenge |-> 0]
Checked == [Loaded EXCEPT !.row = NoValue]

Show(p, e) == [world EXCEPT !.shown = @ \cup {<<p, e>>}]
Serve(p) == [world EXCEPT !.done = @ + 1, !.served = @ \cup {p}]
Tell == [world EXCEPT !.told = @ + 1]
Excuse == [world EXCEPT !.excused = TRUE]

\* One-to-many search: NIBSS names whose finger it is, or nobody's.
SearchByFingerprint(r, e, matched, noMatch) ==
    \/ \E p \in People :
          Step(r, matched, [held[r] EXCEPT !.person = p], row, Show(p, e))
    \/ Pass(r, noMatch)

SearchByFace(r, matched, noMatch) ==
    \/ \E p \in People :
          Step(r, matched, [held[r] EXCEPT !.person = p], row, Show(p, "face"))
    \/ Pass(r, noMatch)

\* The bank opens an account and answers, refuses, or opens it and the answer
\* is lost; the caller cannot tell the last two apart.
PushToCbs(r, p, answered, failed) ==
    \/ Act(r, Serve(p), answered)
    \/ Act(r, [world EXCEPT !.refused = TRUE], failed)
    \/ Fault(r, failed, Serve(p))
=============================================================================
