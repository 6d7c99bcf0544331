------------------------- MODULE VerificationWatch --------------------------
(***************************************************************************)
(* Enrolment and confirmation by three gates, apps/api/src/verification    *)
(* with policy, second-watch and the supplemental mirror of                *)
(* apps/api/src/unbanked.  Each confirmation leaves a ledger row; a run of *)
(* failures is reported to Sentinel.                                       *)
(*                                                                         *)
(* Of NIBSS's three answers the numbers of Yes and of No count.  Templates *)
(* are abstracted to whether a request's agree with the mirror's.          *)
(***************************************************************************)
EXTENDS ServiceFrame, Sequences

CONSTANTS
    Threshold,    \* BVN_FAILURE_THRESHOLD (5)
    MaxMirrored   \* bound: rows after which nothing more is mirrored

ASSUME VerifyAssumption == Threshold \in Nat \ {0} /\ MaxMirrored \in Nat

Gates == 3

\* ledger: aggregateConfirmed of the window's rows, the newest last; rows that
\* no query reaches are dropped.
VerifyRows ==
    [enrolled : BOOLEAN,
     ledger : {rows \in Seq(BOOLEAN) : Len(rows) <= Threshold},
     mirrored : Nat]

VerifyEmpty == [enrolled |-> FALSE, ledger |-> <<>>, mirrored |-> 0]

\* reported: the failures up to the newest row are known to Sentinel;
\* unmarked: a Yes of NIBSS against the mirror was recorded without an alert.
VerifyWorlds == [reported : BOOLEAN, unmarked : BOOLEAN, answered : Nat]
VerifyNothing == [reported |-> FALSE, unmarked |-> FALSE, answered |-> 0]

\* A confirmation's outcome: contrary says that a Yes of NIBSS is not the
\* mirror's; or the Yes of a sync that are found, and how many are left.
VerifyHeld ==
    [confirmed : BOOLEAN, contrary : BOOLEAN, alert : BOOLEAN]
        \cup [found : 0..Gates, left : 0..Gates]

\* PolicyEngineService.
DecidePolicyMode(high) == IF high THEN "AND" ELSE "OR"
AggregateConfirm(mode, yes) == yes >= IF mode = "AND" THEN 2 ELSE 1
DetectMismatch(yes, no) == yes > 0 /\ no > 0

\* enrollTripleGate: three Yes; an enrolment before this one is no obstacle.
VerifyEnroll(r) ==
    /\ service = "VERIFY"
    /\ Begin(r, "ver_tfan", [confirmed |-> TRUE, contrary |-> FALSE, alert |-> FALSE])

VerifyCreateTfan(r) ==
    pc[r] = "ver_tfan" /\ Save(r, [row EXCEPT !.enrolled = TRUE], "ver_append")

\* confirmTransaction asks NIBSS; what it answers is chosen in the next step.
VerifyConfirm(r) == service = "VERIFY" /\ Begin(r, "ver_watch", NoValue)

\* SecondWatchService.validate, on yes and no of NIBSS: without a mirror nothing;
\* with one, and NIBSS down, the mirror's answer is the one gate that counts.
Outcome(mode, yes, no, agrees) ==
    LET down == row.enrolled /\ yes = 0 /\ no = 0
        effective == IF down /\ agrees THEN 1 ELSE yes
        contrary == yes > 0 /\ ~ agrees
    IN  [confirmed |-> AggregateConfirm(mode, effective),
         contrary |-> contrary,
         alert |-> DetectMismatch(yes, no) \/ (row.enrolled /\ contrary)]

SecondWatch(r) ==
    /\ pc[r] = "ver_watch"
    /\ \E high, agrees \in BOOLEAN, yes \in 0..Gates : \E no \in 0..(Gates - yes) :
          Step(r, "ver_append", Outcome(DecidePolicyMode(high), yes, no, agrees),
               row, world)

\* appendLedger.
VerifyAppendLedger(r) ==
    LET rows == Append(row.ledger, held[r].confirmed)
    IN  /\ pc[r] = "ver_append"
        /\ Step(r, IF held[r].confirmed THEN "idle" ELSE "ver_rate", held[r],
                [row EXCEPT !.ledger =
                    IF Len(rows) > Threshold THEN Tail(rows) ELSE rows],
                [world EXCEPT !.reported = FALSE,
                              !.unmarked = @ \/ (row.enrolled /\ held[r].contrary
                                                 /\ ~ held[r].alert)])

\* checkBvnFailureRate; the report throws nothing.
VerifyCheckFailureRate(r) ==
    /\ pc[r] = "ver_rate"
    /\ LET excessive == /\ Len(row.ledger) >= Threshold
                        /\ \A i \in DOMAIN row.ledger : ~ row.ledger[i]
       IN  Act(r, [world EXCEPT !.reported = @ \/ excessive], "idle")

\* The oldest row leaves the window of an hour.
VerifyTimePasses ==
    /\ service = "VERIFY" /\ row.ledger # <<>>
    /\ Outside([row EXCEPT !.ledger = Tail(@)], world)

\* mirrorNibssYes: one row for each gate given, then the answer.
MirrorNibssYes(r) ==
    /\ service = "VERIFY" /\ row.enrolled /\ row.mirrored < MaxMirrored
    /\ \E n \in 1..Gates :
          Begin(r, "ver_mirror", [found |-> n, left |-> n])

MirrorGate(r) ==
    /\ pc[r] = "ver_mirror" /\ held[r].left > 0
    /\ Step(r, "ver_mirror", [held[r] EXCEPT !.left = @ - 1],
            [row EXCEPT !.mirrored = @ + 1], world)

MirrorAnswer(r) ==
    /\ pc[r] = "ver_mirror" /\ held[r].left = 0
    /\ Act(r, [world EXCEPT !.answered = @ + held[r].found], "idle")

VerifyLabels == {"ver_tfan", "ver_watch", "ver_append", "ver_rate", "ver_mirror"}

VerifyCall(r) == VerifyEnroll(r) \/ VerifyConfirm(r) \/ MirrorNibssYes(r)

VerifyGoOn(r) ==
    \/ VerifyCreateTfan(r) \/ SecondWatch(r) \/ VerifyAppendLedger(r)
    \/ VerifyCheckFailureRate(r) \/ MirrorGate(r) \/ MirrorAnswer(r)
=============================================================================
