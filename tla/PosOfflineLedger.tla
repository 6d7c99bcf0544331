-------------------------- MODULE PosOfflineLedger --------------------------
(***************************************************************************)
(* The terminal's offline ledger, apps/api/src/unwp: a UNWP session is     *)
(* committed to it as an entry, which a later reconciliation submits to    *)
(* NIBSS.  Composed with ApprovalSession: the commit reads the session's   *)
(* status, and requests of both overlap.  A reconciliation lists all the   *)
(* queued entries of a terminal; this is what it does to one of them.      *)
(***************************************************************************)
EXTENDS ApprovalSession

CONSTANT MaxThrows   \* bound: statements of a reconciliation that throw

ASSUME ThrowsAssumption == MaxThrows \in Nat

VARIABLES
    entry,     \* status of the ledger entry of the session
    sent,      \* times the entry was submitted to NIBSS
    answers,   \* what NIBSS answered, a history
    throws     \* statements of a reconciliation that threw

ledger == <<entry, sent, answers, throws>>
pvars == <<avars, ledger>>

EntryStatuses == {"NONE", "QUEUED", "SUBMITTED", "RECONCILED", "REJECTED"}

PTypeOK ==
    /\ ATypeOK
    /\ entry \in EntryStatuses
    /\ sent \in Nat /\ throws \in Nat
    /\ answers \subseteq {"found", "other"}

PInit ==
    /\ AInit
    /\ entry = "NONE" /\ sent = 0 /\ answers = {} /\ throws = 0

Goto(r, label, next) ==
    /\ pc[r] = label
    /\ pc' = [pc EXCEPT ![r] = next]
    /\ UNCHANGED <<flow, session, seen, aborts>>

Finish(r, label) ==
    /\ pc[r] = label
    /\ Return(r)
    /\ UNCHANGED <<flow, session, aborts>>

-----------------------------------------------------------------------------
(* commitTransaction.  It does not load the session as the others do: no   *)
(* look at the time, and an escalation in progress will do.  An entry made *)
(* between the look-up and the insert is found out by the unique tli.      *)

CommitRead(r) ==
    /\ flow = "unwp" /\ status \in {"COMPLETED", "BIOMETRIC_ESCALATION"}
    /\ entry = "NONE"
    /\ Begin(r, "commit_create")
    /\ UNCHANGED <<shown, ledger>>

\* Variation: an upsert in the place of the insert.
MutCommitCreate(r) ==
    /\ Finish(r, "commit_create")
    /\ entry' = "QUEUED"
    /\ UNCHANGED <<sent, answers, throws>>

CommitCreate(r) ==
    /\ Finish(r, "commit_create")
    /\ entry' = IF entry = "NONE" THEN "QUEUED" ELSE entry
    /\ UNCHANGED <<sent, answers, throws>>

-----------------------------------------------------------------------------
(* reconcileTerminal: SUBMITTED before the call, whatever another          *)
(* reconciliation that listed the entry has made of it.                    *)

ReconcileRead(r) ==
    /\ entry = "QUEUED"
    /\ Begin(r, "rec_submit")
    /\ UNCHANGED <<shown, ledger>>

ReconcileSubmit(r) ==
    /\ Goto(r, "rec_submit", "rec_nibss")
    /\ entry' = "SUBMITTED"
    /\ UNCHANGED <<sent, answers, throws>>

\* Variation: what NIBSS did not find is no answer at all.
MutReconcileNibss(r, outcome) ==
    /\ Goto(r, "rec_nibss", "rec_done")
    /\ sent' = sent + 1
    /\ answers' = answers \cup {IF outcome = "found" THEN outcome ELSE "none"}
    /\ UNCHANGED <<entry, throws>>

\* verifyMobile never throws: a refusal, a timeout or a dead network is an
\* outcome, and the outcome is not looked at.
ReconcileNibss(r, outcome) ==
    /\ Goto(r, "rec_nibss", "rec_done")
    /\ sent' = sent + 1
    /\ answers' = answers \cup {outcome}
    /\ UNCHANGED <<entry, throws>>

\* Variation: an unconfirmed entry stays submitted.
MutReconcileDone(r) ==
    /\ Goto(r, "rec_done", "rec_audit")
    /\ entry' = IF "found" \in answers THEN "RECONCILED" ELSE entry
    /\ UNCHANGED <<sent, answers, throws>>

ReconcileDone(r) ==
    /\ Goto(r, "rec_done", "rec_audit")
    /\ entry' = "RECONCILED"
    /\ UNCHANGED <<sent, answers, throws>>

ReconcileAudit(r) == Finish(r, "rec_audit") /\ UNCHANGED ledger

\* A statement of the entry throws, the audit after the last write included;
\* or its payload does not decrypt to what its checksum says.
ReconcileThrows(r) ==
    /\ \E label \in {"rec_submit", "rec_done", "rec_audit"} :
           Goto(r, label, "rec_reject")
    /\ throws < MaxThrows
    /\ throws' = throws + 1
    /\ UNCHANGED <<entry, sent, answers>>

ReconcileReject(r) ==
    /\ Finish(r, "rec_reject")
    /\ entry' = "REJECTED"
    /\ UNCHANGED <<sent, answers, throws>>

PContinue(r) ==
    \/ CommitCreate(r)
    \/ ReconcileSubmit(r) \/ ReconcileDone(r)
    \/ \E outcome \in {"found", "other"} : ReconcileNibss(r, outcome)
    \/ ReconcileAudit(r) \/ ReconcileReject(r)

PNext ==
    \/ ANext /\ UNCHANGED ledger
    \/ \E r \in Requests :
           CommitRead(r) \/ ReconcileRead(r) \/ PContinue(r) \/ ReconcileThrows(r)

\* Requests in flight go on; nothing makes a client or a terminal call.
PSpec ==
    /\ PInit /\ [][PNext]_pvars
    /\ \A r \in Requests : WF_pvars(\/ AContinue(r) /\ UNCHANGED ledger
                                    \/ PContinue(r))

-----------------------------------------------------------------------------
(* Properties.                                                             *)

\* SUBMITTED is written before the call, so an entry that is still QUEUED was
\* never submitted: a reconciliation that lists it after another one died, or
\* while it runs, starts no second payment of an entry paid before.
QueuedUnsent == entry \in {"NONE", "QUEUED"} => sent = 0

\* An entry that was submitted gets an outcome unless its request dies;
\* nothing else ever looks at it again.
SubmittedSettles ==
    (entry = "SUBMITTED") ~> (entry \in {"RECONCILED", "REJECTED"} \/ aborts > 0)

\* LEDGER_RECONCILED is documented as "Confirmed by NIBSS".
ReconciledConfirmed == entry = "RECONCILED" => "found" \in answers
=============================================================================
