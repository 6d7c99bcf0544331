--------------------------- MODULE ExecutionProofs ---------------------------
(***************************************************************************)
(* The biometric gate in front of transfers, bills and payouts, and the    *)
(* signed proof it hands out, apps/api/src/execution.  A live gate asks    *)
(* for a fingerprint, a face or a phone that matches what is kept of the   *)
(* account's owner: any one is a YES.  Minted after a YES, a proof stands  *)
(* in for the gate until it expires.  The server keeps no copy of it: who  *)
(* holds one may use it again and again.                                   *)
(*                                                                         *)
(* The registry asked, the internal one, NIBSS or the offline mirror,      *)
(* depends on the account and the network; each compares sample by sample, *)
(* and the gate asks whether any matched, which is a choice here.          *)
(* A proof always carries every scope, so that scopes refuse none.         *)
(***************************************************************************)
EXTENDS ServiceFrame

CONSTANTS
    Accounts,
    HashTtl,    \* EXECUTION_HASH_TTL_SEC, in ticks of the clock
    MaxTicks    \* bound: ticks of the clock

ASSUME ProofAssumption == HashTtl \in Nat /\ MaxTicks \in Nat

Purposes == {"mint", "operate"}

\* No row is written; the setting EXECUTION_REQUIRE_HASH_ONLY stands for it.
ProofRows == [hashOnly : BOOLEAN]

ProofHeld == [account : Accounts, purpose : Purposes]

ProofWorlds ==
    [now : Nat,
     proofs : SUBSET [ap : Accounts, exp : Nat],    \* handed out
     shown : SUBSET (Accounts \X Nat),              \* the last YES for each account
     accepted : {NoValue} \cup                      \* let through, in this tick
                    [account : Accounts, way : {"proof", "gate"}]]

ProofNothing == [now |-> 0, proofs |-> {}, shown |-> {}, accepted |-> NoValue]

\* A call that shows biometrics, a face among them or not: to mint a proof or,
\* where the server does not insist on proofs, to operate.
PerformLiveYesGate(r) ==
    /\ service = "PROOF"
    /\ \E a \in Accounts, p \in Purposes, label \in {"proof_face", "proof_match"} :
          /\ p = "operate" => ~ row.hashOnly
          /\ Begin(r, label, [account |-> a, purpose |-> p])

\* A face that does not pass ends the call, whatever else was sent.
VerifyPassive(r) ==
    pc[r] = "proof_face" /\ (Pass(r, "proof_match") \/ Pass(r, "idle"))

Shown(a) ==
    [world EXCEPT !.shown = {s \in @ : s[1] # a} \cup {<<a, world.now>>}]

\* The proof is for the account the gate was about, and for every scope.
Mint(w, a) ==
    [w EXCEPT !.proofs = @ \cup {[ap |-> a, exp |-> w.now + HashTtl]}]

Accept(w, a, way) == [w EXCEPT !.accepted = [account |-> a, way |-> way]]

\* The registry's answers are in.  What a YES leads to, the proof or the rest
\* of the operation, follows without another wait.
GateAnswers(r) ==
    LET a == held[r].account IN
    /\ pc[r] = "proof_match"
    /\ \/ Pass(r, "idle")
       \/ /\ held[r].purpose = "mint"
          /\ Act(r, Mint(Shown(a), a), "idle")
       \/ /\ held[r].purpose = "operate"
          /\ Act(r, Accept(Shown(a), a, "gate"), "idle")

Verify(proof, account) == world.now <= proof.exp /\ proof.ap = account

\* An operation that shows a proof, under either setting.
AuthorizeExecutionOperation(r) ==
    /\ service = "PROOF"
    /\ \E proof \in world.proofs, a \in Accounts :
          Verify(proof, a) /\ Once(r, row, Accept(world, a, "proof"))

ProofTimePasses ==
    /\ service = "PROOF" /\ world.now < MaxTicks
    /\ Outside(row, [world EXCEPT !.now = @ + 1, !.accepted = NoValue])

ProofLabels == {"proof_face", "proof_match"}

ProofCall(r) == PerformLiveYesGate(r) \/ AuthorizeExecutionOperation(r)

ProofGoOn(r) == VerifyPassive(r) \/ GateAnswers(r)

-----------------------------------------------------------------------------
\* Whatever requests overlap, die or are repeated: an operation on an account
\* is let through because the owner of that very account has shown biometrics
\* that matched, now or at most a proof's lifetime ago; and where the server
\* insists on proofs, none is let through on biometrics alone.
AcceptedOnEvidence ==
    service = "PROOF" /\ world.accepted # NoValue =>
        /\ \E s \in world.shown :
              /\ s[1] = world.accepted.account
              /\ s[2] + (IF world.accepted.way = "proof" THEN HashTtl ELSE 0) >= world.now
        /\ row.hashOnly => world.accepted.way = "proof"
=============================================================================
