# A TLA+ verification of the PFF-TRUST API

The system is a NestJS server (`apps/api`, TypeScript) over one PostgreSQL
database reached through Prisma, with a Redis-like volatile vault, and calls to
outside services: banks' core systems (CBS), the identity switch (NIBSS), GPS,
terminals. A dashboard and an SDK call it. Node runs one thread: code between two
`await`s is atomic, and between two of them any other request may run. Most
handlers read a row, wait for something, and then update the row by its id with
absolute values and no condition, without a database transaction. The few that use
`$transaction` run at PostgreSQL's default READ COMMITTED, where what was read
inside the transaction may be out of date when it writes. So the hard
behaviour of this system is nearly all of one kind: what a handler decided on is not
what it overwrites. The other kind is a handler that dies between two writes.

Every module here cuts a handler the same way: one step for each awaited statement
(or group of statements that become visible together, in a transaction), together
with the synchronous code that follows it; a request slot `r` with a program counter
`pc[r]` and the values it read (`snap[r]`, `job[r]`) as its locals; `Start` actions a
client may take, `Continue` actions a request in flight takes, `Abort` for a
statement that throws or a server that stops. A request refused on its first read
writes nothing and is not an action.

Sources are named relative to `apps/api/src` unless they start with `src/`.

## Inventory

Components are grouped as the API's Nest modules are. "State" is the database rows.

| Component | State | Operations | What is hard | What makes it correct |
|---|---|---|---|---|
| Savings cycle (LLIW) `savings/` | cycle row, deposit rows (unique by day), break row (unique by cycle), incentive rows | `openCycle`, `recordDeposit`, `getCycleStatus` (writes), `initiateBreakSafe`, `executeWithdrawal`, `disburseIncentive` | blind updates from rows read before several awaits; payout before close; crash between row and update | row and log agree; one break, split without loss; days never lost; each payout backed; one payout |
| BEPWG gate `bepwg/` | the same rows; audit rows; trusted links | `executeWithdrawal`, `upsertLink`, `linkFromBvns` | a second module with its own idea of maturity on the same rows | audit tells the truth; same penalty rule for both ways out |
| Location anchors `bepwg/` | the customer's anchor row; signed tokens the server keeps no copy of | register, move, fresh token, the 10-metre check online and offline | a token outlives the anchor it names; place read before the token is signed | whoever passes is near a place that was the anchor a token's lifetime ago at most |
| Execution ledger `execution/` | account balances, transfers, bills, pulse queue | `createAccount`, `execute`, `pay`, `enqueue`, `settlePendingForOrg` | absolute balances under READ COMMITTED; bill debit without a transaction; two heartbeats on one queue | balances match what was recorded; queue tells the truth; a key is used once |
| Withdrawal tokens `execution/` | token rows, balances | `authorize`, `redeemToken`, minute sweeper | status read outside the transaction; the sweeper in between | one token, one payout; redeemed stays redeemed |
| Execution biometrics, proofs `execution/` | none (signed proof with a lifetime) | live gate, mint, verify | reuse within the lifetime; the setting that insists on proofs | an operation is let through on its own owner's biometrics, now or a lifetime ago |
| Terminal lock `terminal/`, sentinel | lock state, failures, stealth, activity time; alerts | bind, heartbeat (settles the queue), `attemptUnlock`, daily and inactivity locks | NIBSS call between read and write; schedulers | no unlock over a later lock; failures counted |
| Verification, second watch, policy `verification/` `policy/` | ledger rows, template bindings | enrol, confirm, failure rate; a pure verdict | degraded mode of NIBSS | no confirmation below the policy's threshold |
| UNWP sessions `unwp/` | session row | initiate, step A, step B, escalate, escalation biometric, expiry on load | every write blind on a status read earlier | terminal states are final |
| POS offline ledger `unwp/` | entry rows | commit, reconcile | two reconciliations; a crash after SUBMITTED | an entry is submitted once and keeps its outcome |
| LBAS `lbas/` | challenge sessions, liveness challenges, sensors | initiate, steps A and B, load (expires), liveness issue and submit | expiry overwrites any status; one-time challenges | a finished session stays finished |
| Unbanked, NIBSS push `unbanked/` | profile status, submissions, ledger account, TFAN mirror | enrol, submit, callback, dispatch, upgrade, link, edit | late, lost and repeated callbacks | one account per profile; bankable stays bankable |
| BIH, BLS, BLIDE, ZFOE | a session each; accounts, seals, challenges | scan/search, choose, authorise, provision | check, await, act: two choices on one session; sessions stuck half way | a session acts once, for whoever showed all it asks for, and its row says what happened |
| ZFPS orchestrator, vault | session, vault keys with a time to live, latency log | five steps, alerts | the vault expires in the middle | an account minted is reported |
| CASD | documents, applications, bank status | push, advance status | any status after any other; counter after rows | counts match rows; dates match history |
| RSCC | licences, dedicated accounts and their flags; seeded savings groups, tolls, distributions | listing (writes), renewal, scan and resolution of flags; reads | a listing that writes a stale status; two scans | suspended because ended; a mark has its flag |
| Kingmaker | vaults, partner counters | create at bank, day-31 flip (schedule and by hand) | two flips at once; crash after the external create | a vault flips and counts once |
| SDK profiles | profile status | register, capture, verify, suspend, check | order of calls | never believed verified before it was |
| Client SDK `src/packages/fman-sdk` | in the page: copy of the profile, gate, active modal, its screen and timers | launch, close, the gate's four steps, a modal's buttons | timers and answers that come after what asked for them is gone | the host is told once of what was finished; nothing opens unverified |
| Admin, persistence, adapters, dashboard | — | reads; connections; stubs; pages | — | — |

Interactions. Savings and BEPWG share the cycle, the break log and the trusted links.
The savings module calls the trusted-agent service when a cycle opens. The terminal's
heartbeat runs the pulse settlement. Transfers, bills and withdrawals share balances
and the execution biometrics. Unbanked and ZFOE create ledger accounts. RSCC's
licences, ajo rows and balances and the ZFPS latency log all raise red flags in one
administrative table. The client SDK decides what to open from the profile status the
API answered. Schedulers (token sweeper, terminal locks, Kingmaker flip) run in the
same process as the requests.

`PROJECT.json` has the status of each component and every hazard at its line.

## What is modelled

### SavingsCycle — one cycle, the savings services

`cycle` is the row, `dayLog` the deposit rows, `breakLog` the break rows, `incentive`
the status of each day's incentive row, `trusted` the agents with a link, `pushes` the
payouts a bank carried out (the world outside), `monthEnd` what
`isLastDayOfMonth` answers. `pc`, `snap`, `lastDay` are a request's locals.

| Code | Actions |
|---|---|
| `openCycle` | `OpenCycle`, `OpenDayLog`, `OpenLink` |
| `recordDeposit` | `DepositRead`, `DepositLog` (unique row), `DepositWrite` (blind update) |
| `disburseIncentive` | `IncentiveCreate`, `IncentiveSettle` |
| `getCycleStatus` | `StatusRead`, `StatusWrite` |
| `initiateBreakSafe` | `BreakRead`, `BreakLog`, `BreakWrite` |
| `executeWithdrawal` | `WithdrawRead`, `WithdrawPush`, `WithdrawClose` |
| clock, failure | `DayTurns`, `Abort` |

Money is in whole minor units, as the rows keep it; the penalty is half, rounded
down. `callCbsVaultPush` swallows every failure of the bank, so a payout may be
`"lost"` while the request goes on (`PushFunds`). Which cycle and
customer, the texts, references and the biometric checks of these handlers (which
only refuse) are left out.

### BepwgGate — the second way out, composed with it

EXTENDS SavingsCycle and adds `audit` and the agent each withdrawal names.
`BNext` is the savings services' `Next` or a step of the gate, on the same rows, so a
request of either runs between the steps of the other. What GPS and NIBSS
answer (`near`, `matches`) is chosen freely. `InsertBreakRow`, `MarkBroken`,
`MarkWithdrawn` and `PushFunds` are shared: both services run the same statements.

### SavingsVault, SavingsRefinement — what a cycle promises

`SavingsVault` is the customer's view: a vault that is locked, open or broken; one
payout, all of the savings or all less half, and another one only if the server died
between a payout and its end. `paid` is the sequence of payouts the bank carried out. `SavingsRefinement` maps the services onto it: the
lock is the gate, the phase comes from the status and from whether a payout has been made
and the cycle not closed yet, a death is an `Abort`.

### ExecutionLedger — balances, transfers, bills, tokens, queue

`balance`, `rows` (transfers and bills), `queue`, `tokens`, and `cash`, the tokens
money was handed out for. A transaction's reads are steps of their own and its
writes one step; PostgreSQL's row locks order the commits of two writers, and each
writes what it worked out from its own reads. `disturbed` is a history variable: the
accounts two requests worked on at once, or which a bill debited without a row.

| Code | Actions |
|---|---|
| `TransferExecutionService.execute` | `TransferBegin`, `TransferCredit`, `TransferCommit`, `Enqueue` |
| `BillsExecutionService.pay` | `BillRead`, `BillKey`, `BillDebit`, `BillCreate`, `Enqueue` |
| `settlePendingForOrg` | `SettleRead`, `SettleRow`, `SettleDebit`, `SettleCredit`, `SettleCommit`, `SettleThrows` |
| `authorize`, `redeemToken` | `AuthorizeRead`, `TokenCreate`, `RedeemRead`, `RedeemBalance`, `RedeemCommit` |
| `sweepExpiredTokens`, time | `SweepExpiredTokens`, `TokenDue` |

One organisation, one currency; `createAccount` is the initial state (each account
with its first deposit); `markSettled` has no caller; the biometric proof only refuses.

### ApprovalSession — a customer approves at a terminal

`status` and `late` are the session row of UNWP or of LBAS (`flow`, chosen initially:
the two services differ only where the module asks for it); `shown` is a
history of what the customer has shown; `seen` is the status a request loaded.

| Code | Actions |
|---|---|
| `initiateSession` | `InitiateSession` |
| `loadSession`, the GETs included, on an expired session | `LoadExpired`, `ExpireWrite` |
| `approveStepA`, `confirmStepB` | `ApproveStepA`, `ConfirmStepB`, then `StepAWrite`, `StepBWrite` or `RejectWrite` |
| `escalate` (UNWP) | `Escalate`, `EscalateWrite` |
| `submitEscalationBiometric` (UNWP) | `SubmitBiometric`, `NibssAnswers`, `BiometricWrite` |
| clock, failure | `TimePasses`, `Abort` |

### PosOfflineLedger — the terminal's offline ledger, composed with it

EXTENDS ApprovalSession: a commit reads the session's `status`. `entry` is the status
of the session's ledger row, `sent` and `answers` what NIBSS was asked and answered.

| Code | Actions |
|---|---|
| `commitTransaction` | `CommitRead`, `CommitCreate` (unique tli) |
| `reconcileTerminal`, for one of the entries it listed | `ReconcileRead`, `ReconcileSubmit`, `ReconcileNibss`, `ReconcileDone`, `ReconcileAudit` |
| its `catch`, and a payload that fails its checksum | `ReconcileThrows`, `ReconcileReject` |

### UnbankedEnrollment — a BVN and an account for one unbanked customer

`status` and `bvnLinked` are the profile row, `mirrors` and `accounts` what the upgrade
created for the BVN, `recorded` the submissions' `nibssStatus`. `verdict` and `known` are
NIBSS: what reached it, what it decided (once for each submission), whether the person
has a BVN, of which it gives a person one. `failed`, `overlapped` and `undone` are
history variables.

| Code | Actions |
|---|---|
| `enrollUnbanked` | `EnrollUnbanked` |
| `submitForBvn`, the retry | `SubmitRead`, `SubmitCreate`, `SubmitMark` |
| `dispatchToNibss`, in the same slot from there on | `RecordAnswer` or `DispatchFails`, `FailRecord`, `ResetProfile` |
| `handleCallback` | `Callback`, `RecordAnswer`, `ResetProfile` |
| `upgradeToGlobal`, for both | `UpgradeRead`, `UpgradeFind`, `UpgradeCommit` |
| `linkDuplicateBvn`, for both | `LinkDuplicate` |

Left out: the edit of names and addresses, and the stub that calls the callback handler
when no NIBSS address is configured.

### ServiceFrame — what the session services have in common

The remaining services all work alike: one row, endpoints that load it, check it, wait,
and write it by its key. `ServiceFrame` has the row of one service, `world` (what was
done outside the database on its behalf), the requests' program counters and copies,
and the forms a step takes: `Begin`, `Once` (an endpoint of one statement), `Step`,
`Save`, `Act`, `Pass`; `Fault` and `Die` are what goes wrong. Two modules compose the
services below; in each the initial state chooses the service followed, so that their
state spaces add and do not multiply.

### IdentityServices — BIH, BLS, BLIDE, ZFOE, ZFPS, LBAS liveness and sensors

`IdentityGateways` has what the services call: NIBSS, that names whose finger or
face it was shown, and a bank that opens an account, refuses, or opens it and loses the
answer. `world` counts what was done and told, keeps who has shown what and in whose
name the service acted.

| Code | Module | Actions |
|---|---|---|
| `bih-scan`: `initiateScan`, `submitTemplate`, `selectBankAndProvision` | BihScan | `BihInitiate`; `BihSubmitTemplate`, `BihSearch`, `BihUnlock` or `BihNoMatch`; `BihSelectBank`, `BihBankSelected`, `BihProvisioning`, `BihPush`, `BihComplete`, `BihAnswer`, or `BihFail` |
| `bih-gate`: `authorizeOperation` | BihScan | `BihAuthorize`, `BihExecute`, `BihAuthorized` |
| `bls-discovery`: `assertActive`, `initiate`, `submitDiscoveryScan`, `selectAccount` | BlsSession | `BlsFindIdle`, `BlsExpire`; `BlsInitiate`; `BlsSubmitDiscoveryScan`, `BlsSearch`, `BlsDiscovered`, `BlsFail`; `BlsSelectAccount`, `BlsSelected` |
| `bls-seal`: `submitSealScan` | BlsSession | `BlsSubmitSealScan`, `BlsSeal`, `BlsCrossValidate`, `BlsExecute`, `BlsExecuted`, `BlsAnswer`, or `BlsFailed` |
| `blide-execution`, `blide-liveness` | BlideSession | `BlideInitiate`; `BlideSubmitFace`, `BlideSearch`, `BlideUnlock` or `BlideNoMatch`; `BlideSelectTarget`, `BlideSelected`, `BlideReadIssued`, `BlideCreateChallenge`; `BlideSubmitLiveness`, `BlideReadChallenge`, `BlideConsume`, `BlideVerified`, `BlideExecuting`, `BlideExecute`, `BlideCompleted` or `BlideFailed` |
| `nibss-harvest`, `account-provision` | ZfoeProvision | `ZfoeHarvest`, `ZfoeCreate`; `ZfoeSelectBank`, `ZfoeBankSelected`; `ZfoeAuthorize`, `ZfoeGate`, `ZfoeNoMatch` or `ZfoeBiometricOk`, `ZfoeProvisioning`, `ZfoePush`, `ZfoeComplete`, `ZfoeAnswer` |
| `zfps-orchestrator`: `provision`; `redis`; `bank-latency-monitor`; `sms-notification` | ZfpsOrchestrator | `ZfpsProvision`, `ZfpsStage`, `ZfpsPush`, `ZfpsMonitor`, `ZfpsFlag`, `ZfpsInvalidateVault`, `ZfpsRecord`, `ZfpsSendSms`, `ZfpsSmsRecorded`; `ZfpsVaultExpires`, `ZfpsFlagLeavesWindow` |
| `liveness-challenge`: `issueChallenge`, `submitProof` | LivenessProof | `LbasIssueChallenge`; `LbasFindLate`, `LbasExpire`; `LbasSubmitProof`, `LbasTasks`, `LbasPassive`, `LbasFace`, `LbasComplete`, `LbasAnswer`, or `LbasFail` |
| `fingerprint-abstraction`: `registerSensor`, `submitExternalMinutiae` | LivenessProof | `SensorRegister`, `SensorRegistered`; `SensorSubmit`, `SensorMatch`, `SensorActive`; `SensorRevoke` is an operator's |

### OperationsServices — terminals, confirmations, back office, the SDK, proofs, anchors

| Code | Module | Actions |
|---|---|---|
| `terminal.service`: `bindTerminal`, `heartbeat`, `attemptUnlock`; its crons | TerminalLock | `TerminalBind`, `TerminalHeartbeat`; `TerminalAttemptUnlock`, `TerminalRunGates`, `TerminalUnlock` or `TerminalCountFailure`, `ReportStealthCapture`, `TerminalResetCount`; `TerminalDailyLock`; `TerminalFindInactive`, `TerminalInactivityLock` |
| `verification.service`, `second-watch`, `policy-engine` | VerificationWatch | `VerifyEnroll`, `VerifyCreateTfan`; `VerifyConfirm`, `SecondWatch`, `VerifyAppendLedger`, `VerifyCheckFailureRate` |
| `watch-eye-sync`: `mirrorNibssYes` | VerificationWatch | `MirrorNibssYes`, `MirrorGate`, `MirrorAnswer` |
| `casd`: `advanceStatus`, `pushToBank`, `pushAllToBank` | BankPipeline | `BankAdvance`, `BankSetStatus`; `BankPushManually`; `BankPushNext`, `BankCountPushes` |
| `rscc-license`: `listLicenses`, `confirmRenewal` | RegulatoryWatch | `ListLicenses`, `LicenceUpdate`; `ConfirmRenewal`, `LicenceRenew`, `LicenceResolveFlags` |
| `rscc-distribution`: `checkAndTriggerRedFlags`, `resolveRedFlag` | RegulatoryWatch | `ScanRedFlags`, `FlagTrigger`, `FlagRaise`; `ResolveRedFlag` |
| `kingmaker`, `kingmaker-vault` | KingmakerVaults | `ApplyAsPartner`, `ApprovePartner`, `SuspendPartner`; `CreateVault`, `BankCreateVault`, `VaultCreated`, `VaultCountCreated` |
| `kingmaker-scheduler`: `runDayThirtyOneFlip`, by its cron or by hand | KingmakerVaults | `RunFlip`, `FlipFindPartner`, `BankFlips` or `BankFlipFails`, `VaultFlipped`, `VaultCountFlipped`, `FlipCountFailure` |
| `sdk-profile.service` | SdkHost | `SdkCheckStatus`, `SdkRegister`, `SdkCaptureBiometric`, `SdkVerify`, `AdminVerify`, `AdminSuspend` |
| `UnifiedSDKProvider`, `BusinessProfileGate` | SdkHost | `SdkCheck`, `SdkChecked`, `SdkLaunch`, `SdkClose`, `GateAbort`, `GateOpens`; `GateSubmitIdentity`, `GateRegistered`; `GateScanBiometric`, `GateCaptured`; `GateSubmitCbn`, `GateVerified`, `GateNotVerified` |
| `execution-proof`, `biometric-execution` | ExecutionProofs | `PerformLiveYesGate`, `VerifyPassive`, `GateAnswers` (mints or lets through); `AuthorizeExecutionOperation` with a proof; `ProofTimePasses` |
| `location-anchor`, `proximity` | LocationAnchors | `RegisterAnchor`, `UpsertAnchor`; `GetAnchor`, `FreshToken`; `CheckOnline`, `CheckOffline`; `AnchorTimePasses` |
| `modals/F01_BAS` to `F13_KINGMAKER` | SdkModals, SdkHost | each modal is a constant: its screens and what leads from one to the next; `ModalClick`, `ModalScan`, `ModalTell`, `ModalTimerFires`, `HostTimerFires` run any of them |

Definitions named `Mut...` are not the code: each is a slip the code could have had,
used to see that a property tells the code from it (`PROJECT.json`, "mutants").

## The runs

| Run | Module | Shows |
|---|---|---|
| `savings_serial` | SavingsRefinement | one request at a time, 31 days, a bank that may lose a payout, two requests that die: the savings services implement `SavingsVault` (`VaultKept`) |
| `bepwg_concurrent` | BepwgGate | two requests overlap, one may die: the safety properties, the action property and the liveness below |
| `ledger` | ExecutionLedger | two requests, heartbeats and the sweeper overlap, one statement or request may fail |
| `pos_approval` | PosOfflineLedger | either service, two requests overlap on session and entry, one may die, one statement may throw |
| `unbanked` | UnbankedEnrollment | submissions, dispatches and callbacks overlap, one may die; answers are late, lost, or come twice and again |
| `identity` | IdentityServices | each identity service in turn: two requests overlap on one session, one statement or call may fail or one request die |
| `operations` | OperationsServices | each operational service, and the SDK in its page, in turn: the same |
| `bepwg_paid_twice` | BepwgGate | finding 1 |
| `bepwg_penalty_dodged` | BepwgGate | finding 2 |
| `savings_emergency_reverted` | SavingsCycle | finding 3 |
| `ledger_token_paid_twice` | ExecutionLedger | finding 4 |
| `pos_reconciled_unconfirmed` | PosOfflineLedger | finding 5 |

Properties of `bepwg_concurrent`, all with old rows being written at any time:
`LedgerAgrees` (row and deposit log part by at most the deposit between its
two writes), `BreakAgrees` (one break, split without loss, the cycle carries
its amounts), `MaturityHonest` (no full cycle before the last day), `CommissionCounted`
(incentives only for counted deposits), `PushesBacked` (each payout is the worth of a
day the cycle reached, whole or halved), `AuditBalances` and `PushesAudited` (the audit
log), `QuietMeansComplete` (nothing half done once all requests returned and none died),
`DaysGoUpByOne` (no write, however old, undoes a deposit), `DepositHonoured` (a logged
deposit is counted and pays its incentive unless a request dies).

Properties of `ledger`: `BooksBalance` (an account that no two requests worked on at
once holds exactly what rows and tokens say, however transfers, settlements
and redemptions die and whatever happens to other accounts), `QueueHonest` (a row is
queued once, posted exactly when its entry is settled, also with two heartbeats on
the entry), `KeyOnce`, `CashBacked` (money handed out exactly for the redeemed
tokens, which the sweeper does not take back), `ProvisionalQueued` and `DueNotActive`
(liveness).

Properties of `pos_approval`: `EvidenceBehind` (however stale the loads, a session is
completed only on the right answer and then the right code, or on a biometric and only
under UNWP; rejected only on something wrong; expired only past its time),
`FinalRespected` (a request that loaded a finished session at most expires it, and
under UNWP leaves a completed one alone: only one that loaded it earlier can undo its end), `QueuedUnsent` (an entry
still in the queue was never sent), `SubmittedSettles` (an entry sent gets an outcome
unless its request dies). What does not hold, and is not claimed: that a finished
session stays finished (an escalation that loaded it earlier brings it back) and
that an entry is sent once (two reconciliations may have listed it).

Properties of `unbanked`: `AnswersHonest` (a bankable profile has its account, its mirror
and a success of NIBSS behind it; a linked one a duplicate; submissions are recorded as
decided or failed), `UpgradedOnce` (a second account only when two upgrades overlap or a
bankable profile was taken back, a second mirror only when two overlap), `BankableKept`
(a profile submitted once, whose dispatch did not fail, stays bankable however often
its answer comes), `SubmissionEnds` (a submission in flight ends unless something dies,
whether NIBSS answers or not). What does not hold, and is not claimed: one account per
customer. The response of the dispatch and the callback of the same submission may both
pass the check of `upgradeToGlobal`, which is made before its transaction; and a
dispatch that times out takes back what the callback had granted, so that a repeated
callback opens another account with no overlap at all.

Properties of `identity`: `OncePerSession` (a second account, operation, session or task
takes an overlap; where the status is written after the execution, a death does it
as well; a second latency flag on a bank within 60 minutes takes an overlap or the
resolution of the first), `EvidenceShown` (money moves, and accounts open, only for one who has shown all
the service asks for), `StatusHonest` (a row that says done was done, one that says
failed was not, unless requests overlapped or something failed; a session that waits
for an answer has its challenge; a revoked sensor stays revoked), `CustomerTold` (what was
done was reported, if nothing failed), `ProvisioningEnds` (no session stays half way, no
identity stays in the vault).

Properties of `operations`: `CountsHonest` (counters, and what the host was told, agree
with what happened), `AlertsRaised` (a third miss, a run of failed confirmations and a
low account raise their alarm, however the confirmations interleave),
`StatusJustified` (an unlocked terminal, a bank's dates, a suspended licence, an active vault
and a page that believes itself verified rest on what happened; so do, as
`AcceptedOnEvidence` and `PassedNearAnchor`, an operation let through by the gate or a proof
and a withdrawal found near its anchor), `OperationsSettle`
(an inactive terminal is locked, a vault that is due becomes active, the gate's last
step ends).

Each of these properties is several statements about different services in one, for
they ask the same of each. Their exceptions (`overlapped`, `faults`, a service by name)
say where the code does not give the promise; "What the exceptions mean" below names
the behaviour behind each.

`BooksBalance` cannot be had for every account. Two requests that read a balance, and
then both write it, lose one of the two movements: READ COMMITTED does not prevent it.
The property says where the books hold, and its exception names exactly that.

### Bounds

| Bound | Value | Why it is enough |
|---|---|---|
| `Requests` | 2 (1 in the serial runs) | a lost update, a double payout or a stale overwrite takes two; a third adds another stale write of the same kinds. The theorems hold for any number |
| `FullCycleDays` | 31 serial, 3 concurrent | 3 has a first day (no incentive), a middle and a last |
| `Day1Fee`, `Daily` | 3, 2 (5, 2 serial) | odd and even totals, so that half is rounded |
| `Amounts` (deposits) | {2}, {1, 2} | the daily amount and a wrong one |
| `Agents` | 1 or 2 | the opening agent; with a second one an untrusted agent asks, which a customer who is not near covers as well |
| `MaxPushes` | 1 concurrent, 2 or 3 elsewhere | with 1, a second payout's request waits at the bank: what two payouts do is shown by `bepwg_paid_twice` and covered by the theorems |
| `MaxAborts` | 1, 2 serial | a request dies at any of its steps; in the serial run one more may die on what the first left |
| `Accounts`, `Funds`, `Amounts` | 2, 1, {1} | an account that can pay once and one that then can pay twice; every comparison goes both ways |
| `Keys` | one, or none | a repeated key and a request without |
| `Batch` | 1 (100 in the code) | more entries than a heartbeat takes |
| `MaxRecords` | 2 | two rows, two tokens, or one of each |
| `Flows` | both | each behaviour is one service's |
| `Submissions` | 2 | one, and one that is made again while answers of the first may still come |
| `MaxAccounts` | 2 | NIBSS posts no more callbacks once two accounts are open: the second is what the property is about |
| `MaxFaults` | 1 | any statement or call may fail, or any request die, once |
| `People`, `Tasks` | 2, 2 | the right person and another; a task and another one |
| `MaxDone` | 2 | the second account or operation is what the properties are about |
| `MaxMisses` | 4 | an attempt after the third miss, and an overlap that loses a count |
| `Threshold` | 2 (5 in the code) | a run that is full, and one that a success or the clock interrupts |
| `MaxMirrored`, `MaxPushed`, `Docs` | 1, 3, 2 | calls of several rows that overlap; the bound is on when a call begins, and one that began finishes |
| `MaxVaults` | 2 | a flip with one due vault and with two |
| `MaxLaunches`, `MaxTimers`, `MaxTold` | 2, 2, 2 | a launch while another is open or the gate is; timers of both |
| `HashTtl`, `MaxTicks` | 1, 2 | a proof used in its tick, at its last one, and one that has run out |
| `Places`, `Devices`, `Radius` | {0, 16}, {24}, 10 | one anchor near the terminal and one too far: in between an anchor moves |
| `CacheTtl`, `MaxHours` | 1, 2 | a token fresh, at its last tick, and run out |
| `MaxThrows` | 1 | any statement of a reconciliation may throw once; a second throw repeats the same write |

Deadlock is not checked in `ledger`, `pos_approval`, `unbanked`, `identity` and `operations`: with its records used up, or a
session finished, and no time left to pass, the system rests, as the real one does
when nobody calls.

### Fairness

Only `Continue(r)` (in each module, with its prefix), the steps of a request in flight, is weakly fair: a promise
settles, with an answer or an error, and the event loop runs what follows it. Each
request's own steps stay enabled until taken. In `LSpec` the sweeper is weakly fair too:
it is a cron job of the same process. The dispatch to NIBSS always goes on, for its own
timer ends its wait; that NIBSS decides or posts anything is not assumed. In `ISpec` the
vault's time to live ends. In `OSpec` a timer of the page fires (`GateOpens`); the
crons find what is due again and again (strong fairness, as a slot for the cron may be
taken at times), and a partner bank that is asked again and again says yes in the end:
its client succeeds with a chance of 98 in 100 (`kingmaker/partner-bank-client.service.ts:69`). Nothing makes a client call, a terminal beat, a
day turn or a token grow old, and no property relies on it.

## Findings

1. **Paid twice without a race** (`PaidAtMostOnce`). A biometric withdrawal at month end
   pays and sets WITHDRAWN but leaves the gate LOCKED (`bepwg/bepwg-gate.service.ts:219`);
   the next GET of the status writes MATURED_MONTH_END and OPEN_MONTH_END
   over it (`savings/savings-cycle.service.ts:224-233`), and the next withdrawal pays again.
2. **Penalty dodged without a race** (`BreakLocksPenalty`). The gate takes OPEN_EMERGENCY
   for maturity (`bepwg/bepwg-gate.service.ts:137-139`): a broken cycle is paid in full.
3. **Emergency gate undone** (`EmergencyIrreversible`). A status read or deposit that read
   the cycle before a break writes its gate and status over the break.
4. **Token paid twice** (`TokenPaidOnce`). `redeemToken` checks the token before its
   transaction; two overlapping redemptions both hand out the money.
5. **Reconciled without confirmation** (`ReconciledConfirmed`). RECONCILED is documented as
   "Confirmed by NIBSS" (`unwp/unwp.constants.ts:20`), but `reconcileTerminal` ignores the
   outcome NIBSS answers with (`unwp/pos-offline-ledger.service.ts:171-177`) and the
   adapter never throws.

## What the exceptions mean

Behaviour met while modelling the session services, which the properties of `identity`
and `operations` except by name.

- A BIH operation and a sealed BLS withdrawal are executed before their status is written
  (`bih/bih-gate.service.ts:97`, `bls/bls-seal.service.ts:118`): a death in between lets a
  retry execute again. Everywhere two overlapping requests act twice, and a row may say
  FAILED of an account that exists (`bih/bih-scan.service.ts:169`).
- Two face scans of one BLIDE session that overlap can leave the account selected under
  the first and the match of the second: one customer's face debits another's account.
- ZFOE has no catch around its bank call (`zfoe/account-provision.service.ts:85`): the
  session stays PROVISIONING. Any accepted biometric will do, as the BVN is the request's.
- ZFPS does not look whether a session was provisioned already; VAULT_EXPIRED is reported of
  accounts that were opened, and their owner gets no text (`zfps/zfps-orchestrator.service.ts:128`).
  Its monitor looks for open flags of the last 60 minutes only
  (`zfps/bank-latency-monitor.service.ts:94`): a bank that stays slow gets another flag every
  hour, whether the old ones are resolved or not, with no overlap. The model keeps the flags
  inside that window (`recent`), which they leave at any time (`ZfpsFlagLeavesWindow`: the
  hour ends, or `resolveRedFlag`), also between the count and the new flag.
- BLS and LBAS expiry is written over finished sessions.
- An unlock under way when a terminal is locked unlocks it (`terminal/terminal.service.ts:145`),
  overlapping attempts lose misses, and a stealth report that fails is a log line after
  which the count starts again.
- A confirmation under the AND policy with NIBSS down never confirms, as the mirror's answer
  is one gate of the two it takes (`verification/verification.service.ts:147`, `policy/policy-engine.service.ts:18`).
- A licence that ended stays ACTIVE until somebody lists licences
  (`rscc/rscc-license.service.ts:105`); a listing under way writes SUSPENDED over a renewal; and
  nothing reads `apiAccessRestricted`. A dedicated account is flagged once in its life.
- Any CASD status may follow any other; an approval given twice pushes all documents twice.
- A Kingmaker call that opens the account and then fails leaves an account no row knows.
  The vaults of a suspended partner are skipped by the flip for as long as it is suspended
  (`kingmaker/kingmaker-scheduler.service.ts:44`), though `kingmaker/kingmaker.controller.ts:39`
  says that they honour their partner; `OperationsSettle` asks for the flip while it is approved.
- The SDK asks for the profile once, on mount, though `sdk-profile/sdk-profile.service.ts:106` says on
  every launch: a page goes on after a suspension. Its gate verifies whatever was captured,
  and lifts a suspension. A function may open after the host closed the gate, and a launch
  made while the gate's timer ran is dropped. A launch on an open modal takes its screen: on
  the last one its host is never told. UNWP and KYA tell after they were closed; BLIDE, SSA
  and KINGMAKER can tell twice.

## What is proved

With TLAPS, for every set of requests and agents, every cycle length above one day and
every fee and daily amount (`ConstantsAssumption`: naturals, positive where the
services demand it), for any number of payouts and of requests that die:

| Theorem | Module | States |
|---|---|---|
| `SavingsInvariantHolds` | SavingsCycle_proofs | `Spec => []IInv` |
| `LedgerAlwaysAgrees`, `DaysOnlyGoUp` | SavingsCycle_proofs | `LedgerAgrees`, `DaysGoUpByOne` of the savings services |
| `GateInvariantHolds` | BepwgGate_proofs | `BSpec => []BInv` |
| `GateTypes`, `LedgerAgreesBothWays`, `BreakAgreesBothWays`, `MaturityHonestBothWays`, `CommissionCountedBothWays`, `PushesBackedBothWays`, `AuditAlwaysBalances` | BepwgGate_proofs | the invariants of `bepwg_concurrent`, both services together |
| `DaysOnlyGoUpBothWays` | BepwgGate_proofs | the action property, both services together |
| `PosInvariantHolds` | PosOfflineLedger_proofs | `PSpec => []PInv` |
| `PosTypes`, `EvidenceAlwaysBehind`, `QueuedAlwaysUnsent`, `FinalAlwaysRespected` | PosOfflineLedger_proofs | the invariants and the action property of `pos_approval` |
| `QuietIsComplete`, `QuietIsCompleteBothWays`, `PushesAlwaysAudited` | SavingsCycle_proofs, BepwgGate_proofs | `QuietMeansComplete` of the savings services and of both together, `PushesAudited` |
| `TurnsKeepTheVault`, `OneRequestKeepsTheVault` | SavingsRefinement_proofs | `Spec /\ []OneAtATime => VaultKept`: requests that never overlap, however many there are, implement `SavingsVault`; so does a single one |
| `EnrollmentInvariantHolds` | UnbankedEnrollment_proofs | `USpec => []UInv` |
| `EnrollmentTypes`, `AnswersAlwaysHonest`, `AlwaysUpgradedOnce`, `BankableAlwaysKept` | UnbankedEnrollment_proofs | the invariants and the action property of `unbanked` |
| `LedgerTypeCorrect`, `LedgerBooksBalance`, `LedgerQueueHonest`, `LedgerKeyOnce`, `LedgerCashBacked` | ExecutionLedger_proofs | the five invariants of `ledger` |
| `SessionsKept` | IdentityServices_proofs | `ISpec => []SessionInv` |
| `IdentityTypeCorrect`, `SessionsActOnce`, `ServedOnEvidence`, `StatusesHonest`, `CustomersTold` | IdentityServices_proofs | the invariants of `identity`, for each of its seven services |
| `OperationsKept`, `HostToldKept` | OperationsServices_proofs | `OSpec => []OperationsInv`, `OSpec => []HostToldInv` |
| `OperationsTyped`, `StatusesJustified`, `AlertsAreRaised`, `CountsAreHonest` | OperationsServices_proofs | the invariants of `operations`, for each of its nine services |

The argument. None of the properties is inductive, for a request carries an old row
and writes it later. `IInv` (module SavingsInvariant) therefore says of every row a
request holds what it says of the row in the database: it is a row the cycle has been
(`RowIn`: days not ahead, total that of its days, no false maturity, its net payout the
recorded one). Two rows work as locks without being meant to. The next day's deposit
row: who inserted it is the only request whose copy has the cycle's own count of days,
and until its update nobody else can move the days (`RequestOK`, `OneDepositWriter`), so
its blind update never loses a deposit. And the break row: it is unique, so who
marks the cycle broken does it with the amounts that were recorded. `BInv` adds that an
early biometric withdrawal is past its own break row (`EarlyLocked`), so that its audit
row is about the recorded break. The proofs have one lemma per action;
`SavingsCycle_proofs` proves them for the handlers, and `BepwgGate_proofs` reuses the
lemmas for the shared statements and adds the gate's steps.

The refinement is proved step by step: with requests that take turns each step of a
handler is a step of the vault or leaves it as it is. `TurnOK` says why: a request that
has not written the row yet is alone, so what it holds is the row, and what it checked
still stands; `GateAgrees` ties the gate, the status, the days and the net payout
together. Neither holds of requests that overlap: in finding 3 a status read with an old
copy takes the emergency gate of a break back. The payouts are a sequence, so that no sum over data is needed.

For the approval session (`SessionAssumption`, `ThrowsAssumption`: any requests, any
number of deaths and throws) the properties are not inductive either: a request
decided on a status that has moved since. `PInv` adds what each request may still rely
on: evidence is never taken back and time never returns, so what the customer had
shown when it loaded still stands when it writes (`WriteOK`); and an entry
taken out of the queue never returns to it, so a reconciliation past its first write
works on one that is out (`EntryTaken`). The lemmas `StepKeeps` and `ReturnKeeps`
say that once for the requests that do not move; each action then shows its own.

For the unbanked profile (`EnrollmentAssumption`: any requests, any submissions) `UInv`
adds what NIBSS decided on the submission a request works on (`RequestOK`: NIBSS does
not change its mind), that a submission belongs to one request until its call is made,
and that of two upgrades under way the second was noticed as an overlap (`PairOK`). A
request that passed the upgrade's check while an account was open is then one of an
overlap or of a profile taken back, which gives `UpgradedOnce`; and a request that
writes over BANKABLE either holds another submission than the one that succeeded or
is a failed dispatch, which gives `BankableKept`.

What is quiet is complete because of what is half done when it is not: a deposit
row or a break row ahead of the cycle, a pending incentive, a payout without its
audit row each have a request in flight that is past the one write and before the other,
or a request has died (`Finishing` in SavingsInvariant, `AuditComing` in BepwgGate_proofs).

For the ledger (`LedgerAssumption`: any accounts, amounts, keys and requests) the
invariant `LInv` ties each request to the row, the entry or the token it works on:
what it wrote so far, and that the row is still as it left it. `BooksBalance` then
follows from what a step adds to the books of an account: nothing, or a row posted, or a
token redeemed, together with the balance it writes; for a balance read before
is the present one as long as the account is not `disturbed`. The books are sums over
sequences of any length. There being no induction over data, the two facts needed of them
(a row appended, a row posted) are proved by the least index at which they would fail.

For the identity services (`FrameAssumption`, `GatewayAssumption`, `ZfpsAssumption`) the
invariant `SessionInv` (module IdentityInvariant) has the same parts for each of the seven
services: what the row says of the world (`RowOK`), what a request past some step relies on
whatever the others do (`RequestOK`: that evidence was shown by the person it carries, or
that the act is done), and what it relies on as long as nothing ever overlapped (`Solo`:
then the row is as this request left it, and whether the act is done follows from the
status and the step). `Reported` counts: what was done is what was told and the requests
between the act and its report. The services take their steps by the same few forms of
`ServiceFrame`, so the proof has one lemma for a step (`MoveInv`: of a step that moves one
request, only the mover's parts and the part of the row are left to show) and then one per
action. TLC checked `SessionInv` as an invariant (882 thousand states) before it was proved:
several of its conjuncts were found that way.

For the operational services (the assumptions of each module: naturals, a threshold and
a number of documents above zero; any accounts, places, devices, vaults, requests and
launches) `OperationsInv` (module OperationsInvariant) has those parts again and two more.
`Owing`: where the row shows half of something (a renewed licence with its flag, an
account marked as low without one, a window full of failures not reported) and nothing
failed, some request is at the step that does the other half, however requests overlap. `Counted`: each request has
units in hand that no counter has yet (pushes made and not counted, accounts opened
without a row, flips not counted); their set over all requests is finite, and counter and
units together are the rows, so that a step shifts units and the sum stays. `ShiftInv` is
the lemma for a step of any service that says which of these it must show; on top of it each
service has its own, and each action one.

What the page tells its host rests on a second invariant, `HostToldInv`. A payload not
yet shown waits in one place at a time: a later launch, the gate, a fetch of the gate's last
step or the timer after it (`Waiting`, `FetchOK`); two fetches in flight are of different
gates (`Apart`). An open modal moves by one timer at a time, that of the screen it shows
(`OneTimer`), so it comes to its last screen once, where it has told or a timer will tell
(`TellsOnce`, `TellsAtLast`). It does not hold of BLIDE, SSA and KINGMAKER, which can tell twice.
TLC checked both invariants (963 thousand states) before they were proved.

## What is only model-checked

Liveness (`DepositHonoured`, `ProvisionalQueued`, `DueNotActive`, `SubmittedSettles`,
`SubmissionEnds`, `ProvisioningEnds`, `OperationsSettle`), which is out of the
prover's reach. Every invariant, every action property and the refinement of the passing
runs is a theorem. The five findings are counterexamples.

## What is not modelled

Identity checks and cryptography (templates, signatures, TOTP values, distances, proof
tokens): data, whose answer is a free choice where it decides anything. ISO 20022
messages, SMS texts, audit texts: formatting. The dashboard and the admin reads: no state
of the services above. RSCC's savings groups and switching tolls: seeded, then only read.
Moving averages and latencies of banks: displayed. Database triggers of `src/ops/`:
outside the program. Of an unbanked profile, the edit of names and addresses; of CASD,
the download counter; of Kingmaker, failure counts and its audit log.

Three smaller hazards, not listed in `PROJECT.json`, that no property is about: the count of cycles of a trusted link
(`bepwg/trusted-agent.service.ts:37`), which two withdrawals can lose and nothing decides on;
the escalation biometric that may be retried without limit (`unwp/unwp-session.service.ts:220`),
a limit the code does not have; and the commit under a session that is still escalating
(`unwp/pos-offline-ledger.service.ts:91`), which the model keeps as the code accepts it.

## Plan

Modules, in order; each with its run, the hazards of `PROJECT.json` as its properties.

1. Done: SavingsCycle, BepwgGate, SavingsVault, SavingsRefinement, and their
   proofs; ExecutionLedger; ApprovalSession, PosOfflineLedger and their proofs;
   UnbankedEnrollment and its proofs; IdentityServices and its services;
   OperationsServices and its services.
2. An abstract session (open, approved, final) that ApprovalSession implements for one
   request at a time.

Theorems to prove next: that ApprovalSession implements the abstract session once it is
written; that the BEPWG gate, with requests that take turns, keeps the vault where
the two findings on it (`PaidAtMostOnce`, `BreakLocksPenalty`) do not apply.
