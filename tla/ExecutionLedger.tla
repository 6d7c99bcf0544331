--------------------------- MODULE ExecutionLedger ---------------------------
(***************************************************************************)
(* The execution layer's ledger, apps/api/src/execution: account balances, *)
(* transfers and bill payments (online, or offline and settled later from  *)
(* the pulse queue by a terminal's heartbeat), payout tokens and the       *)
(* sweeper that expires them.                                              *)
(*                                                                         *)
(* A request awaits one statement at a time.  Some wrap statements in a    *)
(* database transaction; the database runs it at READ COMMITTED, where     *)
(* each read sees what is committed by then, nothing keeps a row that was  *)
(* read from changing, and the writes become visible together.  So the     *)
(* reads of a transaction are steps of their own and its writes are one    *)
(* step; without a transaction each write is a step too.  Balances are     *)
(* written as absolute values worked out from what was read.  A request    *)
(* refused before it writes changes nothing; where the refusal depends     *)
(* only on its first read, it is not an action.                            *)
(***************************************************************************)
EXTENDS Integers, Sequences, FiniteSetsExt

CONSTANTS
    Requests,     \* request slots: how many requests can overlap
    Accounts,     \* ledger accounts, all of one currency and organisation
    Outside,      \* where money leaves the ledger: a biller, an ATM
    Keys, NoKey,  \* idempotency keys, and the absence of one
    NoOp,         \* what a request that is not in flight works on
    Funds,        \* what createAccount deposits in each account
    Amounts,      \* amounts requested
    Batch,        \* queue entries one heartbeat takes, 100 in the code
    MaxRecords,   \* bound: transfers, bill payments and payout tokens
    MaxAborts     \* bound: requests that die, statements that throw

Ops == [kind : {"transfer", "bill", "token"}, key : Keys \cup {NoKey},
        from : Accounts, to : Accounts \cup {Outside}, amount : Amounts,
        offline : BOOLEAN]

ASSUME LedgerAssumption ==
    /\ Outside \notin Accounts /\ NoKey \notin Keys /\ NoOp \notin Ops
    /\ Funds \in Nat /\ Amounts \subseteq Nat \ {0}
    /\ Batch \in Nat \ {0}
    /\ MaxRecords \in Nat /\ MaxAborts \in Nat

VARIABLES
    balance,     \* balanceMinor of each account
    rows,        \* LedgerTransfer and BillPayment rows, oldest first
    queue,       \* PulseSyncQueue entries, oldest first
    tokens,      \* WithdrawalAuthorization rows, oldest first
    cash,        \* tokens redemptions were granted for, in that order
    pc,          \* where each request is
    job,         \* what each request works on and has read
    disturbed,   \* accounts that two requests worked on at once, or that a
                 \* bill debited and was never recorded for
    aborts       \* requests that died, statements that threw

db == <<balance, rows, queue, tokens, cash>>
vars == <<db, pc, job, disturbed, aborts>>

Transfers == {op \in Ops : op.kind = "transfer" /\ op.to \in Accounts \ {op.from}}
Bills == {op \in Ops : op.kind = "bill" /\ op.to = Outside}
Payouts == {op \in Ops : /\ op.kind = "token" /\ op.to = Outside
                         /\ op.key = NoKey /\ ~ op.offline}

\* A settled bill is SETTLED in the code, a settled transfer POSTED.
Rows == [op : Transfers \cup Bills, status : {"PROVISIONAL", "POSTED"}]
QueueEntries == [row : Nat \ {0}, status : {"PENDING", "SETTLED"}]
Tokens == [op : Payouts, due : BOOLEAN,
           status : {"ACTIVE", "REDEEMED", "EXPIRED"}]
Labels == {"idle", "transfer_credit", "transfer_commit", "bill_key",
           "bill_debit", "bill_create", "enqueue", "settle_row",
           "settle_debit", "settle_credit", "settle_commit", "token_create",
           "redeem_balance", "redeem_commit"}

\* The operation, the balances read, the row, queue entry or token it handles,
\* and the queue entries the request has still to settle.
Jobs == [op : Ops \cup {NoOp}, seen : Nat, seenTo : Nat, id : Nat,
         todo : SUBSET Nat]
NoJob == [op |-> NoOp, seen |-> 0, seenTo |-> 0, id |-> 0, todo |-> {}]

LTypeOK ==
    /\ balance \in [Accounts -> Nat]
    /\ rows \in Seq(Rows)
    /\ queue \in Seq(QueueEntries)
    /\ tokens \in Seq(Tokens)
    /\ cash \in Seq(Nat \ {0})
    /\ pc \in [Requests -> Labels]
    /\ job \in [Requests -> Jobs]
    /\ disturbed \subseteq Accounts
    /\ aborts \in Nat

LInit ==
    /\ balance = [a \in Accounts |-> Funds]
    /\ rows = <<>> /\ queue = <<>> /\ tokens = <<>> /\ cash = <<>>
    /\ pc = [r \in Requests |-> "idle"]
    /\ job = [r \in Requests |-> NoJob]
    /\ disturbed = {}
    /\ aborts = 0

-----------------------------------------------------------------------------
(* Steps of a request.                                                     *)

Touches(j) == IF j.op = NoOp THEN {} ELSE {j.op.from, j.op.to} \cap Accounts

\* Accounts that two requests work on.
Contested(jobs) ==
    UNION {Touches(jobs[p[1]]) \cap Touches(jobs[p[2]]) :
           p \in {p \in Requests \X Requests : p[1] # p[2]}}

Goto(r, label, locals, lost) ==
    /\ pc' = [pc EXCEPT ![r] = label]
    /\ job' = [job EXCEPT ![r] = locals]
    /\ disturbed' = disturbed \cup lost \cup Contested(job')

Go(r, label, locals) == Goto(r, label, locals, {}) /\ UNCHANGED aborts

Begin(r, label, locals) ==
    pc[r] = "idle" /\ Go(r, label, locals) /\ UNCHANGED db

Return(r) == Go(r, "idle", NoJob)

\* MaxRecords holds for the records in sight, too.
Room ==
    Len(rows) + Len(tokens) + Cardinality({r \in Requests : pc[r] \in
        {"transfer_credit", "transfer_commit", "bill_key", "bill_debit",
         "bill_create", "token_create"}}) < MaxRecords

\* Mut... are variations of the code that the properties have to tell from it.
\* Here the key is looked for among settled rows only.
MutKeyTaken(op) ==
    op.key # NoKey /\ \E i \in 1 .. Len(rows) :
        /\ rows[i].op.kind = op.kind /\ rows[i].op.key = op.key
        /\ rows[i].status = "POSTED"

\* The unique constraint on a kind's idempotency keys; a key may be absent.
KeyTaken(op) ==
    op.key # NoKey /\ \E i \in 1 .. Len(rows) :
        rows[i].op.kind = op.kind /\ rows[i].op.key = op.key

\* The amount leaves the account it was read from.
Debited(op, seen) == [balance EXCEPT ![op.from] = seen - op.amount]

\* Variation: the credit starts from the debit's read.
MutMoved(op, seen, seenTo) ==
    [Debited(op, seen) EXCEPT ![op.to] = seen + op.amount]

\* Both balances of a transfer, each worked out from its own read.
Moved(op, seen, seenTo) ==
    [Debited(op, seen) EXCEPT ![op.to] = seenTo + op.amount]

-----------------------------------------------------------------------------
(* Transfers: one transaction, and a queue entry after it when offline.    *)

\* A key used already answers with the old row.  One that is used between the
\* look-up and the read of the balance is found out at the commit, with the
\* same effect, so that both are one step.
TransferBegin(r, op) ==
    /\ ~ KeyTaken(op) /\ Room
    /\ Begin(r, "transfer_credit",
             [NoJob EXCEPT !.op = op, !.seen = balance[op.from]])

\* Variation: no look at the balance.
MutTransferCredit(r) ==
    /\ pc[r] = "transfer_credit"
    /\ Go(r, "transfer_commit", [job[r] EXCEPT !.seenTo = balance[job[r].op.to]])
    /\ UNCHANGED db

TransferCredit(r) ==
    LET op == job[r].op IN
    /\ pc[r] = "transfer_credit"
    /\ IF ~ op.offline /\ job[r].seen < op.amount THEN Return(r)
       ELSE Go(r, "transfer_commit", [job[r] EXCEPT !.seenTo = balance[op.to]])
    /\ UNCHANGED db

\* The writes of the transaction; a key another request used in the meantime
\* rolls them back.
TransferCommit(r) ==
    LET op == job[r].op IN
    /\ pc[r] = "transfer_commit"
    /\ \/ /\ KeyTaken(op)
          /\ Return(r)
          /\ UNCHANGED <<balance, rows>>
       \/ /\ ~ KeyTaken(op) /\ op.offline
          /\ rows' = Append(rows, [op |-> op, status |-> "PROVISIONAL"])
          /\ Go(r, "enqueue", [NoJob EXCEPT !.id = Len(rows')])
          /\ UNCHANGED balance
       \/ /\ ~ KeyTaken(op) /\ ~ op.offline
          /\ balance' = Moved(op, job[r].seen, job[r].seenTo)
          /\ rows' = Append(rows, [op |-> op, status |-> "POSTED"])
          /\ Return(r)
    /\ UNCHANGED <<queue, tokens, cash>>

\* Variation: the entry is forgotten.
MutEnqueue(r) == pc[r] = "enqueue" /\ Return(r) /\ UNCHANGED db

\* pulse.enqueue, the last statement of every offline request.
Enqueue(r) ==
    /\ pc[r] = "enqueue"
    /\ queue' = Append(queue, [row |-> job[r].id, status |-> "PENDING"])
    /\ Return(r)
    /\ UNCHANGED <<balance, rows, tokens, cash>>

-----------------------------------------------------------------------------
(* Bill payments: no transaction; the key is looked up after the balance.  *)

BillRead(r, op) ==
    /\ Room
    /\ Begin(r, "bill_key", [NoJob EXCEPT !.op = op, !.seen = balance[op.from]])

BillKey(r) ==
    LET op == job[r].op IN
    /\ pc[r] = "bill_key"
    /\ IF KeyTaken(op) \/ (~ op.offline /\ job[r].seen < op.amount)
       THEN Return(r)
       ELSE Go(r, IF op.offline THEN "bill_create" ELSE "bill_debit", job[r])
    /\ UNCHANGED db

BillDebit(r) ==
    /\ pc[r] = "bill_debit"
    /\ balance' = Debited(job[r].op, job[r].seen)
    /\ Go(r, "bill_create", job[r])
    /\ UNCHANGED <<rows, queue, tokens, cash>>

\* The account that stays debited when the statement after it fails.
Unrecorded(r) ==
    IF pc[r] = "bill_create" /\ ~ job[r].op.offline THEN {job[r].op.from} ELSE {}

\* A key used in the meantime throws; what was debited stays debited.
BillCreate(r) ==
    LET op == job[r].op IN
    /\ pc[r] = "bill_create"
    /\ \/ /\ KeyTaken(op)
          /\ Goto(r, "idle", NoJob, Unrecorded(r))
          /\ UNCHANGED <<rows, aborts>>
       \/ /\ ~ KeyTaken(op)
          /\ rows' = Append(rows, [op |-> op, status |->
                            IF op.offline THEN "PROVISIONAL" ELSE "POSTED"])
          /\ IF op.offline
             THEN Go(r, "enqueue", [NoJob EXCEPT !.id = Len(rows')])
             ELSE Return(r)
    /\ UNCHANGED <<balance, queue, tokens, cash>>

-----------------------------------------------------------------------------
(* A heartbeat settles the oldest pending entries, each in a transaction.  *)

SettleRead(r) ==
    LET pending == {i \in 1 .. Len(queue) : queue[i].status = "PENDING"} IN
    /\ pending # {}
    /\ Begin(r, "settle_row", [NoJob EXCEPT !.todo =
           {i \in pending : Cardinality({j \in pending : j < i}) < Batch}])

\* The entry in hand is done with, settled or not.
NextEntry(r, todo) ==
    LET rest == todo \ {Min(todo)} IN
    Go(r, IF rest = {} THEN "idle" ELSE "settle_row",
       [NoJob EXCEPT !.todo = rest])

SettleRow(r) ==
    LET i == Min(job[r].todo)
        row == rows[queue[i].row] IN
    /\ pc[r] = "settle_row"
    /\ IF row.status # "PROVISIONAL" THEN NextEntry(r, job[r].todo)
       ELSE Go(r, "settle_debit", [job[r] EXCEPT !.op = row.op, !.id = i])
    /\ UNCHANGED db

SettleDebit(r) ==
    LET op == job[r].op
        seen == balance[op.from] IN
    /\ pc[r] = "settle_debit"
    /\ \/ /\ op.kind = "transfer"
          /\ Go(r, "settle_credit", [job[r] EXCEPT !.seen = seen])
       \/ /\ op.kind = "bill" /\ seen >= op.amount
          /\ Go(r, "settle_commit", [job[r] EXCEPT !.seen = seen])
       \/ /\ op.kind = "bill" /\ seen < op.amount
          /\ NextEntry(r, job[r].todo)
    /\ UNCHANGED db

SettleCredit(r) ==
    LET op == job[r].op IN
    /\ pc[r] = "settle_credit"
    /\ IF job[r].seen < op.amount THEN NextEntry(r, job[r].todo)
       ELSE Go(r, "settle_commit", [job[r] EXCEPT !.seenTo = balance[op.to]])
    /\ UNCHANGED db

\* Variation: the entry is not marked.
MutSettleCommit(r) ==
    LET op == job[r].op IN
    /\ pc[r] = "settle_commit"
    /\ balance' = IF op.kind = "bill" THEN Debited(op, job[r].seen)
                  ELSE Moved(op, job[r].seen, job[r].seenTo)
    /\ rows' = [rows EXCEPT ![queue[job[r].id].row].status = "POSTED"]
    /\ NextEntry(r, job[r].todo)
    /\ UNCHANGED <<queue, tokens, cash>>

\* Row and entry are updated by their ids, whatever became of them since.
SettleCommit(r) ==
    LET op == job[r].op
        i == job[r].id IN
    /\ pc[r] = "settle_commit"
    /\ balance' = IF op.kind = "bill" THEN Debited(op, job[r].seen)
                  ELSE Moved(op, job[r].seen, job[r].seenTo)
    /\ rows' = [rows EXCEPT ![queue[i].row].status = "POSTED"]
    /\ queue' = [queue EXCEPT ![i].status = "SETTLED"]
    /\ NextEntry(r, job[r].todo)
    /\ UNCHANGED <<tokens, cash>>

\* A statement throws: the transaction rolls back, the loop goes on.
SettleThrows(r) ==
    /\ pc[r] \in {"settle_row", "settle_debit", "settle_credit", "settle_commit"}
    /\ aborts < MaxAborts
    /\ aborts' = aborts + 1
    /\ LET rest == job[r].todo \ {Min(job[r].todo)} IN
       Goto(r, IF rest = {} THEN "idle" ELSE "settle_row",
            [NoJob EXCEPT !.todo = rest], {})
    /\ UNCHANGED db

-----------------------------------------------------------------------------
(* Payout tokens.                                                          *)

AuthorizeRead(r, op) ==
    /\ balance[op.from] >= op.amount /\ Room
    /\ Begin(r, "token_create", [NoJob EXCEPT !.op = op])

TokenCreate(r) ==
    /\ pc[r] = "token_create"
    /\ tokens' = Append(tokens, [op |-> job[r].op, status |-> "ACTIVE",
                                 due |-> FALSE])
    /\ Return(r)
    /\ UNCHANGED <<balance, rows, queue, cash>>

\* Status and expiry are checked before the transaction begins.
RedeemRead(r, t) ==
    /\ tokens[t].status = "ACTIVE" /\ ~ tokens[t].due
    /\ Begin(r, "redeem_balance", [NoJob EXCEPT !.op = tokens[t].op, !.id = t])

RedeemBalance(r) ==
    LET seen == balance[job[r].op.from] IN
    /\ pc[r] = "redeem_balance"
    /\ IF seen < job[r].op.amount THEN Return(r)
       ELSE Go(r, "redeem_commit", [job[r] EXCEPT !.seen = seen])
    /\ UNCHANGED db

\* The ATM hands out the money.
RedeemCommit(r) ==
    /\ pc[r] = "redeem_commit"
    /\ balance' = Debited(job[r].op, job[r].seen)
    /\ tokens' = [tokens EXCEPT ![job[r].id].status = "REDEEMED"]
    /\ cash' = Append(cash, job[r].id)
    /\ Return(r)
    /\ UNCHANGED <<rows, queue>>

\* Fifteen minutes pass.
TokenDue(t) ==
    /\ ~ tokens[t].due
    /\ tokens' = [tokens EXCEPT ![t].due = TRUE]
    /\ UNCHANGED <<balance, rows, queue, cash, pc, job, disturbed, aborts>>

\* Variations: every due token; the comparison of the dates the wrong way round.
MutSweptAll(token) ==
    IF token.due THEN [token EXCEPT !.status = "EXPIRED"] ELSE token
MutSweptEarly(token) ==
    IF token.status = "ACTIVE" /\ ~ token.due
    THEN [token EXCEPT !.status = "EXPIRED"] ELSE token

\* What the sweeper's one update makes of a token.
Swept(token) ==
    IF token.status = "ACTIVE" /\ token.due
    THEN [token EXCEPT !.status = "EXPIRED"] ELSE token

SweepExpiredTokens ==
    /\ tokens' = [t \in 1 .. Len(tokens) |-> Swept(tokens[t])]
    /\ tokens' # tokens
    /\ UNCHANGED <<balance, rows, queue, cash, pc, job, disturbed, aborts>>

-----------------------------------------------------------------------------
\* A request dies: its transaction rolls back, the rest of it never happens.
Abort(r) ==
    /\ pc[r] # "idle" /\ aborts < MaxAborts
    /\ aborts' = aborts + 1
    /\ Goto(r, "idle", NoJob, Unrecorded(r))
    /\ UNCHANGED db

Start(r) ==
    \/ \E op \in Transfers : TransferBegin(r, op)
    \/ \E op \in Bills : BillRead(r, op)
    \/ \E op \in Payouts : AuthorizeRead(r, op)
    \/ \E t \in 1 .. Len(tokens) : RedeemRead(r, t)
    \/ SettleRead(r)

Continue(r) ==
    \/ TransferCredit(r) \/ TransferCommit(r) \/ Enqueue(r)
    \/ BillKey(r) \/ BillDebit(r) \/ BillCreate(r)
    \/ SettleRow(r) \/ SettleDebit(r) \/ SettleCredit(r) \/ SettleCommit(r)
    \/ TokenCreate(r) \/ RedeemBalance(r) \/ RedeemCommit(r)

LNext ==
    \/ \E r \in Requests : Start(r) \/ Continue(r) \/ SettleThrows(r) \/ Abort(r)
    \/ \E t \in 1 .. Len(tokens) : TokenDue(t)
    \/ SweepExpiredTokens

\* Statements that were issued return, and the sweeper runs every minute.
\* Nothing makes a client or a terminal call, or a token grow old.
LSpec ==
    /\ LInit /\ [][LNext]_vars
    /\ \A r \in Requests : WF_vars(Continue(r))
    /\ WF_vars(SweepExpiredTokens)

-----------------------------------------------------------------------------
(* Properties.                                                             *)

\* v[1] + ... + v[n].
SumUpTo(v, n) ==
    LET sum[k \in Nat] == IF k = 0 THEN 0 ELSE sum[k - 1] + v[k] IN sum[n]

\* What a row and a token move into and out of an account.
Credit(row, a) ==
    IF row.status = "POSTED" /\ row.op.to = a THEN row.op.amount
    ELSE IF row.status = "POSTED" /\ row.op.from = a THEN - row.op.amount
    ELSE 0

Payout(token, a) ==
    IF token.status = "REDEEMED" /\ token.op.from = a THEN token.op.amount ELSE 0

Posted(a) == SumUpTo([i \in 1 .. Len(rows) |-> Credit(rows[i], a)], Len(rows))

Redeemed(a) ==
    SumUpTo([t \in 1 .. Len(tokens) |-> Payout(tokens[t], a)], Len(tokens))

\* What the bill payment on a has debited and not recorded yet; on an account
\* that is not disturbed there is one such request at most.
Late(a) == {r \in Requests : a \in Unrecorded(r)}
OnTheWay(a) ==
    IF Late(a) = {} THEN 0 ELSE job[CHOOSE r \in Late(a) : TRUE].op.amount

\* An account no two requests worked on at once holds what createAccount put
\* there and what the rows and the redeemed tokens say was moved since; a bill
\* is the one payment whose debit shows before its row.  This holds whatever
\* the requests on the other accounts do, and however transfers, settlements
\* and redemptions die.
BooksBalance ==
    \A a \in Accounts \ disturbed :
        balance[a] = Funds + Posted(a) - Redeemed(a) - OnTheWay(a)

Entries(i) == {k \in 1 .. Len(queue) : queue[k].row = i}

\* The queue tells the truth about the rows: no row is queued twice, an online
\* one never, and an offline one is posted exactly when its entry is settled,
\* also when two heartbeats settle the same entry at once.
QueueHonest ==
    /\ \A k \in 1 .. Len(queue) :
          queue[k].row \in 1 .. Len(rows) /\ rows[queue[k].row].op.offline
    /\ \A i \in 1 .. Len(rows) :
          /\ Cardinality(Entries(i)) <= 1
          /\ rows[i].op.offline =>
                (rows[i].status = "POSTED"
                 <=> \E k \in Entries(i) : queue[k].status = "SETTLED")

\* One key makes one transfer and one bill at most, though transfers look the
\* key up long before they write and bills write a balance in between.
KeyOnce ==
    \A i, j \in 1 .. Len(rows) :
        i # j /\ rows[i].op.key # NoKey /\ rows[i].op.kind = rows[j].op.kind
            => rows[i].op.key # rows[j].op.key

\* Money is handed out for a token only with its status written along, and a
\* redeemed token stays redeemed: the sweeper, running at any time, takes no
\* money back.
CashBacked == {cash[k] : k \in 1 .. Len(cash)}
              = {t \in 1 .. Len(tokens) : tokens[t].status = "REDEEMED"}

\* An offline row reaches the queue, unless a request died; nothing else
\* would ever settle it.
ProvisionalQueued ==
    \A i \in 1 .. MaxRecords :
        i \in {j \in 1 .. Len(rows) : rows[j].op.offline}
            ~> (aborts > 0 \/ \E k \in 1 .. Len(queue) : queue[k].row = i)

\* A token that is due does not stay ACTIVE, whatever a redemption in flight
\* makes of it.
DueNotActive ==
    \A t \in 1 .. MaxRecords :
        t \in {u \in 1 .. Len(tokens) : tokens[u].due}
            ~> t \notin {u \in 1 .. Len(tokens) : tokens[u].status = "ACTIVE"}

\* One token, one payout: the redemption is documented to check the token in
\* the transaction that debits the account.
TokenPaidOnce ==
    \A j, k \in 1 .. Len(cash) : j # k => cash[j] # cash[k]

=============================================================================
