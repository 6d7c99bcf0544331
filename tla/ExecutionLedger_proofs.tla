----------------------- MODULE ExecutionLedger_proofs -----------------------
(***************************************************************************)
(* The safety properties of ExecutionLedger for any number of requests,    *)
(* accounts, keys and records.  The first part is about the sums the books *)
(* are kept with.  The invariant then says, of a request between two of    *)
(* its statements, what it works on, that what it read was enough, and     *)
(* that what it read still stands on every account nobody else works on.   *)
(* A step is shown to keep that of the others first, and of itself then.   *)
(***************************************************************************)
EXTENDS ExecutionLedger, FiniteSetTheorems, WellFoundedInduction, TLAPS

-----------------------------------------------------------------------------
(* Least elements and sums.                                                *)

\* A set of naturals that is not empty has a least element.
LEMMA LeastExists ==
    ASSUME NEW S \in SUBSET Nat, S # {}
    PROVE  \E m \in S : \A n \in S : m <= n
<1>1. PICK m \in S : \A n \in S : ~ (<<n, m>> \in OpToRel(<, Nat))
  BY WFMin, NatLessThanWellFounded, Zenon
<1>2. \A n \in S : ~ (n < m)
  BY <1>1, Zenon DEF OpToRel
<1> QED
  BY <1>2

LEMMA MinIsLeast ==
    ASSUME NEW S \in SUBSET Nat, S # {}
    PROVE  Min(S) \in S
BY LeastExists DEF Min

\* s holds the sums of v up to n.
SumsUpTo(s, v, n) ==
    \A k \in 0 .. n : s[k] = IF k = 0 THEN 0 ELSE s[k - 1] + v[k]

\* They exist, for there is no least n without them ...
LEMMA SumsExist ==
    ASSUME NEW v, NEW n \in Nat
    PROVE  \E s : SumsUpTo(s, v, n)
<1> DEFINE Without == {m \in Nat : ~ \E s : SumsUpTo(s, v, m)}
<1>1. SUFFICES ASSUME Without # {} PROVE FALSE
  OBVIOUS
<1>2. PICK m \in Without : \A l \in Without : m <= l
  BY <1>1, LeastExists
<1>3. CASE m = 0
  <2>1. SumsUpTo([k \in {0} |-> 0], v, 0)
    BY DEF SumsUpTo
  <2> QED
    BY <1>2, <1>3, <2>1
<1>4. CASE m # 0
  <2>1. m - 1 \in Nat /\ m - 1 \notin Without
    BY <1>2, <1>4
  <2>2. PICK s : SumsUpTo(s, v, m - 1)
    BY <2>1
  <2> DEFINE t == [k \in 0 .. m |-> IF k = m THEN s[m - 1] + v[m] ELSE s[k]]
  <2>3. SumsUpTo(t, v, m)
    BY <1>2, <1>4, <2>2 DEF SumsUpTo
  <2> QED
    BY <1>2, <2>3
<1> QED
  BY <1>3, <1>4

\* ... and two tables of them agree, for there is no least place where not.
LEMMA SumsAgree ==
    ASSUME NEW v, NEW w, NEW s, NEW t, NEW n \in Nat,
           SumsUpTo(s, v, n), SumsUpTo(t, w, n),
           \A k \in 1 .. n : v[k] = w[k]
    PROVE  s[n] = t[n]
<1> DEFINE Apart == {k \in 0 .. n : s[k] # t[k]}
<1>1. SUFFICES ASSUME Apart # {} PROVE FALSE
  OBVIOUS
<1>2. PICK m \in Apart : \A l \in Apart : m <= l
  <2>1. Apart \in SUBSET Nat
    OBVIOUS
  <2> QED
    BY <1>1, <2>1, LeastExists
<1>3. m # 0
  BY <1>2 DEF SumsUpTo
<1>4. m - 1 \in 0 .. n /\ m - 1 \notin Apart
  BY <1>2, <1>3
<1>5. s[m] = s[m - 1] + v[m] /\ t[m] = t[m - 1] + w[m] /\ v[m] = w[m]
  BY <1>2, <1>3 DEF SumsUpTo
<1> QED
  BY <1>2, <1>4, <1>5

\* So the recursion defines a function, and this is its table.
LEMMA SumUpToIs ==
    ASSUME NEW v, NEW n \in Nat
    PROVE  \E s : SumsUpTo(s, v, n) /\ SumUpTo(v, n) = s[n]
<1> DEFINE Table(k) == CHOOSE s : SumsUpTo(s, v, k)
           F == [k \in Nat |-> Table(k)[k]]
           Rec(f) == f = [k \in Nat |-> IF k = 0 THEN 0 ELSE f[k - 1] + v[k]]
           G == CHOOSE sum : Rec(sum)
<1>1. ASSUME NEW k \in Nat PROVE SumsUpTo(Table(k), v, k)
  BY SumsExist
<1>2. ASSUME NEW k \in Nat
      PROVE  F[k] = IF k = 0 THEN 0 ELSE F[k - 1] + v[k]
  <2>1. CASE k = 0
    BY <1>1, <2>1 DEF SumsUpTo
  <2>2. CASE k # 0
    <3>1. k - 1 \in Nat
      BY <2>2
    <3>2. SumsUpTo(Table(k), v, k) /\ SumsUpTo(Table(k - 1), v, k - 1)
      BY <1>1, <3>1
    <3> HIDE DEF Table
    <3>3. SumsUpTo(Table(k), v, k - 1)
      BY <3>2 DEF SumsUpTo
    <3>4. Table(k)[k - 1] = Table(k - 1)[k - 1]
      BY <3>1, <3>2, <3>3, SumsAgree
    <3>5. Table(k)[k] = Table(k)[k - 1] + v[k]
      BY <2>2, <3>2 DEF SumsUpTo
    <3> QED
      BY <2>2, <3>1, <3>4, <3>5
  <2> QED
    BY <2>1, <2>2
<1>3. Rec(F)
  <2> HIDE DEF Table
  <2> QED
    BY <1>2
<1>4. Rec(G)
  <2> HIDE DEF F
  <2> QED
    BY <1>3
<1>5. SumUpTo(v, n) = G[n]
  BY DEF SumUpTo
<1>6. SumsUpTo(G, v, n)
  <2> HIDE DEF G
  <2> QED
    BY <1>4 DEF SumsUpTo
<1> QED
  BY <1>5, <1>6

\* Equal terms, equal sums.
LEMMA SumOfEqual ==
    ASSUME NEW v, NEW w, NEW n \in Nat, \A k \in 1 .. n : v[k] = w[k]
    PROVE  SumUpTo(v, n) = SumUpTo(w, n)
BY SumUpToIs, SumsAgree

\* One term more.
LEMMA SumOfOneMore ==
    ASSUME NEW v, NEW n \in Nat
    PROVE  SumUpTo(v, n + 1) = SumUpTo(v, n) + v[n + 1]
<1>1. PICK s : SumsUpTo(s, v, n + 1) /\ SumUpTo(v, n + 1) = s[n + 1]
  BY SumUpToIs
<1>2. PICK t : SumsUpTo(t, v, n) /\ SumUpTo(v, n) = t[n]
  BY SumUpToIs
<1>3. SumsUpTo(s, v, n)
  BY <1>1 DEF SumsUpTo
<1>4. s[n] = t[n]
  BY <1>2, <1>3, SumsAgree
<1>5. s[n + 1] = s[n] + v[n + 1]
  BY <1>1 DEF SumsUpTo
<1> QED
  BY <1>1, <1>2, <1>4, <1>5

LEMMA SumOfNone ==
    ASSUME NEW v
    PROVE  SumUpTo(v, 0) = 0
<1>1. PICK s : SumsUpTo(s, v, 0) /\ SumUpTo(v, 0) = s[0]
  BY SumUpToIs
<1> QED
  BY <1>1 DEF SumsUpTo

\* Integers add up to an integer.
LEMMA SumOfInts ==
    ASSUME NEW v, NEW n \in Nat, \A k \in 1 .. n : v[k] \in Int
    PROVE  SumUpTo(v, n) \in Int
<1> DEFINE Not == {m \in 0 .. n : SumUpTo(v, m) \notin Int}
<1>1. SUFFICES ASSUME Not # {} PROVE FALSE
  OBVIOUS
<1>2. PICK m \in Not : \A l \in Not : m <= l
  <2>1. Not \in SUBSET Nat
    OBVIOUS
  <2> QED
    BY <1>1, <2>1, LeastExists
<1>3. m # 0
  BY <1>2, SumOfNone
<1>4. m - 1 \in Nat /\ m - 1 \in 0 .. n /\ m - 1 \notin Not /\ (m - 1) + 1 = m
  BY <1>2, <1>3
<1>5. SumUpTo(v, m) = SumUpTo(v, m - 1) + v[m]
  BY <1>4, SumOfOneMore
<1> QED
  BY <1>2, <1>3, <1>4, <1>5

\* One term changes.
LEMMA SumOfChanged ==
    ASSUME NEW v, NEW w, NEW n \in Nat, NEW i \in 1 .. n,
           \A k \in 1 .. n : v[k] \in Int /\ w[k] \in Int,
           \A k \in 1 .. n : k # i => v[k] = w[k]
    PROVE  SumUpTo(w, n) = SumUpTo(v, n) - v[i] + w[i]
<1> DEFINE Wrong == {m \in i .. n : SumUpTo(w, m) # SumUpTo(v, m) - v[i] + w[i]}
<1>1. SUFFICES ASSUME Wrong # {} PROVE FALSE
  OBVIOUS
<1>2. PICK m \in Wrong : \A l \in Wrong : m <= l
  <2>1. Wrong \in SUBSET Nat
    OBVIOUS
  <2> QED
    BY <1>1, <2>1, LeastExists
<1>3. /\ m - 1 \in Nat /\ (m - 1) + 1 = m
      /\ SumUpTo(v, m - 1) \in Int /\ SumUpTo(w, m - 1) \in Int
  BY <1>2, SumOfInts
<1>4. /\ SumUpTo(v, m) = SumUpTo(v, m - 1) + v[m]
      /\ SumUpTo(w, m) = SumUpTo(w, m - 1) + w[m]
  BY <1>3, SumOfOneMore
<1>5. CASE m = i
  <2>1. SumUpTo(v, m - 1) = SumUpTo(w, m - 1)
    BY <1>3, <1>5, SumOfEqual
  <2> QED
    BY <1>2, <1>3, <1>4, <1>5, <2>1
<1>6. CASE m # i
  <2>1. m - 1 \in i .. n /\ m - 1 \notin Wrong /\ v[m] = w[m]
    BY <1>2, <1>6
  <2> QED
    BY <1>2, <1>3, <1>4, <2>1
<1> QED
  BY <1>5, <1>6

-----------------------------------------------------------------------------
(* The invariant.                                                          *)

Settling == {"settle_row", "settle_debit", "settle_credit", "settle_commit"}

\* Where a request has read the balance it debits, and the one it credits.
HasRead == {"transfer_credit", "transfer_commit", "bill_key", "bill_debit",
            "settle_credit", "settle_commit", "redeem_commit"}
HasReadTo == {"transfer_commit", "settle_commit"}

\* What it works on.
WorkOK(r) ==
    LET j == job[r] IN
    /\ pc[r] \in {"transfer_credit", "transfer_commit"} => j.op \in Transfers
    /\ pc[r] \in {"bill_key", "bill_debit", "bill_create"} => j.op \in Bills
    /\ pc[r] = "bill_debit" => ~ j.op.offline
    /\ pc[r] = "token_create" => j.op \in Payouts
    /\ pc[r] \in {"redeem_balance", "redeem_commit"} =>
          j.id \in 1 .. Len(tokens) /\ j.op = tokens[j.id].op
    /\ pc[r] \in Settling => j.todo # {} /\ j.todo \subseteq 1 .. Len(queue)
    /\ pc[r] \in Settling \ {"settle_row"} =>
          j.id \in 1 .. Len(queue) /\ j.op = rows[queue[j.id].row].op
    /\ pc[r] = "settle_credit" => j.op.kind = "transfer"
    /\ pc[r] = "enqueue" =>
          /\ j.id \in 1 .. Len(rows)
          /\ rows[j.id].op.offline /\ rows[j.id].status = "PROVISIONAL"
          /\ \A k \in 1 .. Len(queue) : queue[k].row # j.id

\* What it read was enough ...
Covered(r) ==
    LET j == job[r] IN
    /\ pc[r] = "transfer_commit" /\ ~ j.op.offline => j.seen >= j.op.amount
    /\ pc[r] \in {"bill_debit", "settle_commit", "redeem_commit"} =>
          j.seen >= j.op.amount

\* ... and still stands on an account nobody else works on: the balance, and
\* that the row or the token has not been paid.
Current(r) ==
    LET j == job[r] IN
    /\ pc[r] \in HasRead /\ j.op.from \notin disturbed =>
          j.seen = balance[j.op.from]
    /\ pc[r] \in HasReadTo /\ j.op.kind = "transfer" /\ j.op.to \notin disturbed =>
          j.seenTo = balance[j.op.to]
    /\ pc[r] \in Settling \ {"settle_row"} /\ ~ Touches(j) \subseteq disturbed =>
          rows[queue[j.id].row].status = "PROVISIONAL"
    /\ pc[r] \in {"redeem_balance", "redeem_commit"} /\ ~ Touches(j) \subseteq disturbed =>
          tokens[j.id].status # "REDEEMED"

RequestOK(r) == WorkOK(r) /\ Covered(r) /\ Current(r)

\* Requests on one account are noticed, and queue different rows.
PairOK(q, r) ==
    q # r => /\ Touches(job[q]) \cap Touches(job[r]) \subseteq disturbed
             /\ pc[q] = "enqueue" /\ pc[r] = "enqueue" => job[q].id # job[r].id

\* A row is queued once.
QueuedOnce ==
    /\ \A k \in 1 .. Len(queue) :
          queue[k].row \in 1 .. Len(rows) /\ rows[queue[k].row].op.offline
    /\ \A k, l \in 1 .. Len(queue) : k # l => queue[k].row # queue[l].row
    /\ \A i \in 1 .. Len(rows) :
          rows[i].op.offline =>
             (rows[i].status = "POSTED"
              <=> \E k \in 1 .. Len(queue) :
                     queue[k].row = i /\ queue[k].status = "SETTLED")

LInv ==
    /\ LTypeOK
    /\ BooksBalance
    /\ QueuedOnce
    /\ KeyOnce
    /\ CashBacked
    /\ \A r \in Requests : RequestOK(r)
    /\ \A q, r \in Requests : PairOK(q, r)

\* What an operation on the ledger is.
LEMMA OpFacts ==
    ASSUME NEW op \in Ops
    PROVE  /\ op # NoOp
           /\ op.from \in Accounts
           /\ op.amount \in Nat /\ op.amount > 0
           /\ op \in Transfers => op.to \in Accounts /\ op.to # op.from
           /\ op \in Bills \cup Payouts => op.to \notin Accounts
<1>1. op # NoOp /\ op.from \in Accounts /\ op.amount \in Amounts
  BY LedgerAssumption DEF Ops
<1>2. \A n \in Amounts : n \in Nat /\ n > 0
  BY LedgerAssumption
<1>3. /\ op \in Transfers => op.to \in Accounts /\ op.to # op.from
      /\ op \in Bills \cup Payouts => op.to \notin Accounts
  BY LedgerAssumption DEF Transfers, Bills, Payouts
<1> QED
  BY <1>1, <1>2, <1>3

LEMMA TouchesOp ==
    ASSUME NEW j, j.op \in Ops
    PROVE  Touches(j) = {j.op.from, j.op.to} \cap Accounts
BY OpFacts DEF Touches

LEMMA TouchesNothing == Touches(NoJob) = {}
BY DEF Touches, NoJob

LEMMA RowFacts ==
    ASSUME LTypeOK, NEW i \in 1 .. Len(rows)
    PROVE  /\ rows[i].op \in Transfers \cup Bills /\ rows[i].op \in Ops
           /\ rows[i].status \in {"PROVISIONAL", "POSTED"}
<1>1. rows[i] \in Rows
  BY DEF LTypeOK
<1> QED
  BY <1>1 DEF Rows, Transfers, Bills

LEMMA TokenFacts ==
    ASSUME LTypeOK, NEW t \in 1 .. Len(tokens)
    PROVE  /\ tokens[t].op \in Payouts /\ tokens[t].op \in Ops
           /\ tokens[t].status \in {"ACTIVE", "REDEEMED", "EXPIRED"}
           /\ tokens[t].due \in BOOLEAN
<1>1. tokens[t] \in Tokens
  BY DEF LTypeOK
<1> QED
  BY <1>1 DEF Tokens, Payouts

LEMMA JobFacts ==
    ASSUME LTypeOK, NEW r \in Requests
    PROVE  /\ job[r] \in Jobs /\ pc[r] \in Labels
           /\ job[r].seen \in Nat /\ job[r].seenTo \in Nat
           /\ job[r].todo \in SUBSET Nat /\ job[r].id \in Nat
BY DEF LTypeOK, Jobs

-----------------------------------------------------------------------------
(* What the books say.                                                     *)

LEMMA CreditType ==
    ASSUME LTypeOK, NEW a, NEW i \in 1 .. Len(rows)
    PROVE  Credit(rows[i], a) \in Int
BY RowFacts, OpFacts DEF Credit

LEMMA PostedType ==
    ASSUME LTypeOK, NEW a
    PROVE  Posted(a) \in Int
<1>1. Len(rows) \in Nat
  BY DEF LTypeOK
<1> QED
  BY <1>1, CreditType, SumOfInts DEF Posted

LEMMA PostedAppended ==
    ASSUME LTypeOK, NEW row, rows' = Append(rows, row), NEW a
    PROVE  Posted(a)' = Posted(a) + Credit(row, a)
<1> DEFINE v == [i \in 1 .. Len(rows) |-> Credit(rows[i], a)]
           w == [i \in 1 .. Len(rows) + 1 |-> Credit(rows'[i], a)]
           n == Len(rows)
<1>1. n \in Nat /\ Len(rows') = n + 1 /\ rows'[n + 1] = row
      /\ \A i \in 1 .. n : rows'[i] = rows[i]
  BY DEF LTypeOK
<1>2. Posted(a)' = SumUpTo(w, n + 1) /\ Posted(a) = SumUpTo(v, n)
  BY <1>1 DEF Posted
<1>3. \A k \in 1 .. n : w[k] = v[k]
  BY <1>1
<1>4. w[n + 1] = Credit(row, a)
  BY <1>1
<1> HIDE DEF v, w, n
<1>5. SumUpTo(w, n) = SumUpTo(v, n)
  BY <1>1, <1>3, SumOfEqual
<1>6. SumUpTo(w, n + 1) = SumUpTo(w, n) + w[n + 1]
  BY <1>1, SumOfOneMore
<1> QED
  BY <1>2, <1>4, <1>5, <1>6

LEMMA PostedChanged ==
    ASSUME LTypeOK, LTypeOK', NEW i \in 1 .. Len(rows), Len(rows') = Len(rows),
           \A k \in 1 .. Len(rows) : k # i => rows'[k] = rows[k], NEW a
    PROVE  Posted(a)' = Posted(a) - Credit(rows[i], a) + Credit(rows'[i], a)
<1> DEFINE v == [k \in 1 .. Len(rows) |-> Credit(rows[k], a)]
           w == [k \in 1 .. Len(rows) |-> Credit(rows'[k], a)]
           n == Len(rows)
<1>1. n \in Nat
  BY DEF LTypeOK
<1>2. Posted(a)' = SumUpTo(w, n) /\ Posted(a) = SumUpTo(v, n)
  BY DEF Posted
<1>3. \A k \in 1 .. n : k # i => v[k] = w[k]
  OBVIOUS
<1>4. \A k \in 1 .. n : v[k] \in Int
  BY CreditType
<1>5. \A k \in 1 .. n : w[k] \in Int
  <2>1. \A k \in 1 .. n : rows'[k] \in Rows
    BY DEF LTypeOK
  <2>2. \A k \in 1 .. n : rows'[k].op \in Ops
    BY <2>1 DEF Rows, Transfers, Bills
  <2> QED
    BY <2>2, OpFacts DEF Credit
<1>6. v[i] = Credit(rows[i], a) /\ w[i] = Credit(rows'[i], a) /\ i \in 1 .. n
  OBVIOUS
<1> HIDE DEF v, w, n
<1> QED
  BY <1>1, <1>2, <1>3, <1>4, <1>5, <1>6, SumOfChanged

LEMMA RedeemedType ==
    ASSUME LTypeOK, NEW a
    PROVE  Redeemed(a) \in Int
<1>1. Len(tokens) \in Nat
  BY DEF LTypeOK
<1>2. \A t \in 1 .. Len(tokens) : Payout(tokens[t], a) \in Int
  BY TokenFacts, OpFacts DEF Payout
<1> QED
  BY <1>1, <1>2, SumOfInts DEF Redeemed

\* A new token is not redeemed.
LEMMA RedeemedAppended ==
    ASSUME LTypeOK, NEW token, token.status = "ACTIVE",
           tokens' = Append(tokens, token), NEW a
    PROVE  Redeemed(a)' = Redeemed(a)
<1> DEFINE v == [t \in 1 .. Len(tokens) |-> Payout(tokens[t], a)]
           w == [t \in 1 .. Len(tokens) + 1 |-> Payout(tokens'[t], a)]
           n == Len(tokens)
<1>1. n \in Nat /\ Len(tokens') = n + 1 /\ tokens'[n + 1] = token
      /\ \A t \in 1 .. n : tokens'[t] = tokens[t]
  BY DEF LTypeOK
<1>2. Redeemed(a)' = SumUpTo(w, n + 1) /\ Redeemed(a) = SumUpTo(v, n)
  BY <1>1 DEF Redeemed
<1>3. \A k \in 1 .. n : w[k] = v[k]
  BY <1>1
<1>4. w[n + 1] = 0
  BY <1>1 DEF Payout
<1>5. Redeemed(a) \in Int
  BY RedeemedType
<1> HIDE DEF v, w, n
<1>6. SumUpTo(w, n) = SumUpTo(v, n)
  BY <1>1, <1>3, SumOfEqual
<1>7. SumUpTo(w, n + 1) = SumUpTo(w, n) + w[n + 1]
  BY <1>1, SumOfOneMore
<1> QED
  BY <1>2, <1>4, <1>5, <1>6, <1>7

\* Nor does it matter what else happens to tokens that are not redeemed.
LEMMA RedeemedKept ==
    ASSUME LTypeOK, Len(tokens') = Len(tokens), NEW a,
           \A t \in 1 .. Len(tokens) : Payout(tokens'[t], a) = Payout(tokens[t], a)
    PROVE  Redeemed(a)' = Redeemed(a)
<1> DEFINE v == [t \in 1 .. Len(tokens) |-> Payout(tokens[t], a)]
           w == [t \in 1 .. Len(tokens) |-> Payout(tokens'[t], a)]
           n == Len(tokens)
<1>1. n \in Nat /\ \A k \in 1 .. n : w[k] = v[k]
  BY DEF LTypeOK
<1>2. Redeemed(a)' = SumUpTo(w, n) /\ Redeemed(a) = SumUpTo(v, n)
  BY DEF Redeemed
<1> HIDE DEF v, w, n
<1> QED
  BY <1>1, <1>2, SumOfEqual

LEMMA RedeemedChanged ==
    ASSUME LTypeOK, LTypeOK', NEW t \in 1 .. Len(tokens), Len(tokens') = Len(tokens),
           \A k \in 1 .. Len(tokens) : k # t => tokens'[k] = tokens[k], NEW a
    PROVE  Redeemed(a)' = Redeemed(a) - Payout(tokens[t], a) + Payout(tokens'[t], a)
<1> DEFINE v == [k \in 1 .. Len(tokens) |-> Payout(tokens[k], a)]
           w == [k \in 1 .. Len(tokens) |-> Payout(tokens'[k], a)]
           n == Len(tokens)
<1>1. n \in Nat
  BY DEF LTypeOK
<1>2. Redeemed(a)' = SumUpTo(w, n) /\ Redeemed(a) = SumUpTo(v, n)
  BY DEF Redeemed
<1>3. \A k \in 1 .. n : k # t => v[k] = w[k]
  OBVIOUS
<1>4. \A k \in 1 .. n : v[k] \in Int
  BY TokenFacts, OpFacts DEF Payout
<1>5. \A k \in 1 .. n : w[k] \in Int
  <2>1. \A k \in 1 .. n : tokens'[k] \in Tokens
    BY DEF LTypeOK
  <2>2. \A k \in 1 .. n : tokens'[k].op \in Ops
    BY <2>1 DEF Tokens, Payouts
  <2> QED
    BY <2>2, OpFacts DEF Payout
<1>6. v[t] = Payout(tokens[t], a) /\ w[t] = Payout(tokens'[t], a) /\ t \in 1 .. n
  OBVIOUS
<1> HIDE DEF v, w, n
<1> QED
  BY <1>1, <1>2, <1>3, <1>4, <1>5, <1>6, SumOfChanged

\* What is on the way on an account one request works on.
LEMMA OnTheWayOf ==
    ASSUME NEW a \in Accounts \ disturbed, NEW r \in Requests,
           a \in Unrecorded(r), \A q \in Requests \ {r} : a \notin Unrecorded(q)
    PROVE  OnTheWay(a) = job[r].op.amount
<1>1. Late(a) = {r}
  BY DEF Late
<1> QED
  BY <1>1 DEF OnTheWay

LEMMA NothingOnTheWay ==
    ASSUME NEW a, \A q \in Requests : a \notin Unrecorded(q)
    PROVE  OnTheWay(a) = 0
BY DEF OnTheWay, Late

\* A step of r that leaves it nothing unrecorded on a, and did not have any.
LEMMA OnTheWayKept ==
    ASSUME LTypeOK, NEW r \in Requests, NEW label, NEW locals, NEW lost,
           Goto(r, label, locals, lost), NEW a,
           a \notin Unrecorded(r), a \notin Unrecorded(r)'
    PROVE  OnTheWay(a)' = OnTheWay(a)
<1>1. \A q \in Requests \ {r} : pc'[q] = pc[q] /\ job'[q] = job[q]
  BY DEF Goto, LTypeOK
<1>2. \A q \in Requests \ {r} : Unrecorded(q)' = Unrecorded(q)
  BY <1>1 DEF Unrecorded
<1>3. Late(a)' = Late(a) /\ r \notin Late(a)
  BY <1>2 DEF Late
<1>4. Late(a) # {} => (CHOOSE q \in Late(a) : TRUE) \in Requests \ {r}
  BY <1>3 DEF Late
<1>5. Late(a) # {} =>
        job'[CHOOSE q \in Late(a) : TRUE] = job[CHOOSE q \in Late(a) : TRUE]
  BY <1>1, <1>4
<1> QED
  BY <1>3, <1>5 DEF OnTheWay

\* Who leaves something unrecorded works on the account.
LEMMA UnrecordedTouched ==
    ASSUME LInv, NEW r \in Requests, NEW a \in Unrecorded(r)
    PROVE  a \in Touches(job[r]) /\ a \in Accounts
<1>1. pc[r] = "bill_create" /\ a = job[r].op.from
  BY DEF Unrecorded
<1>2. job[r].op \in Bills /\ job[r].op \in Ops
  BY <1>1 DEF LInv, RequestOK, WorkOK, Bills
<1> QED
  BY <1>1, <1>2, TouchesOp, OpFacts

LEMMA OnTheWayType ==
    ASSUME LInv, NEW a
    PROVE  OnTheWay(a) \in Int
<1>1. CASE Late(a) = {}
  BY <1>1 DEF OnTheWay
<1>2. CASE Late(a) # {}
  <2>1. PICK q \in Late(a) : q = CHOOSE p \in Late(a) : TRUE
    BY <1>2
  <2>2. q \in Requests /\ pc[q] = "bill_create"
    BY <2>1 DEF Late, Unrecorded
  <2>3. job[q].op \in Bills /\ job[q].op \in Ops
    BY <2>2 DEF LInv, RequestOK, WorkOK, Bills
  <2>4. OnTheWay(a) = job[q].op.amount
    BY <1>2, <2>1 DEF OnTheWay
  <2> QED
    BY <2>3, <2>4, OpFacts
<1> QED
  BY <1>1, <1>2

\* What a request under way works on.
LEMMA WorkingOn ==
    ASSUME LInv, NEW r \in Requests, pc[r] \notin {"idle", "enqueue", "settle_row"}
    PROVE  /\ job[r].op \in Ops
           /\ job[r].op.from \in Touches(job[r]) /\ job[r].op.from \in Accounts
           /\ Touches(job[r]) = {job[r].op.from, job[r].op.to} \cap Accounts
           /\ job[r].op.kind = "transfer" =>
                 job[r].op.to \in Touches(job[r]) /\ job[r].op.to \in Accounts
                 /\ job[r].op.to # job[r].op.from
<1>1. LTypeOK /\ WorkOK(r) /\ pc[r] \in Labels /\ QueuedOnce
  BY DEF LInv, RequestOK, LTypeOK
<1>2. job[r].op \in Transfers \cup Bills \cup Payouts
  <2>1. CASE pc[r] \in {"transfer_credit", "transfer_commit", "bill_key",
                        "bill_debit", "bill_create", "token_create"}
    BY <1>1, <2>1 DEF WorkOK
  <2>2. CASE pc[r] \in {"redeem_balance", "redeem_commit"}
    BY <1>1, <2>2, TokenFacts DEF WorkOK
  <2>3. CASE pc[r] \in {"settle_debit", "settle_credit", "settle_commit"}
    <3>1. /\ job[r].id \in 1 .. Len(queue)
          /\ job[r].op = rows[queue[job[r].id].row].op
      BY <1>1, <2>3 DEF WorkOK, Settling
    <3> QED
      BY <1>1, <3>1, RowFacts DEF QueuedOnce
  <2> QED
    BY <1>1, <2>1, <2>2, <2>3 DEF Labels
<1>3. job[r].op \in Ops
  BY <1>2 DEF Transfers, Bills, Payouts
<1>4. job[r].op.kind = "transfer" => job[r].op \in Transfers
  BY <1>2 DEF Transfers, Bills, Payouts
<1> QED
  BY <1>3, <1>4, TouchesOp, OpFacts

-----------------------------------------------------------------------------
(* What a step of r leaves the others.                                     *)

\* The accounts it writes it works on; rows, entries and tokens keep what they
\* are about, and what it pays is what it works on; a row it queues is its own.
Keeps(r) ==
    /\ \A a \in Accounts : balance'[a] # balance[a] => a \in Touches(job[r])
    /\ Len(rows') \in Nat /\ Len(queue') \in Nat /\ Len(tokens') \in Nat
    /\ Len(rows) <= Len(rows') /\ Len(queue) <= Len(queue')
    /\ Len(tokens) <= Len(tokens')
    /\ \A i \in 1 .. Len(rows) :
          /\ rows'[i].op = rows[i].op
          /\ rows'[i].status # rows[i].status =>
                /\ Touches(rows[i]) = Touches(job[r])
                /\ \E k \in 1 .. Len(queue) : queue[k].row = i
    /\ \A k \in 1 .. Len(queue) : queue'[k].row = queue[k].row
    /\ \A k \in 1 .. Len(queue') \ 1 .. Len(queue) :
          pc[r] = "enqueue" /\ queue'[k].row = job[r].id
    /\ \A t \in 1 .. Len(tokens) :
          /\ tokens'[t].op = tokens[t].op
          /\ tokens'[t].status = "REDEEMED" /\ tokens[t].status # "REDEEMED" =>
                Touches(tokens[t]) = Touches(job[r])

LEMMA NothingKept ==
    ASSUME LTypeOK, UNCHANGED db, NEW r
    PROVE  Keeps(r)
BY DEF LTypeOK, Keeps, db

LEMMA OtherKept ==
    ASSUME LInv, NEW r \in Requests, Keeps(r), disturbed \subseteq disturbed',
           NEW q \in Requests, q # r, pc'[q] = pc[q], job'[q] = job[q]
    PROVE  RequestOK(q)'
<1>1. /\ LTypeOK /\ WorkOK(q) /\ Covered(q) /\ Current(q)
      /\ Touches(job[q]) \cap Touches(job[r]) \subseteq disturbed
      /\ pc[q] = "enqueue" /\ pc[r] = "enqueue" => job[q].id # job[r].id
  BY DEF LInv, RequestOK, PairOK
<1>2. /\ Len(rows) \in Nat /\ Len(queue) \in Nat /\ Len(tokens) \in Nat
      /\ Len(rows') \in Nat /\ Len(queue') \in Nat /\ Len(tokens') \in Nat
  BY <1>1 DEF Keeps, LTypeOK
<1>3. WorkOK(q)'
  <2>1. pc[q] \in {"redeem_balance", "redeem_commit"} =>
          job[q].id \in 1 .. Len(tokens') /\ job[q].op = tokens'[job[q].id].op
    BY <1>1, <1>2 DEF WorkOK, Keeps
  <2>2. pc[q] \in Settling => job[q].todo # {} /\ job[q].todo \subseteq 1 .. Len(queue')
    BY <1>1, <1>2 DEF WorkOK, Keeps
  <2>3. ASSUME pc[q] \in Settling \ {"settle_row"}
        PROVE  job[q].id \in 1 .. Len(queue') /\ job[q].op = rows'[queue'[job[q].id].row].op
    <3>1. job[q].id \in 1 .. Len(queue) /\ job[q].op = rows[queue[job[q].id].row].op
      BY <1>1, <2>3 DEF WorkOK
    <3>2. queue[job[q].id].row \in 1 .. Len(rows)
      BY <3>1 DEF LInv, QueuedOnce
    <3>3. job[q].id \in 1 .. Len(queue')
      BY <1>1, <1>2, <3>1 DEF Keeps
    <3>4. queue'[job[q].id].row = queue[job[q].id].row
      BY <3>1 DEF Keeps
    <3>5. rows'[queue[job[q].id].row].op = rows[queue[job[q].id].row].op
      BY <3>2 DEF Keeps
    <3> QED
      BY <3>1, <3>3, <3>4, <3>5
  <2>4. ASSUME pc[q] = "enqueue"
        PROVE  /\ job[q].id \in 1 .. Len(rows')
               /\ rows'[job[q].id].op.offline /\ rows'[job[q].id].status = "PROVISIONAL"
               /\ \A k \in 1 .. Len(queue') : queue'[k].row # job[q].id
    <3>1. /\ job[q].id \in 1 .. Len(rows)
          /\ rows[job[q].id].op.offline /\ rows[job[q].id].status = "PROVISIONAL"
          /\ \A k \in 1 .. Len(queue) : queue[k].row # job[q].id
      BY <1>1, <2>4 DEF WorkOK
    <3>2. /\ job[q].id \in 1 .. Len(rows')
          /\ rows'[job[q].id].op = rows[job[q].id].op
      BY <1>2, <3>1 DEF Keeps
    <3>3. rows'[job[q].id].status = rows[job[q].id].status
      BY <3>1 DEF Keeps
    <3>4. ASSUME NEW k \in 1 .. Len(queue')
          PROVE  queue'[k].row # job[q].id
      <4>1. CASE k \in 1 .. Len(queue)
        BY <3>1, <4>1 DEF Keeps
      <4>2. CASE k \notin 1 .. Len(queue)
        BY <1>1, <2>4, <4>2 DEF Keeps
      <4> QED
        BY <4>1, <4>2
    <3> QED
      BY <3>1, <3>2, <3>3, <3>4
  <2> QED
    BY <1>1, <2>1, <2>2, <2>3, <2>4 DEF WorkOK
<1>4. Covered(q)'
  BY <1>1 DEF Covered
<1>5. ASSUME NEW a \in Touches(job[q]), a \in Accounts, a \notin disturbed'
      PROVE  balance'[a] = balance[a] /\ a \notin Touches(job[r])
  BY <1>1, <1>5 DEF Keeps
<1>6. Current(q)'
  <2>1. ASSUME pc[q] \in HasRead, job[q].op.from \notin disturbed'
        PROVE  job[q].seen = balance'[job[q].op.from]
    <3>1. job[q].op.from \in Touches(job[q]) /\ job[q].op.from \in Accounts
      BY <2>1, WorkingOn DEF HasRead
    <3> QED
      BY <1>1, <1>5, <2>1, <3>1 DEF Current
  <2>2. ASSUME pc[q] \in HasReadTo, job[q].op.kind = "transfer",
               job[q].op.to \notin disturbed'
        PROVE  job[q].seenTo = balance'[job[q].op.to]
    <3>1. job[q].op.to \in Touches(job[q]) /\ job[q].op.to \in Accounts
      BY <2>2, WorkingOn DEF HasReadTo
    <3> QED
      BY <1>1, <1>5, <2>2, <3>1 DEF Current
  <2>3. ASSUME pc[q] \in Settling \ {"settle_row"}, ~ Touches(job[q]) \subseteq disturbed'
        PROVE  rows'[queue'[job[q].id].row].status = "PROVISIONAL"
    <3>1. job[q].id \in 1 .. Len(queue) /\ job[q].op = rows[queue[job[q].id].row].op
      BY <1>1, <2>3 DEF WorkOK
    <3>2. queue[job[q].id].row \in 1 .. Len(rows)
      BY <3>1 DEF LInv, QueuedOnce
    <3>3. rows[queue[job[q].id].row].status = "PROVISIONAL"
      BY <1>1, <2>3 DEF Current
    <3>4. Touches(rows[queue[job[q].id].row]) = Touches(job[q])
      BY <3>1 DEF Touches
    <3>5. queue'[job[q].id].row = queue[job[q].id].row
      BY <3>1 DEF Keeps
    <3> QED
      BY <1>1, <2>3, <3>2, <3>3, <3>4, <3>5 DEF Keeps
  <2>4. ASSUME pc[q] \in {"redeem_balance", "redeem_commit"},
               ~ Touches(job[q]) \subseteq disturbed'
        PROVE  tokens'[job[q].id].status # "REDEEMED"
    <3>1. job[q].id \in 1 .. Len(tokens) /\ job[q].op = tokens[job[q].id].op
      BY <1>1, <2>4 DEF WorkOK
    <3>2. tokens[job[q].id].status # "REDEEMED"
      BY <1>1, <2>4 DEF Current
    <3>3. Touches(tokens[job[q].id]) = Touches(job[q])
      BY <3>1 DEF Touches
    <3> QED
      BY <1>1, <2>4, <3>1, <3>2, <3>3 DEF Keeps
  <2> QED
    BY <1>1, <2>1, <2>2, <2>3, <2>4 DEF Current
<1> QED
  BY <1>3, <1>4, <1>6 DEF RequestOK

LEMMA GotoFacts ==
    ASSUME LTypeOK, NEW r \in Requests, NEW label \in Labels, NEW locals \in Jobs,
           NEW lost \in SUBSET Accounts, Goto(r, label, locals, lost)
    PROVE  /\ pc' \in [Requests -> Labels] /\ pc'[r] = label
           /\ job' \in [Requests -> Jobs] /\ job'[r] = locals
           /\ \A q \in Requests \ {r} : pc'[q] = pc[q] /\ job'[q] = job[q]
           /\ disturbed' \subseteq Accounts
           /\ disturbed \subseteq disturbed' /\ lost \subseteq disturbed'
           /\ \A p, q \in Requests :
                 p # q => Touches(job'[p]) \cap Touches(job'[q]) \subseteq disturbed'
<1>1. Contested(job') \subseteq Accounts
  BY DEF Contested, Touches
<1>2. ASSUME NEW p \in Requests, NEW q \in Requests, p # q
      PROVE  Touches(job'[p]) \cap Touches(job'[q]) \subseteq Contested(job')
  <2> DEFINE pq == <<p, q>>
  <2>1. pq \in {x \in Requests \X Requests : x[1] # x[2]}
    BY <1>2
  <2>2. pq[1] = p /\ pq[2] = q
    OBVIOUS
  <2> HIDE DEF pq
  <2> QED
    BY <2>1, <2>2 DEF Contested
<1>3. disturbed' = disturbed \cup lost \cup Contested(job')
  BY DEF Goto
<1>4. /\ pc' \in [Requests -> Labels] /\ pc'[r] = label
      /\ job' \in [Requests -> Jobs] /\ job'[r] = locals
      /\ \A q \in Requests \ {r} : pc'[q] = pc[q] /\ job'[q] = job[q]
  BY DEF Goto, LTypeOK
<1> QED
  BY <1>1, <1>2, <1>3, <1>4 DEF LTypeOK

\* A step of r: what it does to itself is enough.
LEMMA StepKeeps ==
    ASSUME LInv, NEW r \in Requests, NEW label \in Labels, NEW locals \in Jobs,
           NEW lost \in SUBSET Accounts, Goto(r, label, locals, lost),
           Keeps(r), RequestOK(r)',
           label = "enqueue" =>
             \A q \in Requests \ {r} : pc[q] = "enqueue" => job[q].id # locals.id
    PROVE  /\ \A q \in Requests : RequestOK(q)'
           /\ \A p, q \in Requests : PairOK(p, q)'
<1>1. LTypeOK
  BY DEF LInv
<1>2. /\ pc'[r] = label /\ job'[r] = locals
      /\ \A q \in Requests \ {r} : pc'[q] = pc[q] /\ job'[q] = job[q]
      /\ disturbed \subseteq disturbed'
      /\ \A p, q \in Requests :
            p # q => Touches(job'[p]) \cap Touches(job'[q]) \subseteq disturbed'
  BY <1>1, GotoFacts
<1>3. ASSUME NEW q \in Requests PROVE RequestOK(q)'
  BY <1>2, OtherKept
<1>4. ASSUME NEW p \in Requests, NEW q \in Requests PROVE PairOK(p, q)'
  <2>1. PairOK(p, q)
    BY DEF LInv
  <2>2. p # q /\ pc'[p] = "enqueue" /\ pc'[q] = "enqueue" => job'[p].id # job'[q].id
    BY <1>2, <2>1 DEF PairOK
  <2>3. p # q => Touches(job'[p]) \cap Touches(job'[q]) \subseteq disturbed'
    BY <1>2
  <2>4. (Touches(job[p]) \cap Touches(job[q]))'
        = Touches(job'[p]) \cap Touches(job'[q])
    BY DEF Touches
  <2> QED
    BY <2>2, <2>3, <2>4 DEF PairOK
<1> QED
  BY <1>3, <1>4

\* A step of r that writes nothing.
LEMMA ReadKeeps ==
    ASSUME LInv, NEW r \in Requests, NEW label \in Labels, NEW locals \in Jobs,
           NEW lost \in SUBSET Accounts, Goto(r, label, locals, lost),
           UNCHANGED db, aborts' \in Nat, label # "enqueue",
           Unrecorded(r) \subseteq disturbed', Unrecorded(r)' = {},
           RequestOK(r)'
    PROVE  LInv'
<1>1. LTypeOK
  BY DEF LInv
<1>2. /\ pc' \in [Requests -> Labels] /\ job' \in [Requests -> Jobs]
      /\ disturbed' \subseteq Accounts /\ disturbed \subseteq disturbed'
  BY <1>1, GotoFacts
<1>3. LTypeOK'
  BY <1>1, <1>2 DEF LTypeOK, db
<1>4. /\ \A q \in Requests : RequestOK(q)'
      /\ \A p, q \in Requests : PairOK(p, q)'
  BY <1>1, NothingKept, StepKeeps
<1>5. QueuedOnce' /\ KeyOnce' /\ CashBacked'
  BY DEF LInv, QueuedOnce, KeyOnce, CashBacked, db
<1>6. BooksBalance'
  <2>1. ASSUME NEW a \in Accounts \ disturbed'
        PROVE  balance'[a] = Funds + Posted(a)' - Redeemed(a)' - OnTheWay(a)'
    <3>1. OnTheWay(a)' = OnTheWay(a)
      BY <1>1, OnTheWayKept
    <3>2. Posted(a)' = Posted(a) /\ Redeemed(a)' = Redeemed(a)
      BY DEF Posted, Redeemed, db
    <3>3. balance[a] = Funds + Posted(a) - Redeemed(a) - OnTheWay(a)
      BY <1>2 DEF LInv, BooksBalance
    <3> QED
      BY <3>1, <3>2, <3>3 DEF db
  <2> QED
    BY <2>1 DEF BooksBalance
<1> QED
  BY <1>3, <1>4, <1>5, <1>6 DEF LInv

\* A request that returns relies on nothing.
LEMMA ReturnOK ==
    ASSUME NEW r, pc'[r] = "idle"
    PROVE  RequestOK(r)' /\ Unrecorded(r)' = {}
BY DEF RequestOK, WorkOK, Covered, Current, Unrecorded, Settling, HasRead, HasReadTo

-----------------------------------------------------------------------------
(* The locals of the steps.                                                *)

LEMMA NoJobType == NoJob \in Jobs
BY DEF NoJob, Jobs

-----------------------------------------------------------------------------
(* The steps that write nothing.                                           *)

\* A request begins, on op, having read what op debits.
LEMMA BeginReading ==
    ASSUME LInv, NEW r \in Requests, NEW op \in Ops, NEW label,
           \/ label = "transfer_credit" /\ op \in Transfers
           \/ label = "bill_key" /\ op \in Bills,
           Begin(r, label, [NoJob EXCEPT !.op = op, !.seen = balance[op.from]])
    PROVE  LInv'
<1> DEFINE j == [NoJob EXCEPT !.op = op, !.seen = balance[op.from]]
<1>1. LTypeOK /\ label \in Labels /\ label # "enqueue"
  BY DEF LInv, Labels
<1>2. balance[op.from] \in Nat
  BY <1>1, OpFacts DEF LTypeOK
<1>3. j \in Jobs /\ j.op = op /\ j.seen = balance[op.from]
  BY <1>2, Zenon DEF NoJob, Jobs
<1>4. Goto(r, label, j, {}) /\ UNCHANGED db /\ aborts' = aborts /\ pc[r] = "idle"
  BY DEF Begin, Go
<1> HIDE DEF j
<1>5. pc'[r] = label /\ job'[r] = j
  BY <1>1, <1>3, <1>4, GotoFacts
<1>6. RequestOK(r)'
  BY <1>3, <1>4, <1>5 DEF RequestOK, WorkOK, Covered, Current, Settling, HasRead, HasReadTo, db
<1>7. Unrecorded(r) = {} /\ Unrecorded(r)' = {}
  BY <1>4, <1>5 DEF Unrecorded
<1> QED
  BY <1>1, <1>3, <1>4, <1>6, <1>7, ReadKeeps DEF LTypeOK

\* A request that writes nothing returns.
LEMMA ReturnKeeps ==
    ASSUME LInv, NEW r \in Requests, Return(r), UNCHANGED db,
           Unrecorded(r) = {}
    PROVE  LInv'
<1>1. LTypeOK /\ "idle" \in Labels /\ NoJob \in Jobs
  BY NoJobType DEF LInv, Labels
<1>2. Goto(r, "idle", NoJob, {}) /\ aborts' = aborts
  BY DEF Return, Go
<1>3. pc'[r] = "idle"
  BY <1>1, <1>2, GotoFacts
<1> QED
  BY <1>1, <1>2, <1>3, ReturnOK, ReadKeeps DEF LTypeOK

LEMMA TransferBeginKeeps ==
    ASSUME LInv, NEW r \in Requests, NEW op \in Transfers, TransferBegin(r, op)
    PROVE  LInv'
BY BeginReading DEF TransferBegin, Transfers

LEMMA BillReadKeeps ==
    ASSUME LInv, NEW r \in Requests, NEW op \in Bills, BillRead(r, op)
    PROVE  LInv'
BY BeginReading DEF BillRead, Bills

LEMMA TransferCreditKeeps ==
    ASSUME LInv, NEW r \in Requests, TransferCredit(r)
    PROVE  LInv'
<1> DEFINE op == job[r].op
           j == [job[r] EXCEPT !.seenTo = balance[op.to]]
<1>1. LTypeOK /\ pc[r] = "transfer_credit" /\ UNCHANGED db /\ RequestOK(r)
  BY DEF TransferCredit, LInv
<1>2. op \in Transfers /\ op \in Ops
  BY <1>1 DEF RequestOK, WorkOK, Transfers
<1>3. balance[op.to] \in Nat /\ op.to \in Accounts
  BY <1>1, <1>2, OpFacts DEF LTypeOK
<1>4. j \in Jobs /\ j.op = op /\ j.seen = job[r].seen /\ j.seenTo = balance[op.to]
  <2>1. job[r] \in Jobs
    BY <1>1, JobFacts
  <2> QED
    BY <1>3, <2>1 DEF Jobs
<1>5. Unrecorded(r) = {}
  BY <1>1 DEF Unrecorded
<1>6. CASE ~ op.offline /\ job[r].seen < op.amount
  BY <1>1, <1>5, <1>6, ReturnKeeps DEF TransferCredit
<1>7. CASE ~ (~ op.offline /\ job[r].seen < op.amount)
  <2>1. Goto(r, "transfer_commit", j, {}) /\ aborts' = aborts
    BY <1>7 DEF TransferCredit, Go
  <2>2. ~ op.offline => job[r].seen >= op.amount
    BY <1>1, <1>2, <1>7, OpFacts, JobFacts
  <2>3. /\ pc[r] = "transfer_credit"
        /\ op.from \notin disturbed => job[r].seen = balance[op.from]
    BY <1>1 DEF RequestOK, Current, HasRead
  <2> HIDE DEF j
  <2>4. "transfer_commit" \in Labels
    BY DEF Labels
  <2>5. /\ pc'[r] = "transfer_commit" /\ job'[r] = j
        /\ disturbed \subseteq disturbed'
    BY <1>1, <1>4, <2>1, <2>4, GotoFacts
  <2>6. WorkOK(r)' /\ Covered(r)'
    BY <1>2, <1>4, <2>2, <2>5 DEF WorkOK, Covered, Settling
  <2>7. Current(r)'
    BY <1>1, <1>4, <2>3, <2>5 DEF Current, Settling, HasRead, HasReadTo, db
  <2>8. Unrecorded(r)' = {}
    BY <2>5 DEF Unrecorded
  <2> QED
    BY <1>1, <1>4, <1>5, <2>1, <2>4, <2>6, <2>7, <2>8, ReadKeeps DEF LTypeOK, RequestOK
<1> QED
  BY <1>6, <1>7

LEMMA BillKeyKeeps ==
    ASSUME LInv, NEW r \in Requests, BillKey(r)
    PROVE  LInv'
<1> DEFINE op == job[r].op
           label == IF op.offline THEN "bill_create" ELSE "bill_debit"
<1>1. LTypeOK /\ pc[r] = "bill_key" /\ UNCHANGED db /\ RequestOK(r)
  BY DEF BillKey, LInv
<1>2. op \in Bills /\ op \in Ops
  BY <1>1 DEF RequestOK, WorkOK, Bills
<1>3. Unrecorded(r) = {}
  BY <1>1 DEF Unrecorded
<1>4. CASE KeyTaken(op) \/ (~ op.offline /\ job[r].seen < op.amount)
  BY <1>1, <1>3, <1>4, ReturnKeeps DEF BillKey
<1>5. CASE ~ (KeyTaken(op) \/ (~ op.offline /\ job[r].seen < op.amount))
  <2>1. Goto(r, label, job[r], {}) /\ aborts' = aborts
    BY <1>5 DEF BillKey, Go
  <2>2. ~ op.offline => job[r].seen >= op.amount
    BY <1>1, <1>2, <1>5, OpFacts, JobFacts
  <2>3. op.from \notin disturbed => job[r].seen = balance[op.from]
    BY <1>1 DEF RequestOK, Current, HasRead
  <2>4. label \in Labels /\ label # "enqueue" /\ job[r] \in Jobs
    BY <1>1, JobFacts DEF Labels
  <2>5. /\ pc'[r] = label /\ job'[r] = job[r]
        /\ disturbed \subseteq disturbed'
    BY <1>1, <2>1, <2>4, GotoFacts
  <2>6. WorkOK(r)' /\ Covered(r)'
    BY <1>2, <2>2, <2>5 DEF WorkOK, Covered, Settling
  <2>7. Current(r)'
    BY <1>1, <2>3, <2>5 DEF Current, Settling, HasRead, HasReadTo, db
  <2>8. Unrecorded(r)' = {}
    BY <2>5 DEF Unrecorded
  <2> QED
    BY <1>1, <1>3, <2>1, <2>4, <2>6, <2>7, <2>8, ReadKeeps DEF LTypeOK, RequestOK
<1> QED
  BY <1>4, <1>5

LEMMA AuthorizeReadKeeps ==
    ASSUME LInv, NEW r \in Requests, NEW op \in Payouts, AuthorizeRead(r, op)
    PROVE  LInv'
<1> DEFINE j == [NoJob EXCEPT !.op = op]
<1>1. LTypeOK /\ op \in Ops /\ "token_create" \in Labels
  BY DEF LInv, Payouts, Labels
<1>2. j \in Jobs /\ j.op = op
  BY <1>1 DEF NoJob, Jobs
<1>3. Goto(r, "token_create", j, {}) /\ UNCHANGED db /\ aborts' = aborts /\ pc[r] = "idle"
  BY DEF AuthorizeRead, Begin, Go
<1> HIDE DEF j
<1>4. pc'[r] = "token_create" /\ job'[r] = j
  BY <1>1, <1>2, <1>3, GotoFacts
<1>5. RequestOK(r)'
  BY <1>2, <1>3, <1>4 DEF RequestOK, WorkOK, Covered, Current, Settling, HasRead, HasReadTo
<1>6. Unrecorded(r) = {} /\ Unrecorded(r)' = {}
  BY <1>3, <1>4 DEF Unrecorded
<1> QED
  BY <1>1, <1>2, <1>3, <1>5, <1>6, ReadKeeps DEF LTypeOK

LEMMA RedeemReadKeeps ==
    ASSUME LInv, NEW r \in Requests, NEW t \in 1 .. Len(tokens), RedeemRead(r, t)
    PROVE  LInv'
<1> DEFINE op == tokens[t].op
           j == [NoJob EXCEPT !.op = op, !.id = t]
<1>1. LTypeOK /\ "redeem_balance" \in Labels
  BY DEF LInv, Labels
<1>2. op \in Ops /\ t \in Nat
  BY <1>1, TokenFacts DEF LTypeOK
<1>3. j \in Jobs /\ j.op = op /\ j.id = t
  BY <1>2, Zenon DEF NoJob, Jobs
<1>4. /\ Goto(r, "redeem_balance", j, {}) /\ UNCHANGED db /\ aborts' = aborts
      /\ pc[r] = "idle" /\ tokens[t].status = "ACTIVE"
  BY DEF RedeemRead, Begin, Go
<1> HIDE DEF j
<1>5. pc'[r] = "redeem_balance" /\ job'[r] = j
  BY <1>1, <1>3, <1>4, GotoFacts
<1>6. RequestOK(r)'
  BY <1>3, <1>4, <1>5 DEF RequestOK, WorkOK, Covered, Current, Settling, HasRead,
                          HasReadTo, db
<1>7. Unrecorded(r) = {} /\ Unrecorded(r)' = {}
  BY <1>4, <1>5 DEF Unrecorded
<1> QED
  BY <1>1, <1>3, <1>4, <1>6, <1>7, ReadKeeps DEF LTypeOK

LEMMA RedeemBalanceKeeps ==
    ASSUME LInv, NEW r \in Requests, RedeemBalance(r)
    PROVE  LInv'
<1> DEFINE op == job[r].op
           seen == balance[op.from]
           j == [job[r] EXCEPT !.seen = seen]
<1>1. LTypeOK /\ pc[r] = "redeem_balance" /\ UNCHANGED db /\ RequestOK(r)
  BY DEF RedeemBalance, LInv
<1>2. op \in Ops /\ op.from \in Accounts
  BY <1>1, WorkingOn
<1>3. seen \in Nat
  BY <1>1, <1>2 DEF LTypeOK
<1>4. j \in Jobs /\ j.op = op /\ j.seen = seen /\ j.id = job[r].id
  <2>1. job[r] \in Jobs
    BY <1>1, JobFacts
  <2> QED
    BY <1>3, <2>1 DEF Jobs
<1>5. Unrecorded(r) = {}
  BY <1>1 DEF Unrecorded
<1>6. CASE seen < op.amount
  BY <1>1, <1>5, <1>6, ReturnKeeps DEF RedeemBalance
<1>7. CASE ~ (seen < op.amount)
  <2>1. Goto(r, "redeem_commit", j, {}) /\ aborts' = aborts
    BY <1>7 DEF RedeemBalance, Go
  <2>2. seen >= op.amount
    BY <1>2, <1>3, <1>7, OpFacts
  <2>3. /\ job[r].id \in 1 .. Len(tokens) /\ op = tokens[job[r].id].op
        /\ ~ Touches(job[r]) \subseteq disturbed => tokens[job[r].id].status # "REDEEMED"
    BY <1>1 DEF RequestOK, WorkOK, Current
  <2>4. Touches(j) = Touches(job[r])
    BY <1>4 DEF Touches
  <2> HIDE DEF j, seen
  <2>5. "redeem_commit" \in Labels
    BY DEF Labels
  <2>6. /\ pc'[r] = "redeem_commit" /\ job'[r] = j
        /\ disturbed \subseteq disturbed'
    BY <1>1, <1>4, <2>1, <2>5, GotoFacts
  <2>7. WorkOK(r)' /\ Covered(r)'
    BY <1>1, <1>4, <2>2, <2>3, <2>6 DEF WorkOK, Covered, Settling, db
  <2>8. Current(r)'
    BY <1>1, <1>4, <2>3, <2>4, <2>6 DEF seen, Current, Settling, HasRead, HasReadTo, db
  <2>9. Unrecorded(r)' = {}
    BY <2>6 DEF Unrecorded
  <2> QED
    BY <1>1, <1>4, <1>5, <2>1, <2>5, <2>7, <2>8, <2>9, ReadKeeps DEF LTypeOK, RequestOK
<1> QED
  BY <1>6, <1>7

\* A request dies, and what it debited for a bill is disturbed.
LEMMA AbortKeeps ==
    ASSUME LInv, NEW r \in Requests, Abort(r)
    PROVE  LInv'
<1>1. LTypeOK /\ "idle" \in Labels /\ NoJob \in Jobs /\ aborts' \in Nat /\ UNCHANGED db
  BY NoJobType DEF LInv, Labels, Abort, LTypeOK
<1>2. Goto(r, "idle", NoJob, Unrecorded(r))
  BY DEF Abort
<1>3. Unrecorded(r) \in SUBSET Accounts
  BY UnrecordedTouched
<1>4. pc'[r] = "idle" /\ Unrecorded(r) \subseteq disturbed'
  BY <1>1, <1>2, <1>3, GotoFacts
<1> QED
  BY <1>1, <1>2, <1>3, <1>4, ReturnOK, ReadKeeps

-----------------------------------------------------------------------------
(* A settlement that goes on with the next entry.                          *)

Rest(r) == job[r].todo \ {Min(job[r].todo)}
After(r) == IF Rest(r) = {} THEN "idle" ELSE "settle_row"
Left(r) == [NoJob EXCEPT !.todo = Rest(r)]

LEMMA EntryInHand ==
    ASSUME LInv, NEW r \in Requests, pc[r] \in Settling
    PROVE  /\ Min(job[r].todo) \in 1 .. Len(queue)
           /\ Rest(r) \in SUBSET (1 .. Len(queue))
           /\ After(r) \in Labels /\ After(r) # "enqueue"
           /\ Left(r) \in Jobs /\ Left(r).todo = Rest(r)
<1>1. job[r].todo # {} /\ job[r].todo \subseteq 1 .. Len(queue)
  BY DEF LInv, RequestOK, WorkOK
<1>2. job[r].todo \in SUBSET Nat
  BY JobFacts DEF LInv
<1>3. Min(job[r].todo) \in job[r].todo
  BY <1>1, <1>2, MinIsLeast
<1>4. Rest(r) \in SUBSET (1 .. Len(queue)) /\ Rest(r) \in SUBSET Nat
  BY <1>1, <1>2 DEF Rest
<1>5. Left(r) \in Jobs /\ Left(r).todo = Rest(r)
  BY <1>4 DEF Left, NoJob, Jobs
<1> QED
  BY <1>1, <1>3, <1>4, <1>5 DEF After, Labels

LEMMA NextEntryOK ==
    ASSUME LInv, NEW r \in Requests, pc[r] \in Settling,
           pc'[r] = After(r), job'[r] = Left(r),
           Len(queue') \in Nat, Len(queue) <= Len(queue')
    PROVE  RequestOK(r)' /\ Unrecorded(r)' = {}
<1>1. Rest(r) \in SUBSET (1 .. Len(queue)) /\ Left(r).todo = Rest(r)
  BY EntryInHand
<1>2. Len(queue) \in Nat
  BY DEF LInv, LTypeOK
<1>3. Rest(r) \in SUBSET (1 .. Len(queue'))
  BY <1>1, <1>2
<1> QED
  BY <1>1, <1>3 DEF After, RequestOK, WorkOK, Covered, Current, Settling, HasRead,
                    HasReadTo, Unrecorded

LEMMA NextEntryKeeps ==
    ASSUME LInv, NEW r \in Requests, pc[r] \in Settling,
           Goto(r, After(r), Left(r), {}), UNCHANGED db, aborts' \in Nat
    PROVE  LInv'
<1>1. LTypeOK /\ Len(queue) \in Nat
  BY DEF LInv, LTypeOK
<1>2. After(r) \in Labels /\ After(r) # "enqueue" /\ Left(r) \in Jobs
  BY EntryInHand
<1>3. pc'[r] = After(r) /\ job'[r] = Left(r)
  BY <1>1, <1>2, GotoFacts
<1>4. RequestOK(r)' /\ Unrecorded(r)' = {}
  BY <1>1, <1>3, NextEntryOK DEF db
<1>5. Unrecorded(r) = {}
  BY DEF Unrecorded, Settling
<1> QED
  BY <1>2, <1>4, <1>5, ReadKeeps

LEMMA SettleThrowsKeeps ==
    ASSUME LInv, NEW r \in Requests, SettleThrows(r)
    PROVE  LInv'
<1>1. Goto(r, After(r), Left(r), {}) /\ pc[r] \in Settling
  BY DEF SettleThrows, After, Left, Rest, Settling
<1>2. UNCHANGED db /\ aborts' \in Nat
  BY DEF SettleThrows, LInv, LTypeOK
<1> QED
  BY <1>1, <1>2, NextEntryKeeps

LEMMA SettleReadKeeps ==
    ASSUME LInv, NEW r \in Requests, SettleRead(r)
    PROVE  LInv'
<1> DEFINE pending == {i \in 1 .. Len(queue) : queue[i].status = "PENDING"}
           taken == {i \in pending : Cardinality({k \in pending : k < i}) < Batch}
           j == [NoJob EXCEPT !.todo = taken]
<1>1. LTypeOK /\ "settle_row" \in Labels
  BY DEF LInv, Labels
<1>2. taken \in SUBSET (1 .. Len(queue)) /\ taken \in SUBSET Nat
  BY <1>1 DEF LTypeOK
<1>3. j \in Jobs /\ j.todo = taken
  <2> HIDE DEF taken
  <2> QED
    BY <1>2 DEF NoJob, Jobs
<1>4. /\ Goto(r, "settle_row", j, {}) /\ UNCHANGED db /\ aborts' = aborts
      /\ pc[r] = "idle" /\ pending # {}
  BY DEF SettleRead, Begin, Go
\* The oldest pending entry is among them.
<1>5. taken # {}
  <2>1. PICK m \in pending : \A n \in pending : m <= n
    <3>1. pending \in SUBSET Nat
      OBVIOUS
    <3> QED
      BY <1>4, <3>1, LeastExists
  <2>2. {k \in pending : k < m} = {}
    BY <2>1
  <2>3. Cardinality({k \in pending : k < m}) = 0
    BY <2>2, FS_EmptySet
  <2> QED
    BY <2>1, <2>3, LedgerAssumption
<1> HIDE DEF j, taken
<1>6. pc'[r] = "settle_row" /\ job'[r] = j
  BY <1>1, <1>3, <1>4, GotoFacts
<1>7. RequestOK(r)'
  BY <1>2, <1>3, <1>4, <1>5, <1>6 DEF RequestOK, WorkOK, Covered, Current, Settling,
                                      HasRead, HasReadTo, db
<1>8. Unrecorded(r) = {} /\ Unrecorded(r)' = {}
  BY <1>4, <1>6 DEF Unrecorded
<1> QED
  BY <1>1, <1>3, <1>4, <1>7, <1>8, ReadKeeps DEF LTypeOK

LEMMA SettleRowKeeps ==
    ASSUME LInv, NEW r \in Requests, SettleRow(r)
    PROVE  LInv'
<1> DEFINE i == Min(job[r].todo)
           row == rows[queue[i].row]
           j == [job[r] EXCEPT !.op = row.op, !.id = i]
<1>1. LTypeOK /\ pc[r] = "settle_row" /\ UNCHANGED db /\ RequestOK(r) /\ QueuedOnce
  BY DEF SettleRow, LInv
<1>2. i \in 1 .. Len(queue) /\ i \in Nat /\ pc[r] \in Settling
  BY <1>1, EntryInHand DEF Settling, LTypeOK
<1>3. queue[i].row \in 1 .. Len(rows)
  BY <1>1, <1>2 DEF QueuedOnce
<1>4. row.op \in Ops /\ row.status \in {"PROVISIONAL", "POSTED"}
  BY <1>1, <1>3, RowFacts
<1>5. CASE row.status # "PROVISIONAL"
  <2>1. Goto(r, After(r), Left(r), {}) /\ aborts' = aborts
    BY <1>5 DEF SettleRow, NextEntry, Go, After, Left, Rest
  <2> QED
    BY <1>1, <1>2, <2>1, NextEntryKeeps DEF LTypeOK
<1>6. CASE row.status = "PROVISIONAL"
  <2>1. Goto(r, "settle_debit", j, {}) /\ aborts' = aborts
    BY <1>6 DEF SettleRow, Go
  <2>2. j \in Jobs /\ j.op = row.op /\ j.id = i /\ j.todo = job[r].todo
    <3>1. job[r] \in Jobs
      BY <1>1, JobFacts
    <3> HIDE DEF i, row
    <3> QED
      BY <1>2, <1>4, <3>1 DEF Jobs
  <2>3. job[r].todo # {} /\ job[r].todo \subseteq 1 .. Len(queue)
    BY <1>1, <1>2 DEF RequestOK, WorkOK
  <2>4. "settle_debit" \in Labels
    BY DEF Labels
  <2> HIDE DEF j
  <2>5. pc'[r] = "settle_debit" /\ job'[r] = j
    BY <1>1, <2>1, <2>2, <2>4, GotoFacts
  <2>6. WorkOK(r)' /\ Covered(r)'
    BY <1>1, <1>2, <2>2, <2>3, <2>5 DEF WorkOK, Covered, Settling, db
  <2>7. Current(r)'
    BY <1>1, <1>6, <2>2, <2>5 DEF Current, Settling, HasRead, HasReadTo, db
  <2>8. Unrecorded(r) = {} /\ Unrecorded(r)' = {}
    BY <1>1, <2>5 DEF Unrecorded
  <2> QED
    BY <1>1, <2>1, <2>2, <2>4, <2>6, <2>7, <2>8, ReadKeeps DEF LTypeOK, RequestOK
<1> QED
  BY <1>4, <1>5, <1>6

\* Past the row, a settlement holds an entry, and its row is not paid twice.
LEMMA SettlingOn ==
    ASSUME LInv, NEW r \in Requests, pc[r] \in Settling \ {"settle_row"}
    PROVE  /\ job[r].todo # {} /\ job[r].todo \subseteq 1 .. Len(queue)
           /\ job[r].id \in 1 .. Len(queue)
           /\ queue[job[r].id].row \in 1 .. Len(rows)
           /\ job[r].op = rows[queue[job[r].id].row].op
           /\ job[r].op \in Transfers \cup Bills
           /\ job[r].op.offline
           /\ ~ Touches(job[r]) \subseteq disturbed =>
                 rows[queue[job[r].id].row].status = "PROVISIONAL"
<1>1. /\ job[r].id \in 1 .. Len(queue)
      /\ job[r].op = rows[queue[job[r].id].row].op
      /\ job[r].todo # {} /\ job[r].todo \subseteq 1 .. Len(queue)
      /\ ~ Touches(job[r]) \subseteq disturbed =>
            rows[queue[job[r].id].row].status = "PROVISIONAL"
  BY DEF LInv, RequestOK, WorkOK, Current
<1>2. queue[job[r].id].row \in 1 .. Len(rows) /\ rows[queue[job[r].id].row].op.offline
  BY <1>1 DEF LInv, QueuedOnce
<1>3. rows[queue[job[r].id].row].op \in Transfers \cup Bills
  BY <1>2, RowFacts DEF LInv
<1> QED
  BY <1>1, <1>2, <1>3

\* A settlement reads on, with seen or seenTo read from the balances.
LEMMA SettleReadsOn ==
    ASSUME LInv, NEW r \in Requests, pc[r] \in Settling \ {"settle_row"},
           UNCHANGED db, NEW j \in Jobs, NEW label,
           Goto(r, label, j, {}), aborts' = aborts,
           j.op = job[r].op, j.id = job[r].id, j.todo = job[r].todo,
           label \in {"settle_credit", "settle_commit"},
           job[r].op.from \notin disturbed => j.seen = balance[job[r].op.from],
           label = "settle_credit" => job[r].op.kind = "transfer",
           label = "settle_commit" => j.seen >= job[r].op.amount,
           label = "settle_commit" /\ job[r].op.kind = "transfer" =>
             j.seenTo = balance[job[r].op.to]
    PROVE  LInv'
<1>1. LTypeOK /\ label \in Labels /\ label # "enqueue"
  BY DEF LInv, Labels
<1>2. pc'[r] = label /\ job'[r] = j /\ disturbed \subseteq disturbed'
  BY <1>1, GotoFacts
<1>3. WorkOK(r)' /\ Covered(r)'
  BY <1>2, SettlingOn DEF WorkOK, Covered, Settling, db
<1>4. Touches(j) = Touches(job[r])
  BY DEF Touches
<1>5. Current(r)'
  <2>1. ~ Touches(j) \subseteq disturbed' => ~ Touches(job[r]) \subseteq disturbed
    BY <1>2, <1>4
  <2> QED
    BY <1>2, <2>1, SettlingOn DEF Current, Settling, HasRead, HasReadTo, db
<1>6. Unrecorded(r) = {} /\ Unrecorded(r)' = {}
  BY <1>2 DEF Unrecorded, Settling
<1> QED
  BY <1>1, <1>3, <1>5, <1>6, ReadKeeps DEF LTypeOK, RequestOK

LEMMA SettleDebitKeeps ==
    ASSUME LInv, NEW r \in Requests, SettleDebit(r)
    PROVE  LInv'
<1> DEFINE op == job[r].op
           seen == balance[op.from]
           j == [job[r] EXCEPT !.seen = seen]
<1>1. LTypeOK /\ pc[r] = "settle_debit" /\ UNCHANGED db
  BY DEF SettleDebit, LInv
<1>2. op \in Ops /\ op.from \in Accounts /\ pc[r] \in Settling
  BY <1>1, WorkingOn DEF Settling
<1>3. seen \in Nat
  BY <1>1, <1>2 DEF LTypeOK
<1>4. /\ j \in Jobs /\ j.op = op /\ j.seen = seen
      /\ j.id = job[r].id /\ j.todo = job[r].todo
  <2>1. job[r] \in Jobs
    BY <1>1, JobFacts
  <2> QED
    BY <1>3, <2>1 DEF Jobs
<1>5. CASE op.kind = "transfer" /\ Go(r, "settle_credit", j)
  <2>1. Goto(r, "settle_credit", j, {}) /\ aborts' = aborts
    BY <1>5 DEF Go
  <2> HIDE DEF j
  <2> QED
    BY <1>1, <1>2, <1>4, <1>5, <2>1, SettleReadsOn
<1>6. CASE op.kind = "bill" /\ seen >= op.amount /\ Go(r, "settle_commit", j)
  <2>1. Goto(r, "settle_commit", j, {}) /\ aborts' = aborts
    BY <1>6 DEF Go
  <2> HIDE DEF j
  <2> QED
    BY <1>1, <1>2, <1>4, <1>6, <2>1, SettleReadsOn
<1>7. CASE op.kind = "bill" /\ NextEntry(r, job[r].todo)
  <2>1. Goto(r, After(r), Left(r), {}) /\ aborts' = aborts
    BY <1>7 DEF NextEntry, Go, After, Left, Rest
  <2> QED
    BY <1>1, <1>2, <2>1, NextEntryKeeps DEF LTypeOK
<1> QED
  BY <1>5, <1>6, <1>7 DEF SettleDebit

LEMMA SettleCreditKeeps ==
    ASSUME LInv, NEW r \in Requests, SettleCredit(r)
    PROVE  LInv'
<1> DEFINE op == job[r].op
           j == [job[r] EXCEPT !.seenTo = balance[op.to]]
<1>1. LTypeOK /\ pc[r] = "settle_credit" /\ UNCHANGED db /\ RequestOK(r)
  BY DEF SettleCredit, LInv
<1>2. op.kind = "transfer"
  BY <1>1 DEF RequestOK, WorkOK
<1>3. op \in Ops /\ op.to \in Accounts /\ pc[r] \in Settling
  BY <1>1, <1>2, WorkingOn DEF Settling
<1>4. balance[op.to] \in Nat
  BY <1>1, <1>3 DEF LTypeOK
<1>5. /\ j \in Jobs /\ j.op = op /\ j.seen = job[r].seen /\ j.seenTo = balance[op.to]
      /\ j.id = job[r].id /\ j.todo = job[r].todo
  <2>1. job[r] \in Jobs
    BY <1>1, JobFacts
  <2> QED
    BY <1>4, <2>1 DEF Jobs
<1>6. CASE job[r].seen < op.amount
  <2>1. Goto(r, After(r), Left(r), {}) /\ aborts' = aborts
    BY <1>6 DEF SettleCredit, NextEntry, Go, After, Left, Rest
  <2> QED
    BY <1>1, <1>3, <2>1, NextEntryKeeps DEF LTypeOK
<1>7. CASE ~ (job[r].seen < op.amount)
  <2>1. Goto(r, "settle_commit", j, {}) /\ aborts' = aborts
    BY <1>7 DEF SettleCredit, Go
  <2>2. job[r].seen >= op.amount
    BY <1>1, <1>3, <1>7, OpFacts, JobFacts
  <2>3. op.from \notin disturbed => job[r].seen = balance[op.from]
    BY <1>1 DEF RequestOK, Current, HasRead
  <2> HIDE DEF j
  <2> QED
    BY <1>1, <1>3, <1>5, <2>1, <2>2, <2>3, SettleReadsOn
<1> QED
  BY <1>6, <1>7

-----------------------------------------------------------------------------
(* The steps that write.                                                   *)

DbType ==
    /\ balance \in [Accounts -> Nat] /\ rows \in Seq(Rows)
    /\ queue \in Seq(QueueEntries) /\ tokens \in Seq(Tokens)
    /\ cash \in Seq(Nat \ {0})

LEMMA WriteKeeps ==
    ASSUME LInv, NEW r \in Requests, NEW label \in Labels, NEW locals \in Jobs,
           NEW lost \in SUBSET Accounts, Goto(r, label, locals, lost),
           aborts' = aborts, Keeps(r), RequestOK(r)',
           label = "enqueue" =>
             \A q \in Requests \ {r} : pc[q] = "enqueue" => job[q].id # locals.id,
           DbType', QueuedOnce', KeyOnce', CashBacked',
           \A a \in Accounts \ disturbed' :
             balance'[a] = Funds + Posted(a)' - Redeemed(a)' - OnTheWay(a)'
    PROVE  LInv'
<1>1. LTypeOK
  BY DEF LInv
<1>2. /\ pc' \in [Requests -> Labels] /\ job' \in [Requests -> Jobs]
      /\ disturbed' \subseteq Accounts
  BY <1>1, GotoFacts
<1>3. LTypeOK'
  BY <1>1, <1>2 DEF LTypeOK, DbType
<1>4. /\ \A q \in Requests : RequestOK(q)'
      /\ \A p, q \in Requests : PairOK(p, q)'
  BY StepKeeps
<1>5. BooksBalance'
  BY DEF BooksBalance
<1> QED
  BY <1>3, <1>4, <1>5 DEF LInv

\* A row is recorded under a key that is free.
LEMMA RowRecorded ==
    ASSUME LInv, NEW r \in Requests, NEW op \in Transfers \cup Bills, ~ KeyTaken(op),
           NEW row,
           row = [op |-> op, status |-> IF op.offline THEN "PROVISIONAL" ELSE "POSTED"],
           rows' = Append(rows, row), UNCHANGED <<queue, tokens, cash>>,
           \A a \in Accounts : balance'[a] # balance[a] => a \in Touches(job[r])
    PROVE  /\ rows' \in Seq(Rows) /\ Len(rows') = Len(rows) + 1
           /\ Keeps(r) /\ QueuedOnce' /\ KeyOnce' /\ CashBacked'
<1>1. LTypeOK /\ QueuedOnce /\ KeyOnce /\ CashBacked
  BY DEF LInv
<1>2. row \in Rows /\ row.op = op
      /\ row.status = IF op.offline THEN "PROVISIONAL" ELSE "POSTED"
  BY DEF Rows
<1> DEFINE n == Len(rows)
<1>3. /\ n \in Nat /\ Len(rows') = n + 1 /\ rows'[n + 1] = row
      /\ \A i \in 1 .. n : rows'[i] = rows[i]
      /\ rows' \in Seq(Rows)
  BY <1>1, <1>2 DEF LTypeOK
<1>4. Keeps(r)
  <2>1. Len(queue) \in Nat /\ Len(tokens) \in Nat
    BY <1>1 DEF LTypeOK
  <2> QED
    BY <1>3, <2>1 DEF Keeps
<1>5. QueuedOnce'
  <2>1. ASSUME NEW k \in 1 .. Len(queue)
        PROVE  queue[k].row \in 1 .. n /\ queue[k].row \in 1 .. n + 1
               /\ rows'[queue[k].row].op.offline
    BY <1>1, <1>3 DEF QueuedOnce
  <2>2. ASSUME NEW i \in 1 .. n + 1, rows'[i].op.offline
        PROVE  rows'[i].status = "POSTED"
               <=> \E k \in 1 .. Len(queue) :
                      queue[k].row = i /\ queue[k].status = "SETTLED"
    <3>1. CASE i \in 1 .. n
      BY <1>1, <1>3, <2>2, <3>1 DEF QueuedOnce
    <3>2. CASE i = n + 1
      <4>1. rows'[i].status = "PROVISIONAL"
        BY <1>2, <1>3, <2>2, <3>2
      <4>2. \A k \in 1 .. Len(queue) : queue[k].row # n + 1
        BY <1>3, <2>1
      <4> QED
        BY <3>2, <4>1, <4>2
    <3> QED
      BY <1>3, <3>1, <3>2
  <2> QED
    BY <1>1, <1>3, <2>1, <2>2 DEF QueuedOnce
<1>6. KeyOnce'
  <2>1. ASSUME NEW i \in 1 .. n + 1, NEW j \in 1 .. n + 1, i # j,
               rows'[i].op.key # NoKey, rows'[i].op.kind = rows'[j].op.kind
        PROVE  rows'[i].op.key # rows'[j].op.key
    <3>1. CASE i \in 1 .. n /\ j \in 1 .. n
      BY <1>1, <1>3, <2>1, <3>1 DEF KeyOnce
    <3>2. CASE i = n + 1 /\ j \in 1 .. n
      BY <1>2, <1>3, <2>1, <3>2 DEF KeyTaken
    <3>3. CASE i \in 1 .. n /\ j = n + 1
      BY <1>2, <1>3, <2>1, <3>3 DEF KeyTaken
    <3> QED
      BY <1>3, <2>1, <3>1, <3>2, <3>3
  <2> QED
    BY <1>3, <2>1 DEF KeyOnce
<1>7. CashBacked'
  BY <1>1 DEF CashBacked
<1> QED
  BY <1>3, <1>4, <1>5, <1>6, <1>7

LEMMA MovedFacts ==
    ASSUME LTypeOK, NEW op \in Ops, NEW seen \in Nat, NEW seenTo \in Nat,
           seen >= op.amount
    PROVE  /\ Debited(op, seen) \in [Accounts -> Nat]
           /\ Debited(op, seen)[op.from] = seen - op.amount
           /\ \A a \in Accounts \ {op.from} : Debited(op, seen)[a] = balance[a]
           /\ op.to \in Accounts \ {op.from} =>
                /\ Moved(op, seen, seenTo) \in [Accounts -> Nat]
                /\ Moved(op, seen, seenTo)[op.from] = seen - op.amount
                /\ Moved(op, seen, seenTo)[op.to] = seenTo + op.amount
                /\ \A a \in Accounts \ {op.from, op.to} :
                      Moved(op, seen, seenTo)[a] = balance[a]
<1>1. op.from \in Accounts /\ op.amount \in Nat
  BY OpFacts
<1>2. seen - op.amount \in Nat /\ seenTo + op.amount \in Nat
  BY <1>1
<1>3. /\ Debited(op, seen) \in [Accounts -> Nat]
      /\ Debited(op, seen)[op.from] = seen - op.amount
      /\ \A a \in Accounts \ {op.from} : Debited(op, seen)[a] = balance[a]
  BY <1>1, <1>2 DEF Debited, LTypeOK
<1>4. Moved(op, seen, seenTo)
      = [Debited(op, seen) EXCEPT ![op.to] = seenTo + op.amount]
  BY DEF Moved
<1> QED
  BY <1>1, <1>2, <1>3, <1>4

LEMMA TransferCommitKeeps ==
    ASSUME LInv, NEW r \in Requests, TransferCommit(r)
    PROVE  LInv'
<1> DEFINE op == job[r].op
           n == Len(rows)
<1>1. LTypeOK /\ pc[r] = "transfer_commit" /\ RequestOK(r) /\ n \in Nat
  BY DEF TransferCommit, LInv, LTypeOK
<1>2. op \in Transfers /\ op \in Ops /\ op \in Transfers \cup Bills
  BY <1>1 DEF RequestOK, WorkOK, Transfers
<1>3. /\ op.from \in Accounts /\ op.to \in Accounts /\ op.to # op.from
      /\ op.amount \in Nat
  BY <1>2, OpFacts
<1>4. Unrecorded(r) = {}
  BY <1>1 DEF Unrecorded
<1>5. Touches(job[r]) = {op.from, op.to}
  BY <1>2, <1>3, TouchesOp
<1>6. CASE KeyTaken(op) /\ Return(r) /\ UNCHANGED <<balance, rows>>
  BY <1>4, <1>6, ReturnKeeps DEF TransferCommit, db
<1>7. CASE /\ ~ KeyTaken(op) /\ op.offline
           /\ rows' = Append(rows, [op |-> op, status |-> "PROVISIONAL"])
           /\ Go(r, "enqueue", [NoJob EXCEPT !.id = Len(rows')])
           /\ UNCHANGED balance
  <2> DEFINE j == [NoJob EXCEPT !.id = Len(rows')]
             row == [op |-> op, status |-> "PROVISIONAL"]
  <2>1. /\ rows' \in Seq(Rows) /\ Len(rows') = n + 1
        /\ Keeps(r) /\ QueuedOnce' /\ KeyOnce' /\ CashBacked'
    BY <1>2, <1>7, RowRecorded DEF TransferCommit
  <2>2. Goto(r, "enqueue", j, {}) /\ aborts' = aborts
    BY <1>7 DEF Go
  <2>3. j \in Jobs /\ j.id = n + 1 /\ "enqueue" \in Labels
    BY <1>1, <2>1 DEF NoJob, Jobs, Labels
  <2> HIDE DEF j
  <2>4. pc'[r] = "enqueue" /\ job'[r] = j /\ disturbed \subseteq disturbed'
    BY <1>1, <2>2, <2>3, GotoFacts
  <2>5. rows'[n + 1] = row
    BY <1>1, <1>7 DEF LTypeOK
  <2>6. \A k \in 1 .. Len(queue) : queue[k].row \in 1 .. n
    BY DEF LInv, QueuedOnce
  <2>7. RequestOK(r)'
    <3>1. WorkOK(r)'
      <4>1. n + 1 \in 1 .. Len(rows')
        BY <1>1, <2>1
      <4>2. rows'[n + 1].op.offline /\ rows'[n + 1].status = "PROVISIONAL"
        BY <1>7, <2>5
      <4>3. \A k \in 1 .. Len(queue') : queue'[k].row # n + 1
        BY <1>1, <2>6 DEF TransferCommit
      <4> QED
        BY <2>3, <2>4, <4>1, <4>2, <4>3 DEF WorkOK, Settling
    <3> QED
      BY <2>4, <3>1 DEF RequestOK, Covered, Current, Settling, HasRead, HasReadTo
  <2>8. \A q \in Requests \ {r} : pc[q] = "enqueue" => job[q].id # j.id
    <3>1. \A q \in Requests : pc[q] = "enqueue" => job[q].id \in 1 .. n
      BY DEF LInv, RequestOK, WorkOK
    <3> QED
      BY <1>1, <2>3, <3>1
  <2>9. DbType'
    BY <1>1, <1>7, <2>1 DEF TransferCommit, DbType, LTypeOK
  <2>10. ASSUME NEW a \in Accounts \ disturbed'
         PROVE  balance'[a] = Funds + Posted(a)' - Redeemed(a)' - OnTheWay(a)'
    <3>1. Unrecorded(r)' = {}
      BY <2>4 DEF Unrecorded
    <3>2. OnTheWay(a)' = OnTheWay(a)
      BY <1>1, <1>4, <2>2, <3>1, OnTheWayKept
    <3>3. Posted(a)' = Posted(a) + Credit(row, a) /\ Posted(a) \in Int
      BY <1>1, <1>7, PostedAppended, PostedType
    <3>4. Credit(row, a) = 0
      BY DEF Credit
    <3>5. Redeemed(a)' = Redeemed(a)
      BY DEF TransferCommit, Redeemed
    <3>6. balance[a] = Funds + Posted(a) - Redeemed(a) - OnTheWay(a)
      BY <2>4 DEF LInv, BooksBalance
    <3> QED
      BY <1>7, <3>2, <3>3, <3>4, <3>5, <3>6
  <2> QED
    BY <2>1, <2>2, <2>3, <2>7, <2>8, <2>9, <2>10, WriteKeeps
<1>8. CASE /\ ~ KeyTaken(op) /\ ~ op.offline
           /\ balance' = Moved(op, job[r].seen, job[r].seenTo)
           /\ rows' = Append(rows, [op |-> op, status |-> "POSTED"])
           /\ Return(r)
  <2> DEFINE row == [op |-> op, status |-> "POSTED"]
             seen == job[r].seen
             seenTo == job[r].seenTo
  <2>1. seen \in Nat /\ seenTo \in Nat /\ seen >= op.amount
    BY <1>1, <1>8, JobFacts DEF RequestOK, Covered
  <2>2. /\ balance' \in [Accounts -> Nat]
        /\ balance'[op.from] = seen - op.amount
        /\ balance'[op.to] = seenTo + op.amount
        /\ \A a \in Accounts \ {op.from, op.to} : balance'[a] = balance[a]
    <3>1. balance' = Moved(op, seen, seenTo) /\ op.to \in Accounts \ {op.from}
      BY <1>3, <1>8
    <3> HIDE DEF op, seen, seenTo
    <3>2. /\ Moved(op, seen, seenTo) \in [Accounts -> Nat]
          /\ Moved(op, seen, seenTo)[op.from] = seen - op.amount
          /\ Moved(op, seen, seenTo)[op.to] = seenTo + op.amount
          /\ \A a \in Accounts \ {op.from, op.to} :
                Moved(op, seen, seenTo)[a] = balance[a]
      BY <1>1, <1>2, <2>1, <3>1, MovedFacts
    <3> QED
      BY <3>1, <3>2
  <2>3. /\ rows' \in Seq(Rows) /\ Len(rows') = n + 1
        /\ Keeps(r) /\ QueuedOnce' /\ KeyOnce' /\ CashBacked'
    BY <1>2, <1>5, <1>8, <2>2, RowRecorded DEF TransferCommit
  <2>4. /\ Goto(r, "idle", NoJob, {}) /\ aborts' = aborts
        /\ "idle" \in Labels /\ NoJob \in Jobs
    BY <1>8, NoJobType DEF Return, Go, Labels
  <2>5. pc'[r] = "idle" /\ disturbed \subseteq disturbed'
    BY <1>1, <2>4, GotoFacts
  <2>6. DbType'
    BY <1>1, <2>2, <2>3 DEF TransferCommit, DbType, LTypeOK
  <2>7. ASSUME NEW a \in Accounts \ disturbed'
        PROVE  balance'[a] = Funds + Posted(a)' - Redeemed(a)' - OnTheWay(a)'
    <3>1. OnTheWay(a)' = OnTheWay(a) /\ OnTheWay(a) \in Int
      BY <1>1, <1>4, <2>4, <2>5, ReturnOK, OnTheWayKept, OnTheWayType
    <3>2. Posted(a)' = Posted(a) + Credit(row, a) /\ Posted(a) \in Int
      BY <1>1, <1>8, PostedAppended, PostedType
    <3>3. Credit(row, a) = IF op.to = a THEN op.amount
                           ELSE IF op.from = a THEN - op.amount ELSE 0
      BY DEF Credit
    <3>4. Redeemed(a)' = Redeemed(a) /\ Redeemed(a) \in Int
      BY <1>1, RedeemedType DEF TransferCommit, Redeemed
    <3>5. balance[a] = Funds + Posted(a) - Redeemed(a) - OnTheWay(a)
      BY <2>5 DEF LInv, BooksBalance
    <3>6. a = op.from => seen = balance[a]
      BY <1>1, <2>5 DEF RequestOK, Current, HasRead
    <3>7. a = op.to => seenTo = balance[a]
      BY <1>1, <1>2, <2>5 DEF RequestOK, Current, HasReadTo, Transfers
    <3> HIDE DEF row, seen, seenTo
    <3>8. balance'[a] = balance[a] + Credit(row, a)
      <4>1. CASE a = op.from
        BY <1>3, <2>1, <2>2, <3>3, <3>6, <4>1
      <4>2. CASE a = op.to
        BY <1>3, <2>1, <2>2, <3>3, <3>7, <4>2
      <4>3. CASE a \notin {op.from, op.to}
        BY <1>1, <2>2, <3>3, <4>3 DEF LTypeOK
      <4> QED
        BY <4>1, <4>2, <4>3
    <3> QED
      BY <1>3, <3>1, <3>2, <3>3, <3>4, <3>5, <3>8, LedgerAssumption
  <2> QED
    BY <2>3, <2>4, <2>5, <2>6, <2>7, ReturnOK, WriteKeeps
<1> QED
  BY <1>6, <1>7, <1>8 DEF TransferCommit

\* The row queued is the request's own and has no entry yet.
LEMMA EnqueueKeeps ==
    ASSUME LInv, NEW r \in Requests, Enqueue(r)
    PROVE  LInv'
<1> DEFINE id == job[r].id
           n == Len(queue)
           entry == [row |-> id, status |-> "PENDING"]
<1>1. LTypeOK /\ pc[r] = "enqueue" /\ n \in Nat /\ QueuedOnce
  BY DEF Enqueue, LInv, LTypeOK
<1>2. /\ id \in 1 .. Len(rows) /\ rows[id].op.offline
      /\ rows[id].status = "PROVISIONAL"
      /\ \A k \in 1 .. n : queue[k].row # id
  BY <1>1 DEF LInv, RequestOK, WorkOK
<1>3. /\ queue' = Append(queue, entry)
      /\ UNCHANGED <<balance, rows, tokens, cash>>
      /\ Goto(r, "idle", NoJob, {}) /\ aborts' = aborts
      /\ "idle" \in Labels /\ NoJob \in Jobs
  BY NoJobType DEF Enqueue, Return, Go, Labels
<1>4. pc'[r] = "idle" /\ disturbed \subseteq disturbed'
  BY <1>1, <1>3, GotoFacts
<1>5. Unrecorded(r) = {}
  BY <1>1 DEF Unrecorded
<1>6. entry \in QueueEntries /\ entry.row = id /\ entry.status = "PENDING"
  <2>1. id \in Nat \ {0}
    BY <1>1, <1>2 DEF LTypeOK
  <2> QED
    BY <2>1 DEF QueueEntries
<1> HIDE DEF entry
<1>7. /\ queue' \in Seq(QueueEntries) /\ Len(queue') = n + 1 /\ queue'[n + 1] = entry
      /\ \A k \in 1 .. n : queue'[k] = queue[k]
  BY <1>1, <1>3, <1>6 DEF LTypeOK
<1>8. Keeps(r)
  <2>1. Len(rows) \in Nat /\ Len(tokens) \in Nat
    BY <1>1 DEF LTypeOK
  <2>2. \A k \in 1 .. Len(queue') \ 1 .. Len(queue) : queue'[k].row = id
    BY <1>1, <1>6, <1>7
  <2> QED
    BY <1>1, <1>3, <1>7, <2>1, <2>2 DEF Keeps
<1>9. QueuedOnce'
  <2>1. ASSUME NEW k \in 1 .. n + 1
        PROVE  queue'[k].row \in 1 .. Len(rows) /\ rows[queue'[k].row].op.offline
    BY <1>1, <1>2, <1>6, <1>7 DEF QueuedOnce
  <2>2. ASSUME NEW k \in 1 .. n + 1, NEW l \in 1 .. n + 1, k # l
        PROVE  queue'[k].row # queue'[l].row
    <3>1. CASE k \in 1 .. n /\ l \in 1 .. n
      BY <1>1, <1>7, <2>2, <3>1 DEF QueuedOnce
    <3>2. CASE k = n + 1 /\ l \in 1 .. n
      BY <1>2, <1>6, <1>7, <3>2
    <3>3. CASE l = n + 1 /\ k \in 1 .. n
      BY <1>2, <1>6, <1>7, <3>3
    <3> QED
      BY <1>1, <2>2, <3>1, <3>2, <3>3
  <2>3. ASSUME NEW i \in 1 .. Len(rows), rows[i].op.offline
        PROVE  rows[i].status = "POSTED"
               <=> \E k \in 1 .. n + 1 : queue'[k].row = i /\ queue'[k].status = "SETTLED"
    <3>1. (\E k \in 1 .. n + 1 : queue'[k].row = i /\ queue'[k].status = "SETTLED")
          <=> (\E k \in 1 .. n : queue[k].row = i /\ queue[k].status = "SETTLED")
      BY <1>1, <1>6, <1>7
    <3> QED
      BY <1>1, <2>3, <3>1 DEF QueuedOnce
  <2> QED
    BY <1>3, <1>7, <2>1, <2>2, <2>3 DEF QueuedOnce
<1>10. KeyOnce' /\ CashBacked'
  BY <1>3 DEF LInv, KeyOnce, CashBacked
<1>11. DbType'
  BY <1>1, <1>3, <1>7 DEF DbType, LTypeOK
<1>12. ASSUME NEW a \in Accounts \ disturbed'
       PROVE  balance'[a] = Funds + Posted(a)' - Redeemed(a)' - OnTheWay(a)'
  <2>1. OnTheWay(a)' = OnTheWay(a)
    BY <1>1, <1>3, <1>4, <1>5, ReturnOK, OnTheWayKept
  <2>2. Posted(a)' = Posted(a) /\ Redeemed(a)' = Redeemed(a)
    BY <1>3 DEF Posted, Redeemed
  <2> QED
    BY <1>3, <1>4, <2>1, <2>2 DEF LInv, BooksBalance
<1> QED
  BY <1>3, <1>4, <1>8, <1>9, <1>10, <1>11, <1>12, ReturnOK, WriteKeeps

\* The debit of an online bill shows before its row.
LEMMA BillDebitKeeps ==
    ASSUME LInv, NEW r \in Requests, BillDebit(r)
    PROVE  LInv'
<1> DEFINE op == job[r].op
           seen == job[r].seen
<1>1. LTypeOK /\ pc[r] = "bill_debit" /\ RequestOK(r)
  BY DEF BillDebit, LInv
<1>2. op \in Bills /\ op \in Ops /\ ~ op.offline
  BY <1>1 DEF RequestOK, WorkOK, Bills
<1>3. op.from \in Accounts /\ op.amount \in Nat /\ op.from \in Touches(job[r])
  BY <1>1, <1>2, OpFacts, WorkingOn
<1>4. seen \in Nat /\ seen >= op.amount
  BY <1>1, JobFacts DEF RequestOK, Covered
<1>5. /\ balance' = Debited(op, seen) /\ UNCHANGED <<rows, queue, tokens, cash>>
      /\ Goto(r, "bill_create", job[r], {}) /\ aborts' = aborts
      /\ "bill_create" \in Labels /\ job[r] \in Jobs
  BY <1>1, JobFacts DEF BillDebit, Go, Labels
<1>6. pc'[r] = "bill_create" /\ job'[r] = job[r] /\ disturbed \subseteq disturbed'
      /\ \A q \in Requests \ {r} : pc'[q] = pc[q] /\ job'[q] = job[q]
  BY <1>1, <1>5, GotoFacts
<1>7. /\ balance' \in [Accounts -> Nat]
      /\ balance'[op.from] = seen - op.amount
      /\ \A a \in Accounts \ {op.from} : balance'[a] = balance[a]
  <2> HIDE DEF op, seen
  <2>1. /\ Debited(op, seen) \in [Accounts -> Nat]
        /\ Debited(op, seen)[op.from] = seen - op.amount
        /\ \A a \in Accounts \ {op.from} : Debited(op, seen)[a] = balance[a]
    BY <1>1, <1>2, <1>4, MovedFacts
  <2> QED
    BY <1>5, <2>1
<1>8. Keeps(r)
  <2>1. Len(rows) \in Nat /\ Len(queue) \in Nat /\ Len(tokens) \in Nat
    BY <1>1 DEF LTypeOK
  <2> QED
    BY <1>3, <1>5, <1>7, <2>1 DEF Keeps
<1>9. RequestOK(r)'
  BY <1>2, <1>6 DEF RequestOK, WorkOK, Covered, Current, Settling, HasRead, HasReadTo
<1>10. QueuedOnce' /\ KeyOnce' /\ CashBacked'
  BY <1>5 DEF LInv, QueuedOnce, KeyOnce, CashBacked
<1>11. DbType'
  BY <1>1, <1>5, <1>7 DEF DbType, LTypeOK
<1>12. ASSUME NEW a \in Accounts \ disturbed'
       PROVE  balance'[a] = Funds + Posted(a)' - Redeemed(a)' - OnTheWay(a)'
  <2>1. Posted(a)' = Posted(a) /\ Redeemed(a)' = Redeemed(a)
    BY <1>5 DEF Posted, Redeemed
  <2>2. balance[a] = Funds + Posted(a) - Redeemed(a) - OnTheWay(a)
    BY <1>6 DEF LInv, BooksBalance
  <2>3. CASE a # op.from
    <3>1. OnTheWay(a)' = OnTheWay(a)
      <4>1. a \notin Unrecorded(r) /\ a \notin Unrecorded(r)'
        BY <1>1, <1>6, <2>3 DEF Unrecorded
      <4> QED
        BY <1>1, <1>5, <4>1, OnTheWayKept
    <3> QED
      BY <1>7, <2>1, <2>2, <2>3, <3>1
  <2>4. CASE a = op.from
    <3>1. \A q \in Requests \ {r} : a \notin Unrecorded(q)
      BY <1>3, <1>6, <2>4, UnrecordedTouched DEF LInv, PairOK
    <3>2. a \notin Unrecorded(r)
      BY <1>1 DEF Unrecorded
    <3>3. OnTheWay(a) = 0
      BY <3>1, <3>2, NothingOnTheWay
    <3>4. OnTheWay(a)' = op.amount
      <4>1. Unrecorded(r)' = {a}
        BY <1>2, <1>6, <2>4 DEF Unrecorded
      <4>2. \A q \in Requests \ {r} : Unrecorded(q)' = Unrecorded(q)
        BY <1>6 DEF Unrecorded
      <4>3. Late(a)' = {r}
        BY <3>1, <4>1, <4>2 DEF Late
      <4> QED
        BY <1>6, <4>3 DEF OnTheWay
    <3>5. seen = balance[a]
      BY <1>1, <1>6, <2>4 DEF RequestOK, Current, HasRead
    <3>6. Posted(a) \in Int /\ Redeemed(a) \in Int
      BY <1>1, PostedType, RedeemedType
    <3> HIDE DEF op, seen
    <3> QED
      BY <1>3, <1>4, <1>7, <2>1, <2>2, <2>4, <3>3, <3>4, <3>5, <3>6, LedgerAssumption
  <2> QED
    BY <2>3, <2>4
<1> QED
  BY <1>5, <1>8, <1>9, <1>10, <1>11, <1>12, WriteKeeps

LEMMA BillCreateKeeps ==
    ASSUME LInv, NEW r \in Requests, BillCreate(r)
    PROVE  LInv'
<1> DEFINE op == job[r].op
           n == Len(rows)
           row == [op |-> op, status |-> IF op.offline THEN "PROVISIONAL" ELSE "POSTED"]
<1>1. LTypeOK /\ pc[r] = "bill_create" /\ RequestOK(r) /\ n \in Nat
      /\ UNCHANGED <<balance, queue, tokens, cash>>
  BY DEF BillCreate, LInv, LTypeOK
<1>2. op \in Bills /\ op \in Ops /\ op \in Transfers \cup Bills
  BY <1>1 DEF RequestOK, WorkOK, Bills
<1>3. op.from \in Accounts /\ op.to \notin Accounts /\ op.amount \in Nat
  BY <1>2, OpFacts
<1>4. Unrecorded(r) = IF op.offline THEN {} ELSE {op.from}
  BY <1>1 DEF Unrecorded
<1>5. CASE Goto(r, "idle", NoJob, Unrecorded(r)) /\ UNCHANGED <<rows, aborts>>
  <2>1. "idle" \in Labels /\ NoJob \in Jobs
    BY NoJobType DEF Labels
  <2>2. Unrecorded(r) \in SUBSET Accounts
    BY <1>3, <1>4
  <2>3. pc'[r] = "idle" /\ Unrecorded(r) \subseteq disturbed'
    BY <1>1, <1>5, <2>1, <2>2, GotoFacts
  <2>4. UNCHANGED db /\ aborts' \in Nat
    BY <1>1, <1>5 DEF db, LTypeOK
  <2> QED
    BY <1>5, <2>1, <2>2, <2>3, <2>4, ReturnOK, ReadKeeps
<1>6. CASE /\ ~ KeyTaken(op) /\ rows' = Append(rows, row)
           /\ IF op.offline THEN Go(r, "enqueue", [NoJob EXCEPT !.id = Len(rows')])
              ELSE Return(r)
  <2> DEFINE label == IF op.offline THEN "enqueue" ELSE "idle"
             j == IF op.offline THEN [NoJob EXCEPT !.id = Len(rows')] ELSE NoJob
  <2>1. /\ rows' \in Seq(Rows) /\ Len(rows') = n + 1
        /\ Keeps(r) /\ QueuedOnce' /\ KeyOnce' /\ CashBacked'
    BY <1>1, <1>2, <1>6, RowRecorded
  <2>2. Goto(r, label, j, {}) /\ aborts' = aborts
    BY <1>6 DEF Return, Go
  <2>3. j \in Jobs /\ (op.offline => j.id = n + 1) /\ label \in Labels
    BY <1>1, <2>1 DEF NoJob, Jobs, Labels
  <2> HIDE DEF j
  <2>4. pc'[r] = label /\ job'[r] = j /\ disturbed \subseteq disturbed'
    BY <1>1, <2>2, <2>3, GotoFacts
  <2>5. rows'[n + 1] = row
    BY <1>1, <1>6 DEF LTypeOK
  <2>6. \A k \in 1 .. Len(queue) : queue[k].row \in 1 .. n
    BY DEF LInv, QueuedOnce
  <2>7. RequestOK(r)'
    <3>1. CASE ~ op.offline
      BY <2>4, <3>1, ReturnOK
    <3>2. CASE op.offline
      <4>1. n + 1 \in 1 .. Len(rows')
        BY <1>1, <2>1
      <4>2. rows'[n + 1].op.offline /\ rows'[n + 1].status = "PROVISIONAL"
        BY <2>5, <3>2
      <4>3. \A k \in 1 .. Len(queue') : queue'[k].row # n + 1
        BY <1>1, <2>6
      <4> QED
        BY <2>3, <2>4, <3>2, <4>1, <4>2, <4>3
        DEF WorkOK, RequestOK, Covered, Current, Settling, HasRead, HasReadTo
    <3> QED
      BY <3>1, <3>2
  <2>8. label = "enqueue" =>
          \A q \in Requests \ {r} : pc[q] = "enqueue" => job[q].id # j.id
    <3>1. \A q \in Requests : pc[q] = "enqueue" => job[q].id \in 1 .. n
      BY DEF LInv, RequestOK, WorkOK
    <3> QED
      BY <1>1, <2>3, <3>1
  <2>9. DbType'
    BY <1>1, <2>1 DEF DbType, LTypeOK
  <2>10. ASSUME NEW a \in Accounts \ disturbed'
         PROVE  balance'[a] = Funds + Posted(a)' - Redeemed(a)' - OnTheWay(a)'
    <3>1. Unrecorded(r)' = {}
      BY <2>4 DEF Unrecorded
    <3>2. Posted(a)' = Posted(a) + Credit(row, a) /\ Posted(a) \in Int
      BY <1>1, <1>6, PostedAppended, PostedType
    <3>3. Redeemed(a)' = Redeemed(a) /\ Redeemed(a) \in Int
      BY <1>1, RedeemedType DEF Redeemed
    <3>4. balance'[a] = Funds + Posted(a) - Redeemed(a) - OnTheWay(a)
      BY <1>1, <2>4 DEF LInv, BooksBalance
    <3>5. CASE a \notin Unrecorded(r)
      <4>1. OnTheWay(a)' = OnTheWay(a) /\ OnTheWay(a) \in Int
        BY <1>1, <2>2, <2>3, <3>1, <3>5, OnTheWayKept, OnTheWayType
      <4>2. Credit(row, a) = 0
        <5>1. a # op.to /\ (op.offline \/ a # op.from)
          BY <1>3, <1>4, <3>5
        <5> QED
          BY <5>1 DEF Credit
      <4> QED
        BY <3>2, <3>3, <3>4, <4>1, <4>2, LedgerAssumption
    <3>6. CASE a \in Unrecorded(r)
      <4>1. a = op.from /\ ~ op.offline
        BY <1>4, <3>6
      <4>2. \A q \in Requests \ {r} : a \notin Unrecorded(q)
        <5>1. ASSUME NEW q \in Requests \ {r}, a \in Unrecorded(q) PROVE FALSE
          <6>1. a \in Touches(job[q]) /\ a \in Touches(job[r])
            BY <3>6, <5>1, UnrecordedTouched
          <6>2. Touches(job[q]) \cap Touches(job[r]) \subseteq disturbed
            BY DEF LInv, PairOK
          <6> QED
            BY <2>4, <6>1, <6>2
        <5> QED
          BY <5>1
      <4>3. OnTheWay(a) = op.amount
        BY <2>4, <3>6, <4>2, OnTheWayOf
      <4>4. \A q \in Requests \ {r} : Unrecorded(q)' = Unrecorded(q)
        <5>1. \A q \in Requests \ {r} : pc'[q] = pc[q] /\ job'[q] = job[q]
          BY <1>1, <2>2, <2>3, GotoFacts
        <5> QED
          BY <5>1 DEF Unrecorded
      <4>5. OnTheWay(a)' = 0
        <5>1. Late(a)' = {}
          BY <3>1, <4>2, <4>4 DEF Late
        <5> QED
          BY <5>1 DEF OnTheWay
      <4>6. Credit(row, a) = - op.amount
        BY <1>3, <4>1 DEF Credit
      <4> HIDE DEF row, op
      <4> QED
        BY <1>3, <3>2, <3>3, <3>4, <4>3, <4>5, <4>6, LedgerAssumption
    <3> QED
      BY <3>5, <3>6
  <2> QED
    BY <2>1, <2>2, <2>3, <2>7, <2>8, <2>9, <2>10, WriteKeeps
<1> QED
  BY <1>5, <1>6 DEF BillCreate

\* A settlement pays a row once, unless it was disturbed, and marks its entry.
LEMMA SettleCommitKeeps ==
    ASSUME LInv, NEW r \in Requests, SettleCommit(r)
    PROVE  LInv'
<1> DEFINE op == job[r].op
           seen == job[r].seen
           seenTo == job[r].seenTo
           i == job[r].id
           id == queue[i].row
           n == Len(rows)
<1>1. LTypeOK /\ pc[r] = "settle_commit" /\ RequestOK(r) /\ QueuedOnce
      /\ pc[r] \in Settling \ {"settle_row"} /\ pc[r] \in Settling
  BY DEF SettleCommit, LInv, Settling
<1>2. /\ i \in 1 .. Len(queue) /\ id \in 1 .. n /\ op = rows[id].op
      /\ op \in Transfers \cup Bills /\ op.offline
      /\ ~ Touches(job[r]) \subseteq disturbed => rows[id].status = "PROVISIONAL"
  BY <1>1, SettlingOn
<1>3. /\ op \in Ops /\ op.from \in Accounts /\ op.amount \in Nat
      /\ op.from \in Touches(job[r])
      /\ Touches(job[r]) = {op.from, op.to} \cap Accounts
  BY <1>1, WorkingOn, OpFacts
<1>4. /\ op.kind = "bill" => op.to \notin Accounts
      /\ op.kind # "bill" => op.kind = "transfer" /\ op.to \in Accounts /\ op.to # op.from
  BY <1>2, <1>3, OpFacts DEF Transfers, Bills
<1>5. seen \in Nat /\ seenTo \in Nat /\ seen >= op.amount
  BY <1>1, JobFacts DEF RequestOK, Covered
<1>6. /\ rows' = [rows EXCEPT ![id].status = "POSTED"]
      /\ queue' = [queue EXCEPT ![i].status = "SETTLED"]
      /\ UNCHANGED <<tokens, cash>>
      /\ Goto(r, After(r), Left(r), {}) /\ aborts' = aborts
  BY DEF SettleCommit, NextEntry, Go, After, Left, Rest
<1>7. After(r) \in Labels /\ After(r) # "enqueue" /\ Left(r) \in Jobs
  BY <1>1, EntryInHand
<1>8. pc'[r] = After(r) /\ job'[r] = Left(r) /\ disturbed \subseteq disturbed'
  BY <1>1, <1>6, <1>7, GotoFacts
<1>9. /\ balance' \in [Accounts -> Nat]
      /\ balance'[op.from] = seen - op.amount
      /\ op.kind # "bill" => balance'[op.to] = seenTo + op.amount
      /\ \A a \in Accounts \ {op.from, op.to} : balance'[a] = balance[a]
  <2>1. balance' = IF op.kind = "bill" THEN Debited(op, seen) ELSE Moved(op, seen, seenTo)
    BY DEF SettleCommit
  <2> HIDE DEF op, seen, seenTo
  <2>2. /\ Debited(op, seen) \in [Accounts -> Nat]
        /\ Debited(op, seen)[op.from] = seen - op.amount
        /\ \A a \in Accounts \ {op.from} : Debited(op, seen)[a] = balance[a]
    BY <1>1, <1>3, <1>5, MovedFacts
  <2>3. op.kind # "bill" =>
          /\ Moved(op, seen, seenTo) \in [Accounts -> Nat]
          /\ Moved(op, seen, seenTo)[op.from] = seen - op.amount
          /\ Moved(op, seen, seenTo)[op.to] = seenTo + op.amount
          /\ \A a \in Accounts \ {op.from, op.to} :
                Moved(op, seen, seenTo)[a] = balance[a]
    BY <1>1, <1>3, <1>4, <1>5, MovedFacts
  <2>4. CASE op.kind = "bill"
    BY <2>1, <2>2, <2>4
  <2>5. CASE op.kind # "bill"
    BY <2>1, <2>3, <2>5
  <2> QED
    BY <2>4, <2>5
<1>10. /\ rows' \in Seq(Rows) /\ Len(rows') = n /\ n \in Nat
       /\ rows'[id].op = op /\ rows'[id].status = "POSTED"
       /\ \A k \in 1 .. n : k # id => rows'[k] = rows[k]
       /\ \A k \in 1 .. n : rows'[k].op = rows[k].op
  <2>1. rows[id] \in Rows /\ rows \in Seq(Rows) /\ n \in Nat
    BY <1>1, <1>2 DEF LTypeOK
  <2>2. [rows[id] EXCEPT !.status = "POSTED"] \in Rows
    BY <2>1 DEF Rows
  <2>3. rows' = [rows EXCEPT ![id] = [rows[id] EXCEPT !.status = "POSTED"]]
    BY <1>6
  <2>4. /\ rows' \in Seq(Rows) /\ Len(rows') = n
        /\ rows'[id] = [rows[id] EXCEPT !.status = "POSTED"]
        /\ \A k \in 1 .. n : k # id => rows'[k] = rows[k]
    BY <1>2, <2>1, <2>2, <2>3
  <2>5. rows'[id].op = rows[id].op /\ rows'[id].status = "POSTED"
    BY <2>1, <2>4 DEF Rows
  <2> QED
    BY <1>2, <2>1, <2>4, <2>5
<1>11. /\ queue' \in Seq(QueueEntries) /\ Len(queue') = Len(queue)
       /\ Len(queue) \in Nat
       /\ queue'[i].row = id /\ queue'[i].status = "SETTLED"
       /\ \A k \in 1 .. Len(queue) : k # i => queue'[k] = queue[k]
       /\ \A k \in 1 .. Len(queue) : queue'[k].row = queue[k].row
  <2>1. queue[i] \in QueueEntries /\ queue \in Seq(QueueEntries) /\ Len(queue) \in Nat
    BY <1>1, <1>2 DEF LTypeOK
  <2>2. [queue[i] EXCEPT !.status = "SETTLED"] \in QueueEntries
    BY <2>1 DEF QueueEntries
  <2>3. queue' = [queue EXCEPT ![i] = [queue[i] EXCEPT !.status = "SETTLED"]]
    BY <1>6
  <2>4. /\ queue' \in Seq(QueueEntries) /\ Len(queue') = Len(queue)
        /\ queue'[i] = [queue[i] EXCEPT !.status = "SETTLED"]
        /\ \A k \in 1 .. Len(queue) : k # i => queue'[k] = queue[k]
    BY <1>2, <2>1, <2>2, <2>3
  <2>5. queue'[i].row = id /\ queue'[i].status = "SETTLED"
    BY <2>1, <2>4 DEF QueueEntries
  <2> QED
    BY <1>2, <2>1, <2>4, <2>5
<1>12. Keeps(r)
  <2>1. Len(tokens) \in Nat
    BY <1>1 DEF LTypeOK
  <2>2. Touches(rows[id]) = Touches(job[r])
    BY <1>2 DEF Touches
  <2>3. \A a \in Accounts : balance'[a] # balance[a] => a \in Touches(job[r])
    BY <1>3, <1>9
  <2>4. ASSUME NEW k \in 1 .. n, rows'[k].status # rows[k].status
        PROVE  /\ Touches(rows[k]) = Touches(job[r])
               /\ \E l \in 1 .. Len(queue) : queue[l].row = k
    <3>1. k = id
      BY <1>10, <2>4
    <3> QED
      BY <1>2, <2>2, <3>1
  <2> QED
    <3>1. /\ Len(rows') \in Nat /\ Len(queue') \in Nat /\ Len(tokens') \in Nat
          /\ Len(rows) <= Len(rows') /\ Len(queue) <= Len(queue')
          /\ Len(tokens) <= Len(tokens')
      <4>1. tokens' = tokens
        BY <1>6
      <4> QED
        BY <1>10, <1>11, <2>1, <4>1
    <3>2. /\ \A t \in 1 .. Len(tokens) : tokens'[t] = tokens[t]
          /\ 1 .. Len(queue') \ 1 .. Len(queue) = {}
      BY <1>6, <1>11
    <3> HIDE DEF id, i, op, n
    <3>3. \A k \in 1 .. Len(rows) : rows'[k].op = rows[k].op
      BY <1>10 DEF n
    <3>4. \A k \in 1 .. Len(queue) : queue'[k].row = queue[k].row
      BY <1>11
    <3> QED
      BY <2>3, <2>4, <3>1, <3>2, <3>3, <3>4 DEF Keeps, n
<1>13. RequestOK(r)'
  BY <1>1, <1>8, <1>11, NextEntryOK
<1>14. QueuedOnce'
  <2>1. ASSUME NEW k \in 1 .. Len(queue)
        PROVE  queue'[k].row \in 1 .. n /\ rows'[queue'[k].row].op.offline
    BY <1>1, <1>10, <1>11 DEF QueuedOnce
  <2>2. \A k, l \in 1 .. Len(queue) : k # l => queue'[k].row # queue'[l].row
    BY <1>1, <1>11 DEF QueuedOnce
  <2>3. ASSUME NEW m \in 1 .. n, rows'[m].op.offline
        PROVE  rows'[m].status = "POSTED"
               <=> \E k \in 1 .. Len(queue) :
                      queue'[k].row = m /\ queue'[k].status = "SETTLED"
    <3>1. CASE m = id
      BY <1>2, <1>10, <1>11, <3>1
    <3>2. CASE m # id
      <4>1. \A k \in 1 .. Len(queue) : queue[k].row = m => k # i
        BY <3>2
      <4>2. (\E k \in 1 .. Len(queue) : queue'[k].row = m /\ queue'[k].status = "SETTLED")
            <=> (\E k \in 1 .. Len(queue) : queue[k].row = m /\ queue[k].status = "SETTLED")
        BY <1>11, <4>1
      <4> QED
        BY <1>1, <1>10, <2>3, <3>2, <4>2 DEF QueuedOnce
    <3> QED
      BY <3>1, <3>2
  <2> QED
    BY <1>10, <1>11, <2>1, <2>2, <2>3 DEF QueuedOnce
<1>15. KeyOnce'
  BY <1>10 DEF LInv, KeyOnce
<1>16. CashBacked'
  BY <1>6 DEF LInv, CashBacked
<1>17. DbType'
  BY <1>1, <1>6, <1>9, <1>10, <1>11 DEF DbType, LTypeOK
<1>18. ASSUME NEW a \in Accounts \ disturbed'
       PROVE  balance'[a] = Funds + Posted(a)' - Redeemed(a)' - OnTheWay(a)'
  <2>1. OnTheWay(a)' = OnTheWay(a) /\ OnTheWay(a) \in Int
    <3>1. Unrecorded(r) = {}
      BY <1>1 DEF Unrecorded
    <3>2. Unrecorded(r)' = {}
      BY <1>1, <1>8, <1>11, NextEntryOK
    <3> QED
      BY <1>1, <1>6, <1>7, <3>1, <3>2, OnTheWayKept, OnTheWayType
  <2>2. Redeemed(a)' = Redeemed(a) /\ Redeemed(a) \in Int
    BY <1>1, <1>6, RedeemedType DEF Redeemed
  <2>3. balance[a] = Funds + Posted(a) - Redeemed(a) - OnTheWay(a)
    BY <1>8 DEF LInv, BooksBalance
  <2>4. /\ Posted(a)' = Posted(a) - Credit(rows[id], a) + Credit(rows'[id], a)
        /\ Posted(a) \in Int /\ Credit(rows[id], a) \in Int
    <3>1. pc' \in [Requests -> Labels] /\ job' \in [Requests -> Jobs]
          /\ disturbed' \subseteq Accounts
      BY <1>1, <1>6, <1>7, GotoFacts
    <3>2. LTypeOK'
      BY <1>1, <1>6, <1>17, <3>1 DEF LTypeOK, DbType
    <3> QED
      BY <1>1, <1>2, <1>10, <3>2, PostedChanged, PostedType, CreditType
  <2>5. Credit(rows'[id], a) = IF op.to = a THEN op.amount
                               ELSE IF op.from = a THEN - op.amount ELSE 0
    BY <1>10 DEF Credit
  <2>6. CASE a \notin {op.from, op.to}
    <3>1. Credit(rows'[id], a) = 0
      BY <2>5, <2>6
    <3>2. Credit(rows[id], a) = 0
      BY <1>2, <2>6 DEF Credit
    <3>3. balance'[a] = balance[a]
      BY <1>9, <2>6
    <3> QED
      BY <2>1, <2>2, <2>3, <2>4, <3>1, <3>2, <3>3, LedgerAssumption
  <2>7. CASE a \in {op.from, op.to}
    <3>1. a \in Touches(job[r])
      BY <1>3, <2>7
    <3>2. rows[id].status = "PROVISIONAL"
      BY <1>2, <1>8, <3>1
    <3>3. Credit(rows[id], a) = 0
      BY <3>2 DEF Credit
    <3>4. CASE a = op.from
      <4>1. seen = balance[a]
        BY <1>1, <1>8, <3>4 DEF RequestOK, Current, HasRead
      <4>2. Credit(rows'[id], a) = - op.amount
        BY <1>4, <2>5, <3>4
      <4> HIDE DEF op, seen, id
      <4>3. balance'[a] = balance[a] - op.amount
        BY <1>9, <3>4, <4>1
      <4> QED
        BY <1>3, <1>5, <2>1, <2>2, <2>3, <2>4, <3>3, <4>1, <4>2, <4>3, LedgerAssumption
    <3>5. CASE a = op.to
      <4>1. op.kind = "transfer" /\ op.kind # "bill"
        BY <1>4, <3>5
      <4>2. seenTo = balance[a]
        BY <1>1, <1>8, <3>5, <4>1 DEF RequestOK, Current, HasReadTo
      <4>3. Credit(rows'[id], a) = op.amount
        BY <2>5, <3>5
      <4> HIDE DEF op, seenTo, id
      <4>4. balance'[a] = balance[a] + op.amount
        BY <1>9, <3>5, <4>1, <4>2
      <4> QED
        BY <1>3, <1>5, <2>1, <2>2, <2>3, <2>4, <3>3, <4>2, <4>3, <4>4, LedgerAssumption
    <3> QED
      BY <2>7, <3>4, <3>5
  <2> QED
    BY <2>6, <2>7
<1> QED
  BY <1>6, <1>7, <1>12, <1>13, <1>14, <1>15, <1>16, <1>17, <1>18, WriteKeeps

LEMMA TokenCreateKeeps ==
    ASSUME LInv, NEW r \in Requests, TokenCreate(r)
    PROVE  LInv'
<1> DEFINE n == Len(tokens)
           token == [op |-> job[r].op, status |-> "ACTIVE", due |-> FALSE]
<1>1. LTypeOK /\ pc[r] = "token_create" /\ n \in Nat /\ job[r].op \in Payouts
  BY DEF TokenCreate, LInv, LTypeOK, RequestOK, WorkOK
<1>2. /\ tokens' = Append(tokens, token)
      /\ UNCHANGED <<balance, rows, queue, cash>>
      /\ Goto(r, "idle", NoJob, {}) /\ aborts' = aborts
      /\ "idle" \in Labels /\ NoJob \in Jobs
  BY NoJobType DEF TokenCreate, Return, Go, Labels
<1>3. pc'[r] = "idle" /\ disturbed \subseteq disturbed'
  BY <1>1, <1>2, GotoFacts
<1>4. Unrecorded(r) = {}
  BY <1>1 DEF Unrecorded
<1>5. token \in Tokens /\ token.status = "ACTIVE"
  BY <1>1 DEF Tokens
<1> HIDE DEF token
<1>6. /\ tokens' \in Seq(Tokens) /\ Len(tokens') = n + 1 /\ tokens'[n + 1] = token
      /\ \A t \in 1 .. n : tokens'[t] = tokens[t]
  BY <1>1, <1>2, <1>5 DEF LTypeOK
<1>7. Keeps(r)
  <2>1. Len(rows) \in Nat /\ Len(queue) \in Nat
    BY <1>1 DEF LTypeOK
  <2> QED
    BY <1>1, <1>2, <1>6, <2>1 DEF Keeps
<1>8. QueuedOnce' /\ KeyOnce'
  BY <1>2 DEF LInv, QueuedOnce, KeyOnce
<1>9. CashBacked'
  <2>1. {t \in 1 .. n + 1 : tokens'[t].status = "REDEEMED"}
        = {t \in 1 .. n : tokens[t].status = "REDEEMED"}
    BY <1>1, <1>5, <1>6
  <2> QED
    BY <1>2, <1>6, <2>1 DEF LInv, CashBacked
<1>10. DbType'
  BY <1>1, <1>2, <1>6 DEF DbType, LTypeOK
<1>11. ASSUME NEW a \in Accounts \ disturbed'
       PROVE  balance'[a] = Funds + Posted(a)' - Redeemed(a)' - OnTheWay(a)'
  <2>1. OnTheWay(a)' = OnTheWay(a)
    BY <1>1, <1>2, <1>3, <1>4, ReturnOK, OnTheWayKept
  <2>2. Posted(a)' = Posted(a)
    BY <1>2 DEF Posted
  <2>3. Redeemed(a)' = Redeemed(a)
    BY <1>1, <1>2, <1>5, RedeemedAppended
  <2> QED
    BY <1>2, <1>3, <2>1, <2>2, <2>3 DEF LInv, BooksBalance
<1> QED
  BY <1>2, <1>3, <1>7, <1>8, <1>9, <1>10, <1>11, ReturnOK, WriteKeeps

\* A token is debited once, unless it was disturbed, and its cash handed out.
LEMMA RedeemCommitKeeps ==
    ASSUME LInv, NEW r \in Requests, RedeemCommit(r)
    PROVE  LInv'
<1> DEFINE op == job[r].op
           seen == job[r].seen
           id == job[r].id
           n == Len(tokens)
<1>1. LTypeOK /\ pc[r] = "redeem_commit" /\ RequestOK(r) /\ n \in Nat
  BY DEF RedeemCommit, LInv, LTypeOK
<1>2. /\ id \in 1 .. n /\ op = tokens[id].op
      /\ ~ Touches(job[r]) \subseteq disturbed => tokens[id].status # "REDEEMED"
  BY <1>1 DEF RequestOK, WorkOK, Current
<1>3. /\ op \in Ops /\ op.from \in Accounts /\ op.amount \in Nat
      /\ op.from \in Touches(job[r])
  BY <1>1, WorkingOn, OpFacts
<1>4. seen \in Nat /\ seen >= op.amount
  BY <1>1, JobFacts DEF RequestOK, Covered
<1>5. /\ balance' = Debited(op, seen)
      /\ tokens' = [tokens EXCEPT ![id].status = "REDEEMED"]
      /\ cash' = Append(cash, id)
      /\ UNCHANGED <<rows, queue>>
      /\ Goto(r, "idle", NoJob, {}) /\ aborts' = aborts
      /\ "idle" \in Labels /\ NoJob \in Jobs
  BY NoJobType DEF RedeemCommit, Return, Go, Labels
<1>6. pc'[r] = "idle" /\ disturbed \subseteq disturbed'
  BY <1>1, <1>5, GotoFacts
<1>7. /\ balance' \in [Accounts -> Nat]
      /\ balance'[op.from] = seen - op.amount
      /\ \A a \in Accounts \ {op.from} : balance'[a] = balance[a]
  <2> HIDE DEF op, seen
  <2>1. /\ Debited(op, seen) \in [Accounts -> Nat]
        /\ Debited(op, seen)[op.from] = seen - op.amount
        /\ \A a \in Accounts \ {op.from} : Debited(op, seen)[a] = balance[a]
    BY <1>1, <1>3, <1>4, MovedFacts
  <2>2. balance' = Debited(op, seen)
    BY <1>5
  <2> QED
    BY <2>1, <2>2
<1>8. /\ tokens' \in Seq(Tokens) /\ Len(tokens') = n
      /\ tokens'[id].op = op /\ tokens'[id].status = "REDEEMED"
      /\ \A t \in 1 .. n : t # id => tokens'[t] = tokens[t]
      /\ \A t \in 1 .. n : tokens'[t].op = tokens[t].op
  <2>1. tokens[id] \in Tokens /\ tokens \in Seq(Tokens)
    BY <1>1, <1>2 DEF LTypeOK
  <2>2. [tokens[id] EXCEPT !.status = "REDEEMED"] \in Tokens
    BY <2>1 DEF Tokens
  <2>3. tokens' = [tokens EXCEPT ![id] = [tokens[id] EXCEPT !.status = "REDEEMED"]]
    BY <1>5
  <2>4. /\ tokens' \in Seq(Tokens) /\ Len(tokens') = n
        /\ tokens'[id] = [tokens[id] EXCEPT !.status = "REDEEMED"]
        /\ \A t \in 1 .. n : t # id => tokens'[t] = tokens[t]
    BY <1>1, <1>2, <2>1, <2>2, <2>3
  <2>5. tokens'[id].op = tokens[id].op /\ tokens'[id].status = "REDEEMED"
    BY <2>1, <2>4 DEF Tokens
  <2> QED
    BY <1>2, <2>4, <2>5
<1>9. Keeps(r)
  <2>1. /\ Len(rows') \in Nat /\ Len(queue') \in Nat /\ Len(tokens') \in Nat
        /\ Len(rows) <= Len(rows') /\ Len(queue) <= Len(queue')
        /\ Len(tokens) <= Len(tokens') /\ rows' = rows /\ queue' = queue
    <3>1. Len(rows) \in Nat /\ Len(queue) \in Nat /\ rows' = rows /\ queue' = queue
      BY <1>1, <1>5 DEF LTypeOK
    <3> QED
      BY <1>1, <1>8, <3>1
  <2>2. ASSUME NEW t \in 1 .. n, tokens'[t].status # tokens[t].status
        PROVE  Touches(tokens[t]) = Touches(job[r])
    <3>1. t = id
      BY <1>8, <2>2
    <3> QED
      BY <1>2, <3>1 DEF Touches
  <2>3. \A a \in Accounts : balance'[a] # balance[a] => a \in Touches(job[r])
    BY <1>3, <1>7
  <2>4. ASSUME NEW t \in 1 .. n
        PROVE  /\ tokens'[t].op = tokens[t].op
               /\ tokens'[t].status = "REDEEMED" /\ tokens[t].status # "REDEEMED" =>
                     Touches(tokens[t]) = Touches(job[r])
    BY <1>8, <2>2
  <2> QED
    BY <2>1, <2>3, <2>4 DEF Keeps
<1>10. QueuedOnce' /\ KeyOnce'
  BY <1>5 DEF LInv, QueuedOnce, KeyOnce
<1>11. CashBacked'
  <2>1. {t \in 1 .. n : tokens'[t].status = "REDEEMED"}
        = {t \in 1 .. n : tokens[t].status = "REDEEMED"} \cup {id}
    BY <1>2, <1>8
  <2>2. /\ Len(cash) \in Nat /\ Len(cash') = Len(cash) + 1
        /\ cash'[Len(cash) + 1] = id
        /\ \A k \in 1 .. Len(cash) : cash'[k] = cash[k]
    BY <1>1, <1>5 DEF LTypeOK
  <2>3. {cash'[k] : k \in 1 .. Len(cash) + 1} = {cash[k] : k \in 1 .. Len(cash)} \cup {id}
    BY <2>2
  <2> QED
    BY <1>8, <2>1, <2>2, <2>3 DEF LInv, CashBacked
<1>12. DbType'
  <2>1. id \in Nat \ {0}
    BY <1>1, <1>2
  <2>2. cash' \in Seq(Nat \ {0})
    BY <1>1, <1>5, <2>1 DEF LTypeOK
  <2> QED
    BY <1>1, <1>5, <1>7, <1>8, <2>2 DEF DbType, LTypeOK
<1>13. ASSUME NEW a \in Accounts \ disturbed'
       PROVE  balance'[a] = Funds + Posted(a)' - Redeemed(a)' - OnTheWay(a)'
  <2>1. OnTheWay(a)' = OnTheWay(a) /\ OnTheWay(a) \in Int
    <3>1. Unrecorded(r) = {}
      BY <1>1 DEF Unrecorded
    <3> QED
      BY <1>1, <1>5, <1>6, <3>1, ReturnOK, OnTheWayKept, OnTheWayType
  <2>2. Posted(a)' = Posted(a) /\ Posted(a) \in Int
    BY <1>1, <1>5, PostedType DEF Posted
  <2>3. balance[a] = Funds + Posted(a) - Redeemed(a) - OnTheWay(a)
    BY <1>6 DEF LInv, BooksBalance
  <2>4. /\ Redeemed(a)' = Redeemed(a) - Payout(tokens[id], a) + Payout(tokens'[id], a)
        /\ Redeemed(a) \in Int
    <3>1. pc' \in [Requests -> Labels] /\ job' \in [Requests -> Jobs]
          /\ disturbed' \subseteq Accounts
      BY <1>1, <1>5, GotoFacts
    <3>2. LTypeOK'
      BY <1>1, <1>5, <1>12, <3>1 DEF LTypeOK, DbType
    <3> QED
      BY <1>1, <1>2, <1>8, <3>2, RedeemedChanged, RedeemedType
  <2>5. CASE a # op.from
    <3>1. Payout(tokens'[id], a) = 0 /\ Payout(tokens[id], a) = 0
      BY <1>2, <1>8, <2>5 DEF Payout
    <3>2. balance'[a] = balance[a]
      BY <1>7, <2>5
    <3> QED
      BY <2>1, <2>2, <2>3, <2>4, <3>1, <3>2, LedgerAssumption
  <2>6. CASE a = op.from
    <3>1. tokens[id].status # "REDEEMED"
      BY <1>2, <1>3, <1>6, <2>6
    <3>2. Payout(tokens'[id], a) = op.amount /\ Payout(tokens[id], a) = 0
      BY <1>8, <2>6, <3>1 DEF Payout
    <3>3. seen = balance[a]
      BY <1>1, <1>6, <2>6 DEF RequestOK, Current, HasRead
    <3> HIDE DEF op, seen, id
    <3>4. balance'[a] = balance[a] - op.amount
      BY <1>7, <2>6, <3>3
    <3> QED
      BY <1>3, <1>4, <2>1, <2>2, <2>3, <2>4, <3>2, <3>3, <3>4, LedgerAssumption
  <2> QED
    BY <2>5, <2>6
<1> QED
  BY <1>5, <1>6, <1>9, <1>10, <1>11, <1>12, <1>13, ReturnOK, WriteKeeps

\* Nobody moves; tokens grow old or expire, but none is redeemed or taken back.
LEMMA TokensAgeKeeps ==
    ASSUME LInv, UNCHANGED <<balance, rows, queue, cash, pc, job, disturbed, aborts>>,
           tokens' \in Seq(Tokens), Len(tokens') = Len(tokens),
           \A t \in 1 .. Len(tokens) :
              /\ tokens'[t].op = tokens[t].op
              /\ tokens'[t].status = "REDEEMED" <=> tokens[t].status = "REDEEMED"
    PROVE  LInv'
<1>1. LTypeOK'
  BY DEF LInv, LTypeOK
<1>2. QueuedOnce' /\ KeyOnce'
  BY DEF LInv, QueuedOnce, KeyOnce
<1>3. CashBacked'
  <2>1. {t \in 1 .. Len(tokens) : tokens'[t].status = "REDEEMED"}
        = {t \in 1 .. Len(tokens) : tokens[t].status = "REDEEMED"}
    OBVIOUS
  <2> QED
    BY <2>1 DEF LInv, CashBacked
<1>4. ASSUME NEW a \in Accounts \ disturbed'
      PROVE  balance'[a] = Funds + Posted(a)' - Redeemed(a)' - OnTheWay(a)'
  <2>1. Posted(a)' = Posted(a)
    BY DEF Posted
  <2>2. OnTheWay(a)' = OnTheWay(a)
    BY DEF OnTheWay, Late, Unrecorded
  <2>3. \A t \in 1 .. Len(tokens) : Payout(tokens'[t], a) = Payout(tokens[t], a)
    BY DEF Payout
  <2>4. Redeemed(a)' = Redeemed(a)
    BY <2>3, RedeemedKept DEF LInv
  <2> QED
    BY <2>1, <2>2, <2>4 DEF LInv, BooksBalance
<1>5. ASSUME NEW q \in Requests PROVE RequestOK(q)'
  <2>1. WorkOK(q) /\ Covered(q) /\ Current(q)
    BY DEF LInv, RequestOK
  <2>2. WorkOK(q)'
    BY <2>1 DEF WorkOK
  <2>3. Covered(q)'
    BY <2>1 DEF Covered
  <2>4. Current(q)'
    BY <2>1 DEF Current, WorkOK, Touches
  <2> QED
    BY <2>2, <2>3, <2>4 DEF RequestOK
<1>6. ASSUME NEW p \in Requests, NEW q \in Requests PROVE PairOK(p, q)'
  BY DEF LInv, PairOK, Touches
<1> QED
  BY <1>1, <1>2, <1>3, <1>4, <1>5, <1>6 DEF LInv, BooksBalance

LEMMA TokenDueKeeps ==
    ASSUME LInv, NEW t \in 1 .. Len(tokens), TokenDue(t)
    PROVE  LInv'
<1>1. tokens[t] \in Tokens /\ tokens \in Seq(Tokens)
  BY DEF LInv, LTypeOK
<1> DEFINE token == [tokens[t] EXCEPT !.due = TRUE]
<1>2. token \in Tokens /\ token.op = tokens[t].op /\ token.status = tokens[t].status
  BY <1>1 DEF Tokens
<1>3. tokens' = [tokens EXCEPT ![t] = token]
  BY DEF TokenDue
<1> HIDE DEF token
<1>4. /\ tokens' \in Seq(Tokens) /\ Len(tokens') = Len(tokens)
      /\ \A u \in 1 .. Len(tokens) :
            tokens'[u].op = tokens[u].op /\ tokens'[u].status = tokens[u].status
  BY <1>1, <1>2, <1>3
<1> QED
  BY <1>4, TokensAgeKeeps DEF TokenDue

LEMMA SweepKeeps ==
    ASSUME LInv, SweepExpiredTokens
    PROVE  LInv'
<1>1. tokens \in Seq(Tokens) /\ Len(tokens) \in Nat
      /\ tokens' = [t \in 1 .. Len(tokens) |-> Swept(tokens[t])]
  BY DEF LInv, LTypeOK, SweepExpiredTokens
<1>2. ASSUME NEW token \in Tokens
      PROVE  /\ Swept(token) \in Tokens /\ Swept(token).op = token.op
             /\ Swept(token).status = "REDEEMED" <=> token.status = "REDEEMED"
  BY DEF Swept, Tokens
<1>3. \A t \in 1 .. Len(tokens) : tokens[t] \in Tokens
  BY <1>1
<1>4. tokens' \in Seq(Tokens) /\ Len(tokens') = Len(tokens)
  BY <1>1, <1>2, <1>3
<1>5. \A t \in 1 .. Len(tokens) :
        /\ tokens'[t].op = tokens[t].op
        /\ tokens'[t].status = "REDEEMED" <=> tokens[t].status = "REDEEMED"
  BY <1>1, <1>2, <1>3
<1> QED
  BY <1>4, <1>5, TokensAgeKeeps DEF SweepExpiredTokens

-----------------------------------------------------------------------------
(* The theorems.                                                           *)

LEMMA LInvInit == LInit => LInv
<1> SUFFICES ASSUME LInit PROVE LInv
  OBVIOUS
<1>1. \A r \in Requests : pc[r] = "idle" /\ job[r] = NoJob
  BY DEF LInit
<1>2. LTypeOK
  BY NoJobType, LedgerAssumption DEF LInit, LTypeOK, Labels
<1>3. QueuedOnce /\ KeyOnce /\ CashBacked
  BY DEF LInit, QueuedOnce, KeyOnce, CashBacked
<1>4. \A r \in Requests : RequestOK(r)
  BY <1>1 DEF RequestOK, WorkOK, Covered, Current, Settling, HasRead, HasReadTo
<1>5. \A q, r \in Requests : PairOK(q, r)
  BY <1>1, TouchesNothing DEF PairOK
<1>6. ASSUME NEW a \in Accounts
      PROVE  balance[a] = Funds + Posted(a) - Redeemed(a) - OnTheWay(a)
  <2>1. Posted(a) = 0 /\ Redeemed(a) = 0
    BY SumOfNone DEF LInit, Posted, Redeemed
  <2>2. OnTheWay(a) = 0
    BY <1>1, NothingOnTheWay DEF Unrecorded
  <2>3. balance[a] = Funds
    BY DEF LInit
  <2> QED
    BY <2>1, <2>2, <2>3, LedgerAssumption
<1> QED
  BY <1>2, <1>3, <1>4, <1>5, <1>6 DEF LInv, BooksBalance

LEMMA LInvStutter ==
    ASSUME LInv, UNCHANGED vars
    PROVE  LInv'
<1>1. UNCHANGED <<balance, rows, queue, tokens, cash, pc, job, disturbed, aborts>>
  BY DEF vars, db
<1>2. tokens \in Seq(Tokens)
  BY DEF LInv, LTypeOK
<1> QED
  BY <1>1, <1>2, TokensAgeKeeps

LEMMA LInvNext == LInv /\ [LNext]_vars => LInv'
<1> SUFFICES ASSUME LInv, [LNext]_vars PROVE LInv'
  OBVIOUS
<1>1. ASSUME NEW r \in Requests, Start(r) PROVE LInv'
  BY <1>1, TransferBeginKeeps, BillReadKeeps, AuthorizeReadKeeps, RedeemReadKeeps,
     SettleReadKeeps DEF Start
<1>2. ASSUME NEW r \in Requests, Continue(r) PROVE LInv'
  <2>1. CASE TransferCredit(r) \/ TransferCommit(r) \/ Enqueue(r)
    BY <2>1, TransferCreditKeeps, TransferCommitKeeps, EnqueueKeeps
  <2>2. CASE BillKey(r) \/ BillDebit(r) \/ BillCreate(r)
    BY <2>2, BillKeyKeeps, BillDebitKeeps, BillCreateKeeps
  <2>3. CASE SettleRow(r) \/ SettleDebit(r) \/ SettleCredit(r) \/ SettleCommit(r)
    BY <2>3, SettleRowKeeps, SettleDebitKeeps, SettleCreditKeeps, SettleCommitKeeps
  <2>4. CASE TokenCreate(r) \/ RedeemBalance(r) \/ RedeemCommit(r)
    BY <2>4, TokenCreateKeeps, RedeemBalanceKeeps, RedeemCommitKeeps
  <2> QED
    BY <1>2, <2>1, <2>2, <2>3, <2>4 DEF Continue
<1>3. ASSUME NEW r \in Requests, SettleThrows(r) \/ Abort(r) PROVE LInv'
  BY <1>3, SettleThrowsKeeps, AbortKeeps
<1>4. ASSUME NEW t \in 1 .. Len(tokens), TokenDue(t) PROVE LInv'
  BY <1>4, TokenDueKeeps
<1>5. CASE SweepExpiredTokens
  BY <1>5, SweepKeeps
<1>6. CASE UNCHANGED vars
  BY <1>6, LInvStutter
<1> QED
  BY <1>1, <1>2, <1>3, <1>4, <1>5, <1>6 DEF LNext

LEMMA LInvAlways == LSpec => []LInv
BY LInvInit, LInvNext, PTL DEF LSpec

\* A row that is queued once has at most one entry.
LEMMA QueuedOnceHonest == LInv => QueueHonest
<1> SUFFICES ASSUME LInv PROVE QueueHonest
  OBVIOUS
<1>1. QueuedOnce
  BY DEF LInv
<1>2. ASSUME NEW i \in 1 .. Len(rows)
      PROVE  Cardinality(Entries(i)) <= 1
  <2>1. CASE Entries(i) = {}
    BY <2>1, FS_EmptySet
  <2>2. CASE Entries(i) # {}
    <3>1. PICK k : k \in Entries(i)
      BY <2>2
    <3>2. \A l \in Entries(i) : l = k
      BY <1>1, <3>1 DEF Entries, QueuedOnce
    <3>3. Entries(i) = {k}
      BY <3>1, <3>2
    <3>4. Cardinality({k}) = 1
      BY FS_Singleton, Zenon
    <3> QED
      BY <3>3, <3>4
  <2> QED
    BY <2>1, <2>2
<1>3. ASSUME NEW i \in 1 .. Len(rows), rows[i].op.offline
      PROVE  rows[i].status = "POSTED"
             <=> \E k \in Entries(i) : queue[k].status = "SETTLED"
  BY <1>1, <1>3 DEF Entries, QueuedOnce
<1> QED
  BY <1>1, <1>2, <1>3 DEF QueueHonest, QueuedOnce

\* Balances stay natural numbers, whatever overlaps, though each is written as
\* what was read less an amount; rows, entries and tokens keep their form.
THEOREM LedgerTypeCorrect == LSpec => []LTypeOK
<1>1. LInv => LTypeOK
  BY DEF LInv
<1> QED
  BY <1>1, LInvAlways, PTL

\* An account no two requests worked on at once holds what it was opened with
\* and what rows, redeemed tokens and the bill on its way say was moved since.
THEOREM LedgerBooksBalance == LSpec => []BooksBalance
<1>1. LInv => BooksBalance
  BY DEF LInv
<1> QED
  BY <1>1, LInvAlways, PTL

\* The queue holds offline rows, each once, and a row is posted exactly when
\* its entry is settled, whatever heartbeats settle at once.
THEOREM LedgerQueueHonest == LSpec => []QueueHonest
BY QueuedOnceHonest, LInvAlways, PTL

\* One key makes one transfer and one bill payment at most.
THEOREM LedgerKeyOnce == LSpec => []KeyOnce
<1>1. LInv => KeyOnce
  BY DEF LInv
<1> QED
  BY <1>1, LInvAlways, PTL

\* Cash is handed out for the tokens that are redeemed and for no others.
THEOREM LedgerCashBacked == LSpec => []CashBacked
<1>1. LInv => CashBacked
  BY DEF LInv
<1> QED
  BY <1>1, LInvAlways, PTL

=============================================================================
