---------------------------- MODULE SalesBalance ----------------------------
(***************************************************************************)
(* The commission balance of one sales agent (store_billing/               *)
(* sales_store.rs; the accrual of callbacks.rs and the reversal of         *)
(* recovery.rs).                                                           *)
(*                                                                         *)
(* The other models of the Store take a write transaction as one step.     *)
(* This one takes a step per statement, because the balance is read by a   *)
(* plain SELECT and written back as an absolute value.  begin_write holds  *)
(* a lock of the process for SQLite, which admits one open transaction;    *)
(* for PostgreSQL transactions run side by side at READ COMMITTED: a read  *)
(* sees what is committed, and an UPDATE or a unique INSERT waits for the  *)
(* transaction that holds the row.  The variables are what is committed,   *)
(* except tx, which holds what a transaction has read and will write.      *)
(***************************************************************************)
EXTENDS Integers, FiniteSets, FiniteSetsExt

CONSTANTS Sale,       \* orders that may earn the agent a commission
          Withdrawal, \* withdrawal ids
          Request,    \* requests that may run at the same time
          Fee,        \* commissions an order may earn
          Amount,     \* amounts an agent may ask for
          Sqlite      \* whether the database is SQLite

ASSUME SalesConstants ==
  /\ IsFiniteSet(Sale) /\ IsFiniteSet(Withdrawal)
  /\ Fee \subseteq Nat \ {0} /\ Amount \subseteq Nat \ {0}
  /\ Sqlite \in BOOLEAN

VARIABLES
  order,      \* payment and fulfilment of a sale's order
  entry,      \* its row of sales_commission_entries
  withdrawal, \* rows of sales_withdrawals
  available,  \* sales_agents.commission_balance_fen
  tx          \* the open transaction of a request

salesVars == <<order, entry, withdrawal, available, tx>>

Row == Sale \cup Withdrawal

NoTx == [op |-> "none", at |-> "none", sum |-> 0, seen |-> 0, hit |-> FALSE]

(* SalesTypeOK: the committed rows, and what a transaction remembers: its  *)
(* kind, how far it is, its row, its amount, the balance it read, and      *)
(* whether its UPDATE or INSERT reached the row.                           *)
SalesTypeOK ==
  /\ order \in [Sale -> {"paid", "fulfilled", "refund_pending", "refunded"}]
  /\ entry \in [Sale -> [st : {"none", "credited", "reversed"}, fee : Fee \cup {0}]]
  /\ withdrawal \in [Withdrawal ->
       [st : {"none", "requested", "paid", "rejected", "cancelled"},
        sum : Amount \cup {0}]]
  /\ available \in Int
  /\ \A r \in Request :
       tx[r] = NoTx
         \/ /\ tx[r].op \in {"accrue", "claim", "reverse", "request",
                             "paid", "rejected", "cancelled"}
            /\ tx[r].at \in {"begun", "marked", "read"}
            /\ tx[r].row \in Row /\ tx[r].sum \in Fee \cup Amount
            /\ tx[r].seen \in Int /\ tx[r].hit \in BOOLEAN

SalesInit ==
  /\ order = [s \in Sale |-> "paid"]
  /\ entry = [s \in Sale |-> [st |-> "none", fee |-> 0]]
  /\ withdrawal = [w \in Withdrawal |-> [st |-> "none", sum |-> 0]]
  /\ available = 0
  /\ tx = [r \in Request |-> NoTx]

-----------------------------------------------------------------------------
(* Transactions.                                                           *)

Open(r) == tx[r] # NoTx

(* The write lock of SQLite.                                               *)
CanWrite == Sqlite => \A r \in Request : ~Open(r)

Begin(r, op, row, sum) ==
  /\ ~Open(r) /\ CanWrite
  /\ tx' = [tx EXCEPT ![r] = [op |-> op, at |-> "begun", row |-> row,
                              sum |-> sum, seen |-> 0, hit |-> FALSE]]
  /\ UNCHANGED <<order, entry, withdrawal, available>>

(* The transactions that hold the order row, and those that hold the row   *)
(* they updated or inserted.                                               *)
OrderLocked(s) ==
  \E r \in Request : Open(r) /\ tx[r].op \in {"accrue", "reverse"} /\ tx[r].row = s

RowLocked(row, r) ==
  \E q \in Request \ {r} : Open(q) /\ tx[q].hit /\ tx[q].row = row

-----------------------------------------------------------------------------
(* Fulfilment with a sales code locks the order, reads the agent with its  *)
(* balance and inserts the entry; without a code it leaves the agent       *)
(* alone, and the order can be claimed.                                    *)
AccrueSalesCommission(r, s, f) ==
  /\ order[s] = "paid" /\ ~OrderLocked(s) /\ entry[s].st = "none"
  /\ ~Open(r) /\ CanWrite
  /\ tx' = [tx EXCEPT ![r] = [op |-> "accrue", at |-> "read", row |-> s,
                              sum |-> f, seen |-> available, hit |-> TRUE]]
  /\ UNCHANGED <<order, entry, withdrawal, available>>

FulfillUncoded(s) ==
  /\ order[s] = "paid" /\ ~OrderLocked(s)
  /\ CanWrite
  /\ order' = [order EXCEPT ![s] = "fulfilled"]
  /\ UNCHANGED <<entry, withdrawal, available, tx>>

(* claim_order_inner reads the order without a lock.                       *)
ClaimOrder(r, s, f) ==
  /\ order[s] = "fulfilled" /\ entry[s].st = "none"
  /\ Begin(r, "claim", s, f)

BeginRefund(s) ==
  /\ order[s] = "fulfilled"
  /\ CanWrite
  /\ order' = [order EXCEPT ![s] = "refund_pending"]
  /\ UNCHANGED <<entry, withdrawal, available, tx>>

(* complete_refund_in locks the order and reverses the entry it finds.     *)
ReverseCommission(r, s) ==
  /\ order[s] = "refund_pending" /\ ~OrderLocked(s) /\ entry[s].st = "credited"
  /\ Begin(r, "reverse", s, entry[s].fee)

RefundUncredited(s) ==
  /\ order[s] = "refund_pending" /\ ~OrderLocked(s) /\ entry[s].st # "credited"
  /\ CanWrite
  /\ order' = [order EXCEPT ![s] = "refunded"]
  /\ UNCHANGED <<entry, withdrawal, available, tx>>

RequestWithdrawal(r, w, a) ==
  /\ withdrawal[w].st = "none" /\ \A q \in Request : Open(q) => tx[q].row # w
  /\ \A v \in Withdrawal : withdrawal[v].st # "requested"
  /\ Begin(r, "request", w, a)

(* An Admin decides and an agent cancels a withdrawal it read as pending.  *)
DecideWithdrawal(r, w, to) ==
  /\ withdrawal[w].st = "requested"
  /\ Begin(r, to, w, withdrawal[w].sum)

-----------------------------------------------------------------------------
(* The UPDATE of a withdrawal or an entry, guarded by its old state: hit   *)
(* is its rows_affected.  Only the reversal looks at it.                   *)
MarkRow(r) ==
  LET t == tx[r]
      hit == IF t.op = "reverse" THEN entry[t.row].st = "credited"
             ELSE withdrawal[t.row].st = "requested"
  IN  /\ Open(r) /\ t.at = "begun"
      /\ t.op \in {"reverse", "paid", "rejected", "cancelled"}
      /\ ~RowLocked(t.row, r)
      /\ tx' = [tx EXCEPT ![r].at = "marked", ![r].hit = hit]
      /\ UNCHANGED <<order, entry, withdrawal, available>>

(* The INSERT of a claimed entry, under the unique index of the order.     *)
InsertEntry(r) ==
  LET t == tx[r]
  IN  /\ Open(r) /\ t.at = "begun" /\ t.op = "claim"
      /\ ~RowLocked(t.row, r) /\ entry[t.row].st = "none"
      /\ tx' = [tx EXCEPT ![r].at = "marked", ![r].hit = TRUE]
      /\ UNCHANGED <<order, entry, withdrawal, available>>

(* The balance is read.  A request must not be larger than it; a reversal  *)
(* that changed no row leaves the balance alone, and so does a payout.     *)
ReadAgent(r) ==
  LET t == tx[r]
  IN  /\ Open(r)
      /\ t.at = IF t.op = "request" THEN "begun" ELSE "marked"
      /\ t.op # "paid" /\ (t.op = "reverse" => t.hit)
      /\ t.op = "request" => t.sum <= available
      /\ tx' = [tx EXCEPT ![r].at = "read", ![r].seen = available]
      /\ UNCHANGED <<order, entry, withdrawal, available>>

(* Fault: a balance is never written below zero.                           *)
ClampedBalance(t) ==
  LET b == IF t.op \in {"reverse", "request"} THEN t.seen - t.sum ELSE t.seen + t.sum
  IN  IF b < 0 THEN 0 ELSE b

(* What set_agent_balance writes.                                          *)
NewBalance(t) ==
  IF t.op \in {"reverse", "request"} THEN t.seen - t.sum ELSE t.seen + t.sum

(* The UPDATE of the balance, which sets an absolute value once no other   *)
(* transaction holds the agent's row, and the commit.                      *)
Commit(r) ==
  LET t == tx[r]
  IN  /\ Open(r)
      /\ \/ t.at = "read"
         \/ t.at = "marked" /\ (t.op = "reverse" => ~t.hit) /\ t.op \in {"paid", "reverse"}
      /\ available' = IF t.at = "read" THEN NewBalance(t) ELSE available
      /\ entry' = CASE t.op \in {"accrue", "claim"} ->
                         [entry EXCEPT ![t.row] = [st |-> "credited", fee |-> t.sum]]
                    [] t.op = "reverse" /\ t.hit -> [entry EXCEPT ![t.row].st = "reversed"]
                    [] OTHER -> entry
      /\ withdrawal' = CASE t.op = "request" ->
                              [withdrawal EXCEPT ![t.row] = [st |-> "requested", sum |-> t.sum]]
                         [] t.op \in {"paid", "rejected", "cancelled"} /\ t.hit ->
                              [withdrawal EXCEPT ![t.row].st = t.op]
                         [] OTHER -> withdrawal
      /\ order' = CASE t.op = "accrue" -> [order EXCEPT ![t.row] = "fulfilled"]
                    [] t.op = "reverse" -> [order EXCEPT ![t.row] = "refunded"]
                    [] OTHER -> order
      /\ tx' = [tx EXCEPT ![r] = NoTx]

(* An error, a unique conflict or a process that stops.                    *)
Rollback(r) ==
  /\ Open(r)
  /\ tx' = [tx EXCEPT ![r] = NoTx]
  /\ UNCHANGED <<order, entry, withdrawal, available>>

SalesNext ==
  \/ \E r \in Request :
       \/ \E s \in Sale, f \in Fee :
            AccrueSalesCommission(r, s, f) \/ ClaimOrder(r, s, f)
       \/ \E s \in Sale : ReverseCommission(r, s)
       \/ \E w \in Withdrawal, a \in Amount : RequestWithdrawal(r, w, a)
       \/ \E w \in Withdrawal, to \in {"paid", "rejected", "cancelled"} :
            DecideWithdrawal(r, w, to)
       \/ MarkRow(r) \/ InsertEntry(r) \/ ReadAgent(r) \/ Commit(r) \/ Rollback(r)
  \/ \E s \in Sale : FulfillUncoded(s) \/ BeginRefund(s) \/ RefundUncredited(s)

SalesSpec == SalesInit /\ [][SalesNext]_salesVars

-----------------------------------------------------------------------------
(* The four figures of SalesSettlement.                                    *)
FenOver(S, f) == MapThenSumSet(LAMBDA x : f[x], S)

AccruedMinor ==
  FenOver(Sale, [s \in Sale |-> IF entry[s].st = "credited" THEN entry[s].fee ELSE 0])

WithdrawalsIn(st) ==
  FenOver(Withdrawal,
          [w \in Withdrawal |-> IF withdrawal[w].st = st THEN withdrawal[w].sum ELSE 0])

(* What an agent has earned is available, asked for or paid out, whatever  *)
(* accruals, claims, reversals and decisions came before: no commission is *)
(* lost and none is paid twice (SC-6.9a, and the comment of                *)
(* SalesSettlement).                                                       *)
SettlementAddsUp ==
  AccruedMinor = available + WithdrawalsIn("requested") + WithdrawalsIn("paid")
=============================================================================
