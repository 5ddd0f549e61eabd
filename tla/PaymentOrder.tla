---------------------------- MODULE PaymentOrder ----------------------------
(***************************************************************************)
(* The payment half of the Store: orders, payment attempts, verified       *)
(* provider events, their projection onto the order, and fulfilment        *)
(* (store_billing/order.rs, checkout.rs, webhooks.rs, callbacks.rs,        *)
(* operations.rs and the payment queries of reconciliation.rs).            *)
(*                                                                         *)
(* Every begin_write ... commit section is one action: SQLite serialises   *)
(* writers with one mutex, PostgreSQL locks the order row with FOR UPDATE. *)
(* Whatever a request still has to do after a commit is a record in calls; *)
(* a crash of the process forgets all of them.                             *)
(***************************************************************************)
EXTENDS Integers, FiniteSets, FiniteSetsExt

CONSTANTS Order, Attempt, Event, Digest, User,
          OrderOf,        \* the order an attempt belongs to
          UserOf,         \* the buyer of an order
          Adapter,        \* adapter kind of the order's payment Channel
          Kind,           \* product kind of an order
          Reward,         \* nano USD a balance order credits
          LegacyClosed,   \* closed orders of payment contract version 1
          Cny,            \* orders paid in CNY
          Coded,          \* orders with the code of an existing sales agent
          EventAttempt,   \* the attempt the provider event is about
          EventKind,      \* signed callback, or event built from a query
          EventContract,  \* amount, currency, merchant and number all agree
          OpenOrderLimit, \* OPEN_ORDER_LIMIT
          MaxCalls,       \* bound: requests in flight at once
          MaxCrashes,     \* bound: process restarts
          MaxSpend        \* bound: API usage charged to a user

ASSUME PaymentConstants ==
  /\ IsFiniteSet(Order) /\ Digest # {}
  /\ OrderOf \in [Attempt -> Order]
  /\ UserOf \in [Order -> User]
  /\ Adapter \in [Order -> {"stripe", "epay"}]
  /\ Kind \in [Order -> {"balance", "plan"}]
  /\ Reward \in [Order -> Nat \ {0}]
  /\ LegacyClosed \subseteq Order
  /\ Cny \subseteq Order /\ Coded \subseteq Order
  /\ EventAttempt \in [Event -> Attempt]
  /\ EventKind \in [Event -> {"callback", "query"}]
  /\ EventContract \in [Event -> BOOLEAN]
  /\ OpenOrderLimit \in Nat /\ MaxCalls \in Nat
  /\ MaxCrashes \in Nat /\ MaxSpend \in Nat

VARIABLES
  pay,      \* store_orders.payment_state
  ful,      \* store_orders.fulfillment_state
  hold,     \* store_orders.payment_hold
  userHold, \* store_balance_holds.active of a user
  lapsed,   \* orders whose expires_at has passed
  att,      \* store_payment_attempts.state with its failure_kind
  obj,      \* attempts with a stored provider_object_id
  overdue,  \* attempts whose provider_expires_at has passed
  prov,     \* the provider's own view of the checkout of an attempt
  ev,       \* store_provider_events: projection state and body digest
  conflict, \* events with an open provider_event_identity_conflict case
  ledger,   \* billing_ledger rows of an order by kind; 0 when absent
  balance,  \* users.balance_nano_usd
  spent,    \* API usage charged to a user so far
  ent,      \* plan entitlement generation sourced from an order
  comm,     \* origin of the order's sales_commission_entries row
  calls,    \* continuations of requests that have already committed
  crashes   \* restarts so far

orderVars   == <<pay, ful, hold, userHold, lapsed>>
attemptVars == <<att, obj, overdue, prov>>
eventVars   == <<ev, conflict>>
moneyVars   == <<ledger, balance, spent, ent, comm>>
payVars     == <<orderVars, attemptVars, eventVars, moneyVars, calls, crashes>>

AttemptStates ==
  {"none", "created", "presented", "failed_configuration",
   "failed_rejected", "expired", "paid"}

LedgerKinds == {"fulfillment", "reserve", "release", "loss"}

Lifecycle == INSTANCE OrderLifecycle

(* The event built from a query answer is deterministic, body included.    *)
QueryDigest == CHOOSE d \in Digest : TRUE

CheckoutCall(op, a)     == [op |-> op, att |-> a]
CallbackCall(e, d, a)   == [op |-> "callback", ev |-> e, digest |-> d, att |-> a]
QueryCall(op, e, a)     ==
  [op |-> op, ev |-> e, digest |-> QueryDigest, att |-> a,
   held |-> hold[OrderOf[a]]]
AnswerCall(op, a)       == [op |-> op, att |-> a]
FulfillCall(o)          == [op |-> "fulfill", ord |-> o]

Call ==
  [op : {"checkout", "resume", "close", "expire", "release"}, att : Attempt]
    \cup [op : {"callback"}, ev : Event, digest : Digest, att : Attempt]
    \cup [op : {"project", "reconcile"},
          ev : Event, digest : Digest, att : Attempt, held : BOOLEAN]
    \cup [op : {"fulfill"}, ord : Order]

(* TypeOK: every row and every continuation has the shape its table or     *)
(* handler gives it.                                                       *)
TypeOK ==
  /\ pay \in [Order -> Lifecycle!PaymentStates]
  /\ ful \in [Order -> {"pending", "fulfilled"}]
  /\ hold \in [Order -> BOOLEAN]
  /\ userHold \in [User -> BOOLEAN]
  /\ lapsed \subseteq Order
  /\ att \in [Attempt -> AttemptStates]
  /\ obj \subseteq Attempt
  /\ overdue \subseteq Attempt
  /\ prov \in [Attempt -> {"none", "open", "paid", "closed"}]
  /\ ev \in [Event -> [st : {"none", "manual_review", "applied"},
                       digest : Digest]]
  /\ conflict \subseteq Event
  /\ ledger \in [Order -> [LedgerKinds -> Int]]
  /\ balance \in [User -> Int]
  /\ spent \in [User -> Nat]
  /\ ent \in [Order -> {"none", "active", "suspended", "revoked"}]
  /\ comm \in [Order -> {"none", "code", "claim", "reversed"}]
  /\ calls \subseteq Call
  /\ crashes \in Nat

Init ==
  /\ Lifecycle!Init
  /\ hold = [o \in Order |-> FALSE]
  /\ userHold = [u \in User |-> FALSE]
  /\ lapsed = LegacyClosed
  /\ att = [a \in Attempt |->
              IF OrderOf[a] \in LegacyClosed THEN "expired" ELSE "none"]
  /\ obj = {a \in Attempt : OrderOf[a] \in LegacyClosed}
  /\ overdue = obj
  /\ prov = [a \in Attempt |->
               IF OrderOf[a] \in LegacyClosed THEN "open" ELSE "none"]
  /\ ev \in [Event -> [st : {"none"}, digest : {QueryDigest}]]
  /\ conflict = {}
  /\ ledger = [o \in Order |-> [k \in LedgerKinds |-> 0]]
  /\ balance = [u \in User |-> 0]
  /\ spent = [u \in User |-> 0]
  /\ ent = [o \in Order |-> "none"]
  /\ comm = [o \in Order |-> "none"]
  /\ calls = {}
  /\ crashes = 0

-----------------------------------------------------------------------------
AttemptsOf(o) == {a \in Attempt : OrderOf[a] = o}

Room == Cardinality(calls) < MaxCalls

(* EPay numbers a trade by the order, Stripe by the checkout session.      *)
Trades(a) == IF Adapter[OrderOf[a]] = "epay" THEN AttemptsOf(OrderOf[a]) ELSE {a}

ProviderState(a) ==
  LET seen == {prov[b] : b \in Trades(a)}
  IN  CASE "paid" \in seen -> "paid"
        [] "paid" \notin seen /\ "open" \in seen -> "open"
        [] seen \cap {"paid", "open"} = {} /\ "closed" \in seen -> "closed"
        [] OTHER -> "none"

(* An EPay attempt whose checkout answer was lost may still be paid.       *)
Unanswered(a) == att[a] \in {"created", "failed_rejected"}

(* The attempts a verified EPay callback may be about.                     *)
Candidates(o) == {a \in AttemptsOf(o) : a \in obj \/ Unanswered(a)}

-----------------------------------------------------------------------------
(* Orders and checkout.                                                    *)

OpenOrders(u) ==
  {o \in Order : UserOf[o] = u /\ pay[o] = "unpaid" /\ o \notin lapsed}

CreateOrder(o) ==
  /\ pay[o] = "none"
  /\ ~userHold[UserOf[o]]
  /\ Cardinality(OpenOrders(UserOf[o])) < OpenOrderLimit
  /\ pay' = [pay EXCEPT ![o] = "unpaid"]
  /\ UNCHANGED <<ful, hold, userHold, lapsed, attemptVars, eventVars,
                 moneyVars, calls, crashes>>

(* Fault: an attempt is created next to an EPay one whose rejection nobody  *)
(* can be sure of.                                                         *)
NoRivalAttempted(o) == \A b \in AttemptsOf(o) : att[b] \notin {"created", "presented"}

NoRival(o) ==
  \A b \in AttemptsOf(o) :
    /\ att[b] \notin {"created", "presented"}
    /\ Adapter[o] = "epay" => att[b] # "failed_rejected"

CreateAttempt(a) ==
  LET o == OrderOf[a]
  IN  /\ att[a] = "none"
      /\ pay[o] = "unpaid" /\ o \notin lapsed
      /\ NoRival(o)
      /\ Room
      /\ att' = [att EXCEPT ![a] = "created"]
      /\ calls' = calls \cup {CheckoutCall("checkout", a)}
      /\ UNCHANGED <<orderVars, obj, overdue, prov, eventVars, moneyVars, crashes>>

(* Repeating the key of a created Stripe attempt repeats the provider call *)
(* under the same provider idempotency key; the order is not looked at.    *)
ResumeCheckout(a) ==
  /\ att[a] = "created" /\ Adapter[OrderOf[a]] = "stripe"
  /\ Room
  /\ calls' = calls \cup {CheckoutCall("resume", a)}
  /\ UNCHANGED <<orderVars, attemptVars, eventVars, moneyVars, crashes>>

PresentAttempt(op, a) ==
  /\ CheckoutCall(op, a) \in calls /\ prov[a] # "none"
  /\ calls' = calls \ {CheckoutCall(op, a)}
  /\ IF att[a] = "created" /\ pay[OrderOf[a]] = "unpaid"
     THEN att' = [att EXCEPT ![a] = "presented"] /\ obj' = obj \cup {a}
     ELSE UNCHANGED <<att, obj>>
  /\ UNCHANGED <<orderVars, overdue, prov, eventVars, moneyVars, crashes>>

(* Any recognised 4xx answer counts as a rejection, also the one Stripe    *)
(* gives while the same idempotency key is in progress.  An EPay success   *)
(* that cannot be read counts as a missing configuration.  A repeated call *)
(* that finds no usable configuration leaves the attempt alone.            *)
FailAttempt(op, a, failure) ==
  /\ CheckoutCall(op, a) \in calls
  /\ failure = "failed_configuration" =>
       op = "checkout" /\ (prov[a] = "none" \/ Adapter[OrderOf[a]] = "epay")
  /\ calls' = calls \ {CheckoutCall(op, a)}
  /\ att' = IF att[a] = "created" THEN [att EXCEPT ![a] = failure] ELSE att
  /\ UNCHANGED <<orderVars, obj, overdue, prov, eventVars, moneyVars, crashes>>

(* A transport error leaves the attempt created: nobody knows the outcome. *)
LoseCheckout(op, a) ==
  /\ CheckoutCall(op, a) \in calls
  /\ calls' = calls \ {CheckoutCall(op, a)}
  /\ UNCHANGED <<orderVars, attemptVars, eventVars, moneyVars, crashes>>

-----------------------------------------------------------------------------
(* Verified evidence.                                                      *)

(* Fault: a closed order of contract version 1 can be paid late, too.      *)
CanApplyToLegacy(o) == pay[o] \in {"unpaid", "paid", "closed"}

CanApply(o) ==
  pay[o] \in {"unpaid", "paid"} \/ (pay[o] = "closed" /\ o \notin LegacyClosed)

ObjectMatches(a) ==
  a \in obj \/ (Adapter[OrderOf[a]] = "epay" /\ Unanswered(a))

NeedsUniqueBinding(e) ==
  EventKind[e] = "callback" /\ Adapter[OrderOf[EventAttempt[e]]] = "epay"

Applicable(e, a) ==
  /\ NeedsUniqueBinding(e) => Candidates(OrderOf[a]) = {a}
  /\ EventContract[e]
  /\ ObjectMatches(a)
  /\ CanApply(OrderOf[a])

(* A known event identity: same body, nothing changes; another body, one   *)
(* identity-conflict case.                                                 *)
SeenBefore(e, d) ==
  /\ ev[e].st # "none"
  /\ conflict' = IF ev[e].digest = d THEN conflict ELSE conflict \cup {e}
  /\ UNCHANGED <<orderVars, attemptVars, ev>>

ManualReview(e, d) ==
  /\ ev[e].st = "none"
  /\ ev' = [ev EXCEPT ![e] = [st |-> "manual_review", digest |-> d]]
  /\ UNCHANGED <<orderVars, attemptVars, conflict>>

MarkPaid(a) ==
  /\ att' = [att EXCEPT ![a] = "paid"]
  /\ obj' = obj \cup {a}
  /\ pay' = [pay EXCEPT ![OrderOf[a]] = "paid"]
  /\ UNCHANGED <<ful, hold, userHold, lapsed, overdue, prov>>

ProjectPayment(e, d, a) ==
  /\ ev[e].st = "none" /\ Applicable(e, a)
  /\ ev' = [ev EXCEPT ![e] = [st |-> "applied", digest |-> d]]
  /\ MarkPaid(a)
  /\ UNCHANGED conflict

(* Fault: a query that finds its event applied already has nothing to do.  *)
ApplyUnseenOnly(c) ==
  LET o == OrderOf[c.att]
      done == calls \ {c}
      held == IF c.op = "reconcile" THEN c.held ELSE hold[o]
  IN  /\ \/ SeenBefore(c.ev, c.digest) /\ calls' = done
         \/ /\ ~Applicable(c.ev, c.att)
            /\ ManualReview(c.ev, c.digest)
            /\ calls' = done
         \/ /\ ProjectPayment(c.ev, c.digest, c.att)
            /\ calls' = IF held THEN done ELSE done \cup {FulfillCall(o)}
      /\ UNCHANGED <<moneyVars, crashes>>

(* The whole of apply_verified_payment: the projection transaction, then,  *)
(* in a transaction of its own, fulfilment unless the order was held; the  *)
(* reconciler goes by the hold it read with its query.                     *)
ApplyVerifiedPayment(c) ==
  LET o == OrderOf[c.att]
      done == calls \ {c}
      held == IF c.op = "reconcile" THEN c.held ELSE hold[o]
      again == c.op = "project" /\ ev[c.ev].st = "applied"
                                /\ ev[c.ev].digest = c.digest
  IN  /\ \/ /\ SeenBefore(c.ev, c.digest)
            /\ calls' = IF again THEN done \cup {FulfillCall(o)} ELSE done
         \/ /\ ~Applicable(c.ev, c.att)
            /\ ManualReview(c.ev, c.digest)
            /\ calls' = done
         \/ /\ ProjectPayment(c.ev, c.digest, c.att)
            /\ calls' = IF held THEN done ELSE done \cup {FulfillCall(o)}
      /\ UNCHANGED <<moneyVars, crashes>>

(* Webhook: Stripe names the attempt, EPay only the order number.          *)
ReceiveCallback(e, d) ==
  LET o == OrderOf[EventAttempt[e]]
      bound == IF Adapter[o] = "epay" THEN Candidates(o) ELSE {EventAttempt[e]}
  IN  /\ EventKind[e] = "callback"
      /\ ProviderState(EventAttempt[e]) = "paid"
      /\ \/ /\ \E a \in bound : bound = {a} /\ Room
                 /\ calls' = calls \cup {CallbackCall(e, d, a)}
            /\ UNCHANGED <<orderVars, attemptVars, eventVars>>
         \/ /\ \A a \in bound : bound # {a}
            /\ SeenBefore(e, d) \/ ManualReview(e, d)
            /\ UNCHANGED calls
      /\ UNCHANGED <<moneyVars, crashes>>

ApplyCallback(c) ==
  /\ c \in calls /\ c.op = "callback"
  /\ ApplyVerifiedPayment(c)

Reprocessable(e) == ev[e].st = "manual_review" /\ e \notin conflict

(* An Admin reprocesses a stored event against the current rows.           *)
Reprocess(e) ==
  LET o == OrderOf[EventAttempt[e]]
      bound == IF NeedsUniqueBinding(e) THEN Candidates(o) ELSE {EventAttempt[e]}
  IN  /\ Reprocessable(e)
      /\ \E a \in bound :
           /\ bound = {a}
           /\ Applicable(e, a)
           /\ MarkPaid(a)
      /\ ev' = [ev EXCEPT ![e].st = "applied"]
      /\ calls' = IF hold[o] THEN calls ELSE calls \cup {FulfillCall(o)}
      /\ UNCHANGED <<conflict, moneyVars, crashes>>

-----------------------------------------------------------------------------
(* Provider queries by an Admin, by the buyer, and by the reconciler.      *)

Queryable(a) ==
  att[a] # "none" /\ (a \in obj \/ Adapter[OrderOf[a]] = "epay")

PaidAnswer(op, a) ==
  /\ ProviderState(a) = "paid"
  /\ \E e \in Event :
       /\ EventKind[e] = "query" /\ EventAttempt[e] = a
       /\ calls' = calls \cup {QueryCall(op, e, a)}

AdminQuery(a, close) ==
  LET o == OrderOf[a]
  IN  /\ Queryable(a) /\ Room
      /\ close => pay[o] = "unpaid"
      /\ ~(o \in LegacyClosed /\ pay[o] = "closed")
      /\ \/ PaidAnswer("project", a)
         \/ /\ close /\ ProviderState(a) # "paid"
            /\ calls' = calls \cup {AnswerCall("close", a)}
      /\ UNCHANGED <<orderVars, attemptVars, eventVars, moneyVars, crashes>>

BuyerQuery(a) ==
  /\ pay[OrderOf[a]] = "unpaid"
  /\ att[a] \in {"created", "presented"} /\ a \in obj /\ Room
  /\ PaidAnswer("project", a)
  /\ UNCHANGED <<orderVars, attemptVars, eventVars, moneyVars, crashes>>

ReconcileCandidate(a) ==
  /\ pay[OrderOf[a]] = "unpaid"
  /\ \/ att[a] = "presented" /\ a \in obj /\ a \in overdue
     \/ Adapter[OrderOf[a]] = "epay" /\ Unanswered(a)

(* An Unpaid or ambiguous answer about an unpresented attempt only opens a *)
(* payment_query case, which is not modelled.                              *)
ReconcileQuery(a) ==
  /\ ReconcileCandidate(a) /\ Queryable(a) /\ Room
  /\ \/ PaidAnswer("reconcile", a)
     \/ /\ ProviderState(a) # "paid" /\ att[a] = "presented"
        /\ calls' = calls \cup {AnswerCall("expire", a)}
     \/ /\ ProviderState(a) \in {"none", "closed"} /\ att[a] # "presented"
        /\ calls' = calls \cup {AnswerCall("release", a)}
  /\ UNCHANGED <<orderVars, attemptVars, eventVars, moneyVars, crashes>>

ProjectQuery(c) ==
  /\ c \in calls /\ c.op \in {"project", "reconcile"}
  /\ ApplyVerifiedPayment(c)

CloseOrder(a) ==
  /\ att' = [att EXCEPT ![a] = "expired"]
  /\ pay' = [pay EXCEPT ![OrderOf[a]] = "closed"]

Closable ==
  {"created", "presented", "failed_configuration", "failed_rejected"}

(* Fault: the unpaid answer is trusted although the order has moved on.    *)
MayCloseStale(a) == att[a] \in Closable

MayClose(a) ==
  LET o == OrderOf[a]
  IN  /\ pay[o] = "unpaid" /\ o \notin LegacyClosed
      /\ att[a] \in Closable
      /\ \A b \in AttemptsOf(o) \ {a} : att[b] \notin {"created", "presented"}

CloseConfirmedUnpaid(a) ==
  /\ AnswerCall("close", a) \in calls
  /\ calls' = calls \ {AnswerCall("close", a)}
  /\ IF MayClose(a) THEN CloseOrder(a) ELSE UNCHANGED <<att, pay>>
  /\ UNCHANGED <<ful, hold, userHold, lapsed, obj, overdue, prov,
                 eventVars, moneyVars, crashes>>

ExpireAttempt(a) ==
  /\ AnswerCall("expire", a) \in calls
  /\ calls' = calls \ {AnswerCall("expire", a)}
  /\ IF att[a] = "presented" /\ pay[OrderOf[a]] = "unpaid" /\ a \in overdue
     THEN CloseOrder(a)
     ELSE UNCHANGED <<att, pay>>
  /\ UNCHANGED <<ful, hold, userHold, lapsed, obj, overdue, prov,
                 eventVars, moneyVars, crashes>>

ReleaseUnpresentedAttempt(a) ==
  /\ AnswerCall("release", a) \in calls
  /\ calls' = calls \ {AnswerCall("release", a)}
  /\ att' = IF pay[OrderOf[a]] = "unpaid" /\ Unanswered(a)
            THEN [att EXCEPT ![a] = "expired"]
            ELSE att
  /\ UNCHANGED <<orderVars, obj, overdue, prov, eventVars, moneyVars, crashes>>

-----------------------------------------------------------------------------
(* Fulfilment.                                                             *)

(* The balance is parsed with parse_minor, which takes digits only: a      *)
(* negative balance is an error, not a smaller one.                        *)
FulfillmentEligible(o) ==
  /\ ful[o] # "fulfilled"
  /\ pay[o] = "paid" /\ ~hold[o]
  /\ Kind[o] = "balance" =>
       ledger[o]["fulfillment"] = 0 /\ balance[UserOf[o]] >= 0

AccrueSalesCommission(o) ==
  comm' = IF o \in Coded \cap Cny /\ comm[o] = "none"
          THEN [comm EXCEPT ![o] = "code"]
          ELSE comm

(* Fault: the balance is credited without a ledger row.                    *)
GrantRewardUnbooked(o) ==
  /\ balance' = [balance EXCEPT ![UserOf[o]] = @ + Reward[o]]
  /\ UNCHANGED <<ledger, ent, comm>>

GrantReward(o) ==
  IF Kind[o] = "balance"
  THEN /\ ledger' = [ledger EXCEPT ![o]["fulfillment"] = Reward[o]]
       /\ balance' = [balance EXCEPT ![UserOf[o]] = @ + Reward[o]]
       /\ AccrueSalesCommission(o)
       /\ UNCHANGED ent
  ELSE /\ ent' = [ent EXCEPT ![o] = "active"]
       /\ UNCHANGED <<ledger, balance, comm>>

FulfillPaidOrder(o) ==
  /\ FulfillCall(o) \in calls
  /\ calls' = calls \ {FulfillCall(o)}
  /\ IF FulfillmentEligible(o)
     THEN GrantReward(o) /\ ful' = [ful EXCEPT ![o] = "fulfilled"]
     ELSE UNCHANGED <<ful, ledger, balance, ent, comm>>
  /\ UNCHANGED <<pay, hold, userHold, lapsed, attemptVars, eventVars,
                 spent, crashes>>

FulfillmentCandidate(o) == pay[o] = "paid" /\ ful[o] = "pending" /\ ~hold[o]

ReconcileFulfillment(o) ==
  /\ FulfillmentCandidate(o)
  /\ calls' = calls \cup {FulfillCall(o)}
  /\ UNCHANGED <<orderVars, attemptVars, eventVars, moneyVars, crashes>>

(* An agent, or an Admin for the agent, claims a past order.  A plan quote *)
(* has no face value to take a commission of.                              *)
ClaimCommission(o) ==
  /\ pay[o] = "paid" /\ ful[o] = "fulfilled"
  /\ o \in Cny /\ Kind[o] = "balance" /\ comm[o] = "none"
  /\ comm' = [comm EXCEPT ![o] = "claim"]
  /\ UNCHANGED <<orderVars, attemptVars, eventVars, ledger, balance, spent,
                 ent, calls, crashes>>

-----------------------------------------------------------------------------
(* The world around the Store.                                             *)

(* A buyer learns where to pay a Stripe session from the presented attempt; *)
(* an EPay trade may be paid although its answer never came back.          *)
ProviderStep(a) ==
  /\ \/ /\ \E op \in {"checkout", "resume"} : CheckoutCall(op, a) \in calls
        /\ prov[a] = "none"
        /\ prov' = [prov EXCEPT ![a] = "open"]
     \/ /\ prov[a] = "open"
        /\ Adapter[OrderOf[a]] = "epay" \/ a \in obj
        /\ prov' = [prov EXCEPT ![a] = "paid"]
     \/ /\ prov[a] = "open"
        /\ prov' = [prov EXCEPT ![a] = "closed"]
  /\ UNCHANGED <<orderVars, att, obj, overdue, eventVars, moneyVars, calls, crashes>>

ClockStep ==
  /\ \/ /\ \E o \in Order \ lapsed :
             pay[o] # "none" /\ lapsed' = lapsed \cup {o}
        /\ UNCHANGED overdue
     \/ /\ \E a \in obj \ overdue : overdue' = overdue \cup {a}
        /\ UNCHANGED lapsed
  /\ UNCHANGED <<pay, ful, hold, userHold, att, obj, prov, eventVars,
                 moneyVars, calls, crashes>>

(* API usage is charged without looking at the sign of the result.         *)
Spend(u) ==
  /\ spent[u] < MaxSpend
  /\ spent' = [spent EXCEPT ![u] = @ + 1]
  /\ balance' = [balance EXCEPT ![u] = @ - 1]
  /\ UNCHANGED <<orderVars, attemptVars, eventVars, ledger, ent, comm,
                 calls, crashes>>

Crash ==
  /\ crashes < MaxCrashes
  /\ crashes' = crashes + 1
  /\ calls' = {}
  /\ UNCHANGED <<orderVars, attemptVars, eventVars, moneyVars>>

Step ==
  \/ \E o \in Order :
       \/ CreateOrder(o) \/ FulfillPaidOrder(o) \/ ReconcileFulfillment(o)
       \/ ClaimCommission(o)
  \/ \E a \in Attempt :
       \/ CreateAttempt(a) \/ ResumeCheckout(a)
       \/ \E op \in {"checkout", "resume"} :
            \/ PresentAttempt(op, a) \/ LoseCheckout(op, a)
            \/ \E f \in {"failed_configuration", "failed_rejected"} :
                 FailAttempt(op, a, f)
       \/ \E close \in BOOLEAN : AdminQuery(a, close)
       \/ BuyerQuery(a) \/ ReconcileQuery(a)
       \/ CloseConfirmedUnpaid(a) \/ ExpireAttempt(a)
       \/ ReleaseUnpresentedAttempt(a)
       \/ ProviderStep(a)
  \/ \E e \in Event : (\E d \in Digest : ReceiveCallback(e, d)) \/ Reprocess(e)
  \/ \E c \in calls : ApplyCallback(c) \/ ProjectQuery(c)
  \/ ClockStep
  \/ \E u \in User : Spend(u)

Next == Step \/ Crash

Spec == Init /\ [][Next]_payVars

(* What a host that keeps calling StoreReconciler::run_once and lets its    *)
(* transactions finish provides; the scheduler itself is gated by SB-OP-0. *)
Reconciled ==
  \A o \in Order :
    WF_payVars(ReconcileFulfillment(o)) /\ WF_payVars(FulfillPaidOrder(o))

ReconciledSpec == Spec /\ Reconciled

-----------------------------------------------------------------------------
(* Properties.                                                             *)

Settled == {"paid", "refund_pending", "refunded"}

(* An order is settled exactly when one verified event that agrees with it *)
(* has been applied: no query, close, expiry or replay invents or undoes a *)
(* payment, in whatever order they commit (callbacks.rs, order.rs,         *)
(* reconciliation.rs).                                                     *)
PaidIffEvidence ==
  \A o \in Order :
    pay[o] \in Settled <=>
      \E e \in Event : /\ ev[e].st = "applied" /\ EventContract[e]
                       /\ OrderOf[EventAttempt[e]] = o

(* No order is paid through two of its attempts: nothing in the projection *)
(* looks for a second payment, so the attempt and close rules alone must   *)
(* keep one from happening.                                                *)
OnePaidAttempt ==
  \A a, b \in Attempt :
    OrderOf[a] = OrderOf[b] /\ att[a] = "paid" /\ att[b] = "paid" => a = b

(* An EPay callback names only the order.  At no time do two attempts of   *)
(* the order match it, so a genuine payment is never parked for review     *)
(* because its binding is ambiguous (load_bound_epay_attempt).             *)
UniqueBinding ==
  \A o \in Order :
    Adapter[o] = "epay" => \A a, b \in Candidates(o) : a = b

(* The fulfilment credit of an order is in the ledger exactly when the     *)
(* order row says fulfilled, once and in full (SB-RC-2, SB-RC-4).          *)
CreditedExactlyOnce ==
  \A o \in Order :
    ledger[o]["fulfillment"] =
      IF ful[o] = "fulfilled" /\ Kind[o] = "balance" THEN Reward[o] ELSE 0

SumOver(S, f) == MapThenSumSet(LAMBDA x : f[x], S)

LedgerTotal == [o \in Order |-> SumOver(LedgerKinds, ledger[o])]

(* A user's balance is what the ledger rows of the user's orders add up to *)
(* less the API usage: no committed transaction moves money without a row. *)
BalanceExplained ==
  \A u \in User :
    balance[u] =
      SumOver({o \in Order : UserOf[o] = u}, LedgerTotal) - spent[u]

(* The SQL updates take an order only along the transitions declared by    *)
(* transition_payment and transition_fulfillment in state_machine.rs.      *)
LifecycleRefined == Lifecycle!Spec

(* What the operations chapter says of the reconciler: a paid order off    *)
(* hold is eventually fulfilled or stops being owed (SB-RC-1,              *)
(* fulfillment_candidates).                                                *)
PaidIsFulfilled ==
  \A o \in Order :
    (pay[o] = "paid" /\ ~hold[o])
      ~> (ful[o] = "fulfilled" \/ pay[o] # "paid" \/ hold[o])

Stranded(o) ==
  /\ pay[o] = "paid" /\ ~hold[o] /\ ful[o] = "pending"
  /\ FulfillCall(o) \notin calls

(* A query of an Admin or the buyer about the paid attempt is projected.   *)
PaidQueryProjected(o) ==
  \E c \in calls \ calls' :
    c.op = "project" /\ OrderOf[c.att] = o /\ att[c.att] = "paid"

(* Without a reconciler, a paid order loses its fulfilment only to a       *)
(* restart between the projection and the fulfilment or to an overdrawn    *)
(* balance, whichever of repeated callbacks, queries and reprocessing      *)
(* overlap; and the next projected query about it takes the fulfilment up  *)
(* again (apply_verified_payment, project_paid_query).                     *)
FulfilmentPursued ==
  [][\A o \in Order : Stranded(o)' =>
       \/ Stranded(o) /\ ~PaidQueryProjected(o)
       \/ crashes' # crashes
       \/ balance[UserOf[o]] < 0]_payVars
=============================================================================
